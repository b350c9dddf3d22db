------------------------ MODULE WritePipelineProofs ------------------------
(***************************************************************************)
(* Theorems about WritePipeline, for every value of its constants.         *)
(***************************************************************************)
EXTENDS WritePipeline, FiniteSetTheorems, TLAPS

-----------------------------------------------------------------------------
(* Type correctness.                                                       *)

\* A task that waits for apply_write is at an intent: the loop of a run has not moved on
\* during the await, and an approval has its intent.
FlightInv ==
    \A t \in Tasks : pc[t] = "applying" =>
        IF t \in Runs THEN position[t] \in DOMAIN Proposals[t] ELSE approves[t] \in Intents

TypeInv == TypeOK /\ FlightInv

\* A position of the loop is an index of the proposals, and the next one stays in range.
LEMMA PositionLemma ==
    ASSUME TypeOK, NEW r \in Runs, position[r] \in DOMAIN Proposals[r]
    PROVE  /\ Current(r) \in Intents
           /\ Current(r) \in ProposedBy(r)
           /\ position[r] + 1 \in 1..(Len(Proposals[r]) + 1)
           /\ position[r] + 1 \in Nat
  <1>1. Proposals[r] \in Seq(Intents)
    BY ProposalsAssumption
  <1>2. DOMAIN Proposals[r] = 1..Len(Proposals[r]) /\ Len(Proposals[r]) \in Nat
    BY <1>1
  <1>3. Current(r) \in Intents
    BY <1>1, <1>2 DEF Current
  <1>4. Current(r) \in ProposedBy(r)
    BY DEF Current, ProposedBy
  <1> QED
    BY <1>2, <1>3, <1>4

\* What a waiting task applies is an intent, one of its own proposals if it is a run.
LEMMA SubjectLemma ==
    ASSUME TypeInv, NEW t \in Tasks, pc[t] = "applying"
    PROVE  /\ Subject(t) \in Intents
           /\ t \in Runs => /\ position[t] \in DOMAIN Proposals[t]
                            /\ Subject(t) = Current(t)
           /\ t \notin Runs => Subject(t) = approves[t]
  BY PositionLemma DEF TypeInv, FlightInv, Subject, Tasks

\* Settling an intent keeps the types, and only its own task moves.
LEMMA SettleLemma ==
    ASSUME TypeInv, NEW t \in Tasks, NEW i \in Intents,
           NEW s \in {"proposed", "pending", "rejected", "applied", "failed"},
           t \in Runs => position[t] \in DOMAIN Proposals[t],
           Settle(t, i, s)
    PROVE  /\ turn' \in Tasks \cup {None}
           /\ pc' \in [Tasks -> PcValues]
           /\ position' \in [Runs -> Nat]
           /\ \A r \in Runs : position'[r] \in 1..(Len(Proposals[r]) + 1)
           /\ status' \in [Intents ->
                             {"proposed", "pending", "rejected", "applied", "failed"}]
           /\ ledgered' \subseteq Intents
           /\ pc'[t] \in {"loop", "done"}
           /\ \A u \in Tasks : u # t => /\ pc'[u] = pc[u]
                                        /\ u \in Runs => position'[u] = position[u]
  <1>1. CASE t \in Runs
    <2>1. t \notin Approvals
      BY <1>1, TasksAssumption
    <2>2. /\ position[t] + 1 \in 1..(Len(Proposals[t]) + 1)
          /\ position[t] + 1 \in Nat
      BY <1>1, PositionLemma DEF TypeInv
    <2>3. /\ position' = [position EXCEPT ![t] = position[t] + 1]
          /\ pc' = [pc EXCEPT ![t] = "loop"]
          /\ turn' = t
          /\ status' = [status EXCEPT ![i] = s]
          /\ ledgered' = ledgered \cup {i}
      BY <2>1 DEF Settle
    <2>4. /\ position' \in [Runs -> Nat]
          /\ \A r \in Runs : position'[r] \in 1..(Len(Proposals[r]) + 1)
      BY <1>1, <2>2, <2>3 DEF TypeInv, TypeOK
    <2> QED
      BY <1>1, <2>3, <2>4 DEF TypeInv, TypeOK, Tasks, PcValues
  <1>2. CASE t \notin Runs
    BY <1>2 DEF Settle, TypeInv, TypeOK, Tasks, PcValues
  <1> QED
    BY <1>1, <1>2

\* The task of a step goes to s and no other task moves: the others still wait for what
\* they waited for, and so does it if it waits now.
LEMMA FlightLemma ==
    ASSUME TypeInv, NEW t \in Tasks,
           \A u \in Tasks : u # t =>
               /\ pc'[u] = pc[u]
               /\ u \in Runs => position'[u] = position[u]
               /\ u \notin Runs => approves'[u] = approves[u],
           pc'[t] = "applying" =>
               IF t \in Runs THEN position'[t] \in DOMAIN Proposals[t] ELSE approves'[t] \in Intents
    PROVE  FlightInv'
  BY DEF TypeInv, FlightInv

\* Accepting an intent adds it to the count of its run, and leaves the other runs alone.
LEMMA AcceptLemma ==
    ASSUME TypeOK, NEW r \in Runs, position[r] \in DOMAIN Proposals[r],
           accepted' = accepted \/ Accept(r)
    PROVE  /\ accepted' \in [Runs -> SUBSET Intents]
           /\ \A q \in Runs : accepted[q] \subseteq accepted'[q]
           /\ \A q \in Runs : q # r => accepted'[q] = accepted[q]
  <1>1. accepted \in [Runs -> SUBSET Intents]
    BY DEF TypeOK
  <1>2. Current(r) \in Intents
    BY PositionLemma
  <1> QED
    BY <1>1, <1>2 DEF Accept

\* A step that settles an intent keeps the types when it keeps those of the rest.
LEMMA SettleStep ==
    ASSUME TypeInv, NEW t \in Tasks, NEW i \in Intents,
           NEW s \in {"proposed", "pending", "rejected", "applied", "failed"},
           t \in Runs => position[t] \in DOMAIN Proposals[t],
           Settle(t, i, s),
           accepted' \in [Runs -> SUBSET Intents],
           approves' \in [Approvals -> Intents \cup {None}],
           \A c \in Approvals : c # t => approves'[c] = approves[c],
           appliedKeys' \subseteq Keys,
           inTransit' \subseteq Calls,
           answered' \subseteq Calls,
           UNCHANGED <<config, runStatus, landed>>
    PROVE  TypeInv'
  <1>1. /\ turn' \in Tasks \cup {None}
        /\ pc' \in [Tasks -> PcValues]
        /\ position' \in [Runs -> Nat]
        /\ \A r \in Runs : position'[r] \in 1..(Len(Proposals[r]) + 1)
        /\ status' \in [Intents -> {"proposed", "pending", "rejected", "applied", "failed"}]
        /\ ledgered' \subseteq Intents
        /\ pc'[t] \in {"loop", "done"}
        /\ \A u \in Tasks : u # t => /\ pc'[u] = pc[u]
                                     /\ u \in Runs => position'[u] = position[u]
    BY SettleLemma
  <1>2. TypeOK'
    BY <1>1 DEF TypeInv, TypeOK
  <1>3. FlightInv'
    BY <1>1, FlightLemma DEF Tasks
  <1> QED
    BY <1>2, <1>3 DEF TypeInv

\* A step that sends the request for an intent keeps the types.
LEMMA SendStep ==
    ASSUME TypeInv, NEW t \in Tasks, NEW i \in Intents,
           Send(t, i),
           accepted' \in [Runs -> SUBSET Intents],
           approves' \in [Approvals -> Intents \cup {None}],
           \A c \in Approvals : c # t => approves'[c] = approves[c],
           IF t \in Runs THEN position[t] \in DOMAIN Proposals[t] ELSE approves'[t] \in Intents,
           UNCHANGED config
    PROVE  TypeInv'
  <1>1. TypeOK'
    BY DEF Send, TypeInv, TypeOK, PcValues, Tasks, Calls, ledger
  <1>2. FlightInv'
    BY FlightLemma DEF Send, TypeInv, TypeOK, Tasks
  <1> QED
    BY <1>1, <1>2 DEF TypeInv

\* Every step keeps the types.
LEMMA TypeStep ==
    ASSUME TypeInv, [Next]_vars
    PROVE  TypeInv'
  <1>1. CASE UNCHANGED vars
    BY <1>1 DEF vars, flow, ledger, world, TypeInv, TypeOK, FlightInv
  <1>2. ASSUME NEW r \in Runs, StartRun(r)
        PROVE  TypeInv'
    <2>1. TypeOK'
      BY <1>2 DEF StartRun, world, TypeInv, TypeOK, PcValues, Tasks
    <2>2. FlightInv'
      BY <1>2, FlightLemma DEF StartRun, world, TypeInv, TypeOK, Tasks
    <2> QED
      BY <2>1, <2>2 DEF TypeInv
  <1>3. ASSUME NEW r \in Runs,
               AgentFails(r) \/ AutoApproveRaises(r) \/ FinishRun(r) \/ FinishRaises(r)
        PROVE  TypeInv'
    <2>1. /\ \E s \in {"none", "running", "succeeded", "failed"} : CloseRun(r, s)
          /\ accepted' = accepted \/ (position[r] \in DOMAIN Proposals[r] /\ Accept(r))
          /\ UNCHANGED <<config, position, approves, status, ledgered, appliedKeys, world>>
      <3>1. runStatus[r] \in {"none", "running", "succeeded", "failed"}
        BY DEF TypeInv, TypeOK
      <3> QED
        BY <1>3, <3>1 DEF AgentFails, AutoApproveRaises, FinishRun, FinishRaises, AtIntent
    <2>2. accepted' \in [Runs -> SUBSET Intents]
      <3>1. CASE accepted' = accepted
        BY <3>1 DEF TypeInv, TypeOK
      <3>2. CASE position[r] \in DOMAIN Proposals[r] /\ Accept(r)
        BY <3>2, AcceptLemma DEF TypeInv
      <3> QED
        BY <2>1, <3>1, <3>2
    <2>3. TypeOK'
      <3>1. PICK s \in {"none", "running", "succeeded", "failed"} : CloseRun(r, s)
        BY <2>1
      <3> QED
        BY <2>1, <2>2, <3>1 DEF CloseRun, world, TypeInv, TypeOK, PcValues, Tasks
    <2>4. FlightInv'
      BY <2>1, FlightLemma DEF CloseRun, TypeInv, TypeOK, Tasks
    <2> QED
      BY <2>3, <2>4 DEF TypeInv
  <1>4. ASSUME NEW r \in Runs, AgentReturns(r)
        PROVE  TypeInv'
    <2>1. Len(Proposals[r]) \in Nat
      BY ProposalsAssumption
    <2>2. TypeOK'
      BY <1>4, <2>1 DEF AgentReturns, ledger, world, TypeInv, TypeOK, PcValues, Tasks
    <2>3. FlightInv'
      BY <1>4, FlightLemma DEF AgentReturns, TypeInv, TypeOK, Tasks
    <2> QED
      BY <2>2, <2>3 DEF TypeInv
  <1>5. ASSUME NEW r \in Runs,
               RejectByPolicy(r) \/ KeepProposed(r) \/ QueueForApproval(r)
        PROVE  TypeInv'
    <2>1. /\ position[r] \in DOMAIN Proposals[r]
          /\ \E s \in {"proposed", "pending", "rejected"} : Settle(r, Current(r), s)
          /\ accepted' = accepted \/ Accept(r)
          /\ UNCHANGED <<config, approves, runStatus, appliedKeys, world>>
      BY <1>5 DEF RejectByPolicy, KeepProposed, QueueForApproval, AtIntent
    <2>2. Current(r) \in Intents
      BY <2>1, PositionLemma DEF TypeInv
    <2>3. accepted' \in [Runs -> SUBSET Intents]
      BY <2>1, AcceptLemma DEF TypeInv
    <2>4. PICK s \in {"proposed", "pending", "rejected"} : Settle(r, Current(r), s)
      BY <2>1
    <2>5. /\ appliedKeys' \subseteq Keys /\ inTransit' \subseteq Calls
          /\ answered' \subseteq Calls
          /\ UNCHANGED <<config, runStatus, landed>>
          /\ approves' \in [Approvals -> Intents \cup {None}]
          /\ approves' = approves
      BY <2>1 DEF world, TypeInv, TypeOK
    <2> QED
      BY <2>1, <2>2, <2>3, <2>4, <2>5, SettleStep DEF Tasks
  <1>6. ASSUME NEW t \in Tasks, NEW i \in Intents, ApplyIntent(t, i),
               accepted' \in [Runs -> SUBSET Intents],
               approves' \in [Approvals -> Intents \cup {None}],
               \A c \in Approvals : c # t => approves'[c] = approves[c],
               IF t \in Runs THEN position[t] \in DOMAIN Proposals[t] ELSE approves'[t] \in Intents,
               UNCHANGED config
        PROVE  TypeInv'
    <2>1. CASE NeedsWrite(i) /\ Send(t, i)
      BY <1>6, <2>1, SendStep
    <2>2. CASE /\ Settle(t, i, StatusWithoutWrite(i))
               /\ UNCHANGED <<runStatus, appliedKeys, world>>
      <3>1. StatusWithoutWrite(i) \in {"applied", "failed"}
        BY DEF StatusWithoutWrite
      <3>2. /\ appliedKeys' \subseteq Keys /\ inTransit' \subseteq Calls
            /\ answered' \subseteq Calls
            /\ UNCHANGED <<config, runStatus, landed>>
        BY <1>6, <2>2 DEF world, TypeInv, TypeOK
      <3> QED
        BY <1>6, <2>2, <3>1, <3>2, SettleStep
    <2> QED
      BY <1>6, <2>1, <2>2 DEF ApplyIntent
  <1>7. ASSUME NEW r \in Runs, AutoApply(r)
        PROVE  TypeInv'
    <2>1. /\ position[r] \in DOMAIN Proposals[r]
          /\ Accept(r)
          /\ ApplyIntent(r, Current(r))
          /\ UNCHANGED <<config, approves>>
      BY <1>7 DEF AutoApply, AtIntent
    <2>2. Current(r) \in Intents
      BY <2>1, PositionLemma DEF TypeInv
    <2>3. accepted' \in [Runs -> SUBSET Intents]
      BY <2>1, <2>2 DEF Accept, TypeInv, TypeOK
    <2>4. approves' \in [Approvals -> Intents \cup {None}] /\ approves' = approves
      BY <2>1 DEF TypeInv, TypeOK
    <2> QED
      BY <1>6, <2>1, <2>2, <2>3, <2>4 DEF Tasks
  <1>8. ASSUME NEW c \in Approvals, NEW i \in Intents, Approve(c, i)
        PROVE  TypeInv'
    <2>1. /\ approves' \in [Approvals -> Intents \cup {None}]
          /\ approves'[c] = i
          /\ \A e \in Approvals : e # c => approves'[e] = approves[e]
          /\ accepted' \in [Runs -> SUBSET Intents]
          /\ UNCHANGED config
          /\ ApplyIntent(c, i)
      BY <1>8 DEF Approve, TypeInv, TypeOK
    <2>2. c \notin Runs
      BY TasksAssumption
    <2> QED
      BY <1>6, <2>1, <2>2 DEF Tasks
  <1>9. ASSUME NEW i \in Intents, RejectIntent(i)
        PROVE  TypeInv'
    BY <1>9 DEF RejectIntent, flow, world, TypeInv, TypeOK, FlightInv
  <1>10. ASSUME NEW t \in Tasks, ApplySucceeds(t)
         PROVE  TypeInv'
    <2>1. /\ Subject(t) \in Intents
          /\ t \in Runs => position[t] \in DOMAIN Proposals[t]
      BY <1>10, SubjectLemma DEF ApplySucceeds
    <2>2. /\ appliedKeys' \subseteq Keys /\ inTransit' \subseteq Calls
          /\ answered' \subseteq Calls
          /\ UNCHANGED <<config, runStatus, landed>>
          /\ accepted' \in [Runs -> SUBSET Intents]
          /\ approves' \in [Approvals -> Intents \cup {None}] /\ approves' = approves
      BY <1>10, <2>1, IntentsAssumption DEF ApplySucceeds, Calls, TypeInv, TypeOK
    <2> QED
      BY <1>10, <2>1, <2>2, SettleStep DEF ApplySucceeds
  <1>11. ASSUME NEW t \in Tasks, ApplyRaises(t)
         PROVE  TypeInv'
    <2>1. /\ Subject(t) \in Intents
          /\ t \in Runs => position[t] \in DOMAIN Proposals[t]
      BY <1>11, SubjectLemma DEF ApplyRaises
    <2>2. /\ appliedKeys' \subseteq Keys /\ inTransit' \subseteq Calls
          /\ answered' \subseteq Calls
          /\ UNCHANGED <<config, runStatus, landed>>
          /\ accepted' \in [Runs -> SUBSET Intents]
          /\ approves' \in [Approvals -> Intents \cup {None}] /\ approves' = approves
      BY <1>11 DEF ApplyRaises, TypeInv, TypeOK
    <2> QED
      BY <1>11, <2>1, <2>2, SettleStep DEF ApplyRaises
  <1>12. ASSUME NEW t \in Tasks, Cancel(t)
         PROVE  TypeInv'
    <2>1. TypeOK'
      BY <1>12 DEF Cancel, ledger, world, TypeInv, TypeOK, PcValues
    <2>2. FlightInv'
      BY <1>12, FlightLemma DEF Cancel, TypeInv, TypeOK
    <2> QED
      BY <2>1, <2>2 DEF TypeInv
  <1>13. ASSUME NEW t \in Tasks, NEW i \in Intents, Land(t, i)
         PROVE  TypeInv'
    <2>1. KeyOf[i] \in Keys
      BY IntentsAssumption
    <2> QED
      BY <1>13, <2>1 DEF Land, flow, ledger, Calls, TypeInv, TypeOK, FlightInv
  <1> QED
    BY <1>1, <1>2, <1>3, <1>4, <1>5, <1>7, <1>8, <1>9, <1>10, <1>11, <1>12, <1>13
       DEF Next, RunStep, Answer

\* Every reachable state has its type, and a waiting task has its intent.
LEMMA TypeInvariant == Spec => []TypeInv
  <1>1. Init => TypeInv
    <2> SUFFICES ASSUME Init PROVE TypeInv
      OBVIOUS
    <2>1. \A r \in Runs : Len(Proposals[r]) \in Nat
      BY ProposalsAssumption
    <2> QED
      BY <2>1 DEF Init, TypeInv, TypeOK, FlightInv, PcValues, Tasks
  <1>2. TypeInv /\ [Next]_vars => TypeInv'
    BY TypeStep
  <1> QED
    BY <1>1, <1>2, PTL DEF Spec

\* Type correctness of the pipeline: the state of the loop, the ledger and the remote
\* system keeps its shape, whatever the constants.
THEOREM TypeCorrect == Spec => []TypeOK
  BY TypeInvariant, PTL DEF TypeInv

-----------------------------------------------------------------------------
(* What a step can do to the calls of apply_write, to the queue of pending  *)
(* intents and to the tasks.                                               *)

\* Only the loop of a run and an approval send, and only where _apply_intent says so.
LEMMA CallsLemma ==
    ASSUME TypeInv, [Next]_vars,
           NEW call \in (inTransit \cup landed)', call \notin inTransit \cup landed
    PROVE  \E t \in Tasks, i \in Intents :
               /\ call = <<t, i>>
               /\ NeedsWrite(i)
               /\ \/ t \in Runs /\ AutoApply(t) /\ i = Current(t)
                  \/ t \in Approvals /\ Approve(t, i)
  <1> DEFINE Goal == \E t \in Tasks, i \in Intents :
               /\ call = <<t, i>>
               /\ NeedsWrite(i)
               /\ \/ t \in Runs /\ AutoApply(t) /\ i = Current(t)
                  \/ t \in Approvals /\ Approve(t, i)
  <1>1. ASSUME NEW t \in Tasks, NEW i \in Intents, ApplyIntent(t, i)
        PROVE  NeedsWrite(i) /\ call = <<t, i>>
    BY <1>1 DEF ApplyIntent, Send, world
  <1>2. ASSUME NEW r \in Runs, AutoApply(r)
        PROVE  Goal
    <2>1. Current(r) \in Intents /\ r \in Tasks
      BY <1>2, PositionLemma DEF AutoApply, AtIntent, TypeInv, Tasks
    <2>2. ApplyIntent(r, Current(r))
      BY <1>2 DEF AutoApply
    <2> QED
      BY <1>1, <1>2, <2>1, <2>2
  <1>3. ASSUME NEW c \in Approvals, NEW i \in Intents, Approve(c, i)
        PROVE  Goal
    <2>1. ApplyIntent(c, i) /\ c \in Tasks
      BY <1>3 DEF Approve, Tasks
    <2> QED
      BY <1>1, <1>3, <2>1
  <1>4. ASSUME NEW r \in Runs, StartRun(r) \/ (RunStep(r) /\ ~ AutoApply(r))
        PROVE  FALSE
    BY <1>4 DEF StartRun, RunStep, AgentFails, AgentReturns, RejectByPolicy, KeepProposed,
         QueueForApproval, AutoApproveRaises, FinishRun, FinishRaises, world
  <1>5. ASSUME NEW t \in Tasks, Answer(t) \/ Cancel(t)
        PROVE  FALSE
    BY <1>5 DEF Answer, ApplySucceeds, ApplyRaises, Cancel, world
  <1>6. ASSUME NEW i \in Intents, RejectIntent(i)
        PROVE  FALSE
    BY <1>6 DEF RejectIntent, world
  <1>7. ASSUME NEW t \in Tasks, NEW i \in Intents, Land(t, i)
        PROVE  FALSE
    BY <1>7 DEF Land
  <1>8. CASE UNCHANGED vars
    BY <1>8 DEF vars, world
  <1> HIDE DEF Goal
  <1>9. Goal
    BY <1>2, <1>3, <1>4, <1>5, <1>6, <1>7, <1>8 DEF Next
  <1> QED
    BY <1>9 DEF Goal

\* Only the loop of a run puts an intent in the queue.
LEMMA PendingLemma ==
    ASSUME TypeInv, [Next]_vars,
           NEW i \in Intents, status'[i] = "pending", status[i] # "pending"
    PROVE  \E r \in Runs : QueueForApproval(r) /\ i = Current(r)
  <1>1. ASSUME NEW t \in Tasks, NEW j \in Intents, NEW s, s # "pending", Settle(t, j, s)
        PROVE  FALSE
    BY <1>1 DEF Settle, TypeInv, TypeOK
  <1>2. ASSUME NEW t \in Tasks, NEW j \in Intents, ApplyIntent(t, j)
        PROVE  FALSE
    <2>1. CASE Send(t, j)
      BY <2>1 DEF Send, ledger
    <2>2. CASE Settle(t, j, StatusWithoutWrite(j))
      BY <1>1, <2>2 DEF StatusWithoutWrite
    <2> QED
      BY <1>2, <2>1, <2>2 DEF ApplyIntent
  <1>3. ASSUME NEW r \in Runs, RejectByPolicy(r) \/ KeepProposed(r) \/ AutoApply(r)
        PROVE  FALSE
    <2>1. Current(r) \in Intents /\ r \in Tasks
      BY <1>3, PositionLemma
         DEF RejectByPolicy, KeepProposed, AutoApply, AtIntent, TypeInv, Tasks
    <2> QED
      BY <1>1, <1>2, <1>3, <2>1 DEF RejectByPolicy, KeepProposed, AutoApply
  <1>4. ASSUME NEW r \in Runs, QueueForApproval(r)
        PROVE  i = Current(r)
    BY <1>4 DEF QueueForApproval, Settle, TypeInv, TypeOK
  <1>5. ASSUME NEW r \in Runs,
               StartRun(r) \/ AgentFails(r) \/ AgentReturns(r) \/ AutoApproveRaises(r)
                 \/ FinishRun(r) \/ FinishRaises(r)
        PROVE  FALSE
    BY <1>5 DEF StartRun, AgentFails, AgentReturns, AutoApproveRaises, FinishRun,
         FinishRaises, ledger
  <1>6. ASSUME NEW t \in Tasks, Answer(t)
        PROVE  FALSE
    <2>1. Subject(t) \in Intents
      BY <1>6, SubjectLemma DEF Answer, ApplySucceeds, ApplyRaises
    <2> QED
      BY <1>1, <1>6, <2>1 DEF Answer, ApplySucceeds, ApplyRaises
  <1>7. ASSUME NEW c \in Approvals, NEW j \in Intents, Approve(c, j)
        PROVE  FALSE
    BY <1>2, <1>7 DEF Approve, Tasks
  <1>8. ASSUME NEW j \in Intents, RejectIntent(j)
        PROVE  FALSE
    BY <1>8 DEF RejectIntent, TypeInv, TypeOK
  <1>9. ASSUME NEW t \in Tasks, NEW j \in Intents, Cancel(t) \/ Land(t, j)
        PROVE  FALSE
    BY <1>9 DEF Cancel, Land, ledger
  <1>10. CASE UNCHANGED vars
    BY <1>10 DEF vars, ledger
  <1>11. Intents # {}
    OBVIOUS
  <1> QED
    BY <1>3, <1>4, <1>5, <1>6, <1>7, <1>8, <1>9, <1>10, <1>11 DEF Next, RunStep

\* The engine is not reconfigured, a task that was started stays so, and an approval keeps
\* the intent it was made for.
LEMMA FrameLemma ==
    ASSUME TypeInv, [Next]_vars
    PROVE  /\ config' = config
           /\ \A t \in Tasks : pc[t] # "idle" => pc'[t] # "idle"
           /\ \A c \in Approvals : pc[c] # "idle" => approves'[c] = approves[c]
  <1> DEFINE Goal == /\ config' = config
                     /\ \A t \in Tasks : pc[t] # "idle" => pc'[t] # "idle"
                     /\ \A c \in Approvals : pc[c] # "idle" => approves'[c] = approves[c]
  <1>1. pc \in [Tasks -> PcValues] /\ approves \in [Approvals -> Intents \cup {None}]
    BY DEF TypeInv, TypeOK
  <1>2. ASSUME NEW t \in Tasks, NEW j, NEW s, Settle(t, j, s)
        PROVE  \A u \in Tasks : pc[u] # "idle" => pc'[u] # "idle"
    BY <1>1, <1>2 DEF Settle
  <1>3. ASSUME NEW t \in Tasks, NEW j, ApplyIntent(t, j)
        PROVE  \A u \in Tasks : pc[u] # "idle" => pc'[u] # "idle"
    BY <1>1, <1>2, <1>3 DEF ApplyIntent, Send
  <1>4. ASSUME NEW r \in Runs, StartRun(r) \/ RunStep(r)
        PROVE  Goal
    <2>1. UNCHANGED <<config, approves>>
      BY <1>4 DEF StartRun, RunStep, AgentFails, AgentReturns, RejectByPolicy, KeepProposed,
         QueueForApproval, AutoApproveRaises, AutoApply, FinishRun, FinishRaises
    <2>2. r \in Tasks
      BY DEF Tasks
    <2>3. CASE \/ StartRun(r) \/ AgentFails(r) \/ AgentReturns(r) \/ AutoApproveRaises(r)
               \/ FinishRun(r) \/ FinishRaises(r)
      BY <1>1, <2>1, <2>2, <2>3 DEF StartRun, AgentFails, AgentReturns, AutoApproveRaises,
         FinishRun, FinishRaises, CloseRun
    <2>4. CASE RejectByPolicy(r) \/ KeepProposed(r) \/ QueueForApproval(r) \/ AutoApply(r)
      BY <1>2, <1>3, <2>1, <2>2, <2>4
         DEF RejectByPolicy, KeepProposed, QueueForApproval, AutoApply
    <2> QED
      BY <1>4, <2>3, <2>4 DEF RunStep
  <1>5. ASSUME NEW c \in Approvals, NEW i \in Intents, Approve(c, i)
        PROVE  Goal
    BY <1>1, <1>3, <1>5 DEF Approve, Tasks
  <1>6. ASSUME NEW i \in Intents, RejectIntent(i)
        PROVE  Goal
    BY <1>6 DEF RejectIntent, flow
  <1>7. ASSUME NEW t \in Tasks, Answer(t)
        PROVE  Goal
    BY <1>2, <1>7 DEF Answer, ApplySucceeds, ApplyRaises
  <1>8. ASSUME NEW t \in Tasks, Cancel(t)
        PROVE  Goal
    BY <1>1, <1>8 DEF Cancel
  <1>9. ASSUME NEW t \in Tasks, NEW i \in Intents, Land(t, i)
        PROVE  Goal
    BY <1>9 DEF Land, flow
  <1>10. CASE UNCHANGED vars
    BY <1>10 DEF vars, flow
  <1> QED
    BY <1>4, <1>5, <1>6, <1>7, <1>8, <1>9, <1>10 DEF Next

-----------------------------------------------------------------------------
(* The gate.                                                               *)

\* A pending intent has passed the gates that come before the human.
PendingGated ==
    \A i \in Intents : status[i] = "pending" =>
        config.policy /\ config.mode = "apply" /\ i \in Allowed /\ Verdict[i] = "no"

\* Nobody sends before it was started.
SentByStarted == \A call \in inTransit \cup landed : pc[call[1]] # "idle"

GateInv == GatedWrites /\ PendingGated /\ SentByStarted

LEMMA GateStep ==
    ASSUME TypeInv, GateInv, [Next]_vars
    PROVE  GateInv'
  <1>1. PendingGated'
    <2> SUFFICES ASSUME NEW i \in Intents, status'[i] = "pending"
                 PROVE  /\ config'.policy /\ config'.mode = "apply"
                        /\ i \in Allowed /\ Verdict[i] = "no"
      BY DEF PendingGated
    <2>1. CASE status[i] = "pending"
      BY <2>1, FrameLemma DEF GateInv, PendingGated
    <2>2. CASE status[i] # "pending"
      <3>1. PICK r \in Runs : QueueForApproval(r) /\ i = Current(r)
        BY <2>2, PendingLemma
      <3> QED
        BY <3>1, FrameLemma DEF QueueForApproval, Permitted
    <2> QED
      BY <2>1, <2>2
  <1>2. ASSUME NEW t \in Tasks, NEW i \in Intents, NeedsWrite(i),
               \/ t \in Runs /\ AutoApply(t) /\ i = Current(t)
               \/ t \in Approvals /\ Approve(t, i)
        PROVE  Gated(t, i)' /\ pc'[t] # "idle"
    <2>1. CASE t \in Runs /\ AutoApply(t) /\ i = Current(t)
      <3>1. i \in ProposedBy(t)
        BY <2>1, PositionLemma DEF AutoApply, AtIntent, TypeInv
      <3>2. pc[t] # "idle"
        BY <2>1 DEF AutoApply, AtIntent
      <3> QED
        BY <1>2, <2>1, <3>1, <3>2, FrameLemma DEF AutoApply, Permitted, NeedsWrite, Gated
    <2>2. CASE t \in Approvals /\ Approve(t, i)
      <3>1. status[i] = "pending" /\ approves'[t] = i
        BY <2>2 DEF Approve, IsPending, TypeInv, TypeOK
      <3>2. pc'[t] = "applying"
        BY <1>2, <2>2 DEF Approve, ApplyIntent, Send, TypeInv, TypeOK
      <3> QED
        BY <1>2, <2>2, <3>1, <3>2, FrameLemma DEF NeedsWrite, Gated, GateInv, PendingGated
    <2> QED
      BY <1>2, <2>1, <2>2
  <1>3. ASSUME NEW call \in (inTransit \cup landed)'
        PROVE  Gated(call[1], call[2])' /\ pc'[call[1]] # "idle"
    <2>1. CASE call \in inTransit \cup landed
      <3>1. Gated(call[1], call[2]) /\ pc[call[1]] # "idle" /\ call[1] \in Tasks
        BY <2>1 DEF GateInv, GatedWrites, SentByStarted, TypeInv, TypeOK, Calls
      <3> QED
        BY <3>1, FrameLemma DEF Gated
    <2>2. CASE call \notin inTransit \cup landed
      <3>1. PICK t \in Tasks, i \in Intents :
               /\ call = <<t, i>>
               /\ NeedsWrite(i)
               /\ \/ t \in Runs /\ AutoApply(t) /\ i = Current(t)
                  \/ t \in Approvals /\ Approve(t, i)
        BY <2>2, CallsLemma
      <3>2. Gated(t, i)' /\ pc'[t] # "idle" /\ call[1] = t /\ call[2] = i
        BY <1>2, <3>1
      <3> QED
        BY <3>2 DEF Gated
    <2> QED
      BY <2>1, <2>2
  <1> QED
    BY <1>1, <1>3 DEF GateInv, GatedWrites, SentByStarted

LEMMA GateInvariant == Spec => []GateInv
  <1>1. Init => GateInv
    BY DEF Init, GateInv, GatedWrites, PendingGated, SentByStarted
  <1>2. TypeInv /\ GateInv /\ [Next]_vars => GateInv'
    BY GateStep
  <1> QED
    BY <1>1, <1>2, TypeInvariant, PTL DEF Spec

\* No write without its gates: whatever the proposals, the policy and the schedule, an
\* apply_write that is on its way or has taken effect was for an allowlisted intent of a
\* writable role in apply mode, accepted by auto_approve or, where that said no, by a human.
THEOREM WritesAreGated == Spec => []GatedWrites
  <1>1. GateInv => GatedWrites
    BY DEF GateInv
  <1> QED
    BY <1>1, GateInvariant, PTL

-----------------------------------------------------------------------------
(* Applied means written.                                                  *)

\* Effects and answers are never forgotten, and a key is marked only by the answer.
LEMMA GrowthLemma ==
    ASSUME TypeInv, [Next]_vars
    PROVE  /\ landed \subseteq landed'
           /\ answered \subseteq answered'
           /\ appliedKeys \subseteq appliedKeys'
           /\ \A k \in appliedKeys' : k \in appliedKeys \/
                 \E t \in Tasks : ApplySucceeds(t) /\ k = KeyOf[Subject(t)]
  <1> DEFINE Same == UNCHANGED <<landed, answered, appliedKeys>>
  <1>1. ASSUME NEW t \in Tasks, NEW i, ApplyIntent(t, i)
        PROVE  Same
    BY <1>1 DEF ApplyIntent, Send, ledger, world
  <1>2. ASSUME NEW r \in Runs, StartRun(r) \/ RunStep(r)
        PROVE  Same
    <2>1. CASE AutoApply(r)
      BY <1>1, <2>1 DEF AutoApply, Tasks
    <2> QED
      BY <1>2, <2>1 DEF StartRun, RunStep, AgentFails, AgentReturns, RejectByPolicy,
         KeepProposed, QueueForApproval, AutoApproveRaises, FinishRun, FinishRaises,
         ledger, world
  <1>3. ASSUME NEW c \in Approvals, NEW i \in Intents, Approve(c, i)
        PROVE  Same
    BY <1>1, <1>3 DEF Approve, Tasks
  <1>4. ASSUME NEW i \in Intents, RejectIntent(i)
        PROVE  Same
    BY <1>4 DEF RejectIntent, world
  <1>5. ASSUME NEW t \in Tasks, ApplyRaises(t) \/ Cancel(t)
        PROVE  Same
    BY <1>5 DEF ApplyRaises, Cancel, ledger, world
  <1>6. ASSUME NEW t \in Tasks, ApplySucceeds(t)
        PROVE  /\ landed' = landed
               /\ answered' = answered \cup {<<t, Subject(t)>>}
               /\ appliedKeys' = appliedKeys \cup {KeyOf[Subject(t)]}
    BY <1>6 DEF ApplySucceeds
  <1>7. ASSUME NEW t \in Tasks, NEW i \in Intents, Land(t, i)
        PROVE  landed \subseteq landed' /\ UNCHANGED <<answered, appliedKeys>>
    BY <1>7 DEF Land, ledger
  <1>8. CASE UNCHANGED vars
    BY <1>8 DEF vars, ledger, world
  <1> QED
    BY <1>2, <1>3, <1>4, <1>5, <1>6, <1>7, <1>8 DEF Next, Answer

\* An intent becomes applied when its key is marked, in this step or before.
LEMMA AppliedLemma ==
    ASSUME TypeInv, [Next]_vars,
           NEW i \in Intents, status'[i] = "applied", status[i] # "applied"
    PROVE  KeyOf[i] \in appliedKeys'
  <1>1. ASSUME NEW t \in Tasks, NEW j \in Intents, NEW s, Settle(t, j, s)
        PROVE  i = j /\ s = "applied"
    BY <1>1 DEF Settle, TypeInv, TypeOK
  <1>2. ASSUME NEW t \in Tasks, NEW j \in Intents, ApplyIntent(t, j)
        PROVE  KeyOf[i] \in appliedKeys'
    <2>1. CASE Send(t, j)
      BY <2>1 DEF Send, ledger
    <2>2. CASE /\ ~ NeedsWrite(j)
               /\ Settle(t, j, StatusWithoutWrite(j))
               /\ UNCHANGED <<runStatus, appliedKeys, world>>
      <3>1. i = j /\ StatusWithoutWrite(j) = "applied"
        BY <1>1, <2>2
      <3> QED
        BY <2>2, <3>1 DEF StatusWithoutWrite, NeedsWrite
    <2> QED
      BY <1>2, <2>1, <2>2 DEF ApplyIntent
  <1>3. ASSUME NEW r \in Runs,
               RejectByPolicy(r) \/ KeepProposed(r) \/ QueueForApproval(r)
        PROVE  FALSE
    <2>1. Current(r) \in Intents /\ r \in Tasks
      BY <1>3, PositionLemma
         DEF RejectByPolicy, KeepProposed, QueueForApproval, AtIntent, TypeInv, Tasks
    <2> QED
      BY <1>1, <1>3, <2>1 DEF RejectByPolicy, KeepProposed, QueueForApproval
  <1>4. ASSUME NEW r \in Runs, AutoApply(r)
        PROVE  KeyOf[i] \in appliedKeys'
    <2>1. Current(r) \in Intents /\ r \in Tasks
      BY <1>4, PositionLemma DEF AutoApply, AtIntent, TypeInv, Tasks
    <2> QED
      BY <1>2, <1>4, <2>1 DEF AutoApply
  <1>5. ASSUME NEW r \in Runs,
               StartRun(r) \/ AgentFails(r) \/ AgentReturns(r) \/ AutoApproveRaises(r)
                 \/ FinishRun(r) \/ FinishRaises(r)
        PROVE  FALSE
    BY <1>5 DEF StartRun, AgentFails, AgentReturns, AutoApproveRaises, FinishRun,
         FinishRaises, ledger
  <1>6. ASSUME NEW t \in Tasks, ApplySucceeds(t)
        PROVE  KeyOf[i] \in appliedKeys'
    <2>1. Subject(t) \in Intents
      BY <1>6, SubjectLemma DEF ApplySucceeds
    <2> QED
      BY <1>1, <1>6, <2>1 DEF ApplySucceeds
  <1>7. ASSUME NEW t \in Tasks, ApplyRaises(t)
        PROVE  FALSE
    <2>1. Subject(t) \in Intents
      BY <1>7, SubjectLemma DEF ApplyRaises
    <2> QED
      BY <1>1, <1>7, <2>1 DEF ApplyRaises
  <1>8. ASSUME NEW c \in Approvals, NEW j \in Intents, Approve(c, j)
        PROVE  KeyOf[i] \in appliedKeys'
    BY <1>2, <1>8 DEF Approve, Tasks
  <1>9. ASSUME NEW j \in Intents, RejectIntent(j)
        PROVE  FALSE
    BY <1>9 DEF RejectIntent, TypeInv, TypeOK
  <1>10. ASSUME NEW t \in Tasks, NEW j \in Intents, Cancel(t) \/ Land(t, j)
         PROVE  FALSE
    BY <1>10 DEF Cancel, Land, ledger
  <1>11. CASE UNCHANGED vars
    BY <1>11 DEF vars, ledger
  <1> QED
    BY <1>3, <1>4, <1>5, <1>6, <1>7, <1>8, <1>9, <1>10, <1>11 DEF Next, RunStep, Answer

\* Applied intents have marked keys, and a marked key has a confirmed write.
BackedInv ==
    /\ \A i \in Intents : status[i] = "applied" => KeyOf[i] \in appliedKeys
    /\ \A k \in appliedKeys : \E call \in landed \cap answered : KeyOf[call[2]] = k

LEMMA BackedStep ==
    ASSUME TypeInv, BackedInv, [Next]_vars
    PROVE  BackedInv'
  <1>1. ASSUME NEW i \in Intents, status'[i] = "applied"
        PROVE  KeyOf[i] \in appliedKeys'
    <2>1. CASE status[i] = "applied"
      BY <2>1, GrowthLemma DEF BackedInv
    <2>2. CASE status[i] # "applied"
      BY <1>1, <2>2, AppliedLemma
    <2> QED
      BY <2>1, <2>2
  <1>2. ASSUME NEW k \in appliedKeys'
        PROVE  \E call \in (landed \cap answered)' : KeyOf[call[2]] = k
    <2>1. CASE k \in appliedKeys
      BY <2>1, GrowthLemma DEF BackedInv
    <2>2. CASE k \notin appliedKeys
      <3>1. PICK t \in Tasks : ApplySucceeds(t) /\ k = KeyOf[Subject(t)]
        BY <2>2, GrowthLemma
      <3>2. <<t, Subject(t)>> \in (landed \cap answered)'
        BY <3>1 DEF ApplySucceeds
      <3> QED
        BY <3>1, <3>2
    <2> QED
      BY <2>1, <2>2
  <1> QED
    BY <1>1, <1>2 DEF BackedInv

LEMMA BackedInvariant == Spec => []BackedInv
  <1>1. Init => BackedInv
    BY DEF Init, BackedInv
  <1>2. TypeInv /\ BackedInv /\ [Next]_vars => BackedInv'
    BY BackedStep
  <1> QED
    BY <1>1, <1>2, TypeInvariant, PTL DEF Spec

\* "Applied" is never a guess: an intent has this status only when a write of its key took
\* effect and the engine got the answer, also for a duplicate that was skipped, and however
\* many runs, approvals, timeouts and cancellations overlap.
THEOREM AppliedIsNeverAGuess == Spec => []AppliedIsBacked
  <1>1. BackedInv => AppliedIsBacked
    BY DEF BackedInv, AppliedIsBacked
  <1> QED
    BY <1>1, BackedInvariant, PTL

-----------------------------------------------------------------------------
(* The blast radius.                                                       *)

\* What a run has counted changes when its loop starts and when it accepts an intent.
LEMMA AcceptedLemma ==
    ASSUME TypeInv, [Next]_vars, NEW r \in Runs
    PROVE  \/ accepted'[r] = accepted[r]
           \/ AgentReturns(r) /\ accepted'[r] = {}
           \/ /\ AtIntent(r) /\ Permitted(r)
              /\ accepted'[r] = accepted[r] \cup {Current(r)}
  <1> DEFINE Goal(q) ==
           \/ accepted'[q] = accepted[q]
           \/ AgentReturns(q) /\ accepted'[q] = {}
           \/ /\ AtIntent(q) /\ Permitted(q)
              /\ accepted'[q] = accepted[q] \cup {Current(q)}
  <1>1. accepted \in [Runs -> SUBSET Intents]
    BY DEF TypeInv, TypeOK
  <1>2. ASSUME NEW q \in Runs, AtIntent(q) /\ Permitted(q) /\ Accept(q)
        PROVE  Goal(r)
    BY <1>1, <1>2 DEF Accept
  <1>3. ASSUME NEW q \in Runs,
               KeepProposed(q) \/ QueueForApproval(q) \/ AutoApproveRaises(q) \/ AutoApply(q)
        PROVE  Goal(r)
    BY <1>2, <1>3 DEF KeepProposed, QueueForApproval, AutoApproveRaises, AutoApply
  <1>4. ASSUME NEW q \in Runs, AgentReturns(q)
        PROVE  Goal(r)
    BY <1>1, <1>4 DEF AgentReturns
  <1>5. ASSUME NEW q \in Runs,
               StartRun(q) \/ AgentFails(q) \/ RejectByPolicy(q) \/ FinishRun(q)
                 \/ FinishRaises(q)
        PROVE  accepted' = accepted
    BY <1>5 DEF StartRun, AgentFails, RejectByPolicy, FinishRun, FinishRaises
  <1>6. ASSUME NEW c \in Approvals, NEW i \in Intents, Approve(c, i)
        PROVE  accepted' = accepted
    BY <1>6 DEF Approve
  <1>7. ASSUME NEW t \in Tasks, Answer(t) \/ Cancel(t)
        PROVE  accepted' = accepted
    BY <1>7 DEF Answer, ApplySucceeds, ApplyRaises, Cancel
  <1>8. ASSUME NEW t \in Tasks, NEW i \in Intents, RejectIntent(i) \/ Land(t, i)
        PROVE  accepted' = accepted
    BY <1>8 DEF RejectIntent, Land, flow
  <1>9. CASE UNCHANGED vars
    BY <1>9 DEF vars, flow
  <1>10. r \in Tasks
    BY DEF Tasks
  <1>11. Goal(r)
    BY <1>3, <1>4, <1>5, <1>6, <1>7, <1>8, <1>9, <1>10 DEF Next, RunStep
  <1> QED
    BY <1>11

\* No run goes back to its agent.
LEMMA BeforeLoopLemma ==
    ASSUME TypeInv, [Next]_vars, NEW r \in Runs, pc'[r] \in {"idle", "agent"}
    PROVE  pc[r] \in {"idle", "agent"}
  <1>1. pc \in [Tasks -> PcValues] /\ r \in Tasks
    BY DEF TypeInv, TypeOK, Tasks
  <1>2. ASSUME NEW t \in Tasks, NEW j, NEW s, Settle(t, j, s) \/ Send(t, j)
        PROVE  pc[r] \in {"idle", "agent"}
    BY <1>1, <1>2 DEF Settle, Send
  <1>3. ASSUME NEW q \in Runs, StartRun(q) \/ RunStep(q)
        PROVE  pc[r] \in {"idle", "agent"}
    <2>1. CASE \/ StartRun(q) \/ AgentFails(q) \/ AgentReturns(q) \/ AutoApproveRaises(q)
               \/ FinishRun(q) \/ FinishRaises(q)
      BY <1>1, <2>1 DEF StartRun, AgentFails, AgentReturns, AutoApproveRaises,
         FinishRun, FinishRaises, CloseRun, Tasks
    <2>2. CASE RejectByPolicy(q) \/ KeepProposed(q) \/ QueueForApproval(q) \/ AutoApply(q)
      BY <1>2, <2>2
         DEF RejectByPolicy, KeepProposed, QueueForApproval, AutoApply, ApplyIntent, Tasks
    <2> QED
      BY <1>3, <2>1, <2>2 DEF RunStep
  <1>4. ASSUME NEW c \in Approvals, NEW i \in Intents, Approve(c, i)
        PROVE  pc[r] \in {"idle", "agent"}
    BY <1>2, <1>4 DEF Approve, ApplyIntent, Tasks
  <1>5. ASSUME NEW t \in Tasks, Answer(t)
        PROVE  pc[r] \in {"idle", "agent"}
    BY <1>2, <1>5 DEF Answer, ApplySucceeds, ApplyRaises
  <1>6. ASSUME NEW t \in Tasks, Cancel(t)
        PROVE  pc[r] \in {"idle", "agent"}
    BY <1>1, <1>6 DEF Cancel
  <1>7. ASSUME NEW t \in Tasks, NEW i \in Intents, RejectIntent(i) \/ Land(t, i)
        PROVE  pc' = pc
    BY <1>7 DEF RejectIntent, Land, flow
  <1>8. CASE UNCHANGED vars
    BY <1>8 DEF vars, flow
  <1> QED
    BY <1>1, <1>3, <1>4, <1>5, <1>6, <1>7, <1>8 DEF Next

\* A run counts nothing before its loop, at most MaxWrites intents in it, and its intents
\* that were sent or wait for a human are among those.
RadiusInv ==
    \A r \in Runs :
        /\ IsFiniteSet(accepted[r])
        /\ Cardinality(accepted[r]) <= MaxWrites
        /\ SentOf(r) \subseteq accepted[r]
        /\ \A i \in ProposedBy(r) : status[i] = "pending" => i \in accepted[r]
        /\ pc[r] \in {"idle", "agent"} => accepted[r] = {}

LEMMA RadiusStep ==
    ASSUME TypeInv, RadiusInv, [Next]_vars
    PROVE  RadiusInv'
  <1> SUFFICES ASSUME NEW r \in Runs
               PROVE  /\ IsFiniteSet(accepted'[r])
                      /\ Cardinality(accepted'[r]) <= MaxWrites
                      /\ SentOf(r)' \subseteq accepted'[r]
                      /\ \A i \in ProposedBy(r) :
                            status'[i] = "pending" => i \in accepted'[r]
                      /\ pc'[r] \in {"idle", "agent"} => accepted'[r] = {}
    BY DEF RadiusInv
  <1> USE DEF RadiusInv
  <1>1. /\ IsFiniteSet(accepted'[r])
        /\ Cardinality(accepted'[r]) <= MaxWrites
    <2>1. CASE accepted'[r] = accepted[r]
      BY <2>1
    <2>2. CASE accepted'[r] = {}
      BY <2>2, FS_EmptySet, PolicyAssumption
    <2>3. CASE Permitted(r) /\ accepted'[r] = accepted[r] \cup {Current(r)}
      <3>1. Cardinality(accepted[r]) \in Nat /\ Cardinality(accepted[r]) < MaxWrites
        BY <2>3, FS_CardinalityType DEF Permitted
      <3>2. /\ IsFiniteSet(accepted'[r])
            /\ \/ Cardinality(accepted'[r]) = Cardinality(accepted[r])
               \/ Cardinality(accepted'[r]) = Cardinality(accepted[r]) + 1
        BY <2>3, FS_AddElement
      <3> QED
        BY <3>1, <3>2, PolicyAssumption
    <2> QED
      BY <2>1, <2>2, <2>3, AcceptedLemma
  <1>2. accepted[r] \subseteq accepted'[r]
    BY AcceptedLemma DEF AgentReturns
  <1>3. ProposedBy(r) \subseteq Intents
    <2>1. Proposals[r] \in Seq(Intents)
      BY ProposalsAssumption
    <2> QED
      BY <2>1 DEF ProposedBy
  <1>4. ASSUME NEW q \in Runs, AtIntent(q), Accept(q), Current(q) \in ProposedBy(r)
        PROVE  Current(q) \in accepted'[r]
    <2>1. Current(q) \in ProposedBy(q)
      BY <1>4, PositionLemma DEF AtIntent, TypeInv
    <2>2. q = r
      BY <1>4, <2>1, ProposalsAssumption
    <2> QED
      BY <1>4, <2>2 DEF Accept, TypeInv, TypeOK
  <1>5. ASSUME NEW i \in ProposedBy(r), status'[i] = "pending"
        PROVE  i \in accepted'[r]
    <2>1. CASE status[i] = "pending"
      BY <1>2, <2>1
    <2>2. CASE status[i] # "pending"
      <3>1. PICK q \in Runs : QueueForApproval(q) /\ i = Current(q)
        BY <1>3, <1>5, <2>2, PendingLemma
      <3> QED
        BY <1>4, <3>1 DEF QueueForApproval
    <2> QED
      BY <2>1, <2>2
  <1>6. ASSUME NEW i \in SentOf(r)'
        PROVE  i \in accepted'[r]
    <2>1. i \in ProposedBy(r)
      BY <1>6 DEF SentOf
    <2>2. PICK u \in Tasks : <<u, i>> \in (inTransit \cup landed)'
      BY <1>6 DEF SentOf
    <2>3. CASE <<u, i>> \in inTransit \cup landed
      BY <1>2, <2>1, <2>3 DEF SentOf
    <2>4. CASE <<u, i>> \notin inTransit \cup landed
      <3>1. PICK t \in Tasks, j \in Intents :
               /\ <<u, i>> = <<t, j>>
               /\ NeedsWrite(j)
               /\ \/ t \in Runs /\ AutoApply(t) /\ j = Current(t)
                  \/ t \in Approvals /\ Approve(t, j)
        BY <2>2, <2>4, CallsLemma
      <3>2. i = j
        BY <3>1
      <3>3. CASE t \in Runs /\ AutoApply(t) /\ i = Current(t)
        BY <1>4, <2>1, <3>3 DEF AutoApply
      <3>4. CASE t \in Approvals /\ Approve(t, i)
        BY <1>2, <2>1, <3>4 DEF Approve, IsPending
      <3> QED
        BY <3>1, <3>2, <3>3, <3>4
    <2> QED
      BY <2>3, <2>4
  <1>7. ASSUME pc'[r] \in {"idle", "agent"}
        PROVE  accepted'[r] = {}
    <2>1. pc[r] \in {"idle", "agent"} /\ accepted[r] = {}
      BY <1>7, BeforeLoopLemma
    <2> QED
      BY <2>1, AcceptedLemma DEF AtIntent
  <1> QED
    BY <1>1, <1>5, <1>6, <1>7

LEMMA RadiusInvariant == Spec => []RadiusInv
  <1>1. Init => RadiusInv
    <2> SUFFICES ASSUME Init PROVE RadiusInv
      OBVIOUS
    <2>1. \A r \in Runs : SentOf(r) = {}
      BY DEF Init, SentOf
    <2>2. \A r \in Runs : ProposedBy(r) \subseteq Intents
      BY ProposalsAssumption DEF ProposedBy
    <2> QED
      BY <2>1, <2>2, FS_EmptySet, PolicyAssumption DEF Init, RadiusInv
  <1>2. TypeInv /\ RadiusInv /\ [Next]_vars => RadiusInv'
    BY RadiusStep
  <1> QED
    BY <1>1, <1>2, TypeInvariant, PTL DEF Spec

\* The blast radius is a bound on what reaches the remote system: at most MaxWrites intents
\* of a run are ever sent, by its loop or by the approvals that come after it.
THEOREM BlastRadiusHolds == Spec => []BlastRadius
  <1>1. RadiusInv => BlastRadius
    <2> SUFFICES ASSUME RadiusInv, NEW r \in Runs
                 PROVE  Cardinality(SentOf(r)) <= MaxWrites
      BY DEF BlastRadius
    <2>1. /\ IsFiniteSet(accepted[r])
          /\ Cardinality(accepted[r]) <= MaxWrites
          /\ SentOf(r) \subseteq accepted[r]
      BY DEF RadiusInv
    <2>2. /\ IsFiniteSet(SentOf(r))
          /\ Cardinality(SentOf(r)) <= Cardinality(accepted[r])
      BY <2>1, FS_Subset
    <2>3. Cardinality(SentOf(r)) \in Nat /\ Cardinality(accepted[r]) \in Nat
      BY <2>1, <2>2, FS_CardinalityType
    <2> QED
      BY <2>1, <2>2, <2>3, PolicyAssumption
  <1> QED
    BY <1>1, RadiusInvariant, PTL

\* A run that is not called is not in the ledger.
StartedInv == \A r \in Runs : pc[r] = "idle" => runStatus[r] = "none"

LEMMA StartedStep ==
    ASSUME TypeInv, StartedInv, [Next]_vars
    PROVE  StartedInv'
  <1> SUFFICES ASSUME NEW r \in Runs, pc'[r] = "idle" PROVE runStatus'[r] = "none"
    BY DEF StartedInv
  <1>1. pc[r] = "idle" /\ runStatus[r] = "none" /\ r \in Tasks
    BY FrameLemma DEF StartedInv, Tasks
  <1>2. pc \in [Tasks -> PcValues] /\ runStatus \in [Runs -> {"none", "running", "succeeded", "failed"}]
    BY DEF TypeInv, TypeOK
  <1>3. ASSUME NEW q \in Runs, StartRun(q)
        PROVE  runStatus'[r] = "none"
    BY <1>1, <1>2, <1>3 DEF StartRun
  <1>4. ASSUME NEW q \in Runs, NEW s, CloseRun(q, s), pc[q] # "idle"
        PROVE  runStatus'[r] = "none"
    BY <1>1, <1>2, <1>4 DEF CloseRun
  <1>5. ASSUME NEW q \in Runs, RunStep(q)
        PROVE  runStatus'[r] = "none"
    <2>1. CASE AgentFails(q) \/ AutoApproveRaises(q) \/ FinishRun(q) \/ FinishRaises(q)
      BY <1>4, <2>1 DEF AgentFails, AutoApproveRaises, FinishRun, FinishRaises, AtIntent, LoopOver
    <2>2. CASE AgentReturns(q) \/ RejectByPolicy(q) \/ KeepProposed(q) \/ QueueForApproval(q) \/ AutoApply(q)
      BY <1>1, <2>2 DEF AgentReturns, RejectByPolicy, KeepProposed, QueueForApproval, AutoApply,
         ApplyIntent, Send, ledger
    <2>. QED BY <1>5, <2>1, <2>2 DEF RunStep
  <1>6. ASSUME NEW c \in Approvals, NEW i \in Intents, Approve(c, i)
        PROVE  runStatus'[r] = "none"
    BY <1>1, <1>6 DEF Approve, ApplyIntent, Send, ledger
  <1>7. ASSUME NEW t \in Tasks, Answer(t) \/ Cancel(t)
        PROVE  runStatus'[r] = "none"
    BY <1>1, <1>7 DEF Answer, ApplySucceeds, ApplyRaises, Cancel, ledger
  <1>8. ASSUME NEW t \in Tasks, NEW i \in Intents, RejectIntent(i) \/ Land(t, i)
        PROVE  runStatus'[r] = "none"
    BY <1>1, <1>8 DEF RejectIntent, Land, ledger
  <1>9. CASE UNCHANGED vars
    BY <1>1, <1>9 DEF vars, ledger
  <1>. QED BY <1>1, <1>3, <1>5, <1>6, <1>7, <1>8, <1>9 DEF Next

\* What a run that was never called has done: nothing was ledgered of it, and nothing sent.
NothingUncalled == \A r \in Runs : pc[r] = "idle" => runStatus[r] = "none" /\ SentOf(r) = {}

LEMMA UncalledInvariant == Spec => []NothingUncalled
  <1>1. Init => StartedInv
    BY DEF Init, StartedInv
  <1>2. TypeInv /\ StartedInv /\ [Next]_vars => StartedInv'
    BY StartedStep
  <1>3. StartedInv /\ RadiusInv => NothingUncalled
    BY DEF StartedInv, RadiusInv, NothingUncalled
  <1>. QED BY <1>1, <1>2, <1>3, TypeInvariant, RadiusInvariant, PTL DEF Spec

-----------------------------------------------------------------------------
(* The order of the ledger.                                                *)

\* The loop of r has settled the intent it was at and goes on with the next.
Moves(r) ==
    /\ pc[r] \in {"loop", "applying"}
    /\ position[r] \in DOMAIN Proposals[r]
    /\ ledgered' = ledgered \cup {Current(r)}
    /\ position' = [position EXCEPT ![r] = @ + 1]

\* What the ledger has of a run is what its loop has passed; before the loop it is at the
\* first intent, and what an approval applies is in the ledger already.
OrderInv ==
    /\ \A r \in Runs : pc[r] \in {"idle", "agent"} => position[r] = 1
    /\ \A r \in Runs : \A n \in DOMAIN Proposals[r] :
          Proposals[r][n] \in ledgered <=> n < position[r]
    /\ \A c \in Approvals : pc[c] = "applying" => approves[c] \in ledgered

\* A step leaves the ledger's intents and the loops where they are, or moves one loop.
LEMMA MoveLemma ==
    ASSUME TypeInv, OrderInv, [Next]_vars
    PROVE  \/ ledgered' = ledgered /\ position' = position
           \/ \E r \in Runs : Moves(r)
  <1> DEFINE Goal == \/ ledgered' = ledgered /\ position' = position
                     \/ \E r \in Runs : Moves(r)
  <1>1. position \in [Runs -> Nat] /\ pc \in [Tasks -> PcValues]
    BY DEF TypeInv, TypeOK
  <1>2. ASSUME NEW r \in Runs, NEW s, Settle(r, Current(r), s),
               pc[r] \in {"loop", "applying"}, position[r] \in DOMAIN Proposals[r]
        PROVE  Goal
    BY <1>2, TasksAssumption DEF Settle, Moves
  <1>3. ASSUME NEW c \in Approvals, NEW i \in ledgered, NEW s, Settle(c, i, s)
        PROVE  Goal
    BY <1>3, TasksAssumption DEF Settle
  <1>4. ASSUME NEW t, NEW i, Send(t, i)
        PROVE  Goal
    BY <1>4 DEF Send, ledger
  <1>5. ASSUME NEW r \in Runs, RejectByPolicy(r) \/ KeepProposed(r) \/ QueueForApproval(r)
        PROVE  Goal
    BY <1>2, <1>5 DEF RejectByPolicy, KeepProposed, QueueForApproval, AtIntent
  <1>6. ASSUME NEW r \in Runs, AutoApply(r)
        PROVE  Goal
    BY <1>2, <1>4, <1>6 DEF AutoApply, ApplyIntent, AtIntent
  <1>7. ASSUME NEW r \in Runs,
               StartRun(r) \/ AgentFails(r) \/ AutoApproveRaises(r) \/ FinishRun(r)
                 \/ FinishRaises(r)
        PROVE  Goal
    BY <1>7 DEF StartRun, AgentFails, AutoApproveRaises, FinishRun, FinishRaises
  <1>8. ASSUME NEW r \in Runs, AgentReturns(r)
        PROVE  Goal
    BY <1>1, <1>8 DEF AgentReturns, OrderInv, ledger
  <1>9. ASSUME NEW c \in Approvals, NEW i \in Intents, Approve(c, i)
        PROVE  Goal
    BY <1>3, <1>4, <1>9 DEF Approve, ApplyIntent, IsPending
  <1>10. ASSUME NEW t \in Tasks, Answer(t)
         PROVE  Goal
    <2>1. pc[t] = "applying" /\ \E s : Settle(t, Subject(t), s)
      BY <1>10 DEF Answer, ApplySucceeds, ApplyRaises
    <2>2. CASE t \in Runs
      BY <1>2, <2>1, <2>2, SubjectLemma
    <2>3. CASE t \in Approvals
      <3>1. Subject(t) \in ledgered
        BY <2>1, <2>3, TasksAssumption DEF Subject, OrderInv
      <3>. QED BY <1>3, <2>1, <2>3, <3>1
    <2>. QED BY <2>2, <2>3 DEF Tasks
  <1>11. ASSUME NEW i \in Intents, RejectIntent(i)
         PROVE  Goal
    BY <1>11 DEF RejectIntent, IsPending, flow
  <1>12. ASSUME NEW t \in Tasks, NEW i \in Intents, Land(t, i)
         PROVE  Goal
    BY <1>12 DEF Land, flow, ledger
  <1>13. ASSUME NEW t \in Tasks, Cancel(t)
         PROVE  Goal
    BY <1>13 DEF Cancel, ledger
  <1>14. ASSUME UNCHANGED vars
         PROVE  Goal
    BY <1>14 DEF vars, flow, ledger
  <1>15. ASSUME NEW r \in Runs, StartRun(r) \/ RunStep(r)
         PROVE  Goal
    BY <1>5, <1>6, <1>7, <1>8, <1>15 DEF RunStep
  <1>. HIDE DEF Goal
  <1>16. Goal
    BY <1>9, <1>10, <1>11, <1>12, <1>13, <1>14, <1>15 DEF Next
  <1>. QED BY <1>16 DEF Goal

\* An approval that waits has been made for a ledgered intent.
LEMMA ApprovalLemma ==
    ASSUME TypeInv, [Next]_vars, NEW c \in Approvals, pc'[c] = "applying"
    PROVE  \/ pc[c] = "applying"
           \/ approves'[c] \in ledgered
  <1> DEFINE Goal == pc[c] = "applying" \/ approves'[c] \in ledgered
  <1>1. pc \in [Tasks -> PcValues] /\ c \in Tasks /\ c \notin Runs
    BY TasksAssumption DEF TypeInv, TypeOK, Tasks
  <1>2. ASSUME NEW t \in Tasks, NEW j, NEW s, Settle(t, j, s)
        PROVE  Goal
    BY <1>1, <1>2 DEF Settle
  <1>3. ASSUME NEW r \in Runs, NEW j, Send(r, j)
        PROVE  Goal
    BY <1>1, <1>3 DEF Send, Tasks
  <1>4. ASSUME NEW r \in Runs, StartRun(r) \/ RunStep(r)
        PROVE  Goal
    <2>1. CASE \/ StartRun(r) \/ AgentFails(r) \/ AgentReturns(r) \/ AutoApproveRaises(r)
               \/ FinishRun(r) \/ FinishRaises(r)
      BY <1>1, <2>1 DEF StartRun, AgentFails, AgentReturns, AutoApproveRaises,
         FinishRun, FinishRaises, CloseRun, Tasks
    <2>2. CASE RejectByPolicy(r) \/ KeepProposed(r) \/ QueueForApproval(r) \/ AutoApply(r)
      BY <1>2, <1>3, <2>2
         DEF RejectByPolicy, KeepProposed, QueueForApproval, AutoApply, ApplyIntent, Tasks
    <2>. QED BY <1>4, <2>1, <2>2 DEF RunStep
  <1>5. ASSUME NEW d \in Approvals, NEW i \in Intents, Approve(d, i)
        PROVE  Goal
    <2>1. CASE d = c
      BY <1>5, <2>1 DEF Approve, IsPending, TypeInv, TypeOK
    <2>2. CASE d # c
      BY <1>1, <1>5, <2>2, TasksAssumption DEF Approve, ApplyIntent, Settle, Send, Tasks
    <2>. QED BY <2>1, <2>2
  <1>6. ASSUME NEW t \in Tasks, Answer(t)
        PROVE  Goal
    BY <1>2, <1>6 DEF Answer, ApplySucceeds, ApplyRaises
  <1>7. ASSUME NEW t \in Tasks, Cancel(t)
        PROVE  Goal
    BY <1>1, <1>7 DEF Cancel
  <1>8. ASSUME NEW t \in Tasks, NEW i \in Intents, RejectIntent(i) \/ Land(t, i)
        PROVE  pc' = pc
    BY <1>8 DEF RejectIntent, Land, flow
  <1>9. CASE UNCHANGED vars
    BY <1>9 DEF vars, flow
  <1>. QED
    BY <1>1, <1>4, <1>5, <1>6, <1>7, <1>8, <1>9 DEF Next

LEMMA OrderStep ==
    ASSUME TypeInv, OrderInv, [Next]_vars
    PROVE  OrderInv'
  <1>1. position \in [Runs -> Nat] /\ \A r \in Runs : r \in Tasks
    BY DEF TypeInv, TypeOK, Tasks
  <1>2. ASSUME NEW r \in Runs, pc'[r] \in {"idle", "agent"}
        PROVE  position'[r] = 1
    <2>1. pc[r] \in {"idle", "agent"} /\ position[r] = 1
      BY <1>2, BeforeLoopLemma DEF OrderInv
    <2>2. ASSUME NEW q \in Runs, Moves(q) PROVE position'[r] = 1
      BY <1>1, <2>1, <2>2 DEF Moves
    <2>. QED BY <2>1, <2>2, MoveLemma
  <1>3. ASSUME NEW r \in Runs, Moves(r), NEW q \in Runs, NEW n \in DOMAIN Proposals[q]
        PROVE  Proposals[q][n] \in ledgered' <=> n < position'[q]
    <2>1. Proposals[q] \in Seq(Intents)
      BY ProposalsAssumption
    <2>2. n \in Nat
      BY <2>1
    <2>3. Proposals[q][n] \in ledgered <=> n < position[q]
      BY DEF OrderInv
    <2>4. CASE q = r
      <3>1. Proposals[q][n] = Current(r) <=> n = position[r]
        BY <1>3, <2>4, ProposalsAssumption DEF Moves, Current
      <3>2. position'[q] = position[r] + 1 /\ position[r] \in Nat
        BY <1>1, <1>3, <2>4 DEF Moves
      <3>. QED BY <1>3, <2>2, <2>3, <2>4, <3>1, <3>2 DEF Moves
    <2>5. CASE q # r
      <3>1. Proposals[q][n] # Current(r)
        <4>1. Proposals[q][n] \in ProposedBy(q)
          BY DEF ProposedBy
        <4>2. Current(r) \in ProposedBy(r)
          BY <1>3, PositionLemma DEF Moves, TypeInv
        <4>3. ProposedBy(q) \cap ProposedBy(r) = {}
          BY <2>5, ProposalsAssumption
        <4>. QED BY <4>1, <4>2, <4>3
      <3>2. position'[q] = position[q]
        BY <1>1, <1>3, <2>5 DEF Moves
      <3>. QED BY <1>3, <2>3, <3>1, <3>2 DEF Moves
    <2>. QED BY <2>4, <2>5
  <1>4. \A q \in Runs : \A n \in DOMAIN Proposals[q] :
            Proposals[q][n] \in ledgered' <=> n < position'[q]
    BY <1>3, MoveLemma DEF OrderInv
  <1>5. ASSUME NEW c \in Approvals, pc'[c] = "applying"
        PROVE  approves'[c] \in ledgered'
    <2>1. ledgered \subseteq ledgered'
      BY MoveLemma DEF Moves
    <2>2. CASE pc[c] = "applying"
      <3>1. approves'[c] = approves[c]
        BY <2>2, FrameLemma DEF Tasks
      <3>. QED BY <2>1, <2>2, <3>1 DEF OrderInv
    <2>3. CASE pc[c] # "applying"
      BY <1>5, <2>1, <2>3, ApprovalLemma
    <2>. QED BY <2>2, <2>3
  <1>. QED BY <1>2, <1>4, <1>5 DEF OrderInv

LEMMA OrderInvariant == Spec => []OrderInv
  <1>1. Init => OrderInv
    <2>1. \A r \in Runs : \A n \in DOMAIN Proposals[r] : n \in Nat /\ ~ (n < 1)
      BY ProposalsAssumption
    <2>. QED BY <2>1, TasksAssumption DEF Init, OrderInv, Tasks
  <1>2. TypeInv /\ OrderInv /\ [Next]_vars => OrderInv'
    BY OrderStep
  <1>. QED BY <1>1, <1>2, TypeInvariant, PTL DEF Spec

\* The ledger has no gaps: for each run it holds just the intents that the loop has passed,
\* whether it went on, failed in auto_approve or was cancelled, and approvals add none.
THEOREM LedgerKeepsOrder == Spec => []LedgeredInOrder
  <1>1. TypeInv /\ OrderInv => LedgeredInOrder
    <2> SUFFICES ASSUME TypeInv, OrderInv, NEW r \in Runs, NEW n \in DOMAIN Proposals[r],
                        Proposals[r][n] \in ledgered, NEW m \in 1..n
                 PROVE  Proposals[r][m] \in ledgered
      BY DEF LedgeredInOrder
    <2>1. Proposals[r] \in Seq(Intents) /\ position[r] \in Nat
      BY ProposalsAssumption DEF TypeInv, TypeOK
    <2>2. m \in DOMAIN Proposals[r] /\ m \in Nat /\ n \in Nat /\ m <= n
      BY <2>1
    <2>. QED BY <2>1, <2>2 DEF OrderInv
  <1>. QED BY <1>1, TypeInvariant, OrderInvariant, PTL

-----------------------------------------------------------------------------
(* Nothing gets lost where no task is cancelled.                           *)

\* A request is for an intent in the ledger, or its task still waits for the answer.
SentInv ==
    \A call \in inTransit \cup landed :
        \/ call[2] \in ledgered
        \/ pc[call[1]] = "applying" /\ Subject(call[1]) = call[2]

\* A run that ended well has passed its last intent.
PassedInv ==
    \A r \in Runs : runStatus[r] = "succeeded" => position[r] \notin DOMAIN Proposals[r]

LossInv == OrderInv /\ SentInv /\ PassedInv /\ PendingIsUntouched

\* A task that waits goes on waiting, or gets its answer and settles the intent.
LEMMA AnswerEnds ==
    ASSUME TypeInv, [Next]_vars, ~ MayCancel, NEW t \in Tasks, pc[t] = "applying"
    PROVE  \/ pc'[t] = "applying" /\ Subject(t)' = Subject(t)
           \/ Subject(t) \in ledgered' /\ status'[Subject(t)] \in {"applied", "failed"}
  <1> DEFINE Goal == \/ pc'[t] = "applying" /\ Subject(t)' = Subject(t)
                     \/ /\ Subject(t) \in ledgered'
                        /\ status'[Subject(t)] \in {"applied", "failed"}
  <1>1. /\ pc \in [Tasks -> PcValues] /\ position \in [Runs -> Nat]
        /\ approves \in [Approvals -> Intents \cup {None}]
        /\ t \notin Runs => t \in Approvals
    BY DEF TypeInv, TypeOK, Tasks
  <1>2. ASSUME pc'[t] = pc[t],
               t \in Runs => position'[t] = position[t],
               t \notin Runs => approves'[t] = approves[t]
        PROVE  Goal
    BY <1>2 DEF Subject, Current
  <1>3. ASSUME NEW u \in Tasks, u # t, NEW j, NEW s, Settle(u, j, s) \/ Send(u, j),
               \A c \in Approvals : c # u => approves'[c] = approves[c]
        PROVE  Goal
    <2>1. pc'[t] = pc[t] /\ (t \in Runs => position'[t] = position[t])
      BY <1>1, <1>3 DEF Settle, Send
    <2>. QED BY <1>1, <1>2, <1>3, <2>1
  <1>4. ASSUME NEW r \in Runs, StartRun(r) \/ RunStep(r)
        PROVE  Goal
    <2>1. r # t /\ r \in Tasks /\ approves' = approves
      BY <1>4 DEF StartRun, RunStep, AgentFails, AgentReturns, RejectByPolicy, KeepProposed,
         QueueForApproval, AutoApproveRaises, AutoApply, FinishRun, FinishRaises, AtIntent,
         LoopOver, Tasks
    <2>2. CASE \/ StartRun(r) \/ AgentFails(r) \/ AgentReturns(r) \/ AutoApproveRaises(r)
               \/ FinishRun(r) \/ FinishRaises(r)
      <3>1. pc'[t] = pc[t] /\ (t \in Runs => position'[t] = position[t])
        BY <1>1, <2>1, <2>2 DEF StartRun, AgentFails, AgentReturns, AutoApproveRaises,
           FinishRun, FinishRaises, CloseRun
      <3>. QED BY <1>2, <2>1, <3>1
    <2>3. CASE RejectByPolicy(r) \/ KeepProposed(r) \/ QueueForApproval(r) \/ AutoApply(r)
      BY <1>3, <2>1, <2>3
         DEF RejectByPolicy, KeepProposed, QueueForApproval, AutoApply, ApplyIntent
    <2>. QED BY <1>4, <2>2, <2>3 DEF RunStep
  <1>5. ASSUME NEW c \in Approvals, NEW i \in Intents, Approve(c, i)
        PROVE  Goal
    <2>1. c # t /\ c \in Tasks /\ \A d \in Approvals : d # c => approves'[d] = approves[d]
      BY <1>1, <1>5 DEF Approve, Tasks
    <2>. QED BY <1>3, <1>5, <2>1 DEF Approve, ApplyIntent
  <1>6. ASSUME NEW u \in Tasks, Answer(u)
        PROVE  Goal
    <2>1. CASE u = t
      <3>1. Subject(t) \in Intents
        BY SubjectLemma
      <3>. QED BY <1>6, <2>1, <3>1 DEF Answer, ApplySucceeds, ApplyRaises, Settle, TypeInv, TypeOK
    <2>2. CASE u # t
      BY <1>3, <1>6, <2>2 DEF Answer, ApplySucceeds, ApplyRaises
    <2>. QED BY <2>1, <2>2
  <1>7. ASSUME NEW u \in Tasks, Cancel(u)
        PROVE  FALSE
    BY <1>7 DEF Cancel
  <1>8. ASSUME NEW u \in Tasks, NEW i \in Intents, RejectIntent(i) \/ Land(u, i)
        PROVE  Goal
    BY <1>2, <1>8 DEF RejectIntent, Land, flow
  <1>9. ASSUME UNCHANGED vars
        PROVE  Goal
    BY <1>2, <1>9 DEF vars, flow
  <1>. HIDE DEF Goal
  <1>10. Goal
    BY <1>4, <1>5, <1>6, <1>7, <1>8, <1>9 DEF Next
  <1>. QED BY <1>10 DEF Goal

\* The task that has just sent a request waits for its answer.
LEMMA SenderWaits ==
    ASSUME TypeInv, NEW t \in Tasks, NEW i \in Intents, NeedsWrite(i),
           \/ t \in Runs /\ AutoApply(t) /\ i = Current(t)
           \/ t \in Approvals /\ Approve(t, i)
    PROVE  pc'[t] = "applying" /\ Subject(t)' = i
  <1>1. /\ pc \in [Tasks -> PcValues]
        /\ approves \in [Approvals -> Intents \cup {None}]
    BY DEF TypeInv, TypeOK
  <1>2. CASE t \in Runs /\ AutoApply(t) /\ i = Current(t)
    BY <1>1, <1>2 DEF AutoApply, ApplyIntent, Send, Subject, Current
  <1>3. CASE t \in Approvals /\ Approve(t, i)
    BY <1>1, <1>3, TasksAssumption DEF Approve, ApplyIntent, Send, Subject
  <1>. QED BY <1>2, <1>3

\* Only the end of its loop makes a run succeed.
LEMMA SuccessLemma ==
    ASSUME TypeInv, [Next]_vars, NEW r \in Runs,
           runStatus'[r] = "succeeded", runStatus[r] # "succeeded"
    PROVE  FinishRun(r)
  <1>1. runStatus \in [Runs -> {"none", "running", "succeeded", "failed"}]
    BY DEF TypeInv, TypeOK
  <1>2. ASSUME NEW q \in Runs,
               StartRun(q) \/ AgentFails(q) \/ AutoApproveRaises(q) \/ FinishRaises(q)
        PROVE  FALSE
    BY <1>1, <1>2 DEF StartRun, AgentFails, AutoApproveRaises, FinishRaises, CloseRun
  <1>3. ASSUME NEW q \in Runs, FinishRun(q)
        PROVE  q = r
    BY <1>1, <1>3 DEF FinishRun, CloseRun
  <1>4. ASSUME NEW q \in Runs,
               AgentReturns(q) \/ RejectByPolicy(q) \/ KeepProposed(q) \/ QueueForApproval(q)
                 \/ AutoApply(q)
        PROVE  FALSE
    BY <1>4 DEF AgentReturns, RejectByPolicy, KeepProposed, QueueForApproval, AutoApply,
       ApplyIntent, Send, ledger
  <1>5. ASSUME NEW c \in Approvals, NEW i \in Intents, Approve(c, i)
        PROVE  FALSE
    BY <1>5 DEF Approve, ApplyIntent, Send, ledger
  <1>6. ASSUME NEW t \in Tasks, Answer(t) \/ Cancel(t)
        PROVE  FALSE
    BY <1>6 DEF Answer, ApplySucceeds, ApplyRaises, Cancel, ledger
  <1>7. ASSUME NEW t \in Tasks, NEW i \in Intents, RejectIntent(i) \/ Land(t, i)
        PROVE  FALSE
    BY <1>7 DEF RejectIntent, Land, ledger
  <1>8. ASSUME UNCHANGED vars
        PROVE  FALSE
    BY <1>8 DEF vars, ledger
  <1>9. r \in Tasks
    BY DEF Tasks
  <1>10. ASSUME NEW i \in Intents, RejectIntent(i)
         PROVE  FALSE
    BY <1>10 DEF RejectIntent
  <1>. QED
    BY <1>2, <1>3, <1>4, <1>5, <1>6, <1>7, <1>8, <1>9, <1>10 DEF Next, RunStep

LEMMA LossStep ==
    ASSUME TypeInv, LossInv, [Next]_vars, ~ MayCancel
    PROVE  LossInv'
  <1>1. OrderInv /\ SentInv /\ PassedInv /\ PendingIsUntouched
    BY DEF LossInv
  <1>2. ledgered \subseteq ledgered'
    BY <1>1, MoveLemma DEF Moves
  <1>3. ASSUME NEW call \in (inTransit \cup landed)', call \notin inTransit \cup landed
        PROVE  pc'[call[1]] = "applying" /\ Subject(call[1])' = call[2]
    <2>1. PICK t \in Tasks, i \in Intents :
               /\ call = <<t, i>>
               /\ NeedsWrite(i)
               /\ \/ t \in Runs /\ AutoApply(t) /\ i = Current(t)
                  \/ t \in Approvals /\ Approve(t, i)
      BY <1>3, CallsLemma
    <2>2. pc'[t] = "applying" /\ Subject(t)' = i
      BY <2>1, SenderWaits
    <2>3. call[1] = t /\ call[2] = i
      BY <2>1
    <2>. QED BY <2>2, <2>3 DEF Subject, Current
  <1>4. \A call \in inTransit \cup landed : call[1] \in Tasks /\ call[2] \in Intents
    BY DEF TypeInv, TypeOK, Calls
  <1>5. ASSUME NEW call \in (inTransit \cup landed)'
        PROVE  \/ call[2] \in ledgered'
               \/ pc'[call[1]] = "applying" /\ Subject(call[1])' = call[2]
    <2>1. CASE call \in inTransit \cup landed /\ call[2] \in ledgered
      BY <1>2, <2>1
    <2>2. CASE call \in inTransit \cup landed /\ call[2] \notin ledgered
      <3>1. pc[call[1]] = "applying" /\ Subject(call[1]) = call[2] /\ call[1] \in Tasks
        BY <1>1, <1>4, <2>2 DEF SentInv
      <3>. QED BY <3>1, AnswerEnds
    <2>. QED BY <1>3, <2>1, <2>2
  <1>6. ASSUME NEW r \in Runs, runStatus'[r] = "succeeded"
        PROVE  position'[r] \notin DOMAIN Proposals[r]
    <2>1. position[r] \notin DOMAIN Proposals[r]
      BY <1>1, <1>6, SuccessLemma DEF PassedInv, FinishRun, LoopOver
    <2>2. position'[r] = position[r]
      BY <1>1, <2>1, MoveLemma DEF Moves, TypeInv, TypeOK
    <2>. QED BY <2>1, <2>2
  <1>7. ASSUME NEW i \in Intents, status'[i] = "pending",
               NEW call \in (inTransit \cup landed)', call[2] = i
        PROVE  pc'[call[1]] = "applying" /\ Subject(call[1])' = i
    <2>1. CASE call \notin inTransit \cup landed
      BY <1>3, <1>7, <2>1
    <2>2. CASE call \in inTransit \cup landed /\ status[i] = "pending"
      <3>1. pc[call[1]] = "applying" /\ Subject(call[1]) = i /\ call[1] \in Tasks
        BY <1>1, <1>4, <1>7, <2>2 DEF PendingIsUntouched
      <3>. QED BY <1>7, <3>1, AnswerEnds
    <2>3. CASE call \in inTransit \cup landed /\ status[i] # "pending"
      <3>1. PICK r \in Runs : QueueForApproval(r) /\ i = Current(r)
        BY <1>7, <2>3, PendingLemma
      <3>2. pc[r] = "loop" /\ position[r] \in DOMAIN Proposals[r] /\ position[r] \in Nat
        BY <3>1 DEF QueueForApproval, AtIntent, TypeInv, TypeOK
      <3>3. i \notin ledgered
        BY <1>1, <3>1, <3>2 DEF OrderInv, Current
      <3>4. pc[call[1]] = "applying" /\ Subject(call[1]) = i /\ call[1] \in Tasks
        BY <1>1, <1>4, <1>7, <2>3, <3>3 DEF SentInv
      <3>5. call[1] \in Runs
        BY <1>1, <3>3, <3>4, TasksAssumption DEF OrderInv, Subject, Tasks
      <3>6. i \in ProposedBy(call[1]) /\ i \in ProposedBy(r)
        BY <3>1, <3>2, <3>4, <3>5, SubjectLemma, PositionLemma DEF TypeInv
      <3>7. call[1] = r
        BY <3>5, <3>6, ProposalsAssumption
      <3>. QED BY <3>2, <3>4, <3>7
    <2>. QED BY <2>1, <2>2, <2>3
  <1>8. OrderInv'
    BY <1>1, OrderStep
  <1>9. SentInv'
    BY <1>5 DEF SentInv
  <1>10. PassedInv'
    BY <1>6 DEF PassedInv
  <1>11. PendingIsUntouched'
    BY <1>7 DEF PendingIsUntouched
  <1>. QED BY <1>8, <1>9, <1>10, <1>11 DEF LossInv

LEMMA LossInvariant ==
    ASSUME ~ MayCancel
    PROVE  Spec => []LossInv
  <1>1. Init => LossInv
    <2>1. \A r \in Runs : \A n \in DOMAIN Proposals[r] : n \in Nat /\ ~ (n < 1)
      BY ProposalsAssumption
    <2>. QED
      BY <2>1, TasksAssumption
         DEF Init, LossInv, OrderInv, SentInv, PassedInv, PendingIsUntouched, Tasks
  <1>2. TypeInv /\ LossInv /\ [Next]_vars => LossInv'
    BY LossStep
  <1>. QED BY <1>1, <1>2, TypeInvariant, PTL DEF Spec

\* Where no task is cancelled the ledger has the intent of every finished call, written or
\* not, and all the proposals of a run that ended well, although answers may be lost.
THEOREM NoWriteIsLost ==
    ASSUME ~ MayCancel
    PROVE  Spec => []EveryWriteIsLedgered
  <1>1. TypeInv /\ LossInv => EveryWriteIsLedgered
    <2> SUFFICES ASSUME TypeInv, LossInv PROVE EveryWriteIsLedgered
      OBVIOUS
    <2>1. ASSUME NEW r \in Runs, runStatus[r] = "succeeded", NEW n \in DOMAIN Proposals[r]
          PROVE  Proposals[r][n] \in ledgered
      <3>1. Proposals[r] \in Seq(Intents)
        BY ProposalsAssumption
      <3>2. position[r] \in 1..(Len(Proposals[r]) + 1) /\ position[r] \notin 1..Len(Proposals[r])
        BY <2>1, <3>1 DEF LossInv, PassedInv, TypeInv, TypeOK
      <3>3. n < position[r]
        BY <3>1, <3>2
      <3>. QED BY <3>3 DEF LossInv, OrderInv
    <2>2. \A call \in inTransit \cup landed : pc[call[1]] = "done" => call[2] \in ledgered
      BY DEF LossInv, SentInv
    <2>. QED BY <2>1, <2>2 DEF EveryWriteIsLedgered, ProposedBy
  <1>. QED BY <1>1, LossInvariant, TypeInvariant, PTL

\* Where no task is cancelled, what a human finds in the queue has not been sent to the
\* remote system, but by an approval that is under way.
THEOREM QueueIsUntouched ==
    ASSUME ~ MayCancel
    PROVE  Spec => []PendingIsUntouched
  <1>1. LossInv => PendingIsUntouched
    BY DEF LossInv
  <1>. QED BY <1>1, LossInvariant, PTL

-----------------------------------------------------------------------------
(* Idempotency.                                                            *)

\* The tasks that wait for the write of a key.
WaitingFor(k) == {t \in Tasks : pc[t] = "applying" /\ KeyOf[Subject(t)] = k}

\* A task starts only when there is room for it.
LEMMA EntryLemma ==
    ASSUME TypeInv, [Next]_vars
    PROVE  \/ Active' \subseteq Active
           \/ \E t \in Tasks : CanEnter /\ Active' \subseteq Active \cup {t}
  <1>1. pc \in [Tasks -> PcValues]
    BY DEF TypeInv, TypeOK
  <1>2. ASSUME NEW t \in Tasks, pc' = pc \/ \E s : pc' = [pc EXCEPT ![t] = s]
        PROVE  Active' \subseteq Active \cup {t}
    BY <1>1, <1>2 DEF Active
  <1>3. ASSUME NEW t \in Tasks, pc[t] \notin {"idle", "done"},
               pc' = pc \/ \E s : pc' = [pc EXCEPT ![t] = s]
        PROVE  Active' \subseteq Active
    BY <1>1, <1>3 DEF Active
  <1>4. ASSUME NEW r \in Runs, StartRun(r)
        PROVE  CanEnter /\ Active' \subseteq Active \cup {r}
    BY <1>2, <1>4 DEF StartRun, Tasks
  <1>5. ASSUME NEW c \in Approvals, NEW i \in Intents, Approve(c, i)
        PROVE  CanEnter /\ Active' \subseteq Active \cup {c}
    <2>1. \E s : pc' = [pc EXCEPT ![c] = s]
      BY <1>5, TasksAssumption DEF Approve, ApplyIntent, Send, Settle
    <2> QED
      BY <1>2, <1>5, <2>1 DEF Approve, Tasks
  <1>6. ASSUME NEW r \in Runs, RunStep(r)
        PROVE  Active' \subseteq Active
    <2>1. pc[r] \in {"agent", "loop"}
      BY <1>6 DEF RunStep, AgentFails, AgentReturns, RejectByPolicy, KeepProposed,
         QueueForApproval, AutoApproveRaises, AutoApply, FinishRun, FinishRaises,
         AtIntent, LoopOver
    <2>2. \E s : pc' = [pc EXCEPT ![r] = s]
      BY <1>6 DEF RunStep, AgentFails, AgentReturns, RejectByPolicy, KeepProposed,
         QueueForApproval, AutoApproveRaises, AutoApply, FinishRun, FinishRaises,
         CloseRun, ApplyIntent, Send, Settle
    <2> QED
      BY <1>3, <2>1, <2>2 DEF Tasks
  <1>7. ASSUME NEW t \in Tasks, Answer(t) \/ Cancel(t)
        PROVE  Active' \subseteq Active
    <2>1. pc[t] \in {"agent", "applying"}
      BY <1>7 DEF Answer, ApplySucceeds, ApplyRaises, Cancel
    <2>2. \E s : pc' = [pc EXCEPT ![t] = s]
      BY <1>7 DEF Answer, ApplySucceeds, ApplyRaises, Cancel, Settle
    <2> QED
      BY <1>3, <2>1, <2>2
  <1>8. ASSUME NEW t \in Tasks, NEW i \in Intents, RejectIntent(i) \/ Land(t, i)
        PROVE  pc' = pc
    BY <1>8 DEF RejectIntent, Land, flow
  <1>9. ASSUME UNCHANGED vars
        PROVE  pc' = pc
    BY <1>9 DEF vars, flow
  <1>10. pc' = pc => Active' \subseteq Active
    BY DEF Active
  <1>11. ASSUME NEW i \in Intents, RejectIntent(i)
         PROVE  pc' = pc
    BY <1>11 DEF RejectIntent, flow
  <1> QED
    BY <1>4, <1>5, <1>6, <1>7, <1>8, <1>9, <1>10, <1>11 DEF Next, Tasks

\* A task that waits for an answer has waited for it before, or sends now, with a key that
\* is not marked, and then no answer comes in this step.
LEMMA WaitingLemma ==
    ASSUME TypeInv, [Next]_vars, NEW t \in Tasks, pc'[t] = "applying"
    PROVE  \/ pc[t] = "applying" /\ Subject(t)' = Subject(t)
           \/ /\ KeyOf[Subject(t)'] \notin appliedKeys'
              /\ answered' = answered
  <1> DEFINE Goal == \/ pc[t] = "applying" /\ Subject(t)' = Subject(t)
                     \/ /\ KeyOf[Subject(t)'] \notin appliedKeys'
                        /\ answered' = answered
  <1>1. pc \in [Tasks -> PcValues] /\ position \in [Runs -> Nat]
        /\ approves \in [Approvals -> Intents \cup {None}]
    BY DEF TypeInv, TypeOK
  <1>2. t \notin Runs => t \in Approvals
    BY DEF Tasks
  <1>3. ASSUME pc' = pc \/ pc'[t] = pc[t],
               t \in Runs => position'[t] = position[t],
               t \notin Runs => approves'[t] = approves[t]
        PROVE  Goal
    BY <1>3 DEF Subject, Current
  <1>4. ASSUME NEW u \in Tasks, NEW j, NEW s, Settle(u, j, s), approves' = approves \/ u \in Approvals,
               \A c \in Approvals : c # u => approves'[c] = approves[c]
        PROVE  Goal
    <2>1. u # t
      BY <1>1, <1>4 DEF Settle
    <2>2. pc'[t] = pc[t]
      BY <1>1, <1>4, <2>1 DEF Settle
    <2>3. t \in Runs => position'[t] = position[t]
      BY <1>1, <1>4, <2>1 DEF Settle
    <2> QED
      BY <1>2, <1>3, <1>4, <2>1, <2>2, <2>3
  <1>5. ASSUME NEW u \in Tasks, NEW i \in Intents, Send(u, i), NeedsWrite(i),
               u \in Runs => i = Current(u),
               u \notin Runs => approves'[u] = i,
               \A c \in Approvals : c # u => approves'[c] = approves[c]
        PROVE  Goal
    <2>1. CASE u = t
      <3>1. Subject(t)' = i
        BY <1>5, <2>1 DEF Subject, Current, Send
      <3> QED
        BY <1>5, <3>1 DEF Send, NeedsWrite, ledger
    <2>2. CASE u # t
      <3>1. pc'[t] = pc[t] /\ position' = position
        BY <1>1, <1>5, <2>2 DEF Send
      <3> QED
        BY <1>2, <1>3, <1>5, <2>2, <3>1
    <2> QED
      BY <2>1, <2>2
  <1>6. ASSUME NEW r \in Runs, RejectByPolicy(r) \/ KeepProposed(r) \/ QueueForApproval(r)
        PROVE  Goal
    BY <1>4, <1>6 DEF RejectByPolicy, KeepProposed, QueueForApproval, Tasks
  <1>7. ASSUME NEW r \in Runs, AutoApply(r)
        PROVE  Goal
    <2>1. Current(r) \in Intents /\ r \in Tasks
      BY <1>7, PositionLemma DEF AutoApply, AtIntent, TypeInv, Tasks
    <2> QED
      BY <1>4, <1>5, <1>7, <2>1 DEF AutoApply, ApplyIntent
  <1>8. ASSUME NEW c \in Approvals, NEW i \in Intents, Approve(c, i)
        PROVE  Goal
    <2>1. /\ approves'[c] = i
          /\ \A e \in Approvals : e # c => approves'[e] = approves[e]
      BY <1>1, <1>8 DEF Approve
    <2>2. c \notin Runs /\ c \in Tasks
      BY TasksAssumption DEF Tasks
    <2> QED
      BY <1>4, <1>5, <1>8, <2>1, <2>2 DEF Approve, ApplyIntent
  <1>9. ASSUME NEW r \in Runs,
               StartRun(r) \/ AgentFails(r) \/ AgentReturns(r) \/ AutoApproveRaises(r)
                 \/ FinishRun(r) \/ FinishRaises(r)
        PROVE  Goal
    <2>1. r # t /\ pc'[t] = pc[t]
      BY <1>1, <1>9 DEF StartRun, AgentFails, AgentReturns, AutoApproveRaises, FinishRun,
         FinishRaises, CloseRun, Tasks
    <2>2. approves' = approves /\ (t \in Runs => position'[t] = position[t])
      BY <1>1, <1>9, <2>1 DEF StartRun, AgentFails, AgentReturns, AutoApproveRaises,
         FinishRun, FinishRaises
    <2> QED
      BY <1>3, <2>1, <2>2
  <1>10. ASSUME NEW u \in Tasks, Answer(u)
         PROVE  Goal
    BY <1>4, <1>10 DEF Answer, ApplySucceeds, ApplyRaises
  <1>11. ASSUME NEW u \in Tasks, Cancel(u)
         PROVE  Goal
    BY <1>1, <1>3, <1>11 DEF Cancel
  <1>12. ASSUME NEW u \in Tasks, NEW i \in Intents, RejectIntent(i) \/ Land(u, i)
         PROVE  Goal
    BY <1>3, <1>12 DEF RejectIntent, Land, flow
  <1>13. CASE UNCHANGED vars
    BY <1>3, <1>13 DEF vars, flow
  <1>14. Goal
    BY <1>6, <1>7, <1>8, <1>9, <1>10, <1>11, <1>12, <1>13 DEF Next, RunStep
  <1> QED
    BY <1>14

\* A write is confirmed only by an answer.
LEMMA AnswerLemma ==
    ASSUME TypeInv, [Next]_vars
    PROVE  \/ answered' = answered
           \/ \E t \in Tasks : /\ ApplySucceeds(t)
                               /\ answered' = answered \cup {<<t, Subject(t)>>}
                               /\ pc'[t] # "applying"
  <1>1. ASSUME NEW t \in Tasks, NEW i, ApplyIntent(t, i)
        PROVE  answered' = answered
    BY <1>1 DEF ApplyIntent, Send, world
  <1>2. ASSUME NEW r \in Runs, StartRun(r) \/ RunStep(r)
        PROVE  answered' = answered
    <2>1. CASE AutoApply(r)
      BY <1>1, <2>1 DEF AutoApply, Tasks
    <2> QED
      BY <1>2, <2>1 DEF StartRun, RunStep, AgentFails, AgentReturns, RejectByPolicy,
         KeepProposed, QueueForApproval, AutoApproveRaises, FinishRun, FinishRaises, world
  <1>3. ASSUME NEW c \in Approvals, NEW i \in Intents, Approve(c, i)
        PROVE  answered' = answered
    BY <1>1, <1>3 DEF Approve, Tasks
  <1>4. ASSUME NEW i \in Intents, RejectIntent(i)
        PROVE  answered' = answered
    BY <1>4 DEF RejectIntent, world
  <1>5. ASSUME NEW t \in Tasks, ApplyRaises(t) \/ Cancel(t)
        PROVE  answered' = answered
    BY <1>5 DEF ApplyRaises, Cancel, world
  <1>6. ASSUME NEW t \in Tasks, ApplySucceeds(t)
        PROVE  answered' = answered \cup {<<t, Subject(t)>>} /\ pc'[t] # "applying"
    <2>1. pc'[t] \in {"loop", "done"}
      BY <1>6, SubjectLemma, SettleLemma DEF ApplySucceeds
    <2> QED
      BY <1>6, <2>1 DEF ApplySucceeds
  <1>7. ASSUME NEW t \in Tasks, NEW i \in Intents, Land(t, i)
        PROVE  answered' = answered
    BY <1>7 DEF Land
  <1>8. CASE UNCHANGED vars
    BY <1>8 DEF vars, world
  <1> QED
    BY <1>2, <1>3, <1>4, <1>5, <1>6, <1>7, <1>8 DEF Next, Answer

\* The confirmed writes of a key and the tasks that still wait for one are together no more
\* than the tasks that may be in progress; an unmarked key has no confirmed write.
IdempotencyInv ==
    /\ Cardinality(Active) <= MaxTasks
    /\ \A k \in Keys :
          /\ IsFiniteSet(Confirmed(k))
          /\ Cardinality(Confirmed(k)) + Cardinality(WaitingFor(k)) <= MaxTasks
          /\ k \notin appliedKeys => Confirmed(k) = {}

\* Sets of tasks are finite.
LEMMA TasksFinite ==
    ASSUME NEW S \in SUBSET Tasks
    PROVE  IsFiniteSet(S) /\ Cardinality(S) \in Nat
  <1>1. IsFiniteSet(S)
    BY FS_Subset, TasksAssumption
  <1> QED
    BY <1>1, FS_CardinalityType

LEMMA IdempotencyStep ==
    ASSUME TypeInv, IdempotencyInv, [Next]_vars
    PROVE  IdempotencyInv'
  <1>1. MaxTasks \in Nat
    BY TasksAssumption
  <1>2. Active \in SUBSET Tasks /\ Active' \in SUBSET Tasks
    BY DEF Active
  <1>3. Cardinality(Active') <= MaxTasks
    <2>1. IsFiniteSet(Active) /\ Cardinality(Active) \in Nat /\ Cardinality(Active') \in Nat
      BY <1>2, TasksFinite
    <2>2. CASE Active' \subseteq Active
      <3>1. Cardinality(Active') <= Cardinality(Active)
        BY <2>1, <2>2, FS_Subset
      <3> QED
        BY <1>1, <2>1, <3>1 DEF IdempotencyInv
    <2>3. ASSUME NEW t \in Tasks, CanEnter, Active' \subseteq Active \cup {t}
          PROVE  Cardinality(Active') <= MaxTasks
      <3>1. /\ IsFiniteSet(Active \cup {t})
            /\ \/ Cardinality(Active \cup {t}) = Cardinality(Active)
               \/ Cardinality(Active \cup {t}) = Cardinality(Active) + 1
        BY <2>1, FS_AddElement
      <3>2. Cardinality(Active') <= Cardinality(Active \cup {t})
        BY <2>3, <3>1, FS_Subset
      <3> QED
        BY <1>1, <2>1, <2>3, <3>1, <3>2 DEF CanEnter
    <2> QED
      BY <2>2, <2>3, EntryLemma
  <1>4. ASSUME NEW k \in Keys
        PROVE  /\ IsFiniteSet(Confirmed(k)')
               /\ Cardinality(Confirmed(k)') + Cardinality(WaitingFor(k)') <= MaxTasks
               /\ k \notin appliedKeys' => Confirmed(k)' = {}
    <2> DEFINE C == Confirmed(k)
               W == WaitingFor(k)
    <2>1. W \in SUBSET Tasks /\ W' \in SUBSET Tasks
      BY DEF WaitingFor
    <2>2. /\ IsFiniteSet(W) /\ Cardinality(W) \in Nat
          /\ IsFiniteSet(W') /\ Cardinality(W') \in Nat
      BY <2>1, TasksFinite
    <2>3. IsFiniteSet(C) /\ Cardinality(C) \in Nat /\ Cardinality(C) + Cardinality(W) <= MaxTasks
      BY FS_CardinalityType DEF IdempotencyInv
    <2>4. W' \subseteq Active'
      BY DEF WaitingFor, Active
    <2>5. k \notin appliedKeys' => C' = {}
      <3>1. CASE answered' = answered
        BY <3>1, GrowthLemma DEF IdempotencyInv, Confirmed
      <3>2. ASSUME NEW t \in Tasks, ApplySucceeds(t), k \notin appliedKeys'
            PROVE  C' = {}
        <4>1. /\ answered' = answered \cup {<<t, Subject(t)>>}
              /\ KeyOf[Subject(t)] # k
          BY <3>2 DEF ApplySucceeds
        <4>2. C = {}
          BY <3>2, GrowthLemma DEF IdempotencyInv
        <4>3. <<t, Subject(t)>>[2] = Subject(t)
          OBVIOUS
        <4> QED
          BY <4>1, <4>2, <4>3 DEF Confirmed
      <3> QED
        BY <3>1, <3>2, AnswerLemma
    <2>6. CASE W' \subseteq W /\ answered' = answered
      <3>1. C' = C
        BY <2>6 DEF Confirmed
      <3>2. Cardinality(W') <= Cardinality(W)
        BY <2>2, <2>6, FS_Subset
      <3> HIDE DEF C, W
      <3>3. Cardinality(C') + Cardinality(W') <= MaxTasks
        BY <1>1, <2>2, <2>3, <3>1, <3>2
      <3> QED
        BY <2>3, <2>5, <3>1, <3>3 DEF C, W
    <2>7. CASE ~ (W' \subseteq W)
      <3>1. PICK t \in Tasks : t \in W' /\ t \notin W
        BY <2>1, <2>7
      <3>2. k \notin appliedKeys'
        BY <3>1, WaitingLemma DEF WaitingFor
      <3>3. C' = {}
        BY <2>5, <3>2
      <3>4. IsFiniteSet(C') /\ Cardinality(C') = 0
        BY <3>3, FS_EmptySet
      <3>5. Cardinality(W') <= MaxTasks
        <4>1. IsFiniteSet(Active') /\ Cardinality(Active') \in Nat
          BY <1>2, TasksFinite
        <4>2. Cardinality(W') <= Cardinality(Active')
          BY <2>4, <4>1, FS_Subset
        <4> QED
          BY <1>1, <1>3, <2>2, <4>1, <4>2
      <3> HIDE DEF C, W
      <3>6. Cardinality(C') + Cardinality(W') <= MaxTasks
        BY <1>1, <2>2, <3>4, <3>5
      <3> QED
        BY <2>5, <3>4, <3>6 DEF C, W
    <2>8. ASSUME NEW t \in Tasks, ApplySucceeds(t),
                 answered' = answered \cup {<<t, Subject(t)>>},
                 pc'[t] # "applying", W' \subseteq W
          PROVE  /\ IsFiniteSet(C')
                 /\ Cardinality(C') + Cardinality(W') <= MaxTasks
      <3>1. CASE KeyOf[Subject(t)] # k
        <4>1. C' = C
          BY <2>8, <3>1 DEF Confirmed
        <4>2. Cardinality(W') <= Cardinality(W)
          BY <2>2, <2>8, FS_Subset
        <4> HIDE DEF C, W
        <4> QED
          BY <1>1, <2>2, <2>3, <4>1, <4>2
      <3>2. CASE KeyOf[Subject(t)] = k
        <4>1. C' = C \cup {<<t, Subject(t)>>}
          BY <2>8, <3>2 DEF Confirmed
        <4>2. /\ IsFiniteSet(C')
              /\ \/ Cardinality(C') = Cardinality(C)
                 \/ Cardinality(C') = Cardinality(C) + 1
          <5> DEFINE D == C \cup {<<t, Subject(t)>>}
          <5> HIDE DEF C
          <5>1. /\ IsFiniteSet(D)
                /\ \/ Cardinality(D) = Cardinality(C)
                   \/ Cardinality(D) = Cardinality(C) + 1
            BY <2>3, FS_AddElement
          <5> QED
            BY <4>1, <5>1
        <4>3. t \in W /\ t \notin W'
          BY <2>8, <3>2 DEF WaitingFor, ApplySucceeds
        <4>4. Cardinality(W') <= Cardinality(W \ {t})
          <5>1. W' \subseteq W \ {t}
            BY <2>8, <4>3
          <5>2. IsFiniteSet(W \ {t})
            BY <2>2, FS_Subset
          <5> QED
            BY <5>1, <5>2, FS_Subset
        <4>5. Cardinality(W \ {t}) = Cardinality(W) - 1
          BY <2>2, <4>3, FS_RemoveElement
        <4> HIDE DEF C, W
        <4> QED
          BY <1>1, <2>2, <2>3, <4>2, <4>4, <4>5
      <3> QED
        BY <3>1, <3>2
    <2> QED
      BY <2>5, <2>6, <2>7, <2>8, AnswerLemma
  <1> QED
    BY <1>3, <1>4 DEF IdempotencyInv

LEMMA IdempotencyInvariant == Spec => []IdempotencyInv
  <1>1. Init => IdempotencyInv
    <2> SUFFICES ASSUME Init PROVE IdempotencyInv
      OBVIOUS
    <2>1. Active = {} /\ \A k \in Keys : Confirmed(k) = {} /\ WaitingFor(k) = {}
      BY DEF Init, Active, Confirmed, WaitingFor
    <2> QED
      BY <2>1, FS_EmptySet, TasksAssumption DEF IdempotencyInv
  <1>2. TypeInv /\ IdempotencyInv /\ [Next]_vars => IdempotencyInv'
    BY IdempotencyStep
  <1> QED
    BY <1>1, <1>2, TypeInvariant, PTL DEF Spec

\* Idempotency: a key is confirmed at most once per task in progress, so at most once when
\* the API is called one call at a time, whatever runs, approvals, timeouts and
\* cancellations there are; the duplicates that MaxTasks > 1 admits are the real ones of
\* calls that overlap at the await of apply_write.
THEOREM DuplicatesAreBounded == Spec => []DuplicatesBounded
  <1>1. IdempotencyInv => DuplicatesBounded
    <2> SUFFICES ASSUME IdempotencyInv, NEW k \in Keys
                 PROVE  Cardinality(Confirmed(k)) <= MaxTasks
      BY DEF DuplicatesBounded
    <2>1. Cardinality(Confirmed(k)) \in Nat
      BY FS_CardinalityType DEF IdempotencyInv
    <2>2. Cardinality(WaitingFor(k)) \in Nat
      BY TasksFinite DEF WaitingFor
    <2> QED
      BY <2>1, <2>2, TasksAssumption DEF IdempotencyInv
  <1> QED
    BY <1>1, IdempotencyInvariant, PTL
=============================================================================
