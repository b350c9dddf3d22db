------------------------ MODULE WebhookServiceProofs ------------------------
(***************************************************************************)
(* The webhook endpoint drives the pipeline and does nothing to it that    *)
(* the API could not do: every behaviour of the service is one of          *)
(* WritePipeline, so what is proved of the pipeline holds for webhooks.    *)
(***************************************************************************)
EXTENDS WebhookService, LifecycleProofs, WellFoundedInduction

\* A step of the service is a step of the pipeline, or leaves it alone.
LEMMA ServiceStep == ServiceNext => [Next]_vars
<1> SUFFICES ASSUME ServiceNext PROVE [Next]_vars
  OBVIOUS
<1>1. CASE \E a \in Attempts : Receive(a)
  BY <1>1 DEF Receive
<1>2. ASSUME NEW a \in Attempts, Dispatch(a) PROVE [Next]_vars
  <2>1. CASE StartEvent(a)
    <3>1. RunAt(a) \in Runs
      BY <2>1, AttemptsAssumption DEF StartEvent, AtEvent, RunAt
    <3>. QED BY <2>1, <3>1 DEF StartEvent, Next
  <2>2. CASE ~ StartEvent(a)
    BY <1>2, <2>2 DEF Dispatch, EventRefused, RunReturned, RunRaised, Acknowledge
  <2>. QED BY <2>1, <2>2
<1>3. CASE EngineStep
  BY <1>3 DEF EngineStep, Next
<1>. QED BY <1>1, <1>2, <1>3 DEF ServiceNext

\* The endpoint implements the pipeline: receive_webhook and dispatch reach the engine only
\* through engine.run.
THEOREM ServiceImplementsPipeline == ServiceSpec => Spec
<1>1. ServiceInit => Init
  BY DEF ServiceInit
<1>2. [ServiceNext]_serviceVars => [Next]_vars
  BY ServiceStep DEF serviceVars
<1>. QED BY <1>1, <1>2, PTL DEF ServiceSpec, Spec

\* No write without a policy that lets it through, also when a webhook caused it.
THEOREM WebhookWritesAreGated == ServiceSpec => []GatedWrites
BY ServiceImplementsPipeline, WritesAreGated

\* The blast radius holds for the runs of webhooks and for the approvals that follow them.
THEOREM WebhookBlastRadius == ServiceSpec => []BlastRadius
BY ServiceImplementsPipeline, BlastRadiusHolds

\* However often a body is delivered, the writes of a key that were answered are no more than
\* the tasks that can be in progress together.  Of writes with a lost answer there can be
\* more: webhook_retry repeats one without any overlap.
THEOREM RedeliveriesAreBounded == ServiceSpec => []DuplicatesBounded
BY ServiceImplementsPipeline, DuplicatesAreBounded

\* The lifecycle of an intent is the same for what a webhook proposes: when the calls of the
\* remote system do not overlap and every answer arrives, each key is written once.
THEOREM ServiceKeepsLifecycle ==
    ASSUME MaxTasks = 1, ~ MayCancel, ~ MayLoseAnswer
    PROVE  ServiceSpec => ImplementsLifecycle
BY ServiceImplementsPipeline, PipelineImplementsLifecycle, PTL
-----------------------------------------------------------------------------
(* What a webhook causes comes from its source.                            *)

\* What verify accepts carries a signature of the source for it, and a recent timestamp.
LEMMA VerifiedIsAuthentic ==
    ASSUME NEW q, q.at \in Int, Outcome(q) = "verified"
    PROVE  Authentic(q)
<1>1. Known(q) /\ ~ Unverified(q) /\ ~ Unreadable(q)
  BY DEF Outcome
<1>2. Complete(q) /\ Legible(q) /\ InTime(q) /\ Comparable(q) /\ Matches(q)
  BY <1>1 DEF Unverified, Unreadable
<1>3. PICK k \in DOMAIN q.fields :
          q.fields[k].name = StampField(q.source) /\ q.fields[k].value = Stamp(q)
  <2>1. Latest(q, StampField(q.source)) # {}
    BY <1>2 DEF Complete, Has
  <2>2. (CHOOSE k \in Latest(q, StampField(q.source)) : TRUE) \in Latest(q, StampField(q.source))
    BY <2>1
  <2>. QED BY <2>2 DEF Latest, Stamp, Field
<1>4. PICK l \in DOMAIN q.fields :
          q.fields[l].name = SignatureField(q.source) /\ q.fields[l].value = Signature(q)
  <2>1. Latest(q, SignatureField(q.source)) # {}
    BY <1>2 DEF Complete, Has
  <2>2. (CHOOSE l \in Latest(q, SignatureField(q.source)) : TRUE)
            \in Latest(q, SignatureField(q.source))
    BY <2>1
  <2>. QED BY <2>2 DEF Latest, Signature, Field
<1>5. Unit(q.source) * TimeOf[Stamp(q)]
          \in (q.at - 1000 * Tolerance)..(q.at + 1000 * Tolerance)
  <2> DEFINE x == Unit(q.source) * TimeOf[Stamp(q)]
  <2>1. TimeOf[Stamp(q)] \in Int
    BY <1>2, VerificationAssumption DEF Legible
  <2>2. x \in Int
    <3>1. CASE q.source = "stripe"
      BY <2>1, <3>1 DEF Unit
    <3>2. CASE q.source # "stripe"
      BY <2>1, <3>2 DEF Unit
    <3>. QED BY <3>1, <3>2
  <2>3. 1000 * Tolerance \in Int
    BY VerificationAssumption
  <2>4. Abs(q.at - x) <= 1000 * Tolerance
    BY <1>2 DEF InTime, Age
  <2>. HIDE DEF x
  <2>5. x \in (q.at - 1000 * Tolerance)..(q.at + 1000 * Tolerance)
    BY <2>2, <2>3, <2>4 DEF Abs
  <2>. QED BY <2>5 DEF x
<1>6. q.source \in Schemes \cap DOMAIN Secrets
  BY <1>1, <1>2 DEF Known, Complete
<1>7. Signature(q) = Hmac(Secrets[q.source], SignedContent(q, Stamp(q))) /\ Stamp(q) \in DOMAIN TimeOf
  BY <1>2 DEF Matches, Legible
<1>. QED BY <1>3, <1>4, <1>5, <1>6, <1>7 DEF Authentic

Requests == UNION {Incoming[a] : a \in Attempts}

\* A request is answered with the status of a refusal: 401, or what its source or its form
\* gets in place of it.
Refused(a) ==
    \/ code[a] = 401
    \/ code[a] = 404 /\ ~ Known(request[a])
    \/ code[a] = 500 /\ Unreadable(request[a])

\* The status of a request that is not verified.
LEMMA RefusedLemma ==
    ASSUME NEW q, Outcome(q) # "verified"
    PROVE  \/ Refusal[Outcome(q)] = 401
           \/ Refusal[Outcome(q)] = 404 /\ ~ Known(q)
           \/ Refusal[Outcome(q)] = 500 /\ Unreadable(q)
<1>1. CASE ~ Known(q)
  BY <1>1 DEF Outcome, Refusal, Verdicts
<1>2. CASE Known(q) /\ Unverified(q)
  BY <1>2 DEF Outcome, Refusal, Verdicts
<1>3. CASE Known(q) /\ ~ Unverified(q) /\ Unreadable(q)
  BY <1>3 DEF Outcome, Refusal, Verdicts
<1>. QED BY <1>1, <1>2, <1>3 DEF Outcome

\* An attempt has its request from the moment it is received; the request of one that is
\* dispatched, or of which a run was called, is authentic, and any other is refused.
RequestInv ==
    /\ DOMAIN code = Attempts
    /\ request \in [Attempts -> Requests \cup {None}]
    /\ handling \in [Attempts -> {"away", "dispatching", "answered"}]
    /\ \A a \in Attempts :
          /\ handling[a] = "away" => request[a] = None
          /\ handling[a] = "dispatching" => request[a] # None /\ Authentic(request[a])
          /\ request[a] # None /\ ~ Authentic(request[a]) => Refused(a)
          /\ \A n \in DOMAIN RunsOf[a] :
                pc[RunsOf[a][n]] # "idle" => request[a] # None /\ Authentic(request[a])

LEMMA ReceiveStep ==
    ASSUME RequestInv, NEW a \in Attempts, Receive(a)
    PROVE  RequestInv'
<1>1. PICK q \in Incoming[a] :
          /\ request' = [request EXCEPT ![a] = q]
          /\ \/ Outcome(q) = "verified" /\ handling' = [handling EXCEPT ![a] = "dispatching"]
             \/ handling' = [handling EXCEPT ![a] = "answered"]
          /\ Outcome(q) # "verified" => code' = [code EXCEPT ![a] = Refusal[Outcome(q)]]
          /\ code' = code \/ \E c : code' = [code EXCEPT ![a] = c]
  BY DEF Receive, Reply
<1>2. q # None /\ q.at \in Int /\ q \in Requests
  BY IncomingAssumption DEF Requests
<1>3. handling[a] = "away" /\ request[a] = None /\ pc' = pc
  BY DEF Receive, Sends, RequestInv, vars, flow
<1>4. \A n \in DOMAIN RunsOf[a] : pc[RunsOf[a][n]] = "idle"
  BY <1>3 DEF RequestInv
<1>5. Outcome(q) = "verified" => Authentic(q)
  BY <1>2, VerifiedIsAuthentic
<1>6. /\ request' \in [Attempts -> Requests \cup {None}]
      /\ handling' \in [Attempts -> {"away", "dispatching", "answered"}]
      /\ request'[a] = q
      /\ \A b \in Attempts : b # a => request'[b] = request[b] /\ handling'[b] = handling[b]
      /\ handling'[a] = "answered" \/ (Outcome(q) = "verified" /\ handling'[a] = "dispatching")
  BY <1>1, <1>2 DEF RequestInv
<1>7. /\ DOMAIN code' = Attempts
      /\ \A b \in Attempts : b # a => code'[b] = code[b]
      /\ Outcome(q) # "verified" => code'[a] = Refusal[Outcome(q)]
  BY <1>1 DEF RequestInv
<1>8. ~ Authentic(q) => Refused(a)'
  BY <1>5, <1>6, <1>7, RefusedLemma DEF Refused
<1>9. \A b \in Attempts : b # a /\ Refused(b) => Refused(b)'
  BY <1>6, <1>7 DEF Refused
<1>. QED BY <1>2, <1>3, <1>4, <1>5, <1>6, <1>7, <1>8, <1>9 DEF RequestInv

\* The engine calls no run of a webhook by itself.
LEMMA EngineLeavesIdle ==
    ASSUME TypeInv, EngineStep, NEW a \in Attempts, NEW n \in DOMAIN RunsOf[a],
           pc[RunsOf[a][n]] = "idle"
    PROVE  pc'[RunsOf[a][n]] = "idle"
<1> DEFINE r == RunsOf[a][n]
<1>1. r \in Runs /\ r \in Dispatched /\ r \in Tasks /\ r \notin Approvals
  BY AttemptsAssumption, TasksAssumption DEF Dispatched, Tasks
<1>2. pc \in [Tasks -> PcValues] /\ pc[r] = "idle"
  BY DEF TypeInv, TypeOK
<1>. HIDE DEF r
<1>3. ASSUME NEW t \in Tasks, t # r, NEW j, NEW s, Settle(t, j, s) \/ Send(t, j)
      PROVE  pc'[r] = "idle"
  BY <1>1, <1>2, <1>3 DEF Settle, Send
<1>4. ASSUME NEW q \in Runs \ Dispatched, StartRun(q)
      PROVE  pc'[r] = "idle"
  BY <1>1, <1>2, <1>4 DEF StartRun
<1>5. ASSUME NEW q \in Runs, RunStep(q)
      PROVE  pc'[r] = "idle"
  <2>1. CASE \/ AgentFails(q) \/ AgentReturns(q) \/ AutoApproveRaises(q)
             \/ FinishRun(q) \/ FinishRaises(q)
    BY <1>1, <1>2, <2>1 DEF AgentFails, AgentReturns, AutoApproveRaises, FinishRun,
       FinishRaises, CloseRun, AtIntent, LoopOver, Tasks
  <2>2. CASE RejectByPolicy(q) \/ KeepProposed(q) \/ QueueForApproval(q) \/ AutoApply(q)
    <3>1. q # r /\ q \in Tasks
      BY <1>2, <2>2 DEF RejectByPolicy, KeepProposed, QueueForApproval, AutoApply, AtIntent, Tasks
    <3>. QED
      BY <1>3, <2>2, <3>1 DEF RejectByPolicy, KeepProposed, QueueForApproval, AutoApply, ApplyIntent
  <2>. QED BY <1>5, <2>1, <2>2 DEF RunStep
<1>6. ASSUME NEW c \in Approvals, NEW i \in Intents, Approve(c, i)
      PROVE  pc'[r] = "idle"
  BY <1>1, <1>3, <1>6 DEF Approve, ApplyIntent, Tasks
<1>7. ASSUME NEW t \in Tasks, Answer(t)
      PROVE  pc'[r] = "idle"
  BY <1>2, <1>3, <1>7 DEF Answer, ApplySucceeds, ApplyRaises
<1>8. ASSUME NEW t \in Tasks, Cancel(t)
      PROVE  pc'[r] = "idle"
  BY <1>2, <1>8 DEF Cancel
<1>9. ASSUME NEW t \in Tasks, NEW i \in Intents, RejectIntent(i) \/ Land(t, i)
      PROVE  pc'[r] = "idle"
  BY <1>2, <1>9 DEF RejectIntent, Land, flow
<1>10. pc'[r] = "idle"
  BY <1>1, <1>4, <1>5, <1>6, <1>7, <1>8, <1>9 DEF EngineStep
<1>. QED BY <1>10 DEF r

LEMMA DispatchStep ==
    ASSUME TypeInv, RequestInv, NEW a \in Attempts, Dispatch(a)
    PROVE  RequestInv'
<1>1. handling[a] = "dispatching" /\ request' = request
  BY DEF Dispatch, StartEvent, EventRefused, RunReturned, RunRaised, Acknowledge, AtEvent,
     Dispatching, service
<1>2. /\ handling' \in [Attempts -> {"away", "dispatching", "answered"}]
      /\ \A b \in Attempts : handling'[b] = handling[b] \/ (b = a /\ handling'[b] = "answered")
  BY DEF Dispatch, StartEvent, EventRefused, RunReturned, RunRaised, Acknowledge, Reply,
     service, RequestInv
<1>0. /\ DOMAIN code' = Attempts
      /\ \A b \in Attempts : b # a => code'[b] = code[b]
  BY DEF Dispatch, StartEvent, EventRefused, RunReturned, RunRaised, Acknowledge, Reply,
     service, RequestInv
<1>5. \A b \in Attempts : request'[b] # None /\ ~ Authentic(request'[b]) => Refused(b)'
  BY <1>0, <1>1 DEF RequestInv, Refused
<1>3. CASE StartEvent(a)
  <2>1. cursor[a] \in DOMAIN RunsOf[a] /\ StartRun(RunAt(a))
    BY <1>3 DEF StartEvent, AtEvent
  <2>2. ASSUME NEW b \in Attempts, NEW n \in DOMAIN RunsOf[b], b # a
        PROVE  pc'[RunsOf[b][n]] = pc[RunsOf[b][n]]
    <3>1. RunsOf[b][n] # RunAt(a) /\ RunsOf[b][n] \in Tasks
      BY <2>1, <2>2, AttemptsAssumption DEF RunAt, Tasks
    <3>. QED BY <2>1, <3>1 DEF StartRun, TypeInv, TypeOK
  <2>. QED BY <1>0, <1>1, <1>2, <1>5, <2>2 DEF RequestInv
<1>4. CASE ~ StartEvent(a)
  <2>1. pc' = pc
    BY <1>4 DEF Dispatch, EventRefused, RunReturned, RunRaised, Acknowledge, vars, flow
  <2>. QED BY <1>0, <1>1, <1>2, <1>5, <2>1 DEF RequestInv
<1>. QED BY <1>3, <1>4

LEMMA RequestStep ==
    ASSUME TypeInv, RequestInv, [ServiceNext]_serviceVars
    PROVE  RequestInv'
<1>1. ASSUME NEW a \in Attempts, Receive(a) \/ Dispatch(a) PROVE RequestInv'
  BY <1>1, ReceiveStep, DispatchStep
<1>2. CASE EngineStep /\ UNCHANGED service
  <2>1. \A a \in Attempts : \A n \in DOMAIN RunsOf[a] :
            pc[RunsOf[a][n]] = "idle" => pc'[RunsOf[a][n]] = "idle"
    BY <1>2, EngineLeavesIdle
  <2>. QED BY <1>2, <2>1 DEF RequestInv, Refused, service
<1>3. CASE UNCHANGED serviceVars
  BY <1>3 DEF RequestInv, Refused, serviceVars, service, vars, flow
<1>. QED BY <1>1, <1>2, <1>3 DEF ServiceNext

\* Whatever is delivered, and whatever the engine does besides: a run of a webhook is
\* ledgered, and its intents are sent, only for a request that its source has signed; and any
\* other request is refused.
THEOREM WebhooksAreAuthentic == ServiceSpec => []AuthenticOnly
<1>1. ServiceInit => RequestInv
  <2> SUFFICES ASSUME ServiceInit PROVE RequestInv
    OBVIOUS
  <2>1. \A a \in Attempts : \A n \in DOMAIN RunsOf[a] : pc[RunsOf[a][n]] = "idle"
    BY AttemptsAssumption DEF ServiceInit, Init, Tasks
  <2>2. request \in [Attempts -> Requests \cup {None}]
    BY DEF ServiceInit
  <2>. QED BY <2>1, <2>2 DEF ServiceInit, RequestInv
<1>2. TypeInv /\ RequestInv /\ [ServiceNext]_serviceVars => RequestInv'
  BY RequestStep
<1>3. RequestInv /\ NothingUncalled => AuthenticOnly
  BY AttemptsAssumption DEF RequestInv, Refused, NothingUncalled, AuthenticOnly
<1>4. ServiceSpec => []TypeInv /\ []NothingUncalled
  BY ServiceImplementsPipeline, TypeInvariant, UncalledInvariant, PTL
<1>. QED BY <1>1, <1>2, <1>3, <1>4, PTL DEF ServiceSpec
-----------------------------------------------------------------------------
(* What is acknowledged is done, and done in order.                        *)

\* What has ended stays as it is.
LEMMA DoneStays ==
    ASSUME TypeInv, [Next]_vars, NEW r \in Runs, pc[r] = "done"
    PROVE  pc'[r] = "done" /\ runStatus'[r] = runStatus[r]
<1> DEFINE Goal == pc'[r] = "done" /\ runStatus'[r] = runStatus[r]
<1>1. /\ pc \in [Tasks -> PcValues] /\ r \in Tasks /\ r \notin Approvals
      /\ runStatus \in [Runs -> {"none", "running", "succeeded", "failed"}]
  BY TasksAssumption DEF TypeInv, TypeOK, Tasks
<1>2. ASSUME NEW t \in Tasks, t # r, NEW j, NEW s, Settle(t, j, s) \/ Send(t, j)
      PROVE  pc'[r] = "done"
  BY <1>1, <1>2 DEF Settle, Send
<1>3. ASSUME NEW q \in Runs, StartRun(q) PROVE Goal
  BY <1>1, <1>3 DEF StartRun
<1>4. ASSUME NEW q \in Runs, RunStep(q) PROVE Goal
  <2>1. q # r /\ q \in Tasks
    BY <1>4 DEF RunStep, AgentFails, AgentReturns, RejectByPolicy, KeepProposed,
       QueueForApproval, AutoApproveRaises, AutoApply, FinishRun, FinishRaises, AtIntent,
       LoopOver, Tasks
  <2>2. CASE AgentFails(q) \/ AutoApproveRaises(q) \/ FinishRun(q) \/ FinishRaises(q)
    BY <1>1, <2>1, <2>2 DEF AgentFails, AutoApproveRaises, FinishRun, FinishRaises, CloseRun
  <2>3. CASE AgentReturns(q)
    BY <1>1, <2>1, <2>3 DEF AgentReturns, ledger
  <2>4. CASE RejectByPolicy(q) \/ KeepProposed(q) \/ QueueForApproval(q) \/ AutoApply(q)
    <3>1. runStatus' = runStatus
      BY <2>4 DEF RejectByPolicy, KeepProposed, QueueForApproval, AutoApply, ApplyIntent,
         Send, ledger
    <3>2. pc'[r] = "done"
      BY <1>2, <2>1, <2>4 DEF RejectByPolicy, KeepProposed, QueueForApproval, AutoApply,
         ApplyIntent
    <3>. QED BY <3>1, <3>2
  <2>. QED BY <1>4, <2>2, <2>3, <2>4 DEF RunStep
<1>5. ASSUME NEW c \in Approvals, NEW i \in Intents, Approve(c, i) PROVE Goal
  <2>1. c # r /\ c \in Tasks
    BY <1>1 DEF Tasks
  <2>2. runStatus' = runStatus
    BY <1>5 DEF Approve, ApplyIntent, Send, ledger
  <2>. QED BY <1>2, <1>5, <2>1, <2>2 DEF Approve, ApplyIntent
<1>6. ASSUME NEW t \in Tasks, Answer(t) PROVE Goal
  <2>1. t # r /\ runStatus' = runStatus
    BY <1>6 DEF Answer, ApplySucceeds, ApplyRaises
  <2>. QED BY <1>2, <1>6, <2>1 DEF Answer, ApplySucceeds, ApplyRaises
<1>7. ASSUME NEW t \in Tasks, Cancel(t) PROVE Goal
  BY <1>1, <1>7 DEF Cancel, ledger
<1>8. ASSUME NEW t \in Tasks, NEW i \in Intents, RejectIntent(i) \/ Land(t, i) PROVE Goal
  BY <1>8 DEF RejectIntent, Land, flow, ledger
<1>9. CASE UNCHANGED vars
  BY <1>9 DEF vars, flow, ledger
<1>. QED BY <1>1, <1>3, <1>4, <1>5, <1>6, <1>7, <1>8, <1>9 DEF Next

\* A run that ended well has ended, and its intents are in the ledger.
SuccessInv ==
    \A r \in Runs : runStatus[r] = "succeeded" => pc[r] = "done" /\ ProposedBy(r) \subseteq ledgered

LEMMA SuccessStep ==
    ASSUME TypeInv, OrderInv, SuccessInv, [Next]_vars
    PROVE  SuccessInv'
<1> SUFFICES ASSUME NEW r \in Runs, runStatus'[r] = "succeeded"
             PROVE  pc'[r] = "done" /\ ProposedBy(r) \subseteq ledgered'
  BY DEF SuccessInv, ProposedBy
<1>1. ledgered \subseteq ledgered'
  BY MoveLemma DEF Moves
<1>2. CASE runStatus[r] = "succeeded"
  BY <1>1, <1>2, DoneStays DEF SuccessInv
<1>3. CASE runStatus[r] # "succeeded"
  <2>1. FinishRun(r)
    BY <1>3, SuccessLemma
  <2>2. pc'[r] = "done"
    BY <2>1 DEF FinishRun, CloseRun, TypeInv, TypeOK, Tasks
  <2>3. ASSUME NEW n \in DOMAIN Proposals[r] PROVE Proposals[r][n] \in ledgered
    <3>1. Proposals[r] \in Seq(Intents)
      BY ProposalsAssumption
    <3>2. position[r] \in 1..(Len(Proposals[r]) + 1) /\ position[r] \notin 1..Len(Proposals[r])
      BY <2>1, <3>1 DEF FinishRun, LoopOver, TypeInv, TypeOK
    <3>3. n < position[r]
      BY <3>1, <3>2
    <3>. QED BY <3>3 DEF OrderInv
  <2>. QED BY <1>1, <2>2, <2>3 DEF ProposedBy
<1>. QED BY <1>2, <1>3

\* Seek finds the first place from n on, if there is one.
LEMMA SeekLemma ==
    ASSUME NEW a \in Attempts, NEW n \in Nat
    PROVE  \/ /\ Seek(a, n) \in DOMAIN RunsOf[a] /\ Seek(a, n) >= n
              /\ \A k \in DOMAIN RunsOf[a] : k >= n => Seek(a, n) <= k
           \/ /\ Seek(a, n) = 0
              /\ \A k \in DOMAIN RunsOf[a] : k < n
<1> DEFINE T == {m \in DOMAIN RunsOf[a] : m >= n}
           R == OpToRel(<, Nat)
           First(m) == /\ m \in DOMAIN RunsOf[a] /\ m >= n
                       /\ \A k \in DOMAIN RunsOf[a] : k >= n => m <= k
<1>1. \A m \in DOMAIN RunsOf[a] : m \in Nat
  BY AttemptsAssumption
<1>2. CASE T # {}
  <2>1. \E m \in T : \A k \in T : <<k, m>> \notin R
    <3>1. IsWellFoundedOn(R, Nat)
      BY NatLessThanWellFounded
    <3>2. T \subseteq Nat
      BY <1>1
    <3>. HIDE DEF T, R
    <3>. QED BY <1>2, <3>1, <3>2, WFMin
  <2>2. PICK m \in T : \A k \in T : <<k, m>> \notin R
    BY <2>1
  <2>3. ASSUME NEW k \in DOMAIN RunsOf[a], k >= n PROVE m <= k
    <3>1. k \in T /\ k \in Nat /\ m \in Nat
      BY <1>1, <2>3
    <3>2. ~ (k < m)
      BY <2>2, <3>1 DEF OpToRel
    <3>. QED BY <3>1, <3>2
  <2>4. First(m)
    BY <2>3
  <2>5. Seek(a, n) = CHOOSE x \in DOMAIN RunsOf[a] :
                        x >= n /\ \A k \in DOMAIN RunsOf[a] : k >= n => x <= k
    BY <2>4 DEF Seek
  <2>. QED BY <2>4, <2>5
<1>3. CASE T = {}
  <2>1. \A k \in DOMAIN RunsOf[a] : k < n
    BY <1>1, <1>3
  <2>. QED BY <1>3, <2>1 DEF Seek
<1>. QED BY <1>2, <1>3
-----------------------------------------------------------------------------
(* Type correctness.                                                       *)

\* An attempt is refused with the status of one of the ways to be refused.
LEMMA RefusalLemma ==
    ASSUME NEW q
    PROVE  /\ Outcome(q) # "verified" => Refusal[Outcome(q)] \in {401, 404, 500}
           /\ Refusal["unreadable"] \in {401, 404, 500}
BY DEF Refusal, Outcome, Verdicts

ServiceTypeInv ==
    /\ ServiceTypeOK
    /\ DOMAIN request = Attempts /\ DOMAIN cursor = Attempts

LEMMA ReceiveKeepsType ==
    ASSUME ServiceTypeInv, NEW a \in Attempts, Receive(a)
    PROVE  ServiceTypeInv'
<1>0. PICK q \in Incoming[a] :
          /\ request' = [request EXCEPT ![a] = q]
          /\ \/ /\ handling' = [handling EXCEPT ![a] = "dispatching"]
                /\ cursor' = [cursor EXCEPT ![a] = Seek(a, 1)] /\ code' = code
             \/ Reply(a, Refusal["unreadable"]) /\ cursor' = cursor
             \/ /\ Outcome(q) # "verified" /\ Reply(a, Refusal[Outcome(q)])
                /\ cursor' = cursor
  BY DEF Receive
<1>1. \/ /\ handling' = [handling EXCEPT ![a] = "dispatching"]
         /\ cursor' = [cursor EXCEPT ![a] = Seek(a, 1)] /\ code' = code
      \/ \E c \in {401, 404, 500} : Reply(a, c) /\ cursor' = cursor
  BY <1>0, RefusalLemma
<1>2. q # None /\ Seek(a, 1) \in DOMAIN RunsOf[a] \cup {0}
  BY IncomingAssumption, SeekLemma
<1>3. code[a] = None
  BY DEF Receive, Sends, ServiceTypeInv, ServiceTypeOK
<1>4. /\ handling' \in [Attempts -> {"away", "dispatching", "answered"}]
      /\ code' \in [Attempts -> {200, 202, 401, 404, 500, None}]
      /\ DOMAIN request' = Attempts /\ DOMAIN cursor' = Attempts
  BY <1>0, <1>1 DEF ServiceTypeInv, ServiceTypeOK, Reply
<1>5. ASSUME NEW b \in Attempts, b # a
      PROVE  /\ handling'[b] = handling[b] /\ request'[b] = request[b]
             /\ cursor'[b] = cursor[b] /\ code'[b] = code[b]
  BY <1>0, <1>1, <1>5 DEF ServiceTypeInv, ServiceTypeOK, Reply
<1>6. /\ request'[a] = q /\ cursor'[a] \in DOMAIN RunsOf[a] \cup {0}
      /\ handling'[a] # "away"
      /\ code'[a] = None <=> handling'[a] # "answered"
  BY <1>0, <1>1, <1>2, <1>3, CodeAssumption DEF ServiceTypeInv, ServiceTypeOK, Reply
<1>. QED BY <1>2, <1>4, <1>5, <1>6 DEF ServiceTypeInv, ServiceTypeOK

LEMMA DispatchKeepsType ==
    ASSUME ServiceTypeInv, NEW a \in Attempts, Dispatch(a)
    PROVE  ServiceTypeInv'
<1>1. handling[a] = "dispatching" /\ code[a] = None /\ request' = request
  BY DEF Dispatch, StartEvent, EventRefused, RunReturned, RunRaised, Acknowledge, AtEvent,
     Dispatching, service, ServiceTypeInv, ServiceTypeOK
<1>2. CASE UNCHANGED service
  BY <1>2 DEF ServiceTypeInv, ServiceTypeOK, service
<1>3. ASSUME RunReturned(a) PROVE ServiceTypeInv'
  <2>1. /\ cursor' = [cursor EXCEPT ![a] = Seek(a, cursor[a] + 1)]
        /\ cursor[a] \in DOMAIN RunsOf[a] /\ UNCHANGED <<handling, request, code>>
    BY <1>3 DEF RunReturned, AtEvent, ServiceTypeInv
  <2>2. cursor[a] + 1 \in Nat
    BY <2>1, AttemptsAssumption
  <2>3. Seek(a, cursor[a] + 1) \in DOMAIN RunsOf[a] \cup {0}
    BY <2>2, SeekLemma
  <2>. QED BY <2>1, <2>3 DEF ServiceTypeInv, ServiceTypeOK
<1>4. ASSUME NEW c \in {200, 202, 500}, Reply(a, c), cursor' = cursor PROVE ServiceTypeInv'
  BY <1>1, <1>4, CodeAssumption DEF Reply, ServiceTypeInv, ServiceTypeOK
<1>5. \/ UNCHANGED service \/ RunReturned(a)
      \/ \E c \in {200, 202, 500} : Reply(a, c) /\ cursor' = cursor
  BY DEF Dispatch, StartEvent, EventRefused, RunRaised, Acknowledge
<1>. QED BY <1>2, <1>3, <1>4, <1>5

\* The state of the endpoint keeps its shape.
THEOREM ServiceTypeCorrect == ServiceSpec => []ServiceTypeOK
<1>1. ServiceInit => ServiceTypeInv
  BY CodeAssumption DEF ServiceInit, ServiceTypeInv, ServiceTypeOK
<1>2. ServiceTypeInv /\ [ServiceNext]_serviceVars => ServiceTypeInv'
  <2>1. ASSUME ServiceTypeInv, UNCHANGED service PROVE ServiceTypeInv'
    BY <2>1 DEF ServiceTypeInv, ServiceTypeOK, service
  <2>. QED BY <2>1, ReceiveKeepsType, DispatchKeepsType DEF ServiceNext, serviceVars
<1>3. ServiceTypeInv => ServiceTypeOK
  BY DEF ServiceTypeInv
<1>. QED BY <1>1, <1>2, <1>3, PTL DEF ServiceSpec
-----------------------------------------------------------------------------
(* What a handler has done, and is at.                                     *)

Ran(a, n) == runStatus[RunsOf[a][n]] = "succeeded"

\* The runs of a up to place k have ended well, those after it were not called.
Frontier(a, k) ==
    \A n \in DOMAIN RunsOf[a] :
        /\ n < k => Ran(a, n)
        /\ n > k => pc[RunsOf[a][n]] = "idle"

AllRan(a) == \A n \in DOMAIN RunsOf[a] : Ran(a, n)

\* The handler is at the frontier of its runs, or past all of them; once it has answered
\* the frontier stays where it was.
DispatchInv(a) ==
    /\ handling[a] = "away" => \A n \in DOMAIN RunsOf[a] : pc[RunsOf[a][n]] = "idle"
    /\ handling[a] = "dispatching" =>
          \/ cursor[a] \in DOMAIN RunsOf[a] /\ Frontier(a, cursor[a])
          \/ cursor[a] = 0 /\ AllRan(a)
    /\ handling[a] = "answered" => AllRan(a) \/ \E k \in Nat : Frontier(a, k)
    /\ code[a] \in {200, 202} => AllRan(a)

HandlersInv ==
    /\ handling \in [Attempts -> {"away", "dispatching", "answered"}]
    /\ DOMAIN cursor = Attempts /\ DOMAIN code = Attempts
    /\ \A a \in Attempts : cursor[a] \in Int /\ DispatchInv(a)

\* The invariant of an attempt survives what leaves its handler alone, starts none of its
\* runs and takes no success back.
LEMMA OthersKeep ==
    ASSUME HandlersInv, NEW a \in Attempts,
           handling'[a] = handling[a], cursor'[a] = cursor[a], code'[a] = code[a],
           \A n \in DOMAIN RunsOf[a] :
               /\ pc[RunsOf[a][n]] = "idle" => pc'[RunsOf[a][n]] = "idle"
               /\ Ran(a, n) => Ran(a, n)'
    PROVE  DispatchInv(a)'
<1>1. \A k \in Int : Frontier(a, k) => Frontier(a, k)'
  BY DEF Frontier
<1>2. AllRan(a) => AllRan(a)'
  BY DEF AllRan
<1>3. DispatchInv(a) /\ cursor[a] \in Int
  BY DEF HandlersInv
<1>4. (handling[a] = "answered" => AllRan(a) \/ \E k \in Nat : Frontier(a, k))
        => (handling'[a] = "answered" => AllRan(a)' \/ \E k \in Nat : Frontier(a, k)')
  BY <1>1, <1>2
<1>5. handling'[a] = "dispatching" =>
          \/ cursor'[a] \in DOMAIN RunsOf[a] /\ Frontier(a, cursor[a])'
          \/ cursor'[a] = 0 /\ AllRan(a)'
  <2>1. CASE cursor[a] \in DOMAIN RunsOf[a] /\ Frontier(a, cursor[a])
    <3>1. \A n \in DOMAIN RunsOf[a] : /\ n < cursor[a] => Ran(a, n)'
                                      /\ n > cursor[a] => pc'[RunsOf[a][n]] = "idle"
      BY <2>1 DEF Frontier
    <3>. QED BY <2>1, <3>1 DEF Frontier
  <2>. QED BY <1>2, <1>3, <2>1 DEF DispatchInv
<1>. QED BY <1>2, <1>3, <1>4, <1>5 DEF DispatchInv, Frontier
\* What is left to show of a handler that dispatches, or has answered.
LEMMA DispatchingLemma ==
    ASSUME NEW a \in Attempts, handling'[a] = "dispatching",
           \/ cursor'[a] \in DOMAIN RunsOf[a] /\ Frontier(a, cursor[a])'
           \/ cursor'[a] = 0 /\ AllRan(a)',
           code'[a] \in {200, 202} => AllRan(a)'
    PROVE  DispatchInv(a)'
<1>1. handling'[a] # "away" /\ handling'[a] # "answered"
  OBVIOUS
<1>. QED BY <1>1 DEF DispatchInv

LEMMA AnsweredLemma ==
    ASSUME NEW a \in Attempts, handling'[a] = "answered",
           AllRan(a)' \/ \E k \in Nat : Frontier(a, k)',
           code'[a] \in {200, 202} => AllRan(a)'
    PROVE  DispatchInv(a)'
<1>1. handling'[a] # "away" /\ handling'[a] # "dispatching"
  OBVIOUS
<1>. QED BY <1>1 DEF DispatchInv

\* Other attempts than the one that a handler works for have other runs.
LEMMA OtherRuns ==
    ASSUME TypeInv, SuccessInv, SuccessInv', NEW a \in Attempts, NEW b \in Attempts \ {a},
           NEW m \in DOMAIN RunsOf[a], StartRun(RunsOf[a][m]), [Next]_vars
    PROVE  \A n \in DOMAIN RunsOf[b] :
               /\ pc[RunsOf[b][n]] = "idle" => pc'[RunsOf[b][n]] = "idle"
               /\ Ran(b, n) => Ran(b, n)'
<1> SUFFICES ASSUME NEW n \in DOMAIN RunsOf[b]
             PROVE  /\ pc[RunsOf[b][n]] = "idle" => pc'[RunsOf[b][n]] = "idle"
                    /\ Ran(b, n) => Ran(b, n)'
  OBVIOUS
<1>1. /\ RunsOf[b][n] # RunsOf[a][m]
      /\ RunsOf[b][n] \in Runs /\ RunsOf[a][m] \in Runs /\ RunsOf[b][n] \in Tasks
  BY AttemptsAssumption DEF Tasks
<1>. QED BY <1>1 DEF StartRun, Ran, TypeInv, TypeOK

LEMMA ReceiveKeepsOrder ==
    ASSUME HandlersInv, NEW a \in Attempts, Receive(a)
    PROVE  HandlersInv'
<1>1. /\ handling[a] = "away" /\ UNCHANGED vars
      /\ \A b \in Attempts \ {a} :
            handling'[b] = handling[b] /\ cursor'[b] = cursor[b] /\ code'[b] = code[b]
  BY DEF Receive, Sends, Reply, HandlersInv
<1>2. /\ handling' \in [Attempts -> {"away", "dispatching", "answered"}]
      /\ DOMAIN cursor' = Attempts /\ DOMAIN code' = Attempts
  BY DEF Receive, Reply, HandlersInv
<1>3. /\ \A b \in Attempts : \A n \in DOMAIN RunsOf[b] : Ran(b, n)' = Ran(b, n)
      /\ pc' = pc
  BY <1>1 DEF vars, flow, ledger, Ran
<1>4. \A b \in Attempts \ {a} : DispatchInv(b)'
  BY <1>1, <1>3, OthersKeep
<1>5. \A n \in DOMAIN RunsOf[a] : pc[RunsOf[a][n]] = "idle" /\ n \in Nat \ {0}
  BY <1>1, AttemptsAssumption DEF HandlersInv, DispatchInv
<1>6. Frontier(a, 0)'
  BY <1>3, <1>5 DEF Frontier
<1>7. \/ /\ handling'[a] = "dispatching" /\ cursor'[a] = Seek(a, 1) /\ code'[a] = code[a]
      \/ /\ handling'[a] = "answered" /\ cursor'[a] = cursor[a]
         /\ code'[a] \in {401, 404, 500}
  BY DEF Receive, Reply, Refusal, HandlersInv, Outcome, Verdicts
<1>8. ASSUME handling'[a] = "dispatching", cursor'[a] = Seek(a, 1), code'[a] = code[a]
      PROVE  DispatchInv(a)'
  <2>1. CASE /\ Seek(a, 1) \in DOMAIN RunsOf[a]
             /\ \A k \in DOMAIN RunsOf[a] : k >= 1 => Seek(a, 1) <= k
    <3>1. \A n \in DOMAIN RunsOf[a] : ~ (n < Seek(a, 1))
      BY <1>5, <2>1
    <3>2. Frontier(a, cursor[a])'
      BY <1>3, <1>5, <1>8, <3>1 DEF Frontier
    <3>3. code'[a] \in {200, 202} => AllRan(a)'
      BY <1>3, <1>8 DEF HandlersInv, DispatchInv, AllRan
    <3>. QED BY <1>8, <2>1, <3>2, <3>3, DispatchingLemma
  <2>2. CASE Seek(a, 1) = 0 /\ \A k \in DOMAIN RunsOf[a] : k < 1
    <3>1. DOMAIN RunsOf[a] = {}
      BY <1>5, <2>2
    <3>2. AllRan(a)'
      BY <3>1 DEF AllRan
    <3>. QED BY <1>8, <2>2, <3>2, DispatchingLemma
  <2>. QED BY <2>1, <2>2, SeekLemma
<1>9. ASSUME handling'[a] = "answered", code'[a] \in {401, 404, 500}
      PROVE  DispatchInv(a)'
  <2>1. \E k \in Nat : Frontier(a, k)'
    BY <1>6
  <2>. QED BY <1>9, <2>1, AnsweredLemma
<1>10. \A b \in Attempts : cursor'[b] \in Int
  <2>1. Seek(a, 1) \in Int
    BY <1>5, SeekLemma
  <2>. QED BY <1>1, <1>2, <1>7, <2>1 DEF HandlersInv, Receive, Reply
<1>. QED BY <1>2, <1>4, <1>7, <1>8, <1>9, <1>10 DEF HandlersInv

LEMMA DispatchKeepsOrder ==
    ASSUME TypeInv, SuccessInv, SuccessInv', HandlersInv, NEW a \in Attempts, Dispatch(a),
           [Next]_vars
    PROVE  HandlersInv'
<1>1. /\ handling[a] = "dispatching" /\ DispatchInv(a)
      /\ \A b \in Attempts \ {a} :
            handling'[b] = handling[b] /\ cursor'[b] = cursor[b] /\ code'[b] = code[b]
  BY DEF Dispatch, StartEvent, EventRefused, RunReturned, RunRaised, Acknowledge, AtEvent,
     Dispatching, Reply, service, HandlersInv
<1>2. /\ handling' \in [Attempts -> {"away", "dispatching", "answered"}]
      /\ DOMAIN cursor' = Attempts /\ DOMAIN code' = Attempts
  BY DEF Dispatch, StartEvent, EventRefused, RunReturned, RunRaised, Acknowledge, Reply,
     service, HandlersInv
<1>3. \A n \in DOMAIN RunsOf[a] : n \in Nat \ {0} /\ RunsOf[a][n] \in Runs
  BY AttemptsAssumption
<1>4. code[a] \in {200, 202} => AllRan(a)
  BY <1>1 DEF DispatchInv
<1>5. \/ cursor[a] \in DOMAIN RunsOf[a] /\ Frontier(a, cursor[a])
      \/ cursor[a] = 0 /\ AllRan(a)
  BY <1>1 DEF DispatchInv
<1>6. ASSUME StartEvent(a) PROVE HandlersInv'
  <2>1. /\ cursor[a] \in DOMAIN RunsOf[a] /\ Frontier(a, cursor[a])
        /\ StartRun(RunsOf[a][cursor[a]])
        /\ UNCHANGED service
    BY <1>3, <1>5, <1>6 DEF StartEvent, AtEvent, RunAt
  <2>2. ASSUME NEW n \in DOMAIN RunsOf[a], n # cursor[a]
        PROVE  /\ pc[RunsOf[a][n]] = "idle" => pc'[RunsOf[a][n]] = "idle"
               /\ Ran(a, n) => Ran(a, n)'
    <3>1. RunsOf[a][n] # RunsOf[a][cursor[a]] /\ RunsOf[a][n] \in Tasks
      BY <1>3, <2>1, <2>2, AttemptsAssumption DEF Tasks
    <3>. QED BY <1>3, <2>1, <3>1 DEF StartRun, Ran, TypeInv, TypeOK
  <2>3. \A n \in DOMAIN RunsOf[a] : n \in Nat /\ cursor[a] \in Nat
    BY <1>3, <2>1
  <2>4. Frontier(a, cursor[a])'
    BY <2>1, <2>2, <2>3 DEF Frontier, service
  <2>5. ~ AllRan(a)
    <3>1. pc[RunsOf[a][cursor[a]]] = "idle"
      BY <2>1 DEF StartRun
    <3>. QED BY <1>3, <2>1, <3>1 DEF AllRan, Ran, SuccessInv
  <2>6. DispatchInv(a)'
    BY <1>1, <1>4, <2>1, <2>4, <2>5, DispatchingLemma DEF service
  <2>7. \A b \in Attempts \ {a} : DispatchInv(b)'
    BY <1>1, <2>1, OtherRuns, OthersKeep
  <2>. QED BY <1>2, <2>1, <2>6, <2>7 DEF HandlersInv, service
<1>7. ASSUME UNCHANGED vars, DispatchInv(a)', cursor'[a] \in Int PROVE HandlersInv'
  <2>1. /\ \A b \in Attempts : \A n \in DOMAIN RunsOf[b] : Ran(b, n)' = Ran(b, n)
        /\ pc' = pc
    BY <1>7 DEF vars, flow, ledger, Ran
  <2>2. \A b \in Attempts \ {a} : DispatchInv(b)'
    BY <1>1, <2>1, OthersKeep
  <2>3. \A b \in Attempts : cursor'[b] \in Int
    BY <1>1, <1>7 DEF HandlersInv
  <2>. QED BY <1>2, <1>7, <2>2, <2>3 DEF HandlersInv
<1>8. ASSUME UNCHANGED vars
      PROVE  /\ AllRan(a)' = AllRan(a)
             /\ \A k : Frontier(a, k)' = Frontier(a, k)
  BY <1>8 DEF vars, flow, ledger, Ran, AllRan, Frontier
<1>9. ASSUME EventRefused(a) \/ RunRaised(a) PROVE HandlersInv'
  <2>1. /\ UNCHANGED vars /\ cursor' = cursor
        /\ cursor[a] \in DOMAIN RunsOf[a] /\ cursor[a] \in Nat \ {0}
        /\ handling'[a] = "answered" /\ code'[a] = 500
    BY <1>3, <1>9 DEF EventRefused, RunRaised, AtEvent, Reply, HandlersInv
  <2>2. Frontier(a, cursor[a])
    BY <1>5, <2>1
  <2>3. \E k \in Nat : Frontier(a, k)'
    BY <1>8, <2>1, <2>2
  <2>4. DispatchInv(a)'
    BY <2>1, <2>3, AnsweredLemma
  <2>. QED BY <1>7, <2>1, <2>4
<1>10. ASSUME Acknowledge(a) PROVE HandlersInv'
  <2>1. /\ UNCHANGED vars /\ cursor' = cursor /\ cursor[a] \notin DOMAIN RunsOf[a]
        /\ handling'[a] = "answered"
    BY <1>10 DEF Acknowledge, Reply, HandlersInv
  <2>2. AllRan(a)' /\ cursor[a] = 0
    BY <1>5, <1>8, <2>1
  <2>3. DispatchInv(a)'
    BY <2>1, <2>2, AnsweredLemma
  <2>. QED BY <1>7, <2>1, <2>2, <2>3
<1>11. ASSUME RunReturned(a) PROVE HandlersInv'
  <2> DEFINE c == cursor[a]
  <2>1. /\ UNCHANGED vars /\ handling' = handling /\ code' = code
        /\ c \in DOMAIN RunsOf[a] /\ c \in Nat \ {0} /\ c + 1 \in Nat
        /\ cursor'[a] = Seek(a, c + 1)
        /\ Ran(a, c)
    BY <1>3, <1>11 DEF RunReturned, AtEvent, RunAt, Ran, HandlersInv
  <2>2. Frontier(a, c)
    BY <1>5, <2>1
  <2>3. \A n \in DOMAIN RunsOf[a] : n < c + 1 => Ran(a, n)
    BY <1>3, <2>1, <2>2 DEF Frontier
  <2>4. CASE /\ Seek(a, c + 1) \in DOMAIN RunsOf[a] /\ Seek(a, c + 1) >= c + 1
             /\ \A k \in DOMAIN RunsOf[a] : k >= c + 1 => Seek(a, c + 1) <= k
    <3>1. Seek(a, c + 1) \in Nat
      BY <1>3, <2>4
    <3>2. ASSUME NEW n \in DOMAIN RunsOf[a]
          PROVE  /\ n < Seek(a, c + 1) => Ran(a, n)
                 /\ n > Seek(a, c + 1) => pc[RunsOf[a][n]] = "idle"
      <4>1. n \in Nat
        BY <1>3
      <4>2. n < Seek(a, c + 1) => n < c + 1
        BY <2>1, <2>4, <3>1, <4>1
      <4>3. n > Seek(a, c + 1) => n > c
        BY <2>1, <2>4, <3>1, <4>1
      <4>. QED BY <2>2, <2>3, <4>2, <4>3 DEF Frontier
    <3>3. Frontier(a, cursor'[a])
      BY <2>1, <3>2 DEF Frontier
    <3>4. Frontier(a, cursor[a])'
      BY <2>1, <3>3 DEF Frontier, Ran, vars, flow, ledger
    <3>5. DispatchInv(a)'
      BY <1>1, <1>4, <1>8, <2>1, <2>4, <3>4, DispatchingLemma
    <3>. QED BY <1>7, <2>1, <3>1, <3>5
  <2>5. CASE Seek(a, c + 1) = 0 /\ \A k \in DOMAIN RunsOf[a] : k < c + 1
    <3>1. AllRan(a)
      BY <2>3, <2>5 DEF AllRan
    <3>2. DispatchInv(a)'
      BY <1>1, <1>8, <2>1, <2>5, <3>1, DispatchingLemma
    <3>. QED BY <1>7, <2>1, <2>5, <3>2
  <2>. QED BY <2>1, <2>4, <2>5, SeekLemma
<1>. QED BY <1>6, <1>9, <1>10, <1>11 DEF Dispatch

LEMMA HandlersStep ==
    ASSUME TypeInv, SuccessInv, SuccessInv', HandlersInv, [ServiceNext]_serviceVars
    PROVE  HandlersInv'
<1>1. [Next]_vars
  BY ServiceStep DEF serviceVars
<1>2. ASSUME NEW a \in Attempts, Receive(a) \/ Dispatch(a) PROVE HandlersInv'
  BY <1>1, <1>2, ReceiveKeepsOrder, DispatchKeepsOrder
<1>3. ASSUME UNCHANGED service, EngineStep \/ UNCHANGED vars PROVE HandlersInv'
  <2>1. ASSUME NEW a \in Attempts, NEW n \in DOMAIN RunsOf[a]
        PROVE  /\ pc[RunsOf[a][n]] = "idle" => pc'[RunsOf[a][n]] = "idle"
               /\ Ran(a, n) => Ran(a, n)'
    <3>1. RunsOf[a][n] \in Runs
      BY AttemptsAssumption
    <3>2. pc[RunsOf[a][n]] = "idle" => pc'[RunsOf[a][n]] = "idle"
      BY <1>3, EngineLeavesIdle DEF vars, flow
    <3>3. Ran(a, n) => Ran(a, n)'
      BY <1>1, <3>1, DoneStays DEF Ran, SuccessInv
    <3>. QED BY <3>2, <3>3
  <2>2. \A a \in Attempts : DispatchInv(a)'
    BY <1>3, <2>1, OthersKeep DEF service
  <2>. QED BY <1>3, <2>2 DEF HandlersInv, service
<1>. QED BY <1>2, <1>3 DEF ServiceNext, serviceVars

LEMMA HandlersInvariant == ServiceSpec => [](SuccessInv /\ HandlersInv)
<1>1. Init => SuccessInv
  BY DEF Init, SuccessInv
<1>2. ServiceInit => HandlersInv
  <2> SUFFICES ASSUME ServiceInit PROVE HandlersInv
    OBVIOUS
  <2>1. \A a \in Attempts : \A n \in DOMAIN RunsOf[a] : pc[RunsOf[a][n]] = "idle"
    BY AttemptsAssumption DEF ServiceInit, Init, Tasks
  <2>2. \A a \in Attempts : handling[a] = "away" /\ code[a] = None /\ cursor[a] = 0
    BY DEF ServiceInit
  <2>. QED BY <2>1, <2>2, CodeAssumption DEF ServiceInit, HandlersInv, DispatchInv
<1>3. TypeInv /\ OrderInv /\ SuccessInv /\ [Next]_vars => SuccessInv'
  BY SuccessStep
<1>4. TypeInv /\ SuccessInv /\ SuccessInv' /\ HandlersInv /\ [ServiceNext]_serviceVars => HandlersInv'
  BY HandlersStep
<1>5. ServiceSpec => []TypeInv /\ []OrderInv
  BY ServiceImplementsPipeline, TypeInvariant, OrderInvariant, PTL
<1>6. [ServiceNext]_serviceVars => [Next]_vars
  BY ServiceStep DEF serviceVars
<1>7. ServiceInit => Init
  BY DEF ServiceInit
<1>. QED BY <1>1, <1>2, <1>3, <1>4, <1>5, <1>6, <1>7, PTL DEF ServiceSpec

\* A body that was answered with 200 or 202 is done: each of its bound events was run and
\* ended well, and what the runs proposed is in the ledger.  Only then is there no
\* redelivery.
THEOREM AcknowledgedBodiesAreDone == ServiceSpec => []AcknowledgedIsDone
<1>1. SuccessInv /\ HandlersInv => AcknowledgedIsDone
  BY AttemptsAssumption DEF SuccessInv, HandlersInv, DispatchInv, AllRan, Ran, AcknowledgedIsDone
<1>. QED BY <1>1, HandlersInvariant, PTL

\* dispatch runs the events of a body in their order and stops at the first that raises,
\* whatever other attempts and the API do meanwhile.
THEOREM BodiesRunInOrder == ServiceSpec => []EventsInOrder
<1>1. HandlersInv /\ NothingUncalled => EventsInOrder
  <2> SUFFICES ASSUME HandlersInv, NothingUncalled, NEW a \in Attempts,
                      NEW m \in DOMAIN RunsOf[a], NEW n \in DOMAIN RunsOf[a],
                      m < n, runStatus[RunsOf[a][n]] # "none"
               PROVE  Ran(a, m)
    BY DEF EventsInOrder, Ran
  <2>1. RunsOf[a][n] \in Runs /\ m \in Nat /\ n \in Nat
    BY AttemptsAssumption
  <2>2. pc[RunsOf[a][n]] # "idle"
    BY <2>1 DEF NothingUncalled
  <2>3. ASSUME NEW k \in Int, Frontier(a, k) PROVE Ran(a, m)
    <3>1. ~ (n > k)
      BY <2>2, <2>3 DEF Frontier
    <3>2. m < k
      BY <2>1, <3>1
    <3>. QED BY <2>3, <3>2 DEF Frontier
  <2>4. AllRan(a) => Ran(a, m)
    BY DEF AllRan
  <2>5. /\ DispatchInv(a) /\ cursor[a] \in Int
        /\ handling[a] \in {"away", "dispatching", "answered"}
    BY DEF HandlersInv
  <2>6. handling[a] # "away"
    BY <2>2, <2>5 DEF DispatchInv
  <2>7. AllRan(a) \/ \E k \in Int : Frontier(a, k)
    BY <2>5, <2>6 DEF DispatchInv
  <2>. QED BY <2>3, <2>4, <2>7
<1>2. ServiceSpec => []NothingUncalled
  BY ServiceImplementsPipeline, UncalledInvariant, PTL
<1>. QED BY <1>1, <1>2, HandlersInvariant, PTL
=============================================================================
