# Verification of revops-ai

TLA+ models of the engine in `src/src/revops_ai`, their TLC configurations, and
theorems about them checked by TLAPS. Paths below are relative to
`src/src/revops_ai` unless they start with `src/`.

## The system

`RevOpsEngine` runs typed tasks with registered agents. An agent reads systems
of record through tools and proposes writes; the engine decides about them, has
humans approve them, applies them through connectors, and ledgers everything. It
is one Python process with one asyncio event loop. A coroutine keeps the loop
until it awaits, so all interleaving happens at awaits: in the engine these are
`process_task` (the agent, its tools, a language model) and `apply_write` (one
HTTP request). There are no locks and no threads.

| Component | State | Operations | Modelled in |
|---|---|---|---|
| Write-intent pipeline: `core/engine.py`, `safety/write_intent.py` | status of each intent, position of the loop | `run`, `_process_intents`, `_apply_intent`, `approve_intent`, `reject_intent` | WritePipeline; its promise in IntentLifecycle |
| Write policy: `safety/policies.py` | none | `violation`, `max_writes_per_run`, `auto_approve` | IntentContent (allowlists, keys), WritePipeline (limit, answers of `auto_approve`) |
| Audit ledger: `audit/ledger.py` | runs, events, intents, applied keys; in memory | record, look up, `mark_applied`, `was_applied` | state of WritePipeline and ToolReplay |
| Recording and replay: `audit/recording.py`, `audit/replay.py` | sequence number of a run; queues of a replay | proxied tool calls, `engine.replay` | ToolReplay |
| Webhooks: `server/webhooks.py`, `server/api.py` | bindings; nothing about deliveries | `receive_webhook`, `verify`, `extract_events`, `dispatch` | WebhookVerification (signatures), WebhookService, composed with WritePipeline |
| Assembly: `core/engine.py`, `core/registry.py`, `core/context.py`, `tools/base.py` | connector entries, agents by task and by name, bound tools | `register_connector`, `register_agent`, `propose_write` | EngineAssembly |
| Freshness: `core/engine.py`, `core/settings.py` | vintage of a run | `_collect_vintage`, `_enforce_freshness` | EngineAssembly |
| Router: `core/router.py` | cached router | `run_analysis`, `route` | EngineAssembly (the model's choice is free) |
| HubSpot connector | HTTP client | `apply_write`, `search_deals` | `apply_write` in WritePipeline, `search_deals` in PagedReads |
| Stripe connector | HTTP client | `list_subscriptions` | PagedReads |
| Warehouse connector | database engine | one query per call | its sync metadata in EngineAssembly |
| LLM binding: `agents/base.py`, `_llm.py` | bound model, cached agent | `bind_llm`, `process_task` | EngineAssembly |
| Agents of the library, tools | none | prompts, tool calls | ToolReplay (rounds of calls), EngineAssembly (grants); what a model makes of them is a free choice |
| Retrieval: `retrieval/memory.py` | documents and vectors | `upsert`, `search` | VectorStore |
| Reports, tasks, evidence, errors | none | validation | not modelled: data classes |

How they interact: the API and the webhook handler call `engine.run`; `run` asks
the assembly for the agent and its tools, the freshness policy for permission,
awaits the agent (whose calls go through recording proxies), then loops over the
proposed intents; an intent waits in the ledger for `approve_intent` or
`reject_intent`; `replay` feeds a fresh run of the agent from recorded events.

What is hard here: two calls that overlap at an await (two approvals, approval
and rejection, two runs with the same change); a write whose answer is lost, or
whose sender was cancelled, after it was sent; a callback that raises in the
middle of the loop; a redelivered webhook after a partial failure; tool calls
that complete in another order than they were made; registration while a request
is under way; one agent object in two engines; upserts and searches that overlap
at the embedder; lists that change between two pages. `PROJECT.json` lists the hazards at their lines.

## Modules

    IntentLifecycle        abstract: decisions are final, one write per key
    WritePipeline          the pipeline; implements IntentLifecycle when calls do not
                           overlap and every answer arrives
      WritePipelineProofs    its invariants
      LifecycleProofs        Spec => Lifecycle!Spec, and what holds of calls that do
                             not overlap
    IntentContent          what intents say, EXTENDS WritePipeline
      MCWritePipeline        instances for TLC
      IntentContentProofs
    WebhookVerification    signatures and timestamps
    WebhookService         the endpoint, EXTENDS WritePipeline and WebhookVerification
      MCWebhookService
      WebhookServiceProofs   ServiceSpec => Spec, what follows, what handlers promise
    EngineAssembly         registries, router, freshness, tools, models
      MCEngineAssembly
      EngineAssemblyProofs
    ToolReplay             recording and replay of tool calls
      MCToolReplay
      ToolReplayProofs
    PagedReads             search_deals and list_subscriptions
      MCPagedReads
      PagedReadsProofs
    VectorStore            retrieval
      MCVectorStore
      VectorStoreProofs

### WritePipeline

A task is a call of `run` or of `approve_intent`. `turn` is the task that holds
the event loop. A task gives it up when it awaits or ends, and `pc` then says
where it waits (`agent`, `applying`) or that it is `done`. `position` is the
index of the `for` loop of `_process_intents`, `accepted` the set of intents it
counted (the code keeps the number), `status`, `ledgered`, `appliedKeys` and
`runStatus` are the ledger. The ledger stores the intent object that the engine
mutates, so there is one `status` for both. `inTransit` and `landed` are the
requests on their way to the remote system and those that took effect;
`answered`, a history variable, those whose success the engine was told.

| Action | Code |
|---|---|
| StartRun, AgentFails, AgentReturns | `run` up to line 174 and its `except` |
| RejectByPolicy, KeepProposed, QueueForApproval, AutoApproveRaises, AutoApply | the branches of `_process_intents` |
| ApplyIntent (in AutoApply, Approve) | `_apply_intent` up to the await; no request is sent for a role that is not writable or a key that was applied |
| ApplySucceeds, ApplyRaises | the rest of `_apply_intent` with the `record_intent` or `update_intent` of its caller |
| Approve, RejectIntent | `approve_intent`, `reject_intent`, when they do not raise `WriteError` (then nothing changes) |
| FinishRun, FinishRaises | the end of `run`; the dump of the report is outside of the `try` |
| Cancel | a cancellation at an await: `CancelledError` is no `Exception` |
| Land | the remote system carries out a request, with or without a sender that waits |

`ApplyRaises` stands for every exception of `apply_write`: refused (the request
never takes effect), or no usable answer to a request that took effect, will, or
never does (`MayLoseAnswer`). The write mode and the presence of a policy are
chosen in `Init`. `Allowed`, `Writable` and `Verdict` are constants: the policy
and the registry answer the same for the same intent. IntentContent says what
`Allowed` and the keys come from. A `reject_intent` or an
approval is taken up only when the loop is free.

Not in it: an agent that keeps the list of its proposals and appends to it after
it returned; a durable ledger, which the repository does not have; the engine
attributes `write_mode` and `write_policy` being reassigned, so an intent that is
pending is never held against another policy than the one it was queued under; an agent
that takes the connector of a tool (`RecordingToolProxy` passes on whatever is no
coroutine function) and writes past the pipeline.

### IntentContent

`Content[i]` is the intent's role, operation, target, field changes (old and new
value) and the key its agent gave it, if any. `Violation` is
`WritePolicy.violation`: a role without an allowlist, or a changed field that is
not in it. `DerivedKey` is the payload that `idempotency_key` hashes: role,
operation, target and new values. The hash itself is taken to be injective.
`ContentAssumption` ties `Allowed` and `KeyOf` of the pipeline to these two
operators, so the pipeline runs on contents. `AppliedIsIdentical` relates the
contents of two intents by way of keys, ledger and remote system: what is shown as
applied, also when it was skipped as a duplicate, was written just so. It excepts
intents with a key given by the agent, and needs that nobody gives an intent the
hash of another one (`GivenKeyAssumption`).

### WebhookVerification

A request has its source, url, body, the time of the clock when it is verified, and
the headers (HubSpot) or the items of `Stripe-Signature` (Stripe) as a sequence,
because a name may come twice and `dict` keeps the last. A timestamp is a text that
`int()` accepts or not, in milliseconds for HubSpot and seconds for Stripe; a
signature is the HMAC of a content under a secret, HMACs of different contents or
secrets being different. `Outcome` follows `knows_source` and `verify` through all
exits: no listener, missing fields, a timestamp that is no number, one out of
tolerance on either side, a body that is not UTF-8 or a signature that is not ASCII
(all three raise and become a 500), a signature that does not match. `Authentic` is the
reference, written from who signed what and not from the order of the checks.

### WebhookService

A delivery is what a source wants to tell; an attempt is one request with it, any of
`Incoming[a]`: the genuine one, or what somebody made of it. The handler answers at
once when the request is not verified (404, 401, 500) or its events cannot be
extracted (500); else it awaits the runs of the events with a binding one by one,
passing over the others, and answers 200, or 202 if there were none, or 500 when a
run raises. `RunsOf[a]` gives the run of each place in the body that is bound. A source may send again after any answer, because the answer can be lost.
A source that gives up waiting and sends again makes two attempts overlap; for
the pipeline that is two runs with the same keys in progress, which is what
`concurrent` checks. Between two runs of a body the code does not give up the
loop and the model does: it has more interleavings than the code.

`AuthenticOnly` has two halves: nothing of a request that its source did not sign
reaches the ledger or the remote system, and such a request is answered 401, or 404
when the source is unknown, or 500 when it cannot be read. TLC runs events of HubSpot
requests through the pipeline, and of Stripe requests the verification with all its
outcomes; a Stripe request with runs would double the states. `WebhooksAreAuthentic`
is proved for both.

### EngineAssembly

`entries` is the connector registry, `byTask` and `byName` the two dictionaries of
registered agents with their bound tools, `router` the task types of the cached
`TaskRouter`. `bound` and `built` are the `_llm` and the `_pai_agent` of the agent
objects, which other engines may register too (`elsewhere`): `bind_llm` replaces the
first and drops the second, `process_task` builds the second from the first.
Registrations that raise change nothing, because all checks come
first; they are no actions. `Run` collects the vintage and enforces freshness,
then the agent reads and proposes. Time is a counter. `DataOf` is how old the data of
a connector is: that of a live one is of the moment, that of a warehouse of its last
sync. `LastSynced` is what `sync_metadata` says about it: the last sync if the
connector was given a `sync_resolver`, the time of the query otherwise. The configuration
of the engine, chosen in `Init`, says which have one, and whether stale data fails a run
(`fail`) or not (`pass`: no `FreshnessPolicy`, or one that warns). `VintageIsHonest` and
`ReadsAreFresh` relate what an agent reads (`DataOf`) to what was reported about it
(`LastSynced`), of connectors that know the age of their data (`KnowsItsAge`). A
task type stands for its class; two classes with one name, of which the API reaches
the later, are not modelled.

### ToolReplay

The agent makes its calls in rounds (what it awaits together). A call completes
with a result, with an exception, or past the recording (`Miss`): `json.dumps` refuses
its arguments or its result, or the agent stops waiting and cancels it. The event is
recorded at completion, and a call that ends the run does not stop the others of
its round. A replay takes the recorded events of its moment, one queue per tool
method, and serves them in the order of the agent's calls without looking at the
arguments. Events of the ledger are never removed, so a queue is the set of the
positions of its events; `Oldest` is what `popleft` takes, `Rest` what it leaves.

The agent is deterministic: which calls it makes does not depend on their answers. It
handles any set of exception classes (`catches`), and fails by the others only. Live it
gets the exception that the tool raised; in a replay it gets a `ReplayError`, whatever
the class was, which is one more member of `catches`. That covers agents that handle one
exception of a tool, all of a library's, only `RevOpsError` (of which `ReplayError` is
one), or everything. It proposes a write at its end or not (`proposes`). A value `v`
comes back from the ledger as `Json[v]` (a date becomes its text). The `RunContext` and
the report of a replay have no `data_vintage` (`core/engine.py:225-232`, against 158 and
179-181): the model compares what the tools answer, not what else a report has.

### PagedReads

`present` is the remote list. HubSpot's cursor is a position in the order of
creation, Stripe's the id of the last item, newest first; both servers are external,
modelled from the requests the connectors send. A call collects a page per step
(`SearchPage`, `ListPage`) until there is no cursor or it has `max_results`, and
cuts the rest; `ReadRaises` is a request that fails. `kept` and `disturbed` are
history: what matched the whole time, and whether an object came or went among
those already read. That is the one change that shifts the positions under
`search_deals`, so `DealsAreExact` excepts it and `SubscriptionsAreExact` does not.

### VectorStore

`docs` and `vectors` are the two dictionaries. `CallUpsert` and `CallSearch` run to
the await of the embedder, `Store` and `Answer` from it. `Store` is the `zip` loop
with all its ends: as many vectors as documents, or fewer or more, where
`strict=True` raises after the pairs before were stored. A vector is the text it was
made from, a cosine the entry of a score table; which of two documents with the
same score comes first is open. `before` and `kept` are history.

## Runs

| Run | Question | Bounds | Distinct states |
|---|---|---|---|
| concurrent | do the gates, the blast radius, the backing of `applied`, the bound on duplicates, the order of the ledger, the allowlists and the keys survive any interleaving? | 3 runs, 2 approvals, 9 intents with every fate, at most 3 calls in progress, lost answers, cancellations | 250,000 |
| settling | does everything come to an end and into the ledger? | 2 runs, 2 approvals, 5 intents, lost answers, fairness | 7,600 |
| webhooks | what do forged, late and redelivered requests do; does the engine keep the promise of IntentLifecycle? | a body of 3 events (2 bound) in 2 attempts with 8 requests, a Stripe event in 6, an API run, 2 approvals; one call at a time, answers arrive | 143,000 |
| assembly | do registration, routing, models and freshness keep their promises in every order? | 2 roles, 2 connectors, one of them synced, with a resolver and without, 3 agents, one of which conflicts with another in task and with the third in name, a second engine, 3 instants | 472,000 |
| replay | are recordings complete and replays faithful? | 4 calls in 3 rounds, concurrent calls on different tools, 2 classes of exceptions, agents that handle any of them and `ReplayError`, with and without proposals | 625,000 |
| paging | do paged reads end, and with what? | 5 objects, pages of 2, 3 changes of the list, 5 values of `max_results` | 78,000 |
| retrieval | what do overlapping upserts and searches store and find? | 3 upserts of 6 documents with 2 ids, 2 searches | 287,000 |
| double_approval, late_rejection, webhook_retry, replay_overlap, replay_report | disagreements of code and documentation, see below | smallest instance | |

Why the bounds are enough to be interesting: a duplicate needs two calls with one
key in flight, a third in progress (`MaxTasks = 3`) shows that the bound depends
on their number; `MaxWrites = 2` with four proposals in a run reaches and exceeds
the limit; every branch of the loop occurs, in a run that goes on, one that an
exception ends, and one whose report cannot be dumped. The intents of `concurrent`
differ pairwise in one part of their content (target, operation, old values, field,
given key). Two attempts suffice for a redelivery after each possible end of the
first, and the requests meet every exit of `verify` and both edges of the
tolerance. Four calls in rounds of one, two and one let one call of a round overtake
the other and have a call before and after it; two classes of exceptions let an agent
handle one and not the other. Two pages and a cut third one, with
changes before, between and behind them, make every case of the paging loops.
Three upserts allow an old one to end between two others, one of them with the same
id twice. Symmetry is used for approvals in `concurrent` and for the classes of exceptions
in the runs of ToolReplay, which differ in nothing but who handles them; none of these has
a liveness property.

Every run says `CHECK_DEADLOCK FALSE`: the calls of each instance are finite, and
the system is idle when they are done.

Fairness (`Fairness`, `FairServiceSpec`): an agent that was awaited ends, a task
the loop can run is run, and an `apply_write` that was awaited returns or raises:
`connectors/hubspot.py:44` sets a timeout of 30 seconds. A handler that can go on
does. A paged read gets an answer to its request or raises, by the same timeout. No
fairness for the API, the human, the sender of webhooks, the landing of requests, or
cancellation: none is owed. `settling` is without cancellation
and reports that cannot be dumped, under which `EveryRunCloses` does not hold: a
cancelled run stays RUNNING, and what it had sent may be in no ledger. Whether a
deployment cancels handlers depends on its server.

## Where code and documentation disagree

- `double_approval`: `approve_intent` tests the status before the await of
  `apply_write` and sets it afterwards. Two overlapping approvals both write.
  `src/tests/test_server.py:79`: "Approving twice is a 409, not a double write."
- `late_rejection`: an intent can be rejected while its approval awaits. The write
  happens, and APPLIED replaces the human's REJECTED.
- `webhook_retry`: the key is marked only after a confirmed write, so a retry
  after a lost answer writes twice. `src/PLAN.md:244-245`: "webhook retries can't
  double-write". `webhooks` shows that it holds when every answer arrives.
- `replay_overlap`: calls of one tool made together are replayed in the order of
  completion. `audit/replay.py:4-5`: "in the original order".
- `replay_report`: a replay raises `ReplayError` for a recorded exception
  (`audit/replay.py:44-47`), the run raised the exception itself
  (`audit/recording.py:76-78`). An agent with `except httpx.HTTPError` succeeds and its
  replay raises. `audit/replay.py:5`: "Deterministic agents reproduce their report
  exactly". The converse is the case that `FailedNeverReports` excepts: an agent with
  `except RevOpsError` fails on an exception of a tool, and its replay ends with a report.
- `replay_report`, the second way: a replayed `propose_write` raises `TypeError`, because
  `ReplayToolProxy` answers `granted_capabilities` with a coroutine function.
  `core/engine.py:210-211`: "proposed intents are returned on the report".
- `assembly`, what `VintageIsHonest` and `ReadsAreFresh` except: a warehouse without
  `sync_resolver`, the default, reports the time of the query
  (`connectors/warehouse.py:62`; its docstring says so). The vintage of the report is then
  newer than the data, and no freshness policy ever refuses it. `src/README.md:162`:
  "every report's `data_vintage` records how fresh each source was"; `src/PLAN.md:12`:
  "stale data is surfaced, not silently consumed". Without `ReadOfKnownAge` both
  properties are violated in this run.
- `webhooks`, the 500 in `AuthenticOnly`: a timestamp that is no number, a Stripe body
  that is not UTF-8 and a signature that is not ASCII make `verify` raise something else
  than `WebhookVerificationError`, and the answer is 500. `server/webhooks.py:3-5`:
  "unsigned or tampered payloads are rejected with 401". Nothing of them is processed.

## Proofs

All for any values of the constants that satisfy the named assumptions. These say
that the sets of tasks are finite and disjoint, that no intent or document is
proposed twice, what the constants are functions to, and, for webhooks, that
attempts are numbered from one and have runs of their own. For replays they say that
rounds are numbered, follow the order of the calls and are not empty; for reads that
objects are finitely many positive numbers and that a page may have at least one.

WritePipelineProofs:

- `TypeCorrect`. `TypeOK` is inductive together with `FlightInv`: a task that
  awaits `apply_write` has a subject (its loop is at an intent, or its approval has
  one), without which `ApplySucceeds` could settle nothing.
- `WritesAreGated`. Invariant `GateInv`: what was sent was gated, a pending intent
  was left pending by the policy (it was queued by `QueueForApproval`, the only
  action that makes an intent pending), and a sender was started. The last makes
  `approves[c]` stable for the calls of an approval.
- `AppliedIsNeverAGuess`. `BackedInv`: every marked key has a write that landed and
  was answered. `applied` is set with a marked key only.
- `BlastRadiusHolds`. `RadiusInv`: what was sent for a run, and what of it is
  pending, was accepted by its loop, and no more than `MaxWrites` were. Needed
  because approvals write later, when the loop's counter is gone.
- `DuplicatesAreBounded`, about confirmed writes: a write whose answer was lost is not
  counted, and can be repeated without any overlap (`webhook_retry`). `IdempotencyInv` counts, for each key, the confirmed
  writes and the tasks that wait for an answer to one: once the key is marked no
  task joins, and before there are no confirmed ones.
- `LedgerKeepsOrder`. `OrderInv` compares the ledger with the position of each loop:
  intents before it are ledgered, those behind it are not, the one at it not yet.
  Holds with cancellations and with reports that cannot be dumped. Approvals update
  only what is ledgered (`ApprovalLemma`).
- `NoWriteIsLost` and `QueueIsUntouched`, where nothing is cancelled
  (`ASSUME ~ MayCancel`). `LossInv` says of each call that was sent that its task is
  still waiting for it or has ledgered it, and of a pending intent that only an
  approval under way has sent it. The loop must be known to be at the intent it
  waits for, which is why `OrderInv` comes first.

LifecycleProofs, for calls that do not overlap (`ASSUME MaxTasks = 1`) and that nothing
cancels; the runs double_approval, late_rejection and webhook_retry show that the
hypotheses are needed, `webhooks` that they can be met:

- `ApprovalsWriteOnce` and `RejectionsAreFinal`, also when answers are lost. The
  invariant `SerialState` joins the others with `OneCallInv`: an intent is undecided as
  long as somebody applies it, so that a status tested before the await still holds
  after it; one that was rejected was never sent, and one that was sent has one sender.
- `KeysAreWrittenOnce`, when every answer arrives too (`~ MayLoseAnswer`). `OnceInv`: a
  write that landed has its key marked or its sender still waiting, and a request on
  its way is awaited and the first of its key.
- `PipelineImplementsLifecycle`: the initial states map to initial states, and each
  action to `Write`, `Decline`, `Apply` or a stutter. `writes` of IntentLifecycle is the
  number of writes of an intent that landed; `OnceInv` and `CountLemma` give that it
  goes from 0 to 1.
- `LedgerTellsTheTruth` and `DecisionsAreFinal` follow from the refinement alone, by
  `PromiseInv` of IntentLifecycle: what is rejected or failed was not written, the key of
  what is applied was, once, and none of these changes any more.

IntentContentProofs: `AppliedHasItsWrite` joins `AppliedIsNeverAGuess` with
`SameKeySameWrite` (one derived key, one content). `FieldsAreAllowlisted` follows
from `WritesAreGated` and `ContentAssumption`.

WebhookServiceProofs: `ServiceImplementsPipeline` (`ServiceSpec => Spec`): the
handler reaches the engine through `StartRun` only; hence the gates, the blast
radius and the bound on duplicates hold for the service, and under the hypotheses of
LifecycleProofs the promise of IntentLifecycle (`ServiceKeepsLifecycle`). `WebhooksAreAuthentic`:
`VerifiedIsAuthentic` shows that what `verify` accepts is `Authentic`, for any
fields, secrets and tolerance; `RequestInv` carries it from the verification through
the dispatch to the runs, which nobody else starts (`EngineLeavesIdle`).
`RefusedLemma` says how `verify` ends for any other request.
`RedeliveriesAreBounded` is `DuplicatesBounded` for the service: at most `MaxTasks`
confirmed writes of a key, however often bodies are delivered.
`AcknowledgedBodiesAreDone` and `BodiesRunInOrder`: `HandlersInv` puts the runs of
an attempt on a frontier (those before the cursor ended well, those behind it were
not called) that stays where it was when the handler answers; `SuccessInv` says that
a run that ended well stays so (`DoneStays`) and has all its intents in the ledger.
That `Seek` finds the next bound event is `SeekLemma`. Both hold for any bodies and
attempts, overlapping runs, lost answers and cancellations included.
`ServiceTypeCorrect`: an attempt has a request from its reception on, and a status
from its answer on.

EngineAssemblyProofs: `RegisteredAgentsCanRun`, `RegistriesStayTogether`,
`RouterStaysCurrent` are inductive as they stand, by a frame lemma (only the two
registrations change the registries). `OwnModel`: an agent object that no other
engine has registered since has no other model bound or built, and a run that
started keeps the model it resolved. `RoutedRequestsFindAgents`,
`ProposalsAreGranted`, `VintageHolds` and `FreshnessHolds` follow from
`RequestsInv`: what a run has was registered and still is (`EntriesGrow`), the data
of a connector never gets older (`DataGrows`), the vintage was within the
policy at the start, and every read came after it. The last two of the theorems are about
connectors that know the age of their data, whose report is that age (`ReportedAge`). `AssemblyTypeCorrect` is proved in
four parts (registries, models, clock, requests), each inductive.

ToolReplayProofs: `LedgerIsExact`, by `LogInv`: a call has one event from its completion
on, unless it went past the recording. `SucceededRunsReplay`, by `CountInv`: of each tool
the queue has as many events as the replay has calls left. It only counts, because they
need not be events of these calls. That no exception is among them for an agent that would
stumble on it follows from `LogInv`. The statement has the two conditions that `replay_report` shows to be
needed: the agent proposes nothing, and it handles `ReplayError` or got no exception.
`FailedRunsNeverReport`, for agents that do not handle `ReplayError`, by `ShortInv`: some
tool has fewer results in its queue than calls left. Both need to know how a run can end
(`EndInv`) and what a replay took when it began (`StartInv`). `ReplaysAreFaithful`
(`ASSUME Apart`: the calls of a round go to different tools, without which
`replay_overlap` finds a mix-up), by `OrderInv`: the queues hold the events of the calls
from `next` on, which `Apart` puts in the order of the calls.

PagedReadsProofs: `ReadsInv` says what a read that waits for a page has reached. A read
of subscriptions has nothing before its cursor left to find (`ListInv`); a read of deals
that is not disturbed has just the oldest of those that match now (`DealInv`), which is
how its cursor, a number, comes to mean the right place. `OldestLemma` shows that
`Oldest` lists a set in order: ranks are an injection into as many numbers as there are
objects, hence a surjection. `CutLemma` is the `[:max_results]` of both methods.

VectorStoreProofs: `VectorsFollowDocuments`, because `Store` puts both in place in
the same step and in the same order, for any number of vectors; `UpsertsAreVisible`,
whose invariant adds that `before[u]` had ended when `u` was called. `LastPlace`
(the last of the places of an id in a batch exists) rests on well-founded induction
over Nat, by its theorem about minimal elements. `SearchesMissNothing` and
`StoreTypeCorrect`, by `FindsInv`: while a search waits, what it is held to find is
stored, and the store is finite. `BestLemma` then says of the ranking that a list
shorter than asked for is one of all there is, since it repeats nothing.

Only model-checked: all liveness (`EveryRunCloses` and its like), which the prover
cannot do under fairness. Every invariant that a passing run checks is a theorem; the
runs that show disagreements state what does not hold without the hypotheses above.

## Not modelled

- The class-name keys of `task_types` (see EngineAssembly): no document promises that
  names may be shared.
- Restart: `InMemoryAuditLedger` is the only ledger and forgets everything, so there
  is no recovery to check.
- Listings, timestamps and the read-only endpoints of ledger and API; `get_deal`,
  `get_customer`, `health_check` and the warehouse query: single requests without
  state. The warehouse connector's lazy engine and `close` are not in it either.
- Reports, tasks, evidence and errors: validated data classes.
- What a language model answers, and `resolve_model`'s fallback, which the provider's
  library carries out.

## Plan

Built so far, in this order: WritePipeline with its abstract specification; what
drives it (WebhookService); what it reports (ToolReplay); what it is built from
(EngineAssembly); what its intents say (IntentContent); what lets a request in
(WebhookVerification); the reads (PagedReads) and the store (VectorStore).

Proved so far: all invariants of the passing runs, the refinement, and what follows from
it. To prove next: the bound of `DuplicatesBounded` for intents with one content; that
webhooks deliver one write per bound event when nothing overlaps; and how far a replay
agrees with its run when calls of a round share a tool (the same results, in another
order).
