--------------------------- MODULE EngineAssembly ---------------------------
(***************************************************************************)
(* What a RevOpsEngine is assembled from, and what a run gets of it: the   *)
(* connector registry, the registered agents with their bound tools, the   *)
(* router of run_analysis, the freshness gate, and the tools as the agent  *)
(* sees them.  Connectors and agents can be registered at any time, also   *)
(* while runs are in progress.  A registration that raises changes nothing *)
(* and is no action.  An agent that needs a model keeps the engine's in    *)
(* the agent object, and the object may be registered with another engine  *)
(* too.                                                                    *)
(***************************************************************************)
EXTENDS Integers, FiniteSets

CONSTANTS
    Roles,
    Connectors,
    Declared,      \* capabilities that a connector declares
    Live,          \* connectors whose data is that of the moment; others are synced
    Agents,        \* agent objects
    NameOf,        \* agent.name
    TaskOf,        \* agent.task_type
    Requires,      \* agent.requires: required_capabilities of the tool of each role
    LLMBacked,     \* agents that need a model
    Requests,      \* calls of run and run_analysis
    MaxStaleness,  \* FreshnessPolicy.max_staleness
    MaxTime,       \* bound: how far the clock goes
    None           \* capabilities not given, no router, no model

Capabilities == {"read", "write"}
TaskTypes == {TaskOf[a] : a \in Agents}
Names == {NameOf[a] : a \in Agents}

ASSUME AgentsAssumption ==
    /\ IsFiniteSet(Agents) /\ LLMBacked \subseteq Agents
    /\ \A a \in Agents : /\ DOMAIN Requires[a] \subseteq Roles
                         /\ \A r \in DOMAIN Requires[a] : Requires[a][r] \subseteq Capabilities

ASSUME ConnectorsAssumption ==
    /\ Declared \in [Connectors -> SUBSET Capabilities]
    /\ \A given \in SUBSET Capabilities : given # None
    /\ Live \subseteq Connectors

ASSUME ModelsAssumption == None \notin {"own", "other"}

ASSUME TimeAssumption == MaxStaleness \in Nat /\ MaxTime \in Nat

VARIABLES
    config,   \* has the engine an LLMConfig; does it "fail" runs on stale data or let them
              \* "pass" (no FreshnessPolicy, or one that warns); and which synced connectors
              \* were given a sync_resolver
    entries,  \* entries[role]: the connector registered under it, and its capabilities
    byName,   \* the registered agents, by name
    byTask,   \* the same, by task type
    router,   \* task types of the cached router, or None
    now,      \* the clock
    syncedAt, \* when the data of a connector was synced
    bound,    \* bound[a]._llm: the engine whose model was bound last, "own" or "other"
    built,    \* built[a]._pai_agent: the engine whose model the cached agent has
    elsewhere,\* is a registered with another engine: "no", "before" this one or "after"?
    requests, \* state of each call
    reads     \* reads through tools: by which request, when, and data of what time (history)

assembly == <<entries, byName, byTask, router>>
binding  == <<bound, built, elsewhere>>
time     == <<now, syncedAt>>
vars     == <<config, assembly, binding, time, requests, reads>>

-----------------------------------------------------------------------------
(* Assembly.                                                               *)

Put(f, k, v) == [x \in DOMAIN f \cup {k} |-> IF x = k THEN v ELSE f[x]]

Nothing == [x \in {} |-> None]

Idle == [phase |-> "idle", options |-> {}]

Init ==
    /\ config \in [llm : BOOLEAN, freshness : {"pass", "fail"},
                   resolvers : SUBSET (Connectors \ Live)]
    /\ entries = Nothing /\ byName = Nothing /\ byTask = Nothing
    /\ router = None
    /\ now = 0
    /\ syncedAt = [c \in Connectors |-> 0]
    /\ bound = [a \in LLMBacked |-> None]
    /\ built = [a \in LLMBacked |-> None]
    /\ elsewhere = [a \in LLMBacked |-> "no"]
    /\ requests = [q \in Requests |-> Idle]
    /\ reads = {}

\* Mutant of Effective: the argument is stored as it is.
EffectiveAsGiven(c, given) == given

\* The capabilities given may narrow those of the connector.
Effective(c, given) == IF given = None THEN Declared[c] ELSE given

RegisterConnector(role, c, given) ==
    /\ role \notin DOMAIN entries
    /\ given # None => given \subseteq Declared[c]
    /\ entries' = Put(entries, role, [connector |-> c, capabilities |-> Effective(c, given)])
    /\ UNCHANGED <<config, byName, byTask, router, binding, time, requests, reads>>

\* Mutant of Resolves: the connector is asked, not the registry.
ResolvesByConnector(role, required) ==
    /\ role \in DOMAIN entries
    /\ required \subseteq Declared[entries[role].connector]

\* resolve_tool finds the role with all the capabilities that the tool requires.
Resolves(role, required) ==
    /\ role \in DOMAIN entries
    /\ required \subseteq entries[role].capabilities

\* Mutant of Granted: the tool is granted all that its connector can do.
GrantedInFull(role, required) == Declared[entries[role].connector]

\* Least privilege: what the tool declared.
Granted(role, required) == required \cap entries[role].capabilities

BoundTools(a) ==
    [role \in DOMAIN Requires[a] |->
        [connector |-> entries[role].connector, granted |-> Granted(role, Requires[a][role])]]

\* Mutant of CanRegister: the task type may be taken.
CanRegisterOverTask(a) ==
    /\ NameOf[a] \notin DOMAIN byName
    /\ \A role \in DOMAIN Requires[a] : Resolves(role, Requires[a][role])
    /\ a \in LLMBacked => config.llm

\* What register_agent raises for, it raises for before it changes anything.
CanRegister(a) ==
    /\ NameOf[a] \notin DOMAIN byName
    /\ TaskOf[a] \notin DOMAIN byTask
    /\ \A role \in DOMAIN Requires[a] : Resolves(role, Requires[a][role])
    /\ a \in LLMBacked => config.llm

\* Mutant of BindLLM: the agent built for another model is kept.
BindLLMOnly(a, engine) ==
    /\ bound' = [bound EXCEPT ![a] = engine]
    /\ UNCHANGED built

\* bind_llm
BindLLM(a, engine) ==
    /\ bound' = [bound EXCEPT ![a] = engine]
    /\ built' = [built EXCEPT ![a] = None]

\* Mutant of RegisterAgent: the router is kept.
RegisterAgentOnly(a) ==
    /\ CanRegister(a)
    /\ LET registered == [agent |-> a, tools |-> BoundTools(a)]
       IN  /\ byName' = Put(byName, NameOf[a], registered)
           /\ byTask' = Put(byTask, TaskOf[a], registered)
    /\ IF a \in LLMBacked THEN BindLLM(a, "own") ELSE UNCHANGED <<bound, built>>
    /\ UNCHANGED <<config, entries, router, elsewhere, time, requests, reads>>

RegisterAgent(a) ==
    /\ CanRegister(a)
    /\ LET registered == [agent |-> a, tools |-> BoundTools(a)]
       IN  /\ byName' = Put(byName, NameOf[a], registered)
           /\ byTask' = Put(byTask, TaskOf[a], registered)
    /\ router' = None
    /\ IF a \in LLMBacked THEN BindLLM(a, "own") ELSE UNCHANGED <<bound, built>>
    /\ UNCHANGED <<config, entries, elsewhere, time, requests, reads>>

Registered(a) == TaskOf[a] \in DOMAIN byTask /\ byTask[TaskOf[a]].agent = a

\* Another engine registers the agent object, if it is not registered there yet.
RegisterElsewhere(a) ==
    /\ elsewhere[a] = "no"
    /\ elsewhere' = [elsewhere EXCEPT ![a] = IF Registered(a) THEN "after" ELSE "before"]
    /\ BindLLM(a, "other")
    /\ UNCHANGED <<config, assembly, time, requests, reads>>

-----------------------------------------------------------------------------
(* Runs.                                                                   *)

\* When the data that a connector returns was that of its source.
DataOf(c) == IF c \in Live THEN now ELSE syncedAt[c]

\* sync_metadata().last_synced_at: a connector without a sync_resolver, a warehouse by
\* default, reports the time of the query, however old its data is.
LastSynced(c) == IF c \in config.resolvers THEN syncedAt[c] ELSE now

\* Mutant of Vintage: the time of the query.
VintageNow(tools) == [role \in DOMAIN tools |-> now]

\* _collect_vintage
Vintage(tools) == [role \in DOMAIN tools |-> LastSynced(tools[role].connector)]

\* Mutant of Stale: one fresh role is enough.
StaleIfAll(vintage) == \A role \in DOMAIN vintage : now - vintage[role] > MaxStaleness

Stale(vintage) == \E role \in DOMAIN vintage : now - vintage[role] > MaxStaleness

\* process_task builds the pydantic-ai agent for the bound model, unless it has one.
ModelOf(a) == IF built[a] = None THEN bound[a] ELSE built[a]

BuildFor(a) ==
    built' = [x \in LLMBacked |-> IF x = a THEN ModelOf(a) ELSE built[x]]

\* A run of another engine the agent object is registered with.
RunElsewhere(a) ==
    /\ elsewhere[a] # "no"
    /\ BuildFor(a)
    /\ UNCHANGED <<config, assembly, bound, elsewhere, time, requests, reads>>

\* engine.run up to the agent.  Only on_violation = "fail" refuses stale data.
Run(q, t) ==
    LET agent == byTask[t].agent
        tools == byTask[t].tools
        vintage == Vintage(tools)
        options == requests[q].options
    IN  \/ /\ t \notin DOMAIN byTask
           /\ requests' = [requests EXCEPT ![q] = [phase |-> "no agent", options |-> options]]
           /\ UNCHANGED built
        \/ /\ t \in DOMAIN byTask
           /\ config.freshness = "fail" /\ Stale(vintage)
           /\ requests' = [requests EXCEPT ![q] = [phase |-> "stale", options |-> options]]
           /\ UNCHANGED built
        \/ /\ t \in DOMAIN byTask
           /\ ~ (config.freshness = "fail" /\ Stale(vintage))
           /\ requests' = [requests EXCEPT ![q] =
                 [phase |-> "agent", options |-> options, agent |-> agent, tools |-> tools,
                  model |-> IF agent \in LLMBacked THEN ModelOf(agent) ELSE None,
                  vintage |-> vintage, start |-> now, proposed |-> {}]]
           /\ BuildFor(agent)

\* A call with a task: of any type, also of one without an agent.
RunTask(q) ==
    /\ requests[q].phase = "idle"
    /\ \E t \in TaskTypes : Run(q, t)
    /\ UNCHANGED <<config, assembly, bound, elsewhere, time, reads>>

\* Mutant of RouterFor: the task types of the program.
RouterForAll == IF router = None THEN TaskTypes ELSE router

\* The cached router, or a new one for the task types registered now.
RouterFor == IF router = None THEN DOMAIN byTask ELSE router

\* run_analysis asks the model to choose a task and awaits it.
RunAnalysis(q) ==
    /\ requests[q].phase = "idle"
    /\ config.llm
    /\ DOMAIN byTask # {}
    /\ router' = RouterFor
    /\ requests' = [requests EXCEPT ![q] = [phase |-> "routing", options |-> RouterFor]]
    /\ UNCHANGED <<config, entries, byName, byTask, binding, time, reads>>

Routed(q) ==
    /\ requests[q].phase = "routing"
    /\ \E t \in requests[q].options : Run(q, t)
    /\ UNCHANGED <<config, assembly, bound, elsewhere, time, reads>>

\* The agent reads through the tool of a role.
Read(q, role) ==
    /\ requests[q].phase = "agent"
    /\ role \in DOMAIN requests[q].tools
    /\ reads' = reads \cup {[request |-> q, role |-> role, at |-> now,
                             synced |-> DataOf(requests[q].tools[role].connector)]}
    /\ UNCHANGED <<config, assembly, binding, time, requests>>

\* propose_write: the tool of the role needs to be granted write capability.
Propose(q, role) ==
    /\ requests[q].phase = "agent"
    /\ role \in DOMAIN requests[q].tools
    /\ "write" \in requests[q].tools[role].granted
    /\ requests' = [requests EXCEPT ![q].proposed = @ \cup {role}]
    /\ UNCHANGED <<config, assembly, binding, time, reads>>

\* The ELT tooling syncs the data of a connector.
Sync(c) ==
    /\ c \notin Live
    /\ syncedAt' = [syncedAt EXCEPT ![c] = now]
    /\ UNCHANGED <<config, assembly, binding, now, requests, reads>>

Tick ==
    /\ now < MaxTime
    /\ now' = now + 1
    /\ UNCHANGED <<config, assembly, binding, syncedAt, requests, reads>>

-----------------------------------------------------------------------------
Next ==
    \/ \E role \in Roles, c \in Connectors, given \in (SUBSET Capabilities) \cup {None} :
          RegisterConnector(role, c, given)
    \/ \E a \in Agents : RegisterAgent(a)
    \/ \E a \in LLMBacked : RegisterElsewhere(a) \/ RunElsewhere(a)
    \/ \E q \in Requests : RunTask(q) \/ RunAnalysis(q) \/ Routed(q)
    \/ \E q \in Requests, role \in Roles : Read(q, role) \/ Propose(q, role)
    \/ (\E c \in Connectors : Sync(c)) \/ Tick

Spec == Init /\ [][Next]_vars
-----------------------------------------------------------------------------
(* Properties.                                                             *)

Running == {q \in Requests : requests[q].phase = "agent"}

\* Shape of the state: a registry entry has capabilities that its connector declares.
TypeOK ==
    /\ DOMAIN entries \subseteq Roles
    /\ \A role \in DOMAIN entries :
          /\ entries[role].connector \in Connectors
          /\ entries[role].capabilities # None
          /\ entries[role].capabilities \subseteq Declared[entries[role].connector]
    /\ DOMAIN byName \subseteq Names /\ DOMAIN byTask \subseteq TaskTypes
    /\ router \in (SUBSET TaskTypes) \cup {None}
    /\ bound \in [LLMBacked -> {"own", "other", None}]
    /\ built \in [LLMBacked -> {"own", "other", None}]
    /\ now \in 0..MaxTime /\ syncedAt \in [Connectors -> 0..MaxTime]
    /\ \A q \in Requests :
          requests[q].phase \in {"idle", "routing", "no agent", "stale", "agent"}

\* "Any missing role, capability, or model configuration raises here, never mid-run": an
\* agent in the registry has each tool it requires on the connector registered now, with
\* every capability the tool requires, and a model if it needs one.
ReadyToRun ==
    \A t \in DOMAIN byTask :
        LET a == byTask[t].agent
            tools == byTask[t].tools
        IN  /\ a \in LLMBacked => config.llm /\ bound[a] # None
            /\ DOMAIN tools = DOMAIN Requires[a]
            /\ \A role \in DOMAIN tools :
                  /\ role \in DOMAIN entries
                  /\ tools[role].connector = entries[role].connector
                  /\ Requires[a][role] \subseteq tools[role].granted
                  /\ tools[role].granted \subseteq entries[role].capabilities

\* run looks agents up by task type and replay by name: both know the same ones, so the
\* agent of a ledgered run is found again.
RegistriesAgree ==
    /\ \A t \in DOMAIN byTask : LET n == NameOf[byTask[t].agent]
                                IN  n \in DOMAIN byName /\ byName[n] = byTask[t]
    /\ \A n \in DOMAIN byName : LET t == TaskOf[byName[n].agent]
                                IN  t \in DOMAIN byTask /\ byTask[t] = byName[n]

\* The cached router never lacks an agent that is registered, nor has one that is not.
RouterIsCurrent == router # None => router = DOMAIN byTask

\* A request that was routed finds the agent of its task, whatever was registered while
\* the model was choosing.
RoutedFindsAgent ==
    \A q \in Requests : requests[q].phase = "no agent" => requests[q].options = {}

\* The model of an LLM agent is "supplied by the engine": a run uses the one of this engine,
\* also if the agent object served another engine before, unless another engine has
\* registered it since.
OwnModelUnlessShared ==
    \A q \in Running : LET a == requests[q].agent
                        IN  a \in LLMBacked /\ elsewhere[a] # "after" => requests[q].model = "own"

\* "Read-only grants cannot even propose": a role that a write is proposed to was
\* registered with write capability, so _apply_intent will not fail for the lack of it.
ProposedIsGranted ==
    \A q \in Running : \A role \in requests[q].proposed :
        role \in DOMAIN entries /\ "write" \in entries[role].capabilities

\* Connectors that know how old their data is.
KnowsItsAge(c) == c \in Live \cup config.resolvers

ReadOfKnownAge(x) == KnowsItsAge(requests[x.request].tools[x.role].connector)

\* "Every report's data_vintage records how fresh each source was": whatever the agent read
\* was synced then or later.  This holds of live connectors and of those with a
\* sync_resolver; of a warehouse without one the vintage is the time of the query, and the
\* data may be of any age.
VintageIsHonest ==
    \A x \in reads : ReadOfKnownAge(x) => x.synced >= requests[x.request].vintage[x.role]

\* With on_violation = "fail" an agent never reads data that is staler than the policy
\* allows by more than the time its run has taken so far; again but for a warehouse without
\* a sync_resolver, whose data always passes for that of the moment.
ReadsAreFresh ==
    config.freshness = "fail" =>
        \A x \in reads : ReadOfKnownAge(x) =>
            x.at - x.synced <= MaxStaleness + (x.at - requests[x.request].start)
=============================================================================
