------------------------ MODULE EngineAssemblyProofs ------------------------
(***************************************************************************)
(* What registration promises, for any connectors and agents.  The two     *)
(* registries and the bound tools are changed by RegisterAgent alone, the  *)
(* connector entries only grow; each step is proved for those two actions  *)
(* and all others leave the assembly, up to the router, alone.             *)
(***************************************************************************)
EXTENDS EngineAssembly, TLAPS

\* Steps other than a registration.
LEMMA AssemblyFrame ==
    ASSUME [Next]_vars,
           \A role \in Roles, c \in Connectors, given \in (SUBSET Capabilities) \cup {None} :
              ~ RegisterConnector(role, c, given),
           \A a \in Agents : ~ RegisterAgent(a)
    PROVE  UNCHANGED <<config, entries, byName, byTask>>
<1>1. ASSUME NEW q \in Requests, RunTask(q) \/ RunAnalysis(q) \/ Routed(q)
      PROVE  UNCHANGED <<config, entries, byName, byTask>>
  BY <1>1 DEF RunTask, RunAnalysis, Routed, assembly
<1>4. ASSUME NEW a \in LLMBacked, RegisterElsewhere(a) \/ RunElsewhere(a)
      PROVE  UNCHANGED <<config, entries, byName, byTask>>
  BY <1>4 DEF RegisterElsewhere, RunElsewhere, assembly
<1>2. ASSUME NEW q \in Requests, NEW role \in Roles, Read(q, role) \/ Propose(q, role)
      PROVE  UNCHANGED <<config, entries, byName, byTask>>
  BY <1>2 DEF Read, Propose, assembly
<1>3. ASSUME (\E c \in Connectors : Sync(c)) \/ Tick
      PROVE  UNCHANGED <<config, entries, byName, byTask>>
  BY <1>3 DEF Sync, Tick, assembly
<1>. QED BY <1>1, <1>2, <1>3, <1>4 DEF Next, vars, assembly

\* What RegisterAgent binds for an agent whose roles resolve.
LEMMA BindingLemma ==
    ASSUME NEW a \in Agents, CanRegister(a)
    PROVE  LET tools == BoundTools(a) IN
           /\ a \in LLMBacked => config.llm
           /\ DOMAIN tools = DOMAIN Requires[a]
           /\ \A role \in DOMAIN tools :
                 /\ role \in DOMAIN entries
                 /\ tools[role].connector = entries[role].connector
                 /\ Requires[a][role] \subseteq tools[role].granted
                 /\ tools[role].granted \subseteq entries[role].capabilities
BY DEF CanRegister, BoundTools, Resolves, Granted

\* bind_llm binds a model to the agent it is called for, and leaves others theirs.
LEMMA BindLemma ==
    ASSUME NEW a \in LLMBacked, NEW engine \in {"own", "other"},
           DOMAIN bound = LLMBacked, BindLLM(a, engine)
    PROVE  /\ DOMAIN bound' = LLMBacked
           /\ bound'[a] = engine
           /\ \A b \in LLMBacked \ {a} : bound'[b] = bound[b]
BY DEF BindLLM

\* A model that is bound stays bound, or makes way for another.
LEMMA BoundStep ==
    ASSUME DOMAIN bound = LLMBacked, [Next]_vars
    PROVE  /\ DOMAIN bound' = LLMBacked
           /\ \A b \in LLMBacked : bound[b] # None => bound'[b] # None
<1>1. ASSUME NEW a \in Agents, RegisterAgent(a)
      PROVE  (a \in LLMBacked /\ BindLLM(a, "own")) \/ UNCHANGED bound
  BY <1>1 DEF RegisterAgent
<1>2. ASSUME NEW a \in LLMBacked, RegisterElsewhere(a)
      PROVE  BindLLM(a, "other")
  BY <1>2 DEF RegisterElsewhere
<1>3. "own" # None /\ "other" # None
  BY ModelsAssumption
<1>4. CASE UNCHANGED bound
  BY <1>4
<1>5. ASSUME NEW a \in LLMBacked, NEW engine \in {"own", "other"}, BindLLM(a, engine)
      PROVE  /\ DOMAIN bound' = LLMBacked
             /\ \A b \in LLMBacked : bound[b] # None => bound'[b] # None
  BY <1>3, <1>5, BindLemma
<1>6. \/ UNCHANGED bound
      \/ \E a \in Agents : RegisterAgent(a)
      \/ \E a \in LLMBacked : RegisterElsewhere(a)
  BY DEF Next, vars, binding, RegisterConnector, RunElsewhere, RunTask, RunAnalysis, Routed,
         Read, Propose, Sync, Tick
<1>. QED BY <1>1, <1>2, <1>4, <1>5, <1>6

LEMMA ReadyStep ==
    ASSUME ReadyToRun, DOMAIN bound = LLMBacked, [Next]_vars
    PROVE  ReadyToRun'
<1>4. \A b \in LLMBacked : bound[b] # None => bound'[b] # None
  BY BoundStep
<1>1. ASSUME NEW role \in Roles, NEW c \in Connectors,
             NEW given \in (SUBSET Capabilities) \cup {None},
             RegisterConnector(role, c, given)
      PROVE  ReadyToRun'
  <2>1. /\ DOMAIN entries \subseteq DOMAIN entries'
        /\ \A x \in DOMAIN entries : entries'[x] = entries[x]
    BY <1>1 DEF RegisterConnector, Put
  <2>2. UNCHANGED <<config, byTask>>
    BY <1>1 DEF RegisterConnector
  <2>. QED BY <1>4, <2>1, <2>2 DEF ReadyToRun
<1>2. ASSUME NEW a \in Agents, RegisterAgent(a) PROVE ReadyToRun'
  <2> DEFINE new == [agent |-> a, tools |-> BoundTools(a)]
  <2>1. byTask' = Put(byTask, TaskOf[a], new) /\ UNCHANGED <<config, entries>> /\ CanRegister(a)
    BY <1>2 DEF RegisterAgent
  <2> SUFFICES ASSUME NEW t \in DOMAIN byTask'
               PROVE  LET b == byTask'[t].agent
                          tools == byTask'[t].tools
                      IN  /\ b \in LLMBacked => config.llm /\ bound'[b] # None
                          /\ DOMAIN tools = DOMAIN Requires[b]
                          /\ \A role \in DOMAIN tools :
                                /\ role \in DOMAIN entries
                                /\ tools[role].connector = entries[role].connector
                                /\ Requires[b][role] \subseteq tools[role].granted
                                /\ tools[role].granted \subseteq entries[role].capabilities
    BY <2>1 DEF ReadyToRun
  <2>2. CASE t = TaskOf[a]
    <3>1. byTask'[t].agent = a /\ byTask'[t].tools = BoundTools(a)
      BY <2>1, <2>2 DEF Put
    <3>2. a \in LLMBacked => bound'[a] # None
      BY <1>2, BindLemma, ModelsAssumption DEF RegisterAgent
    <3>. QED BY <2>1, <3>1, <3>2, BindingLemma
  <2>3. CASE t # TaskOf[a]
    <3>1. t \in DOMAIN byTask /\ byTask'[t] = byTask[t]
      BY <2>1, <2>3 DEF Put
    <3>. QED BY <1>4, <3>1, <2>1 DEF ReadyToRun
  <2>. QED BY <2>2, <2>3
<1>3. CASE UNCHANGED <<config, entries, byName, byTask>>
  BY <1>3, <1>4 DEF ReadyToRun
<1>. QED BY <1>1, <1>2, <1>3, AssemblyFrame

\* "Any missing role, capability, or model configuration raises here, never mid-run":
\* register_agent leaves in the registry only agents that can run, whatever is registered
\* before and after.
THEOREM RegisteredAgentsCanRun == Spec => []ReadyToRun
<1> DEFINE Inv == ReadyToRun /\ DOMAIN bound = LLMBacked
<1>1. Init => Inv
  BY DEF Init, Nothing, ReadyToRun
<1>2. Inv /\ [Next]_vars => Inv'
  BY ReadyStep, BoundStep
<1>. QED BY <1>1, <1>2, PTL DEF Spec

LEMMA AgreeStep ==
    ASSUME RegistriesAgree, [Next]_vars
    PROVE  RegistriesAgree'
<1>1. ASSUME NEW a \in Agents, RegisterAgent(a) PROVE RegistriesAgree'
  <2> DEFINE new == [agent |-> a, tools |-> BoundTools(a)]
             n0 == NameOf[a]
             t0 == TaskOf[a]
  <2>1. /\ byTask' = Put(byTask, t0, new) /\ t0 \notin DOMAIN byTask
        /\ byName' = Put(byName, n0, new) /\ n0 \notin DOMAIN byName
    BY <1>1 DEF RegisterAgent, CanRegister
  <2>2. new.agent = a
    OBVIOUS
  <2> HIDE DEF new, n0, t0
  <2>3. /\ DOMAIN byTask' = DOMAIN byTask \cup {t0} /\ byTask'[t0] = new
        /\ \A t \in DOMAIN byTask : byTask'[t] = byTask[t]
    BY <2>1 DEF Put
  <2>4. /\ DOMAIN byName' = DOMAIN byName \cup {n0} /\ byName'[n0] = new
        /\ \A n \in DOMAIN byName : byName'[n] = byName[n]
    BY <2>1 DEF Put
  <2>5. ASSUME NEW t \in DOMAIN byTask'
        PROVE  NameOf[byTask'[t].agent] \in DOMAIN byName'
               /\ byName'[NameOf[byTask'[t].agent]] = byTask'[t]
    BY <2>2, <2>3, <2>4 DEF RegistriesAgree, n0, t0
  <2>6. ASSUME NEW n \in DOMAIN byName'
        PROVE  TaskOf[byName'[n].agent] \in DOMAIN byTask'
               /\ byTask'[TaskOf[byName'[n].agent]] = byName'[n]
    BY <2>2, <2>3, <2>4 DEF RegistriesAgree, n0, t0
  <2>. QED BY <2>5, <2>6 DEF RegistriesAgree
<1>2. ASSUME NEW role \in Roles, NEW c \in Connectors,
             NEW given \in (SUBSET Capabilities) \cup {None},
             RegisterConnector(role, c, given)
      PROVE  RegistriesAgree'
  BY <1>2 DEF RegisterConnector, RegistriesAgree
<1>3. CASE UNCHANGED <<config, entries, byName, byTask>>
  BY <1>3 DEF RegistriesAgree
<1>. QED BY <1>1, <1>2, <1>3, AssemblyFrame

\* The agent that run finds by task type and the one that replay finds by name are the same
\* registration, so a ledgered run can always be replayed with the agent that made it.
THEOREM RegistriesStayTogether == Spec => []RegistriesAgree
<1>1. Init => RegistriesAgree
  BY DEF Init, Nothing, RegistriesAgree
<1>2. RegistriesAgree /\ [Next]_vars => RegistriesAgree'
  BY AgreeStep
<1>. QED BY <1>1, <1>2, PTL DEF Spec

\* RouterIsCurrent is inductive: only RegisterAgent changes the task types, and it drops
\* the router.
LEMMA RouterStep ==
    ASSUME RouterIsCurrent, [Next]_vars
    PROVE  RouterIsCurrent'
<1>1. ASSUME NEW a \in Agents, RegisterAgent(a) PROVE RouterIsCurrent'
  BY <1>1 DEF RegisterAgent, RouterIsCurrent
<1>2. ASSUME NEW q \in Requests, RunTask(q) \/ Routed(q) PROVE RouterIsCurrent'
  BY <1>2 DEF RunTask, Routed, assembly, RouterIsCurrent
<1>3. ASSUME NEW q \in Requests, RunAnalysis(q) PROVE RouterIsCurrent'
  BY <1>3 DEF RunAnalysis, RouterFor, RouterIsCurrent
<1>4. ASSUME NEW q \in Requests, NEW role \in Roles, Read(q, role) \/ Propose(q, role)
      PROVE  RouterIsCurrent'
  BY <1>4 DEF Read, Propose, assembly, RouterIsCurrent
<1>5. ASSUME NEW role \in Roles, NEW c \in Connectors,
             NEW given \in (SUBSET Capabilities) \cup {None},
             RegisterConnector(role, c, given)
      PROVE  RouterIsCurrent'
  BY <1>5 DEF RegisterConnector, RouterIsCurrent
<1>6. CASE (\E c \in Connectors : Sync(c)) \/ Tick \/ UNCHANGED vars
  BY <1>6 DEF Sync, Tick, vars, assembly, RouterIsCurrent
<1>7. ASSUME NEW a \in LLMBacked, RegisterElsewhere(a) \/ RunElsewhere(a)
      PROVE  RouterIsCurrent'
  BY <1>7 DEF RegisterElsewhere, RunElsewhere, assembly, RouterIsCurrent
<1>. QED BY <1>1, <1>2, <1>3, <1>4, <1>5, <1>6, <1>7 DEF Next

\* The router that run_analysis caches offers exactly the task types that have an agent.
THEOREM RouterStaysCurrent == Spec => []RouterIsCurrent
<1>1. Init => RouterIsCurrent
  BY DEF Init, RouterIsCurrent
<1>2. RouterIsCurrent /\ [Next]_vars => RouterIsCurrent'
  BY RouterStep
<1>. QED BY <1>1, <1>2, PTL DEF Spec

-----------------------------------------------------------------------------
(* The model of an LLM agent.  The inductive invariant says, of each agent *)
(* object, that what is cached was built for what is bound, and that this  *)
(* is this engine's model if no other has registered the object since.     *)

ObjectsInv ==
    /\ DOMAIN bound = LLMBacked /\ DOMAIN built = LLMBacked /\ DOMAIN elsewhere = LLMBacked
    /\ DOMAIN requests = Requests
    /\ \A t \in DOMAIN byTask : byTask[t].agent \in Agents /\ TaskOf[byTask[t].agent] = t

ModelsInv ==
    \A a \in LLMBacked :
        /\ built[a] \in {None, bound[a]}
        /\ Registered(a) /\ elsewhere[a] # "after" => bound[a] = "own"

RunningInv == \A q \in Running : Registered(requests[q].agent)

BindingInv == ObjectsInv /\ ModelsInv /\ RunningInv /\ OwnModelUnlessShared

\* An agent object is registered here by RegisterAgent for it, and never goes.
LEMMA RegisteredLemma ==
    ASSUME ObjectsInv, NEW a \in Agents, RegisterAgent(a)
    PROVE  /\ ObjectsInv'
           /\ Registered(a)'
           /\ \A b : b # a => Registered(b)' = Registered(b)
<1> DEFINE new == [agent |-> a, tools |-> BoundTools(a)]
<1>1. byTask' = Put(byTask, TaskOf[a], new) /\ TaskOf[a] \notin DOMAIN byTask
  BY DEF RegisterAgent, CanRegister
<1>2. new.agent = a
  OBVIOUS
<1> HIDE DEF new
<1>3. /\ DOMAIN byTask' = DOMAIN byTask \cup {TaskOf[a]} /\ byTask'[TaskOf[a]] = new
      /\ \A t \in DOMAIN byTask : byTask'[t] = byTask[t]
  BY <1>1 DEF Put
<1>4. /\ DOMAIN bound' = LLMBacked /\ DOMAIN built' = LLMBacked
      /\ UNCHANGED <<elsewhere, requests>>
  BY DEF ObjectsInv, RegisterAgent, BindLLM
<1>5. ObjectsInv'
  BY <1>2, <1>3, <1>4 DEF ObjectsInv
<1>6. Registered(a)'
  BY <1>2, <1>3 DEF Registered
<1>7. ASSUME NEW b, b # a PROVE Registered(b)' = Registered(b)
  BY <1>1, <1>2, <1>3, <1>7 DEF Registered
<1>. QED BY <1>5, <1>6, <1>7

LEMMA RegisterKeepsBinding ==
    ASSUME BindingInv, NEW a \in Agents, RegisterAgent(a)
    PROVE  BindingInv'
<1>1. /\ ObjectsInv' /\ Registered(a)'
      /\ \A b : b # a => Registered(b)' = Registered(b)
  BY RegisteredLemma DEF BindingInv
<1>2. UNCHANGED <<elsewhere, requests>>
  BY DEF RegisterAgent
<1>3. ModelsInv'
  <2>1. CASE a \in LLMBacked
    <3>1. /\ bound'[a] = "own" /\ built'[a] = None
          /\ \A b \in LLMBacked \ {a} : bound'[b] = bound[b] /\ built'[b] = built[b]
      BY <2>1 DEF BindingInv, ObjectsInv, RegisterAgent, BindLLM
    <3>. QED BY <1>1, <1>2, <3>1 DEF BindingInv, ModelsInv
  <2>2. CASE a \notin LLMBacked
    <3>1. UNCHANGED <<bound, built>>
      BY <2>2 DEF RegisterAgent
    <3>. QED BY <1>1, <1>2, <2>2, <3>1 DEF BindingInv, ModelsInv
  <2>. QED BY <2>1, <2>2
<1>4. RunningInv'
  BY <1>1, <1>2 DEF BindingInv, RunningInv, Running
<1>5. OwnModelUnlessShared'
  BY <1>2 DEF BindingInv, OwnModelUnlessShared, Running
<1>. QED BY <1>1, <1>3, <1>4, <1>5 DEF BindingInv

LEMMA ElsewhereKeepsBinding ==
    ASSUME BindingInv, NEW a \in LLMBacked, RegisterElsewhere(a) \/ RunElsewhere(a)
    PROVE  BindingInv'
<1>1. UNCHANGED <<byTask, requests>>
  BY DEF RegisterElsewhere, RunElsewhere, assembly
<1>2. /\ \A b : Registered(b)' = Registered(b)
      /\ RunningInv'
  BY <1>1 DEF BindingInv, RunningInv, Running, Registered
<1>3. CASE RegisterElsewhere(a)
  <2>1. ObjectsInv'
    BY <1>1, <1>3 DEF BindingInv, ObjectsInv, RegisterElsewhere, BindLLM
  <2>2. /\ bound'[a] = "other" /\ built'[a] = None
        /\ \A b \in LLMBacked \ {a} : bound'[b] = bound[b] /\ built'[b] = built[b]
    BY <1>3 DEF BindingInv, ObjectsInv, RegisterElsewhere, BindLLM
  <2>3. /\ elsewhere'[a] = IF Registered(a) THEN "after" ELSE "before"
        /\ \A b \in LLMBacked \ {a} : elsewhere'[b] = elsewhere[b]
    BY <1>3 DEF BindingInv, ObjectsInv, RegisterElsewhere
  <2>4. ModelsInv'
    BY <1>2, <2>2, <2>3 DEF BindingInv, ModelsInv
  <2>5. OwnModelUnlessShared'
    BY <1>1, <2>3 DEF BindingInv, OwnModelUnlessShared, RunningInv, Running
  <2>. QED BY <1>2, <2>1, <2>4, <2>5 DEF BindingInv
<1>4. CASE RunElsewhere(a)
  <2>1. /\ UNCHANGED <<bound, elsewhere>> /\ DOMAIN built' = LLMBacked
        /\ \A b \in LLMBacked : built'[b] \in {None, bound[b]}
    BY <1>4 DEF BindingInv, ModelsInv, RunElsewhere, BuildFor, ModelOf
  <2>2. ObjectsInv' /\ ModelsInv'
    BY <1>1, <1>2, <2>1 DEF BindingInv, ObjectsInv, ModelsInv
  <2>3. OwnModelUnlessShared'
    BY <1>1, <2>1 DEF BindingInv, OwnModelUnlessShared, Running
  <2>. QED BY <1>2, <2>2, <2>3 DEF BindingInv
<1>. QED BY <1>3, <1>4

\* What Run makes of a request that gets to an agent, and of one that does not.
LEMMA RefusedLemma ==
    ASSUME NEW x, NEW o, x.phase = "agent"
    PROVE  /\ x # [phase |-> "no agent", options |-> o]
           /\ x # [phase |-> "stale", options |-> o]
<1>1. ASSUME x = [phase |-> "no agent", options |-> o] PROVE FALSE
  BY <1>1
<1>2. ASSUME x = [phase |-> "stale", options |-> o] PROVE FALSE
  BY <1>2
<1>. QED BY <1>1, <1>2

LEMMA LedgeredLemma ==
    ASSUME NEW x, NEW o, NEW a, NEW tools, NEW model, NEW vintage, NEW start,
           x = [phase |-> "agent", options |-> o, agent |-> a, tools |-> tools, model |-> model,
                vintage |-> vintage, start |-> start, proposed |-> {}]
    PROVE  x.agent = a /\ x.model = model
OBVIOUS

\* engine.run uses the model that is bound to the agent of the task.
LEMMA RunKeepsBinding ==
    ASSUME BindingInv, NEW q \in Requests, NEW t, Run(q, t),
           UNCHANGED <<byTask, bound, elsewhere>>
    PROVE  BindingInv'
<1>1. /\ DOMAIN built' = LLMBacked
      /\ \A b \in LLMBacked : built'[b] \in {None, bound[b]}
  <2>1. /\ DOMAIN built = LLMBacked
        /\ \A b \in LLMBacked : built[b] \in {None, bound[b]}
    BY DEF BindingInv, ObjectsInv, ModelsInv
  <2>2. built' = built \/ BuildFor(byTask[t].agent)
    BY Zenon DEF Run
  <2>3. CASE built' = built
    BY <2>1, <2>3
  <2>4. ASSUME NEW a, BuildFor(a)
        PROVE  /\ DOMAIN built' = LLMBacked
               /\ \A b \in LLMBacked : built'[b] \in {None, bound[b]}
    BY <2>1, <2>4 DEF BuildFor, ModelOf
  <2>. QED BY <2>2, <2>3, <2>4
<1>2. /\ DOMAIN requests' = Requests
      /\ \A p \in Requests \ {q} : requests'[p] = requests[p]
  BY DEF BindingInv, ObjectsInv, Run
<1>3. \A b : Registered(b)' = Registered(b)
  BY DEF Registered
<1>4. ObjectsInv' /\ ModelsInv'
  BY <1>1, <1>2, <1>3 DEF BindingInv, ObjectsInv, ModelsInv
<1>5. ASSUME requests'[q].phase = "agent"
      PROVE  /\ requests'[q].agent = byTask[t].agent /\ t \in DOMAIN byTask
             /\ byTask[t].agent \in LLMBacked => requests'[q].model = ModelOf(byTask[t].agent)
  <2>1. /\ requests'[q] # [phase |-> "no agent", options |-> requests[q].options]
        /\ requests'[q] # [phase |-> "stale", options |-> requests[q].options]
    BY <1>5, RefusedLemma
  <2>2. /\ t \in DOMAIN byTask
        /\ requests'[q] =
              [phase |-> "agent", options |-> requests[q].options, agent |-> byTask[t].agent,
               tools |-> byTask[t].tools,
               model |-> IF byTask[t].agent \in LLMBacked THEN ModelOf(byTask[t].agent) ELSE None,
               vintage |-> Vintage(byTask[t].tools), start |-> now, proposed |-> {}]
    BY <2>1 DEF BindingInv, ObjectsInv, Run
  <2>3. /\ requests'[q].agent = byTask[t].agent
        /\ requests'[q].model =
              IF byTask[t].agent \in LLMBacked THEN ModelOf(byTask[t].agent) ELSE None
    BY <2>2, LedgeredLemma
  <2>. QED BY <2>2, <2>3
<1>6. \A u \in DOMAIN byTask : Registered(byTask[u].agent)
  BY DEF BindingInv, ObjectsInv, Registered
<1>7. RunningInv'
  BY <1>2, <1>3, <1>5, <1>6 DEF BindingInv, RunningInv, Running
<1>8. OwnModelUnlessShared'
  <2> SUFFICES ASSUME NEW p \in Running', requests'[p].agent \in LLMBacked,
                      elsewhere[requests'[p].agent] # "after"
               PROVE  requests'[p].model = "own"
    BY DEF OwnModelUnlessShared
  <2>1. CASE p # q
    BY <1>2, <2>1 DEF BindingInv, OwnModelUnlessShared, Running
  <2>2. CASE p = q
    <3>1. requests'[q].model = ModelOf(requests'[q].agent) /\ Registered(requests'[q].agent)
      BY <1>5, <1>6, <2>2 DEF Running
    <3>. QED BY <2>2, <3>1 DEF BindingInv, ModelsInv, ModelOf
  <2>. QED BY <2>1, <2>2
<1>. QED BY <1>4, <1>7, <1>8 DEF BindingInv

LEMMA BindingStep ==
    ASSUME BindingInv, [Next]_vars
    PROVE  BindingInv'
<1>1. ASSUME NEW a \in Agents, RegisterAgent(a) PROVE BindingInv'
  BY <1>1, RegisterKeepsBinding
<1>2. ASSUME NEW a \in LLMBacked, RegisterElsewhere(a) \/ RunElsewhere(a) PROVE BindingInv'
  BY <1>2, ElsewhereKeepsBinding
<1>3. ASSUME NEW q \in Requests, RunTask(q) \/ Routed(q) PROVE BindingInv'
  <2>1. PICK t : Run(q, t)
    BY <1>3 DEF RunTask, Routed
  <2>2. UNCHANGED <<byTask, bound, elsewhere>>
    BY <1>3 DEF RunTask, Routed, assembly
  <2>. QED BY <2>1, <2>2, RunKeepsBinding
<1>4. ASSUME UNCHANGED <<byTask, binding>>, DOMAIN requests' = Requests,
             \A q \in Running' : /\ q \in Running
                                 /\ requests'[q].agent = requests[q].agent
                                 /\ requests'[q].model = requests[q].model
      PROVE  BindingInv'
  <2>1. ObjectsInv' /\ ModelsInv'
    BY <1>4 DEF BindingInv, ObjectsInv, ModelsInv, binding, Registered
  <2>2. RunningInv' /\ OwnModelUnlessShared'
    BY <1>4 DEF BindingInv, RunningInv, OwnModelUnlessShared, binding, Registered
  <2>. QED BY <2>1, <2>2 DEF BindingInv
<1>5. ASSUME NEW q \in Requests, RunAnalysis(q) PROVE BindingInv'
  <2>1. /\ UNCHANGED <<byTask, binding>> /\ DOMAIN requests' = Requests
        /\ requests'[q].phase = "routing"
        /\ \A p \in Requests \ {q} : requests'[p] = requests[p]
    BY <1>5 DEF BindingInv, ObjectsInv, RunAnalysis
  <2>. QED BY <1>4, <2>1 DEF Running
<1>6. ASSUME NEW q \in Requests, NEW role \in Roles, Propose(q, role) PROVE BindingInv'
  <2>1. /\ UNCHANGED <<byTask, binding>> /\ DOMAIN requests' = Requests
        /\ \A p \in Requests \ {q} : requests'[p] = requests[p]
        /\ requests[q].phase = "agent"
        /\ requests'[q].agent = requests[q].agent
        /\ requests'[q].model = requests[q].model
    BY <1>6 DEF BindingInv, ObjectsInv, Propose, assembly
  <2>. QED BY <1>4, <2>1 DEF Running
<1>7. CASE UNCHANGED <<byTask, binding, requests>>
  BY <1>4, <1>7 DEF Running, BindingInv, ObjectsInv
<1>. QED
  BY <1>1, <1>2, <1>3, <1>5, <1>6, <1>7
     DEF Next, vars, assembly, RegisterConnector, Read, Sync, Tick

\* An LLM agent runs with the model of the engine that runs it, whatever other engine the
\* agent object served before and in whatever order both use it; only a later registration
\* with another engine takes the model away.
THEOREM OwnModel == Spec => []OwnModelUnlessShared
<1>1. Init => BindingInv
  BY ModelsAssumption DEF Init, Nothing, Idle, BindingInv, ObjectsInv, ModelsInv, RunningInv,
     OwnModelUnlessShared, Running, Registered
<1>2. BindingInv /\ [Next]_vars => BindingInv'
  BY BindingStep
<1>3. BindingInv => OwnModelUnlessShared
  BY DEF BindingInv
<1>. QED BY <1>1, <1>2, <1>3, PTL DEF Spec
-----------------------------------------------------------------------------
(* Requests: what they were routed to, what they propose, and what they    *)
(* read.                                                                   *)

\* What a run has of what was registered, and how fresh that is.
RunInv(q) ==
    LET x == requests[q]
    IN  /\ x.start \in Nat
        /\ \A role \in DOMAIN x.tools :
              /\ role \in DOMAIN entries
              /\ x.tools[role].connector \in Connectors
              /\ x.tools[role].granted \subseteq entries[role].capabilities
              /\ x.vintage[role] \in Nat
              /\ KnowsItsAge(x.tools[role].connector) =>
                    x.vintage[role] <= DataOf(x.tools[role].connector)
              /\ config.freshness = "fail" => x.start - x.vintage[role] <= MaxStaleness
        /\ \A role \in x.proposed :
              role \in DOMAIN entries /\ "write" \in entries[role].capabilities

\* What was read came from the tool of a run, and not from before its vintage if the
\* connector knows the age of its data.
ReadInv(x) ==
    /\ x.request \in Running
    /\ x.role \in DOMAIN requests[x.request].tools
    /\ x.at \in Nat /\ x.synced \in Nat
    /\ ReadOfKnownAge(x) => requests[x.request].vintage[x.role] <= x.synced

TimeInv ==
    /\ now \in Nat /\ syncedAt \in [Connectors -> Nat]
    /\ \A c \in Connectors : syncedAt[c] <= now

RolesInv ==
    /\ \A role \in DOMAIN entries : entries[role].connector \in Connectors
    /\ ReadyToRun

RoutingInv ==
    /\ RouterIsCurrent
    /\ \A q \in Requests :
          /\ requests[q].phase \in {"idle", "no agent"} => requests[q].options = {}
          /\ requests[q].phase = "routing" => requests[q].options \subseteq DOMAIN byTask

RequestsInv ==
    /\ DOMAIN requests = Requests /\ DOMAIN bound = LLMBacked
    /\ TimeInv /\ RolesInv /\ RoutingInv
    /\ \A q \in Running : RunInv(q)
    /\ \A x \in reads : ReadInv(x)

\* A connector that knows the age of its data does not report it younger than it is.
LEMMA ReportedAge ==
    ASSUME TimeInv, NEW c \in Connectors
    PROVE  /\ LastSynced(c) \in Nat /\ DataOf(c) \in Nat
           /\ KnowsItsAge(c) => LastSynced(c) <= DataOf(c)
BY DEF TimeInv, LastSynced, DataOf, KnowsItsAge

\* The data of a connector is never older than it was.
LEMMA DataGrows ==
    ASSUME TimeInv, [Next]_vars
    PROVE  /\ TimeInv'
           /\ \A c \in Connectors : DataOf(c) \in Nat /\ DataOf(c) <= DataOf(c)'
<1>1. ASSUME NEW c \in Connectors, Sync(c)
      PROVE  TimeInv' /\ now' = now /\ \A d \in Connectors : syncedAt[d] <= syncedAt'[d]
  BY <1>1 DEF Sync, TimeInv
<1>2. ASSUME Tick
      PROVE  TimeInv' /\ now' = now + 1 /\ syncedAt' = syncedAt
  BY <1>2 DEF Tick, TimeInv
<1>3. ASSUME UNCHANGED time
      PROVE  TimeInv' /\ now' = now /\ syncedAt' = syncedAt
  BY <1>3 DEF time, TimeInv
<1>4. \/ UNCHANGED time
      \/ \E c \in Connectors : Sync(c)
      \/ Tick
  BY DEF Next, vars, RegisterConnector, RegisterAgent, RegisterElsewhere, RunElsewhere, RunTask,
         RunAnalysis, Routed, Read, Propose
<1>5. /\ TimeInv'
      /\ now <= now' /\ \A d \in Connectors : syncedAt[d] <= syncedAt'[d]
  BY <1>1, <1>2, <1>3, <1>4 DEF TimeInv
<1>. QED BY <1>5 DEF TimeInv, DataOf

\* Entries are added and never changed.
LEMMA EntriesGrow ==
    ASSUME RolesInv, DOMAIN bound = LLMBacked, [Next]_vars
    PROVE  /\ RolesInv' /\ config' = config
           /\ \A role \in DOMAIN entries : role \in DOMAIN entries' /\ entries'[role] = entries[role]
<1>1. ASSUME NEW role \in Roles, NEW c \in Connectors,
             NEW given \in (SUBSET Capabilities) \cup {None},
             RegisterConnector(role, c, given)
      PROVE  /\ config' = config
             /\ \A r \in DOMAIN entries : r \in DOMAIN entries' /\ entries'[r] = entries[r]
             /\ \A r \in DOMAIN entries' : entries'[r].connector \in Connectors
  BY <1>1 DEF RegisterConnector, Put, RolesInv
<1>2. CASE UNCHANGED <<config, entries>>
  BY <1>2, ReadyStep DEF RolesInv
<1>3. ASSUME NEW a \in Agents, RegisterAgent(a) PROVE UNCHANGED <<config, entries>>
  BY <1>3 DEF RegisterAgent
<1>. QED BY <1>1, <1>2, <1>3, AssemblyFrame, ReadyStep DEF RolesInv

\* A run that goes on keeps what it has, while entries are added and data is synced.
LEMMA RunGoesOn ==
    ASSUME RequestsInv, [Next]_vars, NEW q \in Running, requests'[q] = requests[q]
    PROVE  RunInv(q)'
<1>1. RunInv(q)
  BY DEF RequestsInv
<1>2. /\ config' = config
      /\ \A role \in DOMAIN entries : role \in DOMAIN entries' /\ entries'[role] = entries[role]
  BY EntriesGrow DEF RequestsInv
<1>3. \A c \in Connectors : /\ DataOf(c) \in Nat /\ DataOf(c) <= DataOf(c)'
                            /\ DataOf(c)' \in Nat
                            /\ KnowsItsAge(c)' <=> KnowsItsAge(c)
  BY <1>2, DataGrows DEF RequestsInv, TimeInv, DataOf, KnowsItsAge
<1>4. requests'[q] = requests[q]
  OBVIOUS
<1> DEFINE x == requests[q]
<1>5. ASSUME NEW role \in DOMAIN x.tools
      PROVE  /\ role \in DOMAIN entries'
             /\ x.tools[role].connector \in Connectors
             /\ x.tools[role].granted \subseteq entries'[role].capabilities
             /\ x.vintage[role] \in Nat
             /\ KnowsItsAge(x.tools[role].connector)' =>
                   x.vintage[role] <= DataOf(x.tools[role].connector)'
             /\ config'.freshness = "fail" => x.start - x.vintage[role] <= MaxStaleness
  <2>1. /\ role \in DOMAIN entries /\ x.tools[role].connector \in Connectors
        /\ x.tools[role].granted \subseteq entries[role].capabilities
        /\ x.vintage[role] \in Nat
        /\ KnowsItsAge(x.tools[role].connector) =>
              x.vintage[role] <= DataOf(x.tools[role].connector)
        /\ config.freshness = "fail" => x.start - x.vintage[role] <= MaxStaleness
    BY <1>1, <1>5 DEF RunInv
  <2>2. KnowsItsAge(x.tools[role].connector)' =>
            x.vintage[role] <= DataOf(x.tools[role].connector)'
    BY <1>3, <2>1
  <2>. QED BY <1>2, <2>1, <2>2
<1>6. \A role \in x.proposed : role \in DOMAIN entries' /\ "write" \in entries'[role].capabilities
  BY <1>1, <1>2 DEF RunInv
<1>7. x.start \in Nat
  BY <1>1 DEF RunInv
<1>. QED BY <1>4, <1>5, <1>6, <1>7 DEF RunInv, DataOf, KnowsItsAge

\* The fields of a run that has got to its agent.
LEMMA StartedLemma ==
    ASSUME NEW x, NEW o, NEW a, NEW tools, NEW model, NEW vintage, NEW start,
           x = [phase |-> "agent", options |-> o, agent |-> a, tools |-> tools, model |-> model,
                vintage |-> vintage, start |-> start, proposed |-> {}]
    PROVE  x.tools = tools /\ x.vintage = vintage /\ x.start = start /\ x.proposed = {}
OBVIOUS

\* engine.run hands the agent the tools in the registry, after the freshness gate.
LEMMA RunStarts ==
    ASSUME RequestsInv, NEW q \in Requests, NEW t, Run(q, t),
           UNCHANGED <<config, entries, time>>, requests'[q].phase = "agent"
    PROVE  RunInv(q)'
<1> DEFINE tools == byTask[t].tools
           x == requests'[q]
<1>1. /\ x # [phase |-> "no agent", options |-> requests[q].options]
      /\ x # [phase |-> "stale", options |-> requests[q].options]
  BY RefusedLemma
<1>2. /\ t \in DOMAIN byTask
      /\ ~ (config.freshness = "fail" /\ Stale(Vintage(tools)))
      /\ x = [phase |-> "agent", options |-> requests[q].options, agent |-> byTask[t].agent,
              tools |-> tools,
              model |-> IF byTask[t].agent \in LLMBacked THEN ModelOf(byTask[t].agent) ELSE None,
              vintage |-> Vintage(tools), start |-> now, proposed |-> {}]
  BY <1>1 DEF RequestsInv, Run
<1>3. x.tools = tools /\ x.vintage = Vintage(tools) /\ x.start = now /\ x.proposed = {}
  BY <1>2, StartedLemma
<1>4. ASSUME NEW role \in DOMAIN tools
      PROVE  /\ role \in DOMAIN entries
             /\ tools[role].connector \in Connectors
             /\ tools[role].granted \subseteq entries[role].capabilities
             /\ Vintage(tools)[role] \in Nat
             /\ KnowsItsAge(tools[role].connector) =>
                   Vintage(tools)[role] <= DataOf(tools[role].connector)
             /\ config.freshness = "fail" => now - Vintage(tools)[role] <= MaxStaleness
  <2>1. /\ role \in DOMAIN entries /\ tools[role].connector = entries[role].connector
        /\ tools[role].granted \subseteq entries[role].capabilities
    BY <1>2, <1>4 DEF RequestsInv, RolesInv, ReadyToRun
  <2>2. tools[role].connector \in Connectors
    BY <2>1 DEF RequestsInv, RolesInv
  <2>3. /\ LastSynced(tools[role].connector) \in Nat /\ now \in Nat
        /\ KnowsItsAge(tools[role].connector) =>
              LastSynced(tools[role].connector) <= DataOf(tools[role].connector)
    BY <2>2, ReportedAge DEF RequestsInv, TimeInv
  <2>4. Vintage(tools)[role] = LastSynced(tools[role].connector)
    BY <1>4 DEF Vintage
  <2>5. config.freshness = "fail" => ~ (now - Vintage(tools)[role] > MaxStaleness)
    BY <1>2, <1>4 DEF Stale, Vintage
  <2>. QED BY <2>1, <2>2, <2>3, <2>4, <2>5, TimeAssumption
<1>5. now \in Nat
  BY DEF RequestsInv, TimeInv
<1>6. UNCHANGED <<config, entries, now, syncedAt>>
  BY DEF time
<1>. QED BY <1>3, <1>4, <1>5, <1>6 DEF RunInv, DataOf, KnowsItsAge

\* A request that has started to run keeps its tools and its vintage.
LEMMA RunsKeepTheirs ==
    ASSUME RequestsInv, [Next]_vars
    PROVE  /\ DOMAIN requests' = Requests
           /\ \A q \in Running : /\ q \in Running'
                                 /\ requests'[q].tools = requests[q].tools
                                 /\ requests'[q].vintage = requests[q].vintage
                                 /\ requests'[q].start = requests[q].start
<1>1. ASSUME NEW q \in Requests, RunTask(q) \/ Routed(q) \/ RunAnalysis(q)
      PROVE  /\ DOMAIN requests' = Requests /\ q \notin Running
             /\ \A p \in Requests \ {q} : requests'[p] = requests[p]
  BY <1>1 DEF RequestsInv, RunTask, Routed, RunAnalysis, Run, Running
<1>2. ASSUME NEW q \in Requests, NEW role \in Roles, Propose(q, role)
      PROVE  /\ DOMAIN requests' = Requests
             /\ \A p \in Requests \ {q} : requests'[p] = requests[p]
             /\ requests'[q].phase = requests[q].phase
             /\ requests'[q].tools = requests[q].tools
             /\ requests'[q].vintage = requests[q].vintage
             /\ requests'[q].start = requests[q].start
  BY <1>2 DEF RequestsInv, Propose
<1>3. CASE UNCHANGED requests
  BY <1>3 DEF RequestsInv, Running
<1>4. \/ UNCHANGED requests
      \/ \E q \in Requests : RunTask(q) \/ Routed(q) \/ RunAnalysis(q)
      \/ \E q \in Requests, role \in Roles : Propose(q, role)
  BY DEF Next, vars, RegisterConnector, RegisterAgent, RegisterElsewhere, RunElsewhere, Read,
         Sync, Tick
<1>. QED BY <1>1, <1>2, <1>3, <1>4 DEF Running

LEMMA RunInvStep ==
    ASSUME RequestsInv, [Next]_vars, NEW q \in Running'
    PROVE  RunInv(q)'
<1>1. CASE q \in Running /\ requests'[q] = requests[q]
  BY <1>1, RunGoesOn
<1>2. ASSUME NEW p \in Requests, RunTask(p) \/ Routed(p) PROVE RunInv(q)'
  <2>1. PICK t : Run(p, t)
    BY <1>2 DEF RunTask, Routed
  <2>2. UNCHANGED <<config, entries, time>>
    BY <1>2 DEF RunTask, Routed, assembly
  <2>3. CASE q = p
    BY <2>1, <2>2, <2>3, RunStarts DEF Running
  <2>4. CASE q # p
    BY <1>1, <2>1, <2>4 DEF Run, RequestsInv, Running
  <2>. QED BY <2>3, <2>4
<1>3. ASSUME NEW p \in Requests, RunAnalysis(p) PROVE RunInv(q)'
  <2>1. p # q
    BY <1>3 DEF RunAnalysis, RequestsInv, Running
  <2>. QED BY <1>1, <1>3, <2>1 DEF RunAnalysis, RequestsInv, Running
<1>4. ASSUME NEW p \in Requests, NEW role \in Roles, Propose(p, role) PROVE RunInv(q)'
  <2>1. CASE q # p
    BY <1>1, <1>4, <2>1 DEF Propose, RequestsInv, Running
  <2>2. CASE q = p
    <3>1. /\ q \in Running /\ role \in DOMAIN requests[q].tools
          /\ "write" \in requests[q].tools[role].granted
      BY <1>4, <2>2 DEF Propose, Running
    <3>2. /\ requests'[q].tools = requests[q].tools
          /\ requests'[q].vintage = requests[q].vintage
          /\ requests'[q].start = requests[q].start
          /\ requests'[q].proposed = requests[q].proposed \cup {role}
      BY <1>4, <2>2 DEF Propose, RequestsInv
    <3>3. UNCHANGED <<config, entries, now, syncedAt>>
      BY <1>4 DEF Propose, assembly, time
    <3>4. RunInv(q)
      BY <3>1 DEF RequestsInv
    <3>. QED BY <3>1, <3>2, <3>3, <3>4 DEF RunInv, DataOf, KnowsItsAge
  <2>. QED BY <2>1, <2>2
<1>5. CASE UNCHANGED requests
  BY <1>1, <1>5 DEF Running
<1>6. \/ UNCHANGED requests
      \/ \E p \in Requests : RunTask(p) \/ Routed(p) \/ RunAnalysis(p)
      \/ \E p \in Requests, role \in Roles : Propose(p, role)
  BY DEF Next, vars, RegisterConnector, RegisterAgent, RegisterElsewhere, RunElsewhere, Read,
         Sync, Tick
<1>. QED BY <1>2, <1>3, <1>4, <1>5, <1>6

LEMMA ReadsStep ==
    ASSUME RequestsInv, [Next]_vars, NEW x \in reads'
    PROVE  ReadInv(x)'
<1>1. ASSUME ReadInv(x) PROVE ReadInv(x)'
  <2>1. config' = config
    BY EntriesGrow DEF RequestsInv
  <2>. QED BY <1>1, <2>1, RunsKeepTheirs DEF ReadInv, ReadOfKnownAge, KnowsItsAge
<1>2. CASE x \in reads
  BY <1>1, <1>2 DEF RequestsInv
<1>3. ASSUME NEW q \in Requests, NEW role \in Roles, Read(q, role), x \notin reads
      PROVE  ReadInv(x)
  <2>1. /\ q \in Running /\ role \in DOMAIN requests[q].tools
        /\ x = [request |-> q, role |-> role, at |-> now,
                synced |-> DataOf(requests[q].tools[role].connector)]
    BY <1>3 DEF Read, Running
  <2>2. /\ requests[q].tools[role].connector \in Connectors
        /\ KnowsItsAge(requests[q].tools[role].connector) =>
              requests[q].vintage[role] <= DataOf(requests[q].tools[role].connector)
    BY <2>1 DEF RequestsInv, RunInv
  <2>3. DataOf(requests[q].tools[role].connector) \in Nat /\ now \in Nat
    BY <2>2, ReportedAge DEF RequestsInv, TimeInv
  <2>. QED BY <2>1, <2>2, <2>3 DEF ReadInv, ReadOfKnownAge
<1>4. x \in reads \/ \E q \in Requests, role \in Roles : Read(q, role)
  BY DEF Next, vars, RegisterConnector, RegisterAgent, RegisterElsewhere, RunElsewhere, RunTask,
         RunAnalysis, Routed, Propose, Sync, Tick
<1>. QED BY <1>1, <1>2, <1>3, <1>4
\* The fields of a request that finds no agent, or only stale data.
LEMMA EndedLemma ==
    ASSUME NEW x, NEW o, NEW p \in {"no agent", "stale"}, x = [phase |-> p, options |-> o]
    PROVE  x.phase = p /\ x.options = o
OBVIOUS

\* Task types that the model may choose have an agent, and no agent is ever taken away.
LEMMA RoutingStep ==
    ASSUME RequestsInv, [Next]_vars
    PROVE  RoutingInv' /\ RoutedFindsAgent'
<1>1. RouterIsCurrent'
  BY RouterStep DEF RequestsInv, RoutingInv
<1>2. DOMAIN byTask \subseteq DOMAIN byTask'
  <2>1. ASSUME NEW a \in Agents, RegisterAgent(a) PROVE DOMAIN byTask \subseteq DOMAIN byTask'
    BY <2>1 DEF RegisterAgent, Put
  <2>2. ASSUME NEW role \in Roles, NEW c \in Connectors,
               NEW given \in (SUBSET Capabilities) \cup {None},
               RegisterConnector(role, c, given)
        PROVE  byTask' = byTask
    BY <2>2 DEF RegisterConnector
  <2>. QED BY <2>1, <2>2, AssemblyFrame
<1> DEFINE Fine(r, o) == /\ r.phase \in {"idle", "no agent"} => r.options = {}
                         /\ r.phase = "routing" => r.options \subseteq o
<1>3. ASSUME NEW q \in Requests, requests'[q] = requests[q]
      PROVE  Fine(requests'[q], DOMAIN byTask')
  BY <1>2, <1>3 DEF RequestsInv, RoutingInv
<1>4. ASSUME NEW p \in Requests, NEW t, Run(p, t),
             t \in DOMAIN byTask \/ requests[p].options = {}
      PROVE  \A q \in Requests : Fine(requests'[q], DOMAIN byTask')
  <2>1. \A q \in Requests \ {p} : requests'[q] = requests[q]
    BY <1>4 DEF Run, RequestsInv
  <2>2. \/ /\ requests'[p] = [phase |-> "no agent", options |-> requests[p].options]
           /\ t \notin DOMAIN byTask
        \/ requests'[p].phase \in {"stale", "agent"}
    <3> DEFINE began == [phase |-> "agent", options |-> requests[p].options,
                         agent |-> byTask[t].agent, tools |-> byTask[t].tools,
                         model |-> IF byTask[t].agent \in LLMBacked
                                   THEN ModelOf(byTask[t].agent) ELSE None,
                         vintage |-> Vintage(byTask[t].tools), start |-> now, proposed |-> {}]
    <3>1. \/ /\ t \notin DOMAIN byTask
             /\ requests'[p] = [phase |-> "no agent", options |-> requests[p].options]
          \/ requests'[p] = [phase |-> "stale", options |-> requests[p].options]
          \/ requests'[p] = began
      BY <1>4 DEF Run, RequestsInv
    <3>2. began.phase = "agent"
      OBVIOUS
    <3>3. requests'[p] = [phase |-> "stale", options |-> requests[p].options] =>
              requests'[p].phase = "stale"
      BY EndedLemma
    <3> HIDE DEF began
    <3>. QED BY <3>1, <3>2, <3>3
  <2>3. CASE requests'[p].phase \in {"stale", "agent"}
    <3>1. Fine(requests'[p], DOMAIN byTask')
      BY <2>3
    <3>. QED BY <1>3, <2>1, <3>1
  <2>4. CASE requests'[p] = [phase |-> "no agent", options |-> requests[p].options]
             /\ t \notin DOMAIN byTask
    <3>1. requests[p].options = {}
      BY <1>4, <2>4
    <3>2. requests'[p].phase = "no agent" /\ requests'[p].options = requests[p].options
      BY <2>4, EndedLemma
    <3>3. Fine(requests'[p], DOMAIN byTask')
      BY <3>1, <3>2
    <3>. QED BY <1>3, <2>1, <3>3
  <2>. QED BY <2>2, <2>3, <2>4
<1>5. ASSUME NEW p \in Requests, RunTask(p)
      PROVE  \A q \in Requests : Fine(requests'[q], DOMAIN byTask')
  <2>1. PICK t : Run(p, t)
    BY <1>5 DEF RunTask
  <2>2. requests[p].options = {}
    BY <1>5 DEF RunTask, RequestsInv, RoutingInv
  <2>. QED BY <1>4, <2>1, <2>2
<1>6. ASSUME NEW p \in Requests, Routed(p)
      PROVE  \A q \in Requests : Fine(requests'[q], DOMAIN byTask')
  <2>1. PICK t \in requests[p].options : Run(p, t)
    BY <1>6 DEF Routed
  <2>2. t \in DOMAIN byTask
    BY <1>6, <2>1 DEF Routed, RequestsInv, RoutingInv
  <2>. QED BY <1>4, <2>1, <2>2
<1>7. ASSUME NEW p \in Requests, RunAnalysis(p)
      PROVE  \A q \in Requests : Fine(requests'[q], DOMAIN byTask')
  <2>1. RouterFor = DOMAIN byTask
    BY DEF RouterFor, RequestsInv, RoutingInv, RouterIsCurrent
  <2>2. /\ requests'[p] = [phase |-> "routing", options |-> DOMAIN byTask]
        /\ \A q \in Requests \ {p} : requests'[q] = requests[q]
    BY <1>7, <2>1 DEF RunAnalysis, RequestsInv
  <2>3. requests'[p].phase = "routing" /\ requests'[p].options = DOMAIN byTask
    BY <2>2
  <2>4. Fine(requests'[p], DOMAIN byTask')
    BY <1>2, <2>3
  <2>. QED BY <1>3, <2>2, <2>4
<1>8. ASSUME NEW p \in Requests, NEW role \in Roles, Propose(p, role)
      PROVE  \A q \in Requests : Fine(requests'[q], DOMAIN byTask')
  <2>1. /\ requests'[p].phase = "agent"
        /\ \A q \in Requests \ {p} : requests'[q] = requests[q]
    BY <1>8 DEF Propose, RequestsInv
  <2>. QED BY <1>3, <2>1
<1>9. ASSUME UNCHANGED requests
      PROVE  \A q \in Requests : Fine(requests'[q], DOMAIN byTask')
  BY <1>3, <1>9
<1>10. \/ UNCHANGED requests
       \/ \E p \in Requests : RunTask(p) \/ Routed(p) \/ RunAnalysis(p)
       \/ \E p \in Requests, role \in Roles : Propose(p, role)
  BY DEF Next, vars, RegisterConnector, RegisterAgent, RegisterElsewhere, RunElsewhere, Read,
         Sync, Tick
<1>11. \A q \in Requests : Fine(requests'[q], DOMAIN byTask')
  BY <1>3, <1>5, <1>6, <1>7, <1>8, <1>9, <1>10
<1>. QED BY <1>1, <1>11 DEF RoutingInv, RoutedFindsAgent

LEMMA RequestsInvariant == Spec => []RequestsInv
<1>1. Init => RequestsInv
  <2> SUFFICES ASSUME Init PROVE RequestsInv
    OBVIOUS
  <2>1. DOMAIN requests = Requests /\ DOMAIN bound = LLMBacked /\ Running = {} /\ reads = {}
    BY DEF Init, Idle, Running
  <2>2. TimeInv
    BY DEF Init, TimeInv
  <2>3. RolesInv
    BY DEF Init, Nothing, RolesInv, ReadyToRun
  <2>4. RoutingInv
    BY DEF Init, Idle, RoutingInv, RouterIsCurrent
  <2>. QED BY <2>1, <2>2, <2>3, <2>4 DEF RequestsInv
<1>2. RequestsInv /\ [Next]_vars => RequestsInv'
  <2> SUFFICES ASSUME RequestsInv, [Next]_vars PROVE RequestsInv'
    OBVIOUS
  <2>1. DOMAIN requests' = Requests /\ DOMAIN bound' = LLMBacked
    BY RunsKeepTheirs, BoundStep DEF RequestsInv
  <2>2. TimeInv' /\ RolesInv' /\ RoutingInv'
    BY DataGrows, EntriesGrow, RoutingStep DEF RequestsInv
  <2>3. \A q \in Running' : RunInv(q)'
    BY RunInvStep
  <2>4. \A x \in reads' : ReadInv(x)'
    BY ReadsStep
  <2>. QED BY <2>1, <2>2, <2>3, <2>4 DEF RequestsInv
<1>. QED BY <1>1, <1>2, PTL DEF Spec

\* run_analysis never ends in "no agent for the task": the router offers what is registered,
\* and nothing is unregistered while the model chooses.
THEOREM RoutedRequestsFindAgents == Spec => []RoutedFindsAgent
<1>1. RequestsInv => RoutedFindsAgent
  BY DEF RequestsInv, RoutingInv, RoutedFindsAgent
<1>. QED BY <1>1, RequestsInvariant, PTL

\* propose_write accepts only roles whose registered capabilities let _apply_intent write.
THEOREM ProposalsAreGranted == Spec => []ProposedIsGranted
<1>1. RequestsInv => ProposedIsGranted
  BY DEF RequestsInv, RunInv, ProposedIsGranted
<1>. QED BY <1>1, RequestsInvariant, PTL

\* No data that an agent reads is older than the vintage its report states, if its connector
\* is live or was given a sync_resolver.
THEOREM VintageHolds == Spec => []VintageIsHonest
<1>1. RequestsInv => VintageIsHonest
  <2> SUFFICES ASSUME RequestsInv, NEW x \in reads, ReadOfKnownAge(x)
               PROVE  x.synced >= requests[x.request].vintage[x.role]
    BY DEF VintageIsHonest
  <2>1. ReadInv(x) /\ x.request \in Running
    BY DEF RequestsInv, ReadInv
  <2>2. RunInv(x.request)
    BY <2>1 DEF RequestsInv
  <2>. QED BY <2>1, <2>2 DEF ReadInv, RunInv
<1>. QED BY <1>1, RequestsInvariant, PTL

\* A freshness policy that fails runs keeps data from agents that is staler than it allows,
\* up to the time that the run itself takes, if the connector knows the age of its data.
THEOREM FreshnessHolds == Spec => []ReadsAreFresh
<1>1. RequestsInv => ReadsAreFresh
  <2> SUFFICES ASSUME RequestsInv, config.freshness = "fail", NEW x \in reads,
                      ReadOfKnownAge(x)
               PROVE  x.at - x.synced <= MaxStaleness + (x.at - requests[x.request].start)
    BY DEF ReadsAreFresh
  <2>1. /\ x.request \in Running /\ x.role \in DOMAIN requests[x.request].tools
        /\ x.at \in Nat /\ x.synced \in Nat
        /\ requests[x.request].vintage[x.role] <= x.synced
    BY DEF RequestsInv, ReadInv
  <2>2. /\ requests[x.request].start \in Nat /\ requests[x.request].vintage[x.role] \in Nat
        /\ requests[x.request].start - requests[x.request].vintage[x.role] <= MaxStaleness
    BY <2>1 DEF RequestsInv, RunInv
  <2>. QED BY <2>1, <2>2, TimeAssumption
<1>. QED BY <1>1, RequestsInvariant, PTL
-----------------------------------------------------------------------------
(* Type correctness, in parts: the assembly, the models, the clock and the *)
(* requests.                                                               *)

AssemblyType ==
    /\ DOMAIN entries \subseteq Roles
    /\ \A role \in DOMAIN entries :
          /\ entries[role].connector \in Connectors
          /\ entries[role].capabilities # None
          /\ entries[role].capabilities \subseteq Declared[entries[role].connector]
    /\ DOMAIN byName \subseteq Names /\ DOMAIN byTask \subseteq TaskTypes
    /\ router \in (SUBSET TaskTypes) \cup {None}

Engines == {"own", "other", None}

ModelsType == bound \in [LLMBacked -> Engines] /\ built \in [LLMBacked -> Engines]

TimeType == now \in 0..MaxTime /\ syncedAt \in [Connectors -> 0..MaxTime]

RequestPhases == {"idle", "routing", "no agent", "stale", "agent"}

RequestsType ==
    /\ DOMAIN requests = Requests
    /\ \A q \in Requests : requests[q].phase \in RequestPhases

\* A registered connector has capabilities that it declares: those given, or all of them.
LEMMA RegisterConnectorType ==
    ASSUME AssemblyType, NEW role \in Roles, NEW c \in Connectors,
           NEW given \in (SUBSET Capabilities) \cup {None}, RegisterConnector(role, c, given)
    PROVE  AssemblyType'
<1> DEFINE new == [connector |-> c, capabilities |-> Effective(c, given)]
<1>1. /\ Effective(c, given) # None /\ Effective(c, given) \subseteq Declared[c]
  BY ConnectorsAssumption DEF RegisterConnector, Effective
<1>2. new.connector = c /\ new.capabilities = Effective(c, given)
  OBVIOUS
<1>. HIDE DEF new
<1>3. entries' = Put(entries, role, new) /\ UNCHANGED <<byName, byTask, router>>
  BY DEF RegisterConnector, new
<1>4. /\ DOMAIN entries' = DOMAIN entries \cup {role} /\ entries'[role] = new
      /\ \A r \in DOMAIN entries : r # role => entries'[r] = entries[r]
  BY <1>3 DEF Put
<1>. QED BY <1>1, <1>2, <1>3, <1>4 DEF AssemblyType

LEMMA AssemblyTypeStep == AssemblyType /\ [Next]_vars => AssemblyType'
<1> SUFFICES ASSUME AssemblyType, [Next]_vars PROVE AssemblyType'
  OBVIOUS
<1>1. ASSUME NEW a \in Agents, RegisterAgent(a) PROVE AssemblyType'
  <2>1. /\ DOMAIN byName' = DOMAIN byName \cup {NameOf[a]}
        /\ DOMAIN byTask' = DOMAIN byTask \cup {TaskOf[a]}
        /\ router' = None /\ entries' = entries
    BY <1>1 DEF RegisterAgent, Put
  <2>2. NameOf[a] \in Names /\ TaskOf[a] \in TaskTypes
    BY DEF Names, TaskTypes
  <2>. QED BY <2>1, <2>2 DEF AssemblyType
<1>2. ASSUME NEW q \in Requests, RunAnalysis(q) PROVE AssemblyType'
  BY <1>2 DEF RunAnalysis, RouterFor, AssemblyType
<1>3. CASE UNCHANGED assembly
  BY <1>3 DEF AssemblyType, assembly
<1>4. \/ UNCHANGED assembly
      \/ \E role \in Roles, c \in Connectors, given \in (SUBSET Capabilities) \cup {None} :
            RegisterConnector(role, c, given)
      \/ \E a \in Agents : RegisterAgent(a)
      \/ \E q \in Requests : RunAnalysis(q)
  BY DEF Next, vars, RegisterElsewhere, RunElsewhere, RunTask, Routed, Read, Propose, Sync, Tick
<1>. QED BY <1>1, <1>2, <1>3, <1>4, RegisterConnectorType

LEMMA ModelsTypeStep == ModelsType /\ [Next]_vars => ModelsType'
<1> SUFFICES ASSUME ModelsType, [Next]_vars PROVE ModelsType'
  OBVIOUS
<1>1. ASSUME NEW a \in LLMBacked, NEW engine \in Engines, BindLLM(a, engine) PROVE ModelsType'
  BY <1>1 DEF BindLLM, ModelsType, Engines
<1>2. ASSUME NEW a, BuildFor(a), UNCHANGED bound PROVE ModelsType'
  <2>1. \A x \in LLMBacked : x = a => ModelOf(a) \in Engines
    BY DEF ModelOf, ModelsType
  <2>. QED BY <1>2, <2>1 DEF BuildFor, ModelsType
<1>3. CASE UNCHANGED <<bound, built>>
  BY <1>3 DEF ModelsType
<1>4. ASSUME NEW q, NEW t, Run(q, t), UNCHANGED bound PROVE ModelsType'
  <2>1. UNCHANGED built \/ BuildFor(byTask[t].agent)
    BY <1>4 DEF Run
  <2>. QED BY <1>2, <1>3, <1>4, <2>1
<1>5. ASSUME NEW a \in Agents, RegisterAgent(a) PROVE ModelsType'
  BY <1>1, <1>3, <1>5 DEF RegisterAgent, Engines
<1>6. ASSUME NEW a \in LLMBacked, RegisterElsewhere(a) \/ RunElsewhere(a) PROVE ModelsType'
  BY <1>1, <1>2, <1>6 DEF RegisterElsewhere, RunElsewhere, Engines
<1>7. ASSUME NEW q \in Requests, RunTask(q) \/ Routed(q) PROVE ModelsType'
  BY <1>4, <1>7 DEF RunTask, Routed
<1>8. \/ UNCHANGED <<bound, built>>
      \/ \E a \in Agents : RegisterAgent(a)
      \/ \E a \in LLMBacked : RegisterElsewhere(a) \/ RunElsewhere(a)
      \/ \E q \in Requests : RunTask(q) \/ Routed(q)
  BY DEF Next, vars, RegisterConnector, RunAnalysis, Read, Propose, Sync, Tick, binding
<1>. QED BY <1>3, <1>5, <1>6, <1>7, <1>8

LEMMA TimeTypeStep == TimeType /\ [Next]_vars => TimeType'
<1> SUFFICES ASSUME TimeType, [Next]_vars PROVE TimeType'
  OBVIOUS
<1>1. ASSUME NEW c \in Connectors, Sync(c) PROVE TimeType'
  BY <1>1 DEF Sync, TimeType
<1>2. ASSUME Tick PROVE TimeType'
  BY <1>2, TimeAssumption DEF Tick, TimeType
<1>3. ASSUME UNCHANGED time PROVE TimeType'
  BY <1>3 DEF time, TimeType
<1>4. UNCHANGED time \/ (\E c \in Connectors : Sync(c)) \/ Tick
  BY DEF Next, vars, RegisterConnector, RegisterAgent, RegisterElsewhere, RunElsewhere, RunTask,
         RunAnalysis, Routed, Read, Propose
<1>. QED BY <1>1, <1>2, <1>3, <1>4

LEMMA RequestsTypeStep == RequestsType /\ [Next]_vars => RequestsType'
<1> SUFFICES ASSUME RequestsType, [Next]_vars PROVE RequestsType'
  OBVIOUS
<1>1. ASSUME NEW q \in Requests, NEW x, requests' = [requests EXCEPT ![q] = x],
             x.phase \in RequestPhases
      PROVE  RequestsType'
  BY <1>1 DEF RequestsType
<1>2. ASSUME NEW q \in Requests, NEW t, Run(q, t) PROVE RequestsType'
  <2> DEFINE refused == [phase |-> "no agent", options |-> requests[q].options]
             stale == [phase |-> "stale", options |-> requests[q].options]
             began == [phase |-> "agent", options |-> requests[q].options,
                       agent |-> byTask[t].agent, tools |-> byTask[t].tools,
                       model |-> IF byTask[t].agent \in LLMBacked
                                 THEN ModelOf(byTask[t].agent) ELSE None,
                       vintage |-> Vintage(byTask[t].tools), start |-> now, proposed |-> {}]
  <2>1. refused.phase = "no agent" /\ stale.phase = "stale" /\ began.phase = "agent"
    OBVIOUS
  <2>2. \/ requests' = [requests EXCEPT ![q] = refused]
        \/ requests' = [requests EXCEPT ![q] = stale]
        \/ requests' = [requests EXCEPT ![q] = began]
    BY <1>2 DEF Run
  <2>. HIDE DEF refused, stale, began
  <2>. QED BY <1>1, <2>1, <2>2 DEF RequestPhases
<1>3. ASSUME NEW q \in Requests, RunAnalysis(q) PROVE RequestsType'
  <2>1. requests' = [requests EXCEPT ![q] = [phase |-> "routing", options |-> RouterFor]]
    BY <1>3 DEF RunAnalysis
  <2>2. [phase |-> "routing", options |-> RouterFor].phase = "routing"
    OBVIOUS
  <2>. QED BY <1>1, <2>1, <2>2 DEF RequestPhases
<1>4. ASSUME NEW q \in Requests, NEW role \in Roles, Propose(q, role) PROVE RequestsType'
  BY <1>4 DEF Propose, RequestsType
<1>5. CASE UNCHANGED requests
  BY <1>5 DEF RequestsType
<1>6. ASSUME NEW q \in Requests, RunTask(q) \/ Routed(q) PROVE RequestsType'
  BY <1>2, <1>6 DEF RunTask, Routed
<1>7. \/ UNCHANGED requests
      \/ \E q \in Requests : RunTask(q) \/ Routed(q) \/ RunAnalysis(q)
      \/ \E q \in Requests, role \in Roles : Propose(q, role)
  BY DEF Next, vars, RegisterConnector, RegisterAgent, RegisterElsewhere, RunElsewhere, Read,
         Sync, Tick
<1>. QED BY <1>3, <1>4, <1>5, <1>6, <1>7

\* The state of an engine keeps its shape; in particular no role has a capability that its
\* connector does not declare.
THEOREM AssemblyTypeCorrect == Spec => []TypeOK
<1>1. Init => AssemblyType /\ ModelsType /\ TimeType /\ RequestsType
  <2> SUFFICES ASSUME Init PROVE AssemblyType /\ ModelsType /\ TimeType /\ RequestsType
    OBVIOUS
  <2>1. AssemblyType
    <3>1. DOMAIN Nothing = {}
      BY DEF Nothing
    <3>2. entries = Nothing /\ byName = Nothing /\ byTask = Nothing /\ router = None
      BY DEF Init
    <3>. QED BY <3>1, <3>2 DEF AssemblyType
  <2>2. ModelsType /\ TimeType
    BY TimeAssumption DEF Init, ModelsType, Engines, TimeType
  <2>3. RequestsType
    BY DEF Init, Idle, RequestsType, RequestPhases
  <2>. QED BY <2>1, <2>2, <2>3
<1>2. AssemblyType /\ ModelsType /\ TimeType /\ RequestsType => TypeOK
  BY DEF TypeOK, AssemblyType, ModelsType, TimeType, RequestsType, Engines, RequestPhases
<1>. QED
  BY <1>1, <1>2, AssemblyTypeStep, ModelsTypeStep, TimeTypeStep, RequestsTypeStep, PTL DEF Spec
=============================================================================
