------------------------ MODULE AgentLifecycleProofs ------------------------
(***************************************************************************)
(* What holds of the agents of one instance for any number of requests,    *)
(* threads, skills and agents: the types; without deletes, or with deletes *)
(* and one edit at a time, that a skill of it runs once at a time; and, as *)
(* long as its edits come one at a time, that no scheduler is orphaned, an *)
(* enabled instance is scheduled for, and switching it off reaches what    *)
(* runs.                                                                   *)
(***************************************************************************)
EXTENDS AgentLifecycle, TLAPS

-----------------------------------------------------------------------------
(* The inductive invariant of the types *)

\* Agents made so far; whatever is referenced was made.
Made == 1..agents

RowFacts == row \in {"enabled", "disabled", "deleted"}

OrchestratorFacts ==
    /\ registered \in Made \cup {0}
    /\ adhoc \subseteq AgentId
    /\ runtime \in RuntimeId \cup {0}
    /\ runtimes \in 0..agents

AgentFacts ==
    /\ agent \in [AgentId -> Agent]
    /\ agents \in 0..MaxAgents
    /\ \A a \in AgentId : a \notin Made => agent[a].scheduler = "made"
    /\ \A a \in Made : agent[a].runtime \in RuntimeId

RunFacts ==
    /\ locked \subseteq RuntimeId \X Skills
    /\ jobs \subseteq Made \X Skills
    /\ run \in [Run -> {"none", "gated", "searching"}]
    /\ \A a \in AgentId, s \in Skills : run[<<a, s>>] # "none" => a \in Made
    /\ dispatched \in 0..MaxJobs

HasAgent == {"register", "displace", "launch", "enlist", "fire"}

RequestFacts ==
    /\ request \in [Clients -> Request]
    /\ \A c \in Clients : /\ request[c].mine \in Made \cup {0}
                          /\ request[c].pc \in HasAgent => request[c].mine # 0
    /\ requests \in 0..MaxRequests

TypeInv == RowFacts /\ OrchestratorFacts /\ AgentFacts /\ RunFacts /\ RequestFacts

\* The invariant is the type invariant and more.
LEMMA TypeInvTypes == TypeInv => TypeOK
<1> SUFFICES ASSUME TypeInv PROVE TypeOK
  OBVIOUS
<1>1. agents \in 0..MaxAgents /\ Made \subseteq AgentId
  BY BoundsAssumption DEF TypeInv, AgentFacts, Made, AgentId
<1>2. registered \in AgentId \cup {0} /\ runtimes \in 0..MaxAgents
  BY <1>1, BoundsAssumption DEF TypeInv, OrchestratorFacts
<1>3. jobs \subseteq Run
  BY <1>1 DEF TypeInv, RunFacts, Run
<1> QED
  BY <1>1, <1>2, <1>3 DEF TypeInv, TypeOK, RowFacts, OrchestratorFacts, AgentFacts, RunFacts, RequestFacts

-----------------------------------------------------------------------------
(* Records *)

\* What a step does to the record of a request keeps it well typed.
LEMMA RequestMoves ==
    ASSUME NEW t \in Request
    PROVE  /\ \A pc \in RequestPc : [t EXCEPT !.pc = pc] \in Request
           /\ \A kind \in RequestKinds, pc \in RequestPc : [t EXCEPT !.kind = kind, !.pc = pc] \in Request
           /\ \A old \in AgentId \cup {0}, pc \in RequestPc : [t EXCEPT !.old = old, !.pc = pc] \in Request
           /\ \A mine \in AgentId \cup {0}, pc \in RequestPc : [t EXCEPT !.mine = mine, !.pc = pc] \in Request
           /\ \A old \in AgentId \cup {0}, pc \in RequestPc, thrown \in SUBSET AgentId :
                [t EXCEPT !.pc = pc, !.old = old, !.thrown = thrown] \in Request
  BY DEF Request

\* The idle record, and a request that begins (Begin).
LEMMA RequestBegins ==
    /\ NoRequest \in Request
    /\ \A kind \in RequestKinds, pc \in RequestPc : [NoRequest EXCEPT !.kind = kind, !.pc = pc] \in Request
<1>1. NoRequest \in Request
  BY DEF Request, NoRequest, RequestKinds, RequestPc
<1>2. \A t \in Request, kind \in RequestKinds, pc \in RequestPc : [t EXCEPT !.kind = kind, !.pc = pc] \in Request
  BY RequestMoves
<1> QED
  BY <1>1, <1>2

\* What a step does to the record of an agent keeps it well typed, and its
\* runtime what it was.
LEMMA AgentMoves ==
    ASSUME NEW t \in Agent
    PROVE  /\ \A scheduler \in Scheduler : [t EXCEPT !.scheduler = scheduler] \in Agent
           /\ \A abort \in BOOLEAN, scheduler \in Scheduler :
                [t EXCEPT !.stop = TRUE, !.abort = abort, !.scheduler = scheduler] \in Agent
           /\ [t EXCEPT !.abort = TRUE] \in Agent
           /\ [t EXCEPT !.stop = FALSE, !.abort = FALSE, !.scheduler = "starting"] \in Agent
  BY DEF Agent, Scheduler

\* A stopped agent (BaseAgent.stop).
LEMMA StoppedAgent ==
    ASSUME agent \in [AgentId -> Agent], NEW a \in AgentId, NEW abort \in BOOLEAN
    PROVE  /\ Stopped(a, abort) \in Agent
           /\ Stopped(a, abort).runtime = agent[a].runtime
           /\ agent[a].scheduler = "made" => Stopped(a, abort).scheduler = "made"
<1> DEFINE t == agent[a]
           ended == IF t.scheduler = "running" THEN "ended" ELSE t.scheduler
           told == t.abort \/ abort
<1>1. t \in Agent
  OBVIOUS
<1>2. ended \in Scheduler /\ t.abort \in BOOLEAN
  BY <1>1 DEF Agent, Scheduler
<1>3. told \in BOOLEAN
  BY <1>2
<1>4. Stopped(a, abort) = [t EXCEPT !.stop = TRUE, !.abort = told, !.scheduler = ended]
  BY <1>1 DEF Stopped, Agent
<1>7. ended = "made" \/ t.scheduler # "made"
  OBVIOUS
<1> HIDE DEF t, ended, told
<1>8. [t EXCEPT !.stop = TRUE, !.abort = told, !.scheduler = ended] \in Agent
  BY <1>1, <1>2, <1>3, AgentMoves, Zenon
<1>5. Stopped(a, abort) \in Agent
  BY <1>4, <1>8
<1>6. Stopped(a, abort).runtime = t.runtime /\ Stopped(a, abort).scheduler = ended
  BY <1>1, <1>4 DEF Agent
<1> QED
  BY <1>5, <1>6, <1>7 DEF t

-----------------------------------------------------------------------------
(* Steps and the parts of the invariant *)

\* A part whose variables a step leaves alone stays.
LEMMA Frames ==
    ASSUME TypeInv, agents' = agents
    PROVE  /\ UNCHANGED row => RowFacts'
           /\ UNCHANGED <<registered, adhoc, runtime, runtimes>> => OrchestratorFacts'
           /\ UNCHANGED agent => AgentFacts'
           /\ UNCHANGED <<locked, jobs, run, dispatched>> => RunFacts'
           /\ UNCHANGED <<request, requests>> => RequestFacts'
  BY DEF TypeInv, RowFacts, OrchestratorFacts, AgentFacts, RunFacts, RequestFacts, Made

\* A client that moves on.
LEMMA RequestGoes ==
    ASSUME RequestFacts, NEW c \in Clients, NEW t \in Request,
           t.mine \in Made \cup {0}, t.pc \in HasAgent => t.mine # 0,
           request' = [request EXCEPT ![c] = t], UNCHANGED <<agents, requests>>
    PROVE  RequestFacts'
  BY DEF RequestFacts, Made

\* A client that only changes its place (Goto), or is done (Done).
LEMMA ClientMoves ==
    ASSUME RequestFacts, NEW c \in Clients, UNCHANGED <<agents, requests>>
    PROVE  /\ Done(c) => RequestFacts'
           /\ \A pc \in RequestPc : Goto(c, pc) /\ (pc \in HasAgent => request[c].mine # 0) => RequestFacts'
<1>1. request[c] \in Request
  BY DEF RequestFacts
<1>2. Done(c) => RequestFacts'
  BY RequestBegins, RequestGoes DEF Done, NoRequest, HasAgent
<1>3. ASSUME NEW pc \in RequestPc, Goto(c, pc), pc \in HasAgent => request[c].mine # 0
      PROVE  RequestFacts'
  <2> DEFINE t == [request[c] EXCEPT !.pc = pc]
  <2>1. t \in Request
    BY <1>1, RequestMoves
  <2>2. t.mine = request[c].mine /\ t.pc = pc
    BY <1>1 DEF Request
  <2>3. request' = [request EXCEPT ![c] = t]
    BY <1>3 DEF Goto
  <2>4. t.mine \in Made \cup {0} /\ (t.pc \in HasAgent => t.mine # 0)
    BY <1>3, <2>2 DEF RequestFacts
  <2> HIDE DEF t
  <2> QED
    BY <2>1, <2>3, <2>4, RequestGoes
<1> QED
  BY <1>2, <1>3

\* Agents that are stopped, launched or told to abort.
LEMMA AgentsChange ==
    ASSUME AgentFacts, agents' = agents, agent' \in [AgentId -> Agent],
           \A a \in AgentId : /\ agent'[a].runtime = agent[a].runtime
                              /\ a \notin Made => agent'[a].scheduler = "made"
    PROVE  AgentFacts'
<1>1. Made \subseteq AgentId
  BY BoundsAssumption DEF AgentFacts, Made, AgentId
<1> QED
  BY <1>1 DEF AgentFacts, Made

\* Stopping the agent taken out of the registry.
LEMMA OldStops ==
    ASSUME AgentFacts, RequestFacts, agents' = agents, NEW c \in Clients, NEW abort \in BOOLEAN,
           StopOld(c, abort)
    PROVE  /\ AgentFacts'
           /\ \A a \in AgentId : agent'[a].runtime = agent[a].runtime
<1>1. agent \in [AgentId -> Agent]
  BY DEF AgentFacts
<1>2. CASE request[c].old = 0
  BY <1>2, AgentsChange DEF StopOld, AgentFacts, Made
<1>3. CASE request[c].old # 0
  <2> DEFINE o == request[c].old
  <2>1. o \in AgentId
    BY <1>3 DEF RequestFacts, Request
  <2>2. agent' = [agent EXCEPT ![o] = Stopped(o, abort)]
    BY <1>3 DEF StopOld
  <2>3. /\ Stopped(o, abort) \in Agent
        /\ Stopped(o, abort).runtime = agent[o].runtime
        /\ agent[o].scheduler = "made" => Stopped(o, abort).scheduler = "made"
    BY <1>1, <2>1, StoppedAgent
  <2> HIDE DEF o
  <2>4. \A a \in AgentId : /\ agent'[a].runtime = agent[a].runtime
                           /\ agent[a].scheduler = "made" => agent'[a].scheduler = "made"
    BY <1>1, <2>1, <2>2, <2>3
  <2>5. agent' \in [AgentId -> Agent]
    BY <1>1, <2>1, <2>2, <2>3
  <2> QED
    BY <2>4, <2>5, AgentsChange DEF AgentFacts
<1> QED
  BY <1>2, <1>3

\* A new agent on the runtime of the instance (Orchestrator._make_agent).
LEMMA AgentMade ==
    ASSUME TypeInv, NEW scheduler \in {"made", "throwaway"}, MakeAgent(scheduler)
    PROVE  /\ AgentFacts'
           /\ runtime' \in RuntimeId /\ runtimes' \in 0..(agents')
           /\ runtime # 0 => runtime' = runtime
           /\ agents' = agents + 1 /\ agents + 1 \in AgentId
           /\ \A a \in Made : agent'[a] = agent[a]
           /\ agent'[agents + 1].runtime = runtime'
<1>1. agents \in 0..MaxAgents /\ agents < MaxAgents /\ agents' = agents + 1 /\ MaxAgents \in Nat
  BY BoundsAssumption DEF TypeInv, AgentFacts, MakeAgent
<1>2. agents + 1 \in AgentId /\ Made \subseteq AgentId /\ agents + 1 \notin Made
  BY <1>1 DEF AgentId, Made
<1>3. runtime' \in RuntimeId /\ runtimes' \in 0..(agents') /\ (runtime # 0 => runtime' = runtime)
  <2>1. SharedRuntime /\ runtime \in RuntimeId \cup {0} /\ runtimes \in 0..agents
    BY DEF MakeAgent, TypeInv, OrchestratorFacts
  <2> QED
    BY <1>1, <2>1 DEF SharedRuntime, RuntimeId
<1> DEFINE t == [NewAgent EXCEPT !.scheduler = scheduler, !.runtime = runtime']
<1>4. t \in Agent /\ t.runtime = runtime'
  BY <1>3 DEF NewAgent, Agent, Scheduler
<1>5. agent' = [agent EXCEPT ![agents + 1] = t]
  BY DEF MakeAgent
<1> HIDE DEF t
<1>6. agent \in [AgentId -> Agent]
  BY DEF TypeInv, AgentFacts
<1>7. agent'[agents + 1] = t /\ agent' \in [AgentId -> Agent]
      /\ \A a \in AgentId : a # agents + 1 => agent'[a] = agent[a]
  BY <1>2, <1>4, <1>5, <1>6
<1>8. \A a \in AgentId : a \notin Made' => a \notin Made /\ a # agents + 1
  BY <1>1 DEF Made, AgentId
<1>9. \A a \in Made' : a \in Made \/ a = agents + 1
  BY <1>1 DEF Made
<1>10. AgentFacts'
  <2>1. agents' \in 0..MaxAgents
    BY <1>1
  <2>2. \A a \in AgentId : a \notin Made' => agent'[a].scheduler = "made"
    BY <1>7, <1>8 DEF TypeInv, AgentFacts
  <2>3. \A a \in Made' : agent'[a].runtime \in RuntimeId
    BY <1>2, <1>3, <1>4, <1>7, <1>9 DEF TypeInv, AgentFacts
  <2> QED
    BY <1>7, <2>1, <2>2, <2>3 DEF AgentFacts
<1> QED
  BY <1>1, <1>2, <1>3, <1>4, <1>7, <1>10

\* The agent a client has made is launched (BaseAgent.start).
LEMMA LaunchTypes ==
    ASSUME TypeInv, agents' = agents, NEW c \in Clients, StartLaunches(c)
    PROVE  AgentFacts' /\ \A a \in AgentId : agent'[a].runtime = agent[a].runtime
<1> DEFINE o == request[c].mine
           t == [agent[o] EXCEPT !.stop = FALSE, !.abort = FALSE, !.scheduler = "starting"]
<1>1. Made \subseteq AgentId /\ o \in Made
  BY BoundsAssumption DEF StartLaunches, At, TypeInv, RequestFacts, HasAgent, AgentFacts, Made, AgentId
<1>2. agent \in [AgentId -> Agent] /\ agent[o] \in Agent
  BY <1>1 DEF TypeInv, AgentFacts
<1>3. t \in Agent /\ t.runtime = agent[o].runtime
  BY <1>2, AgentMoves DEF Agent
<1>4. agent' = [agent EXCEPT ![o] = t]
  BY <1>1, <1>2 DEF StartLaunches, Agent
<1> HIDE DEF o, t
<1>5. agent' \in [AgentId -> Agent] /\ \A a \in AgentId : agent'[a].runtime = agent[a].runtime
  BY <1>1, <1>2, <1>3, <1>4
<1>6. \A a \in AgentId : a \notin Made => agent'[a].scheduler = "made"
  BY <1>1, <1>2, <1>4 DEF TypeInv, AgentFacts
<1> QED
  BY <1>5, <1>6, AgentsChange DEF TypeInv

\* A client that has made an agent.
LEMMA AgentCountGrows ==
    ASSUME TypeInv, AgentFacts', runtime' \in RuntimeId, runtimes' \in 0..(agents'), agents' = agents + 1,
           NEW c \in Clients, NEW t \in Request, t.mine = agents + 1,
           request' = [request EXCEPT ![c] = t],
           UNCHANGED <<row, registered, adhoc, locked, jobs, run, dispatched, requests>>
    PROVE  TypeInv'
<1>0. agents \in Nat
  BY BoundsAssumption DEF TypeInv, AgentFacts
<1>1. agents \in Nat /\ Made' = Made \cup {agents + 1}
  BY <1>0 DEF Made
<1>2. OrchestratorFacts'
  BY <1>1 DEF TypeInv, OrchestratorFacts
<1>3. RunFacts'
  BY <1>1 DEF TypeInv, RunFacts
<1>4. RequestFacts'
  BY <1>1 DEF TypeInv, RequestFacts
<1> QED
  BY <1>2, <1>3, <1>4 DEF TypeInv, RowFacts

-----------------------------------------------------------------------------
(* Requests *)

LEMMA BeginTypes ==
    ASSUME TypeInv, NEW c \in Clients, Begin(c)
    PROVE  TypeInv'
<1>1. PICK kind \in Kinds :
        /\ row' \in CASE kind = "on"   -> {"enabled"}
                      [] kind = "off"  -> {"disabled"}
                      [] kind = "save" -> {"enabled", "disabled"}
                      [] OTHER         -> {row}
        /\ request' = [request EXCEPT ![c] = [NoRequest EXCEPT !.kind = kind,
             !.pc = CASE kind = "on"      -> "start"
                      [] kind = "trigger" -> "trigger"
                      [] OTHER            -> "unregister"]]
  BY DEF Begin
<1>2. kind \in RequestKinds
  BY KindsAssumption
<1> DEFINE pc == CASE kind = "on"      -> "start"
                   [] kind = "trigger" -> "trigger"
                   [] OTHER            -> "unregister"
           t == [NoRequest EXCEPT !.kind = kind, !.pc = pc]
<1>3. pc \in RequestPc \ HasAgent
  BY DEF RequestPc, HasAgent
<1>4. row' \in {"enabled", "disabled", "deleted"}
  BY <1>1 DEF TypeInv, RowFacts
<1>5. request' = [request EXCEPT ![c] = t]
  BY <1>1
<1> HIDE DEF pc
<1>6. t \in Request /\ t.mine = 0 /\ t.pc \notin HasAgent
  BY <1>2, <1>3, RequestBegins DEF NoRequest
<1> HIDE DEF t
<1>7. requests' = requests + 1 /\ requests < MaxRequests /\ UNCHANGED <<orchestratorVars, agentVars, runVars>>
  BY DEF Begin
<1>8. RequestFacts'
  BY <1>5, <1>6, <1>7, BoundsAssumption DEF TypeInv, RequestFacts, agentVars, Made
<1> QED
  BY <1>4, <1>7, <1>8, Frames DEF TypeInv, RowFacts, orchestratorVars, agentVars, runVars

LEMMA StartTypes ==
    ASSUME TypeInv, NEW c \in Clients, StartStep(c)
    PROVE  TypeInv'
<1> USE DEF TypeInv
<1>0. request[c] \in Request /\ request[c].mine \in Made \cup {0}
      /\ Made \subseteq AgentId /\ registered \in Made \cup {0} /\ agents \in 0..MaxAgents
  BY BoundsAssumption DEF RequestFacts, OrchestratorFacts, AgentFacts, Made, AgentId
<1>1. CASE StartReads(c)
  <2>1. UNCHANGED <<row, registered, adhoc, runtime, runtimes, agent, agents, locked, jobs, run, dispatched, requests>>
    BY <1>1 DEF StartReads, orchestratorVars, agentVars, runVars
  <2>2. Goto(c, "pop") \/ Done(c)
    BY <1>1 DEF StartReads
  <2>3. RequestFacts'
    BY <2>1, <2>2, ClientMoves DEF RequestPc, HasAgent
  <2> QED
    BY <2>1, <2>3, Frames
<1>2. CASE StartPops(c)
  <2>1. UNCHANGED <<row, adhoc, runtime, runtimes, agent, agents, locked, jobs, run, dispatched, requests>>
    BY <1>2 DEF StartPops, agentVars, runVars
  <2> DEFINE t == [request[c] EXCEPT !.old = registered, !.pc = "replace"]
  <2>2. t \in Request /\ t.mine = request[c].mine /\ t.pc = "replace"
    <3>1. "replace" \in RequestPc /\ registered \in AgentId \cup {0}
      BY <1>0 DEF RequestPc
    <3>2. t \in Request
      BY <1>0, <3>1, RequestMoves
    <3> QED
      BY <1>0, <3>2 DEF Request
  <2>3. request' = [request EXCEPT ![c] = t]
    BY <1>2 DEF StartPops
  <2> HIDE DEF t
  <2>4. RequestFacts'
    BY <1>0, <2>1, <2>2, <2>3, RequestGoes DEF HasAgent
  <2>5. OrchestratorFacts'
    BY <1>2, <2>1 DEF StartPops, OrchestratorFacts
  <2> QED
    BY <2>1, <2>4, <2>5, Frames
<1>3. CASE StartReplaces(c)
  <2>1. UNCHANGED <<row, registered, adhoc, runtime, runtimes, agents, locked, jobs, run, dispatched, requests>>
    BY <1>3 DEF StartReplaces, orchestratorVars, runVars
  <2>2. RequestFacts'
    BY <1>3, <2>1, ClientMoves DEF StartReplaces, RequestPc, HasAgent
  <2>3. AgentFacts'
    BY <1>3, <2>1, OldStops DEF StartReplaces
  <2> QED
    BY <2>1, <2>2, <2>3, Frames
<1>4. CASE StartMakes(c)
  <2>1. UNCHANGED <<row, registered, adhoc, locked, jobs, run, dispatched, requests>>
    BY <1>4 DEF StartMakes, runVars
  <2> DEFINE t == [request[c] EXCEPT !.mine = agents + 1, !.pc = "register"]
  <2>2. /\ AgentFacts' /\ runtime' \in RuntimeId /\ runtimes' \in 0..(agents')
        /\ agents' = agents + 1 /\ agents + 1 \in AgentId
    BY <1>4, AgentMade DEF StartMakes
  <2>3. t \in Request /\ t.mine = agents + 1 /\ t.pc = "register"
    <3>1. "register" \in RequestPc
      BY DEF RequestPc
    <3>2. t \in Request
      BY <1>0, <2>2, <3>1, RequestMoves
    <3> QED
      BY <1>0, <3>2 DEF Request
  <2>4. request' = [request EXCEPT ![c] = t]
    BY <1>4 DEF StartMakes
  <2> HIDE DEF t
  <2> QED
    BY <2>1, <2>2, <2>3, <2>4, <1>0, AgentCountGrows
<1>5. CASE StartRegisters(c)
  <2>1. UNCHANGED <<row, adhoc, runtime, runtimes, agent, agents, locked, jobs, run, dispatched, requests>>
    BY <1>5 DEF StartRegisters, agentVars, runVars
  <2> DEFINE t == [request[c] EXCEPT !.old = registered, !.pc = "displace"]
  <2>2. t \in Request /\ t.mine = request[c].mine /\ t.pc = "displace"
    <3>1. "displace" \in RequestPc /\ registered \in AgentId \cup {0}
      BY <1>0 DEF RequestPc
    <3>2. t \in Request
      BY <1>0, <3>1, RequestMoves
    <3> QED
      BY <1>0, <3>2 DEF Request
  <2>3. request' = [request EXCEPT ![c] = t] /\ registered' = request[c].mine /\ request[c].pc = "register"
    BY <1>5 DEF StartRegisters, At
  <2>4. request[c].mine # 0
    BY <2>3 DEF RequestFacts, HasAgent
  <2> HIDE DEF t
  <2>5. RequestFacts'
    BY <1>0, <2>1, <2>2, <2>3, <2>4, RequestGoes
  <2>6. OrchestratorFacts'
    BY <1>0, <2>1, <2>3 DEF OrchestratorFacts, Made
  <2> QED
    BY <2>1, <2>5, <2>6, Frames
<1>6. CASE StartDisplaces(c)
  <2>1. UNCHANGED <<row, registered, adhoc, runtime, runtimes, agents, locked, jobs, run, dispatched, requests>>
    BY <1>6 DEF StartDisplaces, orchestratorVars, runVars
  <2>2. request[c].mine # 0
    BY <1>6 DEF StartDisplaces, At, RequestFacts, HasAgent
  <2>3. RequestFacts'
    BY <1>6, <2>1, <2>2, ClientMoves DEF StartDisplaces, RequestPc
  <2>4. AgentFacts'
    BY <1>6, <2>1, OldStops DEF StartDisplaces
  <2> QED
    BY <2>1, <2>3, <2>4, Frames
<1>7. CASE StartLaunches(c)
  <2>1. UNCHANGED <<row, registered, adhoc, runtime, runtimes, agents, locked, jobs, run, dispatched, requests>>
    BY <1>7 DEF StartLaunches, orchestratorVars, runVars
  <2>2. RequestFacts'
    BY <1>7, <2>1, ClientMoves DEF StartLaunches
  <2>3. AgentFacts'
    BY <1>7, <2>1, LaunchTypes
  <2> QED
    BY <2>1, <2>2, <2>3, Frames
<1> QED
  BY <1>1, <1>2, <1>3, <1>4, <1>5, <1>6, <1>7 DEF StartStep

\* An agent or throwaway agents are told to stop (stop_agent).
LEMMA AgentsStop ==
    ASSUME TypeInv, agents' = agents, NEW c \in Clients, StopStops(c)
    PROVE  AgentFacts' /\ \A a \in AgentId : agent'[a].runtime = agent[a].runtime
<1>1. agent \in [AgentId -> Agent]
  BY DEF TypeInv, AgentFacts
<1>2. Aborts(c) \in BOOLEAN
  BY DEF Aborts
<1>3. \A a \in AgentId :
        /\ Stopped(a, Aborts(c)) \in Agent
        /\ Stopped(a, Aborts(c)).runtime = agent[a].runtime
        /\ agent[a].scheduler = "made" => Stopped(a, Aborts(c)).scheduler = "made"
  <2> DEFINE abort == Aborts(c)
  <2>1. abort \in BOOLEAN
    BY <1>2
  <2> HIDE DEF abort
  <2>2. \A a \in AgentId :
        /\ Stopped(a, abort) \in Agent
        /\ Stopped(a, abort).runtime = agent[a].runtime
        /\ agent[a].scheduler = "made" => Stopped(a, abort).scheduler = "made"
    BY <1>1, <2>1, StoppedAgent
  <2> QED
    BY <2>2 DEF abort
<1>4. \A a \in AgentId :
        LET t == [agent[a] EXCEPT !.abort = TRUE] IN
        t \in Agent /\ t.runtime = agent[a].runtime /\ t.scheduler = agent[a].scheduler
  <2>1. ASSUME NEW t \in Agent
        PROVE  /\ [t EXCEPT !.abort = TRUE] \in Agent
               /\ [t EXCEPT !.abort = TRUE].runtime = t.runtime
               /\ [t EXCEPT !.abort = TRUE].scheduler = t.scheduler
    <3>1. [t EXCEPT !.abort = TRUE] \in Agent
      BY AgentMoves
    <3> QED
      BY <3>1 DEF Agent
  <2> QED
    BY <1>1, <2>1
<1>5. \A a \in AgentId : agent'[a] \in {Stopped(a, Aborts(c)), [agent[a] EXCEPT !.abort = TRUE], agent[a]}
  BY DEF StopStops
<1>6. agent' = [a \in AgentId |-> agent'[a]]
  BY DEF StopStops
<1>7. \A a \in AgentId : /\ agent'[a] \in Agent
                         /\ agent'[a].runtime = agent[a].runtime
                         /\ agent[a].scheduler = "made" => agent'[a].scheduler = "made"
  BY <1>1, <1>3, <1>4, <1>5
<1>8. agent' \in [AgentId -> Agent]
  BY <1>6, <1>7
<1> QED
  BY <1>7, <1>8, AgentsChange DEF TypeInv, AgentFacts

\* A run takes the lock of its skill (TriggerFires, JobGates).
RunBegins(a, s) ==
    /\ Lock(a, s) \notin locked
    /\ locked' = locked \cup {Lock(a, s)}
    /\ run' = [run EXCEPT ![<<a, s>>] = "gated"]

LEMMA RunBeginsTypes ==
    ASSUME TypeInv, NEW a \in Made, NEW s \in Skills, RunBegins(a, s),
           jobs' \subseteq jobs, UNCHANGED <<agents, dispatched>>
    PROVE  RunFacts'
<1>1. Made \subseteq AgentId /\ Made' = Made
  BY BoundsAssumption DEF TypeInv, AgentFacts, Made, AgentId
<1>2. Lock(a, s) \in RuntimeId \X Skills
  BY DEF TypeInv, AgentFacts, Lock
<1>3. <<a, s>> \in Run /\ run \in [Run -> {"none", "gated", "searching"}]
  BY <1>1 DEF TypeInv, RunFacts, Run
<1>4. run' \in [Run -> {"none", "gated", "searching"}]
  BY <1>3 DEF RunBegins
<1>5. \A b \in AgentId, u \in Skills : b = a \/ run'[<<b, u>>] = run[<<b, u>>]
  BY <1>3 DEF RunBegins, Run
<1> QED
  BY <1>1, <1>2, <1>4, <1>5 DEF TypeInv, RunFacts, RunBegins

\* stop_agent, reload_agent and the delete of an instance.
LEMMA StopTypes ==
    ASSUME TypeInv, NEW c \in Clients, StopStep(c)
    PROVE  TypeInv'
<1> USE DEF TypeInv
<1>0. request[c] \in Request /\ request[c].mine \in Made \cup {0}
      /\ Made \subseteq AgentId /\ registered \in Made \cup {0} /\ agents \in 0..MaxAgents
  BY BoundsAssumption DEF RequestFacts, OrchestratorFacts, AgentFacts, Made, AgentId
<1>1. CASE StopUnregisters(c)
  <2>1. UNCHANGED <<row, runtime, runtimes, agent, agents, locked, jobs, run, dispatched, requests>>
    BY <1>1 DEF StopUnregisters, agentVars, runVars
  <2> DEFINE thrown == IF Aborts(c) THEN adhoc ELSE {}
             t == [request[c] EXCEPT !.pc = "stopping", !.old = registered, !.thrown = thrown]
  <2>2. "stopping" \in RequestPc /\ registered \in AgentId \cup {0} /\ thrown \in SUBSET AgentId
    BY <1>0 DEF RequestPc, OrchestratorFacts
  <2>3. request' = [request EXCEPT ![c] = t] /\ registered' = 0 /\ adhoc' \subseteq AgentId
    BY <1>1 DEF StopUnregisters, OrchestratorFacts
  <2> HIDE DEF thrown
  <2>4. t \in Request
    BY <1>0, <2>2, RequestMoves
  <2>5. t.mine = request[c].mine /\ t.pc = "stopping"
    BY <1>0, <2>4 DEF Request
  <2> HIDE DEF t
  <2>6. RequestFacts'
    BY <1>0, <2>1, <2>3, <2>4, <2>5, RequestGoes DEF HasAgent
  <2>7. OrchestratorFacts'
    BY <2>1, <2>3 DEF OrchestratorFacts
  <2> QED
    BY <2>1, <2>6, <2>7, Frames
<1>2. CASE StopStops(c)
  <2>1. UNCHANGED <<row, registered, adhoc, runtime, runtimes, agents, locked, jobs, run, dispatched, requests>>
    BY <1>2 DEF StopStops, orchestratorVars, runVars
  <2>2. Done(c) \/ Goto(c, "waiting") \/ Goto(c, "reread")
    BY <1>2 DEF StopStops
  <2>3. RequestFacts'
    BY <2>1, <2>2, ClientMoves DEF RequestPc, HasAgent
  <2>4. AgentFacts'
    BY <1>2, <2>1, AgentsStop
  <2> QED
    BY <2>1, <2>3, <2>4, Frames
<1>3. CASE ReloadReads(c)
  <2>1. UNCHANGED <<row, registered, adhoc, runtime, runtimes, agent, agents, locked, jobs, run, dispatched, requests>>
    BY <1>3 DEF ReloadReads, orchestratorVars, agentVars, runVars
  <2>2. Goto(c, "start") \/ Done(c)
    BY <1>3 DEF ReloadReads
  <2>3. RequestFacts'
    BY <2>1, <2>2, ClientMoves DEF RequestPc, HasAgent
  <2> QED
    BY <2>1, <2>3, Frames
<1>4. CASE DeleteWaited(c)
  <2>1. UNCHANGED <<row, registered, adhoc, runtime, runtimes, agent, agents, locked, jobs, run, dispatched, requests>>
    BY <1>4 DEF DeleteWaited, orchestratorVars, agentVars, runVars
  <2>2. RequestFacts'
    BY <1>4, <2>1, ClientMoves DEF DeleteWaited, RequestPc, HasAgent
  <2> QED
    BY <2>1, <2>2, Frames
<1>5. CASE DeleteTimesOut(c)
  <2>1. UNCHANGED <<row, registered, adhoc, runtime, runtimes, agent, agents, locked, jobs, run, dispatched, requests>>
    BY <1>5 DEF DeleteTimesOut, orchestratorVars, agentVars, runVars
  <2> DEFINE t == [request[c] EXCEPT !.kind = "save", !.pc = "unregister"]
  <2>2. "save" \in RequestKinds /\ "unregister" \in RequestPc
    BY DEF RequestKinds, RequestPc
  <2>3. t \in Request
    BY <1>0, <2>2, RequestMoves
  <2>4. t.mine = request[c].mine /\ t.pc = "unregister"
    BY <1>0, <2>3 DEF Request
  <2>5. request' = [request EXCEPT ![c] = t]
    BY <1>5 DEF DeleteTimesOut, BringsBack
  <2> HIDE DEF t
  <2>6. RequestFacts'
    BY <1>0, <2>1, <2>3, <2>4, <2>5, RequestGoes DEF HasAgent
  <2> QED
    BY <2>1, <2>6, Frames
<1>6. CASE DeleteForgets(c)
  <2>1. UNCHANGED <<row, registered, adhoc, runtimes, agent, agents, locked, jobs, run, dispatched, requests>>
    BY <1>6 DEF DeleteForgets, agentVars, runVars
  <2>2. RequestFacts'
    BY <1>6, <2>1, ClientMoves DEF DeleteForgets, RequestPc, HasAgent
  <2>3. OrchestratorFacts'
    BY <1>6, <2>1 DEF DeleteForgets, OrchestratorFacts, Made
  <2> QED
    BY <2>1, <2>2, <2>3, Frames
<1>7. CASE DeleteErases(c)
  <2>1. UNCHANGED <<registered, adhoc, runtime, runtimes, agent, agents, locked, jobs, run, dispatched, requests>>
    BY <1>7 DEF DeleteErases, orchestratorVars, agentVars, runVars
  <2>2. RequestFacts'
    BY <1>7, <2>1, ClientMoves DEF DeleteErases
  <2>3. RowFacts'
    BY <1>7 DEF DeleteErases, RowFacts
  <2> QED
    BY <2>1, <2>2, <2>3, Frames
<1> QED
  BY <1>1, <1>2, <1>3, <1>4, <1>5, <1>6, <1>7 DEF StopStep

\* trigger and trigger_now.
LEMMA TriggerTypes ==
    ASSUME TypeInv, NEW c \in Clients, TriggerStep(c)
    PROVE  TypeInv'
<1> USE DEF TypeInv
<1>0. request[c] \in Request /\ request[c].mine \in Made \cup {0}
      /\ Made \subseteq AgentId /\ registered \in Made \cup {0} /\ agents \in 0..MaxAgents
  BY BoundsAssumption DEF RequestFacts, OrchestratorFacts, AgentFacts, Made, AgentId
<1>1. CASE TriggerReads(c)
  <2>1. UNCHANGED <<row, registered, adhoc, runtime, runtimes, agent, agents, locked, jobs, run, dispatched, requests>>
    BY <1>1 DEF TriggerReads, orchestratorVars, agentVars, runVars
  <2> DEFINE pc == IF registered # 0 THEN "fire" ELSE "throwaway"
             t == [request[c] EXCEPT !.mine = registered, !.pc = pc]
  <2>2. pc \in RequestPc /\ registered \in AgentId \cup {0} /\ (pc \in HasAgent => registered # 0)
    BY <1>0 DEF RequestPc, HasAgent
  <2>3. request' = [request EXCEPT ![c] = t]
    BY <1>1 DEF TriggerReads
  <2> HIDE DEF pc
  <2>4. t \in Request
    BY <1>0, <2>2, RequestMoves
  <2>5. t.mine = registered /\ t.pc = pc
    BY <1>0, <2>4 DEF Request
  <2> HIDE DEF t
  <2>6. RequestFacts'
    BY <1>0, <2>1, <2>2, <2>3, <2>4, <2>5, RequestGoes
  <2> QED
    BY <2>1, <2>6, Frames
<1>2. CASE TriggerMakes(c) /\ row = "deleted"
  <2>1. UNCHANGED <<row, registered, adhoc, runtime, runtimes, agent, agents, locked, jobs, run, dispatched, requests>>
    BY <1>2 DEF TriggerMakes, agentVars, runVars
  <2>2. RequestFacts'
    BY <1>2, <2>1, ClientMoves DEF TriggerMakes
  <2> QED
    BY <2>1, <2>2, Frames
<1>3. CASE TriggerMakes(c) /\ row # "deleted"
  <2>1. UNCHANGED <<row, registered, adhoc, locked, jobs, run, dispatched, requests>>
    BY <1>3 DEF TriggerMakes, runVars
  <2> DEFINE t == [request[c] EXCEPT !.mine = agents + 1, !.pc = "enlist"]
  <2>2. /\ AgentFacts' /\ runtime' \in RuntimeId /\ runtimes' \in 0..(agents')
        /\ agents' = agents + 1 /\ agents + 1 \in AgentId
    BY <1>3, AgentMade DEF TriggerMakes
  <2>3. "enlist" \in RequestPc
    BY DEF RequestPc
  <2>4. t \in Request
    BY <1>0, <2>2, <2>3, RequestMoves
  <2>5. t.mine = agents + 1 /\ t.pc = "enlist"
    BY <1>0, <2>4 DEF Request
  <2>6. request' = [request EXCEPT ![c] = t]
    BY <1>3 DEF TriggerMakes
  <2> HIDE DEF t
  <2> QED
    BY <2>1, <2>2, <2>4, <2>5, <2>6, <1>0, AgentCountGrows
<1>4. CASE TriggerEnlists(c)
  <2>1. UNCHANGED <<row, registered, runtime, runtimes, agent, agents, locked, jobs, run, dispatched, requests>>
    BY <1>4 DEF TriggerEnlists, agentVars, runVars
  <2>2. request[c].mine # 0
    BY <1>4 DEF TriggerEnlists, At, RequestFacts, HasAgent
  <2>3. RequestFacts'
    BY <1>4, <2>1, <2>2, ClientMoves DEF TriggerEnlists, RequestPc
  <2>4. OrchestratorFacts'
    BY <1>0, <1>4, <2>1, <2>2 DEF TriggerEnlists, OrchestratorFacts, Made
  <2> QED
    BY <2>1, <2>3, <2>4, Frames
<1>5. CASE TriggerFires(c)
  <2>1. UNCHANGED <<row, registered, runtime, runtimes, agent, agents, jobs, dispatched, requests>>
    BY <1>5 DEF TriggerFires, agentVars
  <2> DEFINE a == request[c].mine
  <2>2. a \in Made
    BY <1>5 DEF TriggerFires, At, RequestFacts, HasAgent
  <2>3. PICK s \in Skills :
          \/ adhoc' = adhoc \ {a} /\ UNCHANGED <<locked, run>>
          \/ RunBegins(a, s) /\ UNCHANGED adhoc
    BY <1>5 DEF TriggerFires, RunBegins
  <2>4. RequestFacts'
    BY <1>5, <2>1, ClientMoves DEF TriggerFires
  <2> HIDE DEF a
  <2>5. OrchestratorFacts'
    BY <2>1, <2>3 DEF OrchestratorFacts, Made
  <2>6. RunFacts'
    BY <2>1, <2>2, <2>3, RunBeginsTypes DEF RunFacts, Made
  <2> QED
    BY <2>1, <2>4, <2>5, <2>6, Frames
<1> QED
  BY <1>1, <1>2, <1>3, <1>4, <1>5 DEF TriggerStep

-----------------------------------------------------------------------------
(* Scheduler threads and runs *)

LEMMA RunTypes ==
    ASSUME TypeInv, RunStep
    PROVE  TypeInv'
<1> USE DEF TypeInv
<1>0. Made \subseteq AgentId
  BY BoundsAssumption DEF AgentFacts, Made, AgentId
<1>1. ASSUME NEW a \in AgentId, SchedulerStarts(a) \/ SchedulerEnds(a)
      PROVE  TypeInv'
  <2>1. UNCHANGED <<row, registered, adhoc, runtime, runtimes, agents, locked, jobs, run, dispatched, request, requests>>
    BY <1>1 DEF SchedulerStarts, SchedulerEnds, threadFrame, runVars, requestVars
  <2>2. PICK to \in Scheduler : agent' = [agent EXCEPT ![a].scheduler = to]
    BY <1>1 DEF SchedulerStarts, SchedulerEnds, Scheduler
  <2>3. agent \in [AgentId -> Agent] /\ a \in Made
    BY <1>1 DEF AgentFacts, SchedulerStarts, SchedulerEnds
  <2> DEFINE t == [agent[a] EXCEPT !.scheduler = to]
  <2>4. t \in Agent /\ agent' = [agent EXCEPT ![a] = t]
    BY <2>2, <2>3, AgentMoves
  <2>5. t.runtime = agent[a].runtime
    BY <2>3 DEF Agent
  <2> HIDE DEF t
  <2>6. agent' \in [AgentId -> Agent] /\ \A b \in AgentId : agent'[b].runtime = agent[b].runtime
    BY <2>3, <2>4, <2>5
  <2>7. \A b \in AgentId : b \notin Made => agent'[b].scheduler = "made"
    BY <2>3, <2>4 DEF AgentFacts
  <2>8. AgentFacts'
    BY <2>1, <2>6, <2>7, AgentsChange
  <2> QED
    BY <2>1, <2>8, Frames
<1>2. ASSUME NEW a \in AgentId, NEW s \in Skills, Dispatches(a, s)
      PROVE  TypeInv'
  <2>1. UNCHANGED <<row, registered, adhoc, runtime, runtimes, agent, agents, locked, run, request, requests>>
    BY <1>2 DEF Dispatches, threadFrame, requestVars
  <2>2. a \in Made
    BY <1>2 DEF AgentFacts, Dispatches
  <2>3. dispatched' \in 0..MaxJobs
    BY <1>2, BoundsAssumption DEF Dispatches, RunFacts
  <2>4. RunFacts'
    BY <1>2, <2>1, <2>2, <2>3 DEF Dispatches, RunFacts, Made
  <2> QED
    BY <2>1, <2>4, Frames
<1>3. ASSUME NEW a \in AgentId, NEW s \in Skills, JobGates(a, s)
      PROVE  TypeInv'
  <2>1. UNCHANGED <<row, registered, adhoc, runtime, runtimes, agent, agents, dispatched, request, requests>>
    BY <1>3 DEF JobGates, threadFrame, requestVars
  <2>2. a \in Made /\ jobs' \subseteq jobs
    BY <1>3 DEF RunFacts, JobGates
  <2>3. UNCHANGED <<locked, run>> \/ RunBegins(a, s)
    BY <1>3 DEF JobGates, RunBegins
  <2>4. RunFacts'
    BY <2>1, <2>2, <2>3, RunBeginsTypes DEF RunFacts, Made
  <2> QED
    BY <2>1, <2>4, Frames
<1>4. ASSUME NEW a \in AgentId, NEW s \in Skills, RunStarts(a, s) \/ RunEnds(a, s)
      PROVE  TypeInv'
  <2>1. UNCHANGED <<row, registered, runtime, runtimes, agent, agents, jobs, dispatched, request, requests>>
    BY <1>4 DEF RunStarts, RunEnds, threadFrame, requestVars
  <2>2. PICK to \in {"searching", "none"} : run' = [run EXCEPT ![<<a, s>>] = to]
    BY <1>4 DEF RunStarts, RunEnds
  <2>3. run[<<a, s>>] # "none" /\ adhoc' \subseteq adhoc /\ locked' \subseteq locked
    BY <1>4 DEF RunStarts, RunEnds
  <2>4. run' \in [Run -> {"none", "gated", "searching"}]
        /\ \A b \in AgentId, u \in Skills : run'[<<b, u>>] # "none" => run[<<b, u>>] # "none"
    BY <2>2, <2>3 DEF RunFacts, Run
  <2>5. RunFacts'
    BY <2>1, <2>3, <2>4 DEF RunFacts, Made
  <2>6. OrchestratorFacts'
    BY <2>1, <2>3 DEF OrchestratorFacts, Made
  <2> QED
    BY <2>1, <2>5, <2>6, Frames
<1> QED
  BY <1>1, <1>2, <1>3, <1>4 DEF RunStep

-----------------------------------------------------------------------------
(* Types *)

LEMMA TypeInit == Init => TypeInv
<1> SUFFICES ASSUME Init PROVE TypeInv
  OBVIOUS
<1>1. NewAgent \in Agent /\ NewAgent.scheduler = "made"
  BY DEF NewAgent, Agent, Scheduler
<1>2. AgentFacts
  BY <1>1, BoundsAssumption DEF Init, AgentFacts, Made
<1>3. RequestFacts
  <2>1. NoRequest \in Request /\ NoRequest.mine = 0 /\ NoRequest.pc \notin HasAgent
    BY RequestBegins DEF NoRequest, HasAgent
  <2> QED
    BY <2>1, BoundsAssumption DEF Init, RequestFacts
<1>4. OrchestratorFacts
  BY DEF Init, OrchestratorFacts
<1>5. RunFacts
  BY BoundsAssumption DEF Init, RunFacts, Run
<1> QED
  BY <1>2, <1>3, <1>4, <1>5 DEF Init, TypeInv, RowFacts

LEMMA TypeStep == TypeInv /\ [Next]_vars => TypeInv'
<1> SUFFICES ASSUME TypeInv, [Next]_vars PROVE TypeInv'
  OBVIOUS
<1>1. ASSUME NEW c \in Clients, Begin(c) \/ StartStep(c) \/ StopStep(c) \/ TriggerStep(c)
      PROVE  TypeInv'
  BY <1>1, BeginTypes, StartTypes, StopTypes, TriggerTypes
<1>2. CASE RunStep
  BY <1>2, RunTypes
<1>3. CASE UNCHANGED vars
  <2>1. UNCHANGED <<row, registered, adhoc, runtime, runtimes, agent, agents, locked, jobs, run, dispatched, request, requests>>
    BY <1>3 DEF vars, orchestratorVars, agentVars, runVars, requestVars
  <2> QED
    BY <2>1, Frames DEF TypeInv
<1> QED
  BY <1>1, <1>2, <1>3 DEF Next

\* TypeOK: whatever the number of clients, skills, agents and requests, the
\* orchestrator and its agents hold what their types say.
THEOREM TypesHold == Spec => []TypeOK
<1>1. Init => TypeInv
  BY TypeInit
<1>2. TypeInv /\ [Next]_vars => TypeInv'
  BY TypeStep
<1>3. TypeInv => TypeOK
  BY TypeInvTypes
<1> QED
  BY <1>1, <1>2, <1>3, PTL DEF Spec

-----------------------------------------------------------------------------
(* One run per skill: all agents share the first runtime with its locks *)

Deleting == {"waiting", "forget", "erase"}

\* No client deletes the instance.
NeverDeletes ==
    \A c \in Clients : request[c].kind # "delete" /\ request[c].pc \notin Deleting

\* Every agent made so far uses the first runtime of the instance, a run holds
\* the lock of its skill there, and no other run of the skill does.
LockFacts ==
    /\ runtime \in {0, 1}
    /\ agents = 0 => runtime = 0 /\ runtimes = 0
    /\ \A a \in Made : agent[a].runtime = 1
    /\ \A a \in AgentId, s \in Skills : run[<<a, s>>] # "none" => <<1, s>> \in locked
    /\ OneRunPerSkill

\* An instance that had agents gets no agent while it has no runtime.
NoSecondRuntime ==
    agents # 0 /\ runtime = 0 =>
        \A c \in Clients : ~At(c, "make") /\ (At(c, "throwaway") => row = "deleted")

RuntimeStays == agents # 0 => runtime # 0

LockInv == NeverDeletes /\ RuntimeStays /\ LockFacts

\* A step of a client that does not begin to delete.
LEMMA StaysOutOfDelete ==
    ASSUME NeverDeletes, request \in [Clients -> Request], NEW c \in Clients
    PROVE  /\ \A t \in Request : /\ t.kind # "delete" /\ t.pc \notin Deleting
                                  /\ request' = [request EXCEPT ![c] = t]
                                  => NeverDeletes'
           /\ \A pc \in RequestPc \ Deleting : Goto(c, pc) => NeverDeletes'
           /\ Done(c) => NeverDeletes'
<1>1. ASSUME NEW t \in Request, t.kind # "delete", t.pc \notin Deleting,
             request' = [request EXCEPT ![c] = t]
      PROVE  NeverDeletes'
  BY <1>1 DEF NeverDeletes
<1>2. ASSUME NEW pc \in RequestPc \ Deleting, Goto(c, pc)
      PROVE  NeverDeletes'
  <2> DEFINE t == [request[c] EXCEPT !.pc = pc]
  <2>1. t \in Request
    BY RequestMoves
  <2>2. t.kind = request[c].kind /\ t.pc = pc
    BY <2>1 DEF Request
  <2>3. request' = [request EXCEPT ![c] = t]
    BY <1>2 DEF Goto
  <2> HIDE DEF t
  <2> QED
    BY <1>1, <2>1, <2>2, <2>3 DEF NeverDeletes
<1>3. ASSUME Done(c) PROVE NeverDeletes'
  <2>1. NoRequest \in Request /\ NoRequest.kind = "on" /\ NoRequest.pc = "idle"
    BY RequestBegins DEF NoRequest
  <2> QED
    BY <1>1, <1>3, <2>1 DEF Done, Deleting
<1> QED
  BY <1>1, <1>2, <1>3

\* A client that finds or makes an agent.
LEMMA MineMoves ==
    ASSUME NeverDeletes, request \in [Clients -> Request], NEW c \in Clients,
           NEW mine \in AgentId \cup {0}, NEW pc \in RequestPc \ Deleting,
           request' = [request EXCEPT ![c].mine = mine, ![c].pc = pc]
    PROVE  NeverDeletes'
<1> DEFINE t == [request[c] EXCEPT !.mine = mine, !.pc = pc]
<1>1. t \in Request
  BY RequestMoves
<1>2. t.kind = request[c].kind /\ t.pc = pc
  BY <1>1 DEF Request
<1>3. request' = [request EXCEPT ![c] = t]
  OBVIOUS
<1> HIDE DEF t
<1> QED
  BY <1>1, <1>2, <1>3, StaysOutOfDelete DEF NeverDeletes

LEMMA NeverDeletesStep ==
    ASSUME "delete" \notin Kinds, TypeInv, NeverDeletes, [Next]_vars
    PROVE  NeverDeletes'
<1>0. request \in [Clients -> Request] /\ registered \in AgentId \cup {0} /\ adhoc \subseteq AgentId
      /\ (agents < MaxAgents => agents + 1 \in AgentId)
  BY BoundsAssumption DEF TypeInv, RequestFacts, OrchestratorFacts, AgentFacts, Made, AgentId
<1>1. ASSUME NEW c \in Clients, Begin(c) PROVE NeverDeletes'
  <2>1. PICK kind \in Kinds :
          request' = [request EXCEPT ![c] = [NoRequest EXCEPT !.kind = kind,
             !.pc = CASE kind = "on"      -> "start"
                      [] kind = "trigger" -> "trigger"
                      [] OTHER            -> "unregister"]]
    BY <1>1 DEF Begin
  <2> DEFINE pc == CASE kind = "on"      -> "start"
                     [] kind = "trigger" -> "trigger"
                     [] OTHER            -> "unregister"
             t == [NoRequest EXCEPT !.kind = kind, !.pc = pc]
  <2>2. kind \in RequestKinds /\ kind # "delete" /\ pc \in RequestPc /\ pc \notin Deleting
    BY KindsAssumption DEF RequestPc, Deleting
  <2>3. request' = [request EXCEPT ![c] = t]
    BY <2>1
  <2> HIDE DEF pc
  <2>4. t \in Request /\ t.kind = kind /\ t.pc = pc
    BY <2>2, RequestBegins DEF NoRequest
  <2> HIDE DEF t
  <2> QED
    BY <1>0, <2>2, <2>3, <2>4, StaysOutOfDelete
<1>2. ASSUME NEW c \in Clients, StartStep(c) PROVE NeverDeletes'
  <2>1. ASSUME NEW pc \in {"pop", "make", "launch"}, Goto(c, pc) PROVE NeverDeletes'
    BY <1>0, <2>1, StaysOutOfDelete DEF RequestPc, Deleting
  <2>2. CASE Done(c)
    BY <1>0, <2>2, StaysOutOfDelete
  <2>3. ASSUME NEW pc \in {"replace", "displace"},
               request' = [request EXCEPT ![c].old = registered, ![c].pc = pc]
        PROVE  NeverDeletes'
    <3> DEFINE t == [request[c] EXCEPT !.old = registered, !.pc = pc]
    <3>1. pc \in RequestPc /\ pc \notin Deleting /\ request[c] \in Request
      BY <1>0 DEF RequestPc, Deleting
    <3>2. t \in Request
      BY <1>0, <3>1, RequestMoves
    <3>3. t.kind = request[c].kind /\ t.pc = pc
      BY <3>1, <3>2 DEF Request
    <3>4. request' = [request EXCEPT ![c] = t]
      BY <2>3
    <3> HIDE DEF t
    <3> QED
      BY <1>0, <3>1, <3>2, <3>3, <3>4, StaysOutOfDelete DEF NeverDeletes
  <2>4. CASE StartMakes(c)
    BY <1>0, <2>4, MineMoves DEF StartMakes, MakeAgent, RequestPc, Deleting
  <2> QED
    BY <1>2, <2>1, <2>2, <2>3, <2>4
    DEF StartStep, StartReads, StartPops, StartReplaces, StartRegisters, StartDisplaces, StartLaunches
<1>3. ASSUME NEW c \in Clients, StopStep(c) PROVE NeverDeletes'
  <2>1. ASSUME NEW pc \in {"reread", "start"}, Goto(c, pc) PROVE NeverDeletes'
    BY <1>0, <2>1, StaysOutOfDelete DEF RequestPc, Deleting
  <2>2. CASE Done(c)
    BY <1>0, <2>2, StaysOutOfDelete
  <2>3. CASE StopUnregisters(c)
    <3> DEFINE thrown == IF Aborts(c) THEN adhoc ELSE {}
               t == [request[c] EXCEPT !.pc = "stopping", !.old = registered, !.thrown = thrown]
    <3>1. "stopping" \in RequestPc /\ "stopping" \notin Deleting /\ request[c] \in Request /\ thrown \in SUBSET AgentId
      BY <1>0 DEF RequestPc, Deleting
    <3>2. request' = [request EXCEPT ![c] = t]
      BY <2>3 DEF StopUnregisters
    <3> HIDE DEF thrown
    <3>3. t \in Request
      BY <1>0, <3>1, RequestMoves
    <3>4. t.kind = request[c].kind /\ t.pc = "stopping"
      BY <3>1, <3>3 DEF Request
    <3> HIDE DEF t
    <3> QED
      BY <1>0, <3>1, <3>2, <3>3, <3>4, StaysOutOfDelete DEF NeverDeletes
  <2>4. request[c].kind # "delete" /\ request[c].pc \notin {"waiting", "forget", "erase"}
    BY DEF NeverDeletes, Deleting
  <2>5. StopStops(c) => Done(c) \/ Goto(c, "reread")
    BY <2>4 DEF StopStops
  <2>6. ReloadReads(c) => Done(c) \/ Goto(c, "start")
    BY DEF ReloadReads
  <2>7. ~DeleteWaited(c) /\ ~DeleteTimesOut(c) /\ ~DeleteForgets(c) /\ ~DeleteErases(c)
    BY <2>4 DEF DeleteWaited, DeleteTimesOut, DeleteForgets, DeleteErases, At
  <2> QED
    BY <1>3, <2>1, <2>2, <2>3, <2>5, <2>6, <2>7 DEF StopStep
<1>4. ASSUME NEW c \in Clients, TriggerStep(c) PROVE NeverDeletes'
  <2>1. CASE TriggerReads(c)
    <3> DEFINE pc == IF registered # 0 THEN "fire" ELSE "throwaway"
    <3>1. pc \in RequestPc \ Deleting
      BY DEF RequestPc, Deleting
    <3>2. request' = [request EXCEPT ![c].mine = registered, ![c].pc = pc]
      BY <2>1 DEF TriggerReads
    <3> HIDE DEF pc
    <3> QED
      BY <1>0, <3>1, <3>2, MineMoves
  <2>2. ASSUME request' = [request EXCEPT ![c].mine = agents + 1, ![c].pc = "enlist"], agents < MaxAgents
        PROVE  NeverDeletes'
    BY <1>0, <2>2, MineMoves DEF RequestPc, Deleting
  <2>3. CASE Goto(c, "fire")
    BY <1>0, <2>3, StaysOutOfDelete DEF RequestPc, Deleting
  <2>4. CASE Done(c)
    BY <1>0, <2>4, StaysOutOfDelete
  <2> QED
    BY <1>4, <2>1, <2>2, <2>3, <2>4 DEF TriggerStep, TriggerMakes, MakeAgent, TriggerEnlists, TriggerFires
<1>5. CASE RunStep
  <2>1. UNCHANGED request
    BY <1>5 DEF RunStep, SchedulerStarts, SchedulerEnds, Dispatches, JobGates, RunStarts, RunEnds, threadFrame, requestVars
  <2> QED
    BY <2>1 DEF NeverDeletes
<1>6. CASE UNCHANGED vars
  BY <1>6 DEF vars, requestVars, NeverDeletes
<1> QED
  BY <1>1, <1>2, <1>3, <1>4, <1>5, <1>6 DEF Next

\* Steps that leave the locks, the runs and every agent's runtime alone.
LEMMA LocksStay ==
    ASSUME TypeInv, LockFacts, UNCHANGED <<agents, runtimes, locked, run>>, runtime' \in {0, runtime},
           \A a \in AgentId : agent'[a].runtime = agent[a].runtime
    PROVE  LockFacts'
<1>1. Made \subseteq AgentId /\ Made' = Made
  BY BoundsAssumption DEF TypeInv, AgentFacts, Made, AgentId
<1> QED
  BY <1>1 DEF LockFacts, OneRunPerSkill

\* A new agent uses the runtime of the instance, the first one brings it.
LEMMA LocksShared ==
    ASSUME TypeInv, LockFacts, NEW scheduler \in {"made", "throwaway"}, MakeAgent(scheduler),
           agents = 0 \/ runtime # 0,
           UNCHANGED <<locked, run>>
    PROVE  LockFacts'
<1>1. /\ agents' = agents + 1 /\ agent'[agents + 1].runtime = runtime'
      /\ \A a \in Made : agent'[a] = agent[a]
  BY AgentMade
<1>2. agents \in Nat
  BY BoundsAssumption DEF TypeInv, AgentFacts
<1>3. Made' = Made \cup {agents + 1}
  BY <1>1, <1>2 DEF Made
<1>4. runtime' = 1
  BY DEF MakeAgent, SharedRuntime, LockFacts
<1>5. \A a \in Made' : agent'[a].runtime = 1
  BY <1>1, <1>3, <1>4 DEF LockFacts
<1>6. agents' # 0
  BY <1>1, <1>2
<1> QED
  BY <1>4, <1>5, <1>6 DEF LockFacts, OneRunPerSkill

\* A run begins only when its skill has no other.
LEMMA LocksTaken ==
    ASSUME TypeInv, LockFacts, NEW a \in Made, NEW s \in Skills, RunBegins(a, s),
           UNCHANGED <<agent, agents, runtime, runtimes>>
    PROVE  LockFacts'
<1>1. Made \subseteq AgentId /\ Made' = Made
  BY BoundsAssumption DEF TypeInv, AgentFacts, Made, AgentId
<1>2. Lock(a, s) = <<1, s>>
  BY DEF LockFacts, Lock
<1>3. /\ <<1, s>> \notin locked /\ locked' = locked \cup {<<1, s>>}
      /\ run' = [run EXCEPT ![<<a, s>>] = "gated"] /\ run \in [Run -> {"none", "gated", "searching"}]
  BY <1>2 DEF RunBegins, TypeInv, RunFacts
<1>4. \A b \in AgentId : run[<<b, s>>] = "none"
  BY <1>3 DEF LockFacts
<1>5. \A b \in AgentId, u \in Skills : run'[<<b, u>>] # "none" => run[<<b, u>>] # "none" \/ (b = a /\ u = s)
  BY <1>3 DEF Run
<1>6. \A b \in AgentId, u \in Skills : run'[<<b, u>>] # "none" => <<1, u>> \in locked'
  BY <1>3, <1>5 DEF LockFacts
<1>7. \A u \in Skills : \A b, d \in AgentId :
        run'[<<b, u>>] # "none" /\ run'[<<d, u>>] # "none" => b = d
  BY <1>4, <1>5 DEF LockFacts, OneRunPerSkill
<1> QED
  BY <1>1, <1>6, <1>7 DEF LockFacts, OneRunPerSkill

\* A run that ends takes its own lock with it, and none that another run has.
LEMMA LocksReturned ==
    ASSUME TypeInv, LockFacts, NEW a \in AgentId, NEW s \in Skills, RunEnds(a, s)
    PROVE  LockFacts'
<1>1. /\ UNCHANGED <<agent, agents, runtime, runtimes>>
      /\ run[<<a, s>>] # "none" /\ locked' = locked \ {Lock(a, s)}
      /\ run' = [run EXCEPT ![<<a, s>>] = "none"] /\ run \in [Run -> {"none", "gated", "searching"}]
  BY DEF RunEnds, threadFrame, TypeInv, RunFacts
<1>2. a \in Made /\ Lock(a, s) = <<1, s>>
  BY <1>1 DEF TypeInv, RunFacts, LockFacts, Lock
<1>3. \A b \in AgentId, u \in Skills :
        run'[<<b, u>>] # "none" => run[<<b, u>>] # "none" /\ ~(b = a /\ u = s)
  BY <1>1 DEF Run
<1>4. \A b \in AgentId, u \in Skills : run'[<<b, u>>] # "none" => u # s
  BY <1>1, <1>3 DEF LockFacts, OneRunPerSkill
<1>5. \A b \in AgentId, u \in Skills : run'[<<b, u>>] # "none" => <<1, u>> \in locked'
  BY <1>1, <1>2, <1>3, <1>4 DEF LockFacts
<1>6. \A u \in Skills : \A b, d \in AgentId :
        run'[<<b, u>>] # "none" /\ run'[<<d, u>>] # "none" => b = d
  BY <1>3 DEF LockFacts, OneRunPerSkill
<1>7. \A b \in Made' : agent'[b].runtime = 1
  BY <1>1 DEF LockFacts, Made
<1> QED
  BY <1>1, <1>5, <1>6, <1>7 DEF LockFacts, OneRunPerSkill

LEMMA LockInit == Init => LockInv
<1> SUFFICES ASSUME Init PROVE LockInv
  OBVIOUS
<1>1. NeverDeletes
  BY DEF Init, NeverDeletes, NoRequest, Deleting
<1>2. \A a \in AgentId, s \in Skills : run[<<a, s>>] = "none"
  BY DEF Init, Run
<1>3. Made = {}
  BY DEF Init, Made
<1>4. runtime = 0 /\ runtimes = 0 /\ agents = 0
  BY DEF Init
<1> QED
  BY <1>1, <1>2, <1>3, <1>4 DEF LockInv, LockFacts, OneRunPerSkill, RuntimeStays

LEMMA LockStep ==
    ASSUME TypeInv, LockFacts, NoSecondRuntime, [Next]_vars
    PROVE  LockFacts'
<1>0. LockFacts
  OBVIOUS
<1>1. ASSUME NEW c \in Clients, Begin(c) PROVE LockFacts'
  BY <1>0, <1>1, LocksStay DEF Begin, orchestratorVars, agentVars, runVars
<1>2. ASSUME NEW c \in Clients, StartStep(c) PROVE LockFacts'
  <2>1. CASE StartReads(c) \/ StartPops(c) \/ StartRegisters(c)
    BY <1>0, <2>1, LocksStay DEF StartReads, StartPops, StartRegisters, orchestratorVars, agentVars, runVars
  <2>2. CASE StartReplaces(c) \/ StartDisplaces(c)
    <3>1. UNCHANGED <<agents, runtime, runtimes, locked, run>> /\ StopOld(c, FALSE)
      BY <2>2 DEF StartReplaces, StartDisplaces, orchestratorVars, runVars
    <3>2. \A a \in AgentId : agent'[a].runtime = agent[a].runtime
      BY <3>1, OldStops DEF TypeInv
    <3> QED
      BY <1>0, <3>1, <3>2, LocksStay
  <2>3. CASE StartMakes(c)
    <3>1. agents = 0 \/ runtime # 0
      BY <2>3 DEF StartMakes, NoSecondRuntime
    <3> QED
      BY <1>0, <2>3, <3>1, LocksShared DEF StartMakes, runVars
  <2>4. CASE StartLaunches(c)
    <3>1. UNCHANGED <<agents, runtime, runtimes, locked, run>>
      BY <2>4 DEF StartLaunches, orchestratorVars, runVars
    <3> QED
      BY <1>0, <2>4, <3>1, LaunchTypes, LocksStay
  <2> QED
    BY <1>2, <2>1, <2>2, <2>3, <2>4 DEF StartStep
<1>3. ASSUME NEW c \in Clients, StopStep(c) PROVE LockFacts'
  <2>1. CASE StopUnregisters(c) \/ ReloadReads(c)
    BY <1>0, <2>1, LocksStay DEF StopUnregisters, ReloadReads, orchestratorVars, agentVars, runVars
  <2>2. CASE StopStops(c)
    <3>1. UNCHANGED <<agents, runtime, runtimes, locked, run>>
      BY <2>2 DEF StopStops, orchestratorVars, runVars
    <3> QED
      BY <1>0, <2>2, <3>1, AgentsStop, LocksStay
  <2>3. CASE DeleteWaited(c) \/ DeleteTimesOut(c) \/ DeleteErases(c)
    BY <1>0, <2>3, LocksStay DEF DeleteWaited, DeleteTimesOut, DeleteErases, orchestratorVars, agentVars, runVars
  <2>4. CASE DeleteForgets(c)
    BY <1>0, <2>4, LocksStay DEF DeleteForgets, agentVars, runVars
  <2> QED
    BY <1>3, <2>1, <2>2, <2>3, <2>4 DEF StopStep
<1>4. ASSUME NEW c \in Clients, TriggerStep(c) PROVE LockFacts'
  <2>1. CASE TriggerReads(c) \/ TriggerEnlists(c) \/ (TriggerMakes(c) /\ row = "deleted")
    BY <1>0, <2>1, LocksStay DEF TriggerReads, TriggerEnlists, TriggerMakes, orchestratorVars, agentVars, runVars
  <2>2. CASE TriggerMakes(c) /\ row # "deleted"
    <3>1. agents = 0 \/ runtime # 0
      BY <2>2 DEF TriggerMakes, NoSecondRuntime
    <3> QED
      BY <1>0, <2>2, <3>1, LocksShared DEF TriggerMakes, runVars
  <2>3. CASE TriggerFires(c)
    <3> DEFINE a == request[c].mine
    <3>1. a \in Made /\ UNCHANGED <<agent, agents, runtime, runtimes>>
      BY <2>3 DEF TriggerFires, At, TypeInv, RequestFacts, HasAgent, agentVars
    <3>2. PICK s \in Skills : UNCHANGED <<locked, run>> \/ RunBegins(a, s)
      BY <2>3 DEF TriggerFires, RunBegins
    <3> HIDE DEF a
    <3> QED
      BY <1>0, <3>1, <3>2, LocksStay, LocksTaken
  <2> QED
    BY <1>4, <2>1, <2>2, <2>3 DEF TriggerStep
<1>5. ASSUME NEW a \in AgentId, SchedulerStarts(a) \/ SchedulerEnds(a) PROVE LockFacts'
  <2>1. UNCHANGED <<agents, runtime, runtimes, locked, run>>
    BY <1>5 DEF SchedulerStarts, SchedulerEnds, threadFrame, runVars
  <2>2. PICK to \in Scheduler : agent' = [agent EXCEPT ![a].scheduler = to]
    BY <1>5 DEF SchedulerStarts, SchedulerEnds, Scheduler
  <2>3. \A b \in AgentId : agent'[b].runtime = agent[b].runtime
    BY <2>2 DEF TypeInv, AgentFacts, Agent
  <2> QED
    BY <1>0, <2>1, <2>3, LocksStay
<1>6. ASSUME NEW a \in AgentId, NEW s \in Skills, Dispatches(a, s) \/ JobGates(a, s) PROVE LockFacts'
  <2>1. UNCHANGED <<agent, agents, runtime, runtimes>>
    BY <1>6 DEF Dispatches, JobGates, threadFrame
  <2>2. UNCHANGED <<locked, run>> \/ (a \in Made /\ RunBegins(a, s))
    BY <1>6 DEF Dispatches, JobGates, RunBegins, TypeInv, RunFacts
  <2> QED
    BY <1>0, <2>1, <2>2, LocksStay, LocksTaken
<1>7. ASSUME NEW a \in AgentId, NEW s \in Skills, RunStarts(a, s) PROVE LockFacts'
  <2>1. /\ UNCHANGED <<agent, agents, runtime, runtimes, locked>> /\ run[<<a, s>>] = "gated"
        /\ run' = [run EXCEPT ![<<a, s>>] = "searching"] /\ run \in [Run -> {"none", "gated", "searching"}]
    BY <1>7 DEF RunStarts, threadFrame, TypeInv, RunFacts
  <2>2. \A b \in AgentId, u \in Skills : run'[<<b, u>>] # "none" => run[<<b, u>>] # "none"
    BY <2>1 DEF Run
  <2> QED
    BY <1>0, <2>1, <2>2 DEF LockFacts, OneRunPerSkill, Made
<1>8. ASSUME NEW a \in AgentId, NEW s \in Skills, RunEnds(a, s) PROVE LockFacts'
  BY <1>0, <1>8, LocksReturned
<1>9. ASSUME UNCHANGED vars PROVE LockFacts'
  BY <1>0, <1>9, LocksStay DEF vars, orchestratorVars, agentVars, runVars
<1> QED
  BY <1>0, <1>1, <1>2, <1>3, <1>4, <1>5, <1>6, <1>7, <1>8, <1>9 DEF Next, RunStep

\* Only a delete takes the runtime away.
LEMMA RuntimeKept ==
    ASSUME "delete" \notin Kinds, TypeInv, NeverDeletes, RuntimeStays, [Next]_vars
    PROVE  RuntimeStays'
<1>1. \A c \in Clients : ~DeleteForgets(c)
  BY DEF NeverDeletes, Deleting, DeleteForgets, At
<1>2. ASSUME NEW scheduler \in {"made", "throwaway"}, MakeAgent(scheduler)
      PROVE  RuntimeStays'
  BY <1>2, AgentMade DEF RuntimeStays, RuntimeId
<1>3. CASE UNCHANGED <<agents, runtime>>
  BY <1>3 DEF RuntimeStays
<1>4. ASSUME NEW c \in Clients, Begin(c) \/ StartStep(c) \/ StopStep(c) \/ TriggerStep(c)
      PROVE  UNCHANGED <<agents, runtime>> \/ MakeAgent("made") \/ MakeAgent("throwaway")
  BY <1>1, <1>4 DEF Begin, StartStep, StartReads, StartPops, StartReplaces, StartMakes, StartRegisters,
     StartDisplaces, StartLaunches, StopStep, StopUnregisters, StopStops, ReloadReads, DeleteWaited,
     DeleteTimesOut, DeleteErases, TriggerStep, TriggerReads, TriggerMakes, TriggerEnlists, TriggerFires,
     orchestratorVars, agentVars
<1>5. CASE RunStep \/ UNCHANGED vars
  BY <1>3, <1>5 DEF RunStep, SchedulerStarts, SchedulerEnds, Dispatches, JobGates, RunStarts, RunEnds,
     threadFrame, vars, orchestratorVars, agentVars
<1> QED
  BY <1>2, <1>3, <1>4, <1>5 DEF Next

\* OneRunPerSkill: as long as no request deletes the instance, at most one run
\* of a skill is under way, across every agent that saves, switches and force
\* runs create, because they share the runtime with its locks.
THEOREM LocksHold == "delete" \notin Kinds => (Spec => []OneRunPerSkill)
<1> SUFFICES ASSUME "delete" \notin Kinds PROVE Spec => []OneRunPerSkill
  OBVIOUS
<1>1. Init => TypeInv /\ LockInv
  BY TypeInit, LockInit
<1>2. TypeInv /\ LockInv /\ [Next]_vars => (TypeInv /\ LockInv)'
  <2>1. RuntimeStays => NoSecondRuntime
    BY DEF RuntimeStays, NoSecondRuntime
  <2> QED
    BY <2>1, TypeStep, LockStep, NeverDeletesStep, RuntimeKept DEF LockInv
<1>3. TypeInv /\ LockInv => OneRunPerSkill
  BY DEF LockInv, LockFacts
<1> QED
  BY <1>1, <1>2, <1>3, PTL DEF Spec

-----------------------------------------------------------------------------
(* Edits one at a time: no orphan, and what is enabled is scheduled for *)

TriggerPc == {"idle", "trigger", "throwaway", "enlist", "fire"}

\* The client switches, saves or deletes the instance.
Editing(c) == request[c].pc \notin TriggerPc

\* Edits of the instance do not overlap; force runs may, with them and with
\* each other.
OneEdit == \A c, d \in Clients : Editing(c) /\ Editing(d) => c = d

OnlyScheduler(b) == \A a \in AgentId : Scheduling(a) => a = b
Serves(a) == Scheduling(a) \/ agent[a].scheduler = "failed"

\* Between edits.
Settled ==
    /\ OnlyScheduler(registered)
    /\ IF row = "enabled" THEN registered # 0 /\ Serves(registered) ELSE registered = 0

\* At each place of an edit: which agent may still schedule, what is
\* registered, and what the edit has read of the row.
Stage(c) ==
    /\ request[c].pc \in {"unregister", "start", "pop"} => OnlyScheduler(registered)
    /\ request[c].pc \in {"stopping", "replace"} => registered = 0 /\ OnlyScheduler(request[c].old)
    /\ request[c].pc \in {"waiting", "forget", "erase", "reread", "make", "register"} =>
         registered = 0 /\ OnlyScheduler(0)
    /\ request[c].pc \in {"displace", "launch"} => registered = request[c].mine /\ OnlyScheduler(0)
    /\ request[c].pc = "displace" => request[c].old = 0
    /\ request[c].pc \in {"start", "pop", "replace", "make", "register", "displace", "launch"} => row = "enabled"
    /\ request[c].kind = "off" => row # "enabled"

EditInv ==
    /\ \A c \in Clients : Editing(c) => Stage(c)
    /\ (\A c \in Clients : ~Editing(c)) => Settled

\* No agent begins to schedule, and none that serves fails to.
AgentsStay ==
    \A a \in AgentId : /\ Scheduling(a)' => Scheduling(a)
                       /\ Serves(a) => Serves(a)'

\* An agent that is stopped does not schedule any more, nor does another begin to.
OldGone(b) == \A a \in AgentId : Scheduling(a)' => Scheduling(a) /\ a # b

LEMMA SameAgentsStay == UNCHANGED agent => AgentsStay
  BY DEF AgentsStay, Scheduling, Serves

\* A new agent has no thread yet.
LEMMA NewAgentStays ==
    ASSUME TypeInv, NEW scheduler \in {"made", "throwaway"}, MakeAgent(scheduler)
    PROVE  AgentsStay
<1>1. agents + 1 \in AgentId /\ agents + 1 \notin Made /\ agent \in [AgentId -> Agent]
  BY BoundsAssumption DEF MakeAgent, TypeInv, AgentFacts, AgentId, Made
<1>2. agent[agents + 1].scheduler = "made"
  BY <1>1 DEF TypeInv, AgentFacts
<1> DEFINE t == [NewAgent EXCEPT !.scheduler = scheduler, !.runtime = runtime']
<1>3. t.scheduler = scheduler
  BY DEF NewAgent
<1>4. agent' = [agent EXCEPT ![agents + 1] = t]
  BY DEF MakeAgent
<1> HIDE DEF t
<1>5. agent'[agents + 1] = t /\ \A a \in AgentId : a # agents + 1 => agent'[a] = agent[a]
  BY <1>1, <1>4
<1> QED
  BY <1>2, <1>3, <1>5 DEF AgentsStay, Scheduling, Serves

\* Stopping sets the event, whatever the thread does.
LEMMA StoppedRests ==
    ASSUME agent \in [AgentId -> Agent], NEW a \in AgentId, NEW abort \in BOOLEAN
    PROVE  Stopped(a, abort).stop = TRUE
<1>1. agent[a] \in Agent
  OBVIOUS
<1> QED
  BY <1>1 DEF Stopped, Agent

LEMMA OldRests ==
    ASSUME TypeInv, NEW c \in Clients, NEW abort \in BOOLEAN, StopOld(c, abort)
    PROVE  OldGone(request[c].old)
<1>1. agent \in [AgentId -> Agent] /\ request[c] \in Request /\ 0 \notin AgentId
  BY DEF TypeInv, AgentFacts, RequestFacts, AgentId
<1> DEFINE o == request[c].old
<1>2. CASE o = 0
  BY <1>1, <1>2 DEF StopOld, OldGone, Scheduling
<1>3. CASE o # 0
  <2>1. o \in AgentId
    BY <1>1, <1>3 DEF Request
  <2>2. agent' = [agent EXCEPT ![o] = Stopped(o, abort)]
    BY <1>3 DEF StopOld
  <2>3. Stopped(o, abort).stop = TRUE
    BY <1>1, <2>1, StoppedRests
  <2> HIDE DEF o
  <2>4. agent'[o].stop = TRUE /\ \A a \in AgentId : a # o => agent'[a] = agent[a]
    BY <1>1, <2>1, <2>2, <2>3
  <2>5. OldGone(o)
    BY <2>4 DEF OldGone, Scheduling
  <2> QED
    BY <2>5 DEF o
<1> QED
  BY <1>2, <1>3

LEMMA StoppedRest ==
    ASSUME TypeInv, NEW c \in Clients, StopStops(c)
    PROVE  OldGone(request[c].old)
<1>1. agent \in [AgentId -> Agent]
  BY DEF TypeInv, AgentFacts
<1>2. Aborts(c) \in BOOLEAN
  BY DEF Aborts
<1>3. \A a \in AgentId : Stopped(a, Aborts(c)).stop = TRUE
  <2> DEFINE abort == Aborts(c)
  <2>1. abort \in BOOLEAN
    BY <1>2
  <2> HIDE DEF abort
  <2>2. \A a \in AgentId : Stopped(a, abort).stop = TRUE
    BY <1>1, <2>1, StoppedRests
  <2> QED
    BY <2>2 DEF abort
<1>4. \A a \in AgentId : IF a = request[c].old THEN agent'[a] = Stopped(a, Aborts(c))
                         ELSE agent'[a] \in {[agent[a] EXCEPT !.abort = TRUE], agent[a]}
  BY DEF StopStops
<1>5. \A a \in AgentId : [agent[a] EXCEPT !.abort = TRUE].scheduler = agent[a].scheduler
                         /\ [agent[a] EXCEPT !.abort = TRUE].stop = agent[a].stop
  BY <1>1 DEF Agent
<1>6. ASSUME NEW a \in AgentId
      PROVE  IF a = request[c].old THEN agent'[a].stop = TRUE
             ELSE agent'[a].scheduler = agent[a].scheduler /\ agent'[a].stop = agent[a].stop
  <2>1. CASE a = request[c].old
    BY <1>3, <1>4, <2>1
  <2>2. CASE a # request[c].old
    <3>1. agent'[a] = agent[a] \/ agent'[a] = [agent[a] EXCEPT !.abort = TRUE]
      BY <1>4, <2>2
    <3> QED
      BY <1>5, <2>2, <3>1
  <2> QED
    BY <2>1, <2>2
<1> QED
  BY <1>6 DEF OldGone, Scheduling

\* Steps that are no edit's.
LEMMA EditsKept ==
    ASSUME TypeInv, EditInv, AgentsStay, UNCHANGED <<row, registered>>,
           \A d \in Clients : IF Editing(d) THEN request'[d] = request[d] ELSE request'[d].pc \in TriggerPc
    PROVE  EditInv'
<1>1. \A b : OnlyScheduler(b) => \A a \in AgentId : Scheduling(a)' => a = b
  BY DEF OnlyScheduler, AgentsStay
<1>2. \A d \in Clients : Editing(d)' => Editing(d) /\ request'[d] = request[d]
  BY DEF Editing
<1>3. \A d \in Clients : Editing(d) => Editing(d)'
  BY DEF Editing
<1>4. ASSUME NEW d \in Clients, Editing(d)' PROVE Stage(d)'
  <2>1. Stage(d) /\ request'[d] = request[d]
    BY <1>2, <1>4 DEF EditInv
  <2> QED
    BY <2>1, <1>1 DEF Stage, OnlyScheduler
<1>5. ASSUME \A d \in Clients : ~Editing(d)' PROVE Settled'
  <2>1. Settled
    BY <1>3, <1>5 DEF EditInv
  <2>2. registered # 0 => registered \in AgentId
    BY BoundsAssumption DEF TypeInv, OrchestratorFacts, AgentFacts, Made, AgentId
  <2>3. OnlyScheduler(registered)'
    BY <1>1, <2>1 DEF Settled, OnlyScheduler
  <2>4. row = "enabled" => Serves(registered)'
    <3>1. PICK r : r = registered
      OBVIOUS
    <3>2. row = "enabled" => r \in AgentId /\ Serves(r)
      BY <2>1, <2>2, <3>1 DEF Settled
    <3>3. row = "enabled" => Serves(r)'
      BY <3>2 DEF AgentsStay
    <3> QED
      BY <3>1, <3>3 DEF Serves, Scheduling
  <2> QED
    BY <2>1, <2>3, <2>4 DEF Settled
<1> QED
  BY <1>4, <1>5 DEF EditInv

\* The step of the only edit.
LEMMA EditGoes ==
    ASSUME TypeInv, OneEdit, NEW c \in Clients, Editing(c), NEW t \in Request,
           request' = [request EXCEPT ![c] = t],
           t.pc \in TriggerPc => Settled', t.pc \notin TriggerPc => Stage(c)'
    PROVE  EditInv'
<1>1. request'[c] = t /\ \A d \in Clients : d # c => request'[d] = request[d]
  BY DEF TypeInv, RequestFacts
<1>2. \A d \in Clients : d # c => ~Editing(d)'
  BY <1>1 DEF OneEdit, Editing
<1>3. Editing(c)' <=> t.pc \notin TriggerPc
  BY <1>1 DEF Editing
<1> QED
  BY <1>2, <1>3 DEF EditInv

\* An edit that ends.
LEMMA EditEnds ==
    ASSUME TypeInv, OneEdit, NEW c \in Clients, Editing(c), Done(c), Settled'
    PROVE  EditInv'
<1>1. NoRequest \in Request /\ NoRequest.pc \in TriggerPc
  BY RequestBegins DEF NoRequest, TriggerPc
<1> QED
  BY <1>1, EditGoes DEF Done

\* An edit that moves on.
LEMMA EditMoves ==
    ASSUME TypeInv, OneEdit, NEW c \in Clients, Editing(c), NEW pc \in RequestPc, Goto(c, pc)
    PROVE  /\ request'[c].pc = pc
           /\ request'[c].kind = request[c].kind
           /\ request'[c].old = request[c].old
           /\ request'[c].mine = request[c].mine
           /\ pc \notin TriggerPc /\ Stage(c)' => EditInv'
<1>1. request[c] \in Request /\ request \in [Clients -> Request]
  BY DEF TypeInv, RequestFacts
<1> DEFINE t == [request[c] EXCEPT !.pc = pc]
<1>2. t \in Request /\ t.pc = pc /\ t.kind = request[c].kind /\ t.old = request[c].old /\ t.mine = request[c].mine
  BY <1>1, RequestMoves DEF Request
<1>3. request' = [request EXCEPT ![c] = t]
  BY DEF Goto
<1>4. request'[c] = t
  BY <1>1, <1>3
<1> HIDE DEF t
<1>5. ASSUME pc \notin TriggerPc, Stage(c)' PROVE EditInv'
  BY <1>2, <1>3, <1>5, EditGoes
<1> QED
  BY <1>2, <1>4, <1>5

LEMMA BeginEdits ==
    ASSUME TypeInv, EditInv, OneEdit', NEW c \in Clients, Begin(c)
    PROVE  EditInv'
<1>1. PICK kind \in Kinds :
        /\ row' \in CASE kind = "on"   -> {"enabled"}
                      [] kind = "off"  -> {"disabled"}
                      [] kind = "save" -> {"enabled", "disabled"}
                      [] OTHER         -> {row}
        /\ request' = [request EXCEPT ![c] = [NoRequest EXCEPT !.kind = kind,
             !.pc = CASE kind = "on"      -> "start"
                      [] kind = "trigger" -> "trigger"
                      [] OTHER            -> "unregister"]]
  BY DEF Begin
<1> DEFINE pc == CASE kind = "on"      -> "start"
                   [] kind = "trigger" -> "trigger"
                   [] OTHER            -> "unregister"
           t == [NoRequest EXCEPT !.kind = kind, !.pc = pc]
<1>2. request' = [request EXCEPT ![c] = t] /\ t.kind = kind /\ t.pc = pc
  BY <1>1 DEF NoRequest
<1>3. /\ kind = "on" => pc = "start" /\ row' = "enabled"
      /\ kind = "trigger" => pc = "trigger" /\ row' = row
      /\ kind # "on" /\ kind # "trigger" => pc = "unregister"
      /\ kind = "off" => row' = "disabled"
  BY <1>1
<1> HIDE DEF t, pc
<1>4. request[c].pc = "idle" /\ UNCHANGED <<registered, agent>>
  BY DEF Begin, At, orchestratorVars, agentVars
<1>5. request'[c] = t /\ \A d \in Clients : d # c => request'[d] = request[d]
  BY <1>2 DEF TypeInv, RequestFacts
<1>6. CASE kind = "trigger"
  <2>1. AgentsStay
    BY <1>4, SameAgentsStay
  <2>2. \A d \in Clients : IF Editing(d) THEN request'[d] = request[d] ELSE request'[d].pc \in TriggerPc
    BY <1>2, <1>3, <1>4, <1>5, <1>6 DEF Editing, TriggerPc
  <2> QED
    BY <1>3, <1>4, <1>6, <2>1, <2>2, EditsKept
<1>7. CASE kind # "trigger"
  <2>1. Editing(c)'
    BY <1>2, <1>3, <1>5, <1>7 DEF Editing, TriggerPc
  <2>2. \A d \in Clients : d # c => ~Editing(d)' /\ ~Editing(d)
    BY <1>5, <2>1 DEF OneEdit, Editing
  <2>3. Settled
    BY <1>4, <2>2 DEF EditInv, Editing, TriggerPc
  <2>4. OnlyScheduler(registered)'
    BY <1>4, <2>3 DEF Settled, OnlyScheduler, Scheduling
  <2>5. request'[c].pc \in {"start", "unregister"} /\ (request'[c].pc = "start" => row' = "enabled")
        /\ (request'[c].kind = "off" => row' # "enabled")
    BY <1>2, <1>3, <1>5, <1>7
  <2>6. Stage(c)'
    BY <2>4, <2>5 DEF Stage
  <2> QED
    BY <2>1, <2>2, <2>6 DEF EditInv
<1> QED
  BY <1>6, <1>7

LEMMA StartEdits ==
    ASSUME TypeInv, EditInv, OneEdit, NEW c \in Clients, StartStep(c)
    PROVE  EditInv'
<1>0. /\ request[c] \in Request /\ request \in [Clients -> Request]
      /\ Editing(c) /\ Stage(c)
      /\ registered \in AgentId \cup {0} /\ 0 \notin AgentId /\ agent \in [AgentId -> Agent]
  <2>1. Editing(c)
    BY DEF StartStep, StartReads, StartPops, StartReplaces, StartMakes, StartRegisters, StartDisplaces,
           StartLaunches, At, Editing, TriggerPc
  <2> QED
    BY <2>1, BoundsAssumption DEF EditInv, TypeInv, RequestFacts, OrchestratorFacts, AgentFacts, Made, AgentId
<1>1. CASE StartReads(c)
  <2>1. OnlyScheduler(registered)' /\ UNCHANGED <<row, registered, agent>> /\ request[c].kind = request[c].kind
    BY <1>0, <1>1 DEF StartReads, At, Stage, OnlyScheduler, Scheduling, orchestratorVars, agentVars
  <2>2. row = "enabled" /\ Goto(c, "pop") /\ "pop" \in RequestPc /\ "pop" \notin TriggerPc
    BY <1>0, <1>1 DEF StartReads, At, Stage, RequestPc, TriggerPc
  <2>3. request'[c].pc = "pop" /\ request'[c].kind = request[c].kind
    BY <1>0, <2>2, EditMoves
  <2>4. Stage(c)'
    BY <1>0, <2>1, <2>2, <2>3 DEF Stage
  <2> QED
    BY <1>0, <2>2, <2>4, EditMoves
<1>2. CASE StartPops(c)
  <2> DEFINE t == [request[c] EXCEPT !.old = registered, !.pc = "replace"]
  <2>7. "replace" \in RequestPc
    BY DEF RequestPc
  <2>8. t \in Request
    BY <1>0, <2>7, RequestMoves
  <2>1. t \in Request /\ t.pc = "replace" /\ t.old = registered /\ t.kind = request[c].kind
    BY <1>0, <2>8 DEF Request
  <2>2. request' = [request EXCEPT ![c] = t]
    BY <1>2 DEF StartPops
  <2> HIDE DEF t
  <2>3. request'[c] = t
    BY <1>0, <2>2
  <2>4. registered' = 0 /\ UNCHANGED <<row, agent>> /\ OnlyScheduler(registered) /\ row = "enabled"
    BY <1>0, <1>2 DEF StartPops, At, Stage, agentVars
  <2>5. Stage(c)'
    BY <1>0, <2>1, <2>3, <2>4 DEF Stage, OnlyScheduler, Scheduling
  <2>6. t.pc \notin TriggerPc
    BY <2>1 DEF TriggerPc
  <2> QED
    BY <1>0, <2>1, <2>2, <2>5, <2>6, EditGoes
<1>3. CASE StartReplaces(c)
  <2>1. /\ registered = 0 /\ OnlyScheduler(request[c].old) /\ row = "enabled"
        /\ UNCHANGED <<row, registered>> /\ StopOld(c, FALSE)
        /\ Goto(c, "make") /\ "make" \in RequestPc /\ "make" \notin TriggerPc
    BY <1>0, <1>3 DEF StartReplaces, At, Stage, orchestratorVars, RequestPc, TriggerPc
  <2>2. OldGone(request[c].old)
    BY <2>1, OldRests
  <2>3. \A a \in AgentId : ~Scheduling(a)'
    BY <2>1, <2>2 DEF OldGone, OnlyScheduler
  <2>4. request'[c].pc = "make" /\ request'[c].kind = request[c].kind
    BY <1>0, <2>1, EditMoves
  <2>5. Stage(c)'
    BY <1>0, <2>1, <2>3, <2>4 DEF Stage, OnlyScheduler
  <2> QED
    BY <1>0, <2>1, <2>5, EditMoves
<1>4. CASE StartMakes(c)
  <2> DEFINE t == [request[c] EXCEPT !.mine = agents + 1, !.pc = "register"]
  <2>0. agents + 1 \in AgentId
    BY <1>4, BoundsAssumption DEF StartMakes, MakeAgent, TypeInv, AgentFacts, AgentId
  <2>8. "register" \in RequestPc
    BY DEF RequestPc
  <2>9. t \in Request
    BY <1>0, <2>0, <2>8, RequestMoves
  <2>1. t \in Request /\ t.pc = "register" /\ t.kind = request[c].kind
    BY <1>0, <2>9 DEF Request
  <2>2. request' = [request EXCEPT ![c] = t]
    BY <1>4 DEF StartMakes
  <2> HIDE DEF t
  <2>3. request'[c] = t
    BY <1>0, <2>2
  <2>4. registered = 0 /\ UNCHANGED <<row, registered>> /\ OnlyScheduler(0) /\ row = "enabled" /\ MakeAgent("made")
    BY <1>0, <1>4 DEF StartMakes, At, Stage
  <2>5. AgentsStay
    BY <2>4, NewAgentStays
  <2>6. Stage(c)'
    BY <1>0, <2>1, <2>3, <2>4, <2>5 DEF Stage, OnlyScheduler, AgentsStay
  <2>7. t.pc \notin TriggerPc
    BY <2>1 DEF TriggerPc
  <2> QED
    BY <1>0, <2>1, <2>2, <2>6, <2>7, EditGoes
<1>5. CASE StartRegisters(c)
  <2> DEFINE t == [request[c] EXCEPT !.old = registered, !.pc = "displace"]
  <2>7. "displace" \in RequestPc
    BY DEF RequestPc
  <2>8. t \in Request
    BY <1>0, <2>7, RequestMoves
  <2>1. t \in Request /\ t.pc = "displace" /\ t.old = registered /\ t.kind = request[c].kind /\ t.mine = request[c].mine
    BY <1>0, <2>8 DEF Request
  <2>2. request' = [request EXCEPT ![c] = t]
    BY <1>5 DEF StartRegisters
  <2> HIDE DEF t
  <2>3. request'[c] = t
    BY <1>0, <2>2
  <2>4. registered = 0 /\ registered' = request[c].mine /\ UNCHANGED <<row, agent>> /\ OnlyScheduler(0) /\ row = "enabled"
    BY <1>0, <1>5 DEF StartRegisters, At, Stage, agentVars
  <2>5. Stage(c)'
    BY <1>0, <2>1, <2>3, <2>4 DEF Stage, OnlyScheduler, Scheduling
  <2>6. t.pc \notin TriggerPc
    BY <2>1 DEF TriggerPc
  <2> QED
    BY <1>0, <2>1, <2>2, <2>5, <2>6, EditGoes
<1>6. CASE StartDisplaces(c)
  <2>1. /\ registered = request[c].mine /\ OnlyScheduler(0) /\ row = "enabled"
        /\ UNCHANGED <<row, registered>> /\ StopOld(c, FALSE)
        /\ Goto(c, "launch") /\ "launch" \in RequestPc /\ "launch" \notin TriggerPc
    BY <1>0, <1>6 DEF StartDisplaces, At, Stage, orchestratorVars, RequestPc, TriggerPc
  <2>2. OldGone(request[c].old)
    BY <2>1, OldRests
  <2>3. \A a \in AgentId : ~Scheduling(a)'
    BY <1>0, <2>1, <2>2 DEF OldGone, OnlyScheduler
  <2>4. request'[c].pc = "launch" /\ request'[c].kind = request[c].kind /\ request'[c].mine = request[c].mine
    BY <1>0, <2>1, EditMoves
  <2>5. Stage(c)'
    BY <1>0, <2>1, <2>3, <2>4 DEF Stage, OnlyScheduler
  <2> QED
    BY <1>0, <2>1, <2>5, EditMoves
<1>7. CASE StartLaunches(c)
  <2>8. PICK o : o = request[c].mine
    OBVIOUS
  <2> DEFINE t == [agent[o] EXCEPT !.stop = FALSE, !.abort = FALSE, !.scheduler = "starting"]
  <2>1. /\ registered = o /\ OnlyScheduler(0) /\ row = "enabled" /\ o # 0
        /\ UNCHANGED <<row, registered>> /\ Done(c)
    BY <1>0, <1>7, <2>8 DEF StartLaunches, At, Stage, orchestratorVars, TypeInv, RequestFacts, HasAgent
  <2>2. o \in AgentId
    BY <1>0, <2>1
  <2>3. agent' = [agent EXCEPT ![o] = t]
    BY <1>0, <1>7, <2>2, <2>8 DEF StartLaunches, Agent
  <2>4. t.scheduler = "starting" /\ t.stop = FALSE
    BY <1>0, <2>2 DEF Agent
  <2> HIDE DEF t
  <2>5. agent'[o] = t /\ \A a \in AgentId : a # o => agent'[a] = agent[a]
    BY <1>0, <2>2, <2>3
  <2>6. Scheduling(o)' /\ \A a \in AgentId : Scheduling(a)' => a = o
    BY <1>0, <2>1, <2>4, <2>5 DEF Scheduling, OnlyScheduler
  <2>7. Settled'
    BY <2>1, <2>6 DEF Settled, OnlyScheduler, Serves, Scheduling
  <2> QED
    BY <1>0, <2>1, <2>7, EditEnds
<1> QED
  BY <1>1, <1>2, <1>3, <1>4, <1>5, <1>6, <1>7 DEF StartStep

LEMMA StopEdits ==
    ASSUME TypeInv, EditInv, OneEdit, NEW c \in Clients, StopStep(c)
    PROVE  EditInv'
<1>0. /\ request[c] \in Request /\ request \in [Clients -> Request]
      /\ Editing(c) /\ Stage(c)
      /\ registered \in AgentId \cup {0} /\ 0 \notin AgentId
  <2>1. Editing(c)
    BY DEF StopStep, StopUnregisters, StopStops, ReloadReads, DeleteWaited, DeleteTimesOut, DeleteForgets,
           DeleteErases, At, Editing, TriggerPc
  <2> QED
    BY <2>1, BoundsAssumption DEF EditInv, TypeInv, RequestFacts, OrchestratorFacts, AgentFacts, Made, AgentId
<1>1. CASE StopUnregisters(c)
  <2> DEFINE thrown == IF Aborts(c) THEN adhoc ELSE {}
             t == [request[c] EXCEPT !.pc = "stopping", !.old = registered, !.thrown = thrown]
  <2>1. "stopping" \in RequestPc /\ thrown \in SUBSET AgentId
    BY DEF RequestPc, TypeInv, OrchestratorFacts
  <2>2. request' = [request EXCEPT ![c] = t]
    BY <1>1 DEF StopUnregisters
  <2> HIDE DEF thrown
  <2>3. t \in Request
    BY <1>0, <2>1, RequestMoves
  <2>4. t.pc = "stopping" /\ t.old = registered /\ t.kind = request[c].kind
    BY <1>0, <2>3 DEF Request
  <2> HIDE DEF t
  <2>5. request'[c] = t
    BY <1>0, <2>2
  <2>6. registered' = 0 /\ UNCHANGED <<row, agent>> /\ OnlyScheduler(registered)
    BY <1>0, <1>1 DEF StopUnregisters, At, Stage, agentVars
  <2>7. Stage(c)'
    BY <1>0, <2>4, <2>5, <2>6 DEF Stage, OnlyScheduler, Scheduling
  <2>8. t.pc \notin TriggerPc
    BY <2>4 DEF TriggerPc
  <2> QED
    BY <1>0, <2>2, <2>3, <2>7, <2>8, EditGoes
<1>2. CASE StopStops(c)
  <2>1. /\ registered = 0 /\ OnlyScheduler(request[c].old) /\ UNCHANGED <<row, registered>>
        /\ (request[c].kind = "off" => row # "enabled")
    BY <1>0, <1>2 DEF StopStops, At, Stage, orchestratorVars
  <2>2. OldGone(request[c].old)
    BY <1>2, StoppedRest
  <2>3. \A a \in AgentId : ~Scheduling(a)'
    BY <2>1, <2>2 DEF OldGone, OnlyScheduler
  <2>4. CASE request[c].kind = "off"
    <3>1. Settled'
      BY <2>1, <2>3, <2>4 DEF Settled, OnlyScheduler
    <3>2. Done(c)
      BY <1>2, <2>4 DEF StopStops
    <3> QED
      BY <1>0, <3>1, <3>2, EditEnds
  <2>5. CASE request[c].kind # "off"
    <3>1. PICK pc \in {"waiting", "reread"} : Goto(c, pc)
      BY <1>2, <2>5 DEF StopStops
    <3>2. pc \in RequestPc /\ pc \notin TriggerPc
      BY DEF RequestPc, TriggerPc
    <3>3. request'[c].pc = pc /\ request'[c].kind = request[c].kind
      BY <1>0, <3>1, <3>2, EditMoves
    <3>4. Stage(c)'
      BY <2>1, <2>3, <2>5, <3>3 DEF Stage, OnlyScheduler
    <3> QED
      BY <1>0, <3>1, <3>2, <3>4, EditMoves
  <2> QED
    BY <2>4, <2>5
<1>3. ASSUME NEW pc \in {"start", "forget", "erase"}, Goto(c, pc), UNCHANGED <<row, registered, agent>>,
             request[c].pc \in {"waiting", "forget", "reread"}, pc = "start" => row = "enabled"
      PROVE  EditInv'
  <2>1. pc \in RequestPc /\ pc \notin TriggerPc
    BY DEF RequestPc, TriggerPc
  <2>2. registered = 0 /\ OnlyScheduler(0) /\ (request[c].kind = "off" => row # "enabled")
    BY <1>0, <1>3 DEF Stage
  <2>3. request'[c].pc = pc /\ request'[c].kind = request[c].kind
    BY <1>0, <1>3, <2>1, EditMoves
  <2>4. Stage(c)'
    BY <1>3, <2>2, <2>3 DEF Stage, OnlyScheduler, Scheduling
  <2> QED
    BY <1>0, <1>3, <2>1, <2>4, EditMoves
<1>4. ASSUME Done(c), UNCHANGED <<registered, agent>>, row' # "enabled", request[c].pc \in {"reread", "erase"}
      PROVE  EditInv'
  <2>1. registered = 0 /\ OnlyScheduler(0)
    BY <1>0, <1>4 DEF Stage
  <2>2. Settled'
    BY <1>4, <2>1 DEF Settled, OnlyScheduler, Scheduling
  <2> QED
    BY <1>0, <1>4, <2>2, EditEnds
<1>5. CASE ReloadReads(c)
  BY <1>3, <1>4, <1>5 DEF ReloadReads, At, orchestratorVars, agentVars
<1>6. CASE DeleteWaited(c)
  BY <1>3, <1>6 DEF DeleteWaited, At, orchestratorVars, agentVars
<1>7. CASE DeleteForgets(c)
  BY <1>3, <1>7 DEF DeleteForgets, At, agentVars
<1>8. CASE DeleteErases(c)
  BY <1>4, <1>8 DEF DeleteErases, At, orchestratorVars, agentVars
<1>9. CASE DeleteTimesOut(c)
  <2> DEFINE t == [request[c] EXCEPT !.kind = "save", !.pc = "unregister"]
  <2>1. "save" \in RequestKinds /\ "unregister" \in RequestPc
    BY DEF RequestKinds, RequestPc
  <2>2. t \in Request
    BY <1>0, <2>1, RequestMoves
  <2>3. t.pc = "unregister" /\ t.kind = "save"
    BY <1>0, <2>2 DEF Request
  <2>4. request' = [request EXCEPT ![c] = t]
    BY <1>9 DEF DeleteTimesOut, BringsBack
  <2> HIDE DEF t
  <2>5. request'[c] = t
    BY <1>0, <2>4
  <2>6. registered = 0 /\ OnlyScheduler(0) /\ UNCHANGED <<registered, agent>>
    BY <1>0, <1>9 DEF DeleteTimesOut, At, Stage, orchestratorVars, agentVars
  <2>7. Stage(c)'
    BY <2>3, <2>5, <2>6 DEF Stage, OnlyScheduler, Scheduling
  <2>8. t.pc \notin TriggerPc
    BY <2>3 DEF TriggerPc
  <2> QED
    BY <1>0, <2>2, <2>4, <2>7, <2>8, EditGoes
<1> QED
  BY <1>1, <1>2, <1>5, <1>6, <1>7, <1>8, <1>9 DEF StopStep

\* Force runs beside an edit.
LEMMA TriggerEdits ==
    ASSUME TypeInv, EditInv, NEW c \in Clients, TriggerStep(c)
    PROVE  EditInv'
<1>1. request[c].pc \in TriggerPc /\ request[c] \in Request /\ request \in [Clients -> Request]
  BY DEF TriggerStep, TriggerReads, TriggerMakes, TriggerEnlists, TriggerFires, At, TriggerPc, TypeInv, RequestFacts
<1>2. UNCHANGED <<row, registered>>
  BY DEF TriggerStep, TriggerReads, TriggerMakes, TriggerEnlists, TriggerFires, orchestratorVars
<1>3. AgentsStay
  <2>1. UNCHANGED agent \/ MakeAgent("throwaway")
    BY DEF TriggerStep, TriggerReads, TriggerMakes, TriggerEnlists, TriggerFires, agentVars
  <2> QED
    BY <2>1, SameAgentsStay, NewAgentStays
<1>4. PICK t : request' = [request EXCEPT ![c] = t] /\ t.pc \in TriggerPc
  <2>1. CASE TriggerReads(c)
    <3> DEFINE pc == IF registered # 0 THEN "fire" ELSE "throwaway"
               t == [request[c] EXCEPT !.mine = registered, !.pc = pc]
    <3>1. request' = [request EXCEPT ![c] = t]
      BY <2>1 DEF TriggerReads
    <3>2. t.pc = pc /\ pc \in TriggerPc
      BY <1>1 DEF Request, TriggerPc
    <3> HIDE DEF t, pc
    <3> QED
      BY <3>1, <3>2
  <2>2. ASSUME request' = [request EXCEPT ![c].mine = agents + 1, ![c].pc = "enlist"]
        PROVE  \E t : request' = [request EXCEPT ![c] = t] /\ t.pc \in TriggerPc
    <3> DEFINE t == [request[c] EXCEPT !.mine = agents + 1, !.pc = "enlist"]
    <3>1. request' = [request EXCEPT ![c] = t]
      BY <2>2
    <3>2. t.pc \in TriggerPc
      BY <1>1 DEF Request, TriggerPc
    <3> HIDE DEF t
    <3> QED
      BY <3>1, <3>2
  <2>3. ASSUME Goto(c, "fire")
        PROVE  \E t : request' = [request EXCEPT ![c] = t] /\ t.pc \in TriggerPc
    <3> DEFINE t == [request[c] EXCEPT !.pc = "fire"]
    <3>1. request' = [request EXCEPT ![c] = t]
      BY <2>3 DEF Goto
    <3>2. t.pc \in TriggerPc
      BY <1>1 DEF Request, TriggerPc
    <3> HIDE DEF t
    <3> QED
      BY <3>1, <3>2
  <2>4. ASSUME Done(c)
        PROVE  \E t : request' = [request EXCEPT ![c] = t] /\ t.pc \in TriggerPc
    <3>1. NoRequest.pc \in TriggerPc
      BY DEF NoRequest, TriggerPc
    <3> QED
      BY <2>4, <3>1 DEF Done
  <2>5. TriggerMakes(c) => Done(c) \/ request' = [request EXCEPT ![c].mine = agents + 1, ![c].pc = "enlist"]
    BY DEF TriggerMakes
  <2>6. (TriggerEnlists(c) => Goto(c, "fire")) /\ (TriggerFires(c) => Done(c))
    BY DEF TriggerEnlists, TriggerFires
  <2> QED
    BY <2>1, <2>2, <2>3, <2>4, <2>5, <2>6 DEF TriggerStep
<1>5. \A d \in Clients : IF Editing(d) THEN request'[d] = request[d] ELSE request'[d].pc \in TriggerPc
  BY <1>1, <1>4 DEF Editing
<1> QED
  BY <1>2, <1>3, <1>5, EditsKept

\* The threads of the agents, which serve or fail but never take over.
LEMMA RunEdits ==
    ASSUME TypeInv, EditInv, RunStep
    PROVE  EditInv'
<1>1. UNCHANGED <<row, registered, request>>
  BY DEF RunStep, SchedulerStarts, SchedulerEnds, Dispatches, JobGates, RunStarts, RunEnds, threadFrame, requestVars
<1>2. AgentsStay
  <2>0. agent \in [AgentId -> Agent]
    BY DEF TypeInv, AgentFacts
  <2>1. ASSUME NEW a \in AgentId, SchedulerStarts(a) PROVE AgentsStay
    <3>1. PICK to \in {"running", "failed"} : agent' = [agent EXCEPT ![a].scheduler = to]
      BY <2>1 DEF SchedulerStarts
    <3>2. agent[a].scheduler = "starting"
      BY <2>1 DEF SchedulerStarts
    <3>3. agent'[a].scheduler = to /\ agent'[a].stop = agent[a].stop
      BY <2>0, <3>1 DEF Agent
    <3>4. \A b \in AgentId : b # a => agent'[b] = agent[b]
      BY <2>0, <3>1
    <3>5. ASSUME NEW b \in AgentId
          PROVE  (Scheduling(b)' => Scheduling(b)) /\ (Serves(b) => Serves(b)')
      <4>1. CASE b # a
        BY <3>4, <4>1 DEF Scheduling, Serves
      <4>2. CASE b = a /\ to = "running"
        BY <3>2, <3>3, <4>2 DEF Scheduling, Serves
      <4>3. CASE b = a /\ to = "failed"
        BY <3>2, <3>3, <4>3 DEF Scheduling, Serves
      <4> QED
        BY <4>1, <4>2, <4>3
    <3> QED
      BY <3>5 DEF AgentsStay
  <2>2. ASSUME NEW a \in AgentId, SchedulerEnds(a) PROVE AgentsStay
    <3>1. agent' = [agent EXCEPT ![a].scheduler = "ended"] /\ agent[a].scheduler = "running" /\ agent[a].stop
      BY <2>2 DEF SchedulerEnds
    <3>2. agent'[a].scheduler = "ended"
      BY <2>0, <3>1 DEF Agent
    <3>3. \A b \in AgentId : b # a => agent'[b] = agent[b]
      BY <2>0, <3>1
    <3> QED
      BY <2>0, <3>1, <3>2, <3>3 DEF AgentsStay, Scheduling, Serves
  <2>3. ASSUME NEW a \in AgentId, NEW s \in Skills,
               Dispatches(a, s) \/ JobGates(a, s) \/ RunStarts(a, s) \/ RunEnds(a, s)
        PROVE  AgentsStay
    BY <2>3, SameAgentsStay DEF Dispatches, JobGates, RunStarts, RunEnds
  <2> QED
    BY <2>1, <2>2, <2>3 DEF RunStep
<1>3. \A d \in Clients : IF Editing(d) THEN request'[d] = request[d] ELSE request'[d].pc \in TriggerPc
  BY <1>1 DEF Editing
<1> QED
  BY <1>1, <1>2, <1>3, EditsKept

LEMMA EditInit == Init => EditInv
<1> SUFFICES ASSUME Init PROVE EditInv
  OBVIOUS
<1>1. \A c \in Clients : ~Editing(c)
  BY DEF Init, Editing, NoRequest, TriggerPc
<1>2. \A a \in AgentId : ~Scheduling(a)
  BY DEF Init, Scheduling, NewAgent
<1>3. row # "enabled" /\ registered = 0
  BY DEF Init
<1> QED
  BY <1>1, <1>2, <1>3 DEF EditInv, Settled, OnlyScheduler

LEMMA EditStep == TypeInv /\ EditInv /\ OneEdit /\ OneEdit' /\ [Next]_vars => EditInv'
<1> SUFFICES ASSUME TypeInv, EditInv, OneEdit, OneEdit', [Next]_vars PROVE EditInv'
  OBVIOUS
<1>1. ASSUME NEW c \in Clients, Begin(c) PROVE EditInv'
  BY <1>1, BeginEdits
<1>2. ASSUME NEW c \in Clients, StartStep(c) PROVE EditInv'
  BY <1>2, StartEdits
<1>3. ASSUME NEW c \in Clients, StopStep(c) PROVE EditInv'
  BY <1>3, StopEdits
<1>4. ASSUME NEW c \in Clients, TriggerStep(c) PROVE EditInv'
  BY <1>4, TriggerEdits
<1>5. CASE RunStep
  BY <1>5, RunEdits
<1>6. CASE UNCHANGED vars
  <2>1. UNCHANGED <<row, registered, agent, request>>
    BY <1>6 DEF vars, orchestratorVars, agentVars, requestVars
  <2> QED
    BY <2>1 DEF EditInv, Editing, Stage, Settled, OnlyScheduler, Scheduling, Serves
<1> QED
  BY <1>1, <1>2, <1>3, <1>4, <1>5, <1>6 DEF Next

\* Between requests no client edits.
LEMMA QuietIsSettled == EditInv /\ Quiet => Settled
  BY DEF EditInv, Quiet, At, Editing, TriggerPc

LEMMA EditsAreSafe == Spec /\ []OneEdit => []EditInv
<1>1. Init => TypeInv /\ EditInv
  BY TypeInit, EditInit
<1>2. TypeInv /\ EditInv /\ OneEdit /\ OneEdit' /\ [Next]_vars => (TypeInv /\ EditInv)'
  BY TypeStep, EditStep
<1> QED
  BY <1>1, <1>2, PTL DEF Spec

\* EnabledIsScheduled: as long as the edits of the instance come one at a time, with
\* any number of force runs beside them, an enabled instance has a
\* registered agent that schedules, or failed to start, and one that is not
\* enabled has none, whatever switches, saves and refused deletes came before.
THEOREM EnabledHasAgent == Spec /\ []OneEdit => []EnabledIsScheduled
<1>1. EditInv => EnabledIsScheduled
  BY QuietIsSettled DEF EnabledIsScheduled, Settled, Serves
<1> QED
  BY <1>1, EditsAreSafe, PTL

-----------------------------------------------------------------------------
(* One run per skill, deletes included *)

\* Between the forgetting and the deletion of the row nobody is about to make
\* a throwaway agent, which would get a runtime, and locks, of its own.
ForgetsAlone == \A c, d \in Clients : At(c, "erase") => ~At(d, "throwaway")

\* The runtime is missing only from the forgetting on; then no edit follows.
GoneForGood ==
    agents # 0 /\ runtime = 0 =>
        \/ \E c \in Clients : At(c, "erase")
        \/ row = "deleted" /\ \A c \in Clients : ~Editing(c)

LEMMA GoneStep ==
    ASSUME TypeInv, GoneForGood, OneEdit, [Next]_vars
    PROVE  GoneForGood'
<1>0. request \in [Clients -> Request] /\ NoRequest.pc = "idle"
  BY DEF TypeInv, RequestFacts, NoRequest
<1>1. ASSUME NEW scheduler \in {"made", "throwaway"}, MakeAgent(scheduler)
      PROVE  GoneForGood'
  BY <1>1, AgentMade DEF GoneForGood, RuntimeId
<1>2. CASE UNCHANGED <<agents, runtime, row, request>>
  BY <1>2 DEF GoneForGood, At, Editing
<1>3. ASSUME NEW c \in Clients, DeleteForgets(c)
      PROVE  GoneForGood'
  <2>1. request' = [request EXCEPT ![c].pc = "erase"]
    BY <1>3 DEF DeleteForgets, Goto
  <2>2. request'[c].pc = "erase"
    BY <1>0, <2>1 DEF Request
  <2> QED
    BY <2>2 DEF GoneForGood, At
<1>4. ASSUME NEW c \in Clients, DeleteErases(c)
      PROVE  GoneForGood'
  <2>1. row' = "deleted" /\ request' = [request EXCEPT ![c] = NoRequest] /\ request[c].pc = "erase"
    BY <1>4 DEF DeleteErases, Done, At
  <2>2. \A d \in Clients : d # c => ~Editing(d)
    BY <2>1 DEF OneEdit, Editing, TriggerPc
  <2>3. \A d \in Clients : ~Editing(d)'
    BY <1>0, <2>1, <2>2 DEF Editing, TriggerPc
  <2> QED
    BY <2>1, <2>3 DEF GoneForGood
\* The other steps of a client: one at "erase" takes none, and without an edit
\* of a deleted row there are only those of force runs.
<1>5. ASSUME NEW c \in Clients, UNCHANGED <<agents, runtime>>, request[c].pc # "erase",
             \A d \in Clients : d # c => request'[d] = request[d],
             row = "deleted" /\ ~Editing(c) => row' = "deleted" /\ ~Editing(c)'
      PROVE  GoneForGood'
  <2>2. ASSUME NEW d \in Clients, At(d, "erase")
        PROVE  At(d, "erase")'
    BY <1>5, <2>2 DEF At
  <2>3. ASSUME row = "deleted", \A d \in Clients : ~Editing(d)
        PROVE  row' = "deleted" /\ \A d \in Clients : ~Editing(d)'
    BY <1>5, <2>3 DEF Editing
  <2> QED
    BY <1>5, <2>2, <2>3 DEF GoneForGood
<1>6. ASSUME NEW c \in Clients, Begin(c)
      PROVE  GoneForGood'
  <2>1. UNCHANGED <<agents, runtime>> /\ request[c].pc = "idle" /\ row # "deleted"
    BY <1>6 DEF Begin, At, orchestratorVars, agentVars
  <2>2. \A d \in Clients : d # c => request'[d] = request[d]
    BY <1>0, <1>6 DEF Begin
  <2> QED
    BY <1>5, <2>1, <2>2
<1>7. ASSUME NEW c \in Clients, StartStep(c) \/ StopStep(c), UNCHANGED <<agents, runtime>>, ~DeleteErases(c)
      PROVE  GoneForGood'
  <2>1. Editing(c) /\ request[c].pc # "erase"
    BY <1>7 DEF Editing, TriggerPc, StartStep, StartReads, StartPops, StartReplaces, StartMakes, StartRegisters,
       StartDisplaces, StartLaunches, StopStep, StopUnregisters, StopStops, ReloadReads, DeleteWaited,
       DeleteTimesOut, DeleteForgets, At
  <2>2. \A d \in Clients : d # c => request'[d] = request[d]
    BY <1>0, <1>7 DEF StartStep, StartReads, StartPops, StartReplaces, StartMakes, StartRegisters,
       StartDisplaces, StartLaunches, StopStep, StopUnregisters, StopStops, ReloadReads, DeleteWaited,
       DeleteTimesOut, BringsBack, DeleteForgets, Goto, Done
  <2> QED
    BY <1>5, <1>7, <2>1, <2>2
<1>8. ASSUME NEW c \in Clients, TriggerStep(c), UNCHANGED <<agents, runtime>>
      PROVE  GoneForGood'
  <2>1. row' = row /\ request[c].pc # "erase"
    BY <1>8 DEF TriggerStep, TriggerReads, TriggerMakes, TriggerEnlists, TriggerFires, At
  <2>2. \A d \in Clients : d # c => request'[d] = request[d]
    BY <1>0, <1>8 DEF TriggerStep, TriggerReads, TriggerMakes, TriggerEnlists, TriggerFires, Goto, Done
  <2>3. request'[c].pc \in TriggerPc
    BY <1>0, <1>8 DEF TriggerStep, TriggerReads, TriggerMakes, TriggerEnlists, TriggerFires, Goto, Done,
       Request, TriggerPc
  <2> QED
    BY <1>5, <1>8, <2>1, <2>2, <2>3 DEF Editing
<1>9. ASSUME NEW c \in Clients, StartStep(c) \/ StopStep(c) \/ TriggerStep(c)
      PROVE  \/ UNCHANGED <<agents, runtime>> \/ MakeAgent("made") \/ MakeAgent("throwaway")
             \/ DeleteForgets(c)
  BY <1>9 DEF StartStep, StartReads, StartPops, StartReplaces, StartMakes, StartRegisters,
     StartDisplaces, StartLaunches, StopStep, StopUnregisters, StopStops, ReloadReads, DeleteWaited,
     DeleteTimesOut, DeleteErases, TriggerStep, TriggerReads, TriggerMakes, TriggerEnlists, TriggerFires,
     orchestratorVars, agentVars
<1>10. CASE RunStep \/ UNCHANGED vars
  <2>1. UNCHANGED <<agents, runtime, row, request>>
    BY <1>10 DEF RunStep, SchedulerStarts, SchedulerEnds, Dispatches, JobGates, RunStarts, RunEnds,
       threadFrame, vars, orchestratorVars, agentVars, requestVars
  <2> QED
    BY <1>2, <2>1
<1>11. ASSUME NEW c \in Clients, StartStep(c) \/ StopStep(c) \/ TriggerStep(c)
       PROVE  GoneForGood'
  BY <1>1, <1>3, <1>4, <1>7, <1>8, <1>9, <1>11
<1> QED
  BY <1>6, <1>10, <1>11 DEF Next

\* OneRunPerSkill: the instance may be deleted too, and the delete refused.  A
\* delete drops the runtime with its locks; where edits come one at a time and
\* nobody makes a throwaway agent just then, no agent ever gets another.
THEOREM DeletesKeepLocks == Spec /\ []OneEdit /\ []ForgetsAlone => []OneRunPerSkill
<1>1. Init => TypeInv /\ LockFacts /\ GoneForGood
  BY TypeInit, LockInit DEF LockInv, Init, GoneForGood
<1>2. TypeInv /\ GoneForGood /\ OneEdit /\ ForgetsAlone => NoSecondRuntime
  <2>1. SUFFICES ASSUME GoneForGood, OneEdit, ForgetsAlone, agents # 0, runtime = 0, NEW d \in Clients
                 PROVE  ~At(d, "make") /\ (At(d, "throwaway") => row = "deleted")
    BY DEF NoSecondRuntime
  <2>2. CASE row = "deleted" /\ \A c \in Clients : ~Editing(c)
    BY <2>2 DEF Editing, TriggerPc, At
  <2>3. ASSUME NEW c \in Clients, At(c, "erase")
        PROVE  ~At(d, "make") /\ ~At(d, "throwaway")
    BY <2>1, <2>3 DEF OneEdit, ForgetsAlone, Editing, TriggerPc, At
  <2> QED
    BY <2>1, <2>2, <2>3 DEF GoneForGood
<1>3. TypeInv /\ LockFacts /\ GoneForGood /\ OneEdit /\ ForgetsAlone /\ [Next]_vars
      => TypeInv' /\ LockFacts' /\ GoneForGood'
  BY <1>2, TypeStep, LockStep, GoneStep
<1>4. LockFacts => OneRunPerSkill
  BY DEF LockFacts
<1> QED
  BY <1>1, <1>3, <1>4, PTL DEF Spec

-----------------------------------------------------------------------------
(* Switching off reaches what runs *)

Thrownaway(a) == agent[a].scheduler = "throwaway"

\* While switching off or deleting has taken the agents out and not stopped
\* them yet, no force run starts on a throwaway agent it has not seen.
OffAlone ==
    \A c, d \in Clients :
        At(c, "stopping") /\ Aborts(c) /\ At(d, "fire") => ~Thrownaway(request[d].mine)

\* The agents a request has in hand to stop them.
Held(c, a) ==
    \/ request[c].pc \in {"stopping", "replace"} /\ request[c].old = a
    \/ request[c].pc = "stopping" /\ a \in request[c].thrown

\* An agent that was told to end, or that the next request to switch off finds.
Reached(a) ==
    \/ agent[a].stop \/ agent[a].abort
    \/ registered = a \/ a \in adhoc
    \/ \E c \in Clients : Held(c, a)

Aiming(c) == request[c].pc \in {"enlist", "fire"}
Preparing(c) == request[c].pc \in {"register", "displace", "launch"}

RunsReached == \A a \in AgentId : Running(a) => Reached(a)
FiresReached == \A c \in Clients, a \in AgentId : At(c, "fire") /\ request[c].mine = a => Reached(a)

\* Jobs come from schedulers; what is made for a start has no thread yet, and
\* only throwaway agents are kept aside.
JobsServed ==
    \A a \in AgentId, s \in Skills : <<a, s>> \in jobs =>
        agent[a].scheduler \notin {"made", "throwaway"} /\ (agent[a].stop \/ agent[a].scheduler = "running")
MadeRests == \A a \in AgentId : agent[a].scheduler = "made" => ~Running(a)
MineMade == \A c \in Clients : Preparing(c) => agent[request[c].mine].scheduler = "made"
OwnPlaces ==
    /\ \A a \in adhoc : Thrownaway(a)
    /\ registered # 0 => ~Thrownaway(registered)
    /\ \A c \in Clients : At(c, "enlist") => Thrownaway(request[c].mine)

\* A throwaway agent is made for one force run.
RunsOnce ==
    \A a \in AgentId : Thrownaway(a) =>
        \A s, t \in Skills : run[<<a, s>>] # "none" /\ run[<<a, t>>] # "none" => s = t
ThrownOnce ==
    \A c \in Clients : Aiming(c) /\ Thrownaway(request[c].mine) =>
        /\ ~Running(request[c].mine)
        /\ \A d \in Clients : Aiming(d) /\ request[d].mine = request[c].mine => d = c

\* Who switches off has taken every running throwaway agent.
OffTakes == \A c \in Clients : At(c, "stopping") /\ Aborts(c) => \A a \in adhoc : ~Running(a)

ReachInv ==
    /\ RunsReached /\ FiresReached
    /\ JobsServed /\ MadeRests /\ MineMade /\ OwnPlaces
    /\ RunsOnce /\ ThrownOnce /\ OffTakes

\* Agents are stopped, told to abort, or their threads go on.
AgentsTold ==
    \A a \in AgentId :
        /\ Thrownaway(a)' <=> Thrownaway(a)
        /\ agent'[a].scheduler = "made" <=> agent[a].scheduler = "made"
        /\ agent[a].stop => agent'[a].stop
        /\ agent[a].abort => agent'[a].abort
        /\ agent[a].scheduler = "running" => agent'[a].scheduler = "running" \/ agent'[a].stop

\* What the parts of the invariant rest on.
LEMMA Ranges ==
    ASSUME TypeInv
    PROVE  /\ agent \in [AgentId -> Agent] /\ request \in [Clients -> Request]
           /\ run \in [Run -> {"none", "gated", "searching"}]
           /\ registered \in AgentId \cup {0} /\ 0 \notin AgentId /\ adhoc \subseteq AgentId
           /\ \A c \in Clients : /\ request[c] \in Request
                                  /\ request[c].mine \in AgentId \cup {0}
                                  /\ request[c].old \in AgentId \cup {0}
                                  /\ request[c].thrown \subseteq AgentId
           /\ \A c \in Clients : Aiming(c) \/ Preparing(c) => request[c].mine \in AgentId
<1>1. \A c \in Clients : request[c] \in Request
  BY DEF TypeInv, RequestFacts
<1>2. Made \subseteq AgentId /\ 0 \notin AgentId
  BY BoundsAssumption DEF TypeInv, AgentFacts, Made, AgentId
<1>3. \A c \in Clients : Aiming(c) \/ Preparing(c) => request[c].pc \in HasAgent
  BY DEF Aiming, Preparing, HasAgent
<1>4. \A c \in Clients : request[c].mine \in Made \cup {0} /\ (request[c].pc \in HasAgent => request[c].mine # 0)
  BY DEF TypeInv, RequestFacts
<1>5. \A c \in Clients : request[c].old \in AgentId \cup {0} /\ request[c].thrown \subseteq AgentId
  BY <1>1 DEF Request
<1>6. registered \in AgentId \cup {0} /\ adhoc \subseteq AgentId
  BY <1>2 DEF TypeInv, OrchestratorFacts
<1>7. \A c \in Clients : request[c].mine \in AgentId \cup {0} /\ (Aiming(c) \/ Preparing(c) => request[c].mine \in AgentId)
  BY <1>2, <1>3, <1>4
<1> QED
  BY <1>1, <1>2, <1>5, <1>6, <1>7 DEF TypeInv, AgentFacts, RequestFacts, RunFacts

\* Steps that leave runs and jobs alone, make nothing and aim at nothing.
LEMMA ReachKept ==
    ASSUME TypeInv, ReachInv, AgentsTold, UNCHANGED <<run, jobs>>, adhoc' \subseteq adhoc,
           \A a \in AgentId : Reached(a) => Reached(a)',
           registered' # 0 => registered' \in AgentId /\ agent[registered'].scheduler # "throwaway",
           \A d \in Clients : Aiming(d)' => request'[d] = request[d],
           \A d \in Clients : Preparing(d)' => Preparing(d) /\ request'[d].mine = request[d].mine,
           \A d \in Clients : (At(d, "stopping") /\ Aborts(d))' => (At(d, "stopping") /\ Aborts(d)) \/ adhoc' = {}
    PROVE  ReachInv'
<1>0. /\ registered \in AgentId \cup {0} /\ adhoc \subseteq AgentId
      /\ \A c \in Clients : Aiming(c) \/ Preparing(c) => request[c].mine \in AgentId
  <2>1. registered \in AgentId \cup {0} /\ adhoc \subseteq AgentId
    BY Ranges, Zenon
  <2>2. \A c \in Clients : Aiming(c) \/ Preparing(c) => request[c].mine \in AgentId
    BY Ranges, Zenon
  <2> QED
    BY <2>1, <2>2
<1>1. \A a \in AgentId : Running(a)' <=> Running(a)
  BY DEF Running
<1>2. \A d \in Clients : Aiming(d)' => Aiming(d) /\ request'[d].mine = request[d].mine /\ request'[d].pc = request[d].pc
  BY DEF Aiming
<1>3. RunsReached'
  BY <1>1 DEF ReachInv, RunsReached
<1>4. FiresReached'
  <2> SUFFICES ASSUME NEW c \in Clients, NEW a \in AgentId, At(c, "fire")', request'[c].mine = a
               PROVE  Reached(a)'
    BY DEF FiresReached
  <2>1. Aiming(c)'
    BY DEF At, Aiming
  <2>2. At(c, "fire") /\ request[c].mine = a
    BY <1>2, <2>1 DEF At
  <2> QED
    BY <2>2 DEF ReachInv, FiresReached
<1>5. JobsServed' /\ MadeRests' /\ MineMade'
  BY <1>0, <1>1 DEF ReachInv, JobsServed, MadeRests, MineMade, AgentsTold, Thrownaway
<1>6. OwnPlaces'
  <2>1. \A a \in adhoc' : Thrownaway(a)'
    BY <1>0 DEF ReachInv, OwnPlaces, AgentsTold
  <2>2. \A c \in Clients : At(c, "enlist")' => agent'[request'[c].mine].scheduler = "throwaway"
    BY <1>0, <1>2 DEF ReachInv, OwnPlaces, AgentsTold, At, Aiming, Thrownaway
  <2>3. registered' # 0 => agent'[registered'].scheduler # "throwaway"
    BY DEF AgentsTold, Thrownaway
  <2> QED
    BY <2>1, <2>2, <2>3 DEF OwnPlaces, Thrownaway
<1>7. RunsOnce' /\ ThrownOnce'
  BY <1>0, <1>1, <1>2 DEF ReachInv, RunsOnce, ThrownOnce, AgentsTold, Thrownaway
<1>8. OffTakes'
  BY <1>0, <1>1 DEF ReachInv, OffTakes
<1> QED
  BY <1>3, <1>4, <1>5, <1>6, <1>7, <1>8 DEF ReachInv

LEMMA ReachInit == Init => ReachInv
<1> SUFFICES ASSUME Init PROVE ReachInv
  OBVIOUS
<1>1. \A c \in Clients : request[c].pc = "idle"
  BY DEF Init, NoRequest
<1>2. \A a \in AgentId : ~Running(a) /\ agent[a].scheduler = "made"
  BY DEF Init, Running, Run, NewAgent
<1>3. registered = 0 /\ adhoc = {} /\ jobs = {}
  BY DEF Init
<1>4. ~\E c \in Clients : At(c, "fire") \/ At(c, "stopping") \/ At(c, "enlist") \/ Aiming(c) \/ Preparing(c)
  BY <1>1 DEF At, Aiming, Preparing
<1>5. RunsOnce
  BY <1>2 DEF RunsOnce, Thrownaway
<1> QED
  BY <1>2, <1>3, <1>4, <1>5 DEF ReachInv, RunsReached, FiresReached, JobsServed, MadeRests, MineMade, OwnPlaces,
     ThrownOnce, OffTakes

\* An agent that schedules is registered, or about to be stopped.
LEMMA SchedulingReached ==
    ASSUME TypeInv, EditInv, NEW a \in AgentId, Scheduling(a)
    PROVE  Reached(a)
<1>0. 0 \notin AgentId
  BY Ranges
<1>1. CASE \A c \in Clients : ~Editing(c)
  BY <1>1 DEF EditInv, Settled, OnlyScheduler, Reached
<1>2. ASSUME NEW c \in Clients, Editing(c) PROVE Reached(a)
  <2>1. Stage(c) /\ request[c].pc \in RequestPc /\ request[c].pc \notin TriggerPc
    BY <1>2 DEF EditInv, Editing, TypeInv, RequestFacts, Request
  <2>2. CASE request[c].pc \in {"unregister", "start", "pop"}
    BY <2>1, <2>2 DEF Stage, OnlyScheduler, Reached
  <2>3. CASE request[c].pc \in {"stopping", "replace"}
    BY <2>1, <2>3 DEF Stage, OnlyScheduler, Reached, Held
  <2>4. CASE request[c].pc \in {"waiting", "forget", "erase", "reread", "make", "register", "displace", "launch"}
    BY <1>0, <2>1, <2>4 DEF Stage, OnlyScheduler
  <2> QED
    BY <2>1, <2>2, <2>3, <2>4 DEF RequestPc, TriggerPc
<1> QED
  BY <1>1, <1>2

LEMMA SameAgentsTold == UNCHANGED agent => AgentsTold
  BY DEF AgentsTold, Thrownaway

\* Stopping tells an agent and changes nothing else but its scheduler's end.
LEMMA StoppedTells ==
    ASSUME agent \in [AgentId -> Agent], NEW a \in AgentId, NEW abort \in BOOLEAN
    PROVE  /\ Stopped(a, abort).stop = TRUE
           /\ Stopped(a, abort).abort = (agent[a].abort \/ abort)
           /\ Stopped(a, abort).scheduler = IF agent[a].scheduler = "running" THEN "ended" ELSE agent[a].scheduler
<1>1. agent[a] \in Agent
  OBVIOUS
<1> QED
  BY <1>1 DEF Stopped, Agent

LEMMA OldTold ==
    ASSUME TypeInv, NEW c \in Clients, NEW abort \in BOOLEAN, StopOld(c, abort)
    PROVE  AgentsTold /\ (request[c].old # 0 => agent'[request[c].old].stop)
<1>0. agent \in [AgentId -> Agent] /\ request[c].old \in AgentId \cup {0}
  BY Ranges
<1>1. PICK o : o = request[c].old
  OBVIOUS
<1>2. CASE o = 0
  BY <1>1, <1>2, SameAgentsTold DEF StopOld
<1>3. CASE o # 0
  <2>1. o \in AgentId
    BY <1>0, <1>1, <1>3
  <2>2. agent' = [agent EXCEPT ![o] = Stopped(o, abort)]
    BY <1>1, <1>3 DEF StopOld
  <2> DEFINE t == Stopped(o, abort)
  <2>3. /\ t.stop = TRUE
        /\ t.abort = (agent[o].abort \/ abort)
        /\ t.scheduler = IF agent[o].scheduler = "running" THEN "ended" ELSE agent[o].scheduler
    BY <1>0, <2>1, StoppedTells
  <2> HIDE DEF t
  <2>4. agent'[o] = t /\ \A a \in AgentId : a # o => agent'[a] = agent[a]
    BY <1>0, <2>1, <2>2 DEF t
  <2>5. AgentsTold
    BY <2>3, <2>4 DEF AgentsTold, Thrownaway
  <2> QED
    BY <1>1, <2>3, <2>4, <2>5
<1> QED
  BY <1>2, <1>3

LEMMA StopTold ==
    ASSUME TypeInv, NEW c \in Clients, StopStops(c)
    PROVE  /\ AgentsTold
           /\ \A a \in AgentId : a = request[c].old => agent'[a].stop
           /\ \A a \in AgentId : a \in request[c].thrown => agent'[a].stop \/ agent'[a].abort
           /\ Aborts(c) => \A a \in AgentId : a = request[c].old \/ a \in request[c].thrown => agent'[a].abort
<1>0. agent \in [AgentId -> Agent]
  BY Ranges
<1>1. ASSUME NEW a \in AgentId
      PROVE  /\ Thrownaway(a)' <=> Thrownaway(a)
             /\ agent'[a].scheduler = "made" <=> agent[a].scheduler = "made"
             /\ agent[a].stop => agent'[a].stop
             /\ agent[a].abort => agent'[a].abort
             /\ agent[a].scheduler = "running" => agent'[a].scheduler = "running" \/ agent'[a].stop
             /\ a = request[c].old => agent'[a].stop
             /\ a \in request[c].thrown => agent'[a].stop \/ agent'[a].abort
             /\ Aborts(c) /\ (a = request[c].old \/ a \in request[c].thrown) => agent'[a].abort
  <2>1. CASE a = request[c].old
    <3> DEFINE abort == Aborts(c)
               t == Stopped(a, abort)
    <3>1. abort \in BOOLEAN /\ agent'[a] = t /\ (Aborts(c) => abort)
      BY <2>1 DEF StopStops, Aborts
    <3> HIDE DEF abort
    <3>2. /\ t.stop = TRUE
          /\ t.abort = (agent[a].abort \/ abort)
          /\ t.scheduler = IF agent[a].scheduler = "running" THEN "ended" ELSE agent[a].scheduler
      BY <1>0, <3>1, StoppedTells
    <3> HIDE DEF t
    <3> QED
      BY <2>1, <3>1, <3>2 DEF Thrownaway
  <2>2. CASE a # request[c].old /\ a \in request[c].thrown
    <3> DEFINE t == [agent[a] EXCEPT !.abort = TRUE]
    <3>1. agent'[a] = t
      BY <2>2 DEF StopStops, Thrown
    <3>2. t.abort = TRUE /\ t.stop = agent[a].stop /\ t.scheduler = agent[a].scheduler
      BY <1>0 DEF Agent
    <3> HIDE DEF t
    <3> QED
      BY <2>2, <3>1, <3>2 DEF Thrownaway
  <2>3. CASE a # request[c].old /\ a \notin request[c].thrown
    <3>1. agent'[a] = agent[a]
      BY <2>3 DEF StopStops, Thrown
    <3> QED
      BY <2>3, <3>1 DEF Thrownaway
  <2> QED
    BY <2>1, <2>2, <2>3
<1>2. AgentsTold
  BY <1>1 DEF AgentsTold
<1> QED
  BY <1>1, <1>2

LEMMA SchedulerTold ==
    ASSUME TypeInv, NEW o \in AgentId, SchedulerStarts(o) \/ SchedulerEnds(o)
    PROVE  AgentsTold
<1>0. agent \in [AgentId -> Agent]
  BY Ranges
<1>1. PICK to \in {"running", "failed", "ended"} :
        /\ agent' = [agent EXCEPT ![o].scheduler = to]
        /\ agent[o].scheduler \in {"starting", "running"} /\ (agent[o].scheduler = "running" => agent[o].stop)
  BY DEF SchedulerStarts, SchedulerEnds
<1>2. agent'[o].scheduler = to /\ agent'[o].stop = agent[o].stop /\ agent'[o].abort = agent[o].abort
  BY <1>0, <1>1 DEF Agent
<1>3. \A a \in AgentId : a # o => agent'[a] = agent[a]
  BY <1>0, <1>1
<1> QED
  BY <1>1, <1>2, <1>3 DEF AgentsTold, Thrownaway

\* Steps of a client that leave the agents, what is registered and kept aside,
\* the runs and the jobs alone.
LEMMA ClientReach ==
    ASSUME TypeInv, ReachInv, UNCHANGED <<agent, registered, adhoc, run, jobs>>,
           NEW c \in Clients, NEW t, request' = [request EXCEPT ![c] = t],
           request[c].pc \notin {"stopping", "replace"},
           t.pc \notin {"enlist", "fire", "stopping"},
           t.pc \in {"register", "displace", "launch"} => Preparing(c) /\ t.mine = request[c].mine
    PROVE  ReachInv'
<1>0. request \in [Clients -> Request] /\ registered \in AgentId \cup {0}
  BY Ranges
<1>1. request'[c] = t /\ \A d \in Clients : d # c => request'[d] = request[d]
  BY <1>0
<1>2. \A a \in AgentId : Reached(a) => Reached(a)'
  BY <1>1 DEF Reached, Held
<1>3. registered' # 0 => registered' \in AgentId /\ agent[registered'].scheduler # "throwaway"
  BY <1>0 DEF ReachInv, OwnPlaces, Thrownaway
<1>4. \A d \in Clients : Aiming(d)' => request'[d] = request[d]
  BY <1>1 DEF Aiming
<1>5. \A d \in Clients : Preparing(d)' => Preparing(d) /\ request'[d].mine = request[d].mine
  BY <1>1 DEF Preparing
<1>6. \A d \in Clients : (At(d, "stopping") /\ Aborts(d))' => At(d, "stopping") /\ Aborts(d)
  BY <1>1 DEF At, Aborts
<1> QED
  BY <1>2, <1>3, <1>4, <1>5, <1>6, SameAgentsTold, ReachKept

\* A client that only moves on, or is done.
LEMMA MovesReach ==
    ASSUME TypeInv, ReachInv, UNCHANGED <<agent, registered, adhoc, run, jobs>>,
           NEW c \in Clients, request[c].pc \notin {"stopping", "replace"}
    PROVE  /\ Done(c) => ReachInv'
           /\ \A pc \in RequestPc \ {"enlist", "fire", "stopping", "register", "displace", "launch"} :
                Goto(c, pc) => ReachInv'
<1>0. request[c] \in Request
  BY Ranges
<1>1. ASSUME Done(c) PROVE ReachInv'
  <2>1. request' = [request EXCEPT ![c] = NoRequest] /\ NoRequest.pc = "idle"
    BY <1>1 DEF Done, NoRequest
  <2> QED
    BY <2>1, ClientReach
<1>2. ASSUME NEW pc \in RequestPc \ {"enlist", "fire", "stopping", "register", "displace", "launch"}, Goto(c, pc)
      PROVE  ReachInv'
  <2> DEFINE t == [request[c] EXCEPT !.pc = pc]
  <2>1. request' = [request EXCEPT ![c] = t]
    BY <1>2 DEF Goto
  <2>2. t.pc = pc
    BY <1>0 DEF Request
  <2> HIDE DEF t
  <2> QED
    BY <2>1, <2>2, ClientReach
<1> QED
  BY <1>1, <1>2

LEMMA BeginReach ==
    ASSUME TypeInv, ReachInv, NEW c \in Clients, Begin(c)
    PROVE  ReachInv'
<1>1. PICK kind \in Kinds :
        request' = [request EXCEPT ![c] = [NoRequest EXCEPT !.kind = kind,
             !.pc = CASE kind = "on"      -> "start"
                      [] kind = "trigger" -> "trigger"
                      [] OTHER            -> "unregister"]]
  BY DEF Begin
<1> DEFINE pc == CASE kind = "on"      -> "start"
                   [] kind = "trigger" -> "trigger"
                   [] OTHER            -> "unregister"
           t == [NoRequest EXCEPT !.kind = kind, !.pc = pc]
<1>2. request' = [request EXCEPT ![c] = t] /\ t.pc = pc
  BY <1>1 DEF NoRequest
<1>3. pc \in {"start", "trigger", "unregister"}
  OBVIOUS
<1> HIDE DEF t, pc
<1>4. request[c].pc = "idle" /\ UNCHANGED <<agent, registered, adhoc, run, jobs>>
  BY DEF Begin, At, orchestratorVars, agentVars, runVars
<1> QED
  BY <1>2, <1>3, <1>4, ClientReach

\* A new agent runs nothing and is referenced by its maker only.
LEMMA MakeReach ==
    ASSUME TypeInv, ReachInv, NEW scheduler \in {"made", "throwaway"}, MakeAgent(scheduler),
           UNCHANGED <<registered, adhoc, run, jobs>>,
           NEW c \in Clients, request[c].pc \notin {"stopping", "replace"},
           NEW t, request' = [request EXCEPT ![c] = t],
           t.mine = agents + 1, t.pc = IF scheduler = "made" THEN "register" ELSE "enlist"
    PROVE  ReachInv'
<1>0. /\ agent \in [AgentId -> Agent] /\ request \in [Clients -> Request]
      /\ registered \in AgentId \cup {0} /\ 0 \notin AgentId /\ adhoc \subseteq AgentId
  BY Ranges
<1>1. PICK o : o = agents + 1
  OBVIOUS
<1>2. o \in AgentId /\ o \notin Made /\ o # 0
  BY <1>1, BoundsAssumption DEF MakeAgent, TypeInv, AgentFacts, AgentId, Made
<1>3. agent[o].scheduler = "made" /\ ~Running(o) /\ o # registered
      /\ (\A s \in Skills : <<o, s>> \notin jobs) /\ \A d \in Clients : request[d].mine # o
  BY <1>2 DEF TypeInv, AgentFacts, OrchestratorFacts, RunFacts, RequestFacts, Running
<1>4. o \notin adhoc
  BY <1>3 DEF ReachInv, OwnPlaces, Thrownaway
<1> DEFINE n == [NewAgent EXCEPT !.scheduler = scheduler, !.runtime = runtime']
<1>5. n.scheduler = scheduler
  BY DEF NewAgent
<1>6. agent' = [agent EXCEPT ![o] = n]
  BY <1>1 DEF MakeAgent
<1> HIDE DEF n
<1>7. agent'[o].scheduler = scheduler /\ \A a \in AgentId : a # o => agent'[a] = agent[a]
  BY <1>0, <1>2, <1>5, <1>6
<1>8. request'[c] = t /\ \A d \in Clients : d # c => request'[d] = request[d]
  BY <1>0
<1>9. \A a \in AgentId : Running(a)' <=> Running(a)
  BY DEF Running
<1>10. \A a \in AgentId : a # o /\ Reached(a) => Reached(a)'
  BY <1>7, <1>8 DEF Reached, Held
<1>11. RunsReached'
  BY <1>3, <1>9, <1>10 DEF ReachInv, RunsReached
<1>12. FiresReached'
  <2> SUFFICES ASSUME NEW d \in Clients, NEW a \in AgentId, At(d, "fire")', request'[d].mine = a
               PROVE  Reached(a)'
    BY DEF FiresReached
  <2>1. d # c /\ request'[d] = request[d]
    BY <1>8 DEF At
  <2> QED
    BY <1>3, <1>10, <2>1 DEF ReachInv, FiresReached, At
<1>13. JobsServed' /\ MadeRests'
  BY <1>3, <1>7, <1>9 DEF ReachInv, JobsServed, MadeRests
<1>14. \A d \in Clients : Aiming(d) \/ Preparing(d) => request[d].mine \in AgentId
  BY Ranges, Zenon
<1>15. MineMade'
  <2> SUFFICES ASSUME NEW d \in Clients, Preparing(d)' PROVE agent'[request'[d].mine].scheduler = "made"
    BY DEF MineMade
  <2>1. CASE d = c
    BY <1>1, <1>7, <1>8, <2>1 DEF Preparing
  <2>2. CASE d # c
    BY <1>3, <1>7, <1>8, <1>14, <2>2 DEF ReachInv, MineMade, Preparing
  <2> QED
    BY <2>1, <2>2
<1>16. OwnPlaces'
  <2>1. \A a \in adhoc' : agent'[a].scheduler = "throwaway"
    BY <1>0, <1>4, <1>7 DEF ReachInv, OwnPlaces, Thrownaway
  <2>2. registered' # 0 => agent'[registered'].scheduler # "throwaway"
    BY <1>0, <1>3, <1>7 DEF ReachInv, OwnPlaces, Thrownaway
  <2>3. \A d \in Clients : At(d, "enlist")' => agent'[request'[d].mine].scheduler = "throwaway"
    BY <1>1, <1>3, <1>7, <1>8, <1>14 DEF ReachInv, OwnPlaces, Thrownaway, At, Aiming
  <2> QED
    BY <2>1, <2>2, <2>3 DEF OwnPlaces, Thrownaway
<1>17. RunsOnce'
  BY <1>3, <1>7 DEF ReachInv, RunsOnce, Thrownaway, Running
<1>18. ThrownOnce'
  <2> SUFFICES ASSUME NEW d \in Clients, Aiming(d)', agent'[request'[d].mine].scheduler = "throwaway"
               PROVE  /\ ~Running(request[d].mine)'
                      /\ \A e \in Clients : Aiming(e)' /\ request'[e].mine = request'[d].mine => e = d
    BY DEF ThrownOnce, Thrownaway
  <2>1. ASSUME NEW e \in Clients, Aiming(e)'
        PROVE  (e = c /\ request'[e].mine = o) \/ (e # c /\ request'[e] = request[e] /\ Aiming(e))
    <3>1. CASE e = c
      BY <1>1, <1>8, <3>1
    <3>2. CASE e # c
      BY <1>8, <2>1, <3>2 DEF Aiming
    <3> QED
      BY <3>1, <3>2
  <2>2. CASE d = c
    <3>1. request'[d].mine = o /\ ~Running(o)'
      BY <1>1, <1>2, <1>3, <1>8, <1>9, <2>2
    <3>2. \A e \in Clients : Aiming(e)' /\ request'[e].mine = o => e = d
      BY <1>3, <2>1, <2>2
    <3>3. ~Running(request[d].mine)'
      BY <3>1 DEF Running
    <3> QED
      BY <3>1, <3>2, <3>3
  <2>3. CASE d # c
    <3>1. PICK m : m = request[d].mine
      OBVIOUS
    <3>2. Aiming(d) /\ request'[d].mine = m /\ m \in AgentId /\ m # o
      BY <1>3, <1>14, <2>1, <2>3, <3>1
    <3>3. agent[m].scheduler = "throwaway"
      BY <1>7, <3>2
    <3>4. ~Running(m) /\ \A e \in Clients : Aiming(e) /\ request[e].mine = m => e = d
      BY <3>1, <3>2, <3>3 DEF ReachInv, ThrownOnce, Thrownaway
    <3>5. ~Running(m)'
      BY <1>9, <3>2, <3>4
    <3>6. ~Running(request[d].mine)'
      BY <3>2, <3>5 DEF Running
    <3> QED
      BY <2>1, <3>2, <3>4, <3>6
  <2> QED
    BY <2>2, <2>3
<1>19. OffTakes'
  <2>1. \A d \in Clients : (At(d, "stopping") /\ Aborts(d))' => At(d, "stopping") /\ Aborts(d)
    BY <1>8 DEF At, Aborts
  <2> QED
    BY <1>0, <1>9, <2>1 DEF ReachInv, OffTakes
<1> QED
  BY <1>11, <1>12, <1>13, <1>15, <1>16, <1>17, <1>18, <1>19 DEF ReachInv

LEMMA StartReach ==
    ASSUME TypeInv, EditInv, OneEdit, ReachInv, NEW c \in Clients, StartStep(c)
    PROVE  ReachInv'
<1>0. /\ request[c] \in Request /\ request \in [Clients -> Request] /\ agent \in [AgentId -> Agent]
      /\ registered \in AgentId \cup {0} /\ 0 \notin AgentId /\ adhoc \subseteq AgentId
  BY Ranges
<1>e. Editing(c) /\ Stage(c)
  <2>1. Editing(c)
    BY DEF StartStep, StartReads, StartPops, StartReplaces, StartMakes, StartRegisters, StartDisplaces,
           StartLaunches, At, Editing, TriggerPc
  <2> QED
    BY <2>1 DEF EditInv
<1>m. \A d \in Clients : Aiming(d) \/ Preparing(d) => request[d].mine \in AgentId
  BY Ranges, Zenon
<1>1. CASE StartReads(c)
  <2>1. UNCHANGED <<agent, registered, adhoc, run, jobs>> /\ request[c].pc = "start"
    BY <1>1 DEF StartReads, At, orchestratorVars, agentVars, runVars
  <2>2. Done(c) \/ Goto(c, "pop")
    BY <1>1 DEF StartReads
  <2>3. "pop" \in RequestPc \ {"enlist", "fire", "stopping", "register", "displace", "launch"}
    BY DEF RequestPc
  <2> QED
    BY <2>1, <2>2, <2>3, MovesReach
<1>2. CASE StartPops(c)
  <2> DEFINE t == [request[c] EXCEPT !.old = registered, !.pc = "replace"]
  <2>1. request' = [request EXCEPT ![c] = t]
    BY <1>2 DEF StartPops
  <2>2. t.pc = "replace" /\ t.old = registered
    BY <1>0 DEF Request
  <2> HIDE DEF t
  <2>3. request'[c] = t /\ \A d \in Clients : d # c => request'[d] = request[d]
    BY <1>0, <2>1
  <2>4. registered' = 0 /\ UNCHANGED <<agent, adhoc, run, jobs>> /\ request[c].pc = "pop"
    BY <1>2 DEF StartPops, At, agentVars, runVars
  <2>5. \A a \in AgentId : Reached(a) => Reached(a)'
    BY <2>2, <2>3, <2>4 DEF Reached, Held
  <2>6. \A d \in Clients : (Aiming(d) \/ Preparing(d) \/ At(d, "stopping"))' => request'[d] = request[d]
    BY <2>2, <2>3 DEF Aiming, Preparing, At
  <2>7. \A d \in Clients : Preparing(d)' => Preparing(d) /\ request'[d].mine = request[d].mine
    BY <2>6 DEF Preparing
  <2>8. \A d \in Clients : (At(d, "stopping") /\ Aborts(d))' => At(d, "stopping") /\ Aborts(d)
    BY <2>6 DEF At, Aborts
  <2> QED
    BY <2>4, <2>5, <2>6, <2>7, <2>8, SameAgentsTold, ReachKept
<1>3. CASE StartReplaces(c)
  <2> DEFINE t == [request[c] EXCEPT !.pc = "make"]
  <2>1. request' = [request EXCEPT ![c] = t]
    BY <1>3 DEF StartReplaces, Goto
  <2>2. t.pc = "make"
    BY <1>0 DEF Request
  <2> HIDE DEF t
  <2>3. request'[c] = t /\ \A d \in Clients : d # c => request'[d] = request[d]
    BY <1>0, <2>1
  <2>4. UNCHANGED <<registered, adhoc, run, jobs>> /\ request[c].pc = "replace"
    BY <1>3 DEF StartReplaces, At, orchestratorVars, runVars
  <2>5. AgentsTold /\ (request[c].old # 0 => agent'[request[c].old].stop)
    BY <1>3, OldTold DEF StartReplaces
  <2>6. \A a \in AgentId : Reached(a) => Reached(a)'
    BY <1>0, <2>3, <2>4, <2>5 DEF Reached, Held, AgentsTold
  <2>7. \A d \in Clients : (Aiming(d) \/ Preparing(d) \/ At(d, "stopping"))' => request'[d] = request[d]
    BY <2>2, <2>3 DEF Aiming, Preparing, At
  <2>8. \A d \in Clients : Preparing(d)' => Preparing(d) /\ request'[d].mine = request[d].mine
    BY <2>7 DEF Preparing
  <2>9. \A d \in Clients : (At(d, "stopping") /\ Aborts(d))' => At(d, "stopping") /\ Aborts(d)
    BY <2>7 DEF At, Aborts
  <2>10. registered' # 0 => registered' \in AgentId /\ agent[registered'].scheduler # "throwaway"
    BY <1>0, <2>4 DEF ReachInv, OwnPlaces, Thrownaway
  <2> QED
    BY <2>4, <2>5, <2>6, <2>7, <2>8, <2>9, <2>10, ReachKept
<1>4. CASE StartMakes(c)
  <2> DEFINE t == [request[c] EXCEPT !.mine = agents + 1, !.pc = "register"]
  <2>1. request' = [request EXCEPT ![c] = t]
    BY <1>4 DEF StartMakes
  <2>2. t.mine = agents + 1 /\ t.pc = "register"
    BY <1>0 DEF Request
  <2> HIDE DEF t
  <2>3. MakeAgent("made") /\ UNCHANGED <<registered, adhoc, run, jobs>> /\ request[c].pc = "make"
    BY <1>4 DEF StartMakes, At, runVars
  <2> QED
    BY <2>1, <2>2, <2>3, MakeReach
<1>5. CASE StartRegisters(c)
  <2> DEFINE t == [request[c] EXCEPT !.old = registered, !.pc = "displace"]
  <2>1. request' = [request EXCEPT ![c] = t]
    BY <1>5 DEF StartRegisters
  <2>2. t.pc = "displace" /\ t.mine = request[c].mine
    BY <1>0 DEF Request
  <2> HIDE DEF t
  <2>3. request'[c] = t /\ \A d \in Clients : d # c => request'[d] = request[d]
    BY <1>0, <2>1
  <2>4. registered' = request[c].mine /\ UNCHANGED <<agent, adhoc, run, jobs>> /\ request[c].pc = "register"
    BY <1>5 DEF StartRegisters, At, agentVars, runVars
  <2>5. registered = 0 /\ Preparing(c)
    BY <1>e, <2>4 DEF Stage, Preparing
  <2>6. \A a \in AgentId : Reached(a) => Reached(a)'
    BY <1>0, <2>2, <2>3, <2>4, <2>5 DEF Reached, Held
  <2>7. \A d \in Clients : Aiming(d)' => request'[d] = request[d]
    BY <2>2, <2>3 DEF Aiming
  <2>8. \A d \in Clients : Preparing(d)' => Preparing(d) /\ request'[d].mine = request[d].mine
    BY <2>2, <2>3, <2>5 DEF Preparing
  <2>9. \A d \in Clients : (At(d, "stopping") /\ Aborts(d))' => At(d, "stopping") /\ Aborts(d)
    BY <2>2, <2>3 DEF At, Aborts
  <2>10. registered' # 0 => registered' \in AgentId /\ agent[registered'].scheduler # "throwaway"
    BY <1>m, <2>4, <2>5 DEF ReachInv, MineMade
  <2> QED
    BY <2>4, <2>6, <2>7, <2>8, <2>9, <2>10, SameAgentsTold, ReachKept
<1>6. CASE StartDisplaces(c)
  <2> DEFINE t == [request[c] EXCEPT !.pc = "launch"]
  <2>1. request' = [request EXCEPT ![c] = t]
    BY <1>6 DEF StartDisplaces, Goto
  <2>2. t.pc = "launch" /\ t.mine = request[c].mine
    BY <1>0 DEF Request
  <2> HIDE DEF t
  <2>3. UNCHANGED <<registered, adhoc, run, jobs>> /\ request[c].pc = "displace"
    BY <1>6 DEF StartDisplaces, At, orchestratorVars, runVars
  <2>4. UNCHANGED agent /\ Preparing(c)
    BY <1>e, <1>6, <2>3 DEF StartDisplaces, StopOld, Stage, Preparing
  <2> QED
    BY <2>1, <2>2, <2>3, <2>4, ClientReach
<1>7. CASE StartLaunches(c)
  <2>1. PICK o : o = request[c].mine
    OBVIOUS
  <2>2. request[c].pc = "launch" /\ UNCHANGED <<registered, adhoc, run, jobs>> /\ Preparing(c)
    BY <1>7 DEF StartLaunches, At, orchestratorVars, runVars, Preparing
  <2>3. registered = o /\ o \in AgentId /\ agent[o].scheduler = "made"
    BY <1>e, <1>m, <2>1, <2>2 DEF Stage, ReachInv, MineMade
  <2> DEFINE n == [agent[o] EXCEPT !.stop = FALSE, !.abort = FALSE, !.scheduler = "starting"]
  <2>4. agent' = [agent EXCEPT ![o] = n]
    BY <1>0, <1>7, <2>1, <2>3 DEF StartLaunches, Agent
  <2>5. n.scheduler = "starting"
    BY <1>0, <2>3 DEF Agent
  <2> HIDE DEF n
  <2>6. agent'[o].scheduler = "starting" /\ \A a \in AgentId : a # o => agent'[a] = agent[a]
    BY <1>0, <2>3, <2>4, <2>5
  <2>7. request'[c].pc = "idle" /\ \A d \in Clients : d # c => request'[d] = request[d]
    BY <1>0, <1>7 DEF StartLaunches, Done, NoRequest
  <2>8. \A a \in AgentId : Running(a)' <=> Running(a)
    BY <2>2 DEF Running
  <2>9. \A a \in AgentId : Reached(a) => Reached(a)'
    BY <2>2, <2>3, <2>6, <2>7 DEF Reached, Held
  <2>10. \A d \in Clients : (Aiming(d) \/ Preparing(d) \/ At(d, "stopping"))' => request'[d] = request[d] /\ d # c
    BY <2>7 DEF Aiming, Preparing, At
  <2>11. \A d \in Clients : d # c => ~Preparing(d)
    BY <1>e DEF OneEdit, Preparing, Editing, TriggerPc
  <2>12. RunsReached' /\ MadeRests'
    BY <2>3, <2>6, <2>8, <2>9 DEF ReachInv, RunsReached, MadeRests
  <2>13. FiresReached'
    BY <2>9, <2>10 DEF ReachInv, FiresReached, At, Aiming
  <2>14. JobsServed'
    BY <2>2, <2>3, <2>6 DEF ReachInv, JobsServed
  <2>15. MineMade'
    <3>1. \A d \in Clients : ~Preparing(d)'
      BY <2>10, <2>11 DEF Preparing
    <3> QED
      BY <3>1 DEF MineMade
  <2>16. OwnPlaces'
    <3>1. \A a \in adhoc' : agent'[a].scheduler = "throwaway"
      BY <1>0, <2>2, <2>3, <2>6 DEF ReachInv, OwnPlaces, Thrownaway
    <3>2. agent'[registered'].scheduler # "throwaway"
      BY <2>2, <2>3, <2>6
    <3>3. ASSUME NEW d \in Clients, At(d, "enlist")' PROVE agent'[request'[d].mine].scheduler = "throwaway"
      <4>1. request'[d] = request[d] /\ At(d, "enlist") /\ Aiming(d)
        BY <2>10, <3>3 DEF At, Aiming
      <4>2. request[d].mine \in AgentId /\ agent[request[d].mine].scheduler = "throwaway"
        BY <1>m, <4>1 DEF ReachInv, OwnPlaces, Thrownaway
      <4> QED
        BY <2>3, <2>6, <4>1, <4>2
    <3> QED
      BY <3>1, <3>2, <3>3 DEF OwnPlaces, Thrownaway
  <2>17. RunsOnce'
    BY <2>2, <2>6 DEF ReachInv, RunsOnce, Thrownaway
  <2>18. ThrownOnce'
    <3> SUFFICES ASSUME NEW d \in Clients, Aiming(d)', agent'[request'[d].mine].scheduler = "throwaway"
                 PROVE  /\ ~Running(request[d].mine)'
                        /\ \A e \in Clients : Aiming(e)' /\ request'[e].mine = request'[d].mine => e = d
      BY DEF ThrownOnce, Thrownaway
    <3>1. \A e \in Clients : Aiming(e)' => Aiming(e) /\ request'[e] = request[e]
      BY <2>10 DEF Aiming
    <3>2. request[d].mine \in AgentId /\ agent[request[d].mine].scheduler = "throwaway"
      BY <1>m, <2>3, <2>6, <3>1
    <3>3. ~Running(request[d].mine)
      BY <3>1, <3>2 DEF ReachInv, ThrownOnce, Thrownaway
    <3>4. ~Running(request[d].mine)'
      BY <2>2, <3>1, <3>3 DEF Running
    <3>5. \A e \in Clients : Aiming(e)' /\ request'[e].mine = request'[d].mine => e = d
      BY <3>1, <3>2 DEF ReachInv, ThrownOnce, Thrownaway
    <3> QED
      BY <3>4, <3>5
  <2>19. OffTakes'
    BY <1>0, <2>2, <2>8, <2>10 DEF ReachInv, OffTakes, At, Aborts
  <2> QED
    BY <2>12, <2>13, <2>14, <2>15, <2>16, <2>17, <2>18, <2>19 DEF ReachInv
<1> QED
  BY <1>1, <1>2, <1>3, <1>4, <1>5, <1>6, <1>7 DEF StartStep

LEMMA StopReach ==
    ASSUME TypeInv, ReachInv, NEW c \in Clients, StopStep(c)
    PROVE  ReachInv'
<1>0. /\ request[c] \in Request /\ request \in [Clients -> Request]
      /\ registered \in AgentId \cup {0} /\ 0 \notin AgentId /\ adhoc \subseteq AgentId
  BY Ranges
<1>1. CASE StopUnregisters(c)
  <2> DEFINE thrown == IF Aborts(c) THEN adhoc ELSE {}
             t == [request[c] EXCEPT !.pc = "stopping", !.old = registered, !.thrown = thrown]
  <2>1. request' = [request EXCEPT ![c] = t]
    BY <1>1 DEF StopUnregisters
  <2>2. t.pc = "stopping" /\ t.old = registered /\ t.thrown = thrown /\ t.kind = request[c].kind
    BY <1>0 DEF Request
  <2>3. Aborts(c) => thrown = adhoc
    OBVIOUS
  <2> HIDE DEF t, thrown
  <2>4. request'[c] = t /\ \A d \in Clients : d # c => request'[d] = request[d]
    BY <1>0, <2>1
  <2>5. registered' = 0 /\ UNCHANGED <<agent, run, jobs>> /\ request[c].pc = "unregister"
        /\ adhoc' = IF Aborts(c) THEN {} ELSE adhoc
    BY <1>1 DEF StopUnregisters, At, agentVars, runVars
  <2>6. ASSUME NEW a \in AgentId, Reached(a) PROVE Reached(a)'
    <3>1. CASE a \in adhoc /\ Aborts(c)
      BY <2>2, <2>3, <2>4, <3>1 DEF Reached, Held
    <3>2. CASE a \in adhoc /\ ~Aborts(c)
      BY <2>5, <3>2 DEF Reached
    <3>3. CASE registered = a
      BY <2>2, <2>4, <3>3 DEF Reached, Held
    <3>4. CASE agent[a].stop \/ agent[a].abort
      BY <2>5, <3>4 DEF Reached
    <3>5. ASSUME NEW d \in Clients, Held(d, a) PROVE Reached(a)'
      BY <2>4, <2>5, <3>5 DEF Reached, Held
    <3> QED
      BY <2>6, <3>1, <3>2, <3>3, <3>4, <3>5 DEF Reached
  <2>7. \A d \in Clients : (Aiming(d) \/ Preparing(d))' => request'[d] = request[d]
    BY <2>2, <2>4 DEF Aiming, Preparing
  <2>8. \A d \in Clients : Preparing(d)' => Preparing(d) /\ request'[d].mine = request[d].mine
    BY <2>7 DEF Preparing
  <2>9. \A d \in Clients : (At(d, "stopping") /\ Aborts(d))' => (At(d, "stopping") /\ Aborts(d)) \/ adhoc' = {}
    BY <2>2, <2>4, <2>5 DEF At, Aborts
  <2> QED
    BY <2>5, <2>6, <2>7, <2>8, <2>9, SameAgentsTold, ReachKept
<1>2. CASE StopStops(c)
  <2>1. PICK t : request' = [request EXCEPT ![c] = t] /\ t.pc \in {"idle", "waiting", "reread"}
    <3> DEFINE w == [request[c] EXCEPT !.pc = "waiting"]
               r == [request[c] EXCEPT !.pc = "reread"]
    <3>1. request' \in {[request EXCEPT ![c] = NoRequest], [request EXCEPT ![c] = w], [request EXCEPT ![c] = r]}
      BY <1>2 DEF StopStops, Done, Goto
    <3>2. w.pc = "waiting" /\ r.pc = "reread" /\ NoRequest.pc = "idle"
      BY <1>0 DEF Request, NoRequest
    <3> HIDE DEF w, r
    <3> QED
      BY <3>1, <3>2
  <2>2. request'[c] = t /\ \A d \in Clients : d # c => request'[d] = request[d]
    BY <1>0, <2>1
  <2>3. UNCHANGED <<registered, adhoc, run, jobs>> /\ request[c].pc = "stopping"
    BY <1>2 DEF StopStops, At, orchestratorVars, runVars
  <2>4. /\ AgentsTold
        /\ \A a \in AgentId : a = request[c].old => agent'[a].stop
        /\ \A a \in AgentId : a \in request[c].thrown => agent'[a].stop \/ agent'[a].abort
    BY <1>2, StopTold
  <2>5. ASSUME NEW a \in AgentId, Reached(a) PROVE Reached(a)'
    <3>1. CASE agent[a].stop \/ agent[a].abort
      BY <2>4, <3>1 DEF AgentsTold, Reached
    <3>2. CASE registered = a \/ a \in adhoc
      BY <2>3, <3>2 DEF Reached
    <3>3. CASE Held(c, a)
      BY <2>4, <3>3 DEF Held, Reached
    <3>4. ASSUME NEW d \in Clients, d # c, Held(d, a) PROVE Reached(a)'
      BY <2>2, <3>4 DEF Held, Reached
    <3> QED
      BY <2>5, <3>1, <3>2, <3>3, <3>4 DEF Reached
  <2>6. \A d \in Clients : (Aiming(d) \/ Preparing(d) \/ At(d, "stopping"))' => request'[d] = request[d]
    BY <2>1, <2>2 DEF Aiming, Preparing, At
  <2>7. \A d \in Clients : Preparing(d)' => Preparing(d) /\ request'[d].mine = request[d].mine
    BY <2>6 DEF Preparing
  <2>8. \A d \in Clients : (At(d, "stopping") /\ Aborts(d))' => At(d, "stopping") /\ Aborts(d)
    BY <2>6 DEF At, Aborts
  <2>9. registered' # 0 => registered' \in AgentId /\ agent[registered'].scheduler # "throwaway"
    BY <1>0, <2>3 DEF ReachInv, OwnPlaces, Thrownaway
  <2> QED
    BY <2>3, <2>4, <2>5, <2>6, <2>7, <2>8, <2>9, ReachKept
<1>3. {"start", "forget", "erase"} \subseteq RequestPc \ {"enlist", "fire", "stopping", "register", "displace", "launch"}
  BY DEF RequestPc
<1>4. CASE ReloadReads(c)
  <2>1. UNCHANGED <<agent, registered, adhoc, run, jobs>> /\ request[c].pc = "reread" /\ (Done(c) \/ Goto(c, "start"))
    BY <1>4 DEF ReloadReads, At, orchestratorVars, agentVars, runVars
  <2> QED
    BY <1>3, <2>1, MovesReach
<1>5. CASE DeleteWaited(c)
  <2>1. UNCHANGED <<agent, registered, adhoc, run, jobs>> /\ request[c].pc = "waiting" /\ Goto(c, "forget")
    BY <1>5 DEF DeleteWaited, At, orchestratorVars, agentVars, runVars
  <2> QED
    BY <1>3, <2>1, MovesReach
<1>6. CASE DeleteForgets(c)
  <2>1. UNCHANGED <<agent, registered, adhoc, run, jobs>> /\ request[c].pc = "forget" /\ Goto(c, "erase")
    BY <1>6 DEF DeleteForgets, At, agentVars, runVars
  <2> QED
    BY <1>3, <2>1, MovesReach
<1>7. CASE DeleteErases(c)
  <2>1. UNCHANGED <<agent, registered, adhoc, run, jobs>> /\ request[c].pc = "erase" /\ Done(c)
    BY <1>7 DEF DeleteErases, At, orchestratorVars, agentVars, runVars
  <2> QED
    BY <2>1, MovesReach
<1>8. CASE DeleteTimesOut(c)
  <2> DEFINE t == [request[c] EXCEPT !.kind = "save", !.pc = "unregister"]
  <2>1. request' = [request EXCEPT ![c] = t]
    BY <1>8 DEF DeleteTimesOut, BringsBack
  <2>2. t.pc = "unregister"
    BY <1>0 DEF Request
  <2> HIDE DEF t
  <2>3. UNCHANGED <<agent, registered, adhoc, run, jobs>> /\ request[c].pc = "waiting"
    BY <1>8 DEF DeleteTimesOut, At, orchestratorVars, agentVars, runVars
  <2> QED
    BY <2>1, <2>2, <2>3, ClientReach
<1> QED
  BY <1>1, <1>2, <1>4, <1>5, <1>6, <1>7, <1>8 DEF StopStep

\* A force run that finds a registered agent.
LEMMA TriggerReadsReach ==
    ASSUME TypeInv, ReachInv, NEW c \in Clients, TriggerReads(c)
    PROVE  ReachInv'
<1>0. /\ request[c] \in Request /\ request \in [Clients -> Request]
      /\ registered \in AgentId \cup {0} /\ 0 \notin AgentId /\ adhoc \subseteq AgentId
  BY Ranges
<1> DEFINE pc == IF registered # 0 THEN "fire" ELSE "throwaway"
           t == [request[c] EXCEPT !.mine = registered, !.pc = pc]
<1>1. request' = [request EXCEPT ![c] = t]
  BY DEF TriggerReads
<1>2. t.pc = pc /\ t.mine = registered
  BY <1>0 DEF Request
<1>3. (registered # 0 /\ pc = "fire") \/ pc = "throwaway"
  OBVIOUS
<1> HIDE DEF t, pc
<1>4. UNCHANGED <<agent, registered, adhoc, run, jobs>> /\ request[c].pc = "trigger"
  BY DEF TriggerReads, At, orchestratorVars, agentVars, runVars
<1>5. request'[c] = t /\ \A d \in Clients : d # c => request'[d] = request[d]
  BY <1>0, <1>1
<1>6. CASE pc = "throwaway"
  BY <1>1, <1>2, <1>4, <1>6, ClientReach
<1>7. CASE registered # 0 /\ pc = "fire"
  <2>1. \A a \in AgentId : Reached(a)' <=> Reached(a)
    BY <1>2, <1>4, <1>5, <1>7 DEF Reached, Held
  <2>2. \A a \in AgentId : Running(a)' <=> Running(a)
    BY <1>4 DEF Running
  <2>3. RunsReached' /\ MadeRests'
    BY <1>4, <2>1, <2>2 DEF ReachInv, RunsReached, MadeRests
  <2>4. FiresReached'
    <3> SUFFICES ASSUME NEW d \in Clients, NEW a \in AgentId, At(d, "fire")', request'[d].mine = a
                 PROVE  Reached(a)'
      BY DEF FiresReached
    <3>1. CASE d = c
      BY <1>2, <1>5, <2>1, <3>1 DEF Reached
    <3>2. CASE d # c
      BY <1>5, <2>1, <3>2 DEF ReachInv, FiresReached, At
    <3> QED
      BY <3>1, <3>2
  <2>5. JobsServed' /\ RunsOnce'
    BY <1>4 DEF ReachInv, JobsServed, RunsOnce, Thrownaway
  <2>6. \A d \in Clients : (Preparing(d) \/ At(d, "enlist") \/ At(d, "stopping"))' => request'[d] = request[d]
    BY <1>2, <1>5, <1>7 DEF Preparing, At
  <2>7. MineMade'
    BY <1>4, <2>6 DEF ReachInv, MineMade, Preparing
  <2>8. OwnPlaces'
    BY <1>4, <2>6 DEF ReachInv, OwnPlaces, Thrownaway, At
  <2>9. ThrownOnce'
    <3> SUFFICES ASSUME NEW d \in Clients, Aiming(d)', agent'[request'[d].mine].scheduler = "throwaway"
                 PROVE  /\ ~Running(request[d].mine)'
                        /\ \A e \in Clients : Aiming(e)' /\ request'[e].mine = request'[d].mine => e = d
      BY DEF ThrownOnce, Thrownaway
    <3>1. agent[registered].scheduler # "throwaway"
      BY <1>7 DEF ReachInv, OwnPlaces, Thrownaway
    <3>2. \A e \in Clients : Aiming(e)' => request'[e].mine = registered \/ (Aiming(e) /\ request'[e] = request[e])
      BY <1>2, <1>5 DEF Aiming
    <3>3. Aiming(d) /\ request'[d] = request[d] /\ agent[request[d].mine].scheduler = "throwaway"
      BY <1>4, <3>1, <3>2
    <3>4. ~Running(request[d].mine) /\ \A e \in Clients : Aiming(e) /\ request[e].mine = request[d].mine => e = d
      BY <3>3 DEF ReachInv, ThrownOnce, Thrownaway
    <3>5. ~Running(request[d].mine)'
      BY <1>4, <3>3, <3>4 DEF Running
    <3>6. ASSUME NEW e \in Clients, Aiming(e)', request'[e].mine = request'[d].mine PROVE e = d
      BY <3>1, <3>2, <3>3, <3>4, <3>6
    <3> QED
      BY <3>5, <3>6
  <2>10. OffTakes'
    BY <1>0, <1>4, <2>2, <2>6 DEF ReachInv, OffTakes, At, Aborts
  <2> QED
    BY <2>3, <2>4, <2>5, <2>7, <2>8, <2>9, <2>10 DEF ReachInv
<1> QED
  BY <1>3, <1>6, <1>7

LEMMA TriggerMakesReach ==
    ASSUME TypeInv, ReachInv, NEW c \in Clients, TriggerMakes(c)
    PROVE  ReachInv'
<1>0. request[c] \in Request
  BY Ranges
<1>1. request[c].pc = "throwaway" /\ UNCHANGED <<registered, adhoc, run, jobs>>
  BY DEF TriggerMakes, At, runVars
<1>2. CASE row = "deleted"
  BY <1>1, <1>2, MovesReach DEF TriggerMakes, agentVars
<1>3. CASE row # "deleted"
  <2> DEFINE t == [request[c] EXCEPT !.mine = agents + 1, !.pc = "enlist"]
  <2>1. request' = [request EXCEPT ![c] = t] /\ MakeAgent("throwaway")
    BY <1>3 DEF TriggerMakes
  <2>2. t.mine = agents + 1 /\ t.pc = "enlist"
    BY <1>0 DEF Request
  <2> HIDE DEF t
  <2> QED
    BY <1>1, <2>1, <2>2, MakeReach
<1> QED
  BY <1>2, <1>3

\* A throwaway agent is kept aside before its run.
LEMMA TriggerEnlistsReach ==
    ASSUME TypeInv, ReachInv, NEW c \in Clients, TriggerEnlists(c)
    PROVE  ReachInv'
<1>0. /\ request[c] \in Request /\ request \in [Clients -> Request]
      /\ registered \in AgentId \cup {0} /\ 0 \notin AgentId /\ adhoc \subseteq AgentId
  BY Ranges
<1>m. \A d \in Clients : Aiming(d) \/ Preparing(d) => request[d].mine \in AgentId
  BY Ranges, Zenon
<1> DEFINE t == [request[c] EXCEPT !.pc = "fire"]
<1>1. request' = [request EXCEPT ![c] = t]
  BY DEF TriggerEnlists, Goto
<1>2. t.pc = "fire" /\ t.mine = request[c].mine
  BY <1>0 DEF Request
<1> HIDE DEF t
<1>3. request'[c] = t /\ \A d \in Clients : d # c => request'[d] = request[d]
  BY <1>0, <1>1
<1>4. PICK o : o = request[c].mine
  OBVIOUS
<1>5. UNCHANGED <<agent, registered, run, jobs>> /\ adhoc' = adhoc \cup {o} /\ request[c].pc = "enlist"
  BY <1>4 DEF TriggerEnlists, At, agentVars, runVars
<1>6. o \in AgentId /\ Thrownaway(o) /\ ~Running(o)
  BY <1>m, <1>4, <1>5 DEF ReachInv, OwnPlaces, ThrownOnce, At, Aiming, Thrownaway
<1>7. \A a \in AgentId : Reached(a) => Reached(a)'
  BY <1>2, <1>3, <1>5 DEF Reached, Held
<1>8. \A a \in AgentId : Running(a)' <=> Running(a)
  BY <1>5 DEF Running
<1>9. RunsReached' /\ MadeRests'
  BY <1>5, <1>7, <1>8 DEF ReachInv, RunsReached, MadeRests
<1>10. FiresReached'
  <2> SUFFICES ASSUME NEW d \in Clients, NEW a \in AgentId, At(d, "fire")', request'[d].mine = a
               PROVE  Reached(a)'
    BY DEF FiresReached
  <2>1. CASE d = c
    BY <1>2, <1>3, <1>4, <1>5, <2>1 DEF Reached
  <2>2. CASE d # c
    BY <1>3, <1>7, <2>2 DEF ReachInv, FiresReached, At
  <2> QED
    BY <2>1, <2>2
<1>11. JobsServed' /\ RunsOnce'
  BY <1>5 DEF ReachInv, JobsServed, RunsOnce, Thrownaway
<1>12. \A d \in Clients : (Preparing(d) \/ At(d, "enlist") \/ At(d, "stopping"))' => request'[d] = request[d]
  BY <1>2, <1>3 DEF Preparing, At
<1>13. MineMade'
  BY <1>5, <1>12 DEF ReachInv, MineMade, Preparing
<1>14. OwnPlaces'
  BY <1>5, <1>6, <1>12 DEF ReachInv, OwnPlaces, Thrownaway, At
<1>15. ThrownOnce'
  <2>1. \A d \in Clients : request'[d].mine = request[d].mine /\ (Aiming(d)' <=> Aiming(d))
    BY <1>2, <1>3, <1>5 DEF Aiming
  <2> QED
    BY <1>5, <2>1 DEF ReachInv, ThrownOnce, Thrownaway, Running
<1>16. OffTakes'
  BY <1>0, <1>5, <1>6, <1>8, <1>12 DEF ReachInv, OffTakes, At, Aborts
<1> QED
  BY <1>9, <1>10, <1>11, <1>13, <1>14, <1>15, <1>16 DEF ReachInv

\* A force run starts, or is dropped with its throwaway agent.
LEMMA TriggerFiresReach ==
    ASSUME TypeInv, ReachInv, OffAlone, NEW c \in Clients, TriggerFires(c)
    PROVE  ReachInv'
<1>0. /\ request[c] \in Request /\ request \in [Clients -> Request]
      /\ run \in [Run -> {"none", "gated", "searching"}]
      /\ registered \in AgentId \cup {0} /\ 0 \notin AgentId /\ adhoc \subseteq AgentId
  BY Ranges
<1>m. \A d \in Clients : Aiming(d) \/ Preparing(d) => request[d].mine \in AgentId
  BY Ranges, Zenon
<1>1. PICK o : o = request[c].mine
  OBVIOUS
<1>2. PICK s \in Skills :
        \/ adhoc' = adhoc \ {o} /\ run' = run
        \/ run' = [run EXCEPT ![<<o, s>>] = "gated"] /\ adhoc' = adhoc /\ agent[o].scheduler # "made"
  BY <1>1 DEF TriggerFires
<1>3. UNCHANGED <<agent, registered, jobs>> /\ request[c].pc = "fire"
  BY DEF TriggerFires, At, agentVars
<1>4. request'[c].pc = "idle" /\ \A d \in Clients : d # c => request'[d] = request[d]
  BY <1>0 DEF TriggerFires, Done, NoRequest
<1>5. o \in AgentId /\ Aiming(c)
  BY <1>m, <1>1, <1>3 DEF Aiming
<1>6. \A d \in Clients : (Aiming(d) \/ Preparing(d) \/ At(d, "stopping"))' => d # c /\ request'[d] = request[d]
  BY <1>4 DEF Aiming, Preparing, At
\* The agent of this run is nobody else's, when it is a throwaway one.
<1>7. Thrownaway(o) => ~Running(o) /\ \A d \in Clients : Aiming(d) /\ request[d].mine = o => d = c
  BY <1>1, <1>5 DEF ReachInv, ThrownOnce
<1>8. Reached(o)
  BY <1>1, <1>3, <1>5 DEF ReachInv, FiresReached, At
<1>9. \A a \in AgentId : a # o \/ ~Thrownaway(o) => (Reached(a) => Reached(a)')
  <2>1. o \in adhoc => Thrownaway(o)
    BY DEF ReachInv, OwnPlaces
  <2> QED
    BY <1>2, <1>3, <1>4, <2>1 DEF Reached, Held
<1>10. run' = run => \A a \in AgentId : Running(a)' <=> Running(a)
  BY DEF Running
<1>11. ASSUME run' = [run EXCEPT ![<<o, s>>] = "gated"]
       PROVE  /\ \A a \in AgentId : a # o => (Running(a)' <=> Running(a))
              /\ \A t \in Skills : t # s => run'[<<o, t>>] = run[<<o, t>>]
              /\ \A a \in AgentId, t \in Skills : a # o => run'[<<a, t>>] = run[<<a, t>>]
  <2>1. \A a \in AgentId, t \in Skills : <<a, t>> \in Run /\ (<<a, t>> # <<o, s>> => run'[<<a, t>>] = run[<<a, t>>])
    BY <1>0, <1>11 DEF Run
  <2>2. \A t \in Skills : t # s => run'[<<o, t>>] = run[<<o, t>>]
    BY <1>5, <2>1
  <2>3. ASSUME NEW a \in AgentId, a # o PROVE \A t \in Skills : run'[<<a, t>>] = run[<<a, t>>]
    BY <2>1, <2>3
  <2>4. \A a \in AgentId : a # o => (Running(a)' <=> Running(a))
    BY <2>3 DEF Running
  <2> QED
    BY <2>2, <2>3, <2>4
<1>12. RunsReached'
  <2> SUFFICES ASSUME NEW a \in AgentId, Running(a)' PROVE Reached(a)'
    BY DEF RunsReached
  <2>1. CASE a # o
    BY <1>2, <1>9, <1>10, <1>11, <2>1 DEF ReachInv, RunsReached
  <2>2. CASE a = o /\ run' = run
    BY <1>5, <1>7, <1>9, <1>10, <2>2 DEF ReachInv, RunsReached
  <2>3. CASE a = o /\ adhoc' = adhoc
    BY <1>3, <1>4, <1>8, <2>3 DEF Reached, Held
  <2> QED
    BY <1>2, <2>1, <2>2, <2>3
<1>13. FiresReached'
  <2> SUFFICES ASSUME NEW d \in Clients, NEW a \in AgentId, At(d, "fire")', request'[d].mine = a
               PROVE  Reached(a)'
    BY DEF FiresReached
  <2>1. Aiming(d)'
    BY DEF At, Aiming
  <2>2. d # c /\ request'[d] = request[d] /\ At(d, "fire") /\ Aiming(d) /\ request[d].mine = a
    BY <1>6, <2>1 DEF At, Aiming
  <2>3. a # o \/ ~Thrownaway(o)
    BY <1>7, <2>2
  <2> QED
    BY <1>9, <2>2, <2>3 DEF ReachInv, FiresReached
<1>14. JobsServed' /\ MineMade'
  BY <1>3, <1>6 DEF ReachInv, JobsServed, MineMade, Preparing
<1>15. MadeRests'
  BY <1>2, <1>3, <1>10, <1>11 DEF ReachInv, MadeRests
<1>16. OwnPlaces'
  <2>1. \A d \in Clients : At(d, "enlist")' => request'[d] = request[d]
    BY <1>6 DEF At, Aiming
  <2> QED
    BY <1>2, <1>3, <2>1 DEF ReachInv, OwnPlaces, Thrownaway, At
<1>17. RunsOnce'
  <2> SUFFICES ASSUME NEW a \in AgentId, Thrownaway(a), NEW t \in Skills, NEW u \in Skills,
                      run'[<<a, t>>] # "none", run'[<<a, u>>] # "none"
               PROVE  t = u
    BY <1>3 DEF RunsOnce, Thrownaway
  <2>1. CASE run' = run
    BY <2>1 DEF ReachInv, RunsOnce
  <2>2. CASE run' # run /\ a # o
    BY <1>2, <1>11, <2>2 DEF ReachInv, RunsOnce
  <2>3. CASE run' # run /\ a = o
    <3>1. \A v \in Skills : run[<<o, v>>] = "none"
      BY <1>7, <2>3 DEF Running
    <3> QED
      BY <1>2, <1>11, <2>3, <3>1
  <2> QED
    BY <2>1, <2>2, <2>3
<1>18. ThrownOnce'
  <2> SUFFICES ASSUME NEW d \in Clients, Aiming(d)', agent'[request'[d].mine].scheduler = "throwaway"
               PROVE  /\ ~Running(request[d].mine)'
                      /\ \A e \in Clients : Aiming(e)' /\ request'[e].mine = request'[d].mine => e = d
    BY DEF ThrownOnce, Thrownaway
  <2>1. PICK m : m = request[d].mine
    OBVIOUS
  <2>2. \A e \in Clients : Aiming(e)' => e # c /\ Aiming(e) /\ request'[e] = request[e]
    BY <1>6 DEF Aiming
  <2>3. d # c /\ Aiming(d) /\ request'[d].mine = m /\ m \in AgentId /\ Thrownaway(m)
    BY <1>m, <1>3, <2>1, <2>2 DEF Thrownaway
  <2>4. ~Running(m) /\ \A e \in Clients : Aiming(e) /\ request[e].mine = m => e = d
    BY <2>1, <2>3 DEF ReachInv, ThrownOnce
  <2>5. m # o
    BY <1>1, <1>5, <2>3, <2>4
  <2>6. ~Running(m)'
    BY <1>2, <1>10, <1>11, <2>3, <2>4, <2>5
  <2>7. ~Running(request[d].mine)'
    BY <2>3, <2>6 DEF Running
  <2> QED
    BY <2>2, <2>3, <2>4, <2>7
<1>19. OffTakes'
  <2> SUFFICES ASSUME NEW d \in Clients, At(d, "stopping")', Aborts(d)', NEW a \in adhoc', Running(a)'
               PROVE  FALSE
    BY DEF OffTakes
  <2>1. At(d, "stopping") /\ Aborts(d)
    BY <1>6 DEF At, Aborts
  <2>2. a \in adhoc /\ a \in AgentId /\ ~Running(a) /\ Thrownaway(a)
    BY <1>0, <1>2, <2>1 DEF ReachInv, OffTakes, OwnPlaces
  <2>3. a = o
    BY <1>2, <1>10, <1>11, <2>2
  <2> QED
    BY <1>1, <1>3, <2>1, <2>2, <2>3 DEF OffAlone, At
<1> QED
  BY <1>12, <1>13, <1>14, <1>15, <1>16, <1>17, <1>18, <1>19 DEF ReachInv

\* A step that neither begins nor ends a run.
LEMMA SameRunsReach ==
    ASSUME TypeInv, ReachInv, AgentsTold, UNCHANGED <<request, registered, adhoc, jobs>>,
           \A a \in AgentId : Running(a)' <=> Running(a),
           \A a \in AgentId, s \in Skills : run'[<<a, s>>] # "none" => run[<<a, s>>] # "none"
    PROVE  ReachInv'
<1>0. /\ registered \in AgentId \cup {0} /\ adhoc \subseteq AgentId
  BY Ranges
<1>m. \A d \in Clients : Aiming(d) \/ Preparing(d) => request[d].mine \in AgentId
  BY Ranges, Zenon
<1>1. \A a \in AgentId : Reached(a) => Reached(a)'
  BY DEF Reached, Held, AgentsTold
<1>2. RunsReached' /\ FiresReached' /\ JobsServed' /\ MadeRests'
  BY <1>1 DEF ReachInv, RunsReached, FiresReached, JobsServed, MadeRests, At, AgentsTold, Thrownaway
<1>3. MineMade' /\ OwnPlaces'
  <2>1. MineMade'
    BY <1>m DEF ReachInv, MineMade, Preparing, AgentsTold
  <2>2. \A a \in adhoc' : agent'[a].scheduler = "throwaway"
    BY <1>0 DEF ReachInv, OwnPlaces, AgentsTold, Thrownaway
  <2>3. registered' # 0 => agent'[registered'].scheduler # "throwaway"
    BY <1>0 DEF ReachInv, OwnPlaces, AgentsTold, Thrownaway
  <2>4. \A d \in Clients : At(d, "enlist")' => agent'[request'[d].mine].scheduler = "throwaway"
    BY <1>m DEF ReachInv, OwnPlaces, AgentsTold, Thrownaway, At, Aiming
  <2> QED
    BY <2>1, <2>2, <2>3, <2>4 DEF OwnPlaces, Thrownaway
<1>4. RunsOnce'
  BY DEF ReachInv, RunsOnce, AgentsTold, Thrownaway
<1>5. ThrownOnce'
  <2> SUFFICES ASSUME NEW d \in Clients, Aiming(d)', agent'[request'[d].mine].scheduler = "throwaway"
               PROVE  /\ ~Running(request[d].mine)'
                      /\ \A e \in Clients : Aiming(e)' /\ request'[e].mine = request'[d].mine => e = d
    BY DEF ThrownOnce, Thrownaway
  <2>1. PICK m : m = request[d].mine
    OBVIOUS
  <2>2. Aiming(d) /\ m \in AgentId /\ Thrownaway(m) /\ request' = request
    BY <1>m, <2>1 DEF Aiming, AgentsTold, Thrownaway
  <2>3. ~Running(m) /\ \A e \in Clients : Aiming(e) /\ request[e].mine = m => e = d
    BY <2>1, <2>2 DEF ReachInv, ThrownOnce
  <2>4. ~Running(m)'
    BY <2>2, <2>3
  <2>5. ~Running(request[d].mine)'
    BY <2>1, <2>2, <2>4 DEF Running
  <2> QED
    BY <2>1, <2>2, <2>3, <2>5 DEF Aiming
<1>6. OffTakes'
  BY <1>0 DEF ReachInv, OffTakes, At, Aborts
<1> QED
  BY <1>2, <1>3, <1>4, <1>5, <1>6 DEF ReachInv

\* A job that gets the lock runs for an agent that was reached or schedules.
LEMMA JobReach ==
    ASSUME TypeInv, EditInv, ReachInv, NEW o \in AgentId, NEW s \in Skills, JobGates(o, s)
    PROVE  ReachInv'
<1>0. /\ run \in [Run -> {"none", "gated", "searching"}]
      /\ registered \in AgentId \cup {0} /\ adhoc \subseteq AgentId
  BY Ranges
<1>m. \A d \in Clients : Aiming(d) \/ Preparing(d) => request[d].mine \in AgentId
  BY Ranges, Zenon
<1>1. /\ UNCHANGED <<request, registered, adhoc, agent>> /\ jobs' \subseteq jobs
      /\ run' = run \/ run' = [run EXCEPT ![<<o, s>>] = "gated"]
  BY DEF JobGates, threadFrame, requestVars
<1>2. agent[o].scheduler \notin {"made", "throwaway"} /\ (agent[o].stop \/ agent[o].scheduler = "running")
  BY DEF JobGates, ReachInv, JobsServed
<1>3. Reached(o)
  BY <1>2, SchedulingReached DEF Scheduling, Reached
<1>4. \A a \in AgentId : Reached(a)' <=> Reached(a)
  BY <1>1 DEF Reached, Held
<1>5. \A a \in AgentId, t \in Skills : a # o => run'[<<a, t>>] = run[<<a, t>>]
  <2>1. \A a \in AgentId, t \in Skills : <<a, t>> \in Run
    BY DEF Run
  <2> SUFFICES ASSUME NEW a \in AgentId, NEW t \in Skills, a # o PROVE run'[<<a, t>>] = run[<<a, t>>]
    OBVIOUS
  <2>2. <<a, t>> # <<o, s>> /\ <<a, t>> \in Run
    BY <2>1
  <2> QED
    BY <1>0, <1>1, <2>2
<1>6. \A a \in AgentId : a # o => (Running(a)' <=> Running(a))
  BY <1>5 DEF Running
<1>7. RunsReached' /\ FiresReached'
  BY <1>1, <1>3, <1>4, <1>6 DEF ReachInv, RunsReached, FiresReached, At
<1>8. JobsServed' /\ MadeRests' /\ MineMade' /\ OwnPlaces'
  BY <1>1, <1>2, <1>6 DEF ReachInv, JobsServed, MadeRests, MineMade, OwnPlaces, Thrownaway, Preparing, At
<1>9. RunsOnce'
  BY <1>1, <1>2, <1>5 DEF ReachInv, RunsOnce, Thrownaway
<1>10. ThrownOnce'
  <2> SUFFICES ASSUME NEW d \in Clients, Aiming(d)', agent'[request'[d].mine].scheduler = "throwaway"
               PROVE  /\ ~Running(request[d].mine)'
                      /\ \A e \in Clients : Aiming(e)' /\ request'[e].mine = request'[d].mine => e = d
    BY DEF ThrownOnce, Thrownaway
  <2>1. PICK m : m = request[d].mine
    OBVIOUS
  <2>2. Aiming(d) /\ m \in AgentId /\ Thrownaway(m) /\ request' = request /\ m # o
    BY <1>m, <1>1, <1>2, <2>1 DEF Aiming, Thrownaway
  <2>3. ~Running(m) /\ \A e \in Clients : Aiming(e) /\ request[e].mine = m => e = d
    BY <2>1, <2>2 DEF ReachInv, ThrownOnce
  <2>4. ~Running(m)'
    BY <1>6, <2>2, <2>3
  <2>5. ~Running(request[d].mine)'
    BY <2>1, <2>2, <2>4 DEF Running
  <2> QED
    BY <2>1, <2>2, <2>3, <2>5 DEF Aiming
<1>11. OffTakes'
  <2>1. \A a \in adhoc : a # o /\ a \in AgentId
    BY <1>0, <1>2 DEF ReachInv, OwnPlaces, Thrownaway
  <2> QED
    BY <1>1, <1>6, <2>1 DEF ReachInv, OffTakes, At, Aborts
<1> QED
  BY <1>7, <1>8, <1>9, <1>10, <1>11 DEF ReachInv

\* A run that ends takes its throwaway agent along, which has no other.
LEMMA EndReach ==
    ASSUME TypeInv, ReachInv, NEW o \in AgentId, NEW s \in Skills, RunEnds(o, s)
    PROVE  ReachInv'
<1>0. /\ run \in [Run -> {"none", "gated", "searching"}]
      /\ registered \in AgentId \cup {0} /\ adhoc \subseteq AgentId
  BY Ranges
<1>m. \A d \in Clients : Aiming(d) \/ Preparing(d) => request[d].mine \in AgentId
  BY Ranges, Zenon
<1>1. /\ UNCHANGED <<request, registered, agent, jobs>> /\ adhoc' = adhoc \ {o}
      /\ run' = [run EXCEPT ![<<o, s>>] = "none"] /\ run[<<o, s>>] # "none"
  BY DEF RunEnds, threadFrame, requestVars
<1>2. \A a \in AgentId, t \in Skills : run'[<<a, t>>] # "none" => run[<<a, t>>] # "none" /\ <<a, t>> # <<o, s>>
  <2>1. \A a \in AgentId, t \in Skills : <<a, t>> \in Run
    BY DEF Run
  <2> SUFFICES ASSUME NEW a \in AgentId, NEW t \in Skills, run'[<<a, t>>] # "none"
               PROVE  run[<<a, t>>] # "none" /\ <<a, t>> # <<o, s>>
    OBVIOUS
  <2>2. <<a, t>> \in Run
    BY <2>1
  <2> QED
    BY <1>0, <1>1, <2>2
<1>3. \A a \in AgentId : Running(a)' => Running(a)
  BY <1>2 DEF Running
<1>4. Running(o)
  BY <1>1 DEF Running
<1>5. Thrownaway(o) => ~Running(o)'
  BY <1>1, <1>2 DEF ReachInv, RunsOnce, Running
<1>6. \A a \in AgentId : a # o \/ ~Thrownaway(o) => (Reached(a) => Reached(a)')
  <2>1. o \in adhoc => Thrownaway(o)
    BY DEF ReachInv, OwnPlaces
  <2> QED
    BY <1>1, <2>1 DEF Reached, Held
<1>7. RunsReached'
  BY <1>3, <1>5, <1>6 DEF ReachInv, RunsReached
<1>8. FiresReached'
  <2> SUFFICES ASSUME NEW d \in Clients, NEW a \in AgentId, At(d, "fire")', request'[d].mine = a
               PROVE  Reached(a)'
    BY DEF FiresReached
  <2>1. At(d, "fire") /\ Aiming(d) /\ request[d].mine = a
    BY <1>1 DEF At, Aiming
  <2>2. a # o \/ ~Thrownaway(o)
    BY <1>4, <2>1 DEF ReachInv, ThrownOnce
  <2> QED
    BY <1>6, <2>1, <2>2 DEF ReachInv, FiresReached
<1>9. JobsServed' /\ MadeRests' /\ MineMade' /\ OwnPlaces'
  BY <1>1, <1>3 DEF ReachInv, JobsServed, MadeRests, MineMade, OwnPlaces, Thrownaway, Preparing, At
<1>10. RunsOnce'
  BY <1>1, <1>2 DEF ReachInv, RunsOnce, Thrownaway
<1>11. ThrownOnce'
  <2> SUFFICES ASSUME NEW d \in Clients, Aiming(d)', agent'[request'[d].mine].scheduler = "throwaway"
               PROVE  /\ ~Running(request[d].mine)'
                      /\ \A e \in Clients : Aiming(e)' /\ request'[e].mine = request'[d].mine => e = d
    BY DEF ThrownOnce, Thrownaway
  <2>1. PICK m : m = request[d].mine
    OBVIOUS
  <2>2. Aiming(d) /\ m \in AgentId /\ Thrownaway(m) /\ request' = request
    BY <1>m, <1>1, <2>1 DEF Aiming, Thrownaway
  <2>3. ~Running(m) /\ \A e \in Clients : Aiming(e) /\ request[e].mine = m => e = d
    BY <2>1, <2>2 DEF ReachInv, ThrownOnce
  <2>4. ~Running(m)'
    BY <1>3, <2>2, <2>3
  <2>5. ~Running(request[d].mine)'
    BY <2>1, <2>2, <2>4 DEF Running
  <2> QED
    BY <2>1, <2>2, <2>3, <2>5 DEF Aiming
<1>12. OffTakes'
  BY <1>0, <1>1, <1>3 DEF ReachInv, OffTakes, At, Aborts
<1> QED
  BY <1>7, <1>8, <1>9, <1>10, <1>11, <1>12 DEF ReachInv

LEMMA RunReach ==
    ASSUME TypeInv, EditInv, ReachInv, RunStep
    PROVE  ReachInv'
<1>0. run \in [Run -> {"none", "gated", "searching"}]
  BY Ranges
<1>1. ASSUME NEW o \in AgentId, SchedulerStarts(o) \/ SchedulerEnds(o) PROVE ReachInv'
  <2>1. UNCHANGED <<request, registered, adhoc, jobs, run>>
    BY <1>1 DEF SchedulerStarts, SchedulerEnds, threadFrame, requestVars, runVars
  <2>2. AgentsTold
    BY <1>1, SchedulerTold
  <2>3. \A a \in AgentId : Running(a)' <=> Running(a)
    BY <2>1 DEF Running
  <2> QED
    BY <2>1, <2>2, <2>3, SameRunsReach
<1>2. ASSUME NEW o \in AgentId, NEW s \in Skills, Dispatches(o, s) PROVE ReachInv'
  <2>1. /\ UNCHANGED <<request, registered, adhoc, agent, run>>
        /\ jobs' = jobs \cup {<<o, s>>} /\ agent[o].scheduler = "running"
    BY <1>2 DEF Dispatches, threadFrame, requestVars
  <2>2. JobsServed'
    <3> SUFFICES ASSUME NEW a \in AgentId, NEW t \in Skills, <<a, t>> \in jobs'
                 PROVE  agent[a].scheduler \notin {"made", "throwaway"} /\ (agent[a].stop \/ agent[a].scheduler = "running")
      BY <2>1 DEF JobsServed
    <3>1. CASE <<a, t>> \in jobs
      BY <3>1 DEF ReachInv, JobsServed
    <3>2. CASE <<a, t>> = <<o, s>>
      BY <2>1, <3>2
    <3> QED
      BY <2>1, <3>1, <3>2
  <2>3. RunsReached' /\ FiresReached' /\ MadeRests' /\ MineMade' /\ OwnPlaces'
    BY <2>1 DEF ReachInv, RunsReached, FiresReached, MadeRests, MineMade, OwnPlaces, Running, Reached, Held, At,
                Preparing, Thrownaway
  <2>4. RunsOnce' /\ ThrownOnce' /\ OffTakes'
    BY <2>1 DEF ReachInv, RunsOnce, ThrownOnce, OffTakes, Running, Thrownaway, Aiming, At, Aborts
  <2> QED
    BY <2>2, <2>3, <2>4 DEF ReachInv
<1>3. ASSUME NEW o \in AgentId, NEW s \in Skills, RunStarts(o, s) PROVE ReachInv'
  <2>1. /\ UNCHANGED <<request, registered, adhoc, agent, jobs>>
        /\ run' = [run EXCEPT ![<<o, s>>] = "searching"] /\ run[<<o, s>>] = "gated"
    BY <1>3 DEF RunStarts, threadFrame, requestVars
  <2>2. ASSUME NEW a \in AgentId, NEW t \in Skills PROVE run'[<<a, t>>] # "none" <=> run[<<a, t>>] # "none"
    <3>1. <<a, t>> \in Run
      BY DEF Run
    <3> QED
      BY <1>0, <2>1, <3>1
  <2>3. \A a \in AgentId : Running(a)' <=> Running(a)
    BY <2>2 DEF Running
  <2>4. AgentsTold
    BY <2>1, SameAgentsTold
  <2> QED
    BY <2>1, <2>2, <2>3, <2>4, SameRunsReach
<1> QED
  BY <1>1, <1>2, <1>3, JobReach, EndReach DEF RunStep

LEMMA ReachStep ==
    TypeInv /\ EditInv /\ OneEdit /\ OffAlone /\ ReachInv /\ [Next]_vars => ReachInv'
<1> SUFFICES ASSUME TypeInv, EditInv, OneEdit, OffAlone, ReachInv, [Next]_vars PROVE ReachInv'
  OBVIOUS
<1>1. ASSUME NEW c \in Clients, TriggerStep(c) PROVE ReachInv'
  BY <1>1, TriggerReadsReach, TriggerMakesReach, TriggerEnlistsReach, TriggerFiresReach DEF TriggerStep
<1>2. CASE UNCHANGED vars
  <2>1. UNCHANGED <<registered, adhoc, agent, jobs, run, request>>
    BY <1>2 DEF vars, orchestratorVars, agentVars, runVars, requestVars
  <2>2. AgentsTold /\ \A a \in AgentId : Running(a)' <=> Running(a)
    BY <2>1, SameAgentsTold DEF Running
  <2> QED
    BY <2>1, <2>2, SameRunsReach
<1> QED
  BY <1>1, <1>2, BeginReach, StartReach, StopReach, RunReach DEF Next

\* OffReachesKnownRuns: switching off tells every run of the instance to end
\* that an earlier reload has not let finish, however many edits and force
\* runs went before and whatever runs beside it.
THEOREM OffReachesRuns == Spec /\ []OneEdit /\ []OffAlone => OffReachesKnownRuns
<1>1. ASSUME TypeInv, EditInv, OneEdit, ReachInv,
             NEW c \in Clients, SwitchesOff(c), NEW a \in AgentId, Running(a)
      PROVE  agent'[a].abort \/ agent[a].stop
  <2>1. At(c, "stopping") /\ StopStops(c) /\ Aborts(c) /\ Editing(c)
    BY <1>1 DEF SwitchesOff, Aborts, At, Editing, TriggerPc
  <2>2. registered = 0 /\ 0 \notin AgentId
    BY <1>1, <2>1, Ranges DEF EditInv, Stage, At
  <2>3. a \notin adhoc /\ Reached(a)
    BY <1>1, <2>1 DEF ReachInv, OffTakes, RunsReached
  <2>4. AgentsTold /\ (a = request[c].old \/ a \in request[c].thrown => agent'[a].abort)
    BY <1>1, <2>1, StopTold
  <2>5. CASE agent[a].stop \/ agent[a].abort
    BY <2>4, <2>5 DEF AgentsTold
  <2>6. ASSUME NEW d \in Clients, Held(d, a) PROVE agent'[a].abort
    <3>1. d = c
      BY <1>1, <2>1, <2>6 DEF OneEdit, Held, Editing, TriggerPc
    <3> QED
      BY <2>4, <2>6, <3>1 DEF Held
  <2> QED
    BY <2>2, <2>3, <2>5, <2>6 DEF Reached
<1>2. TypeInv /\ EditInv /\ OneEdit /\ ReachInv /\ [Next]_vars =>
        [\A c \in Clients : SwitchesOff(c) =>
          \A a \in AgentId : Running(a) => agent'[a].abort \/ agent[a].stop]_vars
  BY <1>1
<1>3. Init => TypeInv /\ ReachInv
  BY TypeInit, ReachInit
<1>4. TypeInv /\ [Next]_vars => TypeInv'
  BY TypeStep
<1>5. TypeInv /\ EditInv /\ OneEdit /\ OffAlone /\ ReachInv /\ [Next]_vars => ReachInv'
  BY ReachStep
<1> QED
  BY <1>2, <1>3, <1>4, <1>5, EditsAreSafe, PTL DEF Spec, OffReachesKnownRuns
=============================================================================
