--------------------------- MODULE AgentLifecycle ---------------------------
(***************************************************************************)
(* The agents of one instance: the orchestrator that registers, replaces   *)
(* and stops them (agents/orchestrator.py), the agent with its scheduler   *)
(* thread and its skill runs (agents/base.py), and the requests of the     *)
(* instances API that drive both from several threads at once.             *)
(*                                                                         *)
(* One step is one hold of a lock, one read or write of the instance row,  *)
(* or one event or scheduler call on an agent.  What a run does between    *)
(* its start and its end is the business of SearchLedger.                  *)
(***************************************************************************)
EXTENDS Naturals, FiniteSets

CONSTANTS
    Clients,      \* threads that serve requests at the same time
    Skills,       \* the skills of an agent
    Kinds,        \* the requests that come in: subset of RequestKinds
    MaxAgents,    \* bound: agent objects created
    MaxRequests,  \* bound: requests served
    MaxJobs       \* bound: jobs the schedulers dispatch

RequestKinds == {"on", "off", "save", "delete", "trigger"}

ASSUME KindsAssumption == Kinds \subseteq RequestKinds
ASSUME BoundsAssumption == {MaxAgents, MaxRequests, MaxJobs} \subseteq Nat

VARIABLES
    row,         \* the instance in the database
    registered,  \* orchestrator._agents: the agent of the instance, 0: none
    adhoc,       \* orchestrator._adhoc: throwaway agents of force runs
    runtime,     \* orchestrator._runtimes: the instance's runtime, 0: none
    runtimes,    \* runtimes made so far
    agent,       \* agent id -> scheduler thread, events, runtime
    agents,      \* agents made so far
    locked,      \* skill locks held, as <<runtime, skill>>
    jobs,        \* scheduler jobs on their way to the lock, as <<agent, skill>>
    run,         \* <<agent, skill>> -> how far its run is
    request,     \* client -> what its thread is doing
    requests,    \* requests served so far
    dispatched   \* jobs dispatched so far

orchestratorVars == <<registered, adhoc, runtime, runtimes>>
agentVars == <<agent, agents>>
runVars   == <<locked, jobs, run, dispatched>>
requestVars == <<request, requests>>
vars == <<row, orchestratorVars, agentVars, runVars, requestVars>>

-----------------------------------------------------------------------------
(* Types *)

AgentId   == 1..MaxAgents
RuntimeId == 1..MaxAgents
Run       == AgentId \X Skills

\* "made": no thread and no skills yet; "throwaway": skills, but never a
\* thread; "starting": its thread builds the scheduler; "failed": the
\* scheduler did not start.
Scheduler == {"made", "throwaway", "starting", "running", "failed", "ended"}

Agent    == [scheduler : Scheduler, stop : BOOLEAN, abort : BOOLEAN, runtime : RuntimeId \cup {0}]
NewAgent == [scheduler |-> "made", stop |-> FALSE, abort |-> FALSE, runtime |-> 0]

RequestPc == {"idle", "unregister", "stopping", "waiting", "forget", "erase", "reread",
              "start", "pop", "replace", "make", "register", "displace", "launch",
              "trigger", "throwaway", "enlist", "fire"}

\* old: the agent taken out of the registry; mine: the agent made or found.
Request == [kind : RequestKinds, pc : RequestPc, old : AgentId \cup {0},
            mine : AgentId \cup {0}, thrown : SUBSET AgentId]
NoRequest == [kind |-> "on", pc |-> "idle", old |-> 0, mine |-> 0, thrown |-> {}]

TypeOK ==
    /\ row \in {"enabled", "disabled", "deleted"}
    /\ registered \in AgentId \cup {0}
    /\ adhoc \subseteq AgentId
    /\ runtime \in RuntimeId \cup {0}
    /\ runtimes \in 0..MaxAgents
    /\ agent \in [AgentId -> Agent]
    /\ agents \in 0..MaxAgents
    /\ locked \subseteq RuntimeId \X Skills
    /\ jobs \subseteq Run
    /\ run \in [Run -> {"none", "gated", "searching"}]
    /\ request \in [Clients -> Request]
    /\ requests \in 0..MaxRequests
    /\ dispatched \in 0..MaxJobs

\* A disabled instance, as the API creates it; switching it on comes later.
Init ==
    /\ row = "disabled"
    /\ registered = 0
    /\ adhoc = {}
    /\ runtime = 0
    /\ runtimes = 0
    /\ agent = [a \in AgentId |-> NewAgent]
    /\ agents = 0
    /\ locked = {}
    /\ jobs = {}
    /\ run = [r \in Run |-> "none"]
    /\ request = [c \in Clients |-> NoRequest]
    /\ requests = 0
    /\ dispatched = 0

-----------------------------------------------------------------------------
(* Steps of a request *)

At(c, pc) == request[c].pc = pc
Goto(c, pc) == request' = [request EXCEPT ![c].pc = pc]
Done(c) == request' = [request EXCEPT ![c] = NoRequest]

(***************************************************************************)
(* The API writes the row and calls the orchestrator: toggle on and off,   *)
(* save (the form carries the enabled flag too), delete and force trigger. *)
(***************************************************************************)
Begin(c) ==
    /\ At(c, "idle")
    /\ row # "deleted"
    /\ requests < MaxRequests
    /\ requests' = requests + 1
    /\ \E kind \in Kinds :
        /\ row' \in CASE kind = "on"   -> {"enabled"}
                      [] kind = "off"  -> {"disabled"}
                      [] kind = "save" -> {"enabled", "disabled"}
                      [] OTHER         -> {row}
        /\ request' = [request EXCEPT ![c] = [NoRequest EXCEPT !.kind = kind,
             !.pc = CASE kind = "on"      -> "start"
                      [] kind = "trigger" -> "trigger"
                      [] OTHER            -> "unregister"]]
    /\ UNCHANGED <<orchestratorVars, agentVars, runVars>>

\* Mutant: every agent gets a runtime of its own.
OwnRuntime ==
    /\ runtimes' = runtimes + 1
    /\ runtime' = runtimes + 1

\* Mutant: an agent is made without the runtime of its instance.
NoRuntime == UNCHANGED <<runtime, runtimes>>

\* Orchestrator._runtime: the agents of an instance share one.
SharedRuntime ==
    IF runtime # 0 THEN UNCHANGED <<runtime, runtimes>>
    ELSE /\ runtimes' = runtimes + 1
         /\ runtime' = runtimes + 1

MakeAgent(scheduler) ==
    /\ agents < MaxAgents
    /\ SharedRuntime
    /\ agents' = agents + 1
    /\ agent' = [agent EXCEPT ![agents + 1] = [NewAgent EXCEPT !.scheduler = scheduler,
                                                              !.runtime = runtime']]

\* BaseAgent.stop: an agent whose thread has not started its scheduler yet
\* has only the events to go by.
Stopped(a, abort) ==
    [agent[a] EXCEPT !.stop = TRUE,
                     !.abort = @ \/ abort,
                     !.scheduler = IF @ = "running" THEN "ended" ELSE @]

StopOld(c, abort) ==
    agent' = IF request[c].old = 0 THEN agent
             ELSE [agent EXCEPT ![request[c].old] = Stopped(request[c].old, abort)]

-----------------------------------------------------------------------------
(* start_agent *)

StartReads(c) ==
    /\ At(c, "start")
    /\ IF row = "enabled" THEN Goto(c, "pop") ELSE Done(c)
    /\ UNCHANGED <<row, orchestratorVars, agentVars, runVars, requests>>

StartPops(c) ==
    /\ At(c, "pop")
    /\ registered' = 0
    /\ request' = [request EXCEPT ![c].old = registered, ![c].pc = "replace"]
    /\ UNCHANGED <<row, adhoc, runtime, runtimes, agentVars, runVars, requests>>

StartReplaces(c) ==
    /\ At(c, "replace")
    /\ StopOld(c, FALSE)
    /\ Goto(c, "make")
    /\ UNCHANGED <<row, orchestratorVars, agents, runVars, requests>>

StartMakes(c) ==
    /\ At(c, "make")
    /\ MakeAgent("made")
    /\ request' = [request EXCEPT ![c].mine = agents + 1, ![c].pc = "register"]
    /\ UNCHANGED <<row, registered, adhoc, runVars, requests>>

\* A concurrent start may have registered an agent meanwhile.
StartRegisters(c) ==
    /\ At(c, "register")
    /\ registered' = request[c].mine
    /\ request' = [request EXCEPT ![c].old = registered, ![c].pc = "displace"]
    /\ UNCHANGED <<row, adhoc, runtime, runtimes, agentVars, runVars, requests>>

StartDisplaces(c) ==
    /\ At(c, "displace")
    /\ StopOld(c, FALSE)
    /\ Goto(c, "launch")
    /\ UNCHANGED <<row, orchestratorVars, agents, runVars, requests>>

\* BaseAgent.start clears both events and starts the thread.
StartLaunches(c) ==
    /\ At(c, "launch")
    /\ agent' = [agent EXCEPT ![request[c].mine].stop = FALSE,
                              ![request[c].mine].abort = FALSE,
                              ![request[c].mine].scheduler = "starting"]
    /\ Done(c)
    /\ UNCHANGED <<row, orchestratorVars, agents, runVars, requests>>

StartStep(c) ==
    \/ StartReads(c) \/ StartPops(c) \/ StartReplaces(c) \/ StartMakes(c)
    \/ StartRegisters(c) \/ StartDisplaces(c) \/ StartLaunches(c)

-----------------------------------------------------------------------------
(* stop_agent, reload_agent and forget_instance *)

\* Switching off and deleting abort what runs, a reload lets it finish.
Aborts(c) == request[c].kind \in {"off", "delete"}

StopUnregisters(c) ==
    /\ At(c, "unregister")
    /\ registered' = 0
    /\ adhoc' = IF Aborts(c) THEN {} ELSE adhoc
    /\ request' = [request EXCEPT ![c].pc = "stopping",
                                  ![c].old = registered,
                                  ![c].thrown = IF Aborts(c) THEN adhoc ELSE {}]
    /\ UNCHANGED <<row, runtime, runtimes, agentVars, runVars, requests>>

\* Mutant: the throwaway agents are forgotten without an abort.
NotThrown(c, a) == FALSE

Thrown(c, a) == a \in request[c].thrown

StopStops(c) ==
    /\ At(c, "stopping")
    /\ agent' = [a \in AgentId |->
         IF a = request[c].old THEN Stopped(a, Aborts(c))
         ELSE IF Thrown(c, a) THEN [agent[a] EXCEPT !.abort = TRUE]
         ELSE agent[a]]
    /\ CASE request[c].kind = "off"    -> Done(c)
         [] request[c].kind = "delete" -> Goto(c, "waiting")
         [] OTHER                      -> Goto(c, "reread")
    /\ UNCHANGED <<row, orchestratorVars, agents, runVars, requests>>

\* reload_agent reads the row again and starts an agent if it is enabled.
ReloadReads(c) ==
    /\ At(c, "reread")
    /\ IF row = "enabled" THEN Goto(c, "start") ELSE Done(c)
    /\ UNCHANGED <<row, orchestratorVars, agentVars, runVars, requests>>

Busy == \E s \in Skills : <<runtime, s>> \in locked

\* wait_runtime_idle: no skill of the instance holds its lock any more.
DeleteWaited(c) ==
    /\ At(c, "waiting")
    /\ ~Busy
    /\ Goto(c, "forget")
    /\ UNCHANGED <<row, orchestratorVars, agentVars, runVars, requests>>

\* Mutant: the agent stopped for the delete is not brought back.
StaysStopped(c) == Done(c)

BringsBack(c) == request' = [request EXCEPT ![c].kind = "save", ![c].pc = "unregister"]

\* A search did not stop in time: the instance stays (HTTP 409).
DeleteTimesOut(c) ==
    /\ At(c, "waiting")
    /\ Busy
    /\ BringsBack(c)
    /\ UNCHANGED <<row, orchestratorVars, agentVars, runVars, requests>>

DeleteForgets(c) ==
    /\ At(c, "forget")
    /\ runtime' = 0
    /\ Goto(c, "erase")
    /\ UNCHANGED <<row, registered, adhoc, runtimes, agentVars, runVars, requests>>

DeleteErases(c) ==
    /\ At(c, "erase")
    /\ row' = "deleted"
    /\ Done(c)
    /\ UNCHANGED <<orchestratorVars, agentVars, runVars, requests>>

StopStep(c) ==
    \/ StopUnregisters(c) \/ StopStops(c) \/ ReloadReads(c)
    \/ DeleteWaited(c) \/ DeleteTimesOut(c) \/ DeleteForgets(c) \/ DeleteErases(c)

-----------------------------------------------------------------------------
(* trigger and trigger_now *)

TriggerReads(c) ==
    /\ At(c, "trigger")
    /\ request' = [request EXCEPT ![c].mine = registered,
                                  ![c].pc = IF registered # 0 THEN "fire" ELSE "throwaway"]
    /\ UNCHANGED <<row, orchestratorVars, agentVars, runVars, requests>>

\* Nothing is registered: a throwaway agent on the shared runtime.
TriggerMakes(c) ==
    /\ At(c, "throwaway")
    /\ IF row = "deleted"
       THEN Done(c) /\ UNCHANGED <<agentVars, runtime, runtimes>>
       ELSE /\ MakeAgent("throwaway")
            /\ request' = [request EXCEPT ![c].mine = agents + 1, ![c].pc = "enlist"]
    /\ UNCHANGED <<row, registered, adhoc, runVars, requests>>

TriggerEnlists(c) ==
    /\ At(c, "enlist")
    /\ adhoc' = adhoc \cup {request[c].mine}
    /\ Goto(c, "fire")
    /\ UNCHANGED <<row, registered, runtime, runtimes, agentVars, runVars, requests>>

Lock(a, s) == <<agent[a].runtime, s>>

\* The lock is reserved before the caller is told "started"; the run hands
\* it back.  A busy skill drops the trigger and its throwaway agent, and so
\* does a registered agent that has no skills yet (TRIGGER_UNKNOWN_SKILL).
TriggerFires(c) ==
    /\ At(c, "fire")
    /\ LET a == request[c].mine IN
       \E s \in Skills :
         IF agent[a].scheduler = "made" \/ Lock(a, s) \in locked
         THEN /\ adhoc' = adhoc \ {a}
              /\ UNCHANGED <<locked, run>>
         ELSE /\ locked' = locked \cup {Lock(a, s)}
              /\ run' = [run EXCEPT ![<<a, s>>] = "gated"]
              /\ UNCHANGED adhoc
    /\ Done(c)
    /\ UNCHANGED <<row, registered, runtime, runtimes, agentVars, jobs, dispatched, requests>>

TriggerStep(c) == TriggerReads(c) \/ TriggerMakes(c) \/ TriggerEnlists(c) \/ TriggerFires(c)

-----------------------------------------------------------------------------
(* Scheduler threads and runs *)

threadFrame == <<row, registered, runtime, runtimes, agents, requestVars>>

\* _run: the scheduler starts, or fails to.
SchedulerStarts(a) ==
    /\ agent[a].scheduler = "starting"
    /\ \E to \in {"running", "failed"} : agent' = [agent EXCEPT ![a].scheduler = to]
    /\ UNCHANGED <<threadFrame, adhoc, runVars>>

\* ... and shuts down once the stop event is set.
SchedulerEnds(a) ==
    /\ agent[a].scheduler = "running"
    /\ agent[a].stop
    /\ agent' = [agent EXCEPT ![a].scheduler = "ended"]
    /\ UNCHANGED <<threadFrame, adhoc, runVars>>

Dispatches(a, s) ==
    /\ agent[a].scheduler = "running"
    /\ dispatched < MaxJobs
    /\ dispatched' = dispatched + 1
    /\ jobs' = jobs \cup {<<a, s>>}
    /\ UNCHANGED <<threadFrame, adhoc, agent, locked, run>>

\* _gated_run: the flags or quiet hours skip the job, or the lock is taken.
JobGates(a, s) ==
    /\ <<a, s>> \in jobs
    /\ jobs' = jobs \ {<<a, s>>}
    /\ \/ UNCHANGED <<locked, run>>
       \/ /\ Lock(a, s) \notin locked
          /\ locked' = locked \cup {Lock(a, s)}
          /\ run' = [run EXCEPT ![<<a, s>>] = "gated"]
    /\ UNCHANGED <<threadFrame, adhoc, agent, dispatched>>

\* start_run: the foreign key refuses a run of a deleted instance.
RunStarts(a, s) ==
    /\ run[<<a, s>>] = "gated"
    /\ row # "deleted"
    /\ run' = [run EXCEPT ![<<a, s>>] = "searching"]
    /\ UNCHANGED <<threadFrame, adhoc, agent, locked, jobs, dispatched>>

\* The run is over or failed: the lock goes back on every path, a throwaway
\* agent is forgotten.
RunEnds(a, s) ==
    /\ run[<<a, s>>] # "none"
    /\ run' = [run EXCEPT ![<<a, s>>] = "none"]
    /\ locked' = locked \ {Lock(a, s)}
    /\ adhoc' = adhoc \ {a}
    /\ UNCHANGED <<threadFrame, agent, jobs, dispatched>>

RunStep ==
    \/ \E a \in AgentId : SchedulerStarts(a) \/ SchedulerEnds(a)
    \/ \E a \in AgentId, s \in Skills :
        Dispatches(a, s) \/ JobGates(a, s) \/ RunStarts(a, s) \/ RunEnds(a, s)

Next ==
    \/ \E c \in Clients : Begin(c) \/ StartStep(c) \/ StopStep(c) \/ TriggerStep(c)
    \/ RunStep

Spec == Init /\ [][Next]_vars

-----------------------------------------------------------------------------
(* Properties *)

Quiet == \A c \in Clients : At(c, "idle")
Scheduling(a) == agent[a].scheduler \in {"starting", "running"} /\ ~agent[a].stop

\* No scheduler runs that nobody can stop any more: between requests only
\* the registered agent schedules ("its scheduler would keep running
\* unreferenced", start_agent).
NoOrphan == Quiet => \A a \in AgentId : Scheduling(a) => registered = a

\* An enabled instance is scheduled for between requests, whatever saves,
\* switches and refused deletes came before; one that is not has no agent.
EnabledIsScheduled ==
    Quiet => IF row = "enabled"
             THEN registered # 0 /\ (Scheduling(registered) \/ agent[registered].scheduler = "failed")
             ELSE registered = 0

\* A skill of the instance runs once at a time, also across the agents that
\* saving, switching and force runs create (InstanceRuntime: "a run of the
\* old agent could overlap one of the new agent").
OneRunPerSkill ==
    \A s \in Skills : \A a, b \in AgentId :
        run[<<a, s>>] # "none" /\ run[<<b, s>>] # "none" => a = b

SwitchesOff(c) == At(c, "stopping") /\ request[c].kind = "off" /\ StopStops(c)
Running(a) == \E s \in Skills : run[<<a, s>>] # "none"

\* Switching an instance off reaches every run it can: what still runs then
\* and was not aborted belongs to an agent an earlier reload let finish.
OffReachesKnownRuns ==
    [][\A c \in Clients : SwitchesOff(c) =>
          \A a \in AgentId : Running(a) => agent'[a].abort \/ agent[a].stop]_vars

\* "Disabling aborts a search in progress (A-L5)" (toggle_instance): once an
\* instance is switched off, every run of it has been told to end.
DisablingAborts ==
    [][\A c \in Clients : SwitchesOff(c) =>
          \A a \in AgentId : Running(a) => agent'[a].abort]_vars

\* A delete aborts a search and waits for it "before the row (and its foreign
\* keys) disappear": no search goes on for an instance that is gone.
DeletedIsSilent ==
    row = "deleted" =>
        \A a \in AgentId, s \in Skills : run[<<a, s>>] = "searching" => agent[a].abort
=============================================================================
