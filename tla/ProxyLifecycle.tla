--------------------------- MODULE ProxyLifecycle ---------------------------
(***************************************************************************)
(* Proxies: the manager, the monitor and the processes they both start and *)
(* stop (pkg/proxy/manager.go, monitor.go, shadowsocks/shadowsocks.go).    *)
(*                                                                         *)
(* Two kinds of thread work on an egress.  The manager's operations hold   *)
(* Manager.mu, so one runs at a time; the monitor's check of an egress,    *)
(* one at a time too, does not take that lock.  Both call Stop and Start   *)
(* of a Shadowsocks instance, which act on a pid file and on processes.    *)
(* All instances for one egress share the pid file, and what else an       *)
(* instance holds is the configuration it starts its process with.         *)
(*                                                                         *)
(* Outside the agent are the processes.  The agent never waits for one, so *)
(* a child that exits stays a zombie, which kill(pid, 0) still finds, for  *)
(* as long as the agent lives.  Under systemd's KillMode=process a new     *)
(* agent finds the processes and pid files of the previous one.            *)
(*                                                                         *)
(* I/O errors other than those of writing the pid file and those that make *)
(* a whole Configure or Start fail are left out, as is a pid that the      *)
(* system gives to another process while a pid file still names it.        *)
(***************************************************************************)
EXTENDS Naturals, FiniteSets

CONSTANTS
    Egress,         \* egress identifiers
    Cfg, NoCfg,     \* what the server configures an egress with, and nothing
    Pid, NoPid,     \* process slots, and none
    MaxOps,         \* bound: manager operations
    MaxRestarts     \* bound: agent restarts

ASSUME ConstantsAssumption ==
    /\ NoCfg \notin Cfg /\ NoPid \notin Pid /\ "manager" \notin Egress
    /\ MaxOps \in Nat /\ MaxRestarts \in Nat

VARIABLES
    proxies,    \* Manager.proxies: the configuration of each instance
    todo,       \* what the operation that holds Manager.mu has still to do
    states,     \* ProxyMonitor.states
    detached,   \* the state a check works on once it is no longer in the table
    watching,   \* "on"; "ending" after StopMonitor: a tick may be pending; then "off"
    job,        \* where each thread is: the manager's one, and a check per egress
    proc,       \* the processes
    pidfile,    \* the pid in each egress' pid file
    ops, restarts,  \* used up of the bounds
    spoiled     \* ghost: egresses on which something not covered below happened

agent == <<proxies, todo, states, detached, watching, job>>
world == <<proc, pidfile>>
bounds == <<ops, restarts>>
vars == <<agent, world, bounds, spoiled>>

----------------------------------------------------------------------------
Nothing == [does |-> "nothing", cfg |-> NoCfg]
Plans == {Nothing} \cup [does : {"set"}, cfg : Cfg]
                   \cup [does : {"restart", "halt", "remove"}, cfg : {NoCfg}]

Statuses == {"unknown", "running", "stopped", "crashed", "restarting"}
NoState == [cfg |-> NoCfg, status |-> "unknown", enabled |-> FALSE]
States == {NoState} \cup [cfg : Cfg, status : Statuses, enabled : BOOLEAN]

\* check, probe, verify: the monitor; kill, unlink: in Stop; configure: between
\* Stop and Start; start, spawn, write: in Start; failed, done: after it.
Places == {"idle", "check", "probe", "kill", "unlink", "configure", "start",
           "spawn", "write", "failed", "done"}
Manager == "manager"
Thread == Egress \cup {Manager}
Jobs == [at : Places, id : Egress \cup {Manager}, cfg : Cfg \cup {NoCfg}, pid : Pid \cup {NoPid}]
Idle == [at |-> "idle", id |-> Manager, cfg |-> NoCfg, pid |-> NoPid]

\* term: told to terminate; dead: exited.  A dead child is a zombie.
Processes == [egress : Egress \cup {Manager}, cfg : Cfg \cup {NoCfg},
              st : {"up", "term", "dead"}, child : BOOLEAN]
Gone == [egress |-> Manager, cfg |-> NoCfg, st |-> "dead", child |-> FALSE]

\* Types; a thread is at work on the egress it is for, and a process runs some
\* egress' configuration.
TypeOK ==
    /\ proxies \in [Egress -> Cfg \cup {NoCfg}]
    /\ todo \in [Egress -> Plans]
    /\ states \in [Egress -> States] /\ detached \in [Egress -> States]
    /\ watching \in {"on", "ending", "off"}
    /\ job \in [Thread -> Jobs]
    /\ \A t \in Thread : job[t].at # "idle" => job[t].id \in Egress
    /\ \A id \in Egress : job[id].id \in {id, Manager}
    /\ proc \in [Pid -> Processes]
    /\ \A p \in Pid : proc[p].st # "dead" => proc[p].egress \in Egress /\ proc[p].cfg \in Cfg
    /\ pidfile \in [Egress -> Pid \cup {NoPid}]
    /\ ops \in Nat /\ restarts \in Nat
    /\ spoiled \in SUBSET Egress

Init ==
    /\ proxies = [id \in Egress |-> NoCfg]
    /\ todo = [id \in Egress |-> Nothing]
    /\ states = [id \in Egress |-> NoState] /\ detached = [id \in Egress |-> NoState]
    /\ watching = "on"
    /\ job = [t \in Thread |-> Idle]
    /\ proc = [p \in Pid |-> Gone]
    /\ pidfile = [id \in Egress |-> NoPid]
    /\ ops = 0 /\ restarts = 0
    /\ spoiled = {}

At(t, l) == job[t].at = l
Go(t, l) == job' = [job EXCEPT ![t].at = l]

----------------------------------------------------------------------------
(* Shadowsocks, for any thread t that is at work on egress job[t].id.      *)

\* kill(pid, 0) succeeds.
Present(p) == proc[p].st # "dead" \/ proc[p].child
IsRunning(id) == pidfile[id] # NoPid /\ Present(pidfile[id])

\* Stop: an error, which every caller ignores, leaves the pid file.
Kill(t) ==
    /\ At(t, "kill")
    /\ IF IsRunning(job[t].id)
       THEN /\ proc' = [proc EXCEPT ![pidfile[job[t].id]].st = IF @ = "up" THEN "term" ELSE @]
            /\ Go(t, "unlink")
       ELSE Go(t, "configure") /\ UNCHANGED proc
    /\ UNCHANGED <<proxies, todo, states, detached, watching, pidfile, bounds, spoiled>>

Unlink(t) ==
    /\ At(t, "unlink")
    /\ pidfile' = [pidfile EXCEPT ![job[t].id] = NoPid]
    /\ Go(t, "configure")
    /\ UNCHANGED <<proxies, todo, states, detached, watching, proc, bounds, spoiled>>

\* Start, up to the first thing that may fail.
StartProbe(t) ==
    /\ At(t, "start")
    /\ Go(t, IF IsRunning(job[t].id) THEN "done" ELSE "spawn")
    /\ UNCHANGED <<proxies, todo, states, detached, watching, world, bounds, spoiled>>

Free(p) == /\ proc[p].st = "dead"
           /\ \A id \in Egress : pidfile[id] # p
           /\ \A t \in Thread : job[t].pid # p

Spawn(t) ==
    /\ At(t, "spawn")
    /\ \/ /\ \E p \in Pid :
             /\ Free(p)
             /\ proc' = [proc EXCEPT ![p] =
                    [egress |-> job[t].id, cfg |-> job[t].cfg, st |-> "up", child |-> TRUE]]
             /\ job' = [job EXCEPT ![t].at = "write", ![t].pid = p]
       \/ Go(t, "failed") /\ UNCHANGED proc
    /\ UNCHANGED <<proxies, todo, states, detached, watching, pidfile, bounds, spoiled>>

\* Failing to write the pid file is logged and Start succeeds.
Write(t) ==
    /\ At(t, "write")
    /\ \/ pidfile' = [pidfile EXCEPT ![job[t].id] = job[t].pid] /\ UNCHANGED spoiled
       \/ UNCHANGED pidfile /\ spoiled' = spoiled \cup {job[t].id}
    /\ job' = [job EXCEPT ![t].at = "done", ![t].pid = NoPid]
    /\ UNCHANGED <<proxies, todo, states, detached, watching, proc, bounds>>

Shadowsocks(t) == Kill(t) \/ Unlink(t) \/ StartProbe(t) \/ Spawn(t) \/ Write(t)

----------------------------------------------------------------------------
(* The manager.  An operation plans what it does to each egress and then   *)
(* does it, one egress after the other; no failure of one stops the rest.  *)

Unlocked == job[Manager] = Idle /\ \A id \in Egress : todo[id] = Nothing
Registered(id) == proxies[id] # NoCfg
Plan(d, S) == [id \in Egress |-> IF id \in S THEN [does |-> d, cfg |-> NoCfg] ELSE Nothing]

Operate(plan) ==
    /\ Unlocked /\ ops < MaxOps
    /\ todo' = plan
    /\ ops' = ops + 1
    /\ UNCHANGED <<proxies, states, detached, watching, job, world, restarts, spoiled>>

UpdateProxies ==
    \E request \in [Egress -> Cfg \cup {NoCfg}] :
        Operate([id \in Egress |->
            IF request[id] # NoCfg THEN [does |-> "set", cfg |-> request[id]]
            ELSE Plan("remove", {i \in Egress : Registered(i)})[id]])
RestartAll == Operate(Plan("restart", {id \in Egress : Registered(id)}))
StopAll == Operate(Plan("halt", {id \in Egress : Registered(id)}))
RemoveProxy == \E id \in Egress : Registered(id) /\ Operate(Plan("remove", {id}))

\* The monitor is between deciding on a restart of id and recording its outcome.
Restarting(id) == job[id].at \notin {"idle", "check", "probe"}

\* Mutant: only the instance of a new configuration is given one.
BeginUnconfigured(id) ==
    /\ job[Manager] = Idle /\ todo[id] # Nothing
    /\ todo[id].does = "remove" => \A i \in Egress : todo[i].does # "set"
    /\ job' = [job EXCEPT ![Manager] =
            [at |-> IF Registered(id) THEN "kill" ELSE "configure", id |-> id,
             cfg |-> todo[id].cfg, pid |-> NoPid]]
    /\ spoiled' = IF Restarting(id) THEN spoiled \cup {id} ELSE spoiled
    /\ UNCHANGED <<proxies, todo, states, detached, watching, world, bounds>>

\* Mutant: what is removed is not stopped.
BeginRemoval(id) ==
    /\ job[Manager] = Idle /\ todo[id] # Nothing
    /\ todo[id].does = "remove" => \A i \in Egress : todo[i].does # "set"
    /\ job' = [job EXCEPT ![Manager] =
            [at |-> IF Registered(id) /\ todo[id].does # "remove" THEN "kill" ELSE "configure",
             id |-> id, pid |-> NoPid,
             cfg |-> IF todo[id].does = "set" THEN todo[id].cfg ELSE proxies[id]]]
    /\ spoiled' = IF Restarting(id) THEN spoiled \cup {id} ELSE spoiled
    /\ UNCHANGED <<proxies, todo, states, detached, watching, world, bounds>>

\* What is to be configured comes before what is to be removed.  An instance that
\* is already there is stopped first.
Begin(id) ==
    /\ job[Manager] = Idle /\ todo[id] # Nothing
    /\ todo[id].does = "remove" => \A i \in Egress : todo[i].does # "set"
    /\ job' = [job EXCEPT ![Manager] =
            [at |-> IF Registered(id) THEN "kill" ELSE "configure", id |-> id,
             cfg |-> IF todo[id].does = "set" THEN todo[id].cfg ELSE proxies[id],
             pid |-> NoPid]]
    /\ spoiled' = IF Restarting(id) THEN spoiled \cup {id} ELSE spoiled
    /\ UNCHANGED <<proxies, todo, states, detached, watching, world, bounds>>

\* A check that has id's state in hand goes on with the state it has.
Detach(id) ==
    detached' = IF job[id] # Idle /\ detached[id] = NoState
                THEN [detached EXCEPT ![id] = states[id]] ELSE detached

\* RegisterProxy and UnregisterProxy, with the manager's own table.
Register(id, c) ==
    /\ proxies' = [proxies EXCEPT ![id] = c]
    /\ states' = [states EXCEPT ![id] = IF c = NoCfg THEN NoState ELSE
            [cfg |-> c, status |-> "unknown", enabled |-> TRUE]]
    /\ Detach(id)

Finish == /\ job' = [job EXCEPT ![Manager] = Idle]
          /\ todo' = [todo EXCEPT ![job[Manager].id] = Nothing]

\* Mutant: an egress whose new configuration is unusable is unregistered.
ConfigureForgets ==
    /\ At(Manager, "configure")
    /\ LET d == todo[job[Manager].id].does IN
       \/ /\ d \in {"set", "restart"} /\ Go(Manager, "start")
          /\ UNCHANGED <<proxies, todo, states, detached>>
       \/ d = "halt" /\ Finish /\ UNCHANGED <<proxies, states, detached>>
       \/ d \in {"set", "remove"} /\ Finish /\ Register(job[Manager].id, NoCfg)
    /\ UNCHANGED <<watching, world, bounds, spoiled>>

\* After Stop.  The type may be unsupported, the program not installed or its
\* configuration unusable: then the old instance stays registered.
Configure ==
    /\ At(Manager, "configure")
    /\ LET d == todo[job[Manager].id].does IN
       \/ /\ d \in {"set", "restart"} /\ Go(Manager, "start")
          /\ UNCHANGED <<proxies, todo, states, detached>>
       \/ d = "set" /\ Finish /\ UNCHANGED <<proxies, states, detached>>
       \/ d = "halt" /\ Finish /\ UNCHANGED <<proxies, states, detached>>
       \/ d = "remove" /\ Finish /\ Register(job[Manager].id, NoCfg)
    /\ UNCHANGED <<watching, world, bounds, spoiled>>

\* Mutant: the instance is registered although it failed to start.
StartedOrNot ==
    /\ job[Manager].at \in {"failed", "done"}
    /\ Finish
    /\ IF todo[job[Manager].id].does = "set"
       THEN Register(job[Manager].id, job[Manager].cfg)
       ELSE UNCHANGED <<proxies, states, detached>>
    /\ UNCHANGED <<watching, world, bounds, spoiled>>

\* After Start.
Started ==
    /\ job[Manager].at \in {"failed", "done"}
    /\ Finish
    /\ IF At(Manager, "done") /\ todo[job[Manager].id].does = "set"
       THEN Register(job[Manager].id, job[Manager].cfg)
       ELSE UNCHANGED <<proxies, states, detached>>
    /\ UNCHANGED <<watching, world, bounds, spoiled>>

ManagerStep == \/ \E id \in Egress : Begin(id)
               \/ Configure \/ Started \/ Shadowsocks(Manager)

----------------------------------------------------------------------------
(* The monitor.                                                            *)

EnableProxy(id, e) ==
    /\ states[id] # NoState /\ ops < MaxOps
    /\ states' = [states EXCEPT ![id].enabled = e]
    /\ ops' = ops + 1
    /\ UNCHANGED <<proxies, todo, detached, watching, job, world, restarts, spoiled>>

\* performHealthCheck: one round of checks at a time, of what is in the table now.
\* After StopMonitor's cancel the select may still pick the tick that is pending.
Tick ==
    /\ watching # "off" /\ \A id \in Egress : job[id] = Idle
    /\ watching' = IF watching = "on" THEN "on" ELSE "off"
    /\ job' = [t \in Thread |->
            IF t \in Egress /\ states[t] # NoState
            THEN [Idle EXCEPT !.at = "check", !.id = t] ELSE job[t]]
    /\ UNCHANGED <<proxies, todo, states, detached, world, bounds, spoiled>>

State(id) == IF detached[id] # NoState THEN detached[id] ELSE states[id]
SetState(id, s) ==
    IF detached[id] # NoState THEN detached' = [detached EXCEPT ![id] = s] /\ UNCHANGED states
    ELSE states' = [states EXCEPT ![id] = s] /\ UNCHANGED detached
EndCheck(id) == job' = [job EXCEPT ![id] = Idle]

Check(id) ==
    /\ At(id, "check")
    /\ IF State(id).enabled THEN Go(id, "probe") /\ UNCHANGED detached
       ELSE EndCheck(id) /\ detached' = [detached EXCEPT ![id] = NoState]
    /\ UNCHANGED <<proxies, todo, states, watching, world, bounds, spoiled>>

\* The status a check that found the process running, or not, sets.
Verdict(old, running) ==
    IF running THEN "running"
    ELSE IF old \in {"running", "unknown"} THEN "crashed" ELSE "stopped"

\* Leaves the round's state; when it is detached nobody reads it again.
Conclude(id, v) ==
    /\ EndCheck(id)
    /\ IF detached[id] # NoState
       THEN detached' = [detached EXCEPT ![id] = NoState] /\ UNCHANGED states
       ELSE states' = [states EXCEPT ![id].status = v] /\ UNCHANGED detached

\* IsRunning, which a timeout or StopMonitor may preempt, and what follows from it.
\* CanRestart answers either way: MonitorPolicy has its limits.
Probe(id) ==
    /\ At(id, "probe")
    /\ \E running \in {IsRunning(id), FALSE} :
       LET v == Verdict(State(id).status, running) IN
       \/ Conclude(id, v) /\ UNCHANGED spoiled
       \/ /\ v = "crashed"
          /\ SetState(id, [State(id) EXCEPT !.status = "restarting"])
          /\ job' = [job EXCEPT ![id].at = "kill", ![id].cfg = State(id).cfg]
          /\ spoiled' = IF detached[id] # NoState \/ job[Manager].id = id
                        THEN spoiled \cup {id} ELSE spoiled
    /\ UNCHANGED <<proxies, todo, watching, world, bounds>>

\* performRestart configures between Stop and Start.
Reconfigure(id) ==
    /\ At(id, "configure")
    /\ Go(id, "start") \/ Go(id, "failed")
    /\ UNCHANGED <<proxies, todo, states, detached, watching, world, bounds, spoiled>>

\* The end of performRestart and of attemptRestart.
Verify(id) ==
    /\ job[id].at \in {"failed", "done"}
    /\ EndCheck(id)
    /\ IF detached[id] # NoState
       THEN detached' = [detached EXCEPT ![id] = NoState] /\ UNCHANGED states
       ELSE /\ states' = [states EXCEPT ![id].status =
                    IF At(id, "done") /\ IsRunning(id) THEN "running" ELSE "crashed"]
            /\ UNCHANGED detached
    /\ UNCHANGED <<proxies, todo, watching, world, bounds, spoiled>>

MonitorStep(id) == Check(id) \/ Probe(id) \/ Reconfigure(id) \/ Verify(id) \/ Shadowsocks(id)

----------------------------------------------------------------------------
(* The rest of the world.                                                  *)

\* A process ends, because it was told to or by itself.
Exit(p) ==
    /\ proc[p].st # "dead"
    /\ proc' = [proc EXCEPT ![p] = IF @.child THEN [@ EXCEPT !.st = "dead"] ELSE Gone]
    /\ UNCHANGED <<agent, pidfile, bounds, spoiled>>

\* The agent shuts down: StopMonitor, and then the process ends.
StopMonitor ==
    /\ watching = "on" /\ restarts < MaxRestarts
    /\ watching' = "ending"
    /\ UNCHANGED <<proxies, todo, states, detached, job, world, bounds, spoiled>>

\* The agent ends, at any point, and a new one starts.
Restart ==
    /\ restarts < MaxRestarts
    /\ restarts' = restarts + 1
    /\ proxies' = [id \in Egress |-> NoCfg]
    /\ todo' = [id \in Egress |-> Nothing]
    /\ states' = [id \in Egress |-> NoState] /\ detached' = [id \in Egress |-> NoState]
    /\ watching' = "on"
    /\ job' = [t \in Thread |-> Idle]
    /\ proc' = [p \in Pid |-> IF proc[p].st = "dead" THEN Gone ELSE [proc[p] EXCEPT !.child = FALSE]]
    /\ spoiled' = spoiled \cup {id \in Egress : \E p \in Pid : proc[p].egress = id /\ proc[p].st # "dead"}
    /\ UNCHANGED <<pidfile, ops>>

Next ==
    \/ UpdateProxies \/ RestartAll \/ StopAll \/ RemoveProxy \/ ManagerStep
    \/ \E id \in Egress : MonitorStep(id) \/ \E e \in BOOLEAN : EnableProxy(id, e)
    \/ Tick \/ StopMonitor \/ Restart
    \/ \E p \in Pid : Exit(p)

Spec == Init /\ [][Next]_vars

\* Threads are scheduled, checks come round, and a process told to end does.
FairSpec ==
    /\ Spec
    /\ WF_vars(ManagerStep) /\ WF_vars(watching = "on" /\ Tick)
    /\ \A id \in Egress : WF_vars(MonitorStep(id))
    /\ \A p \in Pid : WF_vars(proc[p].st = "term" /\ Exit(p))

----------------------------------------------------------------------------
(* What the code keeps.                                                    *)

Up(id) == {p \in Pid : proc[p].egress = id /\ proc[p].st = "up"}
Quiet(id) == todo[id] = Nothing

\* Unless the manager worked on an egress during the monitor's restart of it, an
\* agent restart left its process behind or its pid file could not be written:
\* there is one process of the egress at most; the pid file names it, or is about
\* to; and outside the manager's operations it runs the configuration that is
\* registered, so there is none when nothing is.
NoStrays ==
    \A id \in Egress \ spoiled :
        /\ Cardinality(Up(id)) <= 1
        /\ \A p \in Up(id) : pidfile[id] = p \/ \E t \in Thread : job[t].pid = p
        /\ Quiet(id) => \A p \in Up(id) : proxies[id] = proc[p].cfg

\* Registering a configuration means its process has been started: with the same
\* exceptions, the pid file names a process that was started with it.
UpdateTakesEffect ==
    [][\A id \in Egress :
          /\ id \notin spoiled
          /\ todo[id].does = "set" /\ todo'[id] = Nothing
          /\ states'[id] \notin {states[id], NoState}
          => pidfile[id] # NoPid /\ proc[pidfile[id]].cfg = states'[id].cfg]_vars

----------------------------------------------------------------------------
(* The promise about each egress' proxy.                                   *)

\* ProxyLifecycle implements ProxyService: what runs are the processes that are up, the
\* manager is at the egress its job is for, and it has started one there from the moment
\* the process is there, or Start has found one running.
Running == [id \in Egress |-> IF id \in spoiled THEN {} ELSE {proc[p].cfg : p \in Up(id)}]

Service == INSTANCE ProxyService WITH
    NoEgress <- Manager,
    registered <- proxies, plan <- todo,
    hand <- job[Manager].id, started <- job[Manager].at \in {"write", "done"},
    running <- Running, lost <- spoiled, renewals <- restarts

ImplementsProxies == Service!Spec

----------------------------------------------------------------------------
(* What the code does not keep (checked in runs that expect a violation).  *)

\* The monitor has registered id and checks it.
Watched(id) == watching = "on" /\ states[id] # NoState /\ states[id].enabled

\* "自动检测代理进程状态" (docs/proxy-monitor.md:5): a process that has ended does not
\* stay "running" (FairSpec).
CrashIsNoticed ==
    \A id \in Egress :
        Watched(id) /\ states[id].status = "running" /\ Up(id) = {}
        ~> ~Watched(id) \/ states[id].status # "running" \/ Up(id) # {}
============================================================================
