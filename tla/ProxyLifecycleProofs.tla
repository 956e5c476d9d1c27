------------------------ MODULE ProxyLifecycleProofs ------------------------
(***************************************************************************)
(* ProxyLifecycle for any egresses, configurations and processes, and any  *)
(* number of operations and restarts.                                      *)
(*                                                                         *)
(* NoStrays is not inductive: that one process runs and the pid file names *)
(* it follows from who works on the egress and how far he is.  IInv says   *)
(* so: an egress that is not spoiled has one owner at most; at each of the *)
(* owner's places in Stop and Start it says what is up (InWork); while     *)
(* nobody owns it, what is up is what the manager has registered (AtRest). *)
(***************************************************************************)
EXTENDS ProxyLifecycle, FiniteSetTheorems, TLAPS

USE ConstantsAssumption DEF vars, agent, world, bounds, Thread, Manager

\* Where a thread may leave its egress in between: in Stop, in Start, or around them.
Owning == Places \ {"idle", "check", "probe"}
Owns(t, id) == job[t].id = id /\ job[t].at \in Owning

\* Jobs: only the monitor checks, only Write has a pid in hand, and a job has what it needs.
JobsOK ==
    /\ \A t \in Thread : job[t].at = "idle" => job[t] = Idle
    /\ \A t \in Thread : job[t].at # "write" => job[t].pid = NoPid
    /\ \A t \in Thread : job[t].at = "write" => job[t].pid \in Pid
    /\ \A t \in Thread : job[t].at \in Owning => job[t].cfg \in Cfg
    /\ job[Manager].at \notin {"check", "probe"}

\* Plans: what is not a new configuration is for an egress that is registered, and the
\* manager's job follows the plan.
PlansOK ==
    /\ \A id \in Egress : todo[id].does \in {"restart", "halt", "remove"} => Registered(id)
    /\ \A id \in Egress : job[Manager].id = id =>
          /\ todo[id] # Nothing
          /\ job[Manager].cfg = IF todo[id].does = "set" THEN todo[id].cfg ELSE proxies[id]
          /\ todo[id].does \in {"halt", "remove"} => job[Manager].at \in {"kill", "unlink", "configure"}

\* The monitor's table is the manager's, and a check has a state to work on.
StatesOK ==
    /\ \A id \in Egress : states[id].cfg = proxies[id]
    /\ \A id \in Egress : job[id].at # "idle" => states[id] # NoState \/ detached[id] # NoState

\* A pid, in a file or in hand, is of a process of that egress, if it is alive.
PidsOK ==
    /\ \A id \in Egress : pidfile[id] # NoPid /\ proc[pidfile[id]].st # "dead"
          => proc[pidfile[id]].egress = id
    /\ \A t \in Thread : At(t, "write") /\ proc[job[t].pid].st # "dead"
          => proc[job[t].pid].egress = job[t].id

\* On an egress that is not spoiled one thread works at a time, and the monitor with the
\* configuration that is registered.
OwnerOK(id) ==
    /\ ~(job[Manager].id = id /\ Restarting(id))
    /\ Restarting(id) => detached[id] = NoState /\ job[id].cfg = proxies[id]

\* What there is of an egress while nobody works on it ...
AtRest(id) ==
    /\ \A p \in Up(id) : pidfile[id] = p /\ proc[p].cfg = proxies[id]
    /\ ~Registered(id) => ~IsRunning(id)

\* ... and, while t does, at each of its steps.
InWork(t, id) ==
    /\ At(t, "kill") => AtRest(id)
    /\ At(t, "unlink") => Up(id) = {}
    /\ job[t].at \in {"configure", "start", "spawn", "failed"} => Up(id) = {} /\ ~IsRunning(id)
    /\ At(t, "write") =>
          /\ proc[job[t].pid].cfg = job[t].cfg /\ proc[job[t].pid].child
          /\ \A p \in Up(id) : p = job[t].pid
    /\ At(t, "done") =>
          /\ pidfile[id] \in Pid
          /\ proc[pidfile[id]].cfg = job[t].cfg /\ proc[pidfile[id]].child
          /\ \A p \in Up(id) : p = pidfile[id]

ProcsOK(id) ==
    /\ (\A t \in Thread : ~Owns(t, id)) => AtRest(id)
    /\ \A t \in Thread : Owns(t, id) => InWork(t, id)

IInv ==
    /\ TypeOK /\ JobsOK /\ PlansOK /\ StatesOK /\ PidsOK
    /\ \A id \in Egress \ spoiled : OwnerOK(id) /\ ProcsOK(id)

\* Each operation makes a plan that only restarts, halts or removes what is registered.
LEMMA PlansMade ==
    ASSUME TypeOK, UpdateProxies \/ RestartAll \/ StopAll \/ RemoveProxy
    PROVE  \E plan \in [Egress -> Plans] :
              /\ \A i \in Egress : plan[i].does \in {"restart", "halt", "remove"} => Registered(i)
              /\ Operate(plan)
<1>1. ASSUME NEW d \in {"restart", "halt", "remove"}, NEW S \in SUBSET {i \in Egress : Registered(i)}
      PROVE  /\ Plan(d, S) \in [Egress -> Plans]
             /\ \A i \in Egress : Plan(d, S)[i].does \in {"restart", "halt", "remove"} => Registered(i)
  BY <1>1 DEF Plan, Plans, Nothing
<1>2. CASE UpdateProxies
  <2>1. PICK request \in [Egress -> Cfg \cup {NoCfg}] :
          Operate([id \in Egress |->
            IF request[id] # NoCfg THEN [does |-> "set", cfg |-> request[id]]
            ELSE Plan("remove", {i \in Egress : Registered(i)})[id]])
    BY <1>2 DEF UpdateProxies
  <2> DEFINE plan == [id \in Egress |->
            IF request[id] # NoCfg THEN [does |-> "set", cfg |-> request[id]]
            ELSE Plan("remove", {i \in Egress : Registered(i)})[id]]
  <2>2. plan \in [Egress -> Plans]
    BY <1>1 DEF Plans
  <2>3. \A i \in Egress : plan[i].does \in {"restart", "halt", "remove"} => Registered(i)
    BY <1>1
  <2> QED
    BY <2>1, <2>2, <2>3
<1>3. CASE RestartAll
  BY <1>1, <1>3 DEF RestartAll
<1>4. CASE StopAll
  BY <1>1, <1>4 DEF StopAll
<1>5. CASE RemoveProxy
  <2>1. PICK id \in Egress : Registered(id) /\ Operate(Plan("remove", {id}))
    BY <1>5 DEF RemoveProxy
  <2> QED
    BY <1>1, <2>1
<1> QED
  BY <1>2, <1>3, <1>4, <1>5

\* Nothing runs at the start, and nobody works.
LEMMA InitHolds == Init => IInv
<1> SUFFICES ASSUME Init PROVE IInv
    OBVIOUS
<1>1. \A t \in Thread : job[t] = Idle /\ job[t].at = "idle" /\ job[t].id = Manager /\ job[t].pid = NoPid
  BY DEF Init, Idle
<1>2. \A p \in Pid : proc[p] = Gone /\ proc[p].st = "dead" /\ ~proc[p].child
  BY DEF Init, Gone
<1>3. TypeOK
  BY <1>1, <1>2 DEF Init, TypeOK, Idle, Jobs, Places, Gone, Processes, Nothing, Plans, NoState, States
<1>4. JobsOK
  BY <1>1 DEF JobsOK, Owning
<1>5. PlansOK /\ StatesOK /\ PidsOK
  BY <1>1 DEF Init, PlansOK, StatesOK, PidsOK, At, Nothing, NoState
<1>6. ASSUME NEW id \in Egress PROVE OwnerOK(id) /\ ProcsOK(id)
  <2>1. ~Restarting(id) /\ job[Manager].id # id
    BY <1>1 DEF Restarting
  <2>2. AtRest(id)
    BY <1>2 DEF Init, AtRest, Up, IsRunning
  <2>3. \A t \in Thread : ~Owns(t, id)
    BY <1>1 DEF Owns, Owning
  <2> QED
    BY <2>1, <2>2, <2>3 DEF OwnerOK, ProcsOK
<1> QED
  BY <1>3, <1>4, <1>5, <1>6 DEF IInv


\* What a thread's going somewhere does to the jobs.
LEMMA GoIs ==
    ASSUME TypeOK, NEW t \in Thread, NEW l \in Places, Go(t, l)
    PROVE  /\ job' \in [Thread -> Jobs]
           /\ job'[t].at = l /\ job'[t].id = job[t].id
           /\ job'[t].cfg = job[t].cfg /\ job'[t].pid = job[t].pid
           /\ \A x \in Thread \ {t} : job'[x] = job[x]
  BY DEF Go, TypeOK, Jobs

LEMMA RestIs ==
    ASSUME TypeOK, NEW t \in Thread, job' = [job EXCEPT ![t] = Idle]
    PROVE  /\ job' \in [Thread -> Jobs]
           /\ job'[t] = Idle /\ Idle.at = "idle" /\ Idle.id = Manager /\ Idle.pid = NoPid
           /\ \A x \in Thread \ {t} : job'[x] = job[x]
  BY DEF Idle, TypeOK, Jobs, Places


\* A check has a state, and a state has a configuration.
LEMMA StateIs ==
    ASSUME TypeOK, StatesOK, NEW id \in Egress, job[id].at # "idle"
    PROVE  State(id) \in States \ {NoState} /\ State(id).cfg \in Cfg
<1>1. State(id) \in States \ {NoState}
  BY DEF State, StatesOK, TypeOK
<1>2. \A s \in States \ {NoState} : s.cfg \in Cfg
  BY DEF States
<1> QED
  BY <1>1, <1>2

\* The job of t goes to l with the pid q in hand; no other job changes.
Moves(t, l, q) ==
    /\ job' \in [Thread -> Jobs]
    /\ job'[t].at = l /\ job'[t].id = job[t].id
    /\ job'[t].cfg = job[t].cfg /\ job'[t].pid = q
    /\ \A x \in Thread \ {t} : job'[x] = job[x]

\* What is true of an egress that is not spoiled, and of two threads on one.
LEMMA Alone ==
    ASSUME IInv, NEW t \in Thread, NEW id \in Egress \ spoiled, Owns(t, id)
    PROVE  InWork(t, id) /\ \A x \in Thread : Owns(x, id) => x = t
<1>1. OwnerOK(id) /\ ProcsOK(id)
  BY DEF IInv
<1>2. \A x \in Thread : Owns(x, id) => x = id \/ x = Manager
  BY DEF IInv, TypeOK, Owns
<1>3. ~(Owns(Manager, id) /\ Owns(id, id))
  BY <1>1 DEF OwnerOK, Owns, Restarting, Owning
<1> QED
  BY <1>1, <1>2, <1>3 DEF ProcsOK

\* A thread that works on goes on with an egress' plan and configuration.
LEMMA MovesKeep ==
    ASSUME IInv, NEW t \in Thread, NEW l \in Owning, NEW q \in Pid \cup {NoPid},
           job[t].at \in Owning, Moves(t, l, q), l = "write" <=> q \in Pid,
           t = Manager /\ todo[job[t].id].does \in {"halt", "remove"}
              => l \in {"kill", "unlink", "configure"},
           UNCHANGED <<proxies, todo, states, detached>>, spoiled \subseteq spoiled'
    PROVE  /\ job' \in [Thread -> Jobs]
           /\ \A x \in Thread : job'[x].at # "idle" => job'[x].id \in Egress
           /\ \A id \in Egress : job'[id].id \in {id, Manager}
           /\ JobsOK' /\ PlansOK' /\ StatesOK'
           /\ \A id \in Egress \ spoiled' : OwnerOK(id)'
<1>0. TypeOK /\ JobsOK /\ PlansOK /\ StatesOK
  BY DEF IInv
<1>1. l \notin {"idle", "check", "probe"} /\ job[t].at # "idle"
  BY DEF Owning
<1>2. /\ job' \in [Thread -> Jobs]
      /\ \A x \in Thread : job'[x].at # "idle" => job'[x].id \in Egress
      /\ \A id \in Egress : job'[id].id \in {id, Manager}
  BY <1>0, <1>1 DEF Moves, TypeOK
<1>3. JobsOK'
  BY <1>0, <1>1 DEF Moves, JobsOK, Owning
<1>4. PlansOK'
  BY <1>0, <1>1 DEF Moves, PlansOK, Registered
<1>5. StatesOK'
  BY <1>0, <1>1 DEF Moves, StatesOK
<1>6. ASSUME NEW id \in Egress \ spoiled' PROVE OwnerOK(id)'
  <2>1. OwnerOK(id)
    BY DEF IInv
  <2>2. Restarting(id)' => Restarting(id)
    BY <1>1 DEF Moves, Restarting, Owning
  <2>3. job'[Manager].id = job[Manager].id /\ job'[id].cfg = job[id].cfg
    BY DEF Moves
  <2> QED
    BY <2>1, <2>2, <2>3 DEF OwnerOK
<1> QED
  BY <1>2, <1>3, <1>4, <1>5, <1>6

\* A step that changes nothing of an egress keeps what is true of it.
LEMMA OthersKeep ==
    ASSUME IInv, NEW i \in Egress \ spoiled,
           \A x \in Thread : Owns(x, i) => job'[x] = job[x],
           \A x \in Thread : Owns(x, i)' => Owns(x, i),
           proxies'[i] = proxies[i], pidfile'[i] = pidfile[i],
           Up(i)' = Up(i), \A p \in Up(i) : proc'[p] = proc[p],
           pidfile[i] # NoPid => proc'[pidfile[i]] = proc[pidfile[i]],
           \A x \in Thread : Owns(x, i) /\ At(x, "write") => proc'[job[x].pid] = proc[job[x].pid]
    PROVE  ProcsOK(i)'
<1>1. ProcsOK(i)
  BY DEF IInv
<1>2. AtRest(i)' <=> AtRest(i)
  BY DEF AtRest, Registered, IsRunning, Present
<1>3. \A x \in Thread : Owns(x, i)' <=> Owns(x, i)
  BY DEF Owns
<1>4. ASSUME NEW x \in Thread, Owns(x, i), InWork(x, i) PROVE InWork(x, i)'
  <2>1. job'[x] = job[x]
    BY <1>4
  <2>2. IsRunning(i)' <=> IsRunning(i)
    BY DEF IsRunning, Present
  <2>3. At(x, "write") => proc'[job[x].pid] = proc[job[x].pid]
    BY <1>4
  <2>4. pidfile[i] \in Pid => pidfile[i] # NoPid
    OBVIOUS
  <2> QED
    BY <1>2, <1>4, <2>1, <2>2, <2>3, <2>4 DEF InWork, At
<1> QED
  BY <1>1, <1>2, <1>3, <1>4 DEF ProcsOK

\* What a process may do while its egress is worked on: a step of t on its egress id keeps
\* the invariant if it does what the next place of t asks for, and leaves alone what belongs
\* to other egresses.
LEMMA WorkKeeps ==
    ASSUME IInv, NEW t \in Thread, NEW l \in Owning, NEW q \in Pid \cup {NoPid},
           NEW id \in Egress, id = job[t].id,
           job[t].at \in Owning, Moves(t, l, q), l = "write" <=> q \in Pid,
           t = Manager /\ todo[id].does \in {"halt", "remove"} => l \in {"kill", "unlink", "configure"},
           UNCHANGED <<proxies, todo, states, detached, watching, ops, restarts>>,
           spoiled \subseteq spoiled', spoiled' \subseteq Egress,
           proc' \in [Pid -> Processes],
           \A p \in Pid : proc'[p].st # "dead" => proc'[p].egress \in Egress /\ proc'[p].cfg \in Cfg,
           pidfile' \in [Egress -> Pid \cup {NoPid}], PidsOK',
           \A i \in Egress \ {id} : pidfile'[i] = pidfile[i],
           \A p \in Pid : proc'[p] # proc[p] =>
              /\ \A i \in Egress \ {id} : p \notin Up(i) /\ p \notin Up(i)' /\ pidfile[i] # p
              /\ \A x \in Thread : At(x, "write") /\ job[x].id # id => job[x].pid # p,
           id \notin spoiled' => InWork(t, id)'
    PROVE  IInv'
<1>1. /\ job' \in [Thread -> Jobs]
      /\ \A x \in Thread : job'[x].at # "idle" => job'[x].id \in Egress
      /\ \A i \in Egress : job'[i].id \in {i, Manager}
      /\ JobsOK' /\ PlansOK' /\ StatesOK'
      /\ \A i \in Egress \ spoiled' : OwnerOK(i)'
  BY MovesKeep
<1>2. TypeOK'
  BY <1>1 DEF IInv, TypeOK
<1>3. ASSUME NEW i \in Egress \ spoiled', i # id PROVE ProcsOK(i)'
  <2>1. \A x \in Thread : Owns(x, i) => job'[x] = job[x]
    BY <1>3 DEF Owns, Moves
  <2>2. \A x \in Thread : Owns(x, i)' => Owns(x, i)
    BY <1>3 DEF Owns, Moves
  <2>3. Up(i)' = Up(i) /\ \A p \in Up(i) : proc'[p] = proc[p]
    BY <1>3 DEF Up
  <2>4. pidfile[i] # NoPid => proc'[pidfile[i]] = proc[pidfile[i]]
    BY <1>3 DEF IInv, TypeOK
  <2>5. \A x \in Thread : Owns(x, i) /\ At(x, "write") => proc'[job[x].pid] = proc[job[x].pid]
    BY <1>3 DEF IInv, JobsOK, At, Owns
  <2>6. proxies'[i] = proxies[i] /\ pidfile'[i] = pidfile[i]
    BY <1>3
  <2> QED
    BY <1>3, <2>1, <2>2, <2>3, <2>4, <2>5, <2>6, OthersKeep
<1>4. ASSUME id \notin spoiled' PROVE ProcsOK(id)'
  <2>1. Owns(t, id) /\ Owns(t, id)'
    BY DEF Owns, Moves
  <2>2. \A x \in Thread : Owns(x, id) => x = t
    BY <1>4, <2>1, Alone
  <2>3. \A x \in Thread : Owns(x, id)' => x = t
    BY <2>2 DEF Owns, Moves
  <2> QED
    BY <1>4, <2>1, <2>3 DEF ProcsOK
<1> QED
  BY <1>1, <1>2, <1>3, <1>4 DEF IInv

\* Stop, up to the signal: what runs is what the pid file names, so none is up after it.
LEMMA KillKeeps ==
    ASSUME IInv, NEW t \in Thread, Kill(t)
    PROVE  IInv'
<1>0. TypeOK /\ JobsOK /\ PlansOK /\ PidsOK
  BY DEF IInv
<1>1. /\ job[t].at = "kill" /\ job[t].at \in Owning /\ job[t].pid = NoPid
      /\ {"unlink", "configure"} \subseteq Owning /\ {"unlink", "configure"} \subseteq Places
  BY <1>0 DEF Kill, At, JobsOK, Owning, Places
<1>2. PICK id \in Egress : id = job[t].id
  BY <1>0, <1>1 DEF TypeOK
<1>3. id \notin spoiled => AtRest(id)
  <2>1. Owns(t, id)
    BY <1>1, <1>2 DEF Owns
  <2> QED
    BY <1>1, <2>1, Alone DEF InWork, At
<1>4. /\ UNCHANGED <<proxies, todo, states, detached, watching, ops, restarts, pidfile, spoiled>>
      /\ spoiled' \subseteq Egress /\ pidfile' \in [Egress -> Pid \cup {NoPid}]
      /\ NoPid \notin Pid
  BY <1>0 DEF Kill, TypeOK
<1>5. CASE IsRunning(id)
  <2>1. PICK p \in Pid : p = pidfile[id]
    BY <1>0, <1>5 DEF IsRunning, TypeOK
  <2>2. /\ proc' \in [Pid -> Processes]
        /\ \A x \in Pid \ {p} : proc'[x] = proc[x]
        /\ proc'[p].egress = proc[p].egress /\ proc'[p].cfg = proc[p].cfg
        /\ proc'[p].st = (IF proc[p].st = "up" THEN "term" ELSE proc[p].st)
    BY <1>0, <1>2, <1>5, <2>1 DEF Kill, TypeOK, Processes
  <2>3. Moves(t, "unlink", NoPid)
    <3>1. Go(t, "unlink")
      BY <1>2, <1>5 DEF Kill
    <3> QED
      BY <1>0, <1>1, <3>1, GoIs DEF Moves
  <2>4. proc'[p] # proc[p] => proc[p].st = "up"
    BY <1>0, <1>2, <1>5, <2>1 DEF Kill, TypeOK, Processes
  <2>5. \A x \in Pid : proc'[x].st # "dead" => proc'[x].egress \in Egress /\ proc'[x].cfg \in Cfg
    BY <1>0, <2>2 DEF TypeOK
  <2>6. PidsOK'
    BY <1>0, <1>4, <2>2, <2>3 DEF PidsOK, At, Moves, TypeOK, JobsOK
  <2>7. \A x \in Pid : proc'[x] # proc[x] =>
              /\ \A i \in Egress \ {id} : x \notin Up(i) /\ x \notin Up(i)' /\ pidfile[i] # x
              /\ \A y \in Thread : At(y, "write") /\ job[y].id # id => job[y].pid # x
    <3>1. proc'[p] # proc[p] => proc[p].egress = id /\ proc[p].st # "dead"
      BY <1>0, <2>1, <2>4, <1>4 DEF PidsOK
    <3> QED
      BY <1>0, <1>4, <2>2, <3>1 DEF PidsOK, Up, At
  <2>8. id \notin spoiled' => InWork(t, id)'
    <3>1. ASSUME id \notin spoiled PROVE Up(id)' = {}
      BY <1>3, <2>1, <2>2, <3>1 DEF AtRest, Up
    <3> QED
      BY <1>4, <2>3, <3>1 DEF InWork, At, Moves
  <2> QED
    BY <1>1, <1>2, <1>4, <2>2, <2>3, <2>5, <2>6, <2>7, <2>8, WorkKeeps
<1>6. CASE ~IsRunning(id)
  <2>1. Moves(t, "configure", NoPid) /\ proc' = proc
    <3>1. Go(t, "configure") /\ proc' = proc
      BY <1>2, <1>6 DEF Kill
    <3> QED
      BY <1>0, <1>1, <3>1, GoIs DEF Moves
  <2>2. PidsOK'
    BY <1>0, <1>4, <2>1 DEF PidsOK, At, Moves
  <2>3. id \notin spoiled' => InWork(t, id)'
    <3>1. id \notin spoiled => Up(id) = {}
      BY <1>3, <1>4, <1>6 DEF AtRest, Up, IsRunning, Present
    <3>2. Up(id)' = Up(id) /\ IsRunning(id)' = IsRunning(id)
      BY <1>4, <2>1 DEF Up, IsRunning, Present
    <3> QED
      BY <1>4, <1>6, <2>1, <3>1, <3>2 DEF InWork, At, Moves
  <2>4. /\ proc' \in [Pid -> Processes]
        /\ \A x \in Pid : proc'[x].st # "dead" => proc'[x].egress \in Egress /\ proc'[x].cfg \in Cfg
    BY <1>0, <2>1 DEF TypeOK
  <2> QED
    BY <1>1, <1>2, <1>4, <2>1, <2>2, <2>3, <2>4, WorkKeeps
<1> QED
  BY <1>5, <1>6

\* Stop, its end: no pid file, so nothing counts as running.
LEMMA UnlinkKeeps ==
    ASSUME IInv, NEW t \in Thread, Unlink(t)
    PROVE  IInv'
<1>0. TypeOK /\ JobsOK /\ PlansOK /\ PidsOK
  BY DEF IInv
<1>1. /\ job[t].at = "unlink" /\ job[t].at \in Owning /\ job[t].pid = NoPid
      /\ "configure" \in Owning /\ "configure" \in Places
  BY <1>0 DEF Unlink, At, JobsOK, Owning, Places
<1>2. PICK id \in Egress : id = job[t].id
  BY <1>0, <1>1 DEF TypeOK
<1>3. id \notin spoiled => Up(id) = {}
  <2>1. Owns(t, id)
    BY <1>1, <1>2 DEF Owns
  <2> QED
    BY <1>1, <2>1, Alone DEF InWork, At
<1>4. /\ UNCHANGED <<proxies, todo, states, detached, watching, ops, restarts, proc, spoiled>>
      /\ spoiled' \subseteq Egress /\ NoPid \notin Pid
  BY <1>0 DEF Unlink, TypeOK
<1>5. /\ pidfile' \in [Egress -> Pid \cup {NoPid}] /\ pidfile'[id] = NoPid
      /\ \A i \in Egress \ {id} : pidfile'[i] = pidfile[i]
  BY <1>0, <1>2 DEF Unlink, TypeOK
<1>6. Moves(t, "configure", NoPid)
  <2>1. Go(t, "configure")
    BY DEF Unlink
  <2> QED
    BY <1>0, <1>1, <2>1, GoIs DEF Moves
<1>7. PidsOK'
  BY <1>0, <1>4, <1>5, <1>6 DEF PidsOK, At, Moves
<1>8. id \notin spoiled' => InWork(t, id)'
  <2>1. Up(id)' = Up(id) /\ ~IsRunning(id)'
    BY <1>4, <1>5 DEF Up, IsRunning
  <2> QED
    BY <1>3, <1>4, <1>6, <2>1 DEF InWork, At, Moves
<1>9. /\ proc' \in [Pid -> Processes]
      /\ \A x \in Pid : proc'[x].st # "dead" => proc'[x].egress \in Egress /\ proc'[x].cfg \in Cfg
  BY <1>0, <1>4 DEF TypeOK
<1> QED
  BY <1>1, <1>2, <1>4, <1>5, <1>6, <1>7, <1>8, <1>9, WorkKeeps

\* Start, its check: nothing runs here, so it goes on.
LEMMA StartProbeKeeps ==
    ASSUME IInv, NEW t \in Thread, StartProbe(t)
    PROVE  IInv'
<1>0. TypeOK /\ JobsOK /\ PlansOK /\ PidsOK
  BY DEF IInv
<1>1. /\ job[t].at = "start" /\ job[t].at \in Owning /\ job[t].pid = NoPid
      /\ {"done", "spawn"} \subseteq Owning /\ {"done", "spawn"} \subseteq Places
  BY <1>0 DEF StartProbe, At, JobsOK, Owning, Places
<1>2. PICK id \in Egress : id = job[t].id
  BY <1>0, <1>1 DEF TypeOK
<1>3. id \notin spoiled => Up(id) = {} /\ ~IsRunning(id)
  <2>1. Owns(t, id)
    BY <1>1, <1>2 DEF Owns
  <2> QED
    BY <1>1, <2>1, Alone DEF InWork, At
<1>4. /\ UNCHANGED <<proxies, todo, states, detached, watching, ops, restarts, proc, pidfile, spoiled>>
      /\ spoiled' \subseteq Egress /\ NoPid \notin Pid
      /\ pidfile' \in [Egress -> Pid \cup {NoPid}]
      /\ proc' \in [Pid -> Processes]
      /\ \A x \in Pid : proc'[x].st # "dead" => proc'[x].egress \in Egress /\ proc'[x].cfg \in Cfg
  BY <1>0 DEF StartProbe, TypeOK
<1>5. PICK l \in {"done", "spawn"} : Moves(t, l, NoPid) /\ (l = "done" => IsRunning(id))
  <2>1. PICK l \in {"done", "spawn"} : Go(t, l) /\ (l = "done" => IsRunning(id))
    BY <1>2 DEF StartProbe
  <2> QED
    BY <1>0, <1>1, <2>1, GoIs DEF Moves
<1>6. PidsOK'
  BY <1>0, <1>4, <1>5 DEF PidsOK, At, Moves
<1>7. id \notin spoiled' => InWork(t, id)'
  <2>1. Up(id)' = Up(id) /\ IsRunning(id)' = IsRunning(id)
    BY <1>4 DEF Up, IsRunning, Present
  <2> QED
    BY <1>3, <1>4, <1>5, <2>1 DEF InWork, At, Moves
<1>8. ~(t = Manager /\ todo[id].does \in {"halt", "remove"})
  BY <1>0, <1>1, <1>2 DEF PlansOK
<1> QED
  BY <1>1, <1>2, <1>4, <1>5, <1>6, <1>7, <1>8, WorkKeeps

\* Start, the process: a free pid is in no file and no hand, so it is the only one up.
LEMMA SpawnKeeps ==
    ASSUME IInv, NEW t \in Thread, Spawn(t)
    PROVE  IInv'
<1>0. TypeOK /\ JobsOK /\ PlansOK /\ PidsOK
  BY DEF IInv
<1>1. /\ job[t].at = "spawn" /\ job[t].at \in Owning /\ job[t].pid = NoPid
      /\ {"write", "failed"} \subseteq Owning /\ {"write", "failed"} \subseteq Places
  BY <1>0 DEF Spawn, At, JobsOK, Owning, Places
<1>2. PICK id \in Egress : id = job[t].id
  BY <1>0, <1>1 DEF TypeOK
<1>3. id \notin spoiled => Up(id) = {} /\ ~IsRunning(id)
  <2>1. Owns(t, id)
    BY <1>1, <1>2 DEF Owns
  <2> QED
    BY <1>1, <2>1, Alone DEF InWork, At
<1>4. /\ UNCHANGED <<proxies, todo, states, detached, watching, ops, restarts, pidfile, spoiled>>
      /\ spoiled' \subseteq Egress /\ NoPid \notin Pid
      /\ pidfile' \in [Egress -> Pid \cup {NoPid}]
  BY <1>0 DEF Spawn, TypeOK
<1>5. ~(t = Manager /\ todo[id].does \in {"halt", "remove"}) /\ job[t].cfg \in Cfg
  BY <1>0, <1>1, <1>2 DEF PlansOK, JobsOK
<1>6. ASSUME NEW p \in Pid, Free(p),
             proc' = [proc EXCEPT ![p] =
                 [egress |-> job[t].id, cfg |-> job[t].cfg, st |-> "up", child |-> TRUE]],
             job' = [job EXCEPT ![t].at = "write", ![t].pid = p]
      PROVE  IInv'
  <2>1. Moves(t, "write", p)
    BY <1>0, <1>1, <1>6 DEF Moves, TypeOK, Jobs
  <2>2. /\ proc' \in [Pid -> Processes]
        /\ \A x \in Pid \ {p} : proc'[x] = proc[x]
        /\ proc'[p].egress = id /\ proc'[p].cfg = job[t].cfg /\ proc'[p].child /\ proc'[p].st = "up"
    BY <1>0, <1>2, <1>5, <1>6 DEF TypeOK, Processes
  <2>3. \A x \in Pid : proc'[x].st # "dead" => proc'[x].egress \in Egress /\ proc'[x].cfg \in Cfg
    BY <1>0, <1>5, <2>2 DEF TypeOK
  <2>4. /\ proc[p].st = "dead" /\ \A i \in Egress : pidfile[i] # p
        /\ \A x \in Thread : job[x].pid # p
    BY <1>6 DEF Free
  <2>5. PidsOK'
    <3>1. \A i \in Egress : pidfile'[i] # NoPid /\ proc'[pidfile'[i]].st # "dead"
             => proc'[pidfile'[i]].egress = i
      BY <1>0, <1>4, <2>2, <2>4 DEF PidsOK, TypeOK
    <3>2. \A x \in Thread \ {t} : job'[x].at = "write" /\ proc'[job'[x].pid].st # "dead"
             => proc'[job'[x].pid].egress = job'[x].id
      BY <1>0, <2>1, <2>2, <2>4 DEF PidsOK, At, Moves, JobsOK
    <3>3. proc'[job'[t].pid].egress = job'[t].id
      BY <1>2, <2>1, <2>2 DEF Moves
    <3> QED
      BY <3>1, <3>2, <3>3 DEF PidsOK, At
  <2>6. \A x \in Pid : proc'[x] # proc[x] =>
              /\ \A i \in Egress \ {id} : x \notin Up(i) /\ x \notin Up(i)' /\ pidfile[i] # x
              /\ \A y \in Thread : At(y, "write") /\ job[y].id # id => job[y].pid # x
    BY <2>2, <2>4 DEF Up
  <2>7. id \notin spoiled' => InWork(t, id)'
    <3>1. id \notin spoiled => Up(id)' \subseteq {p}
      BY <1>3, <2>2 DEF Up
    <3> QED
      BY <1>4, <2>1, <2>2, <3>1 DEF InWork, At, Moves
  <2> QED
    BY <1>1, <1>2, <1>4, <1>5, <2>1, <2>2, <2>3, <2>5, <2>6, <2>7, WorkKeeps
<1>7. CASE Go(t, "failed") /\ proc' = proc
  <2>1. Moves(t, "failed", NoPid)
    BY <1>0, <1>1, <1>7, GoIs DEF Moves
  <2>2. PidsOK'
    BY <1>0, <1>4, <1>7, <2>1 DEF PidsOK, At, Moves
  <2>3. id \notin spoiled' => InWork(t, id)'
    <3>1. Up(id)' = Up(id) /\ IsRunning(id)' = IsRunning(id)
      BY <1>4, <1>7 DEF Up, IsRunning, Present
    <3> QED
      BY <1>3, <1>4, <2>1, <3>1 DEF InWork, At, Moves
  <2>4. /\ proc' \in [Pid -> Processes]
        /\ \A x \in Pid : proc'[x].st # "dead" => proc'[x].egress \in Egress /\ proc'[x].cfg \in Cfg
    BY <1>0, <1>7 DEF TypeOK
  <2> QED
    BY <1>1, <1>2, <1>4, <1>5, <1>7, <2>1, <2>2, <2>3, <2>4, WorkKeeps
<1> QED
  BY <1>6, <1>7 DEF Spawn

\* Start, its end: the file names the process, or the egress is spoiled.
LEMMA WriteKeeps ==
    ASSUME IInv, NEW t \in Thread, Write(t)
    PROVE  IInv'
<1>0. TypeOK /\ JobsOK /\ PlansOK /\ PidsOK
  BY DEF IInv
<1>1. /\ job[t].at = "write" /\ job[t].at \in Owning /\ job[t].pid \in Pid
      /\ "done" \in Owning /\ "done" \in Places /\ NoPid \notin Pid
  BY <1>0 DEF Write, At, JobsOK, Owning, Places
<1>2. PICK id \in Egress : id = job[t].id
  BY <1>0, <1>1 DEF TypeOK
<1>3. PICK p \in Pid : p = job[t].pid
  BY <1>1
<1>4. id \notin spoiled => /\ proc[p].cfg = job[t].cfg /\ proc[p].child
                           /\ \A x \in Up(id) : x = p
  <2>1. Owns(t, id)
    BY <1>1, <1>2 DEF Owns
  <2> QED
    BY <1>1, <1>3, <2>1, Alone DEF InWork, At
<1>5. /\ UNCHANGED <<proxies, todo, states, detached, watching, ops, restarts, proc>>
      /\ spoiled \subseteq spoiled' /\ spoiled' \subseteq Egress
      /\ proc' \in [Pid -> Processes]
      /\ \A x \in Pid : proc'[x].st # "dead" => proc'[x].egress \in Egress /\ proc'[x].cfg \in Cfg
  BY <1>0, <1>2 DEF Write, TypeOK
<1>6. Moves(t, "done", NoPid)
  BY <1>0, <1>1 DEF Write, Moves, TypeOK, Jobs
<1>7. ~(t = Manager /\ todo[id].does \in {"halt", "remove"})
  BY <1>0, <1>1, <1>2 DEF PlansOK
<1>8. CASE pidfile' = [pidfile EXCEPT ![job[t].id] = job[t].pid]
  <2>1. /\ pidfile' \in [Egress -> Pid \cup {NoPid}] /\ pidfile'[id] = p
        /\ \A i \in Egress \ {id} : pidfile'[i] = pidfile[i]
    BY <1>0, <1>2, <1>3, <1>8 DEF TypeOK
  <2>2. PidsOK'
    BY <1>0, <1>1, <1>2, <1>3, <1>5, <1>6, <2>1 DEF PidsOK, At, Moves
  <2>3. id \notin spoiled' => InWork(t, id)'
    <3>1. Up(id)' = Up(id)
      BY <1>5 DEF Up
    <3> QED
      BY <1>4, <1>5, <1>6, <2>1, <3>1 DEF InWork, At, Moves
  <2> QED
    BY <1>1, <1>2, <1>5, <1>6, <1>7, <2>1, <2>2, <2>3, WorkKeeps
<1>9. CASE pidfile' = pidfile /\ spoiled' = spoiled \cup {job[t].id}
  <2>1. PidsOK'
    BY <1>0, <1>5, <1>6, <1>9 DEF PidsOK, At, Moves
  <2>2. id \in spoiled' /\ pidfile' \in [Egress -> Pid \cup {NoPid}]
    BY <1>0, <1>2, <1>9 DEF TypeOK
  <2> QED
    BY <1>1, <1>2, <1>5, <1>6, <1>7, <1>9, <2>1, <2>2, WorkKeeps
<1> QED
  BY <1>8, <1>9 DEF Write

\* performRestart's Configure, between Stop and Start.
LEMMA ReconfigureKeeps ==
    ASSUME IInv, NEW t \in Egress, Reconfigure(t)
    PROVE  IInv'
<1>0. TypeOK /\ JobsOK /\ PlansOK /\ PidsOK
  BY DEF IInv
<1>1. /\ job[t].at = "configure" /\ job[t].at \in Owning /\ job[t].pid = NoPid
      /\ {"start", "failed"} \subseteq Owning /\ {"start", "failed"} \subseteq Places
      /\ t \in Thread /\ t # Manager
  BY <1>0 DEF Reconfigure, At, JobsOK, Owning, Places
<1>2. PICK id \in Egress : id = job[t].id
  BY <1>0, <1>1 DEF TypeOK
<1>3. id \notin spoiled => Up(id) = {} /\ ~IsRunning(id)
  <2>1. Owns(t, id)
    BY <1>1, <1>2 DEF Owns
  <2> QED
    BY <1>1, <2>1, Alone DEF InWork, At
<1>4. /\ UNCHANGED <<proxies, todo, states, detached, watching, ops, restarts, proc, pidfile, spoiled>>
      /\ spoiled' \subseteq Egress /\ NoPid \notin Pid
      /\ pidfile' \in [Egress -> Pid \cup {NoPid}]
      /\ proc' \in [Pid -> Processes]
      /\ \A x \in Pid : proc'[x].st # "dead" => proc'[x].egress \in Egress /\ proc'[x].cfg \in Cfg
  BY <1>0 DEF Reconfigure, TypeOK
<1>5. PICK l \in {"start", "failed"} : Moves(t, l, NoPid)
  <2>1. PICK l \in {"start", "failed"} : Go(t, l)
    BY DEF Reconfigure
  <2> QED
    BY <1>0, <1>1, <2>1, GoIs DEF Moves
<1>6. PidsOK'
  BY <1>0, <1>4, <1>5 DEF PidsOK, At, Moves
<1>7. id \notin spoiled' => InWork(t, id)'
  <2>1. Up(id)' = Up(id) /\ IsRunning(id)' = IsRunning(id)
    BY <1>4 DEF Up, IsRunning, Present
  <2> QED
    BY <1>3, <1>4, <1>5, <2>1 DEF InWork, At, Moves
<1> QED
  BY <1>1, <1>2, <1>4, <1>5, <1>6, <1>7, WorkKeeps

\* The manager leaves an egress, registered anew, or no longer, or as before.
LEMMA FinishKeeps ==
    ASSUME IInv, NEW id \in Egress, id = job[Manager].id, job[Manager].at \in Owning, Finish,
           UNCHANGED <<watching, ops, restarts, proc, pidfile, spoiled>>,
           \/ UNCHANGED <<proxies, states, detached>>
           \/ \E c \in Cfg \cup {NoCfg} : Register(id, c),
           id \notin spoiled => AtRest(id)'
    PROVE  IInv'
<1>0. TypeOK /\ JobsOK /\ PlansOK /\ StatesOK /\ PidsOK /\ Manager \in Thread /\ Manager \notin Egress
  BY DEF IInv
<1>1. /\ job' \in [Thread -> Jobs]
      /\ job'[Manager] = Idle /\ Idle.at = "idle" /\ Idle.id = Manager /\ Idle.pid = NoPid
      /\ \A x \in Thread \ {Manager} : job'[x] = job[x]
      /\ \A x \in Egress : job'[x] = job[x]
  BY <1>0, RestIs DEF Finish
<1>2. /\ todo' \in [Egress -> Plans] /\ todo'[id] = Nothing /\ Nothing.does = "nothing"
      /\ \A i \in Egress \ {id} : todo'[i] = todo[i]
  BY <1>0 DEF Finish, TypeOK, Plans, Nothing
<1>3. /\ proxies' \in [Egress -> Cfg \cup {NoCfg}]
      /\ \A i \in Egress \ {id} : proxies'[i] = proxies[i]
      /\ states' \in [Egress -> States] /\ detached' \in [Egress -> States]
      /\ \A i \in Egress \ {id} : states'[i] = states[i] /\ detached'[i] = detached[i]
      /\ states'[id].cfg = proxies'[id]
      /\ job[id].at # "idle" => states'[id] # NoState \/ detached'[id] # NoState
  <2>1. CASE UNCHANGED <<proxies, states, detached>>
    BY <1>0, <2>1 DEF TypeOK, StatesOK
  <2>2. ASSUME NEW c \in Cfg \cup {NoCfg}, Register(id, c)
        PROVE  /\ proxies' \in [Egress -> Cfg \cup {NoCfg}]
               /\ \A i \in Egress \ {id} : proxies'[i] = proxies[i]
               /\ states' \in [Egress -> States] /\ detached' \in [Egress -> States]
               /\ \A i \in Egress \ {id} : states'[i] = states[i] /\ detached'[i] = detached[i]
               /\ states'[id].cfg = proxies'[id]
               /\ job[id].at # "idle" => states'[id] # NoState \/ detached'[id] # NoState
    <3>1. /\ NoState \in States /\ NoState.cfg = NoCfg
          /\ c # NoCfg => LET s == [cfg |-> c, status |-> "unknown", enabled |-> TRUE]
                          IN  s \in States /\ s # NoState /\ s.cfg = c
      BY <2>2 DEF NoState, States, Statuses
    <3>2. /\ proxies' \in [Egress -> Cfg \cup {NoCfg}] /\ proxies'[id] = c
          /\ \A i \in Egress \ {id} : proxies'[i] = proxies[i]
      BY <1>0, <2>2 DEF Register, TypeOK
    <3>3. /\ states' \in [Egress -> States] /\ states'[id].cfg = c
          /\ c # NoCfg => states'[id] # NoState
          /\ \A i \in Egress \ {id} : states'[i] = states[i]
      BY <1>0, <2>2, <3>1 DEF Register, TypeOK
    <3>4. /\ detached' \in [Egress -> States]
          /\ \A i \in Egress \ {id} : detached'[i] = detached[i]
      BY <1>0, <2>2 DEF Register, Detach, TypeOK
    <3>5. job[id].at # "idle" => detached'[id] # NoState
      <4>1. job[id].at # "idle" => job[id] # Idle
        BY <1>1
      <4> QED
        BY <1>0, <2>2, <4>1 DEF Register, Detach, TypeOK, StatesOK
    <3> QED
      BY <3>2, <3>3, <3>4, <3>5
  <2> QED
    BY <2>1, <2>2
<1>4. TypeOK'
  <2>1. \A x \in Thread : job'[x].at # "idle" => job'[x].id \in Egress
    BY <1>0, <1>1 DEF TypeOK
  <2>2. \A i \in Egress : job'[i].id \in {i, Manager}
    BY <1>0, <1>1 DEF TypeOK
  <2> QED
    BY <1>0, <1>1, <1>2, <1>3, <2>1, <2>2 DEF TypeOK
<1>5. JobsOK'
  BY <1>0, <1>1 DEF JobsOK, Owning
<1>6. PlansOK'
  BY <1>0, <1>1, <1>2, <1>3 DEF PlansOK, Registered
<1>7. StatesOK'
  BY <1>0, <1>1, <1>3 DEF StatesOK
<1>8. PidsOK'
  BY <1>0, <1>1 DEF PidsOK, At
<1>9. ASSUME NEW i \in Egress \ spoiled' PROVE OwnerOK(i)' /\ ProcsOK(i)'
  <2>1. OwnerOK(i)
    BY <1>9 DEF IInv
  <2>2. \A x \in Thread : Owns(x, i)' => x # Manager /\ Owns(x, i)
    BY <1>0, <1>1 DEF Owns
  <2>3. CASE i = id
    <3>1. ~Restarting(id)
      BY <2>1, <2>3 DEF OwnerOK
    <3>2. \A x \in Thread : ~Owns(x, id)'
      BY <1>0, <2>2, <2>3, <3>1 DEF Owns, Restarting, Owning, TypeOK
    <3>3. ~Restarting(id)' /\ job'[Manager].id # id
      BY <1>0, <1>1, <3>1 DEF Restarting
    <3> QED
      BY <1>9, <2>3, <3>2, <3>3 DEF OwnerOK, ProcsOK
  <2>4. CASE i # id
    <3>1. /\ Restarting(i)' => Restarting(i) 
          /\ job'[Manager].id # i /\ job'[i].cfg = job[i].cfg
          /\ detached'[i] = detached[i] /\ proxies'[i] = proxies[i]
      BY <1>0, <1>1, <1>3, <2>4 DEF Restarting
    <3>2. OwnerOK(i)'
      BY <2>1, <3>1 DEF OwnerOK
    <3>3. /\ \A x \in Thread : Owns(x, i) => job'[x] = job[x]
          /\ Up(i)' = Up(i)
      BY <1>1, <2>4 DEF Owns, Up
    <3> QED
      BY <1>9, <2>2, <3>1, <3>2, <3>3, OthersKeep
  <2> QED
    BY <2>3, <2>4
<1> QED
  BY <1>4, <1>5, <1>6, <1>7, <1>8, <1>9 DEF IInv

\* After Stop the manager goes on to Start or leaves the egress with nothing running.
LEMMA ConfigureKeeps == IInv /\ Configure => IInv'
<1> SUFFICES ASSUME IInv, Configure PROVE IInv'
    OBVIOUS
<1>0. TypeOK /\ JobsOK /\ PlansOK /\ PidsOK /\ Manager \in Thread
  BY DEF IInv
<1>1. /\ job[Manager].at = "configure" /\ job[Manager].at \in Owning /\ job[Manager].pid = NoPid
      /\ "start" \in Owning /\ "start" \in Places
  BY <1>0 DEF Configure, At, JobsOK, Owning, Places
<1>2. PICK id \in Egress : id = job[Manager].id
  BY <1>0, <1>1 DEF TypeOK
<1>3. id \notin spoiled => Up(id) = {} /\ ~IsRunning(id)
  <2>1. Owns(Manager, id)
    BY <1>1, <1>2 DEF Owns
  <2> QED
    BY <1>0, <1>1, <2>1, Alone DEF InWork, At
<1>4. /\ UNCHANGED <<watching, ops, restarts, proc, pidfile, spoiled>>
      /\ spoiled' \subseteq Egress /\ NoPid \notin Pid
      /\ pidfile' \in [Egress -> Pid \cup {NoPid}]
      /\ proc' \in [Pid -> Processes]
      /\ \A x \in Pid : proc'[x].st # "dead" => proc'[x].egress \in Egress /\ proc'[x].cfg \in Cfg
  BY <1>0 DEF Configure, TypeOK
<1>5. Up(id)' = Up(id) /\ IsRunning(id)' = IsRunning(id)
  BY <1>4 DEF Up, IsRunning, Present
<1>6. CASE /\ todo[id].does \in {"set", "restart"} /\ Go(Manager, "start")
           /\ UNCHANGED <<proxies, todo, states, detached>>
  <2>1. Moves(Manager, "start", NoPid)
    BY <1>0, <1>1, <1>6, GoIs DEF Moves
  <2>2. PidsOK'
    BY <1>0, <1>4, <2>1 DEF PidsOK, At, Moves
  <2>3. id \notin spoiled' => InWork(Manager, id)'
    BY <1>3, <1>4, <1>5, <2>1 DEF InWork, At, Moves
  <2> QED
    BY <1>0, <1>1, <1>2, <1>4, <1>6, <2>1, <2>2, <2>3, WorkKeeps
<1>7. CASE /\ Finish
           /\ \/ UNCHANGED <<proxies, states, detached>>
              \/ Register(id, NoCfg)
  <2>1. id \notin spoiled => AtRest(id)'
    BY <1>3, <1>5 DEF AtRest
  <2> QED
    BY <1>1, <1>2, <1>4, <1>7, <2>1, FinishKeeps
<1> QED
  BY <1>2, <1>6, <1>7 DEF Configure

\* After Start it registers what it started, which is what the plan says.
LEMMA StartedKeeps == IInv /\ Started => IInv'
<1> SUFFICES ASSUME IInv, Started PROVE IInv'
    OBVIOUS
<1>0. TypeOK /\ JobsOK /\ PlansOK /\ PidsOK /\ Manager \in Thread
  BY DEF IInv
<1>1. job[Manager].at \in {"failed", "done"} /\ job[Manager].at \in Owning
  BY <1>0 DEF Started, Owning, Places
<1>2. PICK id \in Egress : id = job[Manager].id
  BY <1>0, <1>1 DEF TypeOK
<1>3. /\ UNCHANGED <<watching, ops, restarts, proc, pidfile, spoiled>> /\ Finish
      /\ job[Manager].cfg \in Cfg /\ NoCfg \notin Cfg
  BY <1>0, <1>1 DEF Started, JobsOK
<1>4. Up(id)' = Up(id) /\ IsRunning(id)' = IsRunning(id)
  BY <1>3 DEF Up, IsRunning, Present
<1>5. id \notin spoiled => InWork(Manager, id)
  <2>1. Owns(Manager, id)
    BY <1>1, <1>2 DEF Owns
  <2> QED
    BY <1>0, <2>1, Alone
<1>6. CASE At(Manager, "done") /\ todo[id].does = "set"
  <2>1. Register(id, job[Manager].cfg)
    BY <1>2, <1>6 DEF Started
  <2>2. proxies'[id] = job[Manager].cfg
    BY <1>0, <2>1 DEF Register, TypeOK
  <2>3. id \notin spoiled => AtRest(id)'
    BY <1>3, <1>4, <1>5, <1>6, <2>2 DEF InWork, AtRest, Registered, Up
  <2> QED
    BY <1>1, <1>2, <1>3, <2>1, <2>3, FinishKeeps
<1>7. CASE ~(At(Manager, "done") /\ todo[id].does = "set")
  <2>1. UNCHANGED <<proxies, states, detached>>
    BY <1>2, <1>7 DEF Started
  <2>2. id \notin spoiled => AtRest(id)'
    <3>1. CASE At(Manager, "failed")
      BY <1>4, <1>5, <3>1 DEF InWork, At, AtRest
    <3>2. CASE At(Manager, "done")
      <4>1. job[Manager].cfg = proxies[id]
        BY <1>0, <1>2, <1>7, <3>2 DEF PlansOK
      <4> QED
        BY <1>3, <1>4, <1>5, <2>1, <3>2, <4>1 DEF InWork, AtRest, Registered, Up
    <3> QED
      BY <1>1, <3>1, <3>2 DEF At
  <2> QED
    BY <1>1, <1>2, <1>3, <2>1, <2>2, FinishKeeps
<1> QED
  BY <1>6, <1>7

\* Steps that leave egresses, threads and processes alone.
LEMMA SameKeeps ==
    ASSUME IInv, UNCHANGED <<proxies, detached, job, proc, pidfile, spoiled>>,
           TypeOK', PlansOK', StatesOK'
    PROVE  IInv'
<1>1. JobsOK' /\ PidsOK'
  BY DEF IInv, JobsOK, PidsOK, At
<1>2. ASSUME NEW i \in Egress \ spoiled' PROVE OwnerOK(i)' /\ ProcsOK(i)'
  <2>1. OwnerOK(i)'
    BY <1>2 DEF IInv, OwnerOK, Restarting
  <2>2. Up(i)' = Up(i) /\ \A x \in Thread : Owns(x, i)' <=> Owns(x, i)
    BY DEF Up, Owns
  <2> QED
    BY <1>2, <2>1, <2>2, OthersKeep
<1> QED
  BY <1>1, <1>2 DEF IInv

\* A plan only restarts, halts or removes what is registered.
LEMMA OperateKeeps ==
    ASSUME IInv, NEW plan \in [Egress -> Plans], Operate(plan),
           \A i \in Egress : plan[i].does \in {"restart", "halt", "remove"} => Registered(i)
    PROVE  IInv'
<1>0. TypeOK /\ PlansOK /\ StatesOK
  BY DEF IInv
<1>1. /\ UNCHANGED <<proxies, states, detached, watching, job, proc, pidfile, restarts, spoiled>>
      /\ todo' = plan /\ ops' = ops + 1 /\ job[Manager].id = Manager
  BY DEF Operate, Unlocked, Idle
<1>2. TypeOK'
  BY <1>0, <1>1 DEF TypeOK
<1>3. PlansOK'
  BY <1>0, <1>1 DEF PlansOK, Registered
<1>4. StatesOK'
  BY <1>0, <1>1 DEF StatesOK
<1> QED
  BY <1>1, <1>2, <1>3, <1>4, SameKeeps

\* Switching automatic restarts changes no configuration.
LEMMA EnableKeeps ==
    ASSUME IInv, NEW id \in Egress, NEW e \in BOOLEAN, EnableProxy(id, e)
    PROVE  IInv'
<1>0. TypeOK /\ PlansOK /\ StatesOK
  BY DEF IInv
<1>1. /\ UNCHANGED <<proxies, todo, detached, watching, job, proc, pidfile, restarts, spoiled>>
      /\ ops' = ops + 1
  BY DEF EnableProxy
<1>2. /\ states' \in [Egress -> States] /\ states'[id].cfg = states[id].cfg
      /\ states'[id].cfg \in Cfg /\ NoState.cfg = NoCfg
      /\ \A i \in Egress \ {id} : states'[i] = states[i]
  BY <1>0 DEF EnableProxy, TypeOK, States, NoState
<1>3. TypeOK'
  BY <1>0, <1>1, <1>2 DEF TypeOK
<1>4. PlansOK'
  BY <1>0, <1>1 DEF PlansOK, Registered
<1>5. StatesOK'
  BY <1>0, <1>1, <1>2 DEF StatesOK
<1> QED
  BY <1>1, <1>3, <1>4, <1>5, SameKeeps

\* Stopping the monitor changes neither table.
LEMMA StopMonitorKeeps == IInv /\ StopMonitor => IInv'
<1> SUFFICES ASSUME IInv, StopMonitor PROVE IInv'
    OBVIOUS
<1>0. TypeOK /\ PlansOK /\ StatesOK
  BY DEF IInv
<1>1. /\ UNCHANGED <<proxies, todo, states, detached, job, proc, pidfile, ops, restarts, spoiled>>
      /\ watching' = "ending"
  BY DEF StopMonitor
<1>2. TypeOK'
  BY <1>0, <1>1 DEF TypeOK
<1>3. PlansOK' /\ StatesOK'
  BY <1>0, <1>1 DEF PlansOK, StatesOK, Registered
<1> QED
  BY <1>1, <1>2, <1>3, SameKeeps

\* The manager turns to an egress.
LEMMA BeginKeeps ==
    ASSUME IInv, NEW id \in Egress, Begin(id)
    PROVE  IInv'
<1>0. TypeOK /\ JobsOK /\ PlansOK /\ StatesOK /\ PidsOK /\ Manager \in Thread /\ Manager \notin Egress
  BY DEF IInv
<1> DEFINE c == IF todo[id].does = "set" THEN todo[id].cfg ELSE proxies[id]
           l == IF Registered(id) THEN "kill" ELSE "configure"
<1>1. /\ UNCHANGED <<proxies, todo, states, detached, watching, proc, pidfile, ops, restarts>>
      /\ todo[id] # Nothing /\ job[Manager] = Idle
      /\ Idle.at = "idle" /\ Idle.id = Manager /\ Idle.pid = NoPid
      /\ spoiled \subseteq spoiled' /\ spoiled' \subseteq Egress
      /\ Restarting(id) => id \in spoiled'
  BY <1>0 DEF Begin, Idle, TypeOK
<1>2. c \in Cfg /\ l \in Owning /\ l \in Places /\ l \notin {"idle", "check", "probe", "write"}
  BY <1>0, <1>1 DEF PlansOK, Registered, TypeOK, Plans, Nothing, Owning, Places
<1>3. /\ job' \in [Thread -> Jobs]
      /\ job'[Manager].at = l /\ job'[Manager].id = id
      /\ job'[Manager].cfg = c /\ job'[Manager].pid = NoPid
      /\ \A x \in Thread \ {Manager} : job'[x] = job[x]
      /\ \A x \in Egress : job'[x] = job[x]
  <2>1. job' = [job EXCEPT ![Manager] = [at |-> l, id |-> id, cfg |-> c, pid |-> NoPid]]
    BY DEF Begin
  <2>2. [at |-> l, id |-> id, cfg |-> c, pid |-> NoPid] \in Jobs
    BY <1>2 DEF Jobs
  <2> HIDE DEF c, l
  <2> QED
    BY <1>0, <2>1, <2>2 DEF TypeOK
<1>4. PlansOK'
  <2>1. todo[id].does \in {"halt", "remove"} => l = "kill"
    BY <1>0 DEF PlansOK
  <2>2. \A i \in Egress : todo'[i].does \in {"restart", "halt", "remove"} => proxies'[i] # NoCfg
    BY <1>0, <1>1 DEF PlansOK, Registered
  <2> QED
    BY <1>0, <1>1, <1>3, <2>1, <2>2 DEF PlansOK, Registered
<1> HIDE DEF c
<1>5. TypeOK'
  <2>1. \A x \in Thread : job'[x].at # "idle" => job'[x].id \in Egress
    BY <1>0, <1>3 DEF TypeOK
  <2>2. \A i \in Egress : job'[i].id \in {i, Manager}
    BY <1>0, <1>3 DEF TypeOK
  <2> QED
    BY <1>0, <1>1, <1>3, <2>1, <2>2 DEF TypeOK
<1>6. JobsOK'
  <2> HIDE DEF l
  <2> QED
    BY <1>0, <1>2, <1>3 DEF JobsOK, Owning
<1>7. StatesOK'
  BY <1>0, <1>1, <1>3 DEF StatesOK
<1>8. PidsOK'
  <2> HIDE DEF l
  <2> QED
    BY <1>0, <1>1, <1>2, <1>3 DEF PidsOK, At
<1>9. ASSUME NEW i \in Egress \ spoiled' PROVE OwnerOK(i)' /\ ProcsOK(i)'
  <2>1. OwnerOK(i) /\ ProcsOK(i)
    BY <1>1, <1>9 DEF IInv
  <2>2. Up(i)' = Up(i) /\ IsRunning(i)' = IsRunning(i) /\ (AtRest(i)' <=> AtRest(i))
    BY <1>1 DEF Up, IsRunning, Present, AtRest, Registered
  <2>3. Restarting(i)' <=> Restarting(i)
    BY <1>3 DEF Restarting
  <2>4. OwnerOK(i)'
    <3>1. i = id => ~Restarting(i)
      BY <1>1, <1>9
    <3> QED
      BY <1>1, <1>3, <2>1, <2>3, <3>1 DEF OwnerOK
  <2>5. CASE i = id
    <3>1. \A x \in Egress : ~Owns(x, id)
      BY <1>0, <1>1, <1>9, <2>5 DEF Owns, Owning, Restarting, TypeOK
    <3>2. ~Owns(Manager, id)
      BY <1>0, <1>1 DEF Owns
    <3>3. AtRest(id)
      BY <2>1, <2>5, <3>1, <3>2 DEF ProcsOK
    <3>4. ~Registered(id) => Up(id) = {}
      BY <1>0, <3>3 DEF AtRest, Registered, Up, TypeOK
    <3>5. InWork(Manager, id)'
      BY <1>3, <2>2, <2>5, <3>3, <3>4 DEF InWork, At, AtRest, Registered
    <3>6. Owns(Manager, id)' /\ \A x \in Thread : Owns(x, id)' => x = Manager
      BY <1>2, <1>3, <3>1 DEF Owns
    <3> QED
      BY <2>4, <2>5, <3>5, <3>6 DEF ProcsOK
  <2>6. CASE i # id
    <3>1. /\ \A x \in Thread : Owns(x, i) => job'[x] = job[x]
          /\ \A x \in Thread : Owns(x, i)' => Owns(x, i)
      BY <1>0, <1>1, <1>3, <2>6 DEF Owns
    <3> QED
      BY <1>1, <1>9, <2>2, <2>4, <3>1, OthersKeep
  <2> QED
    BY <2>5, <2>6
<1> QED
  BY <1>4, <1>5, <1>6, <1>7, <1>8, <1>9 DEF IInv

\* Steps of a check before it restarts anything, or that end it.
LEMMA LookKeeps ==
    ASSUME IInv, UNCHANGED <<proxies, proc, pidfile, spoiled>>,
           job'[Manager] = job[Manager],
           \A x \in Egress : job'[x] = job[x] \/ (job[x].at \notin Owning /\ job'[x].at \notin Owning),
           \A x \in Egress : detached'[x] = detached[x] \/ job'[x].at \notin Owning,
           TypeOK', JobsOK', PlansOK', StatesOK'
    PROVE  IInv'
<1>0. /\ TypeOK /\ JobsOK /\ PidsOK
      /\ Manager \in Thread /\ Manager \notin Egress /\ Thread = Egress \cup {Manager}
  BY DEF IInv
<1>1. \A x \in Thread : /\ job[x].at \in Owning => job'[x] = job[x]
                        /\ job'[x].at \in Owning => job'[x] = job[x]
  BY <1>0
<1>2. PidsOK'
  <2>1. "write" \in Owning
    BY DEF Owning, Places
  <2> QED
    BY <1>0, <1>1, <2>1 DEF PidsOK, At
<1>3. ASSUME NEW i \in Egress \ spoiled' PROVE OwnerOK(i)' /\ ProcsOK(i)'
  <2>1. Restarting(i)' => job'[i].at \in Owning
    BY DEF Restarting, Owning, TypeOK, Jobs
  <2>2. Restarting(i)' => Restarting(i) /\ job'[i] = job[i] /\ detached'[i] = detached[i]
    BY <1>1, <2>1 DEF Restarting
  <2>3. OwnerOK(i)'
    BY <1>3, <2>2 DEF IInv, OwnerOK
  <2>4. Up(i)' = Up(i) /\ \A x \in Thread : Owns(x, i) => job'[x] = job[x]
    BY <1>1 DEF Up, Owns
  <2>5. \A x \in Thread : Owns(x, i)' => Owns(x, i)
    BY <1>1 DEF Owns
  <2> QED
    BY <1>3, <2>3, <2>4, <2>5, OthersKeep
<1> QED
  BY <1>2, <1>3 DEF IInv

\* A round begins with every check at rest, and looks first.
LEMMA TickKeeps == IInv /\ Tick => IInv'
<1> SUFFICES ASSUME IInv, Tick PROVE IInv'
    OBVIOUS
<1>0. /\ TypeOK /\ JobsOK /\ PlansOK /\ StatesOK
      /\ Manager \in Thread /\ Manager \notin Egress /\ Thread = Egress \cup {Manager}
  BY DEF IInv
<1>1. /\ UNCHANGED <<proxies, todo, states, detached, proc, pidfile, ops, restarts, spoiled>>
      /\ watching' \in {"on", "off"}
  BY DEF Tick
<1>2. ASSUME NEW x \in Egress
      PROVE  /\ job[x].at = "idle"
             /\ \/ job'[x] = job[x]
                \/ /\ states[x] # NoState
                   /\ job'[x] \in Jobs /\ job'[x].at = "check" /\ job'[x].id = x /\ job'[x].pid = NoPid
  <2>2. [at |-> "check", id |-> x, cfg |-> NoCfg, pid |-> NoPid] \in Jobs
    BY DEF Jobs, Places
  <2>3. job[x] = Idle /\ Idle.at = "idle"
    BY DEF Tick, Idle
  <2>4. ASSUME states[x] # NoState
        PROVE  job'[x] = [at |-> "check", id |-> x, cfg |-> NoCfg, pid |-> NoPid]
    <3>1. PICK r : r = Idle
      OBVIOUS
    <3>2. job'[x] = [r EXCEPT !.at = "check", !.id = x]
      BY <2>4, <3>1 DEF Tick
    <3> QED
      BY <3>1, <3>2 DEF Idle
  <2>5. states[x] = NoState => job'[x] = job[x]
    BY DEF Tick
  <2> QED
    BY <2>2, <2>3, <2>4, <2>5
<1>3. job'[Manager] = job[Manager]
  BY <1>0 DEF Tick
<1>5. job' \in [Thread -> Jobs]
  <2>1. job' = [x \in Thread |-> job'[x]]
    BY DEF Tick
  <2>2. \A x \in Thread : job'[x] \in Jobs
    BY <1>0, <1>2, <1>3 DEF TypeOK
  <2> QED
    BY <2>1, <2>2
<1>6. TypeOK'
  <2>1. \A x \in Thread : job'[x].at # "idle" => job'[x].id \in Egress
    BY <1>0, <1>2, <1>3 DEF TypeOK
  <2>2. \A x \in Egress : job'[x].id \in {x, Manager}
    BY <1>0, <1>2 DEF TypeOK
  <2> QED
    BY <1>0, <1>1, <1>5, <2>1, <2>2 DEF TypeOK
<1>7. JobsOK'
  BY <1>0, <1>2, <1>3 DEF JobsOK, Owning
<1>8. PlansOK'
  BY <1>0, <1>1, <1>3 DEF PlansOK, Registered
<1>9. StatesOK'
  BY <1>0, <1>1, <1>2 DEF StatesOK
<1> QED
  <2>1. \A x \in Egress : job[x].at \notin Owning /\ job'[x].at \notin Owning
    BY <1>2 DEF Owning
  <2> QED
    BY <1>1, <1>3, <1>6, <1>7, <1>8, <1>9, <2>1, LookKeeps

\* A check ends at rest, in the state it leaves.
LEMMA EndIs ==
    ASSUME IInv, NEW id \in Egress, EndCheck(id), job[id].at # "idle",
           UNCHANGED <<proxies, todo, watching, proc, pidfile, ops, restarts, spoiled>>,
           \/ detached' = [detached EXCEPT ![id] = NoState] /\ UNCHANGED states
           \/ /\ detached[id] = NoState /\ UNCHANGED detached
              /\ \E v \in Statuses : states' = [states EXCEPT ![id].status = v]
    PROVE  /\ TypeOK' /\ JobsOK' /\ PlansOK' /\ StatesOK' /\ PidsOK'
           /\ job'[id].at = "idle" /\ job'[id].id = Manager
           /\ \A x \in Thread \ {id} : job'[x] = job[x]
           /\ \A x \in Egress \ {id} : detached'[x] = detached[x]
<1>0. /\ TypeOK /\ JobsOK /\ PlansOK /\ StatesOK /\ PidsOK
      /\ Manager \in Thread /\ Manager \notin Egress /\ Thread = Egress \cup {Manager}
  BY DEF IInv
<1>1. /\ job' \in [Thread -> Jobs]
      /\ job'[id] = Idle /\ Idle.at = "idle" /\ Idle.id = Manager /\ Idle.pid = NoPid
      /\ \A x \in Thread \ {id} : job'[x] = job[x]
  BY <1>0, RestIs DEF EndCheck
<1>2. /\ detached' \in [Egress -> States] /\ states' \in [Egress -> States]
      /\ \A x \in Egress \ {id} : detached'[x] = detached[x] /\ states'[x] = states[x]
      /\ states'[id].cfg = states[id].cfg
  <2>0. NoState \in States
    BY DEF States
  <2>1. CASE detached' = [detached EXCEPT ![id] = NoState] /\ UNCHANGED states
    BY <1>0, <2>0, <2>1 DEF TypeOK
  <2>2. ASSUME detached[id] = NoState, UNCHANGED detached, NEW v \in Statuses,
               states' = [states EXCEPT ![id].status = v]
        PROVE  /\ states' \in [Egress -> States] /\ states'[id].cfg = states[id].cfg
               /\ \A x \in Egress \ {id} : states'[x] = states[x]
    <3>1. states[id] \in [cfg : Cfg, status : Statuses, enabled : BOOLEAN]
      BY <1>0, <2>2 DEF TypeOK, StatesOK, States
    <3> QED
      BY <1>0, <2>2, <3>1 DEF TypeOK, States
  <2> QED
    BY <1>0, <2>1, <2>2 DEF TypeOK
<1>3. TypeOK'
  <2>1. \A x \in Thread : job'[x].at # "idle" => job'[x].id \in Egress
    BY <1>0, <1>1 DEF TypeOK
  <2>2. \A x \in Egress : job'[x].id \in {x, Manager}
    BY <1>0, <1>1 DEF TypeOK
  <2> QED
    BY <1>0, <1>1, <1>2, <2>1, <2>2 DEF TypeOK
<1>4. JobsOK'
  BY <1>0, <1>1 DEF JobsOK, Owning
<1>5. PlansOK'
  BY <1>0, <1>1 DEF PlansOK, Registered
<1>6. StatesOK'
  BY <1>0, <1>1, <1>2 DEF StatesOK
<1>7. PidsOK'
  BY <1>0, <1>1 DEF PidsOK, At
<1> QED
  BY <1>1, <1>2, <1>3, <1>4, <1>5, <1>6, <1>7

\* A check that only looks leaves everything as it is.
LEMMA CheckKeeps ==
    ASSUME IInv, NEW id \in Egress, Check(id)
    PROVE  IInv'
<1>0. /\ TypeOK /\ JobsOK /\ PlansOK /\ StatesOK
      /\ Manager \in Thread /\ Manager \notin Egress /\ id \in Thread
  BY DEF IInv
<1>1. /\ job[id].at = "check" /\ "probe" \in Places
      /\ UNCHANGED <<proxies, todo, states, watching, proc, pidfile, ops, restarts, spoiled>>
      /\ {"idle", "check", "probe"} \cap Owning = {}
  BY DEF Check, At, Places, Owning
<1>2. CASE Go(id, "probe") /\ UNCHANGED detached
  <2>1. Moves(id, "probe", job[id].pid)
    BY <1>0, <1>1, <1>2, GoIs DEF Moves
  <2>2. TypeOK'
    <3>1. \A x \in Thread : job'[x].at # "idle" => job'[x].id \in Egress
      BY <1>0, <1>1, <2>1 DEF TypeOK, Moves
    <3>2. \A x \in Egress : job'[x].id \in {x, Manager}
      BY <1>0, <2>1 DEF TypeOK, Moves
    <3> QED
      BY <1>0, <1>1, <1>2, <2>1, <3>1, <3>2 DEF TypeOK, Moves
  <2>3. JobsOK' /\ PlansOK' /\ StatesOK'
    BY <1>0, <1>1, <1>2, <2>1 DEF Moves, JobsOK, PlansOK, StatesOK, Owning, Registered
  <2>4. \A x \in Egress : job'[x] = job[x] \/ (job[x].at \notin Owning /\ job'[x].at \notin Owning)
    BY <1>1, <2>1 DEF Moves
  <2>5. job'[Manager] = job[Manager] /\ detached' = detached
    BY <1>0, <1>2, <2>1 DEF Moves
  <2> QED
    BY <1>1, <2>2, <2>3, <2>4, <2>5, LookKeeps
<1>3. CASE EndCheck(id) /\ detached' = [detached EXCEPT ![id] = NoState]
  <2>1. /\ TypeOK' /\ JobsOK' /\ PlansOK' /\ StatesOK'
        /\ job'[id].at = "idle"
        /\ \A x \in Thread \ {id} : job'[x] = job[x]
        /\ \A x \in Egress \ {id} : detached'[x] = detached[x]
    BY <1>1, <1>3, EndIs
  <2>2. \A x \in Egress : job'[x] = job[x] \/ (job[x].at \notin Owning /\ job'[x].at \notin Owning)
    BY <1>1, <2>1
  <2>3. \A x \in Egress : detached'[x] = detached[x] \/ job'[x].at \notin Owning
    BY <1>1, <2>1
  <2>4. job'[Manager] = job[Manager]
    BY <1>0, <2>1
  <2> QED
    BY <1>1, <2>1, <2>2, <2>3, <2>4, LookKeeps
<1> QED
  BY <1>2, <1>3 DEF Check

\* The job of a check that turns into a restart.
LEMMA AimIs ==
    ASSUME TypeOK, NEW t \in Thread, NEW l \in Places, NEW c \in Cfg,
           job' = [job EXCEPT ![t].at = l, ![t].cfg = c]
    PROVE  /\ job' \in [Thread -> Jobs] /\ job'[t].at = l /\ job'[t].cfg = c
           /\ job'[t].id = job[t].id /\ job'[t].pid = job[t].pid
           /\ \A x \in Thread \ {t} : job'[x] = job[x]
<1>1. job \in [Thread -> Jobs]
  BY DEF TypeOK
<1>2. job[t] \in Jobs
  BY <1>1
<1> QED
  BY <1>1, <1>2 DEF Jobs

\* A check that restarts takes the egress, or spoils it if the manager has it.
LEMMA ProbeKeeps ==
    ASSUME IInv, NEW id \in Egress, Probe(id)
    PROVE  IInv'
<1>0. /\ TypeOK /\ JobsOK /\ PlansOK /\ StatesOK /\ PidsOK
      /\ Manager \in Thread /\ Manager \notin Egress /\ id \in Thread
  BY DEF IInv
<1>1. /\ job[id].at = "probe" /\ job[id].pid = NoPid /\ job[id].id = id
      /\ UNCHANGED <<proxies, todo, watching, proc, pidfile, ops, restarts>>
      /\ {"idle", "check", "probe"} \cap Owning = {} /\ "kill" \in Owning /\ "kill" \in Places
  BY <1>0 DEF Probe, At, JobsOK, Owning, Places, TypeOK
<1>2. PICK running \in BOOLEAN :
        LET v == Verdict(State(id).status, running) IN
        \/ Conclude(id, v) /\ UNCHANGED spoiled
        \/ /\ SetState(id, [State(id) EXCEPT !.status = "restarting"])
           /\ job' = [job EXCEPT ![id].at = "kill", ![id].cfg = State(id).cfg]
           /\ spoiled' = IF detached[id] # NoState \/ job[Manager].id = id
                         THEN spoiled \cup {id} ELSE spoiled
  BY DEF Probe, IsRunning, Present
<1>3. ASSUME NEW v \in Statuses, Conclude(id, v), UNCHANGED spoiled PROVE IInv'
  <2>1. /\ TypeOK' /\ JobsOK' /\ PlansOK' /\ StatesOK'
        /\ job'[id].at = "idle"
        /\ \A x \in Thread \ {id} : job'[x] = job[x]
        /\ \A x \in Egress \ {id} : detached'[x] = detached[x]
    <3>1. CASE detached[id] # NoState
      BY <1>1, <1>3, <3>1, EndIs DEF Conclude
    <3>2. CASE detached[id] = NoState
      BY <1>1, <1>3, <3>2, EndIs DEF Conclude
    <3> QED
      BY <3>1, <3>2
  <2>2. \A x \in Egress : job'[x] = job[x] \/ (job[x].at \notin Owning /\ job'[x].at \notin Owning)
    BY <1>1, <2>1
  <2>3. \A x \in Egress : detached'[x] = detached[x] \/ job'[x].at \notin Owning
    BY <1>1, <2>1
  <2>4. job'[Manager] = job[Manager]
    BY <1>0, <2>1
  <2> QED
    BY <1>1, <1>3, <2>1, <2>2, <2>3, <2>4, LookKeeps
<1>4. ASSUME SetState(id, [State(id) EXCEPT !.status = "restarting"]),
             job' = [job EXCEPT ![id].at = "kill", ![id].cfg = State(id).cfg],
             spoiled' = IF detached[id] # NoState \/ job[Manager].id = id
                        THEN spoiled \cup {id} ELSE spoiled
      PROVE  IInv'
  <2>1. /\ State(id) \in States \ {NoState} /\ State(id).cfg \in Cfg /\ NoState.cfg = NoCfg
        /\ [State(id) EXCEPT !.status = "restarting"] \in States
        /\ [State(id) EXCEPT !.status = "restarting"].cfg = State(id).cfg
    <3>1. State(id) \in States \ {NoState} /\ State(id).cfg \in Cfg
      BY <1>0, <1>1, StateIs
    <3>2. ASSUME NEW s \in [cfg : Cfg, status : Statuses, enabled : BOOLEAN]
          PROVE  /\ [s EXCEPT !.status = "restarting"] \in States
                 /\ [s EXCEPT !.status = "restarting"].cfg = s.cfg
      BY DEF States, Statuses
    <3>3. State(id) \in [cfg : Cfg, status : Statuses, enabled : BOOLEAN]
      BY <3>1 DEF States
    <3> QED
      BY <3>1, <3>2, <3>3 DEF NoState
  <2>2. PICK s \in States : s = [State(id) EXCEPT !.status = "restarting"]
                            /\ s.cfg = State(id).cfg /\ s # NoState
    BY <2>1
  <2>3. /\ states' \in [Egress -> States] /\ detached' \in [Egress -> States]
        /\ \A x \in Egress \ {id} : states'[x] = states[x] /\ detached'[x] = detached[x]
        /\ states'[id].cfg = states[id].cfg
        /\ detached'[id] # NoState \/ states'[id] # NoState
        /\ detached[id] = NoState => detached'[id] = NoState /\ State(id) = states[id]
    <3>1. CASE detached[id] # NoState
      BY <1>0, <1>4, <2>2, <3>1 DEF SetState, TypeOK
    <3>2. CASE detached[id] = NoState
      <4>1. State(id) = states[id]
        BY <3>2 DEF State
      <4>2. states' = [states EXCEPT ![id] = s] /\ UNCHANGED detached
        BY <1>4, <2>2, <3>2 DEF SetState
      <4> QED
        BY <1>0, <2>2, <3>2, <4>1, <4>2 DEF TypeOK
    <3> QED
      BY <3>1, <3>2
  <2>4. /\ job' \in [Thread -> Jobs]
        /\ job'[id].at = "kill" /\ job'[id].id = id
        /\ job'[id].cfg = State(id).cfg /\ job'[id].pid = NoPid
        /\ \A x \in Thread \ {id} : job'[x] = job[x]
    <3>1. PICK c \in Cfg : c = State(id).cfg
      BY <2>1
    <3>2. job' = [job EXCEPT ![id].at = "kill", ![id].cfg = c]
      BY <1>4, <3>1
    <3> QED
      <4>1. /\ job' \in [Thread -> Jobs] /\ job'[id].at = "kill" /\ job'[id].cfg = c
            /\ job'[id].id = job[id].id /\ job'[id].pid = job[id].pid
            /\ \A x \in Thread \ {id} : job'[x] = job[x]
        <5>1. PICK l \in Places : l = "kill"
          BY <1>1
        <5>2. job' = [job EXCEPT ![id].at = l, ![id].cfg = c]
          BY <3>2, <5>1
        <5> QED
          BY <1>0, <5>1, <5>2, AimIs, Zenon
      <4> QED
        BY <1>1, <3>1, <4>1
  <2>5. /\ spoiled \subseteq spoiled' /\ spoiled' \subseteq Egress
        /\ detached[id] # NoState \/ job[Manager].id = id => id \in spoiled'
    BY <1>0, <1>4 DEF TypeOK
  <2>6. TypeOK'
    <3>1. \A x \in Thread : job'[x].at # "idle" => job'[x].id \in Egress
      BY <1>0, <2>4 DEF TypeOK
    <3>2. \A x \in Egress : job'[x].id \in {x, Manager}
      BY <1>0, <2>4 DEF TypeOK
    <3> QED
      BY <1>0, <1>1, <2>3, <2>4, <2>5, <3>1, <3>2 DEF TypeOK
  <2>7. JobsOK'
    BY <1>0, <2>1, <2>4 DEF JobsOK, Owning
  <2>8. PlansOK'
    BY <1>0, <1>1, <2>4 DEF PlansOK, Registered
  <2>9. StatesOK'
    BY <1>0, <1>1, <2>3, <2>4 DEF StatesOK
  <2>10. PidsOK'
    BY <1>0, <1>1, <2>4 DEF PidsOK, At
  <2>11. ASSUME NEW i \in Egress \ spoiled' PROVE OwnerOK(i)' /\ ProcsOK(i)'
    <3>1. OwnerOK(i) /\ ProcsOK(i) /\ job'[Manager] = job[Manager]
      BY <1>0, <2>4, <2>5, <2>11 DEF IInv
    <3>2. Up(i)' = Up(i) /\ (AtRest(i)' <=> AtRest(i))
      BY <1>1 DEF Up, IsRunning, Present, AtRest, Registered
    <3>3. CASE i = id
      <4>1. job[Manager].id # id /\ detached[id] = NoState
        BY <2>5, <2>11, <3>3
      <4>2. OwnerOK(id)'
        BY <1>0, <1>1, <2>3, <2>4, <3>1, <4>1 DEF OwnerOK, StatesOK
      <4>3. \A x \in Thread : ~Owns(x, id)
        BY <1>0, <1>1, <4>1 DEF Owns, TypeOK
      <4>4. InWork(id, id)'
        BY <2>4, <3>1, <3>2, <3>3, <4>3 DEF ProcsOK, InWork, At
      <4>5. Owns(id, id)' /\ \A x \in Thread : Owns(x, id)' => x = id
        BY <1>1, <2>4, <4>3 DEF Owns
      <4> QED
        BY <3>3, <4>2, <4>4, <4>5 DEF ProcsOK
    <3>4. CASE i # id
      <4>1. job'[i] = job[i] /\ detached'[i] = detached[i]
        BY <2>3, <2>4, <3>4
      <4>2. OwnerOK(i)'
        BY <1>1, <3>1, <4>1 DEF OwnerOK, Restarting
      <4>3. /\ \A x \in Thread : Owns(x, i) => job'[x] = job[x]
            /\ \A x \in Thread : Owns(x, i)' => Owns(x, i)
        BY <1>1, <2>4, <3>4 DEF Owns
      <4> QED
        BY <1>1, <2>5, <2>11, <3>2, <4>2, <4>3, OthersKeep
    <3> QED
      BY <3>3, <3>4
  <2> QED
    BY <2>6, <2>7, <2>8, <2>9, <2>10, <2>11 DEF IInv
<1>5. Verdict(State(id).status, running) \in Statuses
  BY DEF Verdict, Statuses
<1> QED
  BY <1>2, <1>3, <1>4, <1>5

\* A restart's end: the egress is at rest with the registered configuration.
LEMMA VerifyKeeps ==
    ASSUME IInv, NEW id \in Egress, Verify(id)
    PROVE  IInv'
<1>0. /\ TypeOK /\ JobsOK /\ PlansOK /\ StatesOK /\ PidsOK
      /\ Manager \in Thread /\ Manager \notin Egress /\ id \in Thread
  BY DEF IInv
<1>1. /\ job[id].at \in {"failed", "done"} /\ job[id].at \in Owning /\ job[id].id = id
      /\ UNCHANGED <<proxies, todo, watching, proc, pidfile, ops, restarts, spoiled>>
      /\ job[id].cfg \in Cfg
  BY <1>0 DEF Verify, JobsOK, Owning, Places, TypeOK
<1>2. /\ TypeOK' /\ JobsOK' /\ PlansOK' /\ StatesOK' /\ PidsOK'
      /\ job'[id].at = "idle" /\ job'[id].id = Manager
      /\ \A x \in Thread \ {id} : job'[x] = job[x]
      /\ \A x \in Egress \ {id} : detached'[x] = detached[x]
  <2>1. CASE detached[id] # NoState
    BY <1>1, <2>1, EndIs DEF Verify
  <2>2. CASE detached[id] = NoState
    <3>1. PICK v \in Statuses : states' = [states EXCEPT ![id].status = v]
      BY <2>2 DEF Verify, Statuses
    <3> QED
      BY <1>1, <2>2, <3>1, EndIs DEF Verify
  <2> QED
    BY <2>1, <2>2
<1>3. ASSUME NEW i \in Egress \ spoiled' PROVE OwnerOK(i)' /\ ProcsOK(i)'
  <2>1. OwnerOK(i) /\ ProcsOK(i) /\ job'[Manager] = job[Manager]
    BY <1>0, <1>1, <1>2, <1>3 DEF IInv
  <2>2. Up(i)' = Up(i) /\ (AtRest(i)' <=> AtRest(i))
    BY <1>1 DEF Up, IsRunning, Present, AtRest, Registered
  <2>3. CASE i = id
    <3>1. InWork(id, id) /\ \A x \in Thread : Owns(x, id) => x = id
      <4>1. Owns(id, id)
        BY <1>1 DEF Owns
      <4> QED
        BY <1>0, <1>1, <1>3, <2>3, <4>1, Alone
    <3>2. \A x \in Thread : ~Owns(x, id)'
      BY <1>0, <1>2, <3>1 DEF Owns
    <3>3. Restarting(id) /\ ~Restarting(id)'
      BY <1>1, <1>2 DEF Restarting
    <3>4. job[id].cfg = proxies[id]
      BY <2>1, <2>3, <3>3 DEF OwnerOK
    <3>5. AtRest(id)
      <4>1. CASE At(id, "failed")
        BY <3>1, <4>1 DEF InWork, At, AtRest
      <4>2. CASE At(id, "done")
        BY <1>1, <3>1, <3>4, <4>2 DEF InWork, At, AtRest, Registered, Up
      <4> QED
        BY <1>1, <4>1, <4>2 DEF At
    <3> QED
      BY <2>2, <2>3, <3>2, <3>3, <3>5 DEF OwnerOK, ProcsOK
  <2>4. CASE i # id
    <3>1. job'[i] = job[i] /\ detached'[i] = detached[i]
      BY <1>2, <2>4
    <3>2. OwnerOK(i)'
      BY <1>1, <2>1, <3>1 DEF OwnerOK, Restarting
    <3>3. /\ \A x \in Thread : Owns(x, i) => job'[x] = job[x]
          /\ \A x \in Thread : Owns(x, i)' => Owns(x, i)
      BY <1>1, <1>2, <2>4 DEF Owns
    <3> QED
      BY <1>1, <1>3, <2>2, <3>2, <3>3, OthersKeep
  <2> QED
    BY <2>3, <2>4
<1> QED
  BY <1>2, <1>3 DEF IInv

\* A set whose members are all one thing.
LEMMA AtMostOne ==
    ASSUME NEW S, NEW q, \A p \in S : p = q
    PROVE  Cardinality(S) <= 1
<1>1. CASE S = {}
  BY <1>1, FS_EmptySet
<1>2. CASE S = {q}
  <2>1. Cardinality({q}) = 1
    BY FS_Singleton
  <2> QED
    BY <1>2, <2>1
<1> QED
  BY <1>1, <1>2

\* Fewer processes are up, and a dead child still is what it was started with.
LEMMA ExitKeeps ==
    ASSUME IInv, NEW p \in Pid, Exit(p)
    PROVE  IInv'
<1>0. TypeOK /\ JobsOK /\ PlansOK /\ StatesOK /\ PidsOK
  BY DEF IInv
<1>1. /\ UNCHANGED <<proxies, todo, states, detached, watching, job, pidfile, ops, restarts, spoiled>>
      /\ proc[p].st # "dead"
  BY DEF Exit
<1>2. /\ proc' \in [Pid -> Processes] /\ proc'[p].st = "dead"
      /\ \A x \in Pid \ {p} : proc'[x] = proc[x]
      /\ proc[p].child => proc'[p].child /\ proc'[p].cfg = proc[p].cfg
      /\ ~proc[p].child => ~proc'[p].child
  <2>1. CASE proc[p].child
    BY <1>0, <2>1 DEF Exit, TypeOK, Processes
  <2>2. CASE ~proc[p].child
    BY <1>0, <2>2 DEF Exit, TypeOK, Processes, Gone
  <2> QED
    BY <2>1, <2>2
<1>3. TypeOK'
  <2>1. \A x \in Pid : proc'[x].st # "dead" => proc'[x].egress \in Egress /\ proc'[x].cfg \in Cfg
    BY <1>0, <1>2 DEF TypeOK
  <2> QED
    BY <1>0, <1>1, <1>2, <2>1 DEF TypeOK
<1>4. JobsOK' /\ PlansOK' /\ StatesOK'
  BY <1>0, <1>1 DEF JobsOK, PlansOK, StatesOK, Registered
<1>5. PidsOK'
  BY <1>0, <1>1, <1>2 DEF PidsOK, At, TypeOK, JobsOK
<1>6. ASSUME NEW i \in Egress \ spoiled' PROVE OwnerOK(i)' /\ ProcsOK(i)'
  <2>1. OwnerOK(i) /\ ProcsOK(i)
    BY <1>1, <1>6 DEF IInv
  <2>2. /\ Up(i)' \subseteq Up(i) /\ \A x \in Up(i)' : proc'[x] = proc[x]
        /\ IsRunning(i)' => IsRunning(i)
    BY <1>0, <1>1, <1>2 DEF Up, IsRunning, Present, TypeOK
  <2>3. AtRest(i) => AtRest(i)'
    BY <1>1, <2>2 DEF AtRest, Registered
  <2>4. ASSUME NEW x \in Thread, Owns(x, i), InWork(x, i) PROVE InWork(x, i)'
    <3>1. At(x, "write") => job[x].pid \in Pid /\ proc'[job[x].pid].cfg = job[x].cfg
                            /\ proc'[job[x].pid].child
      BY <1>0, <1>2, <2>4 DEF InWork, At, JobsOK
    <3>2. At(x, "done") => proc'[pidfile[i]].cfg = job[x].cfg /\ proc'[pidfile[i]].child
      BY <1>2, <2>4 DEF InWork
    <3> QED
      BY <1>1, <2>2, <2>3, <2>4, <3>1, <3>2 DEF InWork, At
  <2> QED
    BY <1>1, <2>1, <2>3, <2>4 DEF OwnerOK, ProcsOK, Restarting, Owns
<1> QED
  BY <1>3, <1>4, <1>5, <1>6 DEF IInv

\* What the old agent leaves running spoils its egress; what is dead is gone.
LEMMA RestartKeeps == IInv /\ Restart => IInv'
<1> SUFFICES ASSUME IInv, Restart PROVE IInv'
    OBVIOUS
<1>0. TypeOK /\ PidsOK /\ Manager \notin Egress /\ Manager \in Thread
  BY DEF IInv
<1>1. \A t \in Thread : /\ job'[t] = Idle /\ job'[t].at = "idle"
                        /\ job'[t].id = Manager /\ job'[t].pid = NoPid
  BY DEF Restart, Idle
<1>2. \A p \in Pid : /\ proc[p].st = "dead" => proc'[p].st = "dead" /\ ~proc'[p].child
                     /\ proc[p].st # "dead" => /\ proc'[p].egress = proc[p].egress
                                               /\ proc'[p].cfg = proc[p].cfg
                     /\ proc'[p] \in Processes
  <2> SUFFICES ASSUME NEW p \in Pid
               PROVE  /\ proc[p].st = "dead" => proc'[p].st = "dead" /\ ~proc'[p].child
                      /\ proc[p].st # "dead" => /\ proc'[p].egress = proc[p].egress
                                                /\ proc'[p].cfg = proc[p].cfg
                      /\ proc'[p] \in Processes
    OBVIOUS
  <2>1. CASE proc[p].st = "dead"
    BY <2>1 DEF Restart, Gone, Processes
  <2>2. CASE proc[p].st # "dead"
    <3>1. proc'[p] = [proc[p] EXCEPT !.child = FALSE] /\ proc[p] \in Processes
      BY <1>0, <2>2 DEF Restart, TypeOK
    <3> QED
      BY <2>2, <3>1 DEF Processes
  <2> QED
    BY <2>1, <2>2
<1>3. \A id \in Egress : /\ proxies'[id] = NoCfg /\ todo'[id] = Nothing
                         /\ states'[id] = NoState /\ detached'[id] = NoState
  BY DEF Restart
<1>4. TypeOK'
  <2>1. /\ Idle \in Jobs /\ Nothing \in Plans /\ NoState \in States
    BY DEF Idle, Jobs, Places, Nothing, Plans, NoState, States
  <2>2. job' \in [Thread -> Jobs] /\ proc' \in [Pid -> Processes]
    BY <1>2, <2>1 DEF Restart
  <2>3. \A p \in Pid : proc'[p].st # "dead" => proc'[p].egress \in Egress /\ proc'[p].cfg \in Cfg
    BY <1>0, <1>2 DEF TypeOK
  <2>4. /\ proxies' \in [Egress -> Cfg \cup {NoCfg}] /\ todo' \in [Egress -> Plans]
        /\ states' \in [Egress -> States] /\ detached' \in [Egress -> States]
        /\ watching' = "on" /\ restarts' = restarts + 1 /\ UNCHANGED <<pidfile, ops>>
    BY <2>1 DEF Restart
  <2>5. spoiled' \subseteq Egress
    BY <1>0 DEF Restart, TypeOK
  <2> QED
    BY <1>0, <1>1, <2>2, <2>3, <2>4, <2>5 DEF TypeOK
<1>5. JobsOK'
  BY <1>1 DEF JobsOK, Owning
<1>6. PlansOK'
  BY <1>0, <1>1, <1>3 DEF PlansOK, Nothing
<1>7. StatesOK'
  BY <1>1, <1>3 DEF StatesOK, NoState
<1>8. PidsOK'
  <2>1. pidfile' = pidfile
    BY DEF Restart
  <2>2. \A t \in Thread : ~At(t, "write")'
    BY <1>1 DEF At
  <2>3. \A p \in Pid : proc'[p].st # "dead" => proc[p].st # "dead" /\ proc'[p].egress = proc[p].egress
    BY <1>2
  <2>4. \A id \in Egress : pidfile[id] # NoPid => pidfile[id] \in Pid
    BY <1>0 DEF TypeOK
  <2> QED
    BY <1>0, <2>1, <2>2, <2>3, <2>4 DEF PidsOK
<1>9. ASSUME NEW i \in Egress \ spoiled' PROVE OwnerOK(i)' /\ ProcsOK(i)'
  <2>1. \A p \in Pid : proc[p].egress = i => proc[p].st = "dead"
    BY <1>9 DEF Restart
  <2>2. Up(i)' = {}
    BY <1>0, <1>2, <2>1 DEF Up
  <2>3. ~IsRunning(i)'
    <3>1. pidfile' = pidfile
      BY DEF Restart
    <3>2. CASE pidfile[i] = NoPid
      BY <3>1, <3>2 DEF IsRunning
    <3>3. CASE pidfile[i] # NoPid
      <4>1. pidfile[i] \in Pid
        BY <1>0, <3>3 DEF TypeOK
      <4>2. proc[pidfile[i]].st = "dead"
        BY <1>0, <2>1, <3>3, <4>1 DEF PidsOK
      <4> QED
        BY <1>2, <3>1, <4>1, <4>2 DEF IsRunning, Present
    <3> QED
      BY <3>2, <3>3
  <2>4. \A t \in Thread : ~Owns(t, i)'
    BY <1>1 DEF Owns, Owning
  <2>5. OwnerOK(i)'
    BY <1>0, <1>1 DEF OwnerOK, Restarting
  <2> QED
    BY <2>2, <2>3, <2>4, <2>5 DEF ProcsOK, AtRest
<1> QED
  BY <1>4, <1>5, <1>6, <1>7, <1>8, <1>9 DEF IInv

\* Every step keeps the invariant.
LEMMA StepKeeps == IInv /\ [Next]_vars => IInv'
<1> SUFFICES ASSUME IInv, [Next]_vars PROVE IInv'
    OBVIOUS
<1>0. TypeOK /\ PlansOK /\ StatesOK
  BY DEF IInv
<1>1. CASE UpdateProxies \/ RestartAll \/ StopAll \/ RemoveProxy
  BY <1>0, <1>1, PlansMade, OperateKeeps
<1>2. CASE ManagerStep
  <2>1. Manager \in Thread
    OBVIOUS
  <2> QED
    BY <1>2, <2>1, BeginKeeps, ConfigureKeeps, StartedKeeps, KillKeeps, UnlinkKeeps,
       StartProbeKeeps, SpawnKeeps, WriteKeeps
    DEF ManagerStep, Shadowsocks
<1>3. ASSUME NEW id \in Egress, MonitorStep(id) PROVE IInv'
  <2>1. id \in Thread
    OBVIOUS
  <2> QED
    BY <1>3, <2>1, CheckKeeps, ProbeKeeps, ReconfigureKeeps, VerifyKeeps, KillKeeps, UnlinkKeeps,
       StartProbeKeeps, SpawnKeeps, WriteKeeps
    DEF MonitorStep, Shadowsocks
<1>4. ASSUME NEW id \in Egress, NEW e \in BOOLEAN, EnableProxy(id, e) PROVE IInv'
  BY <1>4, EnableKeeps
<1>5. CASE Tick \/ StopMonitor \/ Restart
  BY <1>5, TickKeeps, StopMonitorKeeps, RestartKeeps
<1>6. ASSUME NEW p \in Pid, Exit(p) PROVE IInv'
  BY <1>6, ExitKeeps
<1>7. CASE UNCHANGED vars
  <2>1. TypeOK' /\ PlansOK' /\ StatesOK'
    BY <1>0, <1>7 DEF TypeOK, PlansOK, StatesOK, Registered
  <2> QED
    BY <1>7, <2>1, SameKeeps
<1> QED
  BY <1>1, <1>2, <1>3, <1>4, <1>5, <1>6, <1>7 DEF Next

\* The inductive invariant: an egress that is not spoiled has at each moment one thread
\* at work on it, whose place says what runs, or none, and then what runs is registered.
THEOREM Invariant == Spec => []IInv
<1> QED
  BY InitHolds, StepKeeps, PTL DEF Spec

\* Every variable keeps its type, a thread is at work on the egress it is for, and a
\* process runs some egress' configuration.
THEOREM TypeCorrect == Spec => []TypeOK
<1>1. IInv => TypeOK
  BY DEF IInv
<1> QED
  BY <1>1, Invariant, PTL

\* Whatever updates, restarts, removals, checks and crashes there are: on an egress that is
\* not spoiled one process runs at most, the pid file names it or is about to, and outside
\* the manager's operations it runs the configuration that is registered.
THEOREM NoStrayProcesses == Spec => []NoStrays
<1>1. IInv => NoStrays
  <2> SUFFICES ASSUME IInv, NEW id \in Egress \ spoiled
               PROVE  /\ Cardinality(Up(id)) <= 1
                      /\ \A p \in Up(id) : pidfile[id] = p \/ \E t \in Thread : job[t].pid = p
                      /\ Quiet(id) => \A p \in Up(id) : proxies[id] = proc[p].cfg
    BY DEF NoStrays
  <2>0. /\ TypeOK /\ JobsOK /\ PlansOK /\ OwnerOK(id) /\ ProcsOK(id)
        /\ Manager \in Thread /\ Manager \notin Egress
    BY DEF IInv
  <2>1. CASE \A t \in Thread : ~Owns(t, id)
    <3>1. \A p \in Up(id) : p = pidfile[id] /\ proc[p].cfg = proxies[id]
      BY <2>0, <2>1 DEF ProcsOK, AtRest
    <3>2. \A p \in Up(id) : p = pidfile[id]
      BY <3>1
    <3> QED
      <4>1. Cardinality(Up(id)) <= 1
        BY <3>2, AtMostOne
      <4> QED
        BY <3>1, <4>1
  <2>2. ASSUME NEW t \in Thread, Owns(t, id)
        PROVE  /\ Cardinality(Up(id)) <= 1
               /\ \A p \in Up(id) : pidfile[id] = p \/ \E x \in Thread : job[x].pid = p
               /\ Quiet(id) => \A p \in Up(id) : proxies[id] = proc[p].cfg
    <3>1. InWork(t, id) /\ job[t].id = id /\ job[t].at \in Owning
      BY <2>0, <2>2 DEF ProcsOK, Owns
    <3>2. PICK q : \A p \in Up(id) : /\ p = q /\ (pidfile[id] = p \/ job[t].pid = p)
                                     /\ proc[p].cfg = proxies[id] \/ proc[p].cfg = job[t].cfg
      <4>1. CASE At(t, "kill")
        BY <3>1, <4>1 DEF InWork, AtRest
      <4>2. CASE At(t, "write")
        BY <3>1, <4>2 DEF InWork
      <4>3. CASE At(t, "done")
        BY <3>1, <4>3 DEF InWork
      <4>4. CASE job[t].at \in {"unlink", "configure", "start", "spawn", "failed"}
        BY <3>1, <4>4 DEF InWork, At
      <4> QED
        BY <3>1, <4>1, <4>2, <4>3, <4>4 DEF At, Owning, Places
    <3>3. Quiet(id) => job[t].cfg = proxies[id]
      <4>1. Quiet(id) => t # Manager
        BY <2>0, <3>1 DEF Quiet, PlansOK
      <4>2. t # Manager => t = id
        BY <2>0, <3>1 DEF TypeOK
      <4>3. Restarting(id) => job[id].cfg = proxies[id]
        BY <2>0 DEF OwnerOK
      <4> QED
        BY <3>1, <4>1, <4>2, <4>3 DEF Restarting, Owning
    <3>4. Cardinality(Up(id)) <= 1
      <4>1. \A p \in Up(id) : p = q
        BY <3>2
      <4> QED
        BY <4>1, AtMostOne
    <3> QED
      BY <2>2, <3>2, <3>3, <3>4
  <2> QED
    BY <2>1, <2>2
<1> QED
  BY <1>1, Invariant, PTL

\* Outside spoiled egresses, when a new configuration has been registered the pid file
\* names a process that was started with it.
THEOREM RegisteredIsStarted == Spec => UpdateTakesEffect
<1> DEFINE A == \A id \in Egress :
          /\ id \notin spoiled
          /\ todo[id].does = "set" /\ todo'[id] = Nothing
          /\ states'[id] \notin {states[id], NoState}
          => pidfile[id] # NoPid /\ proc[pidfile[id]].cfg = states'[id].cfg
<1>1. ASSUME IInv, [Next]_vars PROVE [A]_vars
  <2> SUFFICES ASSUME NEW id \in Egress, id \notin spoiled,
                      todo[id].does = "set", todo'[id] = Nothing,
                      states'[id] \notin {states[id], NoState}
               PROVE  pidfile[id] # NoPid /\ proc[pidfile[id]].cfg = states'[id].cfg
    BY <1>1
  <2>0. /\ TypeOK /\ JobsOK /\ PlansOK /\ Nothing.does = "nothing"
        /\ Manager \in Thread /\ todo'[id] # todo[id] /\ NoPid \notin Pid
    BY <1>1 DEF IInv, Nothing
  <2>1. ~(UpdateProxies \/ RestartAll \/ StopAll \/ RemoveProxy)
    <3>1. ~\E plan \in [Egress -> Plans] : Operate(plan)
      BY <2>0 DEF Operate, Unlocked
    <3> QED
      BY <2>0, <3>1, PlansMade
  <2>2. Started /\ job[Manager].id = id
    <3>1. ~Restart
      BY DEF Restart
    <3>2. UNCHANGED todo \/ ManagerStep
      BY <1>1, <2>1, <3>1
      DEF Next, MonitorStep, Shadowsocks, EnableProxy, Tick, StopMonitor, Exit, Check, Probe,
          Reconfigure, Verify, Kill, Unlink, StartProbe, Spawn, Write
    <3>3. UNCHANGED todo \/ Configure \/ Started
      BY <3>2 DEF ManagerStep, Shadowsocks, Begin, Kill, Unlink, StartProbe, Spawn, Write
    <3>4. Configure \/ Started
      BY <2>0, <3>3
    <3>5. Finish
      BY <2>0, <3>4 DEF Configure, Started
    <3>6. job[Manager].id = id
      BY <2>0, <3>5 DEF Finish, TypeOK
    <3>7. ~Configure
      BY <2>0, <3>6 DEF Configure
    <3> QED
      BY <3>4, <3>6, <3>7
  <2>3. At(Manager, "done") /\ Register(id, job[Manager].cfg)
    BY <2>2 DEF Started
  <2>4. Owns(Manager, id)
    BY <2>2, <2>3 DEF Owns, At, Owning, Places
  <2>5. InWork(Manager, id)
    BY <1>1, <2>0, <2>4, Alone
  <2>6. job[Manager].cfg \in Cfg
    BY <2>0, <2>4 DEF JobsOK, Owns
  <2>7. states'[id].cfg = job[Manager].cfg
    BY <2>0, <2>3, <2>6 DEF Register, TypeOK
  <2> QED
    BY <2>0, <2>3, <2>5, <2>7 DEF InWork
<1> QED
  BY <1>1, Invariant, PTL DEF Spec, UpdateTakesEffect

----------------------------------------------------------------------------
(* ProxyLifecycle implements ProxyService.                                 *)

\* What ProxyService sees.
HasStarted == job[Manager].at \in {"write", "done"}
Seen == <<proxies, todo, job[Manager].id, HasStarted, Running, spoiled, restarts>>

LEMMA Stutters == UNCHANGED Seen => UNCHANGED Service!vars
  BY DEF Seen, HasStarted, Service!vars

LEMMA RunningKept == UNCHANGED <<proc, spoiled>> => Running' = Running
  BY DEF Running, Up

\* A step that touches the processes of one egress changes what runs for that one.
LEMMA RunningChanges ==
    ASSUME NEW id \in Egress, UNCHANGED spoiled,
           \A i \in Egress \ (spoiled \cup {id}) :
              Up(i)' = Up(i) /\ \A p \in Up(i) : proc'[p].cfg = proc[p].cfg
    PROVE  Running' = [Running EXCEPT ![id] = Running'[id]]
<1>1. ASSUME NEW i \in Egress \ {id} PROVE Running'[i] = Running[i]
  <2>1. CASE i \in spoiled
    BY <2>1 DEF Running
  <2>2. CASE i \notin spoiled
    <3>1. Up(i)' = Up(i) /\ \A p \in Up(i) : proc'[p].cfg = proc[p].cfg
      BY <2>2
    <3>2. {proc'[p].cfg : p \in Up(i)'} = {proc[p].cfg : p \in Up(i)}
      BY <3>1
    <3> QED
      BY <2>2, <3>2 DEF Running
  <2> QED
    BY <2>1, <2>2
<1> QED
  BY <1>1 DEF Running

\* An egress that is spoiled is lost to ProxyService.
LEMMA SpoilLoses ==
    ASSUME NEW id \in Egress, UNCHANGED proc, spoiled' = spoiled \cup {id}
    PROVE  Service!Lose(id)
<1>1. Running' = [Running EXCEPT ![id] = {}]
  BY DEF Running, Up
<1> QED
  BY <1>1 DEF Service!Lose

\* Nothing runs where nothing is up, or where nothing is promised.
LEMMA NothingRuns ==
    ASSUME NEW id \in Egress, id \notin spoiled => Up(id) = {}
    PROVE  Running[id] = {}
  BY DEF Running

\* One process at most runs for an egress that is not spoiled.
LEMMA OneIsUp ==
    ASSUME IInv, NEW id \in Egress \ spoiled, NEW p \in Up(id), NEW q \in Up(id)
    PROVE  p = q
<1>1. TypeOK /\ OwnerOK(id) /\ ProcsOK(id)
  BY DEF IInv
<1>2. CASE \A t \in Thread : ~Owns(t, id)
  BY <1>1, <1>2 DEF ProcsOK, AtRest
<1>3. ASSUME NEW t \in Thread, Owns(t, id) PROVE p = q
  <2>1. InWork(t, id) /\ job[t].at \in Owning
    BY <1>3, Alone DEF Owns
  <2> QED
    BY <2>1 DEF InWork, AtRest, At, Owning, Places
<1> QED
  BY <1>2, <1>3

\* An operation's plan is one ProxyService allows.
LEMMA OperateSimulates ==
    ASSUME IInv, UpdateProxies \/ RestartAll \/ StopAll \/ RemoveProxy
    PROVE  Service!Operate
<1>1. PICK plan \in [Egress -> Plans] :
        /\ \A i \in Egress : plan[i].does \in {"restart", "halt", "remove"} => Registered(i)
        /\ Operate(plan)
  BY PlansMade DEF IInv
<1>2. /\ job[Manager] = Idle /\ job' = job /\ todo' = plan
      /\ \A i \in Egress : todo[i] = Nothing
      /\ UNCHANGED <<proxies, proc, spoiled, restarts>>
  BY <1>1 DEF Operate, Unlocked
<1>3. job[Manager].id = Manager
  BY <1>2 DEF Idle
<1>4. todo' \in [Egress -> Service!Plans] /\ \A i \in Egress : todo[i] = Service!Nothing
  BY <1>1, <1>2 DEF Plans, Nothing, Service!Plans, Service!Nothing
<1>5. Running' = Running
  BY <1>2, RunningKept
<1> QED
  BY <1>1, <1>2, <1>3, <1>4, <1>5 DEF Service!Operate, Registered

\* The manager turns to an egress, at worst while the monitor restarts it.
LEMMA BeginSimulates ==
    ASSUME IInv, NEW id \in Egress, Begin(id)
    PROVE  Service!Begin(id)
<1>0. TypeOK /\ job[Manager] = Idle /\ todo[id] # Nothing
  BY DEF IInv, Begin
<1>1. job[Manager].id = Manager /\ job[Manager].at = "idle"
  BY <1>0 DEF Idle
<1>2. job'[Manager].id = id /\ job'[Manager].at \in {"kill", "configure"}
  BY <1>0 DEF Begin, TypeOK
<1>3. UNCHANGED <<Running, spoiled>> \/ Service!Lose(id)
  <2>1. UNCHANGED <<proc, spoiled>> \/ (UNCHANGED proc /\ spoiled' = spoiled \cup {id})
    BY DEF Begin
  <2> QED
    BY <2>1, RunningKept, SpoilLoses
<1>4. UNCHANGED <<proxies, todo, restarts>>
  BY DEF Begin
<1>5. /\ todo[id] # Service!Nothing
      /\ todo[id].does = "remove" => \A i \in Egress : todo[i].does # "set"
  BY <1>0 DEF Begin, Nothing, Service!Nothing
<1> QED
  BY <1>1, <1>2, <1>3, <1>4, <1>5 DEF Service!Begin

\* The manager's job ends; with the configuration c in the table, when it is another.
LEMMA FinishRegisters ==
    ASSUME IInv, Finish, job[Manager].at # "idle", UNCHANGED <<proc, spoiled, restarts>>,
           NEW c, proxies' = [proxies EXCEPT ![job[Manager].id] = c]
    PROVE  Service!Registers(c)
<1>0. TypeOK /\ job[Manager].id \in Egress
  BY DEF IInv, TypeOK
<1>1. job'[Manager].id = Manager /\ job'[Manager].at = "idle"
  BY <1>0 DEF Finish, Idle, TypeOK
<1>2. Running' = Running
  BY RunningKept
<1>3. todo' = [todo EXCEPT ![job[Manager].id] = Service!Nothing]
  BY DEF Finish, Nothing, Service!Nothing
<1> QED
  BY <1>1, <1>2, <1>3 DEF Service!Registers

\* After Stop nothing runs: the operation goes on to Start, or is over.
LEMMA ConfigureSimulates ==
    ASSUME IInv, Configure
    PROVE  Service!Fail \/ Service!Cease \/ UNCHANGED Service!vars
<1> DEFINE id == job[Manager].id
<1>0. /\ TypeOK /\ PlansOK /\ At(Manager, "configure")
      /\ UNCHANGED <<proc, spoiled, restarts>>
      /\ id \in Egress /\ Manager \in Thread
  BY DEF IInv, Configure, At, TypeOK
<1>1. Running[id] = {}
  <2>1. Owns(Manager, id)
    BY <1>0 DEF Owns, Owning, Places, At
  <2>2. id \notin spoiled => Up(id) = {}
    BY <1>0, <2>1, Alone DEF InWork, At
  <2> QED
    BY <1>0, <2>2, NothingRuns
<1>2. job[Manager].at \notin {"idle", "write", "done"}
  BY <1>0 DEF At
<1>3. CASE Go(Manager, "start") /\ UNCHANGED <<proxies, todo>>
  <2>1. job'[Manager].id = id /\ job'[Manager].at = "start"
    BY <1>0, <1>3, GoIs DEF Places
  <2>2. UNCHANGED Seen
    BY <1>0, <1>2, <1>3, <2>1, RunningKept DEF Seen, HasStarted
  <2> QED
    BY <2>2, Stutters
<1>4. CASE Finish /\ UNCHANGED proxies /\ todo[id].does \in {"set", "halt"}
  <2>1. proxies' = [proxies EXCEPT ![id] = proxies[id]]
    BY <1>0, <1>4 DEF TypeOK
  <2>2. Service!Registers(proxies[id])
    BY <1>0, <1>2, <1>4, <2>1, FinishRegisters
  <2> QED
    BY <1>0, <1>1, <1>2, <1>4, <2>2 DEF Service!Fail, Service!Cease, Service!Does, Service!Still
<1>5. CASE Finish /\ Register(id, NoCfg) /\ todo[id].does = "remove"
  <2>1. Service!Registers(NoCfg)
    BY <1>0, <1>2, <1>5, FinishRegisters DEF Register
  <2> QED
    BY <1>0, <1>1, <1>2, <1>5, <2>1 DEF Service!Cease, Service!Does, Service!Still
<1> QED
  BY <1>3, <1>4, <1>5 DEF Configure

\* What has been started is registered; what could not be has left nothing running.
LEMMA StartedSimulates ==
    ASSUME IInv, Started
    PROVE  Service!Succeed \/ Service!Fail
<1> DEFINE id == job[Manager].id
<1>0. /\ TypeOK /\ PlansOK /\ job[Manager].at \in {"failed", "done"}
      /\ UNCHANGED <<proc, spoiled, restarts>>
      /\ id \in Egress /\ Manager \in Thread /\ Finish
  BY DEF IInv, Started, TypeOK
<1>1. todo[id].does \in {"set", "restart"} /\ todo[id] # Nothing
  <2>1. todo[id] # Nothing /\ todo[id].does \notin {"halt", "remove"}
    BY <1>0 DEF PlansOK
  <2>2. todo[id] \in Plans
    BY <1>0 DEF TypeOK
  <2> QED
    BY <2>1, <2>2 DEF Plans
<1>2. CASE At(Manager, "done")
  <2>1. proxies' = [proxies EXCEPT ![id] = Service!Target]
    <3>1. CASE todo[id].does = "set"
      <4>1. Register(id, job[Manager].cfg) /\ job[Manager].cfg = todo[id].cfg
        BY <1>0, <1>2, <3>1 DEF Started, PlansOK
      <4> QED
        BY <3>1, <4>1 DEF Register, Service!Target, Service!Does
    <3>2. CASE todo[id].does # "set"
      <4>1. UNCHANGED proxies
        BY <3>2 DEF Started
      <4> QED
        BY <1>0, <3>2, <4>1 DEF Service!Target, Service!Does, TypeOK
    <3> QED
      BY <3>1, <3>2
  <2>2. Service!Registers(Service!Target)
    BY <1>0, <2>1, FinishRegisters
  <2> QED
    BY <1>0, <1>2, <2>2 DEF Service!Succeed, At
<1>3. CASE At(Manager, "failed")
  <2>1. UNCHANGED proxies
    BY <1>3 DEF Started, At
  <2>2. Service!Registers(proxies[id])
    <3>1. proxies' = [proxies EXCEPT ![id] = proxies[id]]
      BY <1>0, <2>1 DEF TypeOK
    <3> QED
      BY <1>0, <3>1, FinishRegisters
  <2>3. Running[id] = {}
    <3>1. Owns(Manager, id)
      BY <1>0 DEF Owns, Owning, Places
    <3>2. id \notin spoiled => Up(id) = {}
      BY <1>0, <1>3, <3>1, Alone DEF InWork, At
    <3> QED
      BY <1>0, <3>2, NothingRuns
  <2> QED
    BY <1>0, <1>1, <1>3, <2>2, <2>3 DEF Service!Fail, Service!Does, Service!Still, At
<1> QED
  BY <1>0, <1>2, <1>3 DEF At

\* What a thread's step sees of its egress: who else has a start under way, and that a
\* step of the monitor's is none of the manager's.
LEMMA ThreadIs ==
    ASSUME IInv, NEW t \in Thread, job[t].at \in Owning
    PROVE  /\ job[t].id \in Egress /\ Owns(t, job[t].id) /\ job[t].cfg \in Cfg
           /\ t # Manager => job[t].id = t
           /\ job[t].id \notin spoiled /\ t # Manager
                 => /\ job[Manager].id # t /\ job[t].cfg = proxies[t] /\ proxies[t] # NoCfg
<1>0. TypeOK /\ JobsOK
  BY DEF IInv
<1>1. job[t].id \in Egress /\ Owns(t, job[t].id) /\ job[t].cfg \in Cfg
  BY <1>0 DEF TypeOK, JobsOK, Owns, Owning
<1>2. t # Manager => job[t].id = t
  BY <1>0, <1>1 DEF TypeOK
<1>3. ASSUME t # Manager, t \notin spoiled, job[t].id = t
      PROVE  job[Manager].id # t /\ job[t].cfg = proxies[t]
  <2>1. t \in Egress /\ OwnerOK(t)
    BY <1>1, <1>3 DEF IInv
  <2>2. Restarting(t)
    BY DEF Restarting, Owning
  <2> QED
    BY <2>1, <2>2 DEF OwnerOK
<1> QED
  BY <1>1, <1>2, <1>3

\* A step that takes a thread from one place to another, neither of them in or after
\* Start, is hidden from ProxyService but for what it does to processes.
LEMMA MoveHidden ==
    ASSUME IInv, NEW t \in Thread, job[t].at # "idle", UNCHANGED <<proxies, todo>>,
           NEW l \in Places, job'[t].at = l, job'[t].id = job[t].id,
           \A x \in Thread \ {t} : job'[x] = job[x],
           t = Manager => (l \in {"write", "done"} <=> job[t].at \in {"write", "done"})
    PROVE  UNCHANGED <<proxies, todo, job[Manager].id, HasStarted>>
<1>1. Manager \in Thread
  OBVIOUS
<1>2. CASE t = Manager
  BY <1>2 DEF HasStarted
<1>3. CASE t # Manager
  BY <1>1, <1>3 DEF HasStarted
<1> QED
  BY <1>2, <1>3

\* Stop ends the process, if there is one.
LEMMA KillSimulates ==
    ASSUME IInv, NEW t \in Thread, Kill(t)
    PROVE  Service!End(job[t].id) \/ UNCHANGED Service!vars
<1>0. /\ TypeOK /\ PidsOK /\ At(t, "kill") /\ job[t].at \in Owning
      /\ UNCHANGED <<proxies, todo, pidfile, spoiled, restarts>>
  BY DEF IInv, Kill, At, Owning, Places
<1>1. PICK id \in Egress : id = job[t].id /\ Owns(t, id)
  BY <1>0, ThreadIs
<1>2. \E l \in {"unlink", "configure"} : Go(t, l)
  BY DEF Kill
<1>3. UNCHANGED <<proxies, todo, job[Manager].id, HasStarted>>
  <2>1. PICK l \in {"unlink", "configure"} : Go(t, l)
    BY <1>2
  <2> QED
    BY <1>0, <2>1, GoIs, MoveHidden DEF At, Places
<1>4. CASE proc' = proc
  <2>1. UNCHANGED Seen
    BY <1>0, <1>3, <1>4, RunningKept DEF Seen
  <2> QED
    BY <2>1, Stutters
<1>5. CASE proc' # proc
  <2>1. PICK p \in Pid : /\ p = pidfile[id] /\ Present(p)
                         /\ proc' = [proc EXCEPT ![p].st = IF @ = "up" THEN "term" ELSE @]
    BY <1>0, <1>1, <1>5 DEF Kill, IsRunning, TypeOK
  <2>2. /\ proc[p].st = "up" /\ proc[p].egress = id
        /\ proc'[p].st = "term" /\ proc'[p].egress = id
        /\ \A x \in Pid \ {p} : proc'[x] = proc[x]
    <3>1. proc[p].st = "up"
      BY <1>0, <1>5, <2>1 DEF TypeOK, Processes
    <3>2. proc[p].egress = id
      BY <1>0, <1>1, <2>1, <3>1 DEF PidsOK
    <3> QED
      BY <1>0, <2>1, <3>1, <3>2 DEF TypeOK, Processes
  <2>3. \A i \in Egress \ {id} : Up(i)' = Up(i) /\ \A x \in Up(i) : proc'[x] = proc[x]
    BY <2>2 DEF Up
  <2>4. Running'[id] = {}
    <3>1. ASSUME id \notin spoiled PROVE Up(id)' = {}
      <4>1. \A x \in Up(id) : x = p
        BY <1>0, <1>1, <2>1, <3>1, Alone DEF InWork, AtRest, At
      <4>2. \A x \in Pid : proc'[x].st = "up" /\ proc'[x].egress = id => x \in Up(id) /\ x # p
        BY <2>2 DEF Up
      <4> QED
        BY <4>1, <4>2 DEF Up
    <3> QED
      BY <1>0, <1>1, <3>1 DEF Running
  <2>5. Running' = [Running EXCEPT ![id] = {}]
    BY <1>0, <1>1, <2>3, <2>4, RunningChanges
  <2> QED
    BY <1>0, <1>1, <1>3, <2>5 DEF Service!End, HasStarted
<1> QED
  BY <1>4, <1>5

LEMMA UnlinkSimulates ==
    ASSUME IInv, NEW t \in Thread, Unlink(t)
    PROVE  UNCHANGED Service!vars
<1>0. /\ TypeOK /\ At(t, "unlink") /\ Go(t, "configure") /\ "configure" \in Places
      /\ UNCHANGED <<proxies, todo, proc, spoiled, restarts>>
  BY DEF IInv, Unlink, Places
<1>1. UNCHANGED <<proxies, todo, job[Manager].id, HasStarted>>
  BY <1>0, GoIs, MoveHidden DEF At
<1>2. UNCHANGED Seen
  BY <1>0, <1>1, RunningKept DEF Seen
<1> QED
  BY <1>2, Stutters

\* Before its Start, an operation has started nothing and has to do so.
LEMMA ToStart ==
    ASSUME IInv, job[Manager].at \in {"start", "spawn"}
    PROVE  /\ job[Manager].id \in Egress /\ ~HasStarted
           /\ Service!Does \in {"set", "restart"} /\ job[Manager].cfg = Service!Target
<1> DEFINE id == job[Manager].id
<1>0. TypeOK /\ PlansOK /\ Manager \in Thread
  BY DEF IInv
<1>1. id \in Egress
  BY <1>0 DEF TypeOK
<1>2. todo[id] # Nothing /\ todo[id].does \notin {"halt", "remove"} /\ todo[id] \in Plans
  BY <1>0, <1>1 DEF PlansOK, TypeOK
<1>3. todo[id].does \in {"set", "restart"}
  BY <1>2 DEF Plans
<1> QED
  BY <1>0, <1>1, <1>3 DEF HasStarted, PlansOK, Service!Does, Service!Target

\* Start finds a process that runs only where nothing is promised.
LEMMA StartProbeSimulates ==
    ASSUME IInv, NEW t \in Thread, StartProbe(t)
    PROVE  Service!Start \/ UNCHANGED Service!vars
<1>0. /\ TypeOK /\ At(t, "start") /\ job[t].at \in Owning
      /\ UNCHANGED <<proxies, todo, proc, spoiled, restarts>>
      /\ Manager \in Thread
  BY DEF IInv, StartProbe, At, Owning, Places
<1>1. PICK id \in Egress : id = job[t].id /\ Owns(t, id)
  BY <1>0, ThreadIs
<1>2. Running' = Running
  BY <1>0, RunningKept
<1>3. CASE ~IsRunning(id) \/ t # Manager
  <2>1. PICK l \in {"done", "spawn"} : Go(t, l) /\ (t = Manager => l = "spawn")
    BY <1>1, <1>3 DEF StartProbe
  <2>2. UNCHANGED <<proxies, todo, job[Manager].id, HasStarted>>
    BY <1>0, <2>1, GoIs, MoveHidden DEF At, Places
  <2>3. UNCHANGED Seen
    BY <1>0, <1>2, <2>2 DEF Seen
  <2> QED
    BY <2>3, Stutters
<1>4. CASE IsRunning(id) /\ t = Manager
  <2>1. id \in spoiled
    BY <1>0, <1>1, <1>4, Alone DEF InWork, At
  <2>2. Running[id] = {}
    BY <1>1, <2>1, NothingRuns
  <2>3. job'[Manager].id = id /\ job'[Manager].at = "done"
    <3>1. Go(t, "done")
      BY <1>1, <1>4 DEF StartProbe
    <3> QED
      BY <1>0, <1>1, <1>4, <3>1, GoIs DEF Places
  <2>4. id \in Egress /\ ~HasStarted /\ Service!Does \in {"set", "restart"}
    BY <1>0, <1>4, ToStart DEF At
  <2> QED
    BY <1>0, <1>1, <1>2, <1>4, <2>1, <2>2, <2>3, <2>4 DEF Service!Start, Service!Still, HasStarted
<1> QED
  BY <1>3, <1>4

\* A process is started where none runs, with the configuration that belongs there.
LEMMA SpawnSimulates ==
    ASSUME IInv, NEW t \in Thread, Spawn(t)
    PROVE  Service!Start \/ (\E id \in Egress : Service!Revive(id)) \/ UNCHANGED Service!vars
<1>0. /\ TypeOK /\ At(t, "spawn") /\ job[t].at \in Owning /\ Manager \in Thread
      /\ UNCHANGED <<proxies, todo, spoiled, restarts>>
  BY DEF IInv, Spawn, At, Owning, Places
<1>1. PICK id \in Egress : id = job[t].id /\ Owns(t, id) /\ job[t].cfg \in Cfg
  BY <1>0, ThreadIs
<1>2. CASE Go(t, "failed") /\ proc' = proc
  <2>1. UNCHANGED <<proxies, todo, job[Manager].id, HasStarted>>
    BY <1>0, <1>2, GoIs, MoveHidden DEF At, Places
  <2>2. UNCHANGED Seen
    BY <1>0, <1>2, <2>1, RunningKept DEF Seen
  <2> QED
    BY <2>2, Stutters
<1>3. ASSUME NEW p \in Pid, Free(p),
             proc' = [proc EXCEPT ![p] =
                 [egress |-> job[t].id, cfg |-> job[t].cfg, st |-> "up", child |-> TRUE]],
             job' = [job EXCEPT ![t].at = "write", ![t].pid = p]
      PROVE  Service!Start \/ Service!Revive(id) \/ UNCHANGED Service!vars
  <2>1. /\ proc'[p].egress = id /\ proc'[p].cfg = job[t].cfg /\ proc'[p].st = "up"
        /\ \A x \in Pid \ {p} : proc'[x] = proc[x]
        /\ proc[p].st = "dead"
    BY <1>0, <1>1, <1>3 DEF Free, TypeOK
  <2>2. /\ job'[t].at = "write" /\ job'[t].id = id
        /\ \A x \in Thread \ {t} : job'[x] = job[x]
    BY <1>0, <1>1, <1>3 DEF TypeOK, Jobs
  <2>3. \A i \in Egress \ {id} : Up(i)' = Up(i) /\ \A x \in Up(i) : proc'[x] = proc[x]
    BY <2>1 DEF Up
  <2>4. id \notin spoiled => Up(id) = {}
    BY <1>0, <1>1, Alone DEF InWork, At
  <2>5. Running[id] = {}
    BY <2>4, NothingRuns
  <2>6. Running' = IF id \in spoiled THEN Running ELSE [Running EXCEPT ![id] = {job[t].cfg}]
    <3>1. Running' = [Running EXCEPT ![id] = Running'[id]]
      BY <1>0, <2>3, RunningChanges
    <3>2. CASE id \in spoiled
      <4>1. Running'[id] = {} /\ Running \in [Egress -> SUBSET {proc[x].cfg : x \in Pid}]
        BY <1>0, <3>2 DEF Running, Up
      <4> QED
        BY <2>5, <3>1, <3>2, <4>1
    <3>3. CASE id \notin spoiled
      <4>1. Up(id)' = {p}
        BY <2>1, <2>4, <3>3 DEF Up
      <4>2. Running'[id] = {job[t].cfg}
        BY <1>0, <2>1, <3>3, <4>1 DEF Running
      <4> QED
        BY <3>1, <3>3, <4>2
    <3> QED
      BY <3>2, <3>3
  <2>7. CASE t = Manager
    <3>1. /\ job[Manager].id = id /\ ~HasStarted /\ Service!Does \in {"set", "restart"}
          /\ job[Manager].cfg = Service!Target
      BY <1>0, <1>1, <2>7, ToStart DEF At
    <3>2. job'[Manager].id = id /\ job'[Manager].at = "write"
      BY <2>2, <2>7
    <3> QED
      BY <1>0, <2>5, <2>6, <2>7, <3>1, <3>2 DEF Service!Start, Service!Still, HasStarted
  <2>8. CASE t # Manager
    <3>1. job'[Manager] = job[Manager]
      BY <1>0, <2>2, <2>8
    <3>2. CASE id \in spoiled
      <4>1. UNCHANGED Seen
        BY <1>0, <2>6, <3>1, <3>2 DEF Seen, HasStarted
      <4> QED
        BY <4>1, Stutters
    <3>3. CASE id \notin spoiled
      <4>1. job[Manager].id # id /\ job[t].cfg = proxies[id] /\ proxies[id] # NoCfg
        BY <1>0, <1>1, <2>8, <3>3, ThreadIs
      <4> QED
        BY <1>0, <2>5, <2>6, <3>1, <3>3, <4>1 DEF Service!Revive
    <3> QED
      BY <3>2, <3>3
  <2> QED
    BY <2>7, <2>8
<1> QED
  BY <1>2, <1>3 DEF Spawn

\* The egress is lost when the pid file cannot be written.
LEMMA WriteSimulates ==
    ASSUME IInv, NEW t \in Thread, Write(t)
    PROVE  (\E id \in Egress : Service!Forsake(id)) \/ UNCHANGED Service!vars
<1>0. /\ TypeOK /\ At(t, "write") /\ job[t].at \in Owning /\ Manager \in Thread
      /\ UNCHANGED <<proxies, todo, proc, restarts>>
  BY DEF IInv, Write, At, Owning, Places
<1>1. /\ job'[t].at = "done" /\ job'[t].id = job[t].id
      /\ \A x \in Thread \ {t} : job'[x] = job[x]
  BY <1>0 DEF Write, TypeOK, Jobs
<1>2. UNCHANGED <<proxies, todo, job[Manager].id, HasStarted>>
  BY <1>0, <1>1, MoveHidden DEF At, Places
<1>3. CASE UNCHANGED spoiled
  <2>1. UNCHANGED Seen
    BY <1>0, <1>2, <1>3, RunningKept DEF Seen
  <2> QED
    BY <2>1, Stutters
<1>4. CASE spoiled' = spoiled \cup {job[t].id}
  <2>1. PICK id \in Egress : id = job[t].id
    BY <1>0, ThreadIs
  <2>2. Service!Lose(id)
    BY <1>0, <1>4, <2>1, SpoilLoses
  <2> QED
    BY <1>0, <1>2, <2>2 DEF Service!Forsake, HasStarted
<1> QED
  BY <1>3, <1>4 DEF Write

\* A step of a check shows only when it decides on a restart it should not.
LEMMA CheckSimulates ==
    ASSUME IInv, NEW id \in Egress, Check(id) \/ Probe(id) \/ Reconfigure(id) \/ Verify(id)
    PROVE  Service!Forsake(id) \/ UNCHANGED Service!vars
<1>0. TypeOK /\ id \in Thread /\ Manager \in Thread /\ id # Manager
  BY DEF IInv
<1>1. UNCHANGED <<proxies, todo, proc, restarts>>
  BY DEF Check, Probe, Reconfigure, Verify
<1>2. \E f : job' = [job EXCEPT ![id] = f]
  <2>1. CASE Go(id, "probe") \/ Go(id, "start") \/ Go(id, "failed") \/ EndCheck(id)
    BY <2>1 DEF Go, EndCheck
  <2>2. CASE job' = [job EXCEPT ![id].at = "kill", ![id].cfg = State(id).cfg]
    <3>1. job' = [job EXCEPT ![id] = [[job[id] EXCEPT !.at = "kill"] EXCEPT !.cfg = State(id).cfg]]
      BY <1>0, <2>2 DEF TypeOK
    <3> QED
      BY <3>1
  <2> QED
    BY <2>1, <2>2 DEF Check, Probe, Conclude, Reconfigure, Verify
<1>3. job'[Manager] = job[Manager]
  BY <1>0, <1>2 DEF TypeOK
<1>4. UNCHANGED spoiled \/ spoiled' = spoiled \cup {id}
  BY DEF Check, Probe, Reconfigure, Verify
<1>5. CASE UNCHANGED spoiled
  <2>1. UNCHANGED Seen
    BY <1>1, <1>3, <1>5, RunningKept DEF Seen, HasStarted
  <2> QED
    BY <2>1, Stutters
<1>6. CASE spoiled' = spoiled \cup {id}
  <2>1. Service!Lose(id)
    BY <1>1, <1>6, SpoilLoses
  <2> QED
    BY <1>1, <1>3, <2>1 DEF Service!Forsake
<1> QED
  BY <1>4, <1>5, <1>6

\* A process that ends was the only one of its egress, or was told to before.
LEMMA ExitSimulates ==
    ASSUME IInv, NEW p \in Pid, Exit(p)
    PROVE  (\E id \in Egress : Service!End(id)) \/ UNCHANGED Service!vars
<1>0. /\ TypeOK /\ UNCHANGED <<proxies, todo, job, spoiled, restarts>> /\ proc[p].st # "dead"
  BY DEF IInv, Exit
<1>1. /\ proc'[p].st = "dead"
      /\ \A x \in Pid \ {p} : proc'[x] = proc[x]
  <2>1. CASE proc[p].child
    BY <1>0, <2>1 DEF Exit, TypeOK, Processes
  <2>2. CASE ~proc[p].child
    BY <1>0, <2>2 DEF Exit, TypeOK, Gone
  <2> QED
    BY <2>1, <2>2
<1>2. PICK id \in Egress : id = proc[p].egress
  BY <1>0 DEF TypeOK
<1>3. \A i \in Egress \ {id} : Up(i)' = Up(i) /\ \A x \in Up(i) : proc'[x] = proc[x]
  BY <1>1, <1>2 DEF Up
<1>4. Running' = [Running EXCEPT ![id] = Running'[id]]
  BY <1>0, <1>3, RunningChanges
<1>5. CASE p \in Up(id) /\ id \notin spoiled
  <2>1. \A x \in Up(id) : x = p
    BY <1>5, OneIsUp
  <2>2. \A x \in Pid : proc'[x].st = "up" /\ proc'[x].egress = id => x \in Up(id) /\ x # p
    BY <1>1 DEF Up
  <2>3. Up(id)' = {}
    BY <2>1, <2>2 DEF Up
  <2>4. Running'[id] = {}
    BY <1>0, <2>3 DEF Running
  <2>5. Running' = [Running EXCEPT ![id] = {}]
    BY <1>4, <2>4
  <2> QED
    BY <1>0, <2>5 DEF Service!End
<1>6. CASE p \notin Up(id) \/ id \in spoiled
  <2>1. Running' = Running
    <3>1. id \notin spoiled => Up(id)' = Up(id) /\ \A x \in Up(id) : proc'[x] = proc[x]
      BY <1>1, <1>2, <1>6 DEF Up
    <3>2. \A i \in Egress \ spoiled : Up(i)' = Up(i) /\ \A x \in Up(i) : proc'[x] = proc[x]
      BY <1>3, <3>1
    <3>3. \A i \in Egress \ spoiled : {proc'[x].cfg : x \in Up(i)'} = {proc[x].cfg : x \in Up(i)}
      BY <3>2
    <3> QED
      BY <1>0, <3>3 DEF Running
  <2>2. UNCHANGED Seen
    BY <1>0, <2>1 DEF Seen, HasStarted
  <2> QED
    BY <2>2, Stutters
<1> QED
  BY <1>5, <1>6

\* A new agent knows nothing, and what still runs is lost to it.
LEMMA RestartSimulates == IInv /\ Restart => Service!Renew
<1> SUFFICES ASSUME IInv, Restart PROVE Service!Renew
    OBVIOUS
<1>0. TypeOK
  BY DEF IInv
<1>1. job'[Manager].id = Manager /\ job'[Manager].at = "idle"
  BY DEF Restart, Idle
<1>2. \A id \in Egress : id \notin spoiled' => Up(id)' = {}
  <2> SUFFICES ASSUME NEW id \in Egress, id \notin spoiled', NEW p \in Pid,
                      proc'[p].egress = id, proc'[p].st = "up"
               PROVE  FALSE
    BY DEF Up
  <2>1. CASE proc[p].st = "dead"
    BY <2>1 DEF Restart, Gone
  <2>2. CASE proc[p].st # "dead"
    <3>1. proc'[p] = [proc[p] EXCEPT !.child = FALSE] /\ proc[p] \in Processes
      BY <1>0, <2>2 DEF Restart, TypeOK
    <3>2. proc[p].egress = id
      BY <3>1 DEF Processes
    <3> QED
      BY <2>2, <3>2 DEF Restart
  <2> QED
    BY <2>1, <2>2
<1>3. Running' = [id \in Egress |-> {}]
  <2>1. \A id \in Egress : id \notin spoiled' => {proc'[p].cfg : p \in Up(id)'} = {}
    BY <1>2
  <2> QED
    BY <2>1 DEF Running
<1>4. /\ spoiled' \subseteq Egress /\ spoiled \subseteq spoiled'
      /\ \A id \in Egress : Running[id] # {} => id \in spoiled'
  <2>1. \A id \in Egress : Running[id] # {} => \E p \in Pid : proc[p].egress = id /\ proc[p].st # "dead"
    BY DEF Running, Up
  <2> QED
    BY <1>0, <2>1 DEF Restart, TypeOK
<1>5. /\ proxies' = [id \in Egress |-> NoCfg]
      /\ todo' = [id \in Egress |-> Service!Nothing] /\ restarts' = restarts + 1
  BY DEF Restart, Nothing, Service!Nothing
<1> QED
  BY <1>1, <1>3, <1>4, <1>5 DEF Service!Renew

LEMMA InitImplies == Init => Service!Init
<1> SUFFICES ASSUME Init PROVE Service!Init
    OBVIOUS
<1>1. job[Manager].id = Manager /\ job[Manager].at = "idle"
  BY DEF Init, Idle
<1>2. Running = [id \in Egress |-> {}]
  BY DEF Init, Gone, Running, Up
<1> QED
  BY <1>1, <1>2 DEF Init, Service!Init, Nothing, Service!Nothing

\* Every step is one of ProxyService's, or hidden from it.
LEMMA StepSimulates == IInv /\ [Next]_vars => [Service!Next]_Service!vars
<1> SUFFICES ASSUME IInv, [Next]_vars PROVE [Service!Next]_Service!vars
    OBVIOUS
<1>0. TypeOK /\ Manager \in Thread /\ Manager \notin Egress
  BY DEF IInv
<1>a. ASSUME UNCHANGED <<proxies, todo, proc, spoiled, restarts>>, job'[Manager] = job[Manager]
      PROVE  UNCHANGED Service!vars
  <2>1. UNCHANGED Seen
    BY <1>a, RunningKept DEF Seen, HasStarted
  <2> QED
    BY <2>1, Stutters
<1>1. CASE UpdateProxies \/ RestartAll \/ StopAll \/ RemoveProxy
  BY <1>1, OperateSimulates DEF Service!Next
<1>2. ASSUME NEW t \in Thread, Shadowsocks(t) PROVE [Service!Next]_Service!vars
  <2>1. CASE Kill(t)
    <3>1. job[t].id \in Egress
      BY <1>0, <2>1 DEF Kill, At, TypeOK
    <3> QED
      BY <2>1, <3>1, KillSimulates DEF Service!Next
  <2>2. CASE Unlink(t) \/ StartProbe(t)
    BY <2>2, UnlinkSimulates, StartProbeSimulates DEF Service!Next
  <2>3. CASE Spawn(t) \/ Write(t)
    BY <2>3, SpawnSimulates, WriteSimulates DEF Service!Next
  <2> QED
    BY <1>2, <2>1, <2>2, <2>3 DEF Shadowsocks
<1>3. CASE ManagerStep
  <2>1. CASE \E id \in Egress : Begin(id)
    BY <2>1, BeginSimulates DEF Service!Next
  <2>2. CASE Configure \/ Started
    BY <2>2, ConfigureSimulates, StartedSimulates DEF Service!Next
  <2> QED
    BY <1>0, <1>2, <1>3, <2>1, <2>2 DEF ManagerStep
<1>4. ASSUME NEW id \in Egress, MonitorStep(id) PROVE [Service!Next]_Service!vars
  <2>1. CASE Check(id) \/ Probe(id) \/ Reconfigure(id) \/ Verify(id)
    BY <2>1, CheckSimulates DEF Service!Next
  <2>2. CASE Shadowsocks(id)
    BY <1>2, <2>2
  <2> QED
    BY <1>4, <2>1, <2>2 DEF MonitorStep
<1>5. ASSUME NEW id \in Egress, NEW e \in BOOLEAN, EnableProxy(id, e)
      PROVE  [Service!Next]_Service!vars
  BY <1>a, <1>5 DEF EnableProxy
<1>6. CASE Tick \/ StopMonitor
  <2>1. job'[Manager] = job[Manager]
    BY <1>0, <1>6 DEF Tick, StopMonitor
  <2> QED
    BY <1>a, <1>6, <2>1 DEF Tick, StopMonitor
<1>7. CASE Restart
  BY <1>7, RestartSimulates DEF Service!Next
<1>8. ASSUME NEW p \in Pid, Exit(p) PROVE [Service!Next]_Service!vars
  BY <1>8, ExitSimulates DEF Service!Next
<1>9. CASE UNCHANGED vars
  BY <1>a, <1>9
<1> QED
  BY <1>1, <1>3, <1>4, <1>5, <1>6, <1>7, <1>8, <1>9 DEF Next

\* Threads, pid files, processes and checks implement ProxyService: on an egress that is not
\* spoiled a process is only ever started where none runs, by the operation in hand with
\* its configuration or by the monitor with the registered one, and operations end as
\* they should.
THEOREM Implements == Spec => ImplementsProxies
<1>1. Init => Service!Init
  BY InitImplies
<1>2. IInv /\ [Next]_vars => [Service!Next]_Service!vars
  BY StepSimulates
<1> QED
  BY <1>1, <1>2, Invariant, PTL DEF Spec, ImplementsProxies, Service!Spec

=============================================================================
