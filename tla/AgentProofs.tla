----------------------------- MODULE AgentProofs -----------------------------
(***************************************************************************)
(* The message pipeline of Agent for any buffer, any number of messages,   *)
(* egresses and task goroutines.                                           *)
(***************************************************************************)
EXTENDS Agent, TLAPS

USE AgentAssumption DEF vars, stream, proxies, Msg, NoMsg, Kinds, ProcessorPcs, WorkerPcs,
                        Verdicts, Ended

\* What Put and Take do to the buffer.
LEMMA AppendIs ==
    ASSUME NEW S, NEW s \in Seq(S), NEW x \in S
    PROVE  /\ Append(s, x) \in Seq(S) /\ Len(Append(s, x)) = Len(s) + 1 /\ Len(s) \in Nat
           /\ \A i \in 1..Len(s) : Append(s, x)[i] = s[i]
           /\ Append(s, x)[Len(s) + 1] = x
  OBVIOUS

LEMMA TailIs ==
    ASSUME NEW S, NEW s \in Seq(S), s # <<>>
    PROVE  /\ Head(s) \in S /\ Head(s) = s[1] /\ Len(s) \in Nat \ {0}
           /\ Tail(s) \in Seq(S) /\ Len(Tail(s)) = Len(s) - 1
           /\ \A i \in 1..(Len(s) - 1) : Tail(s)[i] = s[i + 1]
  OBVIOUS

LEMMA InitTypes == Init => TypeOK
<1> SUFFICES ASSUME Init PROVE TypeOK
    OBVIOUS
<1>1. buffer \in Seq(Msg) /\ Len(buffer) = 0 /\ Len(buffer) <= Capacity
  BY DEF Init
<1>2. /\ arrived \in 0..MaxMessages /\ reader = "top" /\ processor = "select" /\ main = "run"
      /\ hand = NoMsg /\ mu = "nobody" /\ todo = {} /\ failed = FALSE /\ rules = NoMsg
      /\ \A w \in Worker : worker[w].at = "free"
      /\ worker \in [Worker -> [at : WorkerPcs, msg : Msg \cup {NoMsg}]]
  BY DEF Init
<1>3. /\ kind \in [Msg -> Kinds \cup {"unread"}] /\ items \in [Msg -> SUBSET Egress]
      /\ fate \in [Msg -> {"open", "dropped", "brief"} \cup Verdicts]
      /\ cfg \in [Egress -> Msg \cup {NoMsg}]
      /\ proc \in [Egress -> {"none", "up", "stopped", "failed"}]
  BY DEF Init
<1> QED
  BY <1>1, <1>2, <1>3 DEF TypeOK

\* Types, step by step.
LEMMA TypeNext == TypeOK /\ [Next]_vars => TypeOK'
<1> SUFFICES ASSUME TypeOK, [Next]_vars PROVE TypeOK'
    OBVIOUS
<1>1. CASE ReaderTop
  BY <1>1 DEF ReaderTop, TypeOK
<1>2. CASE ReadFails
  BY <1>2 DEF ReadFails, TypeOK
<1>3. ASSUME NEW k \in Kinds, NEW es \in Configs \cup {{}}, ReadMessage(k, es) PROVE TypeOK'
  BY <1>3 DEF ReadMessage, TypeOK
<1>4. CASE Put
  <2>1. arrived \in Msg
    BY <1>4 DEF Put, TypeOK
  <2>2. buffer' \in Seq(Msg) /\ Len(buffer') <= Capacity
    BY <1>4, <2>1, AppendIs DEF Put, HasRoom, TypeOK
  <2> QED
    BY <1>4, <2>2 DEF Put, TypeOK
<1>5. CASE PutStops
  BY <1>5 DEF PutStops, Settle, TypeOK
<1>6. CASE Drop
  BY <1>6 DEF Drop, Settle, TypeOK
<1>7. CASE Take
  <2>1. /\ buffer' \in Seq(Msg) /\ Len(buffer') <= Capacity
        /\ hand' \in Msg /\ hand' # NoMsg
    BY <1>7, TailIs DEF Take, TypeOK
  <2>2. processor' \in {"lock", "rules", "check", "brief"}
    BY <1>7 DEF Take, HandlerOf
  <2> QED
    BY <1>7, <2>1, <2>2 DEF Take, TypeOK
<1>8. CASE ProcessorStops
  BY <1>8 DEF ProcessorStops, TypeOK
<1>9. CASE HandlerEnds
  BY <1>9 DEF HandlerEnds, Settle, ProcessorRests, TypeOK
<1>10. CASE LockForUpdate
  BY <1>10 DEF LockForUpdate, Acquire, ProcessorGoes, TypeOK
<1>11. CASE UpdateEnds
  BY <1>11 DEF UpdateEnds, Release, ProcessorGoes, TypeOK
<1>12. CASE GetStatus
  BY <1>12 DEF GetStatus, ProcessorGoes, TypeOK
<1>13. ASSUME NEW e \in Egress, StopExisting(e) PROVE TypeOK'
  BY <1>13 DEF StopExisting, Updating, TypeOK
<1>14. ASSUME NEW e \in Egress, Configure(e) PROVE TypeOK'
  BY <1>14 DEF Configure, Updating, TypeOK
<1>15. ASSUME NEW e \in Egress, ConfigureFails(e) PROVE TypeOK'
  BY <1>15 DEF ConfigureFails, Updating, TypeOK
<1>16. ASSUME NEW e \in Egress, ConfigurePanics(e) PROVE TypeOK'
  BY <1>16 DEF ConfigurePanics, TypeOK
<1>17. ASSUME NEW e \in Egress, Remove(e) PROVE TypeOK'
  BY <1>17 DEF Remove, Updating, TypeOK
<1>18. CASE UpdateRules
  BY <1>18 DEF UpdateRules, ProcessorGoes, TypeOK
<1>19. CASE TaskKnown
  BY <1>19 DEF TaskKnown, ProcessorGoes, TypeOK
<1>20. ASSUME NEW w \in Worker, Spawn(w) PROVE TypeOK'
  BY <1>20 DEF Spawn, ProcessorRests, TypeOK
<1>21. ASSUME NEW w \in Worker, RunTask(w) PROVE TypeOK'
  BY <1>21 DEF RunTask, WorkerGoes, TypeOK
<1>22. ASSUME NEW w \in Worker, LockForRestart(w) PROVE TypeOK'
  <2>1. todo' \in SUBSET Egress
    BY <1>22 DEF LockForRestart, Acquire, Registered
  <2> QED
    BY <1>22, <2>1 DEF LockForRestart, Acquire, WorkerGoes, TypeOK
<1>23. ASSUME NEW w \in Worker, RestartEnds(w) PROVE TypeOK'
  <2>1. PICK v \in Verdicts : WorkerGoes(w, v)
    BY <1>23 DEF RestartEnds
  <2>2. worker' = [worker EXCEPT ![w].at = v]
    BY <2>1 DEF WorkerGoes
  <2>3. worker' \in [Worker -> [at : WorkerPcs, msg : Msg \cup {NoMsg}]]
        /\ \A x \in Worker : worker'[x].at # "free" => worker'[x].msg \in Msg
    <3>1. worker[w].at = "restart"
      BY <1>23 DEF RestartEnds
    <3> QED
      BY <2>2, <3>1 DEF TypeOK
  <2>4. /\ UNCHANGED <<main, reader, processor, buffer, arrived, kind, items, fate, hand>>
        /\ UNCHANGED <<todo, cfg, proc, rules>>
        /\ mu' = "nobody" /\ failed' = FALSE
    BY <1>23 DEF RestartEnds, Release
  <2> QED
    BY <2>3, <2>4 DEF TypeOK
<1>24. ASSUME NEW w \in Worker, TaskEnds(w) PROVE TypeOK'
  BY <1>24 DEF TaskEnds, Settle, TypeOK
<1>25. ASSUME NEW w \in Worker, NEW e \in Egress, RestartStops(w, e) PROVE TypeOK'
  BY <1>25 DEF RestartStops, Restarting, TypeOK
<1>26. ASSUME NEW w \in Worker, NEW e \in Egress, RestartStarts(w, e) PROVE TypeOK'
  <2>1. CASE proc' = [proc EXCEPT ![e] = "up"] /\ UNCHANGED failed
    BY <1>26, <2>1 DEF RestartStarts, Restarting, TypeOK
  <2>2. CASE proc' = [proc EXCEPT ![e] = "failed"] /\ failed' = TRUE
    BY <1>26, <2>2 DEF RestartStarts, Restarting, TypeOK
  <2> QED
    BY <1>26, <2>1, <2>2 DEF RestartStarts
<1>27. CASE Signal
  BY <1>27 DEF Signal, MainGoes, TypeOK
<1>28. CASE StopWait
  BY <1>28 DEF StopWait, MainGoes, TypeOK
<1>29. CASE StopExit
  BY <1>29 DEF StopExit, MainGoes, TypeOK
<1>30. CASE UNCHANGED vars
  BY <1>30 DEF TypeOK
<1>31. CASE WriterPanics
  BY <1>31 DEF WriterPanics, TypeOK
<1> QED
  BY <1>1, <1>2, <1>3, <1>4, <1>5, <1>6, <1>7, <1>8, <1>9, <1>10, <1>11, <1>12, <1>13,
     <1>14, <1>15, <1>16, <1>17, <1>18, <1>19, <1>20, <1>21, <1>22, <1>23, <1>24, <1>25,
     <1>26, <1>27, <1>28, <1>29, <1>30, <1>31
  DEF Next, ReaderStep, ProcessorStep, WorkerStep, StopStep

\* Who holds the mutex, and what that leaves in the middle of things.
LockInv ==
    /\ mu = "processor" <=> processor = "update"
    /\ \A w \in Worker : mu = w <=> worker[w].at = "restart"
    /\ mu = "nobody" => ~failed
    /\ \A e \in Egress : proc[e] = "stopped" => mu # "nobody" /\ e \in todo
    /\ bufferClosed => reader = "done" /\ processor = "done"

LEMMA InitLocks == Init => LockInv
  BY DEF Init, LockInv, bufferClosed

\* The mutex, step by step.
LEMMA LockNext == TypeOK /\ LockInv /\ [Next]_vars => LockInv'
<1> SUFFICES ASSUME TypeOK, LockInv, [Next]_vars PROVE LockInv'
    OBVIOUS
<1>1. CASE ReaderTop
  BY <1>1 DEF ReaderTop, TypeOK, LockInv, bufferClosed
<1>2. CASE ReadFails
  BY <1>2 DEF ReadFails, TypeOK, LockInv, bufferClosed
<1>3. ASSUME NEW k \in Kinds, NEW es \in Configs \cup {{}}, ReadMessage(k, es) PROVE LockInv'
  BY <1>3 DEF ReadMessage, TypeOK, LockInv, bufferClosed
<1>4. CASE Put
  BY <1>4 DEF Put, HasRoom, TypeOK, LockInv, bufferClosed
<1>5. CASE PutStops
  BY <1>5 DEF PutStops, Settle, TypeOK, LockInv, bufferClosed
<1>6. CASE Drop
  BY <1>6 DEF Drop, Settle, TypeOK, LockInv, bufferClosed
<1>7. CASE Take
  <2>1. processor' \in {"lock", "rules", "check", "brief"}
    BY <1>7 DEF Take, HandlerOf
  <2> QED
    BY <1>7, <2>1 DEF Take, TypeOK, LockInv, bufferClosed
<1>8. CASE ProcessorStops
  BY <1>8 DEF ProcessorStops, TypeOK, LockInv, bufferClosed
<1>9. CASE HandlerEnds
  BY <1>9 DEF HandlerEnds, Settle, ProcessorRests, TypeOK, LockInv, bufferClosed
<1>10. CASE LockForUpdate
  BY <1>10 DEF LockForUpdate, Acquire, ProcessorGoes, TypeOK, LockInv, bufferClosed
<1>11. CASE UpdateEnds
  BY <1>11 DEF UpdateEnds, Release, ProcessorGoes, TypeOK, LockInv, bufferClosed
<1>12. CASE GetStatus
  BY <1>12 DEF GetStatus, ProcessorGoes, TypeOK, LockInv, bufferClosed
<1>13. ASSUME NEW e \in Egress, StopExisting(e) PROVE LockInv'
  BY <1>13 DEF StopExisting, Updating, TypeOK, LockInv, bufferClosed
<1>14. ASSUME NEW e \in Egress, Configure(e) PROVE LockInv'
  BY <1>14 DEF Configure, Updating, TypeOK, LockInv, bufferClosed
<1>15. ASSUME NEW e \in Egress, ConfigureFails(e) PROVE LockInv'
  BY <1>15 DEF ConfigureFails, Updating, TypeOK, LockInv, bufferClosed
<1>16. ASSUME NEW e \in Egress, ConfigurePanics(e) PROVE LockInv'
  BY <1>16 DEF ConfigurePanics, TypeOK, LockInv, bufferClosed
<1>17. ASSUME NEW e \in Egress, Remove(e) PROVE LockInv'
  BY <1>17 DEF Remove, Updating, TypeOK, LockInv, bufferClosed
<1>18. CASE UpdateRules
  BY <1>18 DEF UpdateRules, ProcessorGoes, TypeOK, LockInv, bufferClosed
<1>19. CASE TaskKnown
  BY <1>19 DEF TaskKnown, ProcessorGoes, TypeOK, LockInv, bufferClosed
<1>20. ASSUME NEW w \in Worker, Spawn(w) PROVE LockInv'
  BY <1>20 DEF Spawn, ProcessorRests, TypeOK, LockInv, bufferClosed
<1>21. ASSUME NEW w \in Worker, RunTask(w) PROVE LockInv'
  BY <1>21 DEF RunTask, WorkerGoes, TypeOK, LockInv, bufferClosed
<1>22. ASSUME NEW w \in Worker, LockForRestart(w) PROVE LockInv'
  BY <1>22 DEF LockForRestart, Acquire, WorkerGoes, TypeOK, LockInv, bufferClosed
<1>23. ASSUME NEW w \in Worker, RestartEnds(w) PROVE LockInv'
  BY <1>23 DEF RestartEnds, Release, WorkerGoes, TypeOK, LockInv, bufferClosed
<1>24. ASSUME NEW w \in Worker, TaskEnds(w) PROVE LockInv'
  BY <1>24 DEF TaskEnds, Settle, TypeOK, LockInv, bufferClosed
<1>25. ASSUME NEW w \in Worker, NEW e \in Egress, RestartStops(w, e) PROVE LockInv'
  BY <1>25 DEF RestartStops, Restarting, TypeOK, LockInv, bufferClosed
<1>26. ASSUME NEW w \in Worker, NEW e \in Egress, RestartStarts(w, e) PROVE LockInv'
  BY <1>26 DEF RestartStarts, Restarting, TypeOK, LockInv, bufferClosed
<1>27. CASE Signal
  BY <1>27 DEF Signal, MainGoes, TypeOK, LockInv, bufferClosed
<1>28. CASE StopWait
  BY <1>28 DEF StopWait, MainGoes, TypeOK, LockInv, bufferClosed
<1>29. CASE StopExit
  BY <1>29 DEF StopExit, MainGoes, TypeOK, LockInv, bufferClosed
<1>30. CASE UNCHANGED vars
  BY <1>30 DEF TypeOK, LockInv, bufferClosed
<1>31. CASE WriterPanics
  BY <1>31 DEF WriterPanics, TypeOK, LockInv, bufferClosed
<1> QED
  BY <1>1, <1>2, <1>3, <1>4, <1>5, <1>6, <1>7, <1>8, <1>9, <1>10, <1>11, <1>12, <1>13,
     <1>14, <1>15, <1>16, <1>17, <1>18, <1>19, <1>20, <1>21, <1>22, <1>23, <1>24, <1>25,
     <1>26, <1>27, <1>28, <1>29, <1>30, <1>31
  DEF Next, ReaderStep, ProcessorStep, WorkerStep, StopStep

\* A message the processor has taken up, and one before everything in the buffer.
IsTaken(m) ==
    /\ m \in 1..arrived /\ fate[m] # "dropped" /\ (reader = "put" => m # arrived)
    /\ \A i \in 1..Len(buffer) : m # buffer[i]

Before(m) ==
    /\ m \in 1..arrived /\ (reader = "put" => m # arrived)
    /\ \A i \in 1..Len(buffer) : m < buffer[i]

\* The buffer is in order, and all that was taken up is before it.
QueueInv ==
    /\ \A i, j \in 1..Len(buffer) : i < j => buffer[i] < buffer[j]
    /\ \A i \in 1..Len(buffer) : buffer[i] \in 1..arrived /\ (reader = "put" => buffer[i] # arrived)
    /\ hand # NoMsg => Before(hand)
    /\ \A w \in Worker : worker[w].at # "free" => Before(worker[w].msg)
    /\ \A m \in Msg : IsTaken(m) => Before(m)

LEMMA TakenIs == ASSUME TypeOK, NEW m \in Msg PROVE m \in Taken <=> IsTaken(m)
  BY DEF TypeOK, Taken, Accepted, Buffered, IsTaken

LEMMA InitQueue == Init => QueueInv
  BY DEF Init, QueueInv, Before, IsTaken

\* The order of messages, step by step.
LEMMA QueueNext == TypeOK /\ QueueInv /\ [Next]_vars => QueueInv'
<1> SUFFICES ASSUME TypeOK, QueueInv, [Next]_vars PROVE QueueInv'
    OBVIOUS
<1>1. CASE ReaderTop
  BY <1>1 DEF ReaderTop, TypeOK, QueueInv, Before, IsTaken
<1>2. CASE ReadFails
  BY <1>2 DEF ReadFails, TypeOK, QueueInv, Before, IsTaken
<1>3. ASSUME NEW k \in Kinds, NEW es \in Configs \cup {{}}, ReadMessage(k, es) PROVE QueueInv'
  <2>1. /\ arrived \in Nat /\ arrived' = arrived + 1 /\ reader = "read" /\ reader' = "put"
        /\ UNCHANGED <<buffer, hand, worker, fate>>
    BY <1>3 DEF ReadMessage, TypeOK
  <2>2. \A m \in Msg : Before(m) => Before(m)'
    BY <2>1 DEF Before
  <2>3. \A m \in Msg : IsTaken(m)' => IsTaken(m)
    BY <2>1 DEF IsTaken
  <2>4. \A i \in 1..Len(buffer') : buffer'[i] \in 1..arrived' /\ buffer'[i] # arrived'
    BY <2>1 DEF QueueInv
  <2>5. hand # NoMsg => hand \in Msg
    BY DEF TypeOK
  <2>6. \A w \in Worker : worker[w].at # "free" => worker[w].msg \in Msg
    BY DEF TypeOK
  <2> QED
    BY <2>1, <2>2, <2>3, <2>4, <2>5, <2>6 DEF QueueInv
<1>4. CASE Put
  <2>1. /\ arrived \in Msg /\ arrived' = arrived /\ reader = "put" /\ reader' = "top"
        /\ Len(buffer') = Len(buffer) + 1 /\ Len(buffer) \in Nat
        /\ \A i \in 1..Len(buffer) : buffer'[i] = buffer[i]
        /\ buffer'[Len(buffer) + 1] = arrived
        /\ UNCHANGED <<hand, worker, fate>>
    BY <1>4, AppendIs DEF Put, TypeOK
  <2>2. \A m \in Msg : Before(m) => Before(m)'
    BY <2>1 DEF Before
  <2>3. \A m \in Msg : IsTaken(m)' => IsTaken(m)
    BY <2>1 DEF IsTaken
  <2>4. \A i \in 1..Len(buffer) : buffer[i] \in Msg /\ buffer[i] < arrived
    BY <2>1 DEF QueueInv, TypeOK
  <2>5. \A i \in 1..Len(buffer') :
          (i \in 1..Len(buffer) /\ buffer'[i] = buffer[i]) \/ (i = Len(buffer) + 1 /\ buffer'[i] = arrived)
    BY <2>1
  <2>6. ASSUME NEW i \in 1..Len(buffer'), NEW j \in 1..Len(buffer'), i < j
        PROVE  buffer'[i] < buffer'[j]
    <3>1. i \in 1..Len(buffer) /\ buffer'[i] = buffer[i]
      BY <2>1, <2>5, <2>6
    <3>2. CASE j \in 1..Len(buffer) /\ buffer'[j] = buffer[j]
      BY <2>6, <3>1, <3>2 DEF QueueInv
    <3>3. CASE j = Len(buffer) + 1 /\ buffer'[j] = arrived
      BY <2>4, <3>1, <3>3
    <3> QED
      BY <2>5, <3>2, <3>3
  <2>9. \A i \in 1..Len(buffer) : buffer[i] \in 1..arrived
    BY DEF QueueInv
  <2>10. \A i \in 1..Len(buffer') : buffer'[i] \in 1..arrived'
    BY <2>1, <2>5, <2>9
  <2>7. hand # NoMsg => hand \in Msg
    BY DEF TypeOK
  <2>8. \A w \in Worker : worker[w].at # "free" => worker[w].msg \in Msg
    BY DEF TypeOK
  <2> QED
    BY <2>1, <2>2, <2>3, <2>6, <2>7, <2>8, <2>10 DEF QueueInv
<1>5. CASE PutStops
  BY <1>5 DEF PutStops, Settle, TypeOK, QueueInv, Before, IsTaken
<1>6. CASE Drop
  BY <1>6 DEF Drop, Settle, TypeOK, QueueInv, Before, IsTaken
<1>7. CASE Take
  <2>1. /\ hand' = buffer[1] /\ Len(buffer) \in Nat \ {0} /\ Len(buffer') = Len(buffer) - 1
        /\ \A i \in 1..Len(buffer') : buffer'[i] = buffer[i + 1]
        /\ UNCHANGED <<arrived, reader, fate, worker>>
    BY <1>7, TailIs DEF Take, TypeOK
  <2>2. \A m \in Msg : Before(m) => Before(m)'
    BY <2>1 DEF Before
  <2>3. \A i \in 1..Len(buffer') : i + 1 \in 1..Len(buffer) /\ 1 < i + 1
    BY <2>1
  <2>4. /\ buffer[1] \in 1..arrived /\ buffer[1] \in Msg
        /\ reader = "put" => buffer[1] # arrived
    <3>1. 1 \in 1..Len(buffer)
      BY <2>1
    <3> QED
      BY <3>1 DEF QueueInv, TypeOK
  <2>5. \A i \in 1..Len(buffer') : buffer[1] < buffer'[i]
    <3>1. 1 \in 1..Len(buffer)
      BY <2>1
    <3> QED
      BY <2>1, <2>3, <3>1 DEF QueueInv
  <2>6. ASSUME NEW m \in Msg, m = buffer[1] PROVE Before(m)'
    BY <2>1, <2>4, <2>5, <2>6 DEF Before
  <2>7. ASSUME NEW m \in Msg, IsTaken(m)' PROVE IsTaken(m) \/ m = buffer[1]
    <3>1. m \in 1..arrived /\ fate[m] # "dropped" /\ (reader = "put" => m # arrived)
          /\ \A i \in 1..Len(buffer') : m # buffer[i + 1]
      BY <2>1, <2>7 DEF IsTaken
    <3>2. SUFFICES ASSUME NEW i \in 1..Len(buffer), m = buffer[i], i # 1 PROVE FALSE
      BY <3>1 DEF IsTaken
    <3>3. i - 1 \in 1..Len(buffer') /\ (i - 1) + 1 = i
      BY <2>1, <3>2
    <3> QED
      BY <3>1, <3>2, <3>3
  <2>8. ASSUME NEW i \in 1..Len(buffer'), NEW j \in 1..Len(buffer'), i < j
        PROVE  buffer'[i] < buffer'[j]
    <3>1. i + 1 \in 1..Len(buffer) /\ j + 1 \in 1..Len(buffer) /\ i + 1 < j + 1
      BY <2>1, <2>8
    <3>2. buffer[i + 1] < buffer[j + 1]
      BY <3>1 DEF QueueInv
    <3> QED
      BY <2>1, <3>2
  <2>9. \A i \in 1..Len(buffer') :
          buffer'[i] \in 1..arrived' /\ (reader' = "put" => buffer'[i] # arrived')
    BY <2>1, <2>3 DEF QueueInv
  <2>10. ASSUME NEW m \in Msg, IsTaken(m)' PROVE Before(m)'
    BY <2>2, <2>6, <2>7, <2>10 DEF QueueInv
  <2>11. hand' # NoMsg => Before(hand)'
    BY <2>1, <2>4, <2>5 DEF Before
  <2>12. \A w \in Worker : worker[w].at # "free" => Before(worker[w].msg) /\ worker[w].msg \in Msg
    BY DEF QueueInv, TypeOK
  <2>13. ASSUME NEW w \in Worker, worker'[w].at # "free", NEW m \in Msg, m = worker[w].msg
         PROVE  Before(m)'
    BY <2>1, <2>2, <2>12, <2>13
  <2>14. \A w \in Worker : worker'[w].at # "free" => Before(worker[w].msg)'
    BY <2>1, <2>12, <2>13 DEF Before
  <2> QED
    BY <2>8, <2>9, <2>10, <2>11, <2>14 DEF QueueInv
<1>8. CASE ProcessorStops
  BY <1>8 DEF ProcessorStops, TypeOK, QueueInv, Before, IsTaken
<1>9. CASE HandlerEnds
  BY <1>9 DEF HandlerEnds, Settle, ProcessorRests, TypeOK, QueueInv, Before, IsTaken
<1>10. CASE LockForUpdate
  BY <1>10 DEF LockForUpdate, Acquire, ProcessorGoes, TypeOK, QueueInv, Before, IsTaken
<1>11. CASE UpdateEnds
  BY <1>11 DEF UpdateEnds, Release, ProcessorGoes, TypeOK, QueueInv, Before, IsTaken
<1>12. CASE GetStatus
  BY <1>12 DEF GetStatus, ProcessorGoes, TypeOK, QueueInv, Before, IsTaken
<1>13. ASSUME NEW e \in Egress, StopExisting(e) PROVE QueueInv'
  BY <1>13 DEF StopExisting, Updating, TypeOK, QueueInv, Before, IsTaken
<1>14. ASSUME NEW e \in Egress, Configure(e) PROVE QueueInv'
  BY <1>14 DEF Configure, Updating, TypeOK, QueueInv, Before, IsTaken
<1>15. ASSUME NEW e \in Egress, ConfigureFails(e) PROVE QueueInv'
  BY <1>15 DEF ConfigureFails, Updating, TypeOK, QueueInv, Before, IsTaken
<1>16. ASSUME NEW e \in Egress, ConfigurePanics(e) PROVE QueueInv'
  BY <1>16 DEF ConfigurePanics, TypeOK, QueueInv, Before, IsTaken
<1>17. ASSUME NEW e \in Egress, Remove(e) PROVE QueueInv'
  BY <1>17 DEF Remove, Updating, TypeOK, QueueInv, Before, IsTaken
<1>18. CASE UpdateRules
  BY <1>18 DEF UpdateRules, ProcessorGoes, TypeOK, QueueInv, Before, IsTaken
<1>19. CASE TaskKnown
  BY <1>19 DEF TaskKnown, ProcessorGoes, TypeOK, QueueInv, Before, IsTaken
<1>20. ASSUME NEW w \in Worker, Spawn(w) PROVE QueueInv'
  BY <1>20 DEF Spawn, ProcessorRests, TypeOK, QueueInv, Before, IsTaken
<1>21. ASSUME NEW w \in Worker, RunTask(w) PROVE QueueInv'
  BY <1>21 DEF RunTask, WorkerGoes, TypeOK, QueueInv, Before, IsTaken
<1>22. ASSUME NEW w \in Worker, LockForRestart(w) PROVE QueueInv'
  BY <1>22 DEF LockForRestart, Acquire, WorkerGoes, TypeOK, QueueInv, Before, IsTaken
<1>23. ASSUME NEW w \in Worker, RestartEnds(w) PROVE QueueInv'
  BY <1>23 DEF RestartEnds, Release, WorkerGoes, TypeOK, QueueInv, Before, IsTaken
<1>24. ASSUME NEW w \in Worker, TaskEnds(w) PROVE QueueInv'
  <2>1. worker[w].msg \in Msg /\ Before(worker[w].msg)
    BY <1>24 DEF TaskEnds, TypeOK, QueueInv
  <2>2. UNCHANGED <<arrived, reader, buffer, hand>>
    BY <1>24 DEF TaskEnds
  <2>3. \A m \in Msg : m # worker[w].msg => fate'[m] = fate[m]
    BY <1>24 DEF TaskEnds, Settle, TypeOK
  <2>4. \A x \in Worker : worker'[x].at # "free" => worker'[x] = worker[x]
    BY <1>24 DEF TaskEnds, TypeOK
  <2>5. \A m \in Msg : Before(m) => Before(m)'
    BY <2>2 DEF Before
  <2>6. \A m \in Msg : IsTaken(m)' => IsTaken(m) \/ m = worker[w].msg
    BY <2>2, <2>3 DEF IsTaken
  <2>7. \A m \in Msg : IsTaken(m)' => Before(m)'
    BY <2>1, <2>5, <2>6 DEF QueueInv
  <2>8. hand' # NoMsg => Before(hand)'
    BY <2>2 DEF QueueInv, Before
  <2>9. ASSUME NEW x \in Worker, worker'[x].at # "free" PROVE Before(worker[x].msg)'
    <3>1. worker'[x] = worker[x] /\ Before(worker[x].msg)
      BY <2>4, <2>9 DEF QueueInv
    <3> QED
      BY <2>2, <3>1 DEF Before
  <2> QED
    BY <2>2, <2>7, <2>8, <2>9 DEF QueueInv
<1>25. ASSUME NEW w \in Worker, NEW e \in Egress, RestartStops(w, e) PROVE QueueInv'
  BY <1>25 DEF RestartStops, Restarting, TypeOK, QueueInv, Before, IsTaken
<1>26. ASSUME NEW w \in Worker, NEW e \in Egress, RestartStarts(w, e) PROVE QueueInv'
  BY <1>26 DEF RestartStarts, Restarting, TypeOK, QueueInv, Before, IsTaken
<1>27. CASE Signal
  BY <1>27 DEF Signal, MainGoes, TypeOK, QueueInv, Before, IsTaken
<1>28. CASE StopWait
  BY <1>28 DEF StopWait, MainGoes, TypeOK, QueueInv, Before, IsTaken
<1>29. CASE StopExit
  BY <1>29 DEF StopExit, MainGoes, TypeOK, QueueInv, Before, IsTaken
<1>30. CASE UNCHANGED vars
  BY <1>30 DEF TypeOK, QueueInv, Before, IsTaken
<1>31. CASE WriterPanics
  BY <1>31 DEF WriterPanics, TypeOK, QueueInv, Before, IsTaken
<1> QED
  BY <1>1, <1>2, <1>3, <1>4, <1>5, <1>6, <1>7, <1>8, <1>9, <1>10, <1>11, <1>12, <1>13,
     <1>14, <1>15, <1>16, <1>17, <1>18, <1>19, <1>20, <1>21, <1>22, <1>23, <1>24, <1>25,
     <1>26, <1>27, <1>28, <1>29, <1>30, <1>31
  DEF Next, ReaderStep, ProcessorStep, WorkerStep, StopStep

\* The types of Agent.
THEOREM TypeCorrect == Spec => []TypeOK
<1> QED
  BY InitTypes, TypeNext, PTL DEF Spec

\* Agent's invariant that messages are taken up in the order they were read.
THEOREM OrderKept == Spec => []NoOvertaking
<1>1. TypeOK /\ QueueInv => NoOvertaking
  <2> SUFFICES ASSUME TypeOK, QueueInv PROVE NoOvertaking
      OBVIOUS
  <2>1. \A m \in Taken : m \in Msg /\ Before(m)
    BY TakenIs DEF QueueInv, Taken, Accepted, TypeOK
  <2> QED
    BY <2>1 DEF NoOvertaking, Buffered, Before, QueueInv
<1> QED
  BY <1>1, InitTypes, TypeNext, InitQueue, QueueNext, PTL DEF Spec

\* Agent's invariant about the end of the process: no send on the closed buffer, no
\* update cut off, a stopped proxy only in the middle of a restart.
THEOREM StopOrderly == Spec => []StopIsOrderly
<1>1. TypeOK /\ LockInv => StopIsOrderly
  BY DEF TypeOK, LockInv, StopIsOrderly, Registered, bufferClosed
<1> QED
  BY <1>1, InitTypes, TypeNext, InitLocks, LockNext, PTL DEF Spec

\* A message that is still waiting or in hand has no answer, and what the tasks hold are
\* task messages, older than the one in hand.
FateInv ==
    /\ \A m \in Msg : m > arrived => fate[m] = "open"
    /\ reader = "put" => fate[arrived] = "open"
    /\ \A i \in 1..Len(buffer) : fate[buffer[i]] = "open"
    /\ hand # NoMsg => fate[hand] = "open" /\ \A m \in Msg : IsTaken(m) => m <= hand
    /\ \A w \in Worker : worker[w].at # "free" =>
         /\ kind[worker[w].msg] = "task" /\ fate[worker[w].msg] # "dropped"
         /\ hand # NoMsg => worker[w].msg < hand
    /\ processor = "check" => kind[hand] = "task"

LEMMA InitFate == Init => FateInv
  BY DEF Init, FateInv

\* The answers, step by step.
LEMMA FateNext == TypeOK /\ QueueInv /\ FateInv /\ [Next]_vars => FateInv'
<1> SUFFICES ASSUME TypeOK, QueueInv, FateInv, [Next]_vars PROVE FateInv'
    OBVIOUS
<1>1. CASE ReaderTop
  BY <1>1 DEF ReaderTop, TypeOK, FateInv, QueueInv, Before, IsTaken
<1>2. CASE ReadFails
  BY <1>2 DEF ReadFails, TypeOK, FateInv, QueueInv, Before, IsTaken
<1>3. ASSUME NEW k \in Kinds, NEW es \in Configs \cup {{}}, ReadMessage(k, es) PROVE FateInv'
  BY <1>3 DEF ReadMessage, TypeOK, FateInv, QueueInv, Before, IsTaken
<1>4. CASE Put
  <2>1. /\ arrived \in Msg /\ arrived' = arrived /\ reader = "put" /\ reader' = "top"
        /\ Len(buffer') = Len(buffer) + 1 /\ Len(buffer) \in Nat
        /\ \A i \in 1..Len(buffer) : buffer'[i] = buffer[i]
        /\ buffer'[Len(buffer) + 1] = arrived
        /\ UNCHANGED <<hand, worker, fate, kind, processor>>
    BY <1>4, AppendIs DEF Put, TypeOK
  <2>2. \A m \in Msg : IsTaken(m)' => IsTaken(m)
    BY <2>1 DEF IsTaken
  <2>3. \A i \in 1..Len(buffer') : fate'[buffer'[i]] = "open"
    BY <2>1 DEF FateInv
  <2>4. hand' # NoMsg => \A m \in Msg : IsTaken(m)' => m <= hand
    BY <2>1, <2>2 DEF FateInv
  <2> QED
    BY <2>1, <2>3, <2>4 DEF FateInv
<1>5. CASE PutStops
  BY <1>5 DEF PutStops, Settle, TypeOK, FateInv, QueueInv, Before, IsTaken
<1>6. CASE Drop
  BY <1>6 DEF Drop, Settle, TypeOK, FateInv, QueueInv, Before, IsTaken
<1>7. CASE Take
  <2>1. /\ hand' = buffer[1] /\ Len(buffer) \in Nat \ {0} /\ Len(buffer') = Len(buffer) - 1
        /\ \A i \in 1..Len(buffer') : buffer'[i] = buffer[i + 1]
        /\ UNCHANGED <<arrived, reader, fate, worker, kind>>
        /\ processor' = HandlerOf(kind[hand'])
    BY <1>7, TailIs DEF Take, TypeOK
  <2>2. 1 \in 1..Len(buffer) /\ \A i \in 1..Len(buffer') : i + 1 \in 1..Len(buffer)
    BY <2>1
  <2>3. fate'[hand'] = "open" /\ \A i \in 1..Len(buffer') : fate'[buffer'[i]] = "open"
    BY <2>1, <2>2 DEF FateInv
  <2>4. QueueInv'
    BY <1>7, QueueNext DEF Next, ProcessorStep
  <2>5. ASSUME NEW m \in Msg, IsTaken(m)' PROVE m <= hand'
    <3>1. IsTaken(m) \/ m = buffer[1]
      <4>1. m \in 1..arrived /\ fate[m] # "dropped" /\ (reader = "put" => m # arrived)
            /\ \A i \in 1..Len(buffer') : m # buffer[i + 1]
        BY <2>1, <2>5 DEF IsTaken
      <4>2. SUFFICES ASSUME NEW i \in 1..Len(buffer), m = buffer[i], i # 1 PROVE FALSE
        BY <4>1 DEF IsTaken
      <4>3. i - 1 \in 1..Len(buffer') /\ (i - 1) + 1 = i
        BY <2>1, <4>2
      <4> QED
        BY <4>1, <4>2, <4>3
    <3>2. IsTaken(m) => m < buffer[1]
      BY <2>2 DEF QueueInv, Before
    <3>3. buffer[1] \in 1..arrived
      BY <2>2 DEF QueueInv
    <3> QED
      BY <2>1, <3>1, <3>2, <3>3 DEF TypeOK
  <2>6. ASSUME NEW w \in Worker, worker'[w].at # "free"
        PROVE  kind'[worker'[w].msg] = "task" /\ fate'[worker'[w].msg] # "dropped"
               /\ worker'[w].msg < hand'
    BY <2>1, <2>2, <2>6 DEF FateInv, QueueInv, Before
  <2>7. processor' = "check" => kind'[hand'] = "task"
    BY <2>1 DEF HandlerOf
  <2> QED
    BY <2>1, <2>3, <2>5, <2>6, <2>7 DEF FateInv, TypeOK
<1>8. CASE ProcessorStops
  BY <1>8 DEF ProcessorStops, TypeOK, FateInv, QueueInv, Before, IsTaken
<1>9. CASE HandlerEnds
  BY <1>9 DEF HandlerEnds, Settle, ProcessorRests, TypeOK, FateInv, QueueInv, Before, IsTaken
<1>10. CASE LockForUpdate
  BY <1>10 DEF LockForUpdate, Acquire, ProcessorGoes, TypeOK, FateInv, QueueInv, Before, IsTaken
<1>11. CASE UpdateEnds
  BY <1>11 DEF UpdateEnds, Release, ProcessorGoes, TypeOK, FateInv, QueueInv, Before, IsTaken
<1>12. CASE GetStatus
  BY <1>12 DEF GetStatus, ProcessorGoes, TypeOK, FateInv, QueueInv, Before, IsTaken
<1>13. ASSUME NEW e \in Egress, StopExisting(e) PROVE FateInv'
  BY <1>13 DEF StopExisting, Updating, TypeOK, FateInv, QueueInv, Before, IsTaken
<1>14. ASSUME NEW e \in Egress, Configure(e) PROVE FateInv'
  BY <1>14 DEF Configure, Updating, TypeOK, FateInv, QueueInv, Before, IsTaken
<1>15. ASSUME NEW e \in Egress, ConfigureFails(e) PROVE FateInv'
  BY <1>15 DEF ConfigureFails, Updating, TypeOK, FateInv, QueueInv, Before, IsTaken
<1>16. ASSUME NEW e \in Egress, ConfigurePanics(e) PROVE FateInv'
  BY <1>16 DEF ConfigurePanics, TypeOK, FateInv, QueueInv, Before, IsTaken
<1>17. ASSUME NEW e \in Egress, Remove(e) PROVE FateInv'
  BY <1>17 DEF Remove, Updating, TypeOK, FateInv, QueueInv, Before, IsTaken
<1>18. CASE UpdateRules
  BY <1>18 DEF UpdateRules, ProcessorGoes, TypeOK, FateInv, QueueInv, Before, IsTaken
<1>19. CASE TaskKnown
  BY <1>19 DEF TaskKnown, ProcessorGoes, TypeOK, FateInv, QueueInv, Before, IsTaken
<1>20. ASSUME NEW w \in Worker, Spawn(w) PROVE FateInv'
  BY <1>20 DEF Spawn, ProcessorRests, TypeOK, FateInv, QueueInv, Before, IsTaken
<1>21. ASSUME NEW w \in Worker, RunTask(w) PROVE FateInv'
  BY <1>21 DEF RunTask, WorkerGoes, TypeOK, FateInv, QueueInv, Before, IsTaken
<1>22. ASSUME NEW w \in Worker, LockForRestart(w) PROVE FateInv'
  BY <1>22 DEF LockForRestart, Acquire, WorkerGoes, TypeOK, FateInv, QueueInv, Before, IsTaken
<1>23. ASSUME NEW w \in Worker, RestartEnds(w) PROVE FateInv'
  BY <1>23 DEF RestartEnds, Release, WorkerGoes, TypeOK, FateInv, QueueInv, Before, IsTaken
<1>24. ASSUME NEW w \in Worker, TaskEnds(w) PROVE FateInv'
  BY <1>24 DEF TaskEnds, Settle, TypeOK, FateInv, QueueInv, Before, IsTaken
<1>25. ASSUME NEW w \in Worker, NEW e \in Egress, RestartStops(w, e) PROVE FateInv'
  BY <1>25 DEF RestartStops, Restarting, TypeOK, FateInv, QueueInv, Before, IsTaken
<1>26. ASSUME NEW w \in Worker, NEW e \in Egress, RestartStarts(w, e) PROVE FateInv'
  BY <1>26 DEF RestartStarts, Restarting, TypeOK, FateInv, QueueInv, Before, IsTaken
<1>27. CASE Signal
  BY <1>27 DEF Signal, MainGoes, TypeOK, FateInv, QueueInv, Before, IsTaken
<1>28. CASE StopWait
  BY <1>28 DEF StopWait, MainGoes, TypeOK, FateInv, QueueInv, Before, IsTaken
<1>29. CASE StopExit
  BY <1>29 DEF StopExit, MainGoes, TypeOK, FateInv, QueueInv, Before, IsTaken
<1>30. CASE UNCHANGED vars
  BY <1>30 DEF TypeOK, FateInv, QueueInv, Before, IsTaken
<1>31. CASE WriterPanics
  BY <1>31 DEF WriterPanics, TypeOK, FateInv, QueueInv, Before, IsTaken
<1> QED
  BY <1>1, <1>2, <1>3, <1>4, <1>5, <1>6, <1>7, <1>8, <1>9, <1>10, <1>11, <1>12, <1>13,
     <1>14, <1>15, <1>16, <1>17, <1>18, <1>19, <1>20, <1>21, <1>22, <1>23, <1>24, <1>25,
     <1>26, <1>27, <1>28, <1>29, <1>30, <1>31
  DEF Next, ReaderStep, ProcessorStep, WorkerStep, StopStep

\* How far the processor is with the message in hand.
Installed(m) == \A e \in Egress : cfg[e] = IF e \in items[m] THEN m ELSE NoMsg

ProcInv ==
    /\ processor \in {"lock", "update", "status"} => kind[hand] = "egress"
    /\ processor = "rules" => kind[hand] = "iptables"
    /\ processor = "brief" => kind[hand] \notin {"egress", "iptables"}
    /\ processor = "update" /\ ~failed => \A e \in items[hand] \ todo : cfg[e] = hand
    /\ processor = "status" \/ (processor = "ok" /\ kind[hand] = "egress") => Installed(hand)
    /\ processor = "ok" /\ kind[hand] = "iptables" => rules = hand

LEMMA InitProc == Init => ProcInv
  BY DEF Init, ProcInv

\* The handlers, step by step.
LEMMA ProcNext == TypeOK /\ LockInv /\ FateInv /\ QueueInv /\ ProcInv /\ [Next]_vars => ProcInv'
<1> SUFFICES ASSUME TypeOK, LockInv, FateInv, QueueInv, ProcInv, [Next]_vars PROVE ProcInv'
    OBVIOUS
<1>1. CASE ReaderTop
  BY <1>1 DEF ReaderTop, TypeOK, ProcInv, Installed, LockInv, QueueInv, Before, FateInv
<1>2. CASE ReadFails
  BY <1>2 DEF ReadFails, TypeOK, ProcInv, Installed, LockInv, QueueInv, Before, FateInv
<1>3. ASSUME NEW k \in Kinds, NEW es \in Configs \cup {{}}, ReadMessage(k, es) PROVE ProcInv'
  BY <1>3 DEF ReadMessage, TypeOK, ProcInv, Installed, LockInv, QueueInv, Before, FateInv
<1>4. CASE Put
  BY <1>4 DEF Put, HasRoom, TypeOK, ProcInv, Installed, LockInv, QueueInv, Before, FateInv
<1>5. CASE PutStops
  BY <1>5 DEF PutStops, Settle, TypeOK, ProcInv, Installed, LockInv, QueueInv, Before, FateInv
<1>6. CASE Drop
  BY <1>6 DEF Drop, Settle, TypeOK, ProcInv, Installed, LockInv, QueueInv, Before, FateInv
<1>7. CASE Take
  <2>1. /\ hand' \in Msg /\ UNCHANGED <<kind, rules, cfg, items>>
        /\ processor' = HandlerOf(kind[hand'])
    BY <1>7, TailIs DEF Take, TypeOK
  <2> QED
    BY <2>1 DEF HandlerOf, ProcInv, TypeOK
<1>8. CASE ProcessorStops
  BY <1>8 DEF ProcessorStops, TypeOK, ProcInv, Installed, LockInv, QueueInv, Before, FateInv
<1>9. CASE HandlerEnds
  BY <1>9 DEF HandlerEnds, Settle, ProcessorRests, TypeOK, ProcInv, Installed, LockInv, QueueInv, Before, FateInv
<1>10. CASE LockForUpdate
  BY <1>10 DEF LockForUpdate, Acquire, ProcessorGoes, TypeOK, ProcInv, Installed, LockInv, QueueInv, Before, FateInv
<1>11. CASE UpdateEnds
  <2>1. CASE failed
    BY <1>11, <2>1 DEF UpdateEnds, Release, ProcessorGoes, TypeOK, ProcInv
  <2>2. CASE ~failed
    <3>1. Installed(hand)
      BY <1>11, <2>2 DEF UpdateEnds, ProcInv, Installed, Superfluous, Registered, TypeOK
    <3>2. /\ processor' = "status" /\ hand' = hand /\ UNCHANGED <<kind, items, cfg, rules>>
          /\ kind[hand] = "egress"
      BY <1>11, <2>2 DEF UpdateEnds, Release, ProcessorGoes, ProcInv
    <3> QED
      BY <3>1, <3>2 DEF ProcInv, Installed
  <2> QED
    BY <2>1, <2>2 DEF TypeOK
<1>12. CASE GetStatus
  BY <1>12 DEF GetStatus, ProcessorGoes, TypeOK, ProcInv, Installed, LockInv, QueueInv, Before, FateInv
<1>13. ASSUME NEW e \in Egress, StopExisting(e) PROVE ProcInv'
  BY <1>13 DEF StopExisting, Updating, TypeOK, ProcInv, Installed, LockInv, QueueInv, Before, FateInv
<1>14. ASSUME NEW e \in Egress, Configure(e) PROVE ProcInv'
  BY <1>14 DEF Configure, Updating, TypeOK, ProcInv, Installed, LockInv, QueueInv, Before, FateInv
<1>15. ASSUME NEW e \in Egress, ConfigureFails(e) PROVE ProcInv'
  BY <1>15 DEF ConfigureFails, Updating, TypeOK, ProcInv, Installed, LockInv, QueueInv, Before, FateInv
<1>16. ASSUME NEW e \in Egress, ConfigurePanics(e) PROVE ProcInv'
  BY <1>16 DEF ConfigurePanics, TypeOK, ProcInv, Installed, LockInv, QueueInv, Before, FateInv
<1>17. ASSUME NEW e \in Egress, Remove(e) PROVE ProcInv'
  BY <1>17 DEF Remove, Updating, Superfluous, Registered, TypeOK, ProcInv, Installed
<1>18. CASE UpdateRules
  BY <1>18 DEF UpdateRules, ProcessorGoes, TypeOK, ProcInv, Installed, LockInv, QueueInv, Before, FateInv
<1>19. CASE TaskKnown
  BY <1>19 DEF TaskKnown, ProcessorGoes, TypeOK, ProcInv, Installed, LockInv, QueueInv, Before, FateInv
<1>20. ASSUME NEW w \in Worker, Spawn(w) PROVE ProcInv'
  BY <1>20 DEF Spawn, ProcessorRests, TypeOK, ProcInv, Installed, LockInv, QueueInv, Before, FateInv
<1>21. ASSUME NEW w \in Worker, RunTask(w) PROVE ProcInv'
  BY <1>21 DEF RunTask, WorkerGoes, TypeOK, ProcInv, Installed, LockInv, QueueInv, Before, FateInv
<1>22. ASSUME NEW w \in Worker, LockForRestart(w) PROVE ProcInv'
  BY <1>22 DEF LockForRestart, Acquire, WorkerGoes, TypeOK, ProcInv, Installed, LockInv, QueueInv, Before, FateInv
<1>23. ASSUME NEW w \in Worker, RestartEnds(w) PROVE ProcInv'
  BY <1>23 DEF RestartEnds, Release, WorkerGoes, TypeOK, ProcInv, Installed, LockInv, QueueInv, Before, FateInv
<1>24. ASSUME NEW w \in Worker, TaskEnds(w) PROVE ProcInv'
  BY <1>24 DEF TaskEnds, Settle, TypeOK, ProcInv, Installed, LockInv, QueueInv, Before, FateInv
<1>25. ASSUME NEW w \in Worker, NEW e \in Egress, RestartStops(w, e) PROVE ProcInv'
  BY <1>25 DEF RestartStops, Restarting, TypeOK, ProcInv, Installed, LockInv, QueueInv, Before, FateInv
<1>26. ASSUME NEW w \in Worker, NEW e \in Egress, RestartStarts(w, e) PROVE ProcInv'
  BY <1>26 DEF RestartStarts, Restarting, TypeOK, ProcInv, Installed, LockInv, QueueInv, Before, FateInv
<1>27. CASE Signal
  BY <1>27 DEF Signal, MainGoes, TypeOK, ProcInv, Installed, LockInv, QueueInv, Before, FateInv
<1>28. CASE StopWait
  BY <1>28 DEF StopWait, MainGoes, TypeOK, ProcInv, Installed, LockInv, QueueInv, Before, FateInv
<1>29. CASE StopExit
  BY <1>29 DEF StopExit, MainGoes, TypeOK, ProcInv, Installed, LockInv, QueueInv, Before, FateInv
<1>30. CASE UNCHANGED vars
  BY <1>30 DEF TypeOK, ProcInv, Installed, LockInv, QueueInv, Before, FateInv
<1>31. CASE WriterPanics
  BY <1>31 DEF WriterPanics, TypeOK, ProcInv, Installed, LockInv, QueueInv, Before, FateInv
<1> QED
  BY <1>1, <1>2, <1>3, <1>4, <1>5, <1>6, <1>7, <1>8, <1>9, <1>10, <1>11, <1>12, <1>13,
     <1>14, <1>15, <1>16, <1>17, <1>18, <1>19, <1>20, <1>21, <1>22, <1>23, <1>24, <1>25,
     <1>26, <1>27, <1>28, <1>29, <1>30, <1>31
  DEF Next, ReaderStep, ProcessorStep, WorkerStep, StopStep

\* What has been taken up stays so, and is what it was.
Steady ==
    \A m \in Msg : IsTaken(m) => IsTaken(m)' /\ kind'[m] = kind[m] /\ items'[m] = items[m]

\* Whatever the step.
LEMMA StepsSteady == TypeOK /\ FateInv /\ [Next]_vars => Steady
<1> SUFFICES ASSUME TypeOK, FateInv, [Next]_vars PROVE Steady
    OBVIOUS
<1>1. CASE ReaderTop
  BY <1>1 DEF ReaderTop, TypeOK, Steady, IsTaken, FateInv
<1>2. CASE ReadFails
  BY <1>2 DEF ReadFails, TypeOK, Steady, IsTaken, FateInv
<1>3. ASSUME NEW k \in Kinds, NEW es \in Configs \cup {{}}, ReadMessage(k, es) PROVE Steady
  BY <1>3 DEF ReadMessage, TypeOK, Steady, IsTaken, FateInv
<1>4. CASE Put
  <2>1. /\ arrived \in Msg /\ arrived' = arrived /\ reader = "put" /\ reader' = "top"
        /\ Len(buffer') = Len(buffer) + 1 /\ Len(buffer) \in Nat
        /\ \A i \in 1..Len(buffer) : buffer'[i] = buffer[i]
        /\ buffer'[Len(buffer) + 1] = arrived
        /\ UNCHANGED <<fate, kind, items>>
    BY <1>4, AppendIs DEF Put, TypeOK
  <2>2. \A i \in 1..Len(buffer') : i \in 1..Len(buffer) \/ buffer'[i] = arrived
    BY <2>1
  <2> QED
    BY <2>1, <2>2 DEF Steady, IsTaken
<1>5. CASE PutStops
  BY <1>5 DEF PutStops, Settle, TypeOK, Steady, IsTaken, FateInv
<1>6. CASE Drop
  BY <1>6 DEF Drop, Settle, TypeOK, Steady, IsTaken, FateInv
<1>7. CASE Take
  <2>1. /\ Len(buffer) \in Nat \ {0} /\ Len(buffer') = Len(buffer) - 1
        /\ \A i \in 1..Len(buffer') : buffer'[i] = buffer[i + 1] /\ i + 1 \in 1..Len(buffer)
        /\ UNCHANGED <<arrived, reader, fate, kind, items>>
    BY <1>7, TailIs DEF Take, TypeOK
  <2> QED
    BY <2>1 DEF Steady, IsTaken
<1>8. CASE ProcessorStops
  BY <1>8 DEF ProcessorStops, TypeOK, Steady, IsTaken, FateInv
<1>9. CASE HandlerEnds
  BY <1>9 DEF HandlerEnds, Settle, ProcessorRests, TypeOK, Steady, IsTaken, FateInv
<1>10. CASE LockForUpdate
  BY <1>10 DEF LockForUpdate, Acquire, ProcessorGoes, TypeOK, Steady, IsTaken, FateInv
<1>11. CASE UpdateEnds
  BY <1>11 DEF UpdateEnds, Release, ProcessorGoes, TypeOK, Steady, IsTaken, FateInv
<1>12. CASE GetStatus
  BY <1>12 DEF GetStatus, ProcessorGoes, TypeOK, Steady, IsTaken, FateInv
<1>13. ASSUME NEW e \in Egress, StopExisting(e) PROVE Steady
  BY <1>13 DEF StopExisting, Updating, TypeOK, Steady, IsTaken, FateInv
<1>14. ASSUME NEW e \in Egress, Configure(e) PROVE Steady
  BY <1>14 DEF Configure, Updating, TypeOK, Steady, IsTaken, FateInv
<1>15. ASSUME NEW e \in Egress, ConfigureFails(e) PROVE Steady
  BY <1>15 DEF ConfigureFails, Updating, TypeOK, Steady, IsTaken, FateInv
<1>16. ASSUME NEW e \in Egress, ConfigurePanics(e) PROVE Steady
  BY <1>16 DEF ConfigurePanics, TypeOK, Steady, IsTaken, FateInv
<1>17. ASSUME NEW e \in Egress, Remove(e) PROVE Steady
  BY <1>17 DEF Remove, Updating, TypeOK, Steady, IsTaken, FateInv
<1>18. CASE UpdateRules
  BY <1>18 DEF UpdateRules, ProcessorGoes, TypeOK, Steady, IsTaken, FateInv
<1>19. CASE TaskKnown
  BY <1>19 DEF TaskKnown, ProcessorGoes, TypeOK, Steady, IsTaken, FateInv
<1>20. ASSUME NEW w \in Worker, Spawn(w) PROVE Steady
  BY <1>20 DEF Spawn, ProcessorRests, TypeOK, Steady, IsTaken, FateInv
<1>21. ASSUME NEW w \in Worker, RunTask(w) PROVE Steady
  BY <1>21 DEF RunTask, WorkerGoes, TypeOK, Steady, IsTaken, FateInv
<1>22. ASSUME NEW w \in Worker, LockForRestart(w) PROVE Steady
  BY <1>22 DEF LockForRestart, Acquire, WorkerGoes, TypeOK, Steady, IsTaken, FateInv
<1>23. ASSUME NEW w \in Worker, RestartEnds(w) PROVE Steady
  BY <1>23 DEF RestartEnds, Release, WorkerGoes, TypeOK, Steady, IsTaken, FateInv
<1>24. ASSUME NEW w \in Worker, TaskEnds(w) PROVE Steady
  BY <1>24 DEF TaskEnds, Settle, TypeOK, Steady, IsTaken, FateInv
<1>25. ASSUME NEW w \in Worker, NEW e \in Egress, RestartStops(w, e) PROVE Steady
  BY <1>25 DEF RestartStops, Restarting, TypeOK, Steady, IsTaken, FateInv
<1>26. ASSUME NEW w \in Worker, NEW e \in Egress, RestartStarts(w, e) PROVE Steady
  BY <1>26 DEF RestartStarts, Restarting, TypeOK, Steady, IsTaken, FateInv
<1>27. CASE Signal
  BY <1>27 DEF Signal, MainGoes, TypeOK, Steady, IsTaken, FateInv
<1>28. CASE StopWait
  BY <1>28 DEF StopWait, MainGoes, TypeOK, Steady, IsTaken, FateInv
<1>29. CASE StopExit
  BY <1>29 DEF StopExit, MainGoes, TypeOK, Steady, IsTaken, FateInv
<1>30. CASE UNCHANGED vars
  BY <1>30 DEF TypeOK, Steady, IsTaken, FateInv
<1>31. CASE WriterPanics
  BY <1>31 DEF WriterPanics, TypeOK, Steady, IsTaken, FateInv
<1> QED
  BY <1>1, <1>2, <1>3, <1>4, <1>5, <1>6, <1>7, <1>8, <1>9, <1>10, <1>11, <1>12, <1>13,
     <1>14, <1>15, <1>16, <1>17, <1>18, <1>19, <1>20, <1>21, <1>22, <1>23, <1>24, <1>25,
     <1>26, <1>27, <1>28, <1>29, <1>30, <1>31
  DEF Next, ReaderStep, ProcessorStep, WorkerStep, StopStep

\* AckedIsInForce, with what it takes for a message to be the latest of its kind.
Latest(m) == \A n \in Msg : IsTaken(n) /\ kind[n] = kind[m] => n <= m

InForce(m) ==
    /\ kind[m] = "egress" => Installed(m)
    /\ kind[m] = "iptables" => rules = m

AckedInv == \A m \in Msg : fate[m] = "ok" /\ Latest(m) => InForce(m)

\* What has an answer has been taken up.
LEMMA AnsweredIsTaken ==
    ASSUME TypeOK, FateInv, NEW m \in Msg, fate[m] = "ok"
    PROVE  IsTaken(m)
<1>1. m \in 1..arrived
  BY DEF TypeOK, FateInv
<1>2. (reader = "put" => m # arrived) /\ \A i \in 1..Len(buffer) : m # buffer[i]
  BY DEF FateInv
<1> QED
  BY <1>1, <1>2 DEF IsTaken

\* With a configuration in hand the one acknowledged before is no longer the latest.
LEMMA HandIsLatest ==
    ASSUME TypeOK, QueueInv, FateInv, hand # NoMsg, NEW m \in Msg, fate[m] = "ok", Latest(m)
    PROVE  kind[m] # kind[hand]
<1>1. IsTaken(m) /\ m # hand
  BY AnsweredIsTaken DEF FateInv
<1>2. m <= hand
  BY <1>1 DEF FateInv
<1>3. IsTaken(hand) /\ hand \in Msg
  BY DEF IsTaken, QueueInv, Before, FateInv, TypeOK
<1> QED
  BY <1>1, <1>2, <1>3 DEF Latest, TypeOK

\* A step that gives no answer but to a task and leaves the proxies and the rules alone.
LEMMA AckedKept ==
    ASSUME TypeOK, FateInv, AckedInv, Steady, UNCHANGED <<cfg, rules>>,
           \A m \in Msg : fate'[m] = "ok" => fate[m] = "ok" \/ kind'[m] \notin {"egress", "iptables"}
    PROVE  AckedInv'
<1> SUFFICES ASSUME NEW m \in Msg, fate'[m] = "ok", Latest(m)',
                    kind'[m] \in {"egress", "iptables"}
             PROVE  InForce(m)'
    BY DEF AckedInv, InForce
<1>1. fate[m] = "ok" /\ IsTaken(m) /\ kind'[m] = kind[m] /\ items'[m] = items[m]
  BY AnsweredIsTaken DEF Steady
<1>2. Latest(m)
  BY <1>1 DEF Steady, Latest
<1>3. InForce(m)
  BY <1>1, <1>2 DEF AckedInv
<1> QED
  BY <1>1, <1>3 DEF InForce, Installed

LEMMA InitAcked == Init => AckedInv
  BY DEF Init, AckedInv

\* And so the configuration in force, step by step.
LEMMA AckedNext == TypeOK /\ QueueInv /\ FateInv /\ ProcInv /\ AckedInv /\ [Next]_vars => AckedInv'
<1> SUFFICES ASSUME TypeOK, QueueInv, FateInv, ProcInv, AckedInv, [Next]_vars PROVE AckedInv'
    OBVIOUS
<1>0. Steady
  BY StepsSteady
<1> USE <1>0
<1>1. CASE ReaderTop
  <2>1. UNCHANGED <<cfg, rules>> /\ \A m \in Msg : fate'[m] = "ok" => fate[m] = "ok"
    BY <1>1 DEF ReaderTop, TypeOK
  <2> QED
    BY <2>1, AckedKept
<1>2. CASE ReadFails
  <2>1. UNCHANGED <<cfg, rules>> /\ \A m \in Msg : fate'[m] = "ok" => fate[m] = "ok"
    BY <1>2 DEF ReadFails, TypeOK
  <2> QED
    BY <2>1, AckedKept
<1>3. ASSUME NEW k \in Kinds, NEW es \in Configs \cup {{}}, ReadMessage(k, es) PROVE AckedInv'
  <2>1. UNCHANGED <<cfg, rules>> /\ \A m \in Msg : fate'[m] = "ok" => fate[m] = "ok"
    BY <1>3 DEF ReadMessage, TypeOK
  <2> QED
    BY <2>1, AckedKept
<1>4. CASE Put
  <2>1. UNCHANGED <<cfg, rules>> /\ \A m \in Msg : fate'[m] = "ok" => fate[m] = "ok"
    BY <1>4 DEF Put, HasRoom, TypeOK
  <2> QED
    BY <2>1, AckedKept
<1>5. CASE PutStops
  <2>1. UNCHANGED <<cfg, rules>> /\ \A m \in Msg : fate'[m] = "ok" => fate[m] = "ok"
    BY <1>5 DEF PutStops, Settle, TypeOK
  <2> QED
    BY <2>1, AckedKept
<1>6. CASE Drop
  <2>1. UNCHANGED <<cfg, rules>> /\ \A m \in Msg : fate'[m] = "ok" => fate[m] = "ok"
    BY <1>6 DEF Drop, Settle, TypeOK
  <2> QED
    BY <2>1, AckedKept
<1>7. CASE Take
  <2>1. UNCHANGED <<cfg, rules>> /\ \A m \in Msg : fate'[m] = "ok" => fate[m] = "ok"
    BY <1>7 DEF Take, TypeOK
  <2> QED
    BY <2>1, AckedKept
<1>8. CASE ProcessorStops
  <2>1. UNCHANGED <<cfg, rules>> /\ \A m \in Msg : fate'[m] = "ok" => fate[m] = "ok"
    BY <1>8 DEF ProcessorStops, TypeOK
  <2> QED
    BY <2>1, AckedKept
<1>9. CASE HandlerEnds
  <2>1. /\ UNCHANGED <<cfg, rules, kind, items>> /\ hand \in Msg
        /\ fate' = [fate EXCEPT ![hand] = processor]
    BY <1>9 DEF HandlerEnds, Settle, TypeOK
  <2>2. CASE processor = "ok"
    <3> SUFFICES ASSUME NEW m \in Msg, fate'[m] = "ok", Latest(m)' PROVE InForce(m)'
        BY DEF AckedInv
    <3>1. InForce(hand)
      BY <2>2 DEF ProcInv, InForce
    <3>2. CASE m # hand
      <4>1. fate[m] = "ok"
        BY <2>1, <3>2 DEF TypeOK
      <4>2. Latest(m)
        BY <2>1 DEF Steady, Latest
      <4>3. InForce(m)
        BY <4>1, <4>2 DEF AckedInv
      <4> QED
        BY <2>1, <4>3 DEF InForce, Installed
    <3>3. CASE m = hand
      BY <2>1, <3>1, <3>3 DEF InForce, Installed
    <3> QED
      BY <3>2, <3>3
  <2>3. CASE processor # "ok"
    <3>1. \A m \in Msg : fate'[m] = "ok" => fate[m] = "ok"
      BY <2>1, <2>3 DEF TypeOK
    <3> QED
      BY <2>1, <3>1, AckedKept
  <2> QED
    BY <2>2, <2>3
<1>10. CASE LockForUpdate
  <2>1. UNCHANGED <<cfg, rules>> /\ \A m \in Msg : fate'[m] = "ok" => fate[m] = "ok"
    BY <1>10 DEF LockForUpdate, Acquire, ProcessorGoes, TypeOK
  <2> QED
    BY <2>1, AckedKept
<1>11. CASE UpdateEnds
  <2>1. UNCHANGED <<cfg, rules>> /\ \A m \in Msg : fate'[m] = "ok" => fate[m] = "ok"
    BY <1>11 DEF UpdateEnds, Release, ProcessorGoes, TypeOK
  <2> QED
    BY <2>1, AckedKept
<1>12. CASE GetStatus
  <2>1. UNCHANGED <<cfg, rules>> /\ \A m \in Msg : fate'[m] = "ok" => fate[m] = "ok"
    BY <1>12 DEF GetStatus, ProcessorGoes, TypeOK
  <2> QED
    BY <2>1, AckedKept
<1>13. ASSUME NEW e \in Egress, StopExisting(e) PROVE AckedInv'
  <2>1. UNCHANGED <<cfg, rules>> /\ \A m \in Msg : fate'[m] = "ok" => fate[m] = "ok"
    BY <1>13 DEF StopExisting, Updating, TypeOK
  <2> QED
    BY <2>1, AckedKept
<1>14. ASSUME NEW e \in Egress, Configure(e) PROVE AckedInv'
  <2> SUFFICES ASSUME NEW m \in Msg, fate'[m] = "ok", Latest(m)' PROVE InForce(m)'
      BY DEF AckedInv
  <2>1. /\ UNCHANGED <<rules, fate, kind, items, hand>>
        /\ kind[hand] = "egress" /\ hand # NoMsg
    BY <1>14 DEF Configure, Updating, ProcInv, TypeOK
  <2>2. fate[m] = "ok" /\ Latest(m)
    BY <2>1, AnsweredIsTaken DEF Latest, Steady
  <2>3. kind[m] # "egress" /\ InForce(m)
    BY <2>1, <2>2, HandIsLatest DEF AckedInv
  <2> QED
    BY <2>1, <2>3 DEF InForce
<1>15. ASSUME NEW e \in Egress, ConfigureFails(e) PROVE AckedInv'
  <2>1. UNCHANGED <<cfg, rules>> /\ \A m \in Msg : fate'[m] = "ok" => fate[m] = "ok"
    BY <1>15 DEF ConfigureFails, Updating, TypeOK
  <2> QED
    BY <2>1, AckedKept
<1>16. ASSUME NEW e \in Egress, ConfigurePanics(e) PROVE AckedInv'
  <2>1. UNCHANGED <<cfg, rules>> /\ \A m \in Msg : fate'[m] = "ok" => fate[m] = "ok"
    BY <1>16 DEF ConfigurePanics, TypeOK
  <2> QED
    BY <2>1, AckedKept
<1>17. ASSUME NEW e \in Egress, Remove(e) PROVE AckedInv'
  <2> SUFFICES ASSUME NEW m \in Msg, fate'[m] = "ok", Latest(m)' PROVE InForce(m)'
      BY DEF AckedInv
  <2>1. /\ UNCHANGED <<rules, fate, kind, items, hand>>
        /\ kind[hand] = "egress" /\ hand # NoMsg
    BY <1>17 DEF Remove, Updating, ProcInv, TypeOK
  <2>2. fate[m] = "ok" /\ Latest(m)
    BY <2>1, AnsweredIsTaken DEF Latest, Steady
  <2>3. kind[m] # "egress" /\ InForce(m)
    BY <2>1, <2>2, HandIsLatest DEF AckedInv
  <2> QED
    BY <2>1, <2>3 DEF InForce
<1>18. CASE UpdateRules
  <2> SUFFICES ASSUME NEW m \in Msg, fate'[m] = "ok", Latest(m)' PROVE InForce(m)'
      BY DEF AckedInv
  <2>1. /\ UNCHANGED <<cfg, fate, kind, items, hand>>
        /\ kind[hand] = "iptables" /\ hand # NoMsg
    BY <1>18 DEF UpdateRules, ProcessorGoes, stream, proxies, ProcInv, TypeOK
  <2>2. fate[m] = "ok" /\ Latest(m)
    BY <2>1, AnsweredIsTaken DEF Latest, Steady
  <2>3. kind[m] # "iptables" /\ InForce(m)
    BY <2>1, <2>2, HandIsLatest DEF AckedInv
  <2> QED
    BY <2>1, <2>3 DEF InForce, Installed
<1>19. CASE TaskKnown
  <2>1. UNCHANGED <<cfg, rules>> /\ \A m \in Msg : fate'[m] = "ok" => fate[m] = "ok"
    BY <1>19 DEF TaskKnown, ProcessorGoes, TypeOK
  <2> QED
    BY <2>1, AckedKept
<1>20. ASSUME NEW w \in Worker, Spawn(w) PROVE AckedInv'
  <2>1. UNCHANGED <<cfg, rules>> /\ \A m \in Msg : fate'[m] = "ok" => fate[m] = "ok"
    BY <1>20 DEF Spawn, ProcessorRests, TypeOK
  <2> QED
    BY <2>1, AckedKept
<1>21. ASSUME NEW w \in Worker, RunTask(w) PROVE AckedInv'
  <2>1. UNCHANGED <<cfg, rules>> /\ \A m \in Msg : fate'[m] = "ok" => fate[m] = "ok"
    BY <1>21 DEF RunTask, WorkerGoes, TypeOK
  <2> QED
    BY <2>1, AckedKept
<1>22. ASSUME NEW w \in Worker, LockForRestart(w) PROVE AckedInv'
  <2>1. UNCHANGED <<cfg, rules>> /\ \A m \in Msg : fate'[m] = "ok" => fate[m] = "ok"
    BY <1>22 DEF LockForRestart, Acquire, WorkerGoes, TypeOK
  <2> QED
    BY <2>1, AckedKept
<1>23. ASSUME NEW w \in Worker, RestartEnds(w) PROVE AckedInv'
  <2>1. UNCHANGED <<cfg, rules>> /\ \A m \in Msg : fate'[m] = "ok" => fate[m] = "ok"
    BY <1>23 DEF RestartEnds, Release, WorkerGoes, TypeOK
  <2> QED
    BY <2>1, AckedKept
<1>24. ASSUME NEW w \in Worker, TaskEnds(w) PROVE AckedInv'
  <2>1. /\ UNCHANGED <<cfg, rules, kind>> /\ kind[worker[w].msg] = "task"
        /\ fate' = [fate EXCEPT ![worker[w].msg] = worker[w].at]
    BY <1>24 DEF TaskEnds, Settle, FateInv, TypeOK
  <2>2. \A m \in Msg : fate'[m] = "ok" => fate[m] = "ok" \/ kind'[m] = "task"
    BY <2>1 DEF TypeOK
  <2> QED
    BY <2>1, <2>2, AckedKept
<1>25. ASSUME NEW w \in Worker, NEW e \in Egress, RestartStops(w, e) PROVE AckedInv'
  <2>1. UNCHANGED <<cfg, rules>> /\ \A m \in Msg : fate'[m] = "ok" => fate[m] = "ok"
    BY <1>25 DEF RestartStops, Restarting, TypeOK
  <2> QED
    BY <2>1, AckedKept
<1>26. ASSUME NEW w \in Worker, NEW e \in Egress, RestartStarts(w, e) PROVE AckedInv'
  <2>1. UNCHANGED <<cfg, rules>> /\ \A m \in Msg : fate'[m] = "ok" => fate[m] = "ok"
    BY <1>26 DEF RestartStarts, Restarting, TypeOK
  <2> QED
    BY <2>1, AckedKept
<1>27. CASE Signal
  <2>1. UNCHANGED <<cfg, rules>> /\ \A m \in Msg : fate'[m] = "ok" => fate[m] = "ok"
    BY <1>27 DEF Signal, MainGoes, TypeOK
  <2> QED
    BY <2>1, AckedKept
<1>28. CASE StopWait
  <2>1. UNCHANGED <<cfg, rules>> /\ \A m \in Msg : fate'[m] = "ok" => fate[m] = "ok"
    BY <1>28 DEF StopWait, MainGoes, TypeOK
  <2> QED
    BY <2>1, AckedKept
<1>29. CASE StopExit
  <2>1. UNCHANGED <<cfg, rules>> /\ \A m \in Msg : fate'[m] = "ok" => fate[m] = "ok"
    BY <1>29 DEF StopExit, MainGoes, TypeOK
  <2> QED
    BY <2>1, AckedKept
<1>30. CASE UNCHANGED vars
  <2>1. UNCHANGED <<cfg, rules>> /\ \A m \in Msg : fate'[m] = "ok" => fate[m] = "ok"
    BY <1>30 DEF TypeOK
  <2> QED
    BY <2>1, AckedKept
<1>31. CASE WriterPanics
  <2>1. UNCHANGED <<cfg, rules>> /\ \A m \in Msg : fate'[m] = "ok" => fate[m] = "ok"
    BY <1>31 DEF WriterPanics, TypeOK
  <2> QED
    BY <2>1, AckedKept
<1> QED
  BY <1>1, <1>2, <1>3, <1>4, <1>5, <1>6, <1>7, <1>8, <1>9, <1>10, <1>11, <1>12, <1>13,
     <1>14, <1>15, <1>16, <1>17, <1>18, <1>19, <1>20, <1>21, <1>22, <1>23, <1>24, <1>25,
     <1>26, <1>27, <1>28, <1>29, <1>30, <1>31
  DEF Next, ReaderStep, ProcessorStep, WorkerStep, StopStep

\* Agent's invariant that what was acknowledged is in force.
THEOREM AckedInForce == Spec => []AckedIsInForce
<1>1. TypeOK /\ AckedInv => AckedIsInForce
  <2> SUFFICES ASSUME TypeOK, AckedInv, NEW m \in Msg,
                      fate[m] = "ok", kind[m] \in {"egress", "iptables"},
                      \A n \in Taken : kind[n] = kind[m] => n <= m
               PROVE  InForce(m)
      BY DEF AckedIsInForce, InForce, Installed
  <2>1. Latest(m)
    BY TakenIs DEF Latest
  <2> QED
    BY <2>1 DEF AckedInv
<1> QED
  BY <1>1, InitTypes, TypeNext, InitLocks, LockNext, InitQueue, QueueNext, InitFate, FateNext,
     InitProc, ProcNext, InitAcked, AckedNext, PTL DEF Spec

----------------------------------------------------------------------------
(* Agent implements MessageService.                                        *)

\* What the mapping needs besides: every message that is read has its handler, and no
\* two goroutines have the same message, nor one that is answered.
HandInv ==
    /\ \A m \in Msg : m <= arrived => kind[m] \in Kinds
    /\ hand # NoMsg => (processor = "brief" <=> kind[hand] = "brief")

TasksApart ==
    /\ \A w \in Working : fate[worker[w].msg] = "open"
    /\ \A w, x \in Working : worker[w].msg = worker[x].msg => w = x

\* The processor visits no egress but those its message names.
EachAsked == processor = "update" => todo \subseteq items[hand]

LEMMA InitApart == Init => HandInv /\ TasksApart /\ EachAsked
  BY DEF Init, HandInv, TasksApart, EachAsked, Working

LEMMA HandNext == TypeOK /\ QueueInv /\ FateInv /\ HandInv /\ [Next]_vars => HandInv'
<1> SUFFICES ASSUME TypeOK, QueueInv, FateInv, HandInv, [Next]_vars PROVE HandInv'
    OBVIOUS
<1>1. ASSUME NEW k \in Kinds, NEW es \in Configs \cup {{}}, ReadMessage(k, es) PROVE HandInv'
  <2>1. /\ arrived \in Nat /\ arrived' = arrived + 1 /\ UNCHANGED <<hand, processor>>
        /\ kind' = [kind EXCEPT ![arrived + 1] = k]
    BY <1>1 DEF ReadMessage, TypeOK
  <2>2. \A m \in Msg : m <= arrived' => kind'[m] \in Kinds
    BY <2>1 DEF HandInv, TypeOK
  <2>3. hand # NoMsg => kind'[hand] = kind[hand]
    BY <2>1 DEF QueueInv, Before, TypeOK
  <2> QED
    BY <2>1, <2>2, <2>3 DEF HandInv
<1>2. CASE Take
  <2>1. /\ hand' = buffer[1] /\ 1 \in 1..Len(buffer) /\ processor' = HandlerOf(kind[hand'])
        /\ UNCHANGED <<kind, arrived>>
    BY <1>2, TailIs DEF Take, TypeOK
  <2>2. hand' \in Msg /\ hand' <= arrived
    BY <2>1 DEF QueueInv, TypeOK
  <2>3. kind[hand'] \in Kinds
    BY <2>2 DEF HandInv
  <2> QED
    BY <2>1, <2>3 DEF HandInv, HandlerOf
<1>3. ASSUME UNCHANGED <<kind, arrived, hand>>, processor' = "brief" <=> processor = "brief"
      PROVE  HandInv'
  BY <1>3 DEF HandInv
<1>4. CASE ReaderTop \/ ReadFails \/ Put \/ PutStops \/ Drop
  BY <1>3, <1>4 DEF ReaderTop, ReadFails, Put, PutStops, Drop
<1>5. CASE ProcessorStops
  BY <1>5 DEF ProcessorStops, TypeOK, HandInv
<1>6. CASE HandlerEnds
  BY <1>6 DEF HandlerEnds, ProcessorRests, HandInv
<1>7. CASE LockForUpdate \/ UpdateEnds \/ GetStatus \/ UpdateRules \/ TaskKnown
  BY <1>3, <1>7 DEF LockForUpdate, UpdateEnds, GetStatus, UpdateRules, TaskKnown, ProcessorGoes
<1>8. ASSUME NEW e \in Egress,
             StopExisting(e) \/ Configure(e) \/ ConfigureFails(e) \/ ConfigurePanics(e) \/ Remove(e)
      PROVE  HandInv'
  BY <1>3, <1>8 DEF StopExisting, Configure, ConfigureFails, ConfigurePanics, Remove, Updating
<1>9. ASSUME NEW w \in Worker, Spawn(w) PROVE HandInv'
  BY <1>9 DEF Spawn, ProcessorRests, HandInv
<1>10. ASSUME NEW w \in Worker, WorkerStep(w) PROVE HandInv'
  BY <1>3, <1>10 DEF WorkerStep, RunTask, LockForRestart, RestartEnds, TaskEnds, RestartStops,
                     RestartStarts, Restarting
<1>11. CASE Signal \/ StopStep \/ WriterPanics
  BY <1>3, <1>11 DEF Signal, StopStep, StopWait, StopExit, WriterPanics, MainGoes
<1>12. CASE UNCHANGED vars
  BY <1>3, <1>12
<1> QED
  BY <1>1, <1>2, <1>4, <1>5, <1>6, <1>7, <1>8, <1>9, <1>10, <1>11, <1>12
  DEF Next, ReaderStep, ProcessorStep

LEMMA AskedNext == TypeOK /\ LockInv /\ QueueInv /\ EachAsked /\ [Next]_vars => EachAsked'
<1> SUFFICES ASSUME TypeOK, LockInv, QueueInv, EachAsked, [Next]_vars PROVE EachAsked'
    OBVIOUS
<1>1. ASSUME UNCHANGED <<hand, items>>, todo' \subseteq todo, processor' = "update" => processor = "update"
      PROVE  EachAsked'
  BY <1>1 DEF EachAsked
<1>2. ASSUME processor' # "update" PROVE EachAsked'
  BY <1>2 DEF EachAsked
<1>3. ASSUME NEW k \in Kinds, NEW es \in Configs \cup {{}}, ReadMessage(k, es) PROVE EachAsked'
  <2>1. processor = "update" => hand \in Msg /\ Before(hand)
    BY DEF TypeOK, QueueInv
  <2> QED
    BY <1>3, <2>1 DEF ReadMessage, EachAsked, TypeOK, Before
<1>4. CASE ReaderTop \/ ReadFails \/ Put \/ PutStops \/ Drop
  BY <1>1, <1>4 DEF ReaderTop, ReadFails, Put, PutStops, Drop
<1>5. CASE Take
  BY <1>2, <1>5 DEF Take, HandlerOf
<1>6. CASE ProcessorStops \/ HandlerEnds \/ UpdateEnds \/ GetStatus \/ UpdateRules \/ TaskKnown
  BY <1>2, <1>6 DEF ProcessorStops, HandlerEnds, UpdateEnds, GetStatus, UpdateRules, TaskKnown,
     ProcessorGoes, ProcessorRests
<1>7. CASE LockForUpdate
  BY <1>7 DEF LockForUpdate, Acquire, ProcessorGoes, EachAsked
<1>8. ASSUME NEW e \in Egress,
             StopExisting(e) \/ Configure(e) \/ ConfigureFails(e) \/ ConfigurePanics(e) \/ Remove(e)
      PROVE  EachAsked'
  BY <1>1, <1>8 DEF StopExisting, Configure, ConfigureFails, ConfigurePanics, Remove, Updating
<1>9. ASSUME NEW w \in Worker, Spawn(w) PROVE EachAsked'
  BY <1>2, <1>9 DEF Spawn, ProcessorRests
<1>10. ASSUME NEW w \in Worker, LockForRestart(w) PROVE EachAsked'
  BY <1>2, <1>10 DEF LockForRestart, Acquire, LockInv
<1>11. ASSUME NEW w \in Worker, WorkerStep(w), ~LockForRestart(w) PROVE EachAsked'
  BY <1>1, <1>11 DEF WorkerStep, RunTask, RestartEnds, Release, TaskEnds, RestartStops,
                     RestartStarts, Restarting
<1>12. CASE Signal \/ StopStep \/ WriterPanics
  BY <1>1, <1>12 DEF Signal, StopStep, StopWait, StopExit, WriterPanics, MainGoes
<1>13. CASE UNCHANGED vars
  BY <1>1, <1>13
<1> QED
  BY <1>3, <1>4, <1>5, <1>6, <1>7, <1>8, <1>9, <1>10, <1>11, <1>12, <1>13
  DEF Next, ReaderStep, ProcessorStep

LEMMA ApartNext == TypeOK /\ QueueInv /\ FateInv /\ TasksApart /\ [Next]_vars => TasksApart'
<1> SUFFICES ASSUME TypeOK, QueueInv, FateInv, TasksApart, [Next]_vars PROVE TasksApart'
    OBVIOUS
<1>0. \A w \in Working : w \in Worker /\ worker[w].msg \in Msg
  BY DEF Working, TypeOK
<1>1. ASSUME UNCHANGED worker, \A m \in Msg : fate'[m] = fate[m] \/ \A w \in Working : worker[w].msg # m
      PROVE  TasksApart'
  BY <1>0, <1>1 DEF TasksApart, Working
<1>2. ASSUME UNCHANGED fate, \A w \in Worker : worker'[w].msg = worker[w].msg,
             \A w \in Worker : worker[w].at = "free" => worker'[w].at = "free"
      PROVE  TasksApart'
  BY <1>0, <1>2 DEF TasksApart, Working
<1>3. CASE PutStops \/ Drop
  <2>1. reader = "put" /\ UNCHANGED worker /\ fate' = [fate EXCEPT ![arrived] = "dropped"]
    BY <1>3 DEF PutStops, Drop, Settle
  <2>2. \A w \in Working : worker[w].msg # arrived
    BY <1>0, <2>1 DEF QueueInv, Before, Working
  <2> QED
    BY <1>1, <2>1, <2>2 DEF TypeOK
<1>4. CASE HandlerEnds
  <2>1. hand \in Msg /\ UNCHANGED worker /\ fate' = [fate EXCEPT ![hand] = processor]
    BY <1>4 DEF HandlerEnds, Settle, TypeOK
  <2>2. \A w \in Working : worker[w].msg # hand
    BY <1>0, <2>1 DEF FateInv, Working
  <2> QED
    BY <1>1, <2>1, <2>2 DEF TypeOK
<1>5. ASSUME NEW w \in Worker, Spawn(w) PROVE TasksApart'
  <2>1. /\ hand \in Msg /\ hand # NoMsg /\ UNCHANGED fate /\ fate[hand] = "open"
        /\ worker'[w].msg = hand /\ \A x \in Worker \ {w} : worker'[x] = worker[x]
    BY <1>5 DEF Spawn, TypeOK, FateInv
  <2>2. \A x \in Working : worker[x].msg < hand
    BY <2>1 DEF FateInv, Working
  <2>3. \A x \in Working' : x = w \/ (x \in Working /\ worker'[x] = worker[x])
    BY <2>1 DEF Working
  <2> QED
    BY <1>0, <2>1, <2>2, <2>3 DEF TasksApart
<1>6. ASSUME NEW w \in Worker, TaskEnds(w) PROVE TasksApart'
  <2>1. /\ w \in Working /\ w \notin Working' /\ worker[w].msg \in Msg
        /\ \A m \in Msg : m # worker[w].msg => fate'[m] = fate[m]
        /\ \A x \in Worker \ {w} : worker'[x] = worker[x]
    BY <1>6 DEF TaskEnds, Settle, TypeOK, Working
  <2>2. \A x \in Working' : x \in Working /\ x # w /\ worker'[x] = worker[x]
    BY <2>1 DEF Working
  <2> QED
    BY <1>0, <2>1, <2>2 DEF TasksApart
<1>7. ASSUME NEW w \in Worker, RunTask(w) \/ LockForRestart(w) \/ RestartEnds(w) PROVE TasksApart'
  <2>1. UNCHANGED fate /\ worker[w].at # "free" /\ \E l \in WorkerPcs : WorkerGoes(w, l)
    BY <1>7 DEF RunTask, LockForRestart, RestartEnds
  <2> QED
    BY <1>2, <2>1 DEF WorkerGoes, TypeOK
<1>8. ASSUME UNCHANGED <<worker, fate>> PROVE TasksApart'
  BY <1>1, <1>8
<1>9. CASE UNCHANGED vars
  BY <1>8, <1>9
<1>10. CASE Signal \/ StopStep \/ WriterPanics
  BY <1>8, <1>10 DEF Signal, StopStep, StopWait, StopExit, WriterPanics, MainGoes
<1>11. CASE ReaderStep
  BY <1>3, <1>8, <1>11 DEF ReaderStep, ReaderTop, ReadFails, Put, ReadMessage
<1>12. CASE ProcessorStep
  BY <1>4, <1>5, <1>8, <1>12 DEF ProcessorStep, Take, ProcessorStops, LockForUpdate, UpdateEnds,
     GetStatus, UpdateRules, TaskKnown, StopExisting, Configure, ConfigureFails, ConfigurePanics,
     Remove, Updating
<1>13. ASSUME NEW w \in Worker, WorkerStep(w) PROVE TasksApart'
  BY <1>6, <1>7, <1>8, <1>13 DEF WorkerStep, RestartStops, RestartStarts, Restarting
<1> QED
  BY <1>9, <1>10, <1>11, <1>12, <1>13 DEF Next

USE DEF Service!Msg, Service!NoMsg, Service!Kinds

\* What the server sees of a step is what it does to these.
Seen == <<Up, Received, KindOf, ItemsOf, buffer, hand, Tasks, fate, cfg, rules>>

LEMMA Stutters == ASSUME UNCHANGED Seen PROVE UNCHANGED Service!vars
  BY DEF Seen, Service!vars

LEMMA UpKept == ASSUME main' = main PROVE Up' = Up
  BY DEF Up

LEMMA StreamKept ==
    ASSUME UNCHANGED <<arrived, kind, items>>, reader' = "put" <=> reader = "put"
    PROVE  UNCHANGED <<Received, KindOf, ItemsOf>>
<1>1. Received' = Received
  BY DEF Received
<1> QED
  BY <1>1 DEF KindOf, ItemsOf

LEMMA TasksKept ==
    ASSUME \A w \in Worker : worker'[w].msg = worker[w].msg,
           \A w \in Worker : worker'[w].at = "free" <=> worker[w].at = "free"
    PROVE  Tasks' = Tasks
<1>1. Working' = Working
  BY DEF Working
<1> QED
  BY <1>1 DEF Tasks, Working

\* The processor is seen to handle the message that came, of the kind it came with.
LEMMA HandIsReceived ==
    ASSUME TypeOK, QueueInv, hand # NoMsg
    PROVE  /\ hand \in Msg /\ hand <= Received
           /\ KindOf[hand] = kind[hand] /\ ItemsOf[hand] = items[hand]
<1>1. hand \in Msg /\ Before(hand) /\ arrived \in Nat
  BY DEF TypeOK, QueueInv
<1>2. hand <= Received
  BY <1>1 DEF Before, Received
<1> QED
  BY <1>1, <1>2 DEF KindOf, ItemsOf

\* The reader's message is received when it has been put or given up.
LEMMA ReceiveSimulates ==
    ASSUME TypeOK, HandInv, FateInv, Alive, Put \/ PutStops \/ Drop
    PROVE  Service!Next
<1> DEFINE m == arrived
<1>1. /\ m \in Msg /\ reader = "put" /\ reader' # "put" /\ Received = m - 1 /\ Received' = m
      /\ Received + 1 = m
      /\ UNCHANGED <<main, arrived, kind, items, hand, worker, cfg, rules>>
  BY DEF Put, PutStops, Drop, Received, TypeOK
<1>2. UNCHANGED <<Up, hand, Tasks, cfg, rules>>
  BY <1>1, UpKept, TasksKept
<1>3. /\ KindOf' = [KindOf EXCEPT ![m] = kind[m]]
      /\ ItemsOf' = [ItemsOf EXCEPT ![m] = items[m]]
  <2>1. \A n \in Msg : (n <= Received') <=> (n <= Received \/ n = m)
    BY <1>1
  <2>2. KindOf' = [KindOf EXCEPT ![m] = kind[m]]
    BY <1>1, <2>1 DEF KindOf
  <2>3. ItemsOf' = [ItemsOf EXCEPT ![m] = items[m]]
    BY <1>1, <2>1 DEF ItemsOf
  <2> QED
    BY <2>2, <2>3
<1>4. kind[m] \in Kinds /\ items[m] \in SUBSET Egress
  BY <1>1 DEF HandInv, TypeOK
<1>5. \/ Len(buffer) < Capacity /\ buffer' = Append(buffer, m) /\ UNCHANGED fate
      \/ /\ Len(buffer) = Capacity \/ Up = "stopping"
         /\ fate[m] = "open" /\ fate' = [fate EXCEPT ![m] = "dropped"] /\ UNCHANGED buffer
  <2>1. CASE Put
    BY <2>1 DEF Put, HasRoom
  <2>2. CASE PutStops
    <3>1. Up = "stopping"
      BY <2>2 DEF PutStops, cancelled, bufferClosed, Alive, Up
    <3> QED
      BY <2>2, <3>1 DEF PutStops, Settle, FateInv
  <2>3. CASE Drop
    <3>1. Len(buffer) = Capacity
      BY <2>3 DEF Drop, HasRoom, TypeOK
    <3> QED
      BY <2>3, <3>1 DEF Drop, Settle, FateInv
  <2> QED
    BY <2>1, <2>2, <2>3
<1>6. Service!Receive(kind[m], items[m])
  BY <1>1, <1>2, <1>3, <1>5 DEF Service!Receive, Service!Settle
<1>7. Up \in {"up", "stopping"}
  BY DEF Alive, Up
<1> QED
  BY <1>4, <1>6, <1>7 DEF Service!Next

\* The answer the processor gives is the one the abstract message is owed.
LEMMA AnswerSimulates ==
    ASSUME TypeOK, QueueInv, FateInv, ProcInv, HandInv, HandlerEnds
    PROVE  Service!Answer(processor)
<1>1. /\ hand \in Msg /\ hand # NoMsg /\ KindOf[hand] = kind[hand] /\ ItemsOf[hand] = items[hand]
  BY HandIsReceived DEF HandlerEnds, TypeOK
<1>2. /\ UNCHANGED <<main, reader, buffer, arrived, kind, items, worker, cfg, rules>>
      /\ hand' = NoMsg /\ fate' = [fate EXCEPT ![hand] = processor] /\ fate[hand] = "open"
  BY <1>1 DEF HandlerEnds, Settle, ProcessorRests, FateInv
<1>3. UNCHANGED <<Up, Received, KindOf, ItemsOf, Tasks>>
  BY <1>2, UpKept, StreamKept, TasksKept
<1>4. processor = "brief" <=> KindOf[hand] = "brief"
  BY <1>1 DEF HandInv
<1>5. processor = "ok" => Service!InForce
  BY <1>1 DEF ProcInv, Installed, Service!InForce, Service!Asked
<1> QED
  BY <1>1, <1>2, <1>3, <1>4, <1>5 DEF Service!Answer, Service!Settle

\* The egress that is configured or given up comes to what the message in hand asks for.
LEMMA ChangeSimulates ==
    ASSUME TypeOK, QueueInv, ProcInv, EachAsked, NEW e \in Egress, Configure(e) \/ Remove(e)
    PROVE  Service!Change(e)
<1>1. /\ processor = "update" /\ hand \in Msg /\ hand # NoMsg /\ kind[hand] = "egress"
      /\ UNCHANGED <<main, reader, buffer, arrived, kind, items, hand, fate, worker, rules>>
  BY DEF Configure, Remove, Updating, ProcInv, TypeOK
<1>2. /\ KindOf[hand] = kind[hand] /\ ItemsOf[hand] = items[hand]
  BY <1>1, HandIsReceived
<1>3. UNCHANGED <<Up, Received, KindOf, ItemsOf, Tasks>>
  BY <1>1, UpKept, StreamKept, TasksKept
<1>4. cfg' = [cfg EXCEPT ![e] = IF e \in items[hand] THEN hand ELSE NoMsg]
  BY <1>1 DEF Configure, Remove, Superfluous, EachAsked
<1> QED
  BY <1>1, <1>2, <1>3, <1>4 DEF Service!Change, Service!Asked

\* The tasks: handed over by the processor, and ended by their goroutines.
LEMMA SpawnSimulates ==
    ASSUME TypeOK, QueueInv, FateInv, NEW w \in Worker, Spawn(w)
    PROVE  Service!HandOver
<1>1. /\ hand \in Msg /\ hand # NoMsg /\ KindOf[hand] = "task"
  BY HandIsReceived DEF Spawn, FateInv, TypeOK
<1>2. /\ UNCHANGED <<main, reader, arrived, kind, items, buffer, fate, cfg, rules>> /\ hand' = NoMsg
      /\ w \notin Working /\ \A x \in Worker \ {w} : worker'[x] = worker[x]
      /\ worker'[w].at # "free" /\ worker'[w].msg = hand
  BY DEF Spawn, ProcessorRests, Working, TypeOK
<1>3. UNCHANGED <<Up, Received, KindOf, ItemsOf>>
  BY <1>2, UpKept, StreamKept
<1>4. Working' = Working \cup {w}
  BY <1>2 DEF Working
<1>5. Tasks' = Tasks \cup {hand}
  BY <1>2, <1>4 DEF Tasks, Working
<1> QED
  BY <1>1, <1>2, <1>3, <1>5 DEF Service!HandOver

LEMMA TaskSimulates ==
    ASSUME TypeOK, TasksApart, NEW w \in Worker, TaskEnds(w)
    PROVE  /\ worker[w].msg \in Msg /\ worker[w].at \in {"ok", "error"}
           /\ Service!TaskEnds(worker[w].msg, worker[w].at)
<1> DEFINE m == worker[w].msg
<1>1. /\ UNCHANGED <<main, reader, arrived, kind, items, buffer, hand, cfg, rules>>
      /\ w \in Working /\ m \in Msg /\ worker[w].at \in {"ok", "error"}
      /\ fate' = [fate EXCEPT ![m] = worker[w].at]
      /\ worker'[w].at = "free" /\ \A x \in Worker \ {w} : worker'[x] = worker[x]
  BY DEF TaskEnds, Settle, Working, TypeOK
<1>2. UNCHANGED <<Up, Received, KindOf, ItemsOf>>
  BY <1>1, UpKept, StreamKept
<1>3. Working' = Working \ {w}
  BY <1>1 DEF Working
<1>4. Tasks' = Tasks \ {m}
  <2>1. Tasks' = {worker[x].msg : x \in Working \ {w}}
    BY <1>1, <1>3 DEF Tasks, Working
  <2>2. \A x \in Working \ {w} : worker[x].msg # m
    BY <1>1 DEF TasksApart
  <2> QED
    BY <2>1, <2>2 DEF Tasks
<1>5. m \in Tasks /\ fate[m] = "open"
  BY <1>1 DEF Tasks, TasksApart
<1> QED
  BY <1>1, <1>2, <1>4, <1>5 DEF Service!TaskEnds, Service!Settle

IInv ==
    /\ TypeOK /\ LockInv /\ QueueInv /\ FateInv /\ ProcInv
    /\ HandInv /\ TasksApart /\ EachAsked

LEMMA Invariance == Spec => []IInv
<1>1. Init => IInv
  BY InitTypes, InitLocks, InitQueue, InitFate, InitProc, InitApart DEF IInv
<1>2. IInv /\ [Next]_vars => IInv'
  BY TypeNext, LockNext, QueueNext, FateNext, ProcNext, HandNext, ApartNext, AskedNext DEF IInv
<1> QED
  BY <1>1, <1>2, PTL DEF Spec

\* Every step of the agent is a step of the service, or is not seen.
LEMMA StepSimulates == IInv /\ [Next]_vars => [Service!Next]_Service!vars
<1> SUFFICES ASSUME IInv, [Next]_vars PROVE [Service!Next]_Service!vars
    OBVIOUS
<1> USE DEF IInv
<1>a. CASE UNCHANGED vars
  <2>1. UNCHANGED Seen
    BY <1>a, UpKept, StreamKept, TasksKept DEF Seen
  <2> QED
    BY <2>1, Stutters
<1>b. SUFFICES ASSUME Alive, Next PROVE [Service!Next]_Service!vars
  BY <1>a DEF Next
<1>c. Up \in {"up", "stopping"}
  BY <1>b DEF Alive, Up
<1>d. ASSUME UNCHANGED <<main, arrived, kind, items, buffer, hand, fate, cfg, rules>>,
             reader' = "put" <=> reader = "put", Tasks' = Tasks
      PROVE  UNCHANGED Service!vars
  <2>1. UNCHANGED Seen
    BY <1>d, UpKept, StreamKept DEF Seen
  <2> QED
    BY <2>1, Stutters
<1>e. ASSUME UNCHANGED <<main, stream, hand, fate, worker, cfg, rules>> PROVE UNCHANGED Service!vars
  BY <1>d, <1>e, TasksKept
<1>1. CASE ReaderTop \/ ReadFails
  <2>1. /\ UNCHANGED <<main, arrived, kind, items, buffer, hand, fate, cfg, rules, worker>>
        /\ reader # "put" /\ reader' # "put"
    BY <1>1 DEF ReaderTop, ReadFails
  <2> QED
    BY <1>d, <2>1, TasksKept
<1>2. ASSUME NEW k \in Kinds, NEW es \in Configs \cup {{}}, ReadMessage(k, es)
      PROVE  UNCHANGED Service!vars
  <2>1. /\ UNCHANGED <<main, buffer, hand, fate, cfg, rules, worker>>
        /\ reader = "read" /\ reader' = "put" /\ arrived \in Nat /\ arrived' = arrived + 1
        /\ kind' = [kind EXCEPT ![arrived + 1] = k] /\ items' = [items EXCEPT ![arrived + 1] = es]
    BY <1>2 DEF ReadMessage, TypeOK
  <2>2. Received = arrived /\ Received' = arrived
    BY <2>1 DEF Received
  <2>3. \A m \in Msg : m <= arrived => kind'[m] = kind[m] /\ items'[m] = items[m]
    BY <2>1 DEF TypeOK
  <2>4. KindOf' = KindOf /\ ItemsOf' = ItemsOf
    BY <2>2, <2>3 DEF KindOf, ItemsOf
  <2>5. UNCHANGED Seen
    BY <2>1, <2>2, <2>4, UpKept, TasksKept DEF Seen
  <2> QED
    BY <2>5, Stutters
<1>3. CASE Put \/ PutStops \/ Drop
  BY <1>b, <1>3, ReceiveSimulates
<1>4. CASE Take
  <2>1. /\ UNCHANGED <<main, reader, arrived, kind, items, fate, worker, cfg, rules>>
        /\ hand = NoMsg /\ buffer # <<>> /\ hand' = Head(buffer) /\ buffer' = Tail(buffer)
    BY <1>4 DEF Take, TypeOK
  <2>2. UNCHANGED <<Up, Received, KindOf, ItemsOf, Tasks>>
    BY <2>1, UpKept, StreamKept, TasksKept
  <2>3. Service!Take
    BY <2>1, <2>2 DEF Service!Take
  <2> QED
    BY <1>c, <2>3 DEF Service!Next
<1>5. CASE ProcessorStops \/ LockForUpdate \/ UpdateEnds \/ GetStatus \/ TaskKnown
  BY <1>e, <1>5 DEF ProcessorStops, LockForUpdate, UpdateEnds, GetStatus, TaskKnown, ProcessorGoes,
                    Acquire, Release
<1>6. CASE HandlerEnds
  <2>1. Service!Answer(processor) /\ processor \in {"ok", "error", "brief"}
    BY <1>6, AnswerSimulates DEF HandlerEnds
  <2> QED
    BY <1>c, <2>1 DEF Service!Next
<1>7. ASSUME NEW e \in Egress, StopExisting(e) \/ ConfigureFails(e) PROVE UNCHANGED Service!vars
  BY <1>e, <1>7 DEF StopExisting, ConfigureFails, Updating
<1>8. ASSUME NEW e \in Egress, Configure(e) \/ Remove(e) PROVE Service!Next
  BY <1>c, <1>8, ChangeSimulates DEF Service!Next
<1>9. ASSUME WriterPanics \/ \E e \in Egress : ConfigurePanics(e) PROVE Service!Next
  <2>1. main' = "panicked" /\ UNCHANGED <<stream, hand, fate, worker, cfg, rules>>
    BY <1>9 DEF WriterPanics, ConfigurePanics
  <2>2. UNCHANGED <<Received, KindOf, ItemsOf, Tasks, buffer, hand, fate, cfg, rules>>
    BY <2>1, StreamKept, TasksKept
  <2>3. Service!Goes(Up, "panicked")
    BY <2>1, <2>2 DEF Service!Goes, Up
  <2>4. Service!Panic
    BY <1>c, <2>3 DEF Service!Panic
  <2> QED
    BY <1>c, <2>4 DEF Service!Next
<1>10. CASE UpdateRules
  <2>1. /\ hand # NoMsg /\ KindOf[hand] = "iptables" /\ rules' \in {hand, NoMsg}
        /\ UNCHANGED <<main, reader, arrived, kind, items, buffer, hand, fate, worker, cfg>>
    BY <1>10, HandIsReceived DEF UpdateRules, ProcessorGoes, ProcInv, TypeOK
  <2>2. UNCHANGED <<Up, Received, KindOf, ItemsOf, Tasks>>
    BY <2>1, UpKept, StreamKept, TasksKept
  <2>3. Service!Load
    BY <2>1, <2>2 DEF Service!Load
  <2> QED
    BY <1>c, <2>3 DEF Service!Next
<1>11. ASSUME NEW w \in Worker, Spawn(w) PROVE Service!Next
  BY <1>c, <1>11, SpawnSimulates DEF Service!Next
<1>12. ASSUME NEW w \in Worker, TaskEnds(w) PROVE Service!Next
  BY <1>c, <1>12, TaskSimulates DEF Service!Next
<1>13. ASSUME NEW w \in Worker, RunTask(w) \/ LockForRestart(w) \/ RestartEnds(w)
       PROVE  UNCHANGED Service!vars
  <2>1. /\ UNCHANGED <<main, stream, hand, fate, cfg, rules>> /\ worker[w].at # "free"
        /\ \E l \in WorkerPcs \ {"free"} : WorkerGoes(w, l)
    BY <1>13 DEF RunTask, LockForRestart, RestartEnds, Acquire, Release
  <2>2. Tasks' = Tasks
    BY <2>1, TasksKept DEF WorkerGoes, TypeOK
  <2> QED
    BY <1>d, <2>1, <2>2
<1>14. ASSUME NEW w \in Worker, NEW e \in Egress, RestartStops(w, e) \/ RestartStarts(w, e)
       PROVE  UNCHANGED Service!vars
  BY <1>e, <1>14 DEF RestartStops, RestartStarts, Restarting
<1>15. CASE Signal \/ StopExit
  <2>1. UNCHANGED <<Received, KindOf, ItemsOf, Tasks, buffer, hand, fate, cfg, rules>>
    BY <1>15, StreamKept, TasksKept DEF Signal, StopExit, MainGoes
  <2>2. CASE Signal
    <3>1. Service!Stop
      BY <2>1, <2>2 DEF Signal, MainGoes, Up, Service!Stop, Service!Goes
    <3> QED
      BY <1>c, <3>1 DEF Service!Next
  <2>3. CASE StopExit
    <3>1. hand = NoMsg
      BY <2>3 DEF StopExit, MainGoes, LockInv, bufferClosed, TypeOK
    <3>2. Service!Exit
      BY <2>1, <2>3, <3>1 DEF StopExit, MainGoes, Up, Service!Exit, Service!Goes
    <3> QED
      BY <1>c, <3>2 DEF Service!Next
  <2> QED
    BY <1>15, <2>2, <2>3
<1>16. CASE StopWait
  <2>1. Up' = Up /\ UNCHANGED <<stream, hand, fate, worker, cfg, rules>>
    BY <1>16 DEF StopWait, MainGoes, Up
  <2>2. UNCHANGED Seen
    BY <2>1, StreamKept, TasksKept DEF Seen
  <2> QED
    BY <2>2, Stutters
<1> QED
  BY <1>b, <1>1, <1>2, <1>3, <1>4, <1>5, <1>6, <1>7, <1>8, <1>9, <1>10, <1>11, <1>12, <1>13,
     <1>14, <1>15, <1>16
  DEF Next, ReaderStep, ProcessorStep, WorkerStep, StopStep

\* Agent implements MessageService: whatever its loops, tasks, mutex and stop do, the
\* server sees messages taken in order, answered once and truthfully.
THEOREM Implements == Spec => ImplementsMessages
<1>1. Init => Service!Init
  <2> SUFFICES ASSUME Init PROVE Service!Init
      OBVIOUS
  <2>1. Up = "up" /\ Received = 0 /\ Working = {}
    BY DEF Init, Up, Received, Working
  <2>2. /\ KindOf = [m \in Msg |-> "unread"] /\ ItemsOf = [m \in Msg |-> {}]
    BY <2>1 DEF KindOf, ItemsOf
  <2>3. Tasks = {}
    BY <2>1 DEF Tasks
  <2> QED
    BY <2>1, <2>2, <2>3 DEF Init, Service!Init
<1> QED
  BY <1>1, Invariance, StepSimulates, PTL DEF Spec, ImplementsMessages, Service!Spec
==============================================================================
