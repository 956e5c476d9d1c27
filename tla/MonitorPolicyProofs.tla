------------------------ MODULE MonitorPolicyProofs ------------------------
(***************************************************************************)
(* The restart policy of MonitorPolicy for any limits, cooldowns, window,  *)
(* history, number of registrations and length of time.                    *)
(***************************************************************************)
EXTENDS MonitorPolicy, FiniteSetTheorems, TLAPS

\* LastRestart is the latest of a state's restarts, and a restart that may begin or
\* has begun did so a cooldown after it.
TimesOK ==
    /\ \A s \in State : /\ last[s] <= now
                        /\ \A t \in done[s] : t <= last[s]
    /\ at = "count" /\ last[checked] # Never => now - last[checked] >= config.cooldown
    /\ at = "restart" => /\ started <= now /\ last[checked] <= started
                         /\ last[checked] # Never => started - last[checked] >= config.cooldown

Limited == config.max \in 0..HistoryCap

\* What the cut has dropped is an hour older than the latest restart.
DroppedIsOld ==
    Limited => \A s \in State : \A t \in done[s] \ history[s] : t + Hour <= last[s]

\* A restart in progress found fewer than the limit in the hour before it began.
RoomForOne ==
    Limited /\ at = "restart"
        => Cardinality({u \in done[checked] : u > started - Hour}) < config.max

\* A status that leads to "stopped" has its cause recorded, or the check that is to
\* record it is still running.
CausesOK ==
    \A s \in State :
        /\ status[s] = "stopped" => letdown[s]
        /\ status[s] = "crashed" => letdown[s] \/ (at \in {"limit", "count"} /\ checked = s)
        /\ status[s] = "restarting" => at = "restart" /\ checked = s

\* A history that has dropped a record is full, of records no older than that one.
NewestKept ==
    \A s \in State : \A t \in done[s] \ history[s] :
        Cardinality(history[s]) = HistoryCap /\ \A u \in history[s] : t <= u

\* The only read lock held from one step to the next is that of CanRestart, which waits
\* for its second.
ReadersInv == \A s \in State : readers[s] = IF at = "count" /\ checked = s THEN 1 ELSE 0

IInv ==
    /\ TypeOK /\ TimesOK /\ DroppedIsOld /\ RoomForOne /\ HourlyLimit /\ CausesOK
    /\ NewestKept /\ ReadersInv

USE DEF vars, fields, check, ghosts, None, Never, Statuses, Places, Become, Refuse

LEMMA FiniteDone ==
    ASSUME TypeOK, NEW s \in State, NEW T \in SUBSET done[s]
    PROVE  IsFiniteSet(T) /\ Cardinality(T) \in Nat
<1>1. now \in Int /\ T \in SUBSET (0..now)
  BY DEF TypeOK
<1>2. IsFiniteSet(0..now)
  BY <1>1, FS_Interval
<1> QED
  BY <1>1, <1>2, FS_Subset, FS_CardinalityType

LEMMA InitHolds == Init => IInv
<1> SUFFICES ASSUME Init PROVE IInv
    OBVIOUS
<1> USE PolicyAssumption DEF Init
<1>1. config \in [max : Int, cooldown : Int]
  BY DEF setDefaults, OrDefault
<1>2. TypeOK
  BY <1>1, FS_EmptySet DEF TypeOK
<1>3. TimesOK /\ DroppedIsOld /\ RoomForOne /\ CausesOK
  BY DEF TimesOK, DroppedIsOld, RoomForOne, CausesOK
<1>4. HourlyLimit /\ NewestKept /\ ReadersInv
  BY DEF HourlyLimit, NewestKept, ReadersInv
<1> QED
  BY <1>2, <1>3, <1>4 DEF IInv

\* What AddRestartRecord keeps: at most the cap, and all but possibly one record.
LEMMA CutKeeps ==
    ASSUME NEW S, IsFiniteSet(S), Cardinality(S) <= HistoryCap, NEW x,
           NEW kept \in SUBSET (S \cup {x}), Cut(S \cup {x}, kept)
    PROVE  Cardinality(kept) <= HistoryCap
<1> DEFINE h == S \cup {x}
<1>1. IsFiniteSet(h) /\ Cardinality(h) <= HistoryCap + 1
      /\ Cardinality(h) \in Nat /\ Cardinality(S) \in Nat
  <2>1. /\ IsFiniteSet(h)
        /\ Cardinality(h) = IF x \in S THEN Cardinality(S) ELSE Cardinality(S) + 1
        /\ Cardinality(h) \in Nat /\ Cardinality(S) \in Nat
    BY FS_AddElement, FS_CardinalityType
  <2> HIDE DEF h
  <2> QED
    BY <2>1, PolicyAssumption
<1>2. CASE Cardinality(h) <= HistoryCap
  BY <1>2 DEF Cut
<1>3. CASE ~(Cardinality(h) <= HistoryCap)
  <2>1. PICK t \in h : kept = h \ {t}
    BY <1>3 DEF Cut
  <2>2. Cardinality(kept) = Cardinality(h) - 1
    BY <1>1, <2>1, FS_RemoveElement
  <2> QED
    BY <1>1, <2>2, PolicyAssumption
<1> QED
  BY <1>2, <1>3

\* The restart that ends: what it adds to, and drops from, its state.
LEMMA RestartedEffect ==
    ASSUME TypeOK, Restarted
    PROVE  /\ checked \in State /\ at = "restart" /\ at' = "idle" /\ now > started
           /\ done' = [done EXCEPT ![checked] = @ \cup {now}]
           /\ last' = [last EXCEPT ![checked] = now]
           /\ \E ok \in BOOLEAN :
                /\ status' = [status EXCEPT ![checked] = IF ok THEN "running" ELSE "crashed"]
                /\ letdown' = [letdown EXCEPT ![checked] = ~ok]
           /\ \E kept \in SUBSET (history[checked] \cup {now}) :
                /\ Cut(history[checked] \cup {now}, kept)
                /\ history' = [history EXCEPT ![checked] = kept]
           /\ checked' = None /\ started' = 0
           /\ UNCHANGED <<now, config, current, enabled, readers, toggle, toggles>>
  BY DEF Restarted, LastRestart, TypeOK

\* Types, step by step.
LEMMA TypeNext == TypeOK /\ [Next]_vars => TypeOK'
<1> SUFFICES ASSUME TypeOK, [Next]_vars PROVE TypeOK'
    OBVIOUS
<1> USE PolicyAssumption
<1>1. CASE Tick
  BY <1>1 DEF Tick, TypeOK
<1>2. CASE RegisterProxy
  BY <1>2 DEF RegisterProxy, TypeOK
<1>3. ASSUME NEW e \in BOOLEAN, ToggleLock(e) PROVE TypeOK'
  BY <1>3 DEF ToggleLock, TypeOK
<1>4. CASE ToggleSet
  BY <1>4 DEF ToggleSet, TypeOK
<1>5. CASE Begin
  BY <1>5 DEF Begin, TypeOK
<1>6. CASE Read
  BY <1>6 DEF Read, TypeOK
<1>7. CASE Probe
  BY <1>7 DEF Probe, Verdict, TypeOK
<1>8. CASE Limit
  <2>1. CASE CoolingDown(checked)
    BY <1>8, <2>1 DEF Limit, TypeOK
  <2>2. CASE ~CoolingDown(checked)
    BY <1>8, <2>2 DEF Limit, TypeOK
  <2> QED
    BY <2>1, <2>2
<1>9. CASE Count
  <2>1. readers' \in [State -> Nat]
    <3>1. checked \in State /\ readers[checked] - 1 \in Nat
      BY <1>9 DEF Count, TypeOK
    <3> QED
      BY <1>9, <3>1 DEF Count, TypeOK
  <2>2. /\ checked \in State /\ status' \in [State -> Statuses] /\ letdown' \in [State -> BOOLEAN]
        /\ started' \in Nat
        /\ \/ at' = "restart" /\ checked' = checked
           \/ at' = "idle" /\ checked' = None
    <3>1. CASE WithinLimit(checked)
      BY <1>9, <3>1 DEF Count, TypeOK
    <3>2. CASE ~WithinLimit(checked)
      BY <1>9, <3>2 DEF Count, TypeOK
    <3> QED
      BY <3>1, <3>2
  <2>3. UNCHANGED <<now, config, current, enabled, last, history, toggle, toggles, done>>
    BY <1>9 DEF Count
  <2> QED
    BY <2>1, <2>2, <2>3 DEF TypeOK
<1>10. CASE Restarted
  <2>1. PICK kept \in SUBSET (history[checked] \cup {now}) :
           /\ Cut(history[checked] \cup {now}, kept)
           /\ history' = [history EXCEPT ![checked] = kept]
    BY <1>10, RestartedEffect
  <2>2. Cardinality(kept) <= HistoryCap
    <3>1. checked \in State /\ history[checked] \in SUBSET done[checked]
          /\ Cardinality(history[checked]) <= HistoryCap
      BY <1>10, RestartedEffect DEF TypeOK
    <3> QED
      BY <2>1, <3>1, FiniteDone, CutKeeps
  <2>3. ASSUME NEW s \in State
        PROVE  history'[s] \subseteq done'[s] /\ Cardinality(history'[s]) <= HistoryCap
    <3>1. CASE s = checked
      <4>1. history'[s] = kept /\ done'[s] = done[s] \cup {now} /\ history[s] \subseteq done[s]
        BY <1>10, <2>1, <3>1, RestartedEffect DEF TypeOK
      <4> QED
        BY <2>1, <2>2, <3>1, <4>1
    <3>2. CASE s # checked
      BY <1>10, <2>1, <3>2, RestartedEffect DEF TypeOK
    <3> QED
      BY <3>1, <3>2
  <2>4. history' \in [State -> SUBSET Nat] /\ done' \in [State -> SUBSET (0..now)]
    BY <1>10, <2>1, RestartedEffect DEF TypeOK
  <2>5. /\ now' \in Nat /\ config' = config /\ current' = current /\ enabled' = enabled
        /\ readers' = readers /\ toggle' = toggle /\ toggles' = toggles
        /\ at' = "idle" /\ checked' = None /\ started' = 0 /\ now' = now
    BY <1>10, RestartedEffect DEF TypeOK
  <2>6. last' \in [State -> Nat \cup {Never}]
    BY <1>10, RestartedEffect DEF TypeOK
  <2>7. status' \in [State -> Statuses] /\ letdown' \in [State -> BOOLEAN]
    <3>1. PICK ok \in BOOLEAN :
             /\ status' = [status EXCEPT ![checked] = IF ok THEN "running" ELSE "crashed"]
             /\ letdown' = [letdown EXCEPT ![checked] = ~ok]
      BY <1>10, RestartedEffect
    <3>2. CASE ok
      BY <3>1, <3>2 DEF TypeOK
    <3>3. CASE ~ok
      BY <3>1, <3>3 DEF TypeOK
    <3> QED
      BY <3>2, <3>3
  <2> QED
    BY <2>3, <2>4, <2>5, <2>6, <2>7 DEF TypeOK
<1>11. CASE UNCHANGED vars
  BY <1>11 DEF TypeOK
<1> QED
  BY <1>1, <1>2, <1>3, <1>4, <1>5, <1>6, <1>7, <1>8, <1>9, <1>10, <1>11 DEF Next, CheckStep

\* Times, step by step: the clock only grows, and a restart ends at now.
LEMMA TimesNext == TypeOK /\ TimesOK /\ [Next]_vars => TimesOK'
<1> SUFFICES ASSUME TypeOK, TimesOK, [Next]_vars PROVE TimesOK'
    OBVIOUS
<1> USE PolicyAssumption
<1>0. config.cooldown \in Int /\ now \in Nat /\ started \in Nat
      /\ \A s \in State : last[s] \in Int /\ done[s] \in SUBSET Nat
  BY DEF TypeOK
<1>1. CASE Tick
  <2>1. now' = now + 1 /\ UNCHANGED <<config, last, at, checked, started, done>>
    BY <1>1 DEF Tick
  <2>2. \A s \in State : last'[s] <= now' /\ \A t \in done'[s] : t <= last'[s]
    BY <1>0, <2>1 DEF TimesOK
  <2>3. checked \in State \/ at = "idle"
    BY DEF TypeOK
  <2>4. at' = "count" /\ last'[checked'] # Never => now' - last'[checked'] >= config'.cooldown
    BY <1>0, <2>1, <2>3 DEF TimesOK
  <2>5. at' = "restart" => /\ started' <= now' /\ last'[checked'] <= started'
                           /\ last'[checked'] # Never
                                => started' - last'[checked'] >= config'.cooldown
    BY <1>0, <2>1, <2>3 DEF TimesOK
  <2> QED
    BY <2>2, <2>4, <2>5 DEF TimesOK
<1>2. CASE RegisterProxy
  BY <1>2 DEF RegisterProxy, TimesOK
<1>3. ASSUME NEW e \in BOOLEAN, ToggleLock(e) PROVE TimesOK'
  BY <1>3 DEF ToggleLock, TimesOK
<1>4. CASE ToggleSet
  BY <1>4 DEF ToggleSet, TimesOK
<1>5. CASE Begin
  BY <1>5 DEF Begin, TimesOK
<1>6. CASE Read
  BY <1>6 DEF Read, TimesOK
<1>7. CASE Probe
  BY <1>7 DEF Probe, TimesOK
<1>8. CASE Limit
  <2>1. CASE CoolingDown(checked)
    BY <1>8, <2>1 DEF Limit, TimesOK
  <2>2. CASE ~CoolingDown(checked)
    <3>1. /\ checked \in State /\ checked' = checked /\ at' = "count"
          /\ UNCHANGED <<now, config, last, started, done>>
      BY <1>8, <2>2 DEF Limit, TypeOK
    <3>2. last[checked] # Never => now - last[checked] >= config.cooldown
      BY <1>0, <2>2, <3>1 DEF CoolingDown
    <3> QED
      BY <3>1, <3>2 DEF TimesOK
  <2> QED
    BY <2>1, <2>2
<1>9. CASE Count
  <2>1. CASE WithinLimit(checked)
    <3>1. /\ checked \in State /\ checked' = checked /\ at = "count" /\ at' = "restart"
          /\ started' = now /\ UNCHANGED <<now, config, last, done>>
      BY <1>9, <2>1 DEF Count, TypeOK
    <3> QED
      BY <1>0, <3>1 DEF TimesOK
  <2>2. CASE ~WithinLimit(checked)
    BY <1>9, <2>2 DEF Count, TimesOK
  <2> QED
    BY <2>1, <2>2
<1>10. CASE Restarted
  <2>1. /\ checked \in State /\ at' = "idle" /\ now' = now
        /\ done' = [done EXCEPT ![checked] = @ \cup {now}]
        /\ last' = [last EXCEPT ![checked] = now]
    BY <1>10, RestartedEffect
  <2>2. ASSUME NEW s \in State
        PROVE  last'[s] <= now' /\ \A t \in done'[s] : t <= last'[s]
    <3>1. CASE s = checked
      <4>1. last'[s] = now /\ done'[s] = done[s] \cup {now}
        BY <2>1, <3>1 DEF TypeOK
      <4>2. \A t \in done[s] : t <= now
        BY <1>0 DEF TimesOK
      <4> QED
        BY <1>0, <2>1, <4>1, <4>2
    <3>2. CASE s # checked
      BY <2>1, <3>2 DEF TypeOK, TimesOK
    <3> QED
      BY <3>1, <3>2
  <2> QED
    BY <2>1, <2>2 DEF TimesOK
<1>11. CASE UNCHANGED vars
  BY <1>11 DEF TimesOK
<1> QED
  BY <1>1, <1>2, <1>3, <1>4, <1>5, <1>6, <1>7, <1>8, <1>9, <1>10, <1>11 DEF Next, CheckStep

\* The restart that ends is within the limit: what the hour up to it holds is what it
\* held when the restart began, or the restart itself.
LEMMA RestartFits ==
    ASSUME TypeOK, TimesOK, RoomForOne, Limited, Restarted
    PROVE  Cardinality({u \in done'[checked] : now - Hour < u /\ u <= now}) <= config.max
<1> DEFINE W == {u \in done'[checked] : now - Hour < u /\ u <= now}
           R == {u \in done[checked] : u > started - Hour}
<1>1. /\ checked \in State /\ at = "restart" /\ now > started
      /\ done'[checked] = done[checked] \cup {now}
      /\ now \in Int /\ started \in Int /\ done[checked] \subseteq Int
      /\ Hour \in Int /\ config.max \in Int
  BY RestartedEffect, PolicyAssumption DEF TypeOK
<1>2. W \subseteq R \cup {now}
  BY <1>1
<1>3. IsFiniteSet(R) /\ Cardinality(R) \in Nat
  BY <1>1, FiniteDone
<1>4. Cardinality(R) < config.max
  BY <1>1 DEF RoomForOne
<1>5. IsFiniteSet(R \cup {now}) /\ Cardinality(R \cup {now}) \in Nat
      /\ Cardinality(R \cup {now}) <= Cardinality(R) + 1
  <2> HIDE DEF R
  <2>1. /\ IsFiniteSet(R \cup {now})
        /\ Cardinality(R \cup {now})
             = IF now \in R THEN Cardinality(R) ELSE Cardinality(R) + 1
    BY <1>3, FS_AddElement
  <2> QED
    BY <1>3, <2>1
<1>6. Cardinality(W) <= Cardinality(R \cup {now}) /\ Cardinality(W) \in Nat
  BY <1>2, <1>5, FS_Subset, FS_CardinalityType
<1> QED
  <2> HIDE DEF W, R
  <2>1. Cardinality(W) <= config.max
    BY <1>1, <1>3, <1>4, <1>5, <1>6
  <2> QED
    BY <2>1 DEF W

\* The cut drops no record of the last hour: the history would hold only those, and
\* more of them than the limit.
LEMMA CutIsOld ==
    ASSUME TypeOK, TimesOK, RoomForOne, Limited, Restarted,
           NEW kept \in SUBSET (history[checked] \cup {now}),
           Cut(history[checked] \cup {now}, kept),
           NEW t \in (history[checked] \cup {now}) \ kept
    PROVE  t + Hour <= now
<1> DEFINE h == history[checked] \cup {now}
           W == {u \in done'[checked] : now - Hour < u /\ u <= now}
<1>1. /\ checked \in State
      /\ done'[checked] = done[checked] \cup {now} /\ history[checked] \subseteq done[checked]
      /\ \A u \in done[checked] : u \in Int /\ u <= now
      /\ now \in Int /\ Hour \in Int /\ config.max \in 0..HistoryCap /\ HistoryCap \in Nat
  BY RestartedEffect, PolicyAssumption DEF TypeOK, Limited
<1>2. ~(Cardinality(h) <= HistoryCap) /\ \A u \in h : t <= u
  BY DEF Cut
<1>3. SUFFICES ASSUME ~(t + Hour <= now) PROVE FALSE
  OBVIOUS
<1>4. h \subseteq W
  BY <1>1, <1>2, <1>3
<1>5. IsFiniteSet(W) /\ Cardinality(W) \in Nat
  <2>1. IsFiniteSet(done[checked] \cup {now})
    BY <1>1, FiniteDone, FS_AddElement
  <2> QED
    BY <1>1, <2>1, FS_Subset, FS_CardinalityType
<1>6. Cardinality(h) <= Cardinality(W) /\ Cardinality(h) \in Nat
  BY <1>4, <1>5, FS_Subset, FS_CardinalityType
<1>7. Cardinality(W) <= config.max
  BY RestartFits
<1> QED
  <2> HIDE DEF W, h
  <2> QED
    BY <1>1, <1>2, <1>5, <1>6, <1>7

\* The limit, step by step.  Only Restarted adds to a history or to what is done, and
\* only Count lets a restart begin.
Bounded == DroppedIsOld /\ RoomForOne /\ HourlyLimit

LEMMA LimitNext == TypeOK /\ TimesOK /\ TimesOK' /\ Bounded /\ [Next]_vars => Bounded'
<1> SUFFICES ASSUME TypeOK, TimesOK, TimesOK', Bounded, [Next]_vars PROVE Bounded'
    OBVIOUS
<1> USE PolicyAssumption
<1>a. ASSUME UNCHANGED <<config, last, history, done>>,
             at' = "restart" => UNCHANGED <<at, checked, started>>
      PROVE  Bounded'
  BY <1>a DEF Bounded, Limited, DroppedIsOld, RoomForOne, HourlyLimit
<1>1. CASE Tick
  BY <1>1, <1>a DEF Tick
<1>2. CASE RegisterProxy
  BY <1>2, <1>a DEF RegisterProxy
<1>3. ASSUME NEW e \in BOOLEAN, ToggleLock(e) PROVE Bounded'
  BY <1>3, <1>a DEF ToggleLock
<1>4. CASE ToggleSet
  BY <1>4, <1>a DEF ToggleSet
<1>5. CASE Begin
  BY <1>5, <1>a DEF Begin
<1>6. CASE Read
  BY <1>6, <1>a DEF Read
<1>7. CASE Probe
  BY <1>7, <1>a DEF Probe
<1>8. CASE Limit
  BY <1>8, <1>a DEF Limit
<1>9. CASE Count
  <2>1. CASE ~WithinLimit(checked)
    BY <1>9, <2>1, <1>a DEF Count
  <2>2. CASE WithinLimit(checked)
    <3>1. /\ checked \in State /\ checked' = checked /\ started' = now
          /\ UNCHANGED <<config, last, history, done>>
          /\ Cardinality(Recent(checked)) < config.max
      BY <1>9, <2>2 DEF Count, WithinLimit, TypeOK
    <3>2. DroppedIsOld' /\ HourlyLimit'
      BY <3>1 DEF Bounded, Limited, DroppedIsOld, HourlyLimit
    <3>3. ASSUME Limited PROVE Recent(checked) = {u \in done[checked] : u > now - Hour}
      <4>1. /\ now \in Int /\ Hour \in Int /\ last[checked] \in Int
            /\ last[checked] <= now
            /\ history[checked] \subseteq done[checked] /\ done[checked] \subseteq Int
        BY <3>1 DEF TypeOK, TimesOK
      <4>2. \A t \in done[checked] \ history[checked] : t + Hour <= last[checked]
        BY <3>1, <3>3 DEF Bounded, DroppedIsOld
      <4>3. \A t \in done[checked] : t > now - Hour => t \in history[checked]
        BY <4>1, <4>2
      <4> QED
        BY <4>1, <4>3 DEF Recent
    <3>4. RoomForOne'
      <4>1. SUFFICES ASSUME Limited'
                     PROVE  Cardinality({u \in done'[checked'] : u > started' - Hour})
                              < config'.max
        BY DEF RoomForOne
      <4>2. Limited
        BY <3>1, <4>1 DEF Limited
      <4>3. {u \in done'[checked'] : u > started' - Hour} = Recent(checked)
        BY <3>1, <3>3, <4>2
      <4> QED
        BY <3>1, <4>3
    <3> QED
      BY <3>2, <3>4 DEF Bounded
  <2> QED
    BY <2>1, <2>2
<1>10. CASE Restarted
  <2>1. /\ checked \in State /\ at = "restart" /\ at' = "idle" /\ now > started
        /\ done' = [done EXCEPT ![checked] = @ \cup {now}]
        /\ last' = [last EXCEPT ![checked] = now]
        /\ UNCHANGED <<now, config>>
    BY <1>10, RestartedEffect
  <2>2. PICK kept \in SUBSET (history[checked] \cup {now}) :
           /\ Cut(history[checked] \cup {now}, kept)
           /\ history' = [history EXCEPT ![checked] = kept]
    BY <1>10, RestartedEffect
  <2>3. /\ now \in Int /\ started \in Int /\ Hour \in Int /\ Hour > 0
        /\ last[checked] \in Int /\ last[checked] <= started
        /\ \A t \in done[checked] : t \in Int /\ t <= last[checked]
    BY <2>1 DEF TypeOK, TimesOK
  <2>4. RoomForOne'
    BY <2>1 DEF RoomForOne
  <2>5. DroppedIsOld'
    <3> SUFFICES ASSUME Limited, NEW s \in State, NEW t \in done'[s] \ history'[s]
                 PROVE  t + Hour <= last'[s]
      BY <2>1 DEF DroppedIsOld, Limited
    <3>1. CASE s = checked
      <4>1. /\ last'[s] = now /\ history'[s] = kept
            /\ t \in done[s] \cup {now} /\ t \notin kept
        BY <2>1, <2>2, <3>1 DEF TypeOK
      <4>2. CASE t \in history[checked] \cup {now}
        BY <1>10, <2>2, <4>1, <4>2, CutIsOld DEF Bounded
      <4>3. CASE t \notin history[checked] \cup {now}
        <5>1. t \in done[checked] \ history[checked]
          BY <3>1, <4>1, <4>3
        <5>2. t + Hour <= last[checked] /\ t \in Int
          BY <2>1, <2>3, <5>1 DEF Bounded, DroppedIsOld
        <5> QED
          BY <2>1, <2>3, <4>1, <5>2
      <4> QED
        BY <4>2, <4>3
    <3>2. CASE s # checked
      BY <2>1, <2>2, <3>2 DEF TypeOK, Bounded, DroppedIsOld
    <3> QED
      BY <3>1, <3>2
  <2>6. HourlyLimit'
    <3> SUFFICES ASSUME Limited, NEW s \in State, NEW t \in done'[s]
                 PROVE  Cardinality({u \in done'[s] : t - Hour < u /\ u <= t}) <= config.max
      BY <2>1 DEF HourlyLimit, Limited
    <3>1. CASE s = checked /\ t = now
      BY <1>10, <3>1, RestartFits DEF Bounded
    <3>2. CASE s = checked /\ t # now
      <4>1. done'[s] = done[s] \cup {now} /\ t \in done[s]
        BY <2>1, <3>2 DEF TypeOK
      <4>2. {u \in done'[s] : t - Hour < u /\ u <= t} = {u \in done[s] : t - Hour < u /\ u <= t}
        BY <2>1, <2>3, <3>2, <4>1
      <4> QED
        BY <4>1, <4>2 DEF Bounded, HourlyLimit, Limited
    <3>3. CASE s # checked
      <4>1. done'[s] = done[s]
        BY <2>1, <3>3 DEF TypeOK
      <4> QED
        BY <4>1 DEF Bounded, HourlyLimit, Limited
    <3> QED
      BY <3>1, <3>2, <3>3
  <2> QED
    BY <2>4, <2>5, <2>6 DEF Bounded
<1>11. CASE UNCHANGED vars
  BY <1>11, <1>a
<1> QED
  BY <1>1, <1>2, <1>3, <1>4, <1>5, <1>6, <1>7, <1>8, <1>9, <1>10, <1>11 DEF Next, CheckStep

\* The causes, step by step.
LEMMA CauseNext == TypeOK /\ CausesOK /\ [Next]_vars => CausesOK'
<1> SUFFICES ASSUME TypeOK, CausesOK, [Next]_vars PROVE CausesOK'
    OBVIOUS
<1>1. CASE Tick
  BY <1>1 DEF Tick, CausesOK
<1>2. CASE RegisterProxy
  BY <1>2 DEF RegisterProxy, CausesOK
<1>3. ASSUME NEW e \in BOOLEAN, ToggleLock(e) PROVE CausesOK'
  BY <1>3 DEF ToggleLock, CausesOK
<1>4. CASE ToggleSet
  BY <1>4 DEF ToggleSet, CausesOK
<1>5. CASE Begin
  BY <1>5 DEF Begin, CausesOK
<1>6. CASE Read
  BY <1>6 DEF Read, CausesOK
<1>7. CASE Probe
  BY <1>7 DEF Probe, Verdict, CausesOK, TypeOK
<1>8. CASE Limit
  BY <1>8 DEF Limit, CausesOK, TypeOK
<1>9. CASE Count
  BY <1>9 DEF Count, CausesOK, TypeOK
<1>10. CASE Restarted
  BY <1>10, RestartedEffect DEF CausesOK, TypeOK
<1>11. CASE UNCHANGED vars
  BY <1>11 DEF CausesOK
<1> QED
  BY <1>1, <1>2, <1>3, <1>4, <1>5, <1>6, <1>7, <1>8, <1>9, <1>10, <1>11 DEF Next, CheckStep

\* The history, step by step: a record is dropped when the history is full, and the one
\* that ends now is new to it.
LEMMA NewestNext == TypeOK /\ TimesOK /\ NewestKept /\ [Next]_vars => NewestKept'
<1> SUFFICES ASSUME TypeOK, TimesOK, NewestKept, [Next]_vars PROVE NewestKept'
    OBVIOUS
<1>1. CASE Restarted
  <2> DEFINE H == history[checked]
  <2>1. /\ checked \in State /\ at = "restart" /\ now > started
        /\ done' = [done EXCEPT ![checked] = @ \cup {now}]
    BY <1>1, RestartedEffect
  <2>2. PICK kept \in SUBSET (H \cup {now}) :
           /\ Cut(H \cup {now}, kept)
           /\ history' = [history EXCEPT ![checked] = kept]
    BY <1>1, RestartedEffect
  <2>3. \A u \in H : u \in Int /\ u < now
    BY <2>1 DEF TypeOK, TimesOK
  <2>4. /\ IsFiniteSet(H) /\ IsFiniteSet(H \cup {now})
        /\ Cardinality(H) \in Nat /\ Cardinality(H) <= HistoryCap
        /\ Cardinality(H \cup {now}) = Cardinality(H) + 1
    <3>1. H \in SUBSET done[checked] /\ Cardinality(H) <= HistoryCap /\ now \notin H
      BY <2>1, <2>3 DEF TypeOK
    <3>2. IsFiniteSet(H) /\ Cardinality(H) \in Nat
      BY <2>1, <3>1, FiniteDone
    <3> QED
      BY <3>1, <3>2, FS_AddElement
  <2>5. ASSUME NEW t \in (done[checked] \cup {now}) \ kept
        PROVE  Cardinality(kept) = HistoryCap /\ \A u \in kept : t <= u
    <3>1. CASE Cardinality(H \cup {now}) <= HistoryCap
      <4>1. kept = H \cup {now}
        BY <2>2, <3>1 DEF Cut
      <4>2. t \in done[checked] \ H
        BY <4>1
      <4>3. Cardinality(H) = HistoryCap
        BY <2>1, <4>2 DEF NewestKept
      <4> HIDE DEF H
      <4> QED
        BY <2>4, <3>1, <4>3
    <3>2. CASE ~(Cardinality(H \cup {now}) <= HistoryCap)
      <4>1. PICK x \in H \cup {now} : (\A u \in H \cup {now} : x <= u) /\ kept = (H \cup {now}) \ {x}
        BY <2>2, <3>2 DEF Cut
      <4>2. Cardinality(kept) = Cardinality(H \cup {now}) - 1
        BY <2>4, <4>1, FS_RemoveElement
      <4>3. Cardinality(kept) = HistoryCap
        <5> HIDE DEF H
        <5> QED
          BY <2>4, <3>2, <4>2, PolicyAssumption
      <4>4. CASE t \in H \cup {now}
        BY <4>1, <4>3, <4>4
      <4>5. CASE t \notin H \cup {now}
        <5>1. t \in Int /\ t <= now /\ now \in Int
          BY <2>1, <4>5 DEF TypeOK
        <5>2. \A u \in H : t <= u
          BY <2>1, <4>5 DEF NewestKept
        <5> QED
          BY <4>1, <4>3, <5>1, <5>2
      <4> QED
        BY <4>4, <4>5
    <3> QED
      BY <3>1, <3>2
  <2> SUFFICES ASSUME NEW s \in State, NEW t \in done'[s] \ history'[s]
               PROVE  Cardinality(history'[s]) = HistoryCap /\ \A u \in history'[s] : t <= u
    BY DEF NewestKept
  <2>6. CASE s = checked
    <3>1. history'[s] = kept /\ done'[s] = done[checked] \cup {now}
      BY <2>1, <2>2, <2>6 DEF TypeOK
    <3> QED
      BY <2>5, <3>1
  <2>7. CASE s # checked
    BY <2>1, <2>2, <2>7 DEF TypeOK, NewestKept
  <2> QED
    BY <2>6, <2>7
<1>2. CASE ~Restarted
  <2>1. UNCHANGED <<history, done>>
    BY <1>2 DEF Next, CheckStep, Tick, RegisterProxy, ToggleLock, ToggleSet, Begin, Read, Probe,
                Limit, Count
  <2> QED
    BY <2>1 DEF NewestKept
<1> QED
  BY <1>1, <1>2

\* The read locks, step by step: the check is of one state at a time.
LEMMA ReadersNext == TypeOK /\ ReadersInv /\ [Next]_vars => ReadersInv'
<1> SUFFICES ASSUME TypeOK, ReadersInv, [Next]_vars PROVE ReadersInv'
    OBVIOUS
<1>1. CASE Limit
  BY <1>1 DEF Limit, ReadersInv, TypeOK
<1>2. CASE Count
  <2>1. /\ checked \in State /\ at = "count" /\ at' # "count"
        /\ readers' = [readers EXCEPT ![checked] = @ - 1]
    BY <1>2 DEF Count, TypeOK
  <2> QED
    BY <2>1 DEF ReadersInv, TypeOK
<1>3. CASE Restarted
  BY <1>3, RestartedEffect DEF ReadersInv
<1>4. CASE ~(Limit \/ Count \/ Restarted)
  BY <1>4 DEF ReadersInv, TypeOK, Next, CheckStep, Tick, RegisterProxy, ToggleLock, ToggleSet,
              Begin, Read, Probe
<1> QED
  BY <1>1, <1>2, <1>3, <1>4

LEMMA Inductive == IInv /\ [Next]_vars => IInv'
  BY TypeNext, TimesNext, LimitNext, CauseNext, NewestNext, ReadersNext DEF IInv, Bounded

LEMMA Invariant == Spec => []IInv
  BY InitHolds, Inductive, PTL DEF Spec

\* Types; the history is of restarts that ended, and never more than HistoryCap of them.
THEOREM TypeCorrect == Spec => []TypeOK
  BY Invariant, PTL DEF IInv

\* The limit of restarts in an hour holds for every limit up to the history's capacity,
\* although the history forgets, and whatever check and restart do with the clock.
THEOREM LimitKept == Spec => []HourlyLimit
  BY Invariant, PTL DEF IInv

\* Every restart begins a cooldown after all that its registration has had.
THEOREM CooldownHolds == Spec => []CooldownKept
<1>1. IInv => CooldownKept
  <2> SUFFICES ASSUME IInv, at = "restart", NEW t \in done[checked]
               PROVE  started - t >= config.cooldown
    BY DEF CooldownKept
  <2>1. /\ checked \in State /\ t \in Nat /\ started \in Nat /\ config.cooldown \in Int
        /\ last[checked] \in Int
    BY DEF IInv, TypeOK
  <2>2. t <= last[checked] /\ (last[checked] # Never => started - last[checked] >= config.cooldown)
    BY <2>1 DEF IInv, TimesOK
  <2> QED
    BY <2>1, <2>2
<1> QED
  BY <1>1, Invariant, PTL

\* Only after a restart failed or was refused does the monitor leave a proxy down.
THEOREM NeverGivenUpLightly == Spec => []GivenUpForCause
<1>1. IInv => GivenUpForCause
  BY DEF IInv, CausesOK, GivenUpForCause
<1> QED
  BY <1>1, Invariant, PTL

\* A history of HistoryCap records decides as the whole past would, for every limit that
\* it can hold: what was dropped would not have changed the answer.
THEOREM HistoryIsEnough == Spec => []LimitIsExact
<1>1. IInv => LimitIsExact
  <2> SUFFICES ASSUME IInv, config.max <= HistoryCap, NEW s \in State
               PROVE  WithinLimit(s)
                        <=> Cardinality({t \in done[s] : t > now - Hour}) < config.max
    BY DEF LimitIsExact
  <2> DEFINE D == {t \in done[s] : t > now - Hour}
  <2>1. /\ now \in Int /\ Hour \in Int /\ HistoryCap \in Int /\ config.max \in Int
        /\ history[s] \subseteq done[s] /\ done[s] \subseteq Int
    BY PolicyAssumption DEF IInv, TypeOK
  <2>2. CASE D \subseteq history[s]
    <3>1. D = Recent(s)
      BY <2>1, <2>2 DEF Recent
    <3> QED
      BY <3>1 DEF WithinLimit
  <2>3. CASE ~(D \subseteq history[s])
    <3>1. PICK t \in D : t \in done[s] \ history[s]
      BY <2>3
    <3>2. Cardinality(history[s]) = HistoryCap /\ \A u \in history[s] : t <= u
      BY <3>1 DEF IInv, NewestKept
    <3>3. Recent(s) = history[s]
      BY <2>1, <3>1, <3>2 DEF Recent
    <3>4. /\ IsFiniteSet(D) /\ Cardinality(D) \in Nat
      BY FiniteDone DEF IInv
    <3>5. Recent(s) \subseteq D
      BY <2>1 DEF Recent
    <3>6. Cardinality(Recent(s)) <= Cardinality(D)
      BY <3>4, <3>5, FS_Subset
    <3> HIDE DEF D
    <3>7. ~(Cardinality(D) < config.max) /\ ~(Cardinality(Recent(s)) < config.max)
      BY <2>1, <3>2, <3>3, <3>4, <3>6
    <3> QED
      BY <3>7 DEF D, WithinLimit
  <2> QED
    BY <2>2, <2>3
<1> QED
  BY <1>1, Invariant, PTL

\* CanRestart leaves no read lock behind on any of its ways out: but for the writer that
\* comes between its two, no one waits for a lock that is not about to be released.
THEOREM LocksAreReturned == Spec => []OnlyWedgeBlocks
<1>1. IInv => OnlyWedgeBlocks
  BY DEF IInv, ReadersInv, TypeOK, OnlyWedgeBlocks, Wedged, WriterWaits, Writable
<1> QED
  BY <1>1, Invariant, PTL

\* A writer that has come between them never goes, nor does the check: the proxy is
\* checked no more, and can be neither enabled nor disabled.
THEOREM WedgeIsFinal == Spec => [][Wedged => Wedged' /\ UNCHANGED <<fields, check>>]_vars
<1>1. IInv /\ [Next]_vars => [Wedged => Wedged' /\ UNCHANGED <<fields, check>>]_vars
  <2> SUFFICES ASSUME IInv, [Next]_vars, Wedged PROVE Wedged' /\ UNCHANGED <<fields, check>>
    OBVIOUS
  <2>1. /\ checked \in State /\ at = "count" /\ toggle.on = checked /\ readers[checked] = 1
        /\ checked # None
    BY PolicyAssumption DEF IInv, TypeOK, ReadersInv, Wedged, WriterWaits
  <2> QED
    BY <2>1 DEF Wedged, WriterWaits, Readable, Writable, Next, CheckStep, Tick, RegisterProxy,
                ToggleLock, ToggleSet, Begin, Read, Probe, Limit, Count, Restarted
<1> QED
  BY <1>1, Invariant, PTL DEF Spec
============================================================================
