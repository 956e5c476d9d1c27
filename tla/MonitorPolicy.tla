---------------------------- MODULE MonitorPolicy ----------------------------
(***************************************************************************)
(* How often the monitor restarts one egress' proxy (pkg/proxy/monitor.go, *)
(* ProxyState and attemptRestart; the limits come from pkg/config).        *)
(*                                                                         *)
(* ProxyLifecycle takes CanRestart for an arbitrary answer; here it is     *)
(* computed, from a clock and from what AddRestartRecord keeps.  Each      *)
(* RegisterProxy makes a new ProxyState, and a check goes on with the one  *)
(* it began with.  Besides the check of a round, EnableProxy and           *)
(* DisableProxy lock a state, with Go's RWMutex: a writer that waits keeps *)
(* new readers out.                                                        *)
(*                                                                         *)
(* A restart sleeps for two seconds at least, so no two of one state end   *)
(* at the same time, and the history, which is in the order of time, is    *)
(* the set of the times its restarts ended.  Reasons, durations and the    *)
(* statistics steer nothing.                                               *)
(***************************************************************************)
EXTENDS Integers, FiniteSets

CONSTANTS
    State,          \* the ProxyState objects registered for the egress: 1..n
    Hour,           \* the window of GetRecentRestarts
    HistoryCap,     \* how many records AddRestartRecord keeps: 100
    RawConfig,      \* the configured max_restarts and restart_cooldown
    DefaultMax, DefaultCooldown,    \* what setDefaults puts for zero
    MaxTime,        \* bound: no check begins then or later
    MaxToggles      \* bound: EnableProxy and DisableProxy calls

ASSUME PolicyAssumption ==
    /\ State \subseteq Nat \ {0} /\ 1 \in State
    /\ Hour \in Nat \ {0} /\ HistoryCap \in Nat \ {0}
    /\ RawConfig \subseteq [max : Int, cooldown : Int]
    /\ DefaultMax \in Int /\ DefaultCooldown \in Int
    /\ MaxTime \in Nat /\ MaxToggles \in Nat

VARIABLES
    now,        \* the monotonic clock
    config,     \* MonitorConfig after setDefaults
    current,    \* the state in ProxyMonitor.states
    status, enabled, last, history,     \* Status, Enabled, LastRestart, RestartHistory
    readers,    \* read locks held on each state
    toggle,     \* the EnableProxy or DisableProxy call in progress
    at, checked, started,   \* where the check is, its state, when its restart began
    toggles,    \* used up of the bound
    done,       \* ghost: when the restarts of each state ended
    letdown     \* ghost: a restart failed or was refused since the proxy last ran

fields == <<status, enabled, last, history>>
check == <<at, checked, started>>
ghosts == <<done, letdown>>
vars == <<now, config, current, fields, readers, toggle, check, toggles, ghosts>>

----------------------------------------------------------------------------
None == 0
Never == -1
Statuses == {"unknown", "running", "stopped", "crashed", "restarting"}
Places == {"idle", "read", "probe", "limit", "count", "restart"}

\* setDefaults: a value that is not configured reads as zero; negative ones pass.
OrDefault(v, d) == IF v = 0 THEN d ELSE v
setDefaults(raw) == [max |-> OrDefault(raw.max, DefaultMax),
                     cooldown |-> OrDefault(raw.cooldown, DefaultCooldown)]

\* Types; the history never outgrows its cap, and is of restarts that ended.
TypeOK ==
    /\ now \in Nat
    /\ config \in [max : Int, cooldown : Int]
    /\ current \in State
    /\ status \in [State -> Statuses] /\ enabled \in [State -> BOOLEAN]
    /\ last \in [State -> Nat \cup {Never}]
    /\ history \in [State -> SUBSET Nat]
    /\ \A s \in State : history[s] \subseteq done[s] /\ Cardinality(history[s]) <= HistoryCap
    /\ readers \in [State -> Nat] /\ (at = "count" => readers[checked] > 0)
    /\ toggle \in [on : State \cup {None}, to : BOOLEAN]
    /\ at \in Places /\ checked \in State \cup {None} /\ (at # "idle" => checked \in State)
    /\ started \in Nat /\ toggles \in Nat
    /\ done \in [State -> SUBSET (0..now)]
    /\ letdown \in [State -> BOOLEAN]

Init ==
    /\ now = 0
    /\ \E raw \in RawConfig : config = setDefaults(raw)
    /\ current = 1
    /\ status = [s \in State |-> "unknown"] /\ enabled = [s \in State |-> TRUE]
    /\ last = [s \in State |-> Never] /\ history = [s \in State |-> {}]
    /\ readers = [s \in State |-> 0]
    /\ toggle = [on |-> None, to |-> TRUE]
    /\ at = "idle" /\ checked = None /\ started = 0
    /\ toggles = 0
    /\ done = [s \in State |-> {}] /\ letdown = [s \in State |-> FALSE]

Tick ==
    /\ now < MaxTime \/ (at = "restart" /\ now = started)
    /\ now' = now + 1
    /\ UNCHANGED <<config, current, fields, readers, toggle, check, toggles, ghosts>>

----------------------------------------------------------------------------
(* The state's RWMutex.                                                    *)

WriterWaits(s) == toggle.on = s
Readable(s) == ~WriterWaits(s)
Writable(s) == readers[s] = 0

\* RegisterProxy, of a configuration that replaces the one registered.
RegisterProxy ==
    /\ current + 1 \in State
    /\ current' = current + 1
    /\ UNCHANGED <<now, config, fields, readers, toggle, check, toggles, ghosts>>

\* EnableProxy and DisableProxy: find the state, wait for its lock, set the field.
ToggleLock(e) ==
    /\ toggle.on = None /\ toggles < MaxToggles
    /\ toggle' = [on |-> current, to |-> e]
    /\ toggles' = toggles + 1
    /\ UNCHANGED <<now, config, current, fields, readers, check, ghosts>>

ToggleSet ==
    /\ toggle.on # None /\ Writable(toggle.on)
    /\ enabled' = [enabled EXCEPT ![toggle.on] = toggle.to]
    /\ toggle' = [toggle EXCEPT !.on = None]
    /\ UNCHANGED <<now, config, current, status, last, history, readers, check, toggles, ghosts>>

----------------------------------------------------------------------------
(* The check of a round, checkProxyHealth.                                 *)

Become(l) == at' = l /\ checked' = IF l = "idle" THEN None ELSE checked

\* performHealthCheck takes the state that is in the table.
Begin ==
    /\ at = "idle" /\ now < MaxTime
    /\ at' = "read" /\ checked' = current
    /\ UNCHANGED <<now, config, current, fields, readers, toggle, started, toggles, ghosts>>

Read ==
    /\ at = "read" /\ Readable(checked)
    /\ Become(IF enabled[checked] THEN "probe" ELSE "idle")
    /\ UNCHANGED <<now, config, current, fields, readers, toggle, started, toggles, ghosts>>

\* Mutant: only a proxy that was seen running can have crashed.
VerdictOfRunning(old, running) ==
    IF running THEN "running" ELSE IF old = "running" THEN "crashed" ELSE "stopped"

Verdict(old, running) ==
    IF running THEN "running"
    ELSE IF old \in {"running", "unknown"} THEN "crashed" ELSE "stopped"

\* GetStatus and SetStatus of one thread: nothing else sets a status.  The answer
\* may be that of a timeout.
Probe ==
    /\ at = "probe" /\ Readable(checked) /\ Writable(checked)
    /\ \E running \in BOOLEAN :
       LET v == Verdict(status[checked], running) IN
       /\ status' = [status EXCEPT ![checked] = v]
       /\ letdown' = [letdown EXCEPT ![checked] = @ /\ ~running]
       /\ Become(IF v = "crashed" THEN "limit" ELSE "idle")
    /\ UNCHANGED <<now, config, current, enabled, last, history, readers, toggle, started,
                   toggles, done>>

CoolingDown(s) == last[s] # Never /\ now - last[s] < config.cooldown
Refuse == Become("idle") /\ letdown' = [letdown EXCEPT ![checked] = TRUE]

\* Mutant: the early return keeps the read lock.
LimitUnreleased ==
    /\ at = "limit" /\ Readable(checked)
    /\ readers' = [readers EXCEPT ![checked] = @ + 1]
    /\ IF CoolingDown(checked) THEN Refuse ELSE Become("count") /\ UNCHANGED letdown
    /\ UNCHANGED <<now, config, current, fields, toggle, started, toggles, done>>

\* CanRestart, up to its call of GetRecentRestarts.
Limit ==
    /\ at = "limit" /\ Readable(checked)
    /\ IF CoolingDown(checked) THEN Refuse /\ UNCHANGED readers
       ELSE /\ readers' = [readers EXCEPT ![checked] = @ + 1]
            /\ Become("count") /\ UNCHANGED letdown
    /\ UNCHANGED <<now, config, current, fields, toggle, started, toggles, done>>

Recent(s) == {t \in history[s] : t > now - Hour}
\* Mutant: off by one.
WithinLimitInclusive(s) == Cardinality(Recent(s)) <= config.max

WithinLimit(s) == Cardinality(Recent(s)) < config.max

\* GetRecentRestarts takes the read lock once more; then both are released.
Count ==
    /\ at = "count" /\ Readable(checked)
    /\ readers' = [readers EXCEPT ![checked] = @ - 1]
    /\ IF WithinLimit(checked)
       THEN /\ Become("restart") /\ started' = now
            /\ status' = [status EXCEPT ![checked] = "restarting"]
            /\ UNCHANGED letdown
       ELSE Refuse /\ UNCHANGED <<started, status>>
    /\ UNCHANGED <<now, config, current, enabled, last, history, toggle, toggles, done>>

\* Mutants: the cut is forgotten, or takes the newest record; a failure is not
\* remembered as LastRestart.
CutForgotten(h, kept) == kept = h
CutNewest(h, kept) ==
    IF Cardinality(h) <= HistoryCap THEN kept = h
    ELSE \E t \in h : (\A u \in h : u <= t) /\ kept = h \ {t}
LastSuccess(ok) == IF ok THEN now ELSE last[checked]

Cut(h, kept) ==
    IF Cardinality(h) <= HistoryCap THEN kept = h
    ELSE \E t \in h : (\A u \in h : t <= u) /\ kept = h \ {t}

LastRestart(ok) == now

\* The end of attemptRestart: AddRestartRecord and SetStatus.
Restarted ==
    /\ at = "restart" /\ now > started /\ Readable(checked) /\ Writable(checked)
    /\ \E ok \in BOOLEAN :
       /\ status' = [status EXCEPT ![checked] = IF ok THEN "running" ELSE "crashed"]
       /\ letdown' = [letdown EXCEPT ![checked] = ~ok]
       /\ last' = [last EXCEPT ![checked] = LastRestart(ok)]
    /\ \E kept \in SUBSET (history[checked] \cup {now}) :
       Cut(history[checked] \cup {now}, kept) /\ history' = [history EXCEPT ![checked] = kept]
    /\ done' = [done EXCEPT ![checked] = @ \cup {now}]
    /\ Become("idle") /\ started' = 0
    /\ UNCHANGED <<now, config, current, enabled, readers, toggle, toggles>>

CheckStep == Read \/ Probe \/ Limit \/ Count \/ Restarted

----------------------------------------------------------------------------
Next == Tick \/ RegisterProxy \/ (\E e \in BOOLEAN : ToggleLock(e)) \/ ToggleSet \/ Begin \/ CheckStep

Spec == Init /\ [][Next]_vars

\* Goroutines are scheduled, probes and restarts return, and time passes.
FairSpec == Spec /\ WF_vars(Tick) /\ WF_vars(ToggleSet) /\ WF_vars(CheckStep)

----------------------------------------------------------------------------
(* What the code keeps.                                                    *)

\* No more than max_restarts restarts of one registration end within an hour, as
\* long as max_restarts is no more than the history can hold.
HourlyLimit ==
    config.max \in 0..HistoryCap =>
        \A s \in State : \A t \in done[s] :
            Cardinality({u \in done[s] : t - Hour < u /\ u <= t}) <= config.max

\* What is left of the history decides as the whole past would: the limit refuses a
\* restart when that many did end within the last hour, and only then.
LimitIsExact ==
    config.max <= HistoryCap =>
        \A s \in State :
            WithinLimit(s) <=> Cardinality({t \in done[s] : t > now - Hour}) < config.max

\* A restart in progress began a cooldown after every earlier one of its state.
CooldownKept ==
    at = "restart" => \A t \in done[checked] : started - t >= config.cooldown

\* The monitor gives a proxy up, which is what "stopped" means to every later
\* check, only when a restart of it has failed or been refused.
GivenUpForCause == \A s \in State : status[s] = "stopped" => letdown[s]

\* A writer came between the two read locks of CanRestart: neither gets on.
Wedged == at = "count" /\ WriterWaits(checked)

\* No other deadlock: every way out of CanRestart gives its read lock back, so a writer
\* has the state to itself when it waits, and so has a check that waits for no writer.
OnlyWedgeBlocks ==
    ~Wedged =>
        /\ toggle.on # None => Writable(toggle.on)
        /\ at \in {"probe", "restart"} => WriterWaits(checked) \/ Writable(checked)

\* Every check, restart included, ends, but for that (FairSpec).
ChecksEnd == at # "idle" ~> at = "idle" \/ Wedged
============================================================================
