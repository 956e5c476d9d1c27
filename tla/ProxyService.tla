---------------------------- MODULE ProxyService ----------------------------
(***************************************************************************)
(* What the agent promises about an egress' proxy, without pid files,      *)
(* threads, health checks and commands.  One process runs at a time: a     *)
(* process is only ever started where none runs, by the manager for the    *)
(* operation in hand or to bring back what is registered, and then not     *)
(* while the manager is at that egress.  An operation registers what it    *)
(* has started, leaves nothing running where it says so, and a new         *)
(* configuration that failed leaves nothing running either.  For an egress *)
(* that is lost nothing is promised but the manager's own order of work.   *)
(* ProxyLifecycle implements this.                                         *)
(***************************************************************************)
EXTENDS Naturals

CONSTANTS
    Egress, Cfg,
    NoEgress, NoCfg     \* none of them

VARIABLES
    registered, \* the configuration each egress is registered with
    plan,       \* what the operation in progress has still to do, egress by egress
    hand,       \* the egress it is at, or NoEgress
    started,    \* it has started a process there
    running,    \* the configurations of the processes that run for each egress
    lost,       \* the egresses for which nothing is promised any more
    renewals    \* how often the agent has begun anew

vars == <<registered, plan, hand, started, running, lost, renewals>>

Nothing == [does |-> "nothing", cfg |-> NoCfg]
Plans == {Nothing} \cup [does : {"set"}, cfg : Cfg]
                   \cup [does : {"restart", "halt", "remove"}, cfg : {NoCfg}]

Init ==
    /\ registered = [id \in Egress |-> NoCfg] /\ plan = [id \in Egress |-> Nothing]
    /\ hand = NoEgress /\ started = FALSE
    /\ running = [id \in Egress |-> {}] /\ lost = {} /\ renewals = 0

----------------------------------------------------------------------------
(* The manager's operations, one at a time.                                *)

Operate ==
    /\ hand = NoEgress /\ \A id \in Egress : plan[id] = Nothing
    /\ plan' \in [Egress -> Plans]
    /\ \A id \in Egress :
          plan'[id].does \in {"restart", "halt", "remove"} => registered[id] # NoCfg
    /\ UNCHANGED <<registered, hand, started, running, lost, renewals>>

\* What runs for an egress that is lost is no concern of this specification.
Lose(id) ==
    /\ lost' = lost \cup {id}
    /\ running' = [running EXCEPT ![id] = {}]

\* What is to be configured comes before what is to be removed.
Begin(id) ==
    /\ hand = NoEgress /\ plan[id] # Nothing
    /\ plan[id].does = "remove" => \A i \in Egress : plan[i].does # "set"
    /\ hand' = id
    /\ UNCHANGED <<running, lost>> \/ Lose(id)
    /\ UNCHANGED <<registered, plan, started, renewals>>

Does == plan[hand].does
Target == IF Does = "set" THEN plan[hand].cfg ELSE registered[hand]
Still == running[hand] = {}

Start ==
    /\ hand \in Egress /\ ~started /\ Does \in {"set", "restart"} /\ Still
    /\ started' = TRUE
    /\ running' = IF hand \in lost THEN running ELSE [running EXCEPT ![hand] = {Target}]
    /\ UNCHANGED <<registered, plan, hand, lost, renewals>>

Registers(c) ==
    /\ registered' = [registered EXCEPT ![hand] = c]
    /\ plan' = [plan EXCEPT ![hand] = Nothing]
    /\ hand' = NoEgress /\ started' = FALSE
    /\ UNCHANGED <<running, lost, renewals>>

\* What was started is registered; what could not be is not, and the old process is gone.
Succeed == hand \in Egress /\ started /\ Registers(Target)
Fail == hand \in Egress /\ ~started /\ Does \in {"set", "restart"} /\ Still
        /\ Registers(registered[hand])

\* Halted or removed.
Cease == hand \in Egress /\ ~started /\ Does \in {"halt", "remove"} /\ Still
         /\ Registers(IF Does = "remove" THEN NoCfg ELSE registered[hand])

----------------------------------------------------------------------------
(* What happens beside them.                                               *)

\* A process ends, told to or not.
End(id) ==
    /\ running' = [running EXCEPT ![id] = {}]
    /\ UNCHANGED <<registered, plan, hand, started, lost, renewals>>

Revive(id) ==
    /\ id \notin lost /\ id # hand
    /\ registered[id] # NoCfg /\ running[id] = {}
    /\ running' = [running EXCEPT ![id] = {registered[id]}]
    /\ UNCHANGED <<registered, plan, hand, started, lost, renewals>>

Forsake(id) == Lose(id) /\ UNCHANGED <<registered, plan, hand, started, renewals>>

\* The agent ends, at any point, and a new one knows nothing of what still runs.
Renew ==
    /\ renewals' = renewals + 1
    /\ registered' = [id \in Egress |-> NoCfg] /\ plan' = [id \in Egress |-> Nothing]
    /\ hand' = NoEgress /\ started' = FALSE
    /\ running' = [id \in Egress |-> {}]
    /\ lost' \subseteq Egress
    /\ lost \subseteq lost' /\ \A id \in Egress : running[id] # {} => id \in lost'

Next ==
    \/ Operate \/ Start \/ Succeed \/ Fail \/ Cease \/ Renew
    \/ \E id \in Egress : Begin(id) \/ End(id) \/ Revive(id) \/ Forsake(id)

Spec == Init /\ [][Next]_vars
============================================================================
