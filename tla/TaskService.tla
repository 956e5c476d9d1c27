---------------------------- MODULE TaskService ----------------------------
(***************************************************************************)
(* What the agent promises the server about tasks, without goroutines,     *)
(* records and locks: every message is owed one execution at most, an      *)
(* execution is only ever begun for a message still owed one, an answer    *)
(* has a cause, and a task that has settled, completed with nothing else   *)
(* of it going on, is not executed again before it is forgotten.  An agent *)
(* that ends forgets everything and loses the executions in progress.      *)
(* TaskLifecycle implements this.                                          *)
(***************************************************************************)
EXTENDS Naturals

CONSTANT Task

VARIABLES
    received,   \* messages received for each task
    owed,       \* of these, the ones that may still lead to an execution
    begun,      \* executions begun
    live,       \* executions in progress in this process
    ended,      \* the outcomes of executions
    answers,    \* the statuses the server has been told
    settled     \* the tasks known to be completed, and done with

vars == <<received, owed, begun, live, ended, answers, settled>>

Outcomes == {"COMPLETED", "FAILED", "error"}
Counts == [Task -> Nat]

Init ==
    /\ received = [k \in Task |-> 0] /\ owed = [k \in Task |-> 0]
    /\ begun = [k \in Task |-> 0] /\ live = [k \in Task |-> 0]
    /\ ended = [k \in Task |-> {}] /\ answers = [k \in Task |-> {}]
    /\ settled = {}

\* What has to have happened before the server may be told s of k.
Caused(k, s) ==
    \/ s \in {"RUNNING", "COMPLETED"} /\ begun[k] > 0
    \/ s = "FAILED" /\ ended[k] \cap {"FAILED", "error"} # {}

Tell(k) ==
    \E s \in {"RUNNING", "COMPLETED", "FAILED"} :
        Caused(k, s) /\ answers' = [answers EXCEPT ![k] = @ \cup {s}]

\* A message is kept for an execution or answered at once, that for a settled task always.
Receive(k) ==
    /\ received' = [received EXCEPT ![k] = @ + 1]
    /\ \/ k \notin settled /\ owed' = [owed EXCEPT ![k] = @ + 1] /\ UNCHANGED answers
       \/ Tell(k) /\ UNCHANGED owed
    /\ UNCHANGED <<begun, live, ended, settled>>

\* The task turns out to need no execution any more.
Drop(k) ==
    /\ owed[k] > 0 /\ owed' = [owed EXCEPT ![k] = @ - 1]
    /\ UNCHANGED <<received, begun, live, ended, answers, settled>>

Begin(k) ==
    /\ k \notin settled
    /\ owed[k] > 0 /\ owed' = [owed EXCEPT ![k] = @ - 1]
    /\ begun' = [begun EXCEPT ![k] = @ + 1]
    /\ live' = [live EXCEPT ![k] = @ + 1]
    /\ UNCHANGED <<received, ended, answers, settled>>

End(k) ==
    /\ live[k] > 0 /\ live' = [live EXCEPT ![k] = @ - 1]
    /\ \E o \in Outcomes : ended' = [ended EXCEPT ![k] = @ \cup {o}]
    /\ UNCHANGED <<received, owed, begun, answers, settled>>

Report(k) == Tell(k) /\ UNCHANGED <<received, owed, begun, live, ended, settled>>

Settle(k) ==
    /\ "COMPLETED" \in ended[k] /\ live[k] = 0
    /\ settled' = settled \cup {k}
    /\ UNCHANGED <<received, owed, begun, live, ended, answers>>

Forget ==
    /\ \E S \in SUBSET settled : settled' = settled \ S
    /\ UNCHANGED <<received, owed, begun, live, ended, answers>>

Restart ==
    /\ owed' = [k \in Task |-> 0] /\ live' = [k \in Task |-> 0] /\ settled' = {}
    /\ UNCHANGED <<received, begun, ended, answers>>

Next ==
    \/ \E k \in Task : Receive(k) \/ Drop(k) \/ Begin(k) \/ End(k) \/ Report(k) \/ Settle(k)
    \/ Forget \/ Restart

Spec == Init /\ [][Next]_vars
============================================================================
