---------------------------- MODULE MessageService ----------------------------
(***************************************************************************)
(* What the agent promises the server about messages, without loops,       *)
(* goroutines, a mutex or commands.  They are taken up one at a time, in   *)
(* the order they came in; one is refused only for want of room or by an   *)
(* agent that stops; none is answered twice.  An egress is configured, or  *)
(* given up, only by a message that says so and is in hand, success means  *)
(* that all the message asks for is in force and nothing else is, and the  *)
(* agent does not end in the middle of one but by a panic.  Agent          *)
(* implements this.                                                        *)
(***************************************************************************)
EXTENDS Naturals, Sequences

CONSTANTS Egress, Capacity, MaxMessages

VARIABLES
    up,         \* "up", "stopping", "exited" or "panicked"
    count,      \* messages received
    kind, items,    \* what each is, and the egresses it configures
    inbox,      \* messages that wait
    hand,       \* the message being handled, or NoMsg
    tasks,      \* messages handed over to run on their own
    fate,       \* what became of each message
    table,      \* the message that configured each egress, or NoMsg
    rules       \* the message whose rules are in the kernel, or NoMsg

vars == <<up, count, kind, items, inbox, hand, tasks, fate, table, rules>>

Msg == 1..MaxMessages
NoMsg == 0
Kinds == {"egress", "iptables", "task", "brief"}

Init ==
    /\ up = "up" /\ count = 0 /\ inbox = <<>> /\ hand = NoMsg /\ tasks = {}
    /\ kind = [m \in Msg |-> "unread"] /\ items = [m \in Msg |-> {}]
    /\ fate = [m \in Msg |-> "open"]
    /\ table = [e \in Egress |-> NoMsg] /\ rules = NoMsg

\* A message has one answer, or is refused.
Settle(m, f) == fate[m] = "open" /\ fate' = [fate EXCEPT ![m] = f]

Receive(k, es) ==
    LET m == count + 1 IN
    /\ m \in Msg
    /\ count' = m
    /\ kind' = [kind EXCEPT ![m] = k] /\ items' = [items EXCEPT ![m] = es]
    /\ \/ Len(inbox) < Capacity /\ inbox' = Append(inbox, m) /\ UNCHANGED fate
       \/ /\ Len(inbox) = Capacity \/ up = "stopping"
          /\ Settle(m, "dropped") /\ UNCHANGED inbox
    /\ UNCHANGED <<up, hand, tasks, table, rules>>

Take ==
    /\ hand = NoMsg /\ inbox # <<>>
    /\ hand' = Head(inbox) /\ inbox' = Tail(inbox)
    /\ UNCHANGED <<up, count, kind, items, tasks, fate, table, rules>>

Asked(e) == IF e \in items[hand] THEN hand ELSE NoMsg

\* One egress comes to what the message in hand asks for.
Change(e) ==
    /\ hand # NoMsg /\ kind[hand] = "egress"
    /\ table' = [table EXCEPT ![e] = Asked(e)]
    /\ UNCHANGED <<up, count, kind, items, inbox, hand, tasks, fate, rules>>

Load ==
    /\ hand # NoMsg /\ kind[hand] = "iptables"
    /\ rules' \in {hand, NoMsg}
    /\ UNCHANGED <<up, count, kind, items, inbox, hand, tasks, fate, table>>

InForce ==
    /\ kind[hand] = "egress" => \A e \in Egress : table[e] = Asked(e)
    /\ kind[hand] = "iptables" => rules = hand

Answer(f) ==
    /\ hand # NoMsg
    /\ f = "brief" <=> kind[hand] = "brief"
    /\ f = "ok" => InForce
    /\ Settle(hand, f)
    /\ hand' = NoMsg
    /\ UNCHANGED <<up, count, kind, items, inbox, tasks, table, rules>>

HandOver ==
    /\ hand # NoMsg /\ kind[hand] = "task"
    /\ tasks' = tasks \cup {hand} /\ hand' = NoMsg
    /\ UNCHANGED <<up, count, kind, items, inbox, fate, table, rules>>

TaskEnds(m, f) ==
    /\ m \in tasks /\ tasks' = tasks \ {m}
    /\ Settle(m, f)
    /\ UNCHANGED <<up, count, kind, items, inbox, hand, table, rules>>

Goes(from, to) ==
    /\ up = from /\ up' = to
    /\ UNCHANGED <<count, kind, items, inbox, hand, tasks, fate, table, rules>>

Stop == Goes("up", "stopping")

\* What waits and what runs on its own is lost; what is in hand is not.
Exit == hand = NoMsg /\ Goes("stopping", "exited")

\* A panic takes along what is in hand, too.
Panic == \E from \in {"up", "stopping"} : Goes(from, "panicked")

Next ==
    /\ up \in {"up", "stopping"}
    /\ \/ \E k \in Kinds, es \in SUBSET Egress : Receive(k, es)
       \/ Take \/ Load \/ HandOver
       \/ \E e \in Egress : Change(e)
       \/ \E f \in {"ok", "error", "brief"} : Answer(f)
       \/ \E m \in Msg, f \in {"ok", "error"} : TaskEnds(m, f)
       \/ Stop \/ Exit \/ Panic

Spec == Init /\ [][Next]_vars
============================================================================
