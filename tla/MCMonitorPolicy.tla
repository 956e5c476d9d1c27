--------------------------- MODULE MCMonitorPolicy ---------------------------
(* Small instances of MonitorPolicy for TLC. *)
EXTENDS MonitorPolicy

\* Zero stands for a value that is not configured; 3 is more than the history holds.
Raws == {[max |-> 0, cooldown |-> 0], [max |-> 0, cooldown |-> -1], [max |-> 1, cooldown |-> -1],
         [max |-> 3, cooldown |-> 2], [max |-> -1, cooldown |-> 0]}
============================================================================
