------------------------------- MODULE MCAgent -------------------------------
(* Small instances of Agent for TLC. *)
EXTENDS Agent

CONSTANTS w1, e1, e2

\* Nothing, some and all of the egresses.
SomeConfigs == {{}, {e1}, {e1, e2}}
============================================================================
