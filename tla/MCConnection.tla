--------------------------- MODULE MCConnection ---------------------------
(* Small instances of Connection for TLC. *)
EXTENDS Connection, TLC

CONSTANTS c1, c2, c3, t1

ConnSymmetry == Permutations(Conn)
============================================================================
