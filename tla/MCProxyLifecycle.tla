-------------------------- MODULE MCProxyLifecycle --------------------------
(* Small instances of ProxyLifecycle for TLC.                              *)
EXTENDS ProxyLifecycle, TLC

CONSTANTS e1, e2, p1, p2, p3, p4, a, b

PidSymmetry == Permutations(Pid)
CfgSymmetry == Permutations(Cfg)
Symmetry == PidSymmetry \cup CfgSymmetry
=============================================================================
