-------------------------- MODULE MCIptablesUpdate --------------------------
(* Small instances of IptablesUpdate for TLC.                              *)
EXTENDS IptablesUpdate, TLC

CONSTANTS i1, i2, f1, m1

RuleSymmetry == Permutations(Id)
=============================================================================
