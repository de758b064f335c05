----------------------------- MODULE MCSuiteRun -----------------------------
(***************************************************************************)
(* SuiteRun on four cases, one of which the target is not capable of.      *)
(***************************************************************************)
EXTENDS SuiteRun

MCIncapable == {2}
MCCosts == {0, 1, 3}

=============================================================================
