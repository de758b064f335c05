------------------------------ MODULE MCPublicRun ------------------------------
(* PublicRun for TLC: two commands against a budget of 3 and a dataset of  *)
(* three samples, with and without --limit, over one or two epochs.        *)
EXTENDS PublicRun

CONSTANT Whole

MCLimits == {1, 2, Whole}
MCEpochs == {1, 2}
=============================================================================
