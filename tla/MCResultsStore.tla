---------------------------- MODULE MCResultsStore ----------------------------
(***************************************************************************)
(* ResultsStore with two runs whose names may collide and one judge pass.  *)
(* Payloads have different sizes, so that a short file written over a long *)
(* one can be told apart.                                                  *)
(***************************************************************************)
EXTENDS ResultsStore

CONSTANTS r1, r2, j

MCRuns == {r1, r2}
MCJudgePasses == {j}
MCSize == [p \in {r1, r2, j} |-> IF p = r2 THEN 1 ELSE 2]
=============================================================================
