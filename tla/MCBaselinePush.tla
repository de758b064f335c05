---------------------------- MODULE MCBaselinePush ----------------------------
(***************************************************************************)
(* BaselinePush with three jobs and two baseline files, and two attempts   *)
(* in place of the workflow's five: a first one that fails at any command, *)
(* or whose push goes through unanswered, and one that comes after it.     *)
(***************************************************************************)
EXTENDS BaselinePush, TLC

CONSTANTS j1, j2, j3, toolcall, memory

MCJobs == {j1, j2, j3}
MCSuites == {toolcall, memory}

\* Jobs are alike, and so are files; no property here is a liveness property.
Alike == Permutations(MCJobs) \cup Permutations(MCSuites)
=============================================================================
