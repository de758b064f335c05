----------------------------- MODULE MCJudgePass -----------------------------
(***************************************************************************)
(* JudgePass on a run of three cases, one of them skipped and one with an  *)
(* empty answer, with two judges and HHEM.                                 *)
(***************************************************************************)
EXTENDS JudgePass

CONSTANTS J1, J2, HHEM, V1, V2, p1, p2

MCPasses == {p1, p2}
MCJudges == {J1, J2}
MCSemantic == {HHEM}
MCCases == <<"sound", "skipped", "sound">>
MCEmptyAnswer == {3}
MCGraderLists == {<<J1>>, <<J1, J2>>, <<J2, HHEM>>}
MCVersions == {V1, V2}
=============================================================================
