------------------------------ MODULE MCMergeGate ------------------------------
(***************************************************************************)
(* MergeGate on one platform suite of two cases, one public suite, two     *)
(* judges and one semantic grader, and three gate rows shaped like the     *)
(* rows of gate.yaml.                                                      *)
(***************************************************************************)
EXTENDS MergeGate

CONSTANTS J1, J2, HHEM, T1, T2

MCJudges == {J1, J2}
MCSemantic == {HHEM}
MCRunKinds ==
  {[outcomes |-> <<"sound", "sound">>, exceeded |-> FALSE],
   [outcomes |-> <<"sound", "unsound">>, exceeded |-> FALSE],
   [outcomes |-> <<"raised", "sound">>, exceeded |-> FALSE],
   [outcomes |-> <<"sound", "skipped">>, exceeded |-> TRUE]}
MCGraderSets == {{J1}, {J1, J2}, {HHEM}}
MCTargets == {T1, T2}
MCSamples == {1, NotSet}
MCSpeeds == {0, 2, 4}

NoBound == [min |-> NotSet, max |-> NotSet, max_drop |-> NotSet, max_rise |-> NotSet,
            max_increase_pct |-> NotSet]

MCRows ==
  [groundedness |->
     [candidates |-> <<"groundedness">>, metric |-> PassRate, judged |-> FALSE, judge |-> NotSet,
      threshold |-> [NoBound EXCEPT !.min = 2, !.max_drop = 0]],
   groundedness_judge |->
     [candidates |-> <<"groundedness_judge", "groundedness">>,
      metric |-> JudgeMetric("pass_rate", J1), judged |-> TRUE, judge |-> J1,
      threshold |-> [NoBound EXCEPT !.max_drop = 1]],
   public_ifeval_speed |->
     [candidates |-> <<"public_ifeval_speed", "public_ifeval">>,
      metric |-> Speed, judged |-> FALSE, judge |-> NotSet,
      threshold |-> [NoBound EXCEPT !.max_increase_pct = 50]]]

MCSwapMetric == SwapAgreement
MCSuiteDirs == {"groundedness"}
MCPublicDirs == {"public_ifeval"}
=============================================================================
