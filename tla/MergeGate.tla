------------------------------- MODULE MergeGate -------------------------------
(***************************************************************************)
(* The commands between a suite run and a merge decision (cli.py): runs    *)
(* and judge passes replace a suite's latest summary, a calibration run    *)
(* replaces the calibration report, gate --update-baseline replaces the    *)
(* baselines, and gate reads all three.  Every command here is atomic;     *)
(* ResultsStore.tla and JudgePass.tla look inside them.                    *)
(*                                                                         *)
(* evalplat gate changes nothing, so its report is an operator of the      *)
(* state: Verdict(row) is what it would say if it were run now.            *)
(***************************************************************************)
EXTENDS SuiteMetrics, Gate

CONSTANTS Rows,         \* the suites mapping of gate.yaml
          SuiteDirs,    \* suites the platform runs itself, offline or over MCP
          PublicDirs,   \* suites Inspect runs
          Targets,      \* what a run may be measured on
          Speeds,       \* what a public run may report as ms_per_sample
          RunKinds,     \* how a run may end: its outcomes in suite order, its budget flag
          GraderSets,   \* the graders a judge pass may be asked for
          Samples,      \* --sample of a judge pass, NotSet for all cases
          Kappas,       \* what calibration may measure
          KappaFloor,   \* calibrate --kappa-floor
          MinPairSwap,  \* calibrate --min-swap-agreement
          MaxCommands   \* bound: a history has at most this many commands

ASSUME MergeGateAssumption ==
  /\ SwapMetric = SwapAgreement
  /\ \A r \in DOMAIN Rows :
       Rows[r].threshold \in Threshold /\ Rows[r].candidates \in Seq(STRING)
  /\ \A kind \in RunKinds :
       /\ kind.outcomes \in Seq(RunOutcomes) /\ Len(kind.outcomes) <= MaxCases
       /\ kind.exceeded \in BOOLEAN
  /\ GraderSets \subseteq (SUBSET Graders) \ {{}}
  /\ SuiteDirs \cap PublicDirs = {}
  /\ NotSet \notin Targets /\ Speeds \subseteq Nat /\ MaxCommands \in Nat

Dirs == SuiteDirs \cup PublicDirs
Speed == SuiteMetric("ms_per_sample")

VARIABLES latest,       \* results/<dir>/latest.json
          baseline,     \* baselines/<row>.json
          calibration,  \* results/calibration/latest.json
          commands      \* how many commands have been run

vars == <<latest, baseline, calibration, commands>>

Init ==
  /\ latest = [d \in Dirs |-> NotSet]
  /\ baseline = [r \in DOMAIN Rows |-> NotSet]
  /\ calibration = NotSet
  /\ commands = 0

Command == commands < MaxCommands /\ commands' = commands + 1

-----------------------------------------------------------------------------
\* run offline, run mcp: whatever the outcomes, the summary is promoted.
FinishRun(d) ==
  /\ Command
  /\ \E kind \in RunKinds, target \in Targets :
       LET cases == [i \in DOMAIN kind.outcomes |-> NewCase(kind.outcomes[i])]
       IN latest' = [latest EXCEPT ![d] =
            [cases |-> cases, metrics |-> compute_metrics(cases), target |-> target,
             status |-> NotSet, exceeded |-> kind.exceeded]]
  /\ UNCHANGED <<baseline, calibration>>

\* Mutant: an errored run is promoted like any other.
PromoteAlways(status) == TRUE

\* write_summary(..., promote_latest=...): an errored Inspect run keeps its
\* own file and leaves latest.json alone.
Promoted(status) == status = "success"

\* run public: the samples carry no trajectory, so no judge can grade them
\* and the cases are left out.
FinishPublicRun(d) ==
  /\ Command
  /\ \E speed \in Speeds, target \in Targets, status \in {"success", "error"} :
       latest' = IF Promoted(status)
                 THEN [latest EXCEPT ![d] =
                        [cases |-> <<>>, metrics |-> [m \in {Speed} |-> speed], target |-> target,
                         status |-> status, exceeded |-> FALSE]]
                 ELSE latest
  /\ UNCHANGED <<baseline, calibration>>

\* The first n gradable cases in suite order.
FirstGradable(cases, n) ==
  {i \in Gradable(cases) : n = NotSet \/ Cardinality({k \in Gradable(cases) : k < i}) < n}

\* What one grader may say of one case.
Answers(g) == IF g \in Judges THEN Labels ELSE Labels \ {"unknown"}

\* judge: every requested grader labels every case of the sample.
ApplyJudgePass(d) ==
  /\ Command
  /\ latest[d] # NotSet
  /\ \E graders \in GraderSets, n \in Samples :
       LET run == latest[d]
           sample == FirstGradable(run.cases, n)
       IN \E labels \in [sample -> [graders -> Labels]] :
            /\ \A i \in sample, g \in graders : labels[i][g] \in Answers(g)
            /\ LET cases == [i \in DOMAIN run.cases |->
                               IF i \in sample THEN Regrade(run.cases[i], labels[i])
                               ELSE run.cases[i]]
               IN latest' = [latest EXCEPT ![d] =
                    [run EXCEPT !.cases = cases,
                                !.metrics = MergeMetrics(run.metrics, compute_metrics(cases))]]
  /\ UNCHANGED <<baseline, calibration>>

\* calibrate: kappa per judge, agreement when there is a pair.
Calibrate ==
  /\ Command
  /\ \E judges \in (SUBSET Judges) \ {{}} :
       \E kappa \in [judges -> Kappas],
          swap \in IF Cardinality(judges) = 1 THEN {NotSet} ELSE 0..Scale :
         calibration' =
           [kappa |-> kappa, swap |-> swap,
            calibrated |-> [j \in judges |->
                              Cleared(kappa[j], swap, KappaFloor, MinPairSwap)]]
  /\ UNCHANGED <<latest, baseline>>

\* _current_for: the longest of the row's candidate directories with a run.
Current(row) ==
  LET found == {i \in DOMAIN row.candidates :
                  row.candidates[i] \in Dirs /\ latest[row.candidates[i]] # NotSet}
  IN IF found = {} THEN NotSet
     ELSE latest[row.candidates[CHOOSE i \in found : \A k \in found : i <= k]]

\* gate --update-baseline: every row with a run, whatever the run's state.
\* The file keeps all metrics; the row's own is the one ever read.
UpdateBaseline ==
  /\ Command
  /\ baseline' = [r \in DOMAIN Rows |->
       LET cur == Current(Rows[r]) IN
         IF cur = NotSet THEN baseline[r]
         ELSE [target |-> cur.target,
               metrics |-> [m \in {Rows[r].metric} \cap DOMAIN cur.metrics |-> cur.metrics[m]]]]
  /\ UNCHANGED <<latest, calibration>>

Next ==
  \/ \E d \in SuiteDirs : FinishRun(d) \/ ApplyJudgePass(d)
  \/ \E d \in PublicDirs : FinishPublicRun(d)
  \/ Calibrate
  \/ UpdateBaseline

Spec == Init /\ [][Next]_vars

-----------------------------------------------------------------------------
\* evalplat gate, run now.
Verdict(r) == Compare(Rows[r], baseline[r], Current(Rows[r]), calibration)
GatePasses == \A r \in DOMAIN Rows : Verdict(r) \notin Blocking

TypeOK ==
  /\ \A d \in Dirs : latest[d] # NotSet =>
       /\ \A i \in DOMAIN latest[d].cases : latest[d].cases[i] \in CaseResult
       /\ \A m \in DOMAIN latest[d].metrics : latest[d].metrics[m] \in Nat
       /\ latest[d].status \in {NotSet, "success"}
  /\ \A r \in DOMAIN Rows : Verdict(r) \in Verdicts
  /\ commands \in 0..MaxCommands

(***************************************************************************)
(* A gate that passes has seen the current evidence: each floor on a       *)
(* deterministic metric holds for the metric counted afresh from the       *)
(* cases of the summary it read, whatever judge passes rewrote that        *)
(* summary (compare.py:129-140, judge_pass.py:166).  A public run keeps    *)
(* no cases to count.                                                      *)
(***************************************************************************)
FloorsHoldOnTheCases ==
  GatePasses =>
    \A r \in DOMAIN Rows :
      LET row == Rows[r]
          cur == Current(row)
      IN (/\ ~row.judged /\ row.threshold.min # NotSet
          /\ cur # NotSet /\ cur.cases # <<>>
          /\ row.metric \in DOMAIN compute_metrics(cur.cases))
         => compute_metrics(cur.cases)[row.metric] >= row.threshold.min

(***************************************************************************)
(* A judge row is decided only by a judge that met the kappa floor, and    *)
(* the agreement floor if it was calibrated in a pair, in the calibration  *)
(* run last recorded (compare.py:253-258, calibration.py:110-131).         *)
(***************************************************************************)
JudgeRowsNeedProof ==
  \A r \in DOMAIN Rows :
    Rows[r].judged /\ Verdict(r) # "not_measured" =>
      /\ calibration # NotSet
      /\ calibration.kappa[Rows[r].judge] >= KappaFloor
      /\ calibration.swap = NotSet \/ calibration.swap >= MinPairSwap

(***************************************************************************)
(* A change of model is never reported as a regression: a row that fails   *)
(* although its absolute bounds hold was measured on its baseline's        *)
(* target (compare.py:142-150, 270-289).                                   *)
(***************************************************************************)
RegressionsCompareOneTarget ==
  \A r \in DOMAIN Rows :
    LET cur == Current(Rows[r]) IN
      (/\ Verdict(r) = "fail"
       /\ ~AbsoluteFails(Rows[r].threshold, Metric(cur, Rows[r].metric)))
      => baseline[r].target = cur.target

(***************************************************************************)
(* No judge can rescue a run: a summary's pass rate never exceeds the      *)
(* share of its scored cases whose deterministic grades all passed,        *)
(* however often it is judged (judge_pass.py:36-51).                       *)
(***************************************************************************)
JudgesCannotRescue ==
  \A d \in SuiteDirs : latest[d] # NotSet =>
    LET cases == latest[d].cases
        sound == Indices(cases, LAMBDA c : c.outcome = "sound")
    IN Scored(cases) # {} => latest[d].metrics[PassRate] <= Rate(sound, Scored(cases))

(***************************************************************************)
(* Right after the baselines were updated the same summaries cannot        *)
(* regress against them: only an absolute bound can fail                   *)
(* (cli.py:456-468 against compare.py:78-101).                             *)
(***************************************************************************)
FreshBaselineNeverBlocks ==
  [][UpdateBaseline =>
       \A r \in DOMAIN Rows :
         Verdict(r)' = "fail" =>
           AbsoluteFails(Rows[r].threshold,
                                   Metric(Current(Rows[r])', Rows[r].metric))]_vars

(***************************************************************************)
(* Abstaining is free: grading a run without a new "fail" does not lower   *)
(* its pass rate, whatever its judges leave unknown (judge_pass.py:36-51). *)
(***************************************************************************)
NoObjectionNoDrop ==
  [][\A d \in SuiteDirs :
       latest[d] # NotSet =>
         LET old == latest[d].cases
             new == latest'[d].cases
         IN (/\ DOMAIN new = DOMAIN old
             /\ \A i \in DOMAIN old :
                  /\ new[i].outcome = old[i].outcome
                  /\ \A g \in Graders : new[i].grades[g] = "fail" => old[i].grades[g] = "fail")
            => latest'[d].metrics[PassRate] >= latest[d].metrics[PassRate]]_vars

(***************************************************************************)
(* An errored Inspect run never becomes the number the gate reads          *)
(* (results.py:53-58).                                                     *)
(***************************************************************************)
LatestIsASuccess == \A d \in PublicDirs : latest[d] # NotSet => latest[d].status = "success"

-----------------------------------------------------------------------------
\* The summary a run had before any judge saw it.
Unjudged(run) ==
  LET cases == [i \in DOMAIN run.cases |-> NewCase(run.cases[i].outcome)]
  IN [run EXCEPT !.cases = cases, !.metrics = compute_metrics(cases)]

(***************************************************************************)
(* compare.py:341-342: "an unproven judge cannot block or clear a merge".  *)
(* With no calibration report at all, a row that passes on the unjudged    *)
(* run does not fail because the run was judged.  A judge's "fail" reaches *)
(* the pass_rate row through case_passed.                                  *)
(***************************************************************************)
UnprovenJudgeCannotBlock ==
  calibration = NotSet =>
    \A r \in DOMAIN Rows :
      LET cur == Current(Rows[r]) IN
        cur # NotSet /\ cur.cases # <<>> /\ Verdict(r) = "fail" =>
          Compare(Rows[r], baseline[r], Unjudged(cur), calibration) = "fail"

(***************************************************************************)
(* Design spec 4.7: a run over budget "keeps the partial results, and      *)
(* fails the gate".  compare never reads meta["budget_exceeded"].          *)
(***************************************************************************)
OverBudgetFailsTheGate ==
  \A d \in SuiteDirs : latest[d] # NotSet /\ latest[d].exceeded => ~GatePasses

=============================================================================
