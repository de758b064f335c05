--------------------------------- MODULE Gate ---------------------------------
(***************************************************************************)
(* How one gate row is decided (gate/compare.py, gate/config.py) and when  *)
(* a calibration run clears a judge (calibration.py).  Pure operators:     *)
(* MergeGate.tla puts them between the commands that produce their inputs. *)
(*                                                                         *)
(* Metric values and bounds are integers in one unit; NotSet stands for    *)
(* Python's None.  A summary is the part of it compare reads.              *)
(***************************************************************************)
EXTENDS Integers

CONSTANTS NotSet,        \* None
          RequireSwap,   \* judges.require_swap_agreement of gate.yaml
          MinSwap,       \* judges.min_swap_agreement of gate.yaml
          SwapMetric     \* the name judge.<rubric>.swap_agreement

ASSUME GateAssumption ==
  /\ NotSet \notin Int /\ NotSet \notin {"pass", "fail", "unstable", "not_measured"}
  /\ RequireSwap \in BOOLEAN
  /\ MinSwap \in Nat

Optional(S) == S \cup {NotSet}
Verdicts == {"pass", "fail", "unstable", "not_measured"}
Blocking == {"fail", "unstable"}

\* A gate.yaml row's bounds.  The code accepts any number; a bound is a
\* distance or a percentage here, hence not negative.
Threshold == [min : Optional(Int), max : Optional(Int), max_drop : Optional(Nat),
              max_rise : Optional(Nat), max_increase_pct : Optional(Nat)]

\* _metric: a missing summary and a missing key both read as None.
Metric(summary, name) ==
  IF summary = NotSet \/ name \notin DOMAIN summary.metrics THEN NotSet ELSE summary.metrics[name]

AbsoluteFails(t, cur) ==
  \/ t.min # NotSet /\ cur < t.min
  \/ t.max # NotSet /\ cur > t.max

\* Mutant: reaching the bound already fails.
RelativeFailsAtTheBound(t, base, cur) ==
  \/ t.max_drop # NotSet /\ cur <= base - t.max_drop
  \/ t.max_rise # NotSet /\ cur >= base + t.max_rise
  \/ t.max_increase_pct # NotSet /\ base > 0 /\ 100 * cur >= base * (100 + t.max_increase_pct)

\* _relative_failures is not empty.
RelativeFails(t, base, cur) ==
  \/ t.max_drop # NotSet /\ cur < base - t.max_drop
  \/ t.max_rise # NotSet /\ cur > base + t.max_rise
  \/ t.max_increase_pct # NotSet /\ base > 0 /\ 100 * cur > base * (100 + t.max_increase_pct)

\* A percentage of a zero baseline says nothing about a positive value.
UndefinedPct(t, base, cur) == t.max_increase_pct # NotSet /\ base <= 0 /\ cur > 0

HasAbsolute(t) == t.min # NotSet \/ t.max # NotSet
HasRelative(t) == t.max_drop # NotSet \/ t.max_rise # NotSet \/ t.max_increase_pct # NotSet

\* _judge, in its order: the absolute bounds, the target mismatch, the
\* relative bounds, then what could not be evaluated.
Judge(t, base, cur, mismatch) ==
  IF AbsoluteFails(t, cur) THEN "fail"
  ELSE IF mismatch THEN "not_measured"
  ELSE IF base = NotSet THEN (IF HasRelative(t) /\ ~HasAbsolute(t) THEN "not_measured" ELSE "pass")
  ELSE IF RelativeFails(t, base, cur) THEN "fail"
  ELSE IF UndefinedPct(t, base, cur) THEN "not_measured"
  ELSE "pass"

\* Mutant: the target of a run is not looked at.
MismatchIgnored(baseSummary, curSummary) == FALSE

\* _target_mismatch: only when both sides state a target.
TargetMismatch(baseSummary, curSummary) ==
  /\ baseSummary # NotSet /\ curSummary # NotSet
  /\ baseSummary.target # NotSet /\ curSummary.target # NotSet
  /\ baseSummary.target # curSummary.target

-----------------------------------------------------------------------------
\* Mutant: a judge paired with an agreeing one is cleared whatever its kappa.
AgreementIsEnough(kappa, swap, floor, minSwap) ==
  IF swap = NotSet THEN kappa >= floor ELSE swap >= minSwap

\* CalibrationReport.calibrated for a judge the report has a row for: one
\* judge alone needs its kappa, a pair its agreement as well.
Cleared(kappa, swap, floor, minSwap) ==
  kappa >= floor /\ (swap = NotSet \/ swap >= minSwap)

\* _calibration_verdict: no report, no row, or a row that says no.
Calibrated(report, judge) ==
  report # NotSet /\ judge \in DOMAIN report.calibrated /\ report.calibrated[judge]

\* _judge_row_verdict, NotSet when the threshold decides.  A row whose metric
\* names no single judge has judge NotSet.
JudgeRowVerdict(judge, cur, report) ==
  LET swap == Metric(cur, SwapMetric) IN
    IF judge = NotSet \/ ~Calibrated(report, judge) THEN "not_measured"
    ELSE IF ~RequireSwap THEN NotSet
    ELSE IF swap = NotSet THEN "not_measured"
    ELSE IF swap < MinSwap THEN "unstable"
    ELSE NotSet

\* One row of compare.  A row is its metric, its threshold, whether the
\* metric starts with "judge." and the judge it names.
Compare(row, baseSummary, curSummary, report) ==
  LET base == Metric(baseSummary, row.metric)
      cur == Metric(curSummary, row.metric)
      errored == curSummary # NotSet /\ curSummary.status \notin {NotSet, "success"}
      decided == IF row.judged THEN JudgeRowVerdict(row.judge, curSummary, report) ELSE NotSet
  IN IF errored \/ cur = NotSet THEN "not_measured"
     ELSE IF decided # NotSet THEN decided
     ELSE Judge(row.threshold, base, cur, TargetMismatch(baseSummary, curSummary))

=============================================================================
