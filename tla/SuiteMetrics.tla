----------------------------- MODULE SuiteMetrics -----------------------------
(***************************************************************************)
(* The numbers a suite run is reduced to (types.py: compute_metrics,       *)
(* judge_metrics) and the rule that says which cases pass once judges have *)
(* graded them (judge_pass.py: case_passed).                               *)
(*                                                                         *)
(* A metrics dict is a function from metric names to integers.  A rate is  *)
(* counted in Scale-ths, and Scale is a multiple of every possible number  *)
(* of cases, so no rate is rounded.  Latency and cost figures, and the     *)
(* rates of single deterministic dimensions, are left out.                 *)
(***************************************************************************)
EXTENDS Integers, Sequences, FiniteSets

CONSTANTS Judges,    \* model judges on one rubric
          Semantic,  \* graders with a verdict on every case (HHEM)
          MaxCases,  \* bound: no suite is larger
          Scale      \* the value of a rate of 1.0

ASSUME MetricsAssumption ==
  /\ Cardinality(Judges) <= 2  \* bound: the swap pair is then the whole set
  /\ Judges \cap Semantic = {}
  /\ MaxCases \in Nat /\ Scale \in Nat \ {0}
  /\ \A n \in 1..MaxCases : Scale % n = 0

Graders == Judges \cup Semantic
Labels == {"pass", "fail", "unknown"}
GradeLabels == Labels \cup {"absent"}

\* How a case ended before any judge saw it: skipped, failed because the
\* target raised (no trajectory), or run with its deterministic grades all
\* passing ("sound") or not.
RunOutcomes == {"skipped", "raised", "sound", "unsound"}
CaseResult == [outcome : RunOutcomes, grades : [Graders -> GradeLabels], passed : BOOLEAN]

Ungraded == [g \in Graders |-> "absent"]
NewCase(outcome) == [outcome |-> outcome, grades |-> Ungraded, passed |-> outcome = "sound"]

\* Mutant: the last grade placed decides alone.
LastGradeDecides(outcome, grades) ==
  \/ outcome = "sound" /\ \A g \in Graders : grades[g] # "fail"
  \/ \E j \in Judges : grades[j] = "pass"

\* Mutant: an unknown fails the case like any grade that did not pass.
UnknownFails(outcome, grades) ==
  /\ outcome = "sound"
  /\ \A g \in Graders : grades[g] \in {"pass", "absent"}

\* A judge that answered unknown does not fail the case, a semantic grader
\* has no such answer.
case_passed(outcome, grades) ==
  /\ outcome = "sound"
  /\ \A j \in Judges : grades[j] # "fail"
  /\ \A s \in Semantic : grades[s] \in {"pass", "absent"}

Indices(cases, P(_)) == {i \in DOMAIN cases : P(cases[i])}
Scored(cases) == Indices(cases, LAMBDA c : c.outcome # "skipped")
Gradable(cases) == Indices(cases, LAMBDA c : c.outcome \in {"sound", "unsound"})

Rate(part, whole) == (Cardinality(part) * Scale) \div Cardinality(whole)

-----------------------------------------------------------------------------
\* Metric names: the suite's own, and judge.<rubric>.<model>.<stat>.
SuiteMetric(stat) == <<stat>>
JudgeMetric(stat, j) == <<stat, j>>
PassRate == SuiteMetric("pass_rate")
SwapAgreement == SuiteMetric("swap_agreement")
SuiteStats == {"pass_rate", "cases_total", "cases_passed", "cases_skipped"}

GradedBy(cases, j) == Indices(cases, LAMBDA c : c.outcome # "skipped" /\ c.grades[j] # "absent")
LabeledBy(cases, j) == {i \in GradedBy(cases, j) : cases[i].grades[j] # "unknown"}

LabeledByBoth(cases) == {i \in Scored(cases) : \A j \in Judges : i \in LabeledBy(cases, j)}

\* A key is left out when there is no grade to count; a pair needs two judges.
MetricKeys(cases) ==
  {SuiteMetric(stat) : stat \in SuiteStats}
    \cup {JudgeMetric("pass_rate", j) : j \in {k \in Judges : LabeledBy(cases, k) # {}}}
    \cup {JudgeMetric("unknown_rate", j) : j \in {k \in Judges : GradedBy(cases, k) # {}}}
    \cup {k \in {SwapAgreement} : Cardinality(Judges) = 2 /\ LabeledByBoth(cases) # {}}

Passed(cases) == Indices(cases, LAMBDA c : c.outcome # "skipped" /\ c.passed)
PassedBy(cases, j) == {i \in LabeledBy(cases, j) : cases[i].grades[j] = "pass"}
AgreedOn(cases) ==
  {i \in LabeledByBoth(cases) : \A j, k \in Judges : cases[i].grades[j] = cases[i].grades[k]}

SuiteValue(cases, stat) ==
  CASE stat = "cases_total"    -> Len(cases)
    [] stat = "cases_passed"   -> Cardinality(Passed(cases))
    [] stat = "cases_skipped"  -> Len(cases) - Cardinality(Scored(cases))
    [] stat = "pass_rate"      -> IF Scored(cases) = {} THEN 0
                                  ELSE Rate(Passed(cases), Scored(cases))
    [] stat = "swap_agreement" -> Rate(AgreedOn(cases), LabeledByBoth(cases))

JudgeValue(cases, stat, j) ==
  CASE stat = "pass_rate"    -> Rate(PassedBy(cases, j), LabeledBy(cases, j))
    [] stat = "unknown_rate" -> Rate(GradedBy(cases, j) \ LabeledBy(cases, j), GradedBy(cases, j))

compute_metrics(cases) ==
  [k \in MetricKeys(cases) |->
     IF Len(k) = 1 THEN SuiteValue(cases, k[1]) ELSE JudgeValue(cases, k[1], k[2])]

-----------------------------------------------------------------------------
\* _place: one grader's labels for the cases it was given; a grade on the
\* same dimension is replaced, so a second pass overwrites the first.
Place(grades, labels) == [g \in Graders |-> IF g \in DOMAIN labels THEN labels[g] ELSE grades[g]]

Regrade(c, labels) ==
  LET grades == Place(c.grades, labels)
  IN [c EXCEPT !.grades = grades, !.passed = case_passed(c.outcome, grades)]

\* {**first, **second}: a key of both has the value of the second.
Updated(first, second) ==
  [k \in DOMAIN first \cup DOMAIN second |->
     IF k \in DOMAIN second THEN second[k] ELSE first[k]]

\* Mutant: the run's own values win over the recomputed ones.
MergeKeepsOld(old, new) == Updated(new, old)

\* Recomputed keys win, keys that were not recomputed are carried forward.
MergeMetrics(old, new) == Updated(old, new)

=============================================================================
