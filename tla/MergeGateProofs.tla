---------------------------- MODULE MergeGateProofs ----------------------------
(***************************************************************************)
(* Theorems of MergeGate, for every gate.yaml, every set of suites,        *)
(* targets and judges, and histories of any length.                        *)
(***************************************************************************)
EXTENDS MergeGate, SequenceTheorems, FiniteSetTheorems, WellFoundedInduction, TLAPS

-----------------------------------------------------------------------------
\* Lemmas on the metrics of a run.

(***************************************************************************)
(* Every set of cases that a rate counts is a set of positions of the run, *)
(* and finite.                                                             *)
(***************************************************************************)
LEMMA CountedSets ==
  ASSUME NEW cases \in Seq(CaseResult)
  PROVE  /\ IsFiniteSet(DOMAIN cases) /\ Cardinality(DOMAIN cases) = Len(cases)
         /\ Scored(cases) \subseteq DOMAIN cases
         /\ Passed(cases) \subseteq Scored(cases)
         /\ \A j : GradedBy(cases, j) \subseteq DOMAIN cases
         /\ \A j : LabeledBy(cases, j) \subseteq GradedBy(cases, j)
         /\ \A j : PassedBy(cases, j) \subseteq LabeledBy(cases, j)
         /\ LabeledByBoth(cases) \subseteq DOMAIN cases
         /\ AgreedOn(cases) \subseteq LabeledByBoth(cases)
<1>1. DOMAIN cases = 1..Len(cases) /\ Len(cases) \in Nat
  BY LenProperties
<1>2. IsFiniteSet(DOMAIN cases) /\ Cardinality(DOMAIN cases) = Len(cases)
  BY <1>1, FS_Interval
<1>3. Scored(cases) \subseteq DOMAIN cases /\ Passed(cases) \subseteq Scored(cases)
  BY DEF Scored, Passed, Indices
<1>4. \A j : /\ GradedBy(cases, j) \subseteq DOMAIN cases
             /\ LabeledBy(cases, j) \subseteq GradedBy(cases, j)
             /\ PassedBy(cases, j) \subseteq LabeledBy(cases, j)
  BY DEF GradedBy, LabeledBy, PassedBy, Indices
<1>5. LabeledByBoth(cases) \subseteq DOMAIN cases /\ AgreedOn(cases) \subseteq LabeledByBoth(cases)
  BY <1>3 DEF LabeledByBoth, AgreedOn
<1>. QED
  BY <1>2, <1>3, <1>4, <1>5

\* Division keeps the order of its numerators.
LEMMA DivMonotonic ==
  ASSUME NEW a \in Nat, NEW b \in Nat, NEW n \in Nat \ {0}, a <= b
  PROVE  a \div n \in Nat /\ a \div n <= b \div n
<1>. DEFINE p == a \div n
            q == b \div n
<1>1. p \in Int /\ q \in Int /\ n * p <= a /\ a < n * p + n /\ n * q <= b /\ b < n * q + n
  OBVIOUS
<1>2. p >= 0
  <2>1. SUFFICES ASSUME p <= -1 PROVE FALSE
    BY <1>1
  <2>2. n * p <= n * (-1)
    BY <1>1, <2>1
  <2>. QED
    BY <1>1, <2>2
<1>3. p <= q
  <2>1. SUFFICES ASSUME q + 1 <= p PROVE FALSE
    BY <1>1
  <2>2. n * (q + 1) <= n * p
    BY <1>1, <2>1
  <2>3. n * (q + 1) = n * q + n
    BY <1>1
  <2>. QED
    BY <1>1, <2>2, <2>3
<1>. QED
  BY <1>1, <1>2, <1>3

\* A larger part of the same cases has no smaller rate.
LEMMA RateMonotonic ==
  ASSUME NEW whole, IsFiniteSet(whole), whole # {},
         NEW more \in SUBSET whole, NEW part \in SUBSET more
  PROVE  Rate(part, whole) \in Nat /\ Rate(part, whole) <= Rate(more, whole)
<1>1. IsFiniteSet(more) /\ IsFiniteSet(part)
  BY FS_Subset
<1>2. /\ Cardinality(whole) \in Nat \ {0}
      /\ Cardinality(more) \in Nat /\ Cardinality(part) \in Nat
      /\ Cardinality(part) <= Cardinality(more)
  BY <1>1, FS_Subset, FS_CardinalityType, FS_EmptySet
<1>3. /\ Cardinality(part) * Scale \in Nat /\ Cardinality(more) * Scale \in Nat
      /\ Cardinality(part) * Scale <= Cardinality(more) * Scale
  BY <1>2, MetricsAssumption
<1>. QED
  BY <1>2, <1>3, DivMonotonic DEF Rate

(***************************************************************************)
(* Every key that compute_metrics writes holds a natural number: no rate   *)
(* is taken of an empty set (types.py: compute_metrics, judge_metrics).    *)
(***************************************************************************)
LEMMA MetricsAreNat ==
  ASSUME NEW cases \in Seq(CaseResult), NEW k \in DOMAIN compute_metrics(cases)
  PROVE  compute_metrics(cases)[k] \in Nat
<1>1. k \in MetricKeys(cases)
  BY DEF compute_metrics
<1>2. \A part, whole : whole \subseteq DOMAIN cases /\ whole # {} /\ part \subseteq whole
                         => Rate(part, whole) \in Nat
  <2>. SUFFICES ASSUME NEW whole \in SUBSET DOMAIN cases, whole # {}, NEW part \in SUBSET whole
                PROVE  Rate(part, whole) \in Nat
    OBVIOUS
  <2>1. IsFiniteSet(whole)
    BY CountedSets, FS_Subset
  <2>. QED
    BY <2>1, RateMonotonic
<1>3. ASSUME NEW stat \in SuiteStats, k = SuiteMetric(stat)
      PROVE  compute_metrics(cases)[k] \in Nat
  <2>1. compute_metrics(cases)[k] = SuiteValue(cases, stat)
    BY <1>1, <1>3 DEF compute_metrics, SuiteMetric
  <2>2. Len(cases) \in Nat /\ Cardinality(Passed(cases)) \in Nat
    <3>1. IsFiniteSet(Passed(cases))
      BY CountedSets, FS_Subset
    <3>. QED
      BY <3>1, FS_CardinalityType, LenProperties
  <2>3. Len(cases) - Cardinality(Scored(cases)) \in Nat
    <3>1. /\ IsFiniteSet(Scored(cases))
          /\ Cardinality(Scored(cases)) <= Cardinality(DOMAIN cases)
      BY CountedSets, FS_Subset
    <3>. QED
      BY <2>2, <3>1, CountedSets, FS_CardinalityType
  <2>4. Scored(cases) # {} => Rate(Passed(cases), Scored(cases)) \in Nat
    BY <1>2, CountedSets
  <2>5. CASE stat = "cases_total"
    BY <2>1, <2>2, <2>5 DEF SuiteValue
  <2>6. CASE stat = "cases_passed"
    BY <2>1, <2>2, <2>6 DEF SuiteValue
  <2>7. CASE stat = "cases_skipped"
    BY <2>1, <2>3, <2>7 DEF SuiteValue
  <2>8. CASE stat = "pass_rate"
    BY <2>1, <2>4, <2>8 DEF SuiteValue
  <2>. QED
    BY <1>3, <2>5, <2>6, <2>7, <2>8 DEF SuiteStats
<1>4. ASSUME k = SwapAgreement, LabeledByBoth(cases) # {}
      PROVE  compute_metrics(cases)[k] \in Nat
  <2>1. compute_metrics(cases)[k] = SuiteValue(cases, "swap_agreement")
    BY <1>1, <1>4 DEF compute_metrics, SwapAgreement, SuiteMetric
  <2>2. SuiteValue(cases, "swap_agreement") = Rate(AgreedOn(cases), LabeledByBoth(cases))
    BY DEF SuiteValue
  <2>. QED
    BY <1>2, <1>4, <2>1, <2>2, CountedSets
<1>5. ASSUME NEW j \in Judges, LabeledBy(cases, j) # {}, k = JudgeMetric("pass_rate", j)
      PROVE  compute_metrics(cases)[k] \in Nat
  <2>1. compute_metrics(cases)[k] = JudgeValue(cases, "pass_rate", j)
    BY <1>1, <1>5 DEF compute_metrics, JudgeMetric
  <2>2. JudgeValue(cases, "pass_rate", j) = Rate(PassedBy(cases, j), LabeledBy(cases, j))
    BY DEF JudgeValue
  <2>. QED
    BY <1>2, <1>5, <2>1, <2>2, CountedSets
<1>6. ASSUME NEW j \in Judges, GradedBy(cases, j) # {}, k = JudgeMetric("unknown_rate", j)
      PROVE  compute_metrics(cases)[k] \in Nat
  <2>1. compute_metrics(cases)[k] = JudgeValue(cases, "unknown_rate", j)
    BY <1>1, <1>6 DEF compute_metrics, JudgeMetric
  <2>2. JudgeValue(cases, "unknown_rate", j)
          = Rate(GradedBy(cases, j) \ LabeledBy(cases, j), GradedBy(cases, j))
    BY DEF JudgeValue
  <2>. QED
    BY <1>2, <1>6, <2>1, <2>2, CountedSets
<1>. QED
  BY <1>1, <1>3, <1>4, <1>5, <1>6 DEF MetricKeys

-----------------------------------------------------------------------------
\* The inductive invariant.

\* What every promoted summary looks like.
SummaryOK(s) ==
  /\ s = [cases |-> s.cases, metrics |-> s.metrics, target |-> s.target,
          status |-> s.status, exceeded |-> s.exceeded]
  /\ s.cases \in Seq(CaseResult)
  /\ \A m \in DOMAIN s.metrics : s.metrics[m] \in Nat
  /\ s.status \in {NotSet, "success"}
  /\ s.target \in Targets

\* A case passes if its deterministic grades did and no judge objects, and
\* a semantic grader always has a verdict.
Judged(c) ==
  /\ c.passed <=> c.outcome = "sound" /\ \A g \in Graders : c.grades[g] # "fail"
  /\ \A g \in Semantic : c.grades[g] # "unknown"

\* What a summary says of its own cases is what they would be counted as
\* now, and its cases passed by the rule.
Honest(s) ==
  /\ \A k \in DOMAIN compute_metrics(s.cases) :
       k \in DOMAIN s.metrics /\ s.metrics[k] = compute_metrics(s.cases)[k]
  /\ \A i \in DOMAIN s.cases : Judged(s.cases[i])

\* A public run's summary: promoted for its success, without cases.
FromInspect(s) == s.status = "success" /\ s.cases = <<>>

LatestInv ==
  /\ latest = [d \in Dirs |-> latest[d]]
  /\ \A d \in Dirs : latest[d] # NotSet => SummaryOK(latest[d])
  /\ \A d \in SuiteDirs : latest[d] # NotSet => Honest(latest[d])
  /\ \A d \in PublicDirs : latest[d] # NotSet => FromInspect(latest[d])

\* A judge the report clears met both floors of the calibration run.
CalibrationInv ==
  calibration # NotSet =>
    \A j \in DOMAIN calibration.calibrated : calibration.calibrated[j] =>
      /\ calibration.kappa[j] >= KappaFloor
      /\ calibration.swap = NotSet \/ calibration.swap >= MinPairSwap

\* Every baseline states the target it was measured on.
BaselineInv == \A r \in DOMAIN Rows : baseline[r] # NotSet => baseline[r].target \in Targets

IInv == LatestInv /\ CalibrationInv /\ BaselineInv /\ commands \in 0..MaxCommands

-----------------------------------------------------------------------------
\* Lemmas on the cases that runs and judge passes produce.

\* A run's cases before any judge saw them.
LEMMA NewCases ==
  ASSUME NEW outcomes \in Seq(RunOutcomes)
  PROVE  LET cases == [i \in DOMAIN outcomes |-> NewCase(outcomes[i])]
         IN /\ cases \in Seq(CaseResult)
            /\ \A i \in DOMAIN cases : Judged(cases[i])
<1>. DEFINE cases == [i \in DOMAIN outcomes |-> NewCase(outcomes[i])]
<1>1. /\ Len(outcomes) \in Nat /\ DOMAIN outcomes = 1..Len(outcomes)
      /\ \A i \in DOMAIN outcomes : outcomes[i] \in RunOutcomes
  BY LenProperties, ElementOfSeq
<1>2. Ungraded \in [Graders -> GradeLabels]
  BY DEF Ungraded, GradeLabels
<1>3. ASSUME NEW o \in RunOutcomes
      PROVE  NewCase(o) \in CaseResult /\ Judged(NewCase(o))
  BY <1>2 DEF NewCase, CaseResult, Judged, Ungraded, Graders
<1>4. cases \in [1..Len(outcomes) -> CaseResult]
  BY <1>1, <1>3
<1>. QED
  BY <1>1, <1>3, <1>4, SeqDef

\* One case after a grader's labels were placed on it.
LEMMA RegradedCase ==
  ASSUME NEW c \in CaseResult, Judged(c), NEW D \in SUBSET Graders,
         NEW labels \in [D -> Labels], \A g \in D : labels[g] \in Answers(g)
  PROVE  Regrade(c, labels) \in CaseResult /\ Judged(Regrade(c, labels))
<1>. DEFINE grades == Place(c.grades, labels)
            passed == case_passed(c.outcome, grades)
<1>1. grades \in [Graders -> GradeLabels]
  BY DEF Place, CaseResult, GradeLabels
<1>2. \A g \in Semantic : grades[g] # "unknown"
  BY MetricsAssumption DEF Place, Judged, Answers, Labels, Graders
<1>3. /\ passed \in BOOLEAN
      /\ passed <=> c.outcome = "sound" /\ \A g \in Graders : grades[g] # "fail"
  BY <1>1, <1>2 DEF case_passed, Graders, GradeLabels, Labels
<1>4. Regrade(c, labels) = [c EXCEPT !.grades = grades, !.passed = passed]
  BY DEF Regrade
<1>. HIDE DEF grades, passed
<1>5. Regrade(c, labels) = [outcome |-> c.outcome, grades |-> grades, passed |-> passed]
  BY <1>4 DEF CaseResult
<1>. QED
  BY <1>1, <1>2, <1>3, <1>5 DEF CaseResult, Judged

\* An honest summary's pass rate is that of its cases.
LEMMA HonestPassRate ==
  ASSUME NEW s, Honest(s)
  PROVE  s.metrics[PassRate] = IF Scored(s.cases) = {} THEN 0
                               ELSE Rate(Passed(s.cases), Scored(s.cases))
<1>1. PassRate \in MetricKeys(s.cases)
  BY DEF PassRate, MetricKeys, SuiteStats
<1>2. compute_metrics(s.cases)[PassRate] = SuiteValue(s.cases, "pass_rate")
  BY <1>1 DEF compute_metrics, PassRate, SuiteMetric
<1>3. SuiteValue(s.cases, "pass_rate") = IF Scored(s.cases) = {} THEN 0
                                         ELSE Rate(Passed(s.cases), Scored(s.cases))
  BY DEF SuiteValue
<1>4. PassRate \in DOMAIN compute_metrics(s.cases)
  BY <1>1 DEF compute_metrics
<1>. QED
  BY <1>2, <1>3, <1>4 DEF Honest

-----------------------------------------------------------------------------
\* The invariant is inductive.

\* A well formed and honest summary may replace any suite's latest one.
LEMMA LatestAfterUpdate ==
  ASSUME LatestInv, NEW d \in Dirs, NEW s, latest' = [latest EXCEPT ![d] = s],
         SummaryOK(s), d \in SuiteDirs => Honest(s), d \in PublicDirs => FromInspect(s)
  PROVE  LatestInv'
<1>1. /\ latest' = [e \in Dirs |-> latest'[e]]
      /\ \A e \in Dirs : latest'[e] = IF e = d THEN s ELSE latest[e]
  BY DEF LatestInv
<1>2. /\ \A e \in Dirs : latest[e] # NotSet => SummaryOK(latest[e])
      /\ \A e \in SuiteDirs : e \in Dirs /\ (latest[e] # NotSet => Honest(latest[e]))
      /\ \A e \in PublicDirs : e \in Dirs /\ (latest[e] # NotSet => FromInspect(latest[e]))
  BY DEF LatestInv, Dirs
<1>3. \A e \in Dirs : latest'[e] # NotSet => SummaryOK(latest'[e])
  BY <1>1, <1>2, Zenon
<1>4. \A e \in SuiteDirs : latest'[e] # NotSet => Honest(latest'[e])
  BY <1>1, <1>2, Zenon
<1>5. \A e \in PublicDirs : latest'[e] # NotSet => FromInspect(latest'[e])
  BY <1>1, <1>2, Zenon
<1>. QED
  BY <1>1, <1>3, <1>4, <1>5, Zenon DEF LatestInv, Dirs, SummaryOK, Honest, FromInspect

\* The step gives one suite an honest summary, and no other suite a new one.
Replaced(d) ==
  /\ SummaryOK(latest'[d]) /\ Honest(latest'[d])
  /\ \A e \in Dirs : e # d => latest'[e] = latest[e]

\* run offline and run mcp.
LEMMA FinishRunStep ==
  ASSUME IInv, NEW d \in SuiteDirs, FinishRun(d)
  PROVE  LatestInv' /\ Replaced(d)
<1>1. PICK kind \in RunKinds, target \in Targets :
        LET cases == [i \in DOMAIN kind.outcomes |-> NewCase(kind.outcomes[i])]
        IN latest' = [latest EXCEPT ![d] =
             [cases |-> cases, metrics |-> compute_metrics(cases), target |-> target,
              status |-> NotSet, exceeded |-> kind.exceeded]]
  BY DEF FinishRun
<1>. DEFINE cases == [i \in DOMAIN kind.outcomes |-> NewCase(kind.outcomes[i])]
            s == [cases |-> cases, metrics |-> compute_metrics(cases), target |-> target,
                  status |-> NotSet, exceeded |-> kind.exceeded]
<1>2. latest' = [latest EXCEPT ![d] = s]
  BY <1>1
<1>3. /\ cases \in Seq(CaseResult)
      /\ \A i \in DOMAIN cases : Judged(cases[i])
  BY MergeGateAssumption, NewCases
<1>. HIDE DEF cases
<1>4. SummaryOK(s)
  BY <1>3, MetricsAreNat DEF SummaryOK
<1>5. Honest(s)
  BY <1>3 DEF Honest
<1>6. d \in Dirs /\ d \notin PublicDirs
  BY MergeGateAssumption DEF Dirs
<1>. HIDE DEF s
<1>7. latest'[d] = s /\ \A e \in Dirs : e # d => latest'[e] = latest[e]
  BY <1>2, <1>6 DEF IInv, LatestInv
<1>. QED
  BY <1>2, <1>4, <1>5, <1>6, <1>7, LatestAfterUpdate DEF IInv, Replaced

\* run public.
LEMMA FinishPublicRunStep ==
  ASSUME IInv, NEW d \in PublicDirs, FinishPublicRun(d) PROVE LatestInv'
<1>1. PICK speed \in Speeds, target \in Targets, status \in {"success", "error"} :
        latest' = IF Promoted(status)
                  THEN [latest EXCEPT ![d] =
                         [cases |-> <<>>, metrics |-> [m \in {Speed} |-> speed], target |-> target,
                          status |-> status, exceeded |-> FALSE]]
                  ELSE latest
  BY DEF FinishPublicRun
<1>2. CASE ~Promoted(status)
  <2>1. latest' = latest
    BY <1>1, <1>2
  <2>. QED
    BY <2>1 DEF IInv, LatestInv, SummaryOK, Honest, FromInspect
<1>3. CASE Promoted(status)
  <2>. DEFINE s == [cases |-> <<>>, metrics |-> [m \in {Speed} |-> speed], target |-> target,
                    status |-> status, exceeded |-> FALSE]
  <2>1. latest' = [latest EXCEPT ![d] = s]
    BY <1>1, <1>3
  <2>2. speed \in Nat
    BY MergeGateAssumption
  <2>3. <<>> \in Seq(CaseResult)
    BY EmptySeq
  <2>4. SummaryOK(s) /\ FromInspect(s)
    BY <1>3, <2>2, <2>3 DEF SummaryOK, Promoted, FromInspect
  <2>5. d \in Dirs /\ d \notin SuiteDirs
    BY MergeGateAssumption DEF Dirs
  <2>. HIDE DEF s
  <2>. QED
    BY <2>1, <2>4, <2>5, LatestAfterUpdate DEF IInv
<1>. QED
  BY <1>2, <1>3

\* judge.
LEMMA ApplyJudgePassStep ==
  ASSUME IInv, NEW d \in SuiteDirs, ApplyJudgePass(d)
  PROVE  LatestInv' /\ Replaced(d)
<1>. DEFINE run == latest[d]
            regraded(sample, labels) ==
              [i \in DOMAIN run.cases |->
                 IF i \in sample THEN Regrade(run.cases[i], labels[i]) ELSE run.cases[i]]
            after(cases) ==
              [run EXCEPT !.cases = cases,
                          !.metrics = MergeMetrics(run.metrics, compute_metrics(cases))]
<1>1. PICK graders \in GraderSets, n \in Samples :
        \E labels \in [FirstGradable(run.cases, n) -> [graders -> Labels]] :
          /\ \A i \in FirstGradable(run.cases, n), g \in graders : labels[i][g] \in Answers(g)
          /\ latest' = [latest EXCEPT ![d] =
                          after(regraded(FirstGradable(run.cases, n), labels))]
  BY Zenon DEF ApplyJudgePass
<1>. DEFINE sample == FirstGradable(run.cases, n)
<1>2. PICK labels \in [sample -> [graders -> Labels]] :
        /\ \A i \in sample, g \in graders : labels[i][g] \in Answers(g)
        /\ latest' = [latest EXCEPT ![d] = after(regraded(sample, labels))]
  BY <1>1, Zenon
<1>. DEFINE cases == regraded(sample, labels)
            metrics == MergeMetrics(run.metrics, compute_metrics(cases))
            s == [cases |-> cases, metrics |-> metrics, target |-> run.target,
                  status |-> run.status, exceeded |-> run.exceeded]
<1>3. latest[d] # NotSet /\ SummaryOK(run) /\ Honest(run) /\ d \in Dirs /\ d \notin PublicDirs
  BY MergeGateAssumption DEF ApplyJudgePass, IInv, LatestInv, Dirs
<1>5. /\ run.cases \in Seq(CaseResult)
      /\ \A i \in DOMAIN run.cases : Judged(run.cases[i])
      /\ \A m \in DOMAIN run.metrics : run.metrics[m] \in Nat
      /\ run.status \in {NotSet, "success"} /\ run.target \in Targets
  BY <1>3 DEF SummaryOK, Honest
<1>6. sample \in SUBSET DOMAIN run.cases /\ graders \in SUBSET Graders
  BY MergeGateAssumption DEF FirstGradable, Gradable, Indices
<1>7. /\ cases \in Seq(CaseResult)
      /\ \A i \in DOMAIN cases : Judged(cases[i])
  <2>. DEFINE old == run.cases
              new(i) == IF i \in sample THEN Regrade(old[i], labels[i]) ELSE old[i]
  <2>1. cases = [i \in DOMAIN old |-> new(i)]
    BY Zenon
  <2>2. /\ old \in Seq(CaseResult) /\ sample \in SUBSET DOMAIN old
        /\ \A i \in DOMAIN old : Judged(old[i])
        /\ labels \in [sample -> [graders -> Labels]]
        /\ \A i \in sample, g \in graders : labels[i][g] \in Answers(g)
    BY <1>2, <1>5, <1>6
  <2>. HIDE DEF run, sample, old, cases
  <2>3. /\ Len(old) \in Nat /\ DOMAIN old = 1..Len(old)
        /\ \A i \in DOMAIN old : old[i] \in CaseResult
    BY <2>2, LenProperties, ElementOfSeq
  <2>4. ASSUME NEW i \in DOMAIN old
        PROVE  new(i) \in CaseResult /\ Judged(new(i))
    <3>1. CASE i \in sample
      BY <1>6, <2>2, <2>3, <3>1, RegradedCase
    <3>2. CASE i \notin sample
      BY <2>2, <2>3, <3>2
    <3>. QED
      BY <3>1, <3>2
  <2>. HIDE DEF new
  <2>5. cases \in [1..Len(old) -> CaseResult]
    BY <2>1, <2>3, <2>4
  <2>. QED
    BY <2>1, <2>3, <2>4, <2>5, SeqDef
<1>8. latest' = [latest EXCEPT ![d] = s]
  <2>. HIDE DEF cases
  <2>1. latest' = [latest EXCEPT ![d] = after(cases)]
    BY <1>2 DEF cases
  <2>2. run = [cases |-> run.cases, metrics |-> run.metrics, target |-> run.target,
               status |-> run.status, exceeded |-> run.exceeded]
    BY <1>3 DEF SummaryOK
  <2>. HIDE DEF run
  <2>3. after(cases) = s
    <3>. HIDE DEF metrics
    <3>1. after(cases) = [run EXCEPT !.cases = cases, !.metrics = metrics]
      BY Zenon DEF metrics
    <3>. HIDE DEF after
    <3>. QED
      BY <2>2, <3>1
  <2>. QED
    BY <2>1, <2>3
<1>. HIDE DEF cases
<1>9. /\ \A k \in DOMAIN compute_metrics(cases) :
           k \in DOMAIN metrics /\ metrics[k] = compute_metrics(cases)[k]
      /\ \A k \in DOMAIN metrics : metrics[k] \in Nat
  BY <1>5, <1>7, MetricsAreNat DEF MergeMetrics, Updated
<1>. HIDE DEF metrics
<1>10. SummaryOK(s)
  BY <1>5, <1>7, <1>9 DEF SummaryOK
<1>11. Honest(s)
  BY <1>7, <1>9 DEF Honest
<1>. HIDE DEF s
<1>12. latest'[d] = s /\ \A e \in Dirs : e # d => latest'[e] = latest[e]
  BY <1>3, <1>8 DEF IInv, LatestInv
<1>. QED
  BY <1>3, <1>8, <1>10, <1>11, <1>12, LatestAfterUpdate DEF IInv, Replaced

\* calibrate.
LEMMA CalibrateStep ==
  ASSUME IInv, Calibrate PROVE CalibrationInv'
<1>1. PICK judges \in (SUBSET Judges) \ {{}} :
        \E kappa \in [judges -> Kappas],
           swap \in IF Cardinality(judges) = 1 THEN {NotSet} ELSE 0..Scale :
          calibration' =
            [kappa |-> kappa, swap |-> swap,
             calibrated |-> [j \in judges |-> Cleared(kappa[j], swap, KappaFloor, MinPairSwap)]]
  BY DEF Calibrate
<1>2. PICK kappa, swap :
        calibration' =
          [kappa |-> kappa, swap |-> swap,
           calibrated |-> [j \in judges |-> Cleared(kappa[j], swap, KappaFloor, MinPairSwap)]]
  BY <1>1
<1>3. /\ calibration'.kappa = kappa /\ calibration'.swap = swap
      /\ DOMAIN calibration'.calibrated = judges
      /\ \A j \in judges : calibration'.calibrated[j]
                             = Cleared(kappa[j], swap, KappaFloor, MinPairSwap)
  BY <1>2
<1>. QED
  BY <1>3, Zenon DEF CalibrationInv, Cleared

\* A set of natural numbers that is not empty has a smallest element.
LEMMA SmallestExists ==
  ASSUME NEW S \in SUBSET Nat, S # {}
  PROVE  \E i \in S : \A k \in S : i <= k
<1>1. IsWellFoundedOn(OpToRel(<, Nat), Nat)
  BY NatLessThanWellFounded
<1>2. PICK i \in S : \A k \in S : ~ (<<k, i>> \in OpToRel(<, Nat))
  BY <1>1, WFMin
<1>3. \A k \in S : k \in Nat /\ i \in Nat /\ ~(k < i)
  BY <1>2 DEF OpToRel
<1>. QED
  BY <1>3

\* The summary a row reads is some suite's latest one.
LEMMA CurrentIsALatest ==
  ASSUME NEW r \in DOMAIN Rows
  PROVE  \/ Current(Rows[r]) = NotSet
         \/ \E d \in Dirs : Current(Rows[r]) = latest[d] /\ latest[d] # NotSet
<1>. DEFINE candidates == Rows[r].candidates
            found == {i \in DOMAIN candidates :
                        candidates[i] \in Dirs /\ latest[candidates[i]] # NotSet}
            first == CHOOSE i \in found : \A k \in found : i <= k
<1>1. Current(Rows[r]) = IF found = {} THEN NotSet ELSE latest[candidates[first]]
  BY Zenon DEF Current
<1>2. found \subseteq Nat
  <2>1. candidates \in Seq(STRING)
    BY MergeGateAssumption
  <2>. QED
    BY <2>1, LenProperties
<1>3. ASSUME found # {} PROVE first \in found
  <2>. HIDE DEF found
  <2>. QED
    BY <1>2, <1>3, SmallestExists
<1>. HIDE DEF first
<1>. QED
  BY <1>1, <1>3

\* gate --update-baseline.
LEMMA UpdateBaselineStep ==
  ASSUME IInv, UpdateBaseline PROVE BaselineInv'
<1>. SUFFICES ASSUME NEW r \in DOMAIN Rows, baseline'[r] # NotSet
              PROVE  baseline'[r].target \in Targets
  BY DEF BaselineInv
<1>. DEFINE cur == Current(Rows[r])
            metrics == [m \in {Rows[r].metric} \cap DOMAIN cur.metrics |-> cur.metrics[m]]
<1>1. baseline'[r] = IF cur = NotSet THEN baseline[r]
                     ELSE [target |-> cur.target, metrics |-> metrics]
  BY DEF UpdateBaseline
<1>2. cur # NotSet => cur.target \in Targets
  <2>1. \A d \in Dirs : latest[d] # NotSet => latest[d].target \in Targets
    BY DEF IInv, LatestInv, SummaryOK
  <2>. HIDE DEF cur
  <2>2. cur = NotSet \/ \E d \in Dirs : cur = latest[d] /\ latest[d] # NotSet
    BY CurrentIsALatest DEF cur
  <2>. QED
    BY <2>1, <2>2
<1>. HIDE DEF metrics, cur
<1>. QED
  BY <1>1, <1>2 DEF IInv, BaselineInv

(***************************************************************************)
(* No command breaks the invariant.                                        *)
(***************************************************************************)
LEMMA InvariantStep == IInv /\ [Next]_vars => IInv'
<1>. SUFFICES ASSUME IInv, [Next]_vars PROVE IInv'
  OBVIOUS
<1>1. /\ latest' = latest => LatestInv'
      /\ calibration' = calibration => CalibrationInv'
      /\ baseline' = baseline => BaselineInv'
  <2>1. ASSUME latest' = latest PROVE LatestInv'
    BY <2>1 DEF IInv, LatestInv, SummaryOK, Honest, FromInspect
  <2>2. calibration' = calibration => CalibrationInv'
    BY DEF IInv, CalibrationInv
  <2>3. baseline' = baseline => BaselineInv'
    BY DEF IInv, BaselineInv
  <2>. QED
    BY <2>1, <2>2, <2>3
<1>2. ASSUME Command PROVE commands' \in 0..MaxCommands
  BY <1>2, MergeGateAssumption DEF IInv, Command
<1>3. ASSUME NEW d \in SuiteDirs, FinishRun(d) PROVE IInv'
  BY <1>1, <1>2, <1>3, FinishRunStep DEF FinishRun, IInv
<1>4. ASSUME NEW d \in SuiteDirs, ApplyJudgePass(d) PROVE IInv'
  BY <1>1, <1>2, <1>4, ApplyJudgePassStep DEF ApplyJudgePass, IInv
<1>5. ASSUME NEW d \in PublicDirs, FinishPublicRun(d) PROVE IInv'
  BY <1>1, <1>2, <1>5, FinishPublicRunStep DEF FinishPublicRun, IInv
<1>6. CASE Calibrate
  BY <1>1, <1>2, <1>6, CalibrateStep DEF Calibrate, IInv
<1>7. CASE UpdateBaseline
  BY <1>1, <1>2, <1>7, UpdateBaselineStep DEF UpdateBaseline, IInv
<1>8. CASE UNCHANGED vars
  BY <1>1, <1>8 DEF vars, IInv
<1>. QED
  BY <1>3, <1>4, <1>5, <1>6, <1>7, <1>8 DEF Next

(***************************************************************************)
(* The inductive invariant holds in every reachable state.                 *)
(***************************************************************************)
THEOREM InductiveInvariant == Spec => []IInv
<1>1. Init => IInv
  BY MergeGateAssumption DEF Init, IInv, LatestInv, CalibrationInv, BaselineInv, Dirs
<1>. QED
  BY <1>1, InvariantStep, PTL DEF Spec

-----------------------------------------------------------------------------
\* The properties.

(***************************************************************************)
(* What a row reads is well formed: its summary, when there is one, has    *)
(* natural numbers for metrics and a known target.                         *)
(***************************************************************************)
LEMMA CurrentIsOK ==
  ASSUME IInv, NEW r \in DOMAIN Rows, Current(Rows[r]) # NotSet
  PROVE  SummaryOK(Current(Rows[r]))
<1>1. \E d \in Dirs : Current(Rows[r]) = latest[d] /\ latest[d] # NotSet
  BY CurrentIsALatest
<1>. QED
  BY <1>1, Zenon DEF IInv, LatestInv

\* A row that is not left unmeasured has a number to judge.
LEMMA MeasuredRows ==
  ASSUME NEW row, NEW base, NEW cur, NEW report,
         Compare(row, base, cur, report) # "not_measured"
  PROVE  /\ cur # NotSet /\ Metric(cur, row.metric) # NotSet
         /\ row.metric \in DOMAIN cur.metrics
         /\ Metric(cur, row.metric) = cur.metrics[row.metric]
         /\ row.judged => Calibrated(report, row.judge)
  BY GateAssumption DEF Compare, Metric, JudgeRowVerdict

(***************************************************************************)
(* A row that fails although its absolute bounds hold fails against a      *)
(* baseline on the target of the run (compare.py: _judge).                 *)
(***************************************************************************)
LEMMA RelativeFailures ==
  ASSUME NEW row, NEW base, NEW cur, NEW report,
         Compare(row, base, cur, report) = "fail",
         ~AbsoluteFails(row.threshold, Metric(cur, row.metric))
  PROVE  /\ Metric(base, row.metric) # NotSet
         /\ ~TargetMismatch(base, cur)
         /\ RelativeFails(row.threshold, Metric(base, row.metric), Metric(cur, row.metric))
<1>. DEFINE decided == IF row.judged THEN JudgeRowVerdict(row.judge, cur, report) ELSE NotSet
            b == Metric(base, row.metric)
            c == Metric(cur, row.metric)
<1>1. decided \in {NotSet, "not_measured", "unstable"}
  BY DEF JudgeRowVerdict
<1>2. \/ decided = "fail"
      \/ Judge(row.threshold, b, c, TargetMismatch(base, cur)) = "fail"
  <2>. HIDE DEF decided
  <2>. QED
    BY DEF Compare, decided
<1>3. Judge(row.threshold, b, c, TargetMismatch(base, cur)) = "fail"
  BY <1>1, <1>2, GateAssumption
<1>. HIDE DEF b, c
<1>4. ~AbsoluteFails(row.threshold, c)
  BY DEF c
<1>5. b # NotSet /\ ~TargetMismatch(base, cur) /\ RelativeFails(row.threshold, b, c)
  BY <1>3, <1>4 DEF Judge
<1>. QED
  BY <1>5 DEF b, c

(***************************************************************************)
(* State type correctness: summaries hold well formed cases and natural    *)
(* numbers, and every row has one of the gate's four verdicts.             *)
(***************************************************************************)
THEOREM TypeCorrect == Spec => []TypeOK
<1>1. IInv => TypeOK
  <2>. SUFFICES ASSUME IInv PROVE TypeOK
    OBVIOUS
  <2>1. ASSUME NEW d \in Dirs, latest[d] # NotSet
        PROVE  /\ \A i \in DOMAIN latest[d].cases : latest[d].cases[i] \in CaseResult
               /\ \A m \in DOMAIN latest[d].metrics : latest[d].metrics[m] \in Nat
               /\ latest[d].status \in {NotSet, "success"}
    <3>1. SummaryOK(latest[d])
      BY <2>1 DEF IInv, LatestInv
    <3>. DEFINE cases == latest[d].cases
    <3>2. cases \in Seq(CaseResult)
      BY <3>1 DEF SummaryOK
    <3>. HIDE DEF cases
    <3>3. \A i \in DOMAIN cases : cases[i] \in CaseResult
      BY <3>2, LenProperties, ElementOfSeq
    <3>. QED
      BY <3>1, <3>3 DEF SummaryOK, cases
  <2>2. ASSUME NEW r \in DOMAIN Rows PROVE Verdict(r) \in Verdicts
    BY DEF Verdict, Compare, JudgeRowVerdict, Judge, Verdicts
  <2>. QED
    BY <2>1, <2>2 DEF TypeOK, IInv
<1>. QED
  BY <1>1, InductiveInvariant, PTL

\* An errored Inspect run never becomes the number the gate reads.
THEOREM ErroredRunsStayOut == Spec => []LatestIsASuccess
<1>1. IInv => LatestIsASuccess
  BY DEF IInv, LatestInv, LatestIsASuccess, FromInspect
<1>. QED
  BY <1>1, InductiveInvariant, PTL

(***************************************************************************)
(* Only a judge that met the floors of the last calibration run decides a  *)
(* judge row (compare.py: _judge_row_verdict).                             *)
(***************************************************************************)
THEOREM JudgesAreProven == Spec => []JudgeRowsNeedProof
<1>1. IInv => JudgeRowsNeedProof
  <2>. SUFFICES ASSUME IInv, NEW r \in DOMAIN Rows,
                       Rows[r].judged, Verdict(r) # "not_measured"
                PROVE  /\ calibration # NotSet
                       /\ calibration.kappa[Rows[r].judge] >= KappaFloor
                       /\ calibration.swap = NotSet \/ calibration.swap >= MinPairSwap
    BY DEF JudgeRowsNeedProof
  <2>1. Calibrated(calibration, Rows[r].judge)
    BY MeasuredRows DEF Verdict
  <2>. QED
    BY <2>1, Zenon DEF Calibrated, IInv, CalibrationInv
<1>. QED
  BY <1>1, InductiveInvariant, PTL

(***************************************************************************)
(* A change of model is never reported as a regression (compare.py:        *)
(* _target_mismatch, _judge).                                              *)
(***************************************************************************)
THEOREM TargetsAgree == Spec => []RegressionsCompareOneTarget
<1>1. IInv => RegressionsCompareOneTarget
  <2>. SUFFICES ASSUME IInv, NEW r \in DOMAIN Rows, Verdict(r) = "fail",
                       ~AbsoluteFails(Rows[r].threshold, Metric(Current(Rows[r]), Rows[r].metric))
                PROVE  baseline[r].target = Current(Rows[r]).target
    BY DEF RegressionsCompareOneTarget
  <2>. DEFINE cur == Current(Rows[r])
  <2>1. cur # NotSet /\ SummaryOK(cur)
    BY MeasuredRows, CurrentIsOK DEF Verdict
  <2>2. Metric(baseline[r], Rows[r].metric) # NotSet /\ ~TargetMismatch(baseline[r], cur)
    BY RelativeFailures DEF Verdict
  <2>. HIDE DEF cur
  <2>3. baseline[r] # NotSet
    BY <2>2 DEF Metric
  <2>4. baseline[r].target \in Targets /\ cur.target \in Targets
    BY <2>1, <2>3 DEF IInv, BaselineInv, SummaryOK
  <2>. QED
    BY <2>1, <2>2, <2>3, <2>4, MergeGateAssumption DEF TargetMismatch, cur
<1>. QED
  BY <1>1, InductiveInvariant, PTL

(***************************************************************************)
(* No judge lifts a run's pass rate above the share of scored cases whose  *)
(* deterministic grades passed (judge_pass.py: case_passed, apply).        *)
(***************************************************************************)
THEOREM JudgesNeverRescue == Spec => []JudgesCannotRescue
<1>1. IInv => JudgesCannotRescue
  <2>. SUFFICES ASSUME IInv, NEW d \in SuiteDirs, latest[d] # NotSet
                PROVE  LET cases == latest[d].cases
                           sound == Indices(cases, LAMBDA c : c.outcome = "sound")
                       IN Scored(cases) # {} =>
                            latest[d].metrics[PassRate] <= Rate(sound, Scored(cases))
    BY DEF JudgesCannotRescue
  <2>. DEFINE cases == latest[d].cases
              sound == Indices(cases, LAMBDA c : c.outcome = "sound")
  <2>1. SummaryOK(latest[d]) /\ Honest(latest[d])
    BY DEF IInv, LatestInv, Dirs
  <2>2. /\ cases \in Seq(CaseResult)
        /\ Scored(cases) # {} =>
             latest[d].metrics[PassRate] = Rate(Passed(cases), Scored(cases))
        /\ \A i \in DOMAIN cases : cases[i].passed => cases[i].outcome = "sound"
    BY <2>1, HonestPassRate DEF SummaryOK, Honest, Judged
  <2>. HIDE DEF cases
  <2>3. Passed(cases) \subseteq sound /\ sound \subseteq Scored(cases)
    BY <2>2 DEF Passed, Scored, Indices
  <2>4. IsFiniteSet(Scored(cases))
    BY <2>2, CountedSets, FS_Subset
  <2>. HIDE DEF sound
  <2>5. Scored(cases) # {} => Rate(Passed(cases), Scored(cases)) <= Rate(sound, Scored(cases))
    BY <2>3, <2>4, RateMonotonic
  <2>6. Scored(cases) # {} => latest[d].metrics[PassRate] <= Rate(sound, Scored(cases))
    BY <2>2, <2>5
  <2>. QED
    BY <2>6 DEF cases, sound
<1>. QED
  BY <1>1, InductiveInvariant, PTL

(***************************************************************************)
(* A gate that passes has seen the current evidence: its floors hold of    *)
(* the cases that were last graded (compare.py: _judge; judge_pass.py:     *)
(* apply).                                                                 *)
(***************************************************************************)
THEOREM FloorsHold == Spec => []FloorsHoldOnTheCases
<1>1. IInv => FloorsHoldOnTheCases
  <2>. DEFINE cur(r) == Current(Rows[r])
              m(r) == Rows[r].metric
              t(r) == Rows[r].threshold
  <2>. SUFFICES ASSUME IInv, GatePasses, NEW r \in DOMAIN Rows,
                       ~Rows[r].judged, t(r).min # NotSet,
                       cur(r) # NotSet, cur(r).cases # <<>>,
                       m(r) \in DOMAIN compute_metrics(cur(r).cases)
                PROVE  compute_metrics(cur(r).cases)[m(r)] >= t(r).min
    BY DEF FloorsHoldOnTheCases
  <2>1. SummaryOK(cur(r))
    BY CurrentIsOK
  <2>2. Honest(cur(r))
    <3>1. \E d \in Dirs : cur(r) = latest[d] /\ latest[d] # NotSet
      BY CurrentIsALatest
    <3>. QED
      BY <3>1 DEF IInv, LatestInv, FromInspect, Dirs
  <2>. DEFINE x == compute_metrics(cur(r).cases)[m(r)]
  <2>3. Metric(cur(r), m(r)) = x /\ x \in Nat
    BY <2>1, <2>2 DEF Metric, Honest, SummaryOK
  <2>4. Compare(Rows[r], baseline[r], cur(r), calibration) # "fail"
    BY DEF GatePasses, Verdict, Blocking
  <2>5. ~AbsoluteFails(t(r), x)
    <3>1. cur(r).status \in {NotSet, "success"}
      BY <2>1 DEF SummaryOK
    <3>. HIDE DEF cur, x
    <3>. QED
      BY <2>3, <2>4, <3>1, GateAssumption DEF Compare, Judge
  <2>6. t(r).min \in Int
    BY MergeGateAssumption DEF Threshold, Optional
  <2>. QED
    BY <2>3, <2>5, <2>6 DEF AbsoluteFails
<1>. QED
  BY <1>1, InductiveInvariant, PTL

\* Among cases that ended alike, more pass when fewer are objected to.
LEMMA FewerObjections ==
  ASSUME NEW old, NEW new, SummaryOK(old), Honest(old), SummaryOK(new), Honest(new),
         DOMAIN new.cases = DOMAIN old.cases,
         \A i \in DOMAIN old.cases :
           /\ new.cases[i].outcome = old.cases[i].outcome
           /\ \A g \in Graders :
                new.cases[i].grades[g] = "fail" => old.cases[i].grades[g] = "fail"
  PROVE  new.metrics[PassRate] >= old.metrics[PassRate]
<1>1. old.cases \in Seq(CaseResult) /\ new.cases \in Seq(CaseResult)
  BY DEF SummaryOK
<1>2. Scored(new.cases) = Scored(old.cases)
  BY DEF Scored, Indices
<1>3. \A i \in DOMAIN old.cases : old.cases[i].passed => new.cases[i].passed
  BY DEF Honest, Judged
<1>4. Passed(old.cases) \subseteq Passed(new.cases)
  BY <1>3 DEF Passed, Indices
<1>5. /\ IsFiniteSet(Scored(old.cases))
      /\ Passed(new.cases) \subseteq Scored(old.cases)
  BY <1>1, <1>2, CountedSets, FS_Subset
<1>6. /\ old.metrics[PassRate] = IF Scored(old.cases) = {} THEN 0
                                 ELSE Rate(Passed(old.cases), Scored(old.cases))
      /\ new.metrics[PassRate] = IF Scored(old.cases) = {} THEN 0
                                 ELSE Rate(Passed(new.cases), Scored(old.cases))
  BY <1>2, HonestPassRate
<1>7. ASSUME Scored(old.cases) # {}
      PROVE  /\ Rate(Passed(old.cases), Scored(old.cases)) \in Nat
             /\ Rate(Passed(new.cases), Scored(old.cases)) \in Nat
             /\ Rate(Passed(old.cases), Scored(old.cases))
                  <= Rate(Passed(new.cases), Scored(old.cases))
  BY <1>4, <1>5, <1>7, RateMonotonic
<1>. QED
  BY <1>6, <1>7

(***************************************************************************)
(* Abstaining is free: between two summaries of the same cases, however    *)
(* they came about, the pass rate falls only if a grader that had not      *)
(* failed a case now does (judge_pass.py: case_passed, apply).             *)
(***************************************************************************)
THEOREM AbstainingIsFree == Spec => NoObjectionNoDrop
<1>. DEFINE Alike(old, new) ==
              /\ DOMAIN new = DOMAIN old
              /\ \A i \in DOMAIN old :
                   /\ new[i].outcome = old[i].outcome
                   /\ \A g \in Graders : new[i].grades[g] = "fail" => old[i].grades[g] = "fail"
            Free == \A d \in SuiteDirs :
              latest[d] # NotSet =>
                (Alike(latest[d].cases, latest'[d].cases)
                   => latest'[d].metrics[PassRate] >= latest[d].metrics[PassRate])
<1>1. IInv /\ [Next]_vars => [Free]_vars
  <2>. SUFFICES ASSUME IInv, Next, NEW d \in SuiteDirs, latest[d] # NotSet,
                       Alike(latest[d].cases, latest'[d].cases)
                PROVE  latest'[d].metrics[PassRate] >= latest[d].metrics[PassRate]
    OBVIOUS
  <2>1. SummaryOK(latest[d]) /\ Honest(latest[d]) /\ d \in Dirs
    BY DEF IInv, LatestInv, Dirs
  <2>2. SummaryOK(latest'[d]) /\ Honest(latest'[d])
    <3>1. ASSUME NEW e \in SuiteDirs, FinishRun(e) \/ ApplyJudgePass(e)
          PROVE  SummaryOK(latest'[d]) /\ Honest(latest'[d])
      <4>1. Replaced(e)
        BY <3>1, FinishRunStep, ApplyJudgePassStep
      <4>. QED
        BY <2>1, <4>1, Zenon DEF Replaced
    <3>2. ASSUME NEW e \in PublicDirs, FinishPublicRun(e) PROVE latest'[d] = latest[d]
      BY <2>1, <3>2, MergeGateAssumption DEF FinishPublicRun, IInv, LatestInv
    <3>3. CASE Calibrate \/ UpdateBaseline
      BY <2>1, <3>3 DEF Calibrate, UpdateBaseline
    <3>. QED
      BY <2>1, <3>1, <3>2, <3>3 DEF Next
  <2>. QED
    BY <2>1, <2>2, FewerObjections
<1>. QED
  BY <1>1, InductiveInvariant, PTL DEF Spec, NoObjectionNoDrop

\* No metric has regressed against itself.
LEMMA NoRegressionAgainstItself ==
  ASSUME NEW t \in Threshold, NEW x \in Nat
  PROVE  ~RelativeFails(t, x, x)
<1>1. t.max_drop # NotSet => ~(x < x - t.max_drop)
  BY DEF Threshold, Optional
<1>2. t.max_rise # NotSet => ~(x > x + t.max_rise)
  BY DEF Threshold, Optional
<1>3. t.max_increase_pct # NotSet => ~(100 * x > x * (100 + t.max_increase_pct))
  <2>. SUFFICES ASSUME t.max_increase_pct # NotSet
                PROVE  ~(100 * x > x * (100 + t.max_increase_pct))
    OBVIOUS
  <2>. DEFINE p == t.max_increase_pct
  <2>1. p \in Nat
    BY DEF Threshold, Optional
  <2>. HIDE DEF p
  <2>2. x * (100 + p) = 100 * x + x * p /\ x * p \in Nat
    BY <2>1
  <2>3. ~(100 * x > x * (100 + p))
    BY <2>1, <2>2
  <2>. QED
    BY <2>3 DEF p
<1>. QED
  BY <1>1, <1>2, <1>3 DEF RelativeFails

(***************************************************************************)
(* Summaries that have just become the baseline cannot regress against it  *)
(* (cli.py: cmd_gate).                                                     *)
(***************************************************************************)
THEOREM FreshBaselines == Spec => FreshBaselineNeverBlocks
<1>. DEFINE Fresh == UpdateBaseline =>
       \A r \in DOMAIN Rows :
         Verdict(r)' = "fail" =>
           AbsoluteFails(Rows[r].threshold, Metric(Current(Rows[r])', Rows[r].metric))
<1>1. IInv /\ [Next]_vars => [Fresh]_vars
  <2>. SUFFICES ASSUME IInv, UpdateBaseline, NEW r \in DOMAIN Rows, Verdict(r)' = "fail",
                       ~AbsoluteFails(Rows[r].threshold,
                                      Metric(Current(Rows[r])', Rows[r].metric))
                PROVE  FALSE
    OBVIOUS
  <2>. DEFINE cur == Current(Rows[r])
              m == Rows[r].metric
              t == Rows[r].threshold
              kept == [k \in {m} \cap DOMAIN cur.metrics |-> cur.metrics[k]]
  <2>1. latest' = latest
    BY DEF UpdateBaseline
  <2>2. Current(Rows[r])' = cur
    BY <2>1 DEF Current
  <2>3. baseline'[r] = IF cur = NotSet THEN baseline[r]
                       ELSE [target |-> cur.target, metrics |-> kept]
    BY DEF UpdateBaseline
  <2>4. Compare(Rows[r], baseline'[r], cur, calibration') = "fail" /\ ~AbsoluteFails(t, Metric(cur, m))
    BY <2>2 DEF Verdict
  <2>. HIDE DEF cur, kept
  <2>5. /\ cur # NotSet /\ m \in DOMAIN cur.metrics
        /\ Metric(cur, m) = cur.metrics[m]
    BY <2>4, MeasuredRows
  <2>6. /\ Metric(baseline'[r], m) # NotSet
        /\ RelativeFails(t, Metric(baseline'[r], m), Metric(cur, m))
    BY <2>4, RelativeFailures
  <2>7. Metric(baseline'[r], m) = cur.metrics[m]
    BY <2>3, <2>5, <2>6 DEF Metric, kept
  <2>8. cur.metrics[m] \in Nat /\ t \in Threshold
    <3>1. SummaryOK(cur)
      BY <2>5, CurrentIsOK DEF cur
    <3>. QED
      BY <2>5, <3>1, MergeGateAssumption DEF SummaryOK
  <2>. QED
    BY <2>5, <2>6, <2>7, <2>8, NoRegressionAgainstItself
<1>. QED
  BY <1>1, InductiveInvariant, PTL DEF Spec, FreshBaselineNeverBlocks

=============================================================================
