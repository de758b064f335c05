------------------------------- MODULE SuiteRun -------------------------------
(***************************************************************************)
(* run_suite and run_case (suites/runner.py) under a Budget (budget.py):   *)
(* one process walks the cases of a suite in order, asking the budget      *)
(* before each case and charging it after, while the wall clock advances   *)
(* between any two of its steps.                                           *)
(*                                                                         *)
(* Dollars and seconds are integers.  A case result keeps the outcome and  *)
(* the cost of the trajectory (0 when there is none); grades, names and    *)
(* spans are left out.                                                     *)
(***************************************************************************)
EXTENDS Integers, Sequences, SequencesExt, Totals

CONSTANTS NumCases,    \* the suite is the cases 1..NumCases
          Incapable,   \* cases whose target_requirements the target lacks
          Costs,       \* the cost_usd a trajectory may report
          MaxUsd,      \* Budget.max_usd
          MaxWall      \* Budget.max_wall_s

ASSUME SuiteAssumption ==
  /\ NumCases \in Nat
  /\ Incapable \subseteq 1..NumCases
  /\ Costs \subseteq Nat
  /\ MaxUsd \in Nat
  /\ MaxWall \in Nat

VARIABLES results,    \* the CaseResults appended so far
          spent,      \* Budget.spent_usd
          elapsed,    \* time.monotonic() - Budget.started
          exceeded,   \* the local flag that becomes meta["budget_exceeded"]
          phase,      \* where the loop body is
          summary     \* the returned SuiteResult's metrics and meta

vars == <<results, spent, elapsed, exceeded, phase, summary>>

\* Outcomes of a case.  Only the first two carry a trajectory.
Graded == {"passed", "failed"}
Attempted == Graded \cup {"target_error"}
BudgetSkips == {"check_raised", "budget exceeded"}
Skips == BudgetSkips \cup {"target lacks"}
Outcomes == Attempted \cup Skips

Result == [outcome : Outcomes, cost : Costs \cup {0}]
NoSummary == <<>>

\* Mutant: the next case computed one off.
CurrentCaseOffByOne == Len(results)

CurrentCase == Len(results) + 1

\* The results list grows by one CaseResult; nothing is ever removed from it.
Record(outcome, cost) ==
  results' = Append(results, [outcome |-> outcome, cost |-> cost])

\* Budget.check() with no projected cost: the clock first, then the dollars.
CheckRaises == elapsed > MaxWall \/ spent > MaxUsd

Init ==
  /\ results = <<>>
  /\ spent = 0
  /\ elapsed = 0
  /\ exceeded = FALSE
  /\ phase = "check"
  /\ summary = NoSummary

-----------------------------------------------------------------------------
\* A case after the overrun: skipped without consulting the budget again.
SkipExceeded ==
  /\ phase = "check"
  /\ CurrentCase <= NumCases
  /\ exceeded
  /\ Record("budget exceeded", 0)
  /\ UNCHANGED <<spent, elapsed, exceeded, phase, summary>>

\* Mutant: the run goes on after the check raised.
StopAtCheckKeepsGoing ==
  /\ phase = "check"
  /\ CurrentCase <= NumCases
  /\ ~exceeded
  /\ CheckRaises
  /\ Record("check_raised", 0)
  /\ UNCHANGED <<spent, elapsed, exceeded, phase, summary>>

\* budget.check() raises: this case never ran and keeps the exception's text.
StopAtCheck ==
  /\ phase = "check"
  /\ CurrentCase <= NumCases
  /\ ~exceeded
  /\ CheckRaises
  /\ exceeded' = TRUE
  /\ Record("check_raised", 0)
  /\ UNCHANGED <<spent, elapsed, phase, summary>>

\* budget.check() returns: the case goes on to run_case.
PassCheck ==
  /\ phase = "check"
  /\ CurrentCase <= NumCases
  /\ ~exceeded
  /\ ~CheckRaises
  /\ phase' = "run"
  /\ UNCHANGED <<results, spent, elapsed, exceeded, summary>>

\* run_case finds a missing capability and never calls the target.
SkipIncapable ==
  /\ phase = "run"
  /\ CurrentCase \in Incapable
  /\ Record("target lacks", 0)
  /\ phase' = "check"
  /\ UNCHANGED <<spent, elapsed, exceeded, summary>>

\* Mutant: the exception escapes run_case and the case is tried again.
TargetRaisesAndRetries ==
  /\ phase = "run"
  /\ CurrentCase \notin Incapable
  /\ phase' = "check"
  /\ UNCHANGED <<results, spent, elapsed, exceeded, summary>>

\* target.run raises: a failed case with no trajectory, so nothing to charge.
TargetRaises ==
  /\ phase = "run"
  /\ CurrentCase \notin Incapable
  /\ Record("target_error", 0)
  /\ phase' = "check"
  /\ UNCHANGED <<spent, elapsed, exceeded, summary>>

\* target.run returns and the case is graded; its result is recorded before
\* the budget is charged for it.
GradeCase ==
  /\ phase = "run"
  /\ CurrentCase \notin Incapable
  /\ \E outcome \in Graded, cost \in Costs : Record(outcome, cost)
  /\ phase' = "charge"
  /\ UNCHANGED <<spent, elapsed, exceeded, summary>>

\* Mutant: the case that trips the ceiling is dropped from the results.
ChargeDropsTheOverrun ==
  /\ phase = "charge"
  /\ spent' = spent + Last(results).cost
  /\ exceeded' = (spent' > MaxUsd)
  /\ results' = IF spent' > MaxUsd THEN Front(results) ELSE results
  /\ phase' = "check"
  /\ UNCHANGED <<elapsed, summary>>

\* Mutant: the spend is overwritten instead of added to.
ChargeOverwrites ==
  /\ phase = "charge"
  /\ spent' = Last(results).cost
  /\ exceeded' = (spent' > MaxUsd)
  /\ phase' = "check"
  /\ UNCHANGED <<results, elapsed, summary>>

\* Mutant: BudgetExceeded is swallowed and the flag stays down.
ChargeForgetsTheFlag ==
  /\ phase = "charge"
  /\ spent' = spent + Last(results).cost
  /\ phase' = "check"
  /\ UNCHANGED <<results, elapsed, exceeded, summary>>

\* budget.charge(trajectory.cost_usd): the spend is added, then compared.
Charge ==
  /\ phase = "charge"
  /\ spent' = spent + Last(results).cost
  /\ exceeded' = (spent' > MaxUsd)
  /\ phase' = "check"
  /\ UNCHANGED <<results, elapsed, summary>>

Count(S) == Len(SelectSeq(results, LAMBDA r : r.outcome \in S))

\* The part of compute_metrics every suite carries; a rate is the pair of its
\* numerator and denominator, and 0 of 1 when no case was scored.
CountMetrics ==
  LET scored == Len(results) - Count(Skips)
  IN [cases_total   |-> Len(results),
      cases_passed  |-> Count({"passed"}),
      cases_skipped |-> Count(Skips),
      pass_rate     |-> IF scored > 0 THEN <<Count({"passed"}), scored>> ELSE <<0, 1>>]

\* The loop is over: the SuiteResult is built from what it collected.
Return ==
  /\ phase = "check"
  /\ CurrentCase > NumCases
  /\ summary' = [metrics |-> CountMetrics, budget_exceeded |-> exceeded, spent_usd |-> spent]
  /\ phase' = "done"
  /\ UNCHANGED <<results, spent, elapsed, exceeded>>

\* The clock advances while the run is going on.  It is of no consequence
\* beyond MaxWall + 1, where it stops.
Tick ==
  /\ phase # "done"
  /\ elapsed <= MaxWall
  /\ elapsed' = elapsed + 1
  /\ UNCHANGED <<results, spent, exceeded, phase, summary>>

\* One step of the thread that runs the suite.
Step ==
  \/ SkipExceeded
  \/ StopAtCheck
  \/ PassCheck
  \/ SkipIncapable
  \/ TargetRaises
  \/ GradeCase
  \/ Charge
  \/ Return

Next == Step \/ Tick

\* The runner's thread is scheduled, and every target call returns or raises;
\* no fairness is asked of the clock.
Spec == Init /\ [][Next]_vars /\ WF_vars(Step)

-----------------------------------------------------------------------------
TypeOK ==
  /\ results \in Seq(Result)
  /\ Len(results) <= NumCases
  /\ spent \in Nat
  /\ elapsed \in 0..(MaxWall + 1)
  /\ exceeded \in BOOLEAN
  /\ phase \in {"check", "run", "charge", "done"}

\* The cost of every trajectory kept in rs.
CostOf(rs) == Total([k \in DOMAIN rs |-> rs[k].cost], Len(rs))

(***************************************************************************)
(* The evidence survives the overrun: whenever nothing is waiting to be    *)
(* charged, what the budget says was spent is exactly the cost of the      *)
(* trajectories kept, the one that tripped the ceiling included            *)
(* (runner.py:126-135 records a result before charging for it).            *)
(***************************************************************************)
SpendIsEvidenced == phase # "charge" => spent = CostOf(results)

(***************************************************************************)
(* A run stops once: budget skips are a tail of the results, and at most   *)
(* the first of them carries the text of the check that raised; all the    *)
(* others read "budget exceeded" (runner.py:105-125).                      *)
(***************************************************************************)
BudgetSkipsAreATail ==
  \A k \in 1..Len(results) :
    results[k].outcome \in BudgetSkips =>
      \A m \in (k + 1)..Len(results) : results[m].outcome = "budget exceeded"

(***************************************************************************)
(* meta["budget_exceeded"] can be believed: a returned run without it      *)
(* attempted every case the target is capable of and stayed within the     *)
(* ceiling, and a run with it either spent past the ceiling or skipped a   *)
(* case for the clock (runner.py:136-144).                                 *)
(***************************************************************************)
BudgetFlagIsExact ==
  phase = "done" =>
    (summary.budget_exceeded
       <=> \/ summary.spent_usd > MaxUsd
           \/ \E k \in 1..NumCases : results[k].outcome \in BudgetSkips)

(***************************************************************************)
(* Every run returns, whatever its targets raise and however its budget    *)
(* runs out, as long as each target call ends.                             *)
(***************************************************************************)
Returns == <>(phase = "done")

-----------------------------------------------------------------------------
(***************************************************************************)
(* The run implements BudgetedRun.  A trajectory counts as paid for, and a *)
(* ceiling as reached, from the moment its result is recorded, although    *)
(* the code charges it one step later.                                     *)
(***************************************************************************)
VerdictOf(r) == IF r.outcome \in Attempted THEN "attempted" ELSE "skipped"
VerdictsBar == [k \in DOMAIN results |-> VerdictOf(results[k])]
PaidBar == IF phase = "charge" THEN spent + Last(results).cost ELSE spent
StoppedBar == exceeded \/ PaidBar > MaxUsd

Abstract == INSTANCE BudgetedRun
              WITH verdicts <- VerdictsBar, paid <- PaidBar, stopped <- StoppedBar

\* Every step of the loop is a step of the abstract run or invisible to it.
ImplementsBudgetedRun == Abstract!Spec

=============================================================================
