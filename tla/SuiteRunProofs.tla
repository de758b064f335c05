--------------------------- MODULE SuiteRunProofs ---------------------------
(***************************************************************************)
(* Theorems of SuiteRun, for every suite, target, cost and budget.         *)
(***************************************************************************)
EXTENDS SuiteRun, NaturalsInduction, WellFoundedInduction, SequenceTheorems, TLAPS

\* Some case was skipped because of the budget.
SomeBudgetSkip == \E k \in 1..Len(results) : results[k].outcome \in BudgetSkips

\* The flag is set exactly when the run has overspent or skipped for it.
FlagInv == exceeded <=> (spent > MaxUsd \/ SomeBudgetSkip)

\* What is known at each place of the loop body.
PhaseInv ==
  /\ phase \in {"run", "charge"} => ~exceeded
  /\ phase = "run" => CurrentCase <= NumCases
  /\ phase = "charge" => Len(results) > 0 /\ Last(results).outcome \in Graded
  /\ phase = "done" => /\ Len(results) = NumCases
                       /\ summary.budget_exceeded = exceeded
                       /\ summary.spent_usd = spent

\* The inductive invariant.
IInv == TypeOK /\ FlagInv /\ PhaseInv /\ BudgetSkipsAreATail

-----------------------------------------------------------------------------
(***************************************************************************)
(* Recording a well-formed result keeps the list typed, adds one entry and *)
(* leaves the earlier entries alone.                                       *)
(***************************************************************************)
LEMMA RecordEffect ==
  ASSUME TypeOK, CurrentCase <= NumCases,
         NEW o \in Outcomes, NEW c \in Costs \cup {0}, Record(o, c)
  PROVE  /\ results' \in Seq(Result)
         /\ Len(results') = Len(results) + 1
         /\ Len(results') <= NumCases
         /\ \A k \in 1..Len(results) : results'[k] = results[k]
         /\ results'[Len(results) + 1].outcome = o
<1>1. [outcome |-> o, cost |-> c] \in Result
  BY DEF Result
<1>2. results \in Seq(Result) /\ Len(results) \in Nat
  BY LenProperties DEF TypeOK
<1>3. results' = Append(results, [outcome |-> o, cost |-> c])
  BY DEF Record
<1>4. /\ results' \in Seq(Result)
      /\ Len(results') = Len(results) + 1
      /\ \A k \in 1..Len(results) : results'[k] = results[k]
      /\ results'[Len(results) + 1] = [outcome |-> o, cost |-> c]
  BY <1>1, <1>2, <1>3, AppendProperties
<1>5. Len(results) + 1 <= NumCases
  BY <1>2, SuiteAssumption DEF CurrentCase
<1>. QED
  BY <1>4, <1>5

(***************************************************************************)
(* After one more result there is a budget skip in the list exactly when   *)
(* there was one before or the new result is one.                          *)
(***************************************************************************)
LEMMA SkipsAfterRecord ==
  ASSUME Len(results) \in Nat, NEW o,
         Len(results') = Len(results) + 1,
         \A k \in 1..Len(results) : results'[k] = results[k],
         results'[Len(results) + 1].outcome = o
  PROVE  SomeBudgetSkip' <=> (SomeBudgetSkip \/ o \in BudgetSkips)
<1>1. \A k \in 1..Len(results) : results'[k].outcome = results[k].outcome
  OBVIOUS
<1>2. 1..Len(results') = 1..Len(results) \cup {Len(results) + 1}
  OBVIOUS
<1>. QED
  BY <1>1, <1>2, Zenon DEF SomeBudgetSkip

\* Two positions of a list that grew by one entry, the second after the first.
LEMMA BelowTheNewIndex ==
  ASSUME NEW n \in Nat, NEW q, q = n + 1, NEW k \in 1..q, NEW m \in (k + 1)..q
  PROVE  /\ k \in 1..n
         /\ m \in 1..n => m \in (k + 1)..n
         /\ m \in 1..n \/ m = n + 1
  OBVIOUS

(***************************************************************************)
(* A tail of budget skips stays one when the new result is either the text *)
(* "budget exceeded" or comes with no budget skip before it.               *)
(***************************************************************************)
LEMMA TailAfterRecord ==
  ASSUME Len(results) \in Nat, NEW o,
         Len(results') = Len(results) + 1,
         \A k \in 1..Len(results) : results'[k] = results[k],
         results'[Len(results) + 1].outcome = o,
         BudgetSkipsAreATail,
         SomeBudgetSkip => o = "budget exceeded"
  PROVE  BudgetSkipsAreATail'
<1>. SUFFICES ASSUME NEW k \in 1..Len(results'), results'[k].outcome \in BudgetSkips,
                     NEW m \in (k + 1)..Len(results')
              PROVE  results'[m].outcome = "budget exceeded"
  BY DEF BudgetSkipsAreATail
<1>1. /\ k \in 1..Len(results)
      /\ m \in 1..Len(results) => m \in (k + 1)..Len(results)
      /\ m \in 1..Len(results) \/ m = Len(results) + 1
  BY BelowTheNewIndex, Zenon
<1>2. results[k].outcome \in BudgetSkips
  BY <1>1, Zenon
<1>3. CASE m \in 1..Len(results)
  <2>1. results[m].outcome = "budget exceeded"
    BY <1>1, <1>2, <1>3, Zenon DEF BudgetSkipsAreATail
  <2>. QED
    BY <1>3, <2>1, Zenon
<1>4. CASE m = Len(results) + 1
  <2>1. o = "budget exceeded"
    BY <1>1, <1>2, Zenon DEF SomeBudgetSkip
  <2>. QED
    BY <1>4, <2>1, Zenon
<1>. QED
  BY <1>1, <1>3, <1>4, Zenon

(***************************************************************************)
(* The type invariant (SuiteRun's TypeOK) with what each place of the loop *)
(* body knows: the inductive invariant holds initially and is preserved by *)
(* every step of run_suite and by the clock.                               *)
(***************************************************************************)
LEMMA InitIInv == Init => IInv
<1>. SUFFICES ASSUME Init PROVE IInv
  OBVIOUS
<1>1. results \in Seq(Result) /\ Len(results) = 0
  BY EmptySeq DEF Init
<1>2. TypeOK
  <2>1. spent = 0 /\ elapsed = 0 /\ exceeded = FALSE /\ phase = "check"
    BY DEF Init
  <2>2. 0 \in 0..(MaxWall + 1) /\ 0 <= NumCases
    BY SuiteAssumption
  <2>. QED
    BY <1>1, <2>1, <2>2 DEF TypeOK
<1>3. FlagInv /\ BudgetSkipsAreATail
  BY <1>1, SuiteAssumption DEF Init, FlagInv, SomeBudgetSkip, BudgetSkipsAreATail
<1>4. PhaseInv
  BY DEF Init, PhaseInv
<1>. QED
  BY <1>2, <1>3, <1>4 DEF IInv

LEMMA RecordSkip ==
  ASSUME IInv, CurrentCase <= NumCases, phase \in {"check", "run"},
         NEW o \in Skips, Record(o, 0),
         spent' = spent, elapsed' = elapsed, phase' = "check",
         exceeded' \in BOOLEAN, exceeded' <=> (exceeded \/ o \in BudgetSkips),
         exceeded => o = "budget exceeded"
  PROVE  IInv'
<1>1. /\ o \in Outcomes
      /\ 0 \in Costs \cup {0}
  BY DEF Outcomes
<1>2. /\ results' \in Seq(Result)
      /\ Len(results') = Len(results) + 1
      /\ Len(results') <= NumCases
      /\ \A k \in 1..Len(results) : results'[k] = results[k]
      /\ results'[Len(results) + 1].outcome = o
  BY <1>1, RecordEffect DEF IInv
<1>3. Len(results) \in Nat
  BY LenProperties DEF IInv, TypeOK
<1>4. TypeOK'
  BY <1>2 DEF IInv, TypeOK
<1>5. FlagInv'
  <2>1. SomeBudgetSkip' <=> (SomeBudgetSkip \/ o \in BudgetSkips)
    BY <1>2, <1>3, SkipsAfterRecord
  <2>. QED
    BY <2>1 DEF IInv, FlagInv
<1>6. BudgetSkipsAreATail'
  <2>1. SomeBudgetSkip => o = "budget exceeded"
    BY DEF IInv, FlagInv
  <2>. QED
    BY <1>2, <1>3, <2>1, TailAfterRecord DEF IInv
<1>7. PhaseInv'
  BY DEF PhaseInv
<1>. QED
  BY <1>4, <1>5, <1>6, <1>7 DEF IInv

LEMMA RecordAttempt ==
  ASSUME IInv, phase = "run",
         NEW o \in Attempted, NEW c \in Costs \cup {0}, Record(o, c),
         spent' = spent, elapsed' = elapsed, exceeded' = exceeded,
         phase' = IF o \in Graded THEN "charge" ELSE "check"
  PROVE  IInv'
<1>1. o \in Outcomes /\ o \notin BudgetSkips
  BY DEF Outcomes, Attempted, Graded, BudgetSkips
<1>2. /\ results' \in Seq(Result)
      /\ Len(results') = Len(results) + 1
      /\ Len(results') <= NumCases
      /\ \A k \in 1..Len(results) : results'[k] = results[k]
      /\ results'[Len(results) + 1].outcome = o
  BY <1>1, RecordEffect DEF IInv, PhaseInv
<1>3. Len(results) \in Nat
  BY LenProperties DEF IInv, TypeOK
<1>4. TypeOK'
  BY <1>2 DEF IInv, TypeOK
<1>5. FlagInv'
  <2>1. SomeBudgetSkip' <=> (SomeBudgetSkip \/ o \in BudgetSkips)
    BY <1>2, <1>3, SkipsAfterRecord
  <2>. QED
    BY <1>1, <2>1 DEF IInv, FlagInv
<1>6. BudgetSkipsAreATail'
  <2>1. ~SomeBudgetSkip
    BY DEF IInv, FlagInv, PhaseInv
  <2>. QED
    BY <1>2, <1>3, <2>1, TailAfterRecord DEF IInv
<1>7. PhaseInv'
  BY <1>1, <1>2, <1>3 DEF IInv, PhaseInv, Last
<1>. QED
  BY <1>4, <1>5, <1>6, <1>7 DEF IInv

LEMMA NextIInv == IInv /\ [Next]_vars => IInv'
<1>. SUFFICES ASSUME IInv, [Next]_vars PROVE IInv'
  OBVIOUS
<1>0. Len(results) \in Nat
  BY LenProperties DEF IInv, TypeOK
<1>1. CASE SkipExceeded
  <2>. "budget exceeded" \in Skips /\ "budget exceeded" \in BudgetSkips
    BY DEF Skips, BudgetSkips
  <2>. QED
    BY <1>1, RecordSkip DEF SkipExceeded, IInv, TypeOK
<1>2. CASE StopAtCheck
  <2>. "check_raised" \in Skips /\ "check_raised" \in BudgetSkips
    BY DEF Skips, BudgetSkips
  <2>. QED
    BY <1>2, RecordSkip DEF StopAtCheck
<1>3. CASE PassCheck
  BY <1>3 DEF PassCheck, IInv, TypeOK, FlagInv, SomeBudgetSkip, PhaseInv,
              BudgetSkipsAreATail, CurrentCase
<1>4. CASE SkipIncapable
  <2>1. "target lacks" \in Skips /\ "target lacks" \notin BudgetSkips
    BY DEF Skips, BudgetSkips
  <2>2. CurrentCase <= NumCases /\ ~exceeded
    BY <1>4 DEF SkipIncapable, IInv, PhaseInv
  <2>3. exceeded' \in BOOLEAN /\ exceeded' = exceeded
    BY <1>4 DEF SkipIncapable, IInv, TypeOK
  <2>4. /\ exceeded' <=> (exceeded \/ "target lacks" \in BudgetSkips)
        /\ exceeded => "target lacks" = "budget exceeded"
    BY <2>1, <2>2, <2>3, Zenon
  <2>5. /\ phase \in {"check", "run"}
        /\ Record("target lacks", 0)
        /\ spent' = spent /\ elapsed' = elapsed /\ phase' = "check"
    BY <1>4 DEF SkipIncapable
  <2>. QED
    BY <2>1, <2>2, <2>3, <2>4, <2>5, RecordSkip, Zenon
<1>5. CASE TargetRaises
  <2>. "target_error" \in Attempted /\ "target_error" \notin Graded
    BY DEF Attempted, Graded
  <2>. QED
    BY <1>5, RecordAttempt DEF TargetRaises
<1>6. CASE GradeCase
  <2>1. PICK o \in Graded, c \in Costs : Record(o, c)
    BY <1>6 DEF GradeCase
  <2>. QED
    BY <1>6, <2>1, RecordAttempt DEF GradeCase, Attempted
<1>7. CASE Charge
  <2>1. Last(results).cost \in Nat
    <3>1. results[Len(results)] \in Result
      BY <1>0, <1>7, ElementOfSeq DEF Charge, IInv, TypeOK, PhaseInv
    <3>2. results[Len(results)].cost \in Costs \cup {0}
      BY <3>1, Zenon DEF Result
    <3>3. Costs \cup {0} \subseteq Nat
      BY SuiteAssumption
    <3>. QED
      BY <3>2, <3>3, Zenon DEF Last
  <2>2. ~SomeBudgetSkip /\ results' = results
    BY <1>7 DEF Charge, IInv, PhaseInv, FlagInv
  <2>3. TypeOK'
    BY <1>7, <2>1, <2>2 DEF Charge, IInv, TypeOK
  <2>4. FlagInv'
    BY <1>7, <2>2 DEF Charge, FlagInv, SomeBudgetSkip
  <2>5. PhaseInv'
    BY <1>7 DEF Charge, PhaseInv
  <2>6. BudgetSkipsAreATail'
    BY <2>2 DEF IInv, BudgetSkipsAreATail
  <2>. QED
    BY <2>3, <2>4, <2>5, <2>6 DEF IInv
<1>8. CASE Return
  <2>1. Len(results) = NumCases
    BY <1>0, <1>8, SuiteAssumption DEF Return, IInv, TypeOK, CurrentCase
  <2>. QED
    BY <1>8, <2>1 DEF Return, IInv, TypeOK, FlagInv, SomeBudgetSkip, PhaseInv,
                      BudgetSkipsAreATail
<1>9. CASE Tick
  <2>1. elapsed' \in 0..(MaxWall + 1)
    BY <1>9, SuiteAssumption DEF Tick, IInv, TypeOK
  <2>. QED
    BY <1>9, <2>1 DEF Tick, IInv, TypeOK, FlagInv, SomeBudgetSkip, PhaseInv,
                      BudgetSkipsAreATail, CurrentCase
<1>10. CASE UNCHANGED vars
  BY <1>10 DEF vars, IInv, TypeOK, FlagInv, SomeBudgetSkip, PhaseInv,
               BudgetSkipsAreATail, CurrentCase
<1>. QED
  BY <1>1, <1>2, <1>3, <1>4, <1>5, <1>6, <1>7, <1>8, <1>9, <1>10 DEF Next, Step

\* The inductive invariant holds throughout every run of a suite.
THEOREM InductiveInvariant == Spec => []IInv
  BY InitIInv, NextIInv, PTL DEF Spec

-----------------------------------------------------------------------------
(***************************************************************************)
(* The loop variables of run_suite always have their types: one result per *)
(* case at most, and a spend that never goes down below zero.              *)
(***************************************************************************)
THEOREM TypeCorrect == Spec => []TypeOK
  BY InductiveInvariant, PTL DEF IInv

(***************************************************************************)
(* A run stops once (BudgetSkipsAreATail of SuiteRun): only the first      *)
(* budget skip of a run quotes the check, all later cases read             *)
(* "budget exceeded" (runner.py:105-125).                                  *)
(***************************************************************************)
THEOREM StopsOnce == Spec => []BudgetSkipsAreATail
  BY InductiveInvariant, PTL DEF IInv

(***************************************************************************)
(* The budget_exceeded flag of a returned run is exact (BudgetFlagIsExact  *)
(* of SuiteRun): set if and only if the run overspent or skipped a case    *)
(* for the budget (runner.py:136-144).                                     *)
(***************************************************************************)
THEOREM FlagIsExact == Spec => []BudgetFlagIsExact
<1>1. IInv => BudgetFlagIsExact
  BY DEF IInv, FlagInv, SomeBudgetSkip, PhaseInv, BudgetFlagIsExact
<1>. QED
  BY <1>1, InductiveInvariant, PTL

(***************************************************************************)
(* A target is called only while the run is within both its spend ceiling  *)
(* and its flag: in the body of the loop that runs or charges a case, the  *)
(* budget has not been exceeded yet (budget.py:68-82).                     *)
(***************************************************************************)
WithinBudgetWhileRunning == phase \in {"run", "charge"} => ~exceeded /\ spent <= MaxUsd

THEOREM RunsWithinBudget == Spec => []WithinBudgetWhileRunning
<1>1. IInv => WithinBudgetWhileRunning
  BY SuiteAssumption DEF IInv, TypeOK, FlagInv, PhaseInv, WithinBudgetWhileRunning
<1>. QED
  BY <1>1, InductiveInvariant, PTL

-----------------------------------------------------------------------------
(***************************************************************************)
(* A total is a recursive function, and no induction over it can be cited, *)
(* so the invariant carries the running total itself: the function t whose *)
(* value at k is the sum of the first k values of f.                       *)
(***************************************************************************)
RunningTotal(t, f, n) ==
  /\ t \in [0..n -> Nat] /\ t[0] = 0
  /\ \A k \in 1..n : t[k] = t[k - 1] + f[k]

\* Total is the end of any running total.
LEMMA TotalIs ==
  ASSUME NEW f, NEW n \in Nat, NEW t, RunningTotal(t, f, n)
  PROVE  Total(f, n) = t[n]
<1> DEFINE F(s) == [k \in 0..n |-> IF k = 0 THEN 0 ELSE s[k - 1] + f[k]]
           u == CHOOSE s : s = F(s)
<1>1. t = F(t)
  BY DEF RunningTotal
<1>2. u = F(u)
  <2> HIDE DEF F
  <2> QED BY <1>1
<1>3. Total(f, n) = u[n]
  BY DEF Total
<1>4. u[0] = 0 /\ \A k \in 1..n : u[k] = u[k - 1] + f[k]
  <2> HIDE DEF u
  <2>1. \A k \in 0..n : u[k] = IF k = 0 THEN 0 ELSE u[k - 1] + f[k]
    BY <1>2
  <2> QED BY <2>1
<1>5. \A k \in 0..n : u[k] = t[k]
  <2> DEFINE Bad == {k \in 0..n : u[k] # t[k]}
  <2> SUFFICES ASSUME Bad # {} PROVE FALSE
    OBVIOUS
  <2>1. IsWellFoundedOn(OpToRel(<, Nat), Nat)
    BY NatLessThanWellFounded
  <2>2. Bad \subseteq Nat
    OBVIOUS
  <2>3. PICK k \in Bad : \A j \in Bad : ~(<<j, k>> \in OpToRel(<, Nat))
    <3> HIDE DEF Bad
    <3> QED BY <2>1, <2>2, WFMin
  <2>4. \A j \in Bad : ~(j < k)
    BY <2>2, <2>3 DEF OpToRel
  <2>5. k # 0 /\ k \in 1..n
    BY <1>4 DEF RunningTotal
  <2>6. k - 1 \in 0..n /\ k - 1 < k
    BY <2>5
  <2>7. u[k - 1] = t[k - 1]
    BY <2>4, <2>6
  <2> HIDE DEF u
  <2> QED BY <1>4, <2>5, <2>7 DEF RunningTotal
<1> HIDE DEF u
<1> QED BY <1>3, <1>5

Extended(t, n, v) == [k \in 0..(n + 1) |-> IF k = n + 1 THEN t[n] + v ELSE t[k]]

\* g continues f after its first n values.
Continues(g, f, n) == (\A k \in 1..n : g[k] = f[k]) /\ g[n + 1] \in Nat

LEMMA NextTotal ==
  ASSUME NEW f, NEW g, NEW n \in Nat, NEW t, RunningTotal(t, f, n), Continues(g, f, n)
  PROVE  /\ RunningTotal(Extended(t, n, g[n + 1]), g, n + 1)
         /\ Extended(t, n, g[n + 1])[n + 1] = t[n] + g[n + 1]
<1> DEFINE u == [k \in 0..(n + 1) |-> IF k = n + 1 THEN t[n] + g[n + 1] ELSE t[k]]
<1>0. u = Extended(t, n, g[n + 1])
  BY DEF Extended
<1>1. t[n] \in Nat
  BY DEF RunningTotal
<1>2. u \in [0..(n + 1) -> Nat]
  BY <1>1 DEF RunningTotal, Continues
<1>3. u[0] = 0 /\ u[n + 1] = t[n] + g[n + 1]
  BY DEF RunningTotal
<1>4. \A k \in 1..(n + 1) : u[k] = u[k - 1] + g[k]
  <2> SUFFICES ASSUME NEW k \in 1..(n + 1) PROVE u[k] = u[k - 1] + g[k]
    OBVIOUS
  <2>1. CASE k = n + 1
    <3>1. u[k] = t[n] + g[n + 1] /\ u[k - 1] = t[n]
      BY <2>1
    <3> QED BY <2>1, <3>1
  <2>2. CASE k # n + 1
    <3>1. k \in 1..n
      BY <2>2
    <3>2. u[k] = t[k] /\ u[k - 1] = t[k - 1]
      BY <3>1
    <3>3. t[k] = t[k - 1] + f[k] /\ g[k] = f[k]
      BY <3>1 DEF RunningTotal, Continues
    <3> QED BY <3>2, <3>3
  <2> QED BY <2>1, <2>2
<1> HIDE DEF u
<1>5. RunningTotal(u, g, n + 1)
  BY <1>2, <1>3, <1>4 DEF RunningTotal
<1> QED BY <1>0, <1>3, <1>5

-----------------------------------------------------------------------------
(***************************************************************************)
(* The invariant behind SpendIsEvidenced: the costs recorded so far add up *)
(* to what was charged and, between a result and its charge, to what is    *)
(* about to be.                                                            *)
(***************************************************************************)
CostsOf(rs) == [k \in DOMAIN rs |-> rs[k].cost]
Uncharged == IF phase = "charge" THEN Last(results).cost ELSE 0

EvidInv == \E t : /\ RunningTotal(t, CostsOf(results), Len(results))
                  /\ t[Len(results)] = spent + Uncharged

LEMMA InitEvid == Init => EvidInv
<1>. SUFFICES ASSUME Init PROVE EvidInv
  OBVIOUS
<1>1. results = <<>> /\ Len(<<>>) = 0 /\ spent = 0 /\ Uncharged = 0
  BY EmptySeq DEF Init, Uncharged
<1> DEFINE z == [k \in 0..0 |-> 0]
<1>2. \A f : RunningTotal(z, f, 0)
  BY DEF RunningTotal
<1>3. z[0] = 0 + 0
  OBVIOUS
<1> HIDE DEF z
<1>. QED
  BY <1>1, <1>2, <1>3 DEF EvidInv

(***************************************************************************)
(* Recording a result adds its cost to the total: nothing for a skip or a  *)
(* raise, what waits to be charged for a graded case.                      *)
(***************************************************************************)
LEMMA RecordEvid ==
  ASSUME IInv, EvidInv, phase # "charge", CurrentCase <= NumCases,
         NEW o \in Outcomes, NEW c \in Costs \cup {0}, Record(o, c), spent' = spent,
         phase' = "charge" \/ c = 0
  PROVE  EvidInv'
<1>1. results \in Seq(Result) /\ Len(results) \in Nat /\ DOMAIN results = 1..Len(results)
  BY LenProperties DEF IInv, TypeOK
<1>2. /\ results' \in Seq(Result)
      /\ Len(results') = Len(results) + 1
      /\ \A k \in 1..Len(results) : results'[k] = results[k]
      /\ results'[Len(results) + 1] = [outcome |-> o, cost |-> c]
  BY <1>1, AppendProperties DEF Record, Result
<1>3. DOMAIN results' = 1..(Len(results) + 1)
  BY <1>2, LenProperties
<1>4. c \in Nat /\ Uncharged = 0 /\ spent \in Nat
  BY SuiteAssumption DEF Uncharged, IInv, TypeOK
<1>5. Uncharged' = c
  <2>1. Last(results)'.cost = c
    BY <1>2 DEF Last
  <2>. QED
    BY <2>1 DEF Uncharged
<1>6. PICK t : RunningTotal(t, CostsOf(results), Len(results)) /\ t[Len(results)] = spent
  BY <1>4 DEF EvidInv
<1> DEFINE n == Len(results)
<1>7. Continues(CostsOf(results'), CostsOf(results), n) /\ CostsOf(results')[n + 1] = c
  BY <1>1, <1>2, <1>3, <1>4 DEF Continues, CostsOf
<1>8. n \in Nat /\ RunningTotal(t, CostsOf(results), n) /\ t[n] = spent
  BY <1>1, <1>6
<1> HIDE DEF n
<1>9. \E u : RunningTotal(u, CostsOf(results'), n + 1) /\ u[n + 1] = spent + c
  <2>1. PICK f, g : f = CostsOf(results) /\ g = CostsOf(results')
    OBVIOUS
  <2>2. RunningTotal(t, f, n) /\ Continues(g, f, n)
    BY <1>7, <1>8, <2>1
  <2>3. /\ RunningTotal(Extended(t, n, g[n + 1]), g, n + 1)
        /\ Extended(t, n, g[n + 1])[n + 1] = t[n] + g[n + 1]
    BY <1>8, <2>2, NextTotal, Zenon
  <2>. QED
    BY <1>7, <1>8, <2>1, <2>3
<1>. QED
  BY <1>2, <1>5, <1>9 DEF EvidInv, n

LEMMA NextEvid == IInv /\ EvidInv /\ [Next]_vars => EvidInv'
<1>. SUFFICES ASSUME IInv, EvidInv, [Next]_vars PROVE EvidInv'
  OBVIOUS
<1>1. ASSUME results' = results, spent' + Uncharged' = spent + Uncharged PROVE EvidInv'
  BY <1>1 DEF EvidInv
<1>2. CASE SkipExceeded
  BY <1>2, RecordEvid DEF SkipExceeded, Outcomes, Skips, BudgetSkips
<1>3. CASE StopAtCheck
  BY <1>3, RecordEvid DEF StopAtCheck, Outcomes, Skips, BudgetSkips
<1>4. CASE SkipIncapable
  BY <1>4, RecordEvid DEF SkipIncapable, Outcomes, Skips, IInv, PhaseInv
<1>5. CASE TargetRaises
  BY <1>5, RecordEvid DEF TargetRaises, Outcomes, Attempted, IInv, PhaseInv
<1>6. CASE GradeCase
  <2>1. PICK o \in Graded, c \in Costs : Record(o, c)
    BY <1>6 DEF GradeCase
  <2>. QED
    BY <1>6, <2>1, RecordEvid DEF GradeCase, Outcomes, Attempted, IInv, PhaseInv
<1>7. CASE Charge
  <2>1. PICK t : /\ RunningTotal(t, CostsOf(results), Len(results))
                 /\ t[Len(results)] = spent + Last(results).cost
    BY <1>7 DEF Charge, EvidInv, Uncharged
  <2>2. results' = results /\ spent' = spent + Last(results).cost /\ Uncharged' = 0
    BY <1>7 DEF Charge, Uncharged
  <2>3. spent' \in Nat
    BY <1>7, NextIInv DEF Next, Step, IInv, TypeOK
  <2>4. t[Len(results)] = spent' + 0
    BY <2>1, <2>2, <2>3
  <2>. QED
    BY <2>1, <2>2, <2>4 DEF EvidInv
<1>8. CASE PassCheck \/ Return \/ Tick \/ UNCHANGED vars
  <2>1. results' = results /\ spent' = spent /\ Uncharged' = Uncharged
    BY <1>8 DEF PassCheck, Return, Tick, vars, Uncharged
  <2>. QED
    BY <1>1, <2>1
<1>. QED
  BY <1>2, <1>3, <1>4, <1>5, <1>6, <1>7, <1>8 DEF Next, Step

(***************************************************************************)
(* The evidence survives the overrun (SpendIsEvidenced of SuiteRun):       *)
(* whenever nothing waits to be charged, what the budget says was spent is *)
(* the cost of the trajectories kept, the one that tripped the ceiling     *)
(* included (runner.py:126-135).                                           *)
(***************************************************************************)
THEOREM SpendIsAccountedFor == Spec => []SpendIsEvidenced
<1>1. IInv /\ EvidInv => SpendIsEvidenced
  <2>. SUFFICES ASSUME IInv, EvidInv, phase # "charge" PROVE spent = CostOf(results)
    BY DEF SpendIsEvidenced
  <2>1. PICK t : RunningTotal(t, CostsOf(results), Len(results)) /\ t[Len(results)] = spent
    BY DEF EvidInv, Uncharged, IInv, TypeOK
  <2>2. Len(results) \in Nat
    BY LenProperties DEF IInv, TypeOK
  <2>3. PICK f : f = CostsOf(results)
    OBVIOUS
  <2>4. Total(f, Len(results)) = t[Len(results)]
    BY <2>1, <2>2, <2>3, TotalIs
  <2>. QED
    BY <2>1, <2>3, <2>4 DEF CostOf, CostsOf
<1>. QED
  BY <1>1, InductiveInvariant, InitEvid, NextEvid, PTL DEF Spec

-----------------------------------------------------------------------------
(***************************************************************************)
(* Recording a result appends its verdict to the abstract list, and a list *)
(* of results has as many verdicts as results.                             *)
(***************************************************************************)
Verdict == {"attempted", "skipped"}

LEMMA VerdictsTyped ==
  ASSUME TypeOK
  PROVE  VerdictsBar \in Seq(Verdict) /\ Len(VerdictsBar) = Len(results)
<1>1. results \in Seq(Result) /\ Len(results) \in Nat /\ DOMAIN results = 1..Len(results)
  BY LenProperties DEF TypeOK
<1>2. \A k \in 1..Len(results) : VerdictOf(results[k]) \in Verdict
  BY DEF VerdictOf, Verdict
<1>3. VerdictsBar = [k \in 1..Len(results) |-> VerdictOf(results[k])]
  BY <1>1 DEF VerdictsBar
<1>. QED
  BY <1>1, <1>2, <1>3

LEMMA RecordVerdict ==
  ASSUME TypeOK, TypeOK', CurrentCase <= NumCases,
         NEW o \in Outcomes, NEW c \in Costs \cup {0}, Record(o, c),
         NEW v \in Verdict, v = IF o \in Attempted THEN "attempted" ELSE "skipped"
  PROVE  VerdictsBar' = Append(VerdictsBar, v) /\ Abstract!Open
<1>1. /\ Len(results') = Len(results) + 1
      /\ \A k \in 1..Len(results) : results'[k] = results[k]
      /\ results'[Len(results) + 1].outcome = o
  BY RecordEffect
<1>2. /\ VerdictsBar \in Seq(Verdict) /\ Len(VerdictsBar) = Len(results)
      /\ Len(results) \in Nat
      /\ DOMAIN results = 1..Len(results)
  BY VerdictsTyped, LenProperties DEF TypeOK
<1>3. DOMAIN results' = 1..(Len(results) + 1)
  BY <1>1, LenProperties DEF TypeOK
<1>4. VerdictsBar' = [k \in 1..(Len(results) + 1) |-> VerdictOf(results'[k])]
  BY <1>3 DEF VerdictsBar
<1>5. /\ Append(VerdictsBar, v) \in Seq(Verdict)
      /\ Len(Append(VerdictsBar, v)) = Len(results) + 1
      /\ \A k \in 1..Len(results) : Append(VerdictsBar, v)[k] = VerdictsBar[k]
      /\ Append(VerdictsBar, v)[Len(results) + 1] = v
  BY <1>2, AppendProperties
<1>6. Append(VerdictsBar, v) \in [1..(Len(results) + 1) -> Verdict]
  BY <1>5, LenProperties
<1>7. \A k \in 1..Len(results) : VerdictOf(results'[k]) = Append(VerdictsBar, v)[k]
  <2>. TAKE k \in 1..Len(results)
  <2>1. VerdictsBar[k] = VerdictOf(results[k])
    BY <1>2 DEF VerdictsBar
  <2>. QED
    BY <1>1, <1>5, <2>1, Zenon
<1>8. VerdictOf(results'[Len(results) + 1]) = v
  BY <1>1 DEF VerdictOf
<1>9. \A k \in 1..(Len(results) + 1) : VerdictOf(results'[k]) = Append(VerdictsBar, v)[k]
  <2>. \A k \in 1..(Len(results) + 1) : k \in 1..Len(results) \/ k = Len(results) + 1
    BY <1>2
  <2>. QED
    BY <1>5, <1>7, <1>8, Zenon
<1>10. VerdictsBar' = Append(VerdictsBar, v)
  BY <1>4, <1>6, <1>9, Zenon
<1>11. Abstract!Open
  BY <1>2, SuiteAssumption DEF Abstract!Open, CurrentCase
<1>. QED
  BY <1>10, <1>11

LEMMA InitRefines == Init => Abstract!Init
<1>. SUFFICES ASSUME Init PROVE Abstract!Init
  OBVIOUS
<1>1. TypeOK
  BY InitIInv DEF IInv
<1>2. VerdictsBar \in Seq(Verdict) /\ Len(VerdictsBar) = 0
  BY <1>1, VerdictsTyped DEF Init
<1>3. VerdictsBar = <<>>
  BY <1>2, EmptySeq
<1>4. PaidBar = 0 /\ StoppedBar = FALSE
  BY SuiteAssumption DEF Init, PaidBar, StoppedBar
<1>. QED
  BY <1>3, <1>4 DEF Abstract!Init

LEMMA NextRefines == IInv /\ IInv' /\ [Next]_vars => [Abstract!Next]_(Abstract!vars)
<1>. SUFFICES ASSUME IInv, IInv', [Next]_vars
              PROVE  Abstract!Next \/ UNCHANGED Abstract!vars
  OBVIOUS
<1>0. TypeOK /\ TypeOK' /\ "attempted" \in Verdict /\ "skipped" \in Verdict
  BY DEF IInv, Verdict
<1>1. ASSUME NEW o \in Skips, Record(o, 0), CurrentCase <= NumCases,
             phase \in {"check", "run"}, phase' = "check", spent' = spent,
             exceeded' = (exceeded \/ o \in BudgetSkips)
      PROVE  Abstract!Skip
  <2>1. o \in Outcomes /\ o \notin Attempted /\ 0 \in Costs \cup {0}
    BY DEF Outcomes, Skips, BudgetSkips, Attempted, Graded
  <2>2. VerdictsBar' = Append(VerdictsBar, "skipped") /\ Abstract!Open
    BY <1>0, <1>1, <2>1, RecordVerdict
  <2>3. PaidBar = spent /\ PaidBar' = spent'
    BY <1>1 DEF PaidBar
  <2>4. StoppedBar' = StoppedBar \/ StoppedBar' = TRUE
    <3>1. exceeded \in BOOLEAN /\ (exceeded => exceeded') /\ exceeded' \in BOOLEAN
      BY <1>0, <1>1 DEF TypeOK
    <3>. QED
      BY <1>1, <2>3, <3>1, Zenon DEF StoppedBar
  <2>. QED
    BY <1>1, <2>2, <2>3, <2>4, Zenon DEF Abstract!Skip
<1>2. ASSUME NEW o \in Attempted, NEW c \in Costs \cup {0}, Record(o, c),
             phase = "run", spent' = spent, exceeded' = exceeded,
             phase' = IF o \in Graded THEN "charge" ELSE "check",
             o \in Graded \/ c = 0
      PROVE  Abstract!Attempt
  <2>1. o \in Outcomes /\ CurrentCase <= NumCases /\ ~exceeded
    BY <1>2 DEF Outcomes, IInv, PhaseInv
  <2>2. VerdictsBar' = Append(VerdictsBar, "attempted") /\ Abstract!Open
    BY <1>0, <1>2, <2>1, RecordVerdict
  <2>3. spent \in Nat /\ c \in Nat /\ PaidBar = spent /\ ~(spent > MaxUsd)
    BY <1>2, <2>1, SuiteAssumption DEF IInv, TypeOK, FlagInv, PaidBar
  <2>4. PaidBar' = spent + c
    <3>1. Last(results)' = [outcome |-> o, cost |-> c]
      BY <1>0, <1>2, <2>1, AppendProperties, LenProperties DEF Record, Last, TypeOK, Result
    <3>. QED
      BY <1>2, <2>3, <3>1 DEF PaidBar
  <2>5. StoppedBar = FALSE
    BY <2>1, <2>3, Zenon DEF StoppedBar
  <2>6. StoppedBar' = (PaidBar' > MaxUsd)
    BY <1>2, <2>1 DEF StoppedBar
  <2>. QED
    BY <1>2, <2>2, <2>3, <2>4, <2>5, <2>6, Zenon DEF Abstract!Attempt
<1>3. CASE SkipExceeded
  BY <1>0, <1>1, <1>3 DEF SkipExceeded, TypeOK, Skips, BudgetSkips, Abstract!Next
<1>4. CASE StopAtCheck
  BY <1>0, <1>1, <1>4 DEF StopAtCheck, TypeOK, Skips, BudgetSkips, Abstract!Next
<1>5. CASE SkipIncapable
  <2>1. CurrentCase <= NumCases
    BY <1>5 DEF SkipIncapable, IInv, PhaseInv
  <2>2. exceeded' = (exceeded \/ "target lacks" \in BudgetSkips)
    BY <1>0, <1>5 DEF SkipIncapable, TypeOK, BudgetSkips
  <2>. QED
    BY <1>1, <1>5, <2>1, <2>2 DEF SkipIncapable, Skips, Abstract!Next
<1>6. CASE TargetRaises
  BY <1>2, <1>6 DEF TargetRaises, Attempted, Graded, Abstract!Next
<1>7. CASE GradeCase
  <2>1. PICK o \in Graded, c \in Costs : Record(o, c)
    BY <1>7 DEF GradeCase
  <2>. QED
    BY <1>2, <1>7, <2>1 DEF GradeCase, Attempted, Abstract!Next
<1>8. CASE Charge
  <2>1. VerdictsBar' = VerdictsBar /\ PaidBar' = PaidBar
    BY <1>8 DEF Charge, VerdictsBar, PaidBar
  <2>2. StoppedBar' = StoppedBar
    <3>1. ~exceeded /\ PaidBar = spent + Last(results).cost /\ PaidBar' = spent'
      BY <1>8 DEF Charge, IInv, PhaseInv, PaidBar
    <3>0. spent' = spent + Last(results).cost /\ exceeded' = (spent' > MaxUsd)
      BY <1>8 DEF Charge
    <3>2. PaidBar = spent'
      BY <3>0, <3>1, Zenon
    <3>3. (StoppedBar <=> spent' > MaxUsd) /\ (StoppedBar' <=> spent' > MaxUsd)
      BY <3>0, <3>1, <3>2 DEF StoppedBar
    <3>4. StoppedBar \in BOOLEAN /\ StoppedBar' \in BOOLEAN
      BY DEF StoppedBar
    <3>. QED
      BY <3>3, <3>4
  <2>. QED
    BY <2>1, <2>2 DEF Abstract!vars
<1>9. CASE PassCheck
  BY <1>9 DEF PassCheck, VerdictsBar, PaidBar, StoppedBar, Abstract!vars
<1>10. CASE Return
  BY <1>10 DEF Return, VerdictsBar, PaidBar, StoppedBar, Abstract!vars
<1>11. CASE Tick
  BY <1>11 DEF Tick, VerdictsBar, PaidBar, StoppedBar, Abstract!vars
<1>12. CASE UNCHANGED vars
  BY <1>12 DEF vars, VerdictsBar, PaidBar, StoppedBar, Abstract!vars
<1>. QED
  BY <1>3, <1>4, <1>5, <1>6, <1>7, <1>8, <1>9, <1>10, <1>11, <1>12 DEF Next, Step, Abstract!Next

(***************************************************************************)
(* run_suite under its Budget implements BudgetedRun: for any suite, costs *)
(* and ceilings, its initial states and steps are those of the abstract    *)
(* run under the mapping of SuiteRun (the liveness half of                 *)
(* ImplementsBudgetedRun stays with TLC).                                  *)
(***************************************************************************)
THEOREM SafetyRefinement == Spec => Abstract!Init /\ [][Abstract!Next]_(Abstract!vars)
  BY InitRefines, NextRefines, InductiveInvariant, PTL DEF Spec

=============================================================================
