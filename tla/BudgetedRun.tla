----------------------------- MODULE BudgetedRun -----------------------------
(***************************************************************************)
(* What a budgeted suite run promises, without its loop, its clock or its  *)
(* exceptions: every case gets exactly one verdict in the order the suite  *)
(* lists them, a case is attempted only while the run has not stopped, and *)
(* once the run has stopped every case left is skipped.  SuiteRun.tla is   *)
(* shown to implement this module.                                         *)
(***************************************************************************)
EXTENDS Integers, Sequences

CONSTANTS NumCases,   \* how many cases the suite holds
          MaxUsd,     \* the dollar ceiling of the run
          Costs       \* what attempting one case may cost

VARIABLES verdicts,   \* one entry per case dealt with so far
          paid,       \* total cost of the attempted cases
          stopped     \* no case is attempted any more

vars == <<verdicts, paid, stopped>>

Open == Len(verdicts) < NumCases

Init ==
  /\ verdicts = <<>>
  /\ paid = 0
  /\ stopped = FALSE

\* A case is attempted; paying for it may stop the run.
Attempt ==
  /\ Open
  /\ ~stopped
  /\ verdicts' = Append(verdicts, "attempted")
  /\ \E c \in Costs \cup {0} : paid' = paid + c
  /\ stopped' = (paid' > MaxUsd)

\* A case is skipped; the first skip of a stop may be caused by the clock.
Skip ==
  /\ Open
  /\ verdicts' = Append(verdicts, "skipped")
  /\ stopped' \in {stopped, TRUE}
  /\ UNCHANGED paid

Next == Attempt \/ Skip

Spec == Init /\ [][Next]_vars /\ WF_vars(Next)

=============================================================================
