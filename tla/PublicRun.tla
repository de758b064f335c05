------------------------------- MODULE PublicRun -------------------------------
(***************************************************************************)
(* evalplat run public (cli.py: cmd_run_public) one command after another: *)
(* run_public (suites/public.py) cuts a per-sample cap from the budget,    *)
(* Inspect spends the money, and the command books it in the ledger        *)
(* (budget.py: Ledger) before it writes the summary.  The command may be   *)
(* killed between any two steps, in the middle of a ledger line too.       *)
(*                                                                         *)
(* Inspect is external: it stops a sample once the calls it has made cost  *)
(* more than cost_limit, which it sees only after a call, and it may end   *)
(* in an error or raise at any point.  Dollars are integers.  What the     *)
(* summary write does to the results directory is ResultsStore's subject.  *)
(***************************************************************************)
EXTENDS Integers, Sequences, FiniteSets, FiniteSetsExt, SequencesExt, Totals

CONSTANTS MaxUsd,      \* --budget-usd
          Limits,      \* --limit, NoLimit for the whole dataset
          NoLimit,
          DatasetSize,
          Epochs,      \* --epochs
          LastCall,    \* the most one model call costs
          MaxRuns      \* bound: commands run

ASSUME PublicAssumption ==
  /\ MaxUsd \in Nat /\ DatasetSize \in Nat /\ LastCall \in Nat /\ MaxRuns \in Nat
  /\ NoLimit \notin Nat /\ Limits \subseteq (Nat \ {0}) \cup {NoLimit}
  /\ Epochs \subseteq Nat \ {0}

VARIABLES pc,         \* what the command does next
          run,        \* the run in memory
          ledger,     \* the lines of results/ledger.jsonl
          summaries,  \* the runs with a per-run file
          history     \* how each command ended, and whether record returned

vars == <<pc, run, ledger, summaries, history>>

Modes == {"priced", "free", "uncapped"}
NoRun == [limit |-> NoLimit, epochs |-> 1, mode |-> "free", left |-> 0, usd |-> 0]
Id == Len(history) + 1

Init ==
  /\ pc = "idle" /\ run = NoRun
  /\ ledger = <<>> /\ summaries = {}
  /\ history = <<>>

End(how) ==
  /\ pc' = "idle" /\ run' = NoRun
  /\ history' = Append(history, [usd |-> run.usd, how |-> how, booked |-> pc = "summary"])

-----------------------------------------------------------------------------
\* cost_limit for a priced model: remaining / limit when there is a limit,
\* all that remains when there is none.  Without a cap Inspect reports no
\* cost, for a mock model because there is none and with --no-cost-cap
\* because it has no price.

\* Mutant: every sample may cost what the whole run may.
CapNotDivided(r, cost) == cost <= MaxUsd

UnderTheCap(r, cost) == IF r.limit = NoLimit THEN cost <= MaxUsd ELSE cost * r.limit <= MaxUsd

SampleCosts(r) ==
  IF r.mode # "priced" THEN {0}
  ELSE {before + call : before \in {c \in 0..MaxUsd : UnderTheCap(r, c)}, call \in 0..LastCall}

Samples(limit) == IF limit = NoLimit THEN DatasetSize ELSE Min({limit, DatasetSize})

\* An empty budget refuses every run, and a run without a cap needs --limit
\* or --full; a refused command changes nothing.
StartRun ==
  /\ pc = "idle" /\ Len(history) < MaxRuns
  /\ MaxUsd > 0
  /\ \E limit \in Limits, epochs \in Epochs, mode \in Modes, full \in BOOLEAN :
       /\ ~(mode = "uncapped" /\ limit = NoLimit /\ ~full)
       /\ run' = [limit |-> limit, epochs |-> epochs, mode |-> mode,
                  left |-> Samples(limit) * epochs, usd |-> 0]
  /\ pc' = "inspect"
  /\ UNCHANGED <<ledger, summaries, history>>

Sample ==
  /\ pc = "inspect" /\ run.left > 0
  /\ \E cost \in SampleCosts(run) :
       run' = [run EXCEPT !.left = @ - 1, !.usd = @ + cost]
  /\ UNCHANGED <<pc, ledger, summaries, history>>

\* inspect_eval returns a log: of a finished run, or of one that errored.
InspectReturns ==
  /\ pc = "inspect"
  /\ pc' = "charge"
  /\ UNCHANGED <<run, ledger, summaries, history>>

\* inspect_eval raises: the command ends with what was spent unbooked.
InspectRaises ==
  /\ pc = "inspect"
  /\ End("raised")
  /\ UNCHANGED <<ledger, summaries>>

\* budget.charge raises past the ceiling; cmd_run_public prints the message
\* and returns 2, with no ledger line and no summary.
ChargeRaises ==
  /\ pc = "charge" /\ run.usd > MaxUsd
  /\ End("overrun")
  /\ UNCHANGED <<ledger, summaries>>

\* Mutant: the summary goes first, and the ledger line is left for after it.
ChargeSkipsTheLedger ==
  /\ pc = "charge" /\ run.usd <= MaxUsd
  /\ pc' = "summary"
  /\ UNCHANGED <<run, ledger, summaries, history>>

ChargePasses ==
  /\ pc = "charge" /\ run.usd <= MaxUsd
  /\ pc' = "ledger"
  /\ UNCHANGED <<run, ledger, summaries, history>>

-----------------------------------------------------------------------------
\* Mutant: total_usd skips a line it cannot read.
TornLinesAreSkipped(lines) == TRUE

\* Ledger.total_usd raises ValueError on a line it cannot read.
Readable(lines) == \A i \in DOMAIN lines : lines[i].parses

TotalUsd(lines) == Total([i \in DOMAIN lines |-> lines[i].usd], Len(lines))

\* Mutant: every append starts a line of its own.
AppendStartsALine(lines, line) == Append(lines, line)

\* Text written to the end of the file joins a last line that was left
\* without its newline; the joined line does not parse.
Appended(lines, line) ==
  IF lines # <<>> /\ Last(lines).open
  THEN Append(Front(lines), [runs |-> Last(lines).runs \cup line.runs,
                             usd |-> 0, parses |-> FALSE, open |-> line.open])
  ELSE Append(lines, line)

Line(usd, parses, open) ==
  [runs |-> {Id}, usd |-> IF parses THEN usd ELSE 0, parses |-> parses, open |-> open]

\* Ledger.record
Record ==
  /\ pc = "ledger"
  /\ ledger' = Appended(ledger, Line(run.usd, TRUE, FALSE))
  /\ pc' = "summary"
  /\ UNCHANGED <<run, summaries, history>>

\* The command dies inside Ledger.record: part of the object is on disk, or
\* all of it but the newline.
KillInRecord ==
  /\ pc = "ledger"
  /\ \E parses \in BOOLEAN : ledger' = Appended(ledger, Line(run.usd, parses, TRUE))
  /\ End("killed")
  /\ UNCHANGED summaries

Kill ==
  /\ pc # "idle"
  /\ End("killed")
  /\ UNCHANGED <<ledger, summaries>>

\* Both branches write the per-run file; only a successful run is promoted.
WriteSummary ==
  /\ pc = "summary"
  /\ summaries' = summaries \cup {Id}
  /\ End("wrote")
  /\ UNCHANGED ledger

\* The summary write fails (OSError) after the money is booked.
WriteFails ==
  /\ pc = "summary"
  /\ End("unwritten")
  /\ UNCHANGED <<ledger, summaries>>

Next ==
  \/ StartRun \/ Sample \/ InspectReturns \/ InspectRaises
  \/ ChargeRaises \/ ChargePasses \/ Record \/ WriteSummary \/ WriteFails
  \/ Kill \/ KillInRecord

Spec == Init /\ [][Next]_vars

-----------------------------------------------------------------------------
Ids == 1..MaxRuns

TypeOK ==
  /\ pc \in {"idle", "inspect", "charge", "ledger", "summary"}
  /\ run.limit \in Limits \cup {NoLimit} /\ run.mode \in Modes
  /\ run.epochs \in Nat \ {0} /\ run.left \in Nat /\ run.usd \in Nat
  /\ \A i \in DOMAIN ledger :
       /\ ledger[i].runs \in (SUBSET Ids) \ {{}} /\ ledger[i].usd \in Nat
       /\ ledger[i].parses \in BOOLEAN
       /\ ledger[i].open => i = Len(ledger)
  /\ summaries \subseteq Ids /\ Len(history) <= MaxRuns

\* What a run may cost under the caps run_public computes.  Only --limit
\* bounds it: each of its samples may use its share of the budget and one
\* more call in every epoch; without a limit every sample of the dataset may
\* use the budget and one more call.
Ceiling(r) ==
  IF r.mode # "priced" THEN 0
  ELSE r.epochs * (IF r.limit = NoLimit THEN DatasetSize * (MaxUsd + LastCall)
                   ELSE MaxUsd + r.limit * LastCall)

\* Spend is bounded: whatever Inspect does under the cap, a run's cost stays
\* under that figure (run_public, cost_limit = remaining / limit).
SpendIsBounded == run.usd <= Ceiling(run)

\* A summary in the results directory has its cost in the ledger, wherever
\* the command was killed (cmd_run_public: "Ledger first").
SummariesArePaidFor ==
  \A id \in summaries : \E i \in DOMAIN ledger : id \in ledger[i].runs

Booked == {i \in DOMAIN history : history[i].booked}
                \cup (IF pc = "summary" THEN {Id} ELSE {})
BookedUsd ==
  Total([i \in 1..Id |-> IF i \notin Booked THEN 0
                         ELSE IF i = Id THEN run.usd ELSE history[i].usd], Id)

\* The ledger never under-reports in silence: total_usd raises, or it counts
\* the cost of every run whose record call returned, though a line torn by a
\* killed command swallows the line after it.
LedgerIsWholeOrLoud == Readable(ledger) => TotalUsd(ledger) >= BookedUsd

\* The ledger as the design states it: the spend of every live run is
\* recorded, here for each run that was not cut off from outside.
EveryLiveRunIsRecorded ==
  \A id \in DOMAIN history :
    history[id].how \in {"wrote", "unwritten", "overrun"} /\ history[id].usd > 0 =>
      \E i \in DOMAIN ledger : id \in ledger[i].runs
=============================================================================
