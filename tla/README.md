# A verification project for ai-eval-platform

`src/` is a Python command-line tool, `evalplat`, that runs evaluation suites
against an agent platform, grades what the agent did, lets model judges grade
it again, and decides whether a merge may go ahead.  This directory models the
parts of it that keep state, checks them with TLC and proves the main results
with TLAPS.  Every module is a translation of the source; the line ranges each
definition stands for are in `PROJECT.json` under `map`.

## 1. The system

| Component | State it keeps | Operations | Interacts with |
|---|---|---|---|
| Suite runner (`suites/runner.py`) and `Budget` (`budget.py`) | the results list, `budget_exceeded`, `spent_usd`, the start time | `run_suite`, `run_case`, `check`, `charge` | calls a target and the deterministic graders once per case |
| Targets: in process, HTTP, MCP, scripted (`targets/`) | one world per case: tools, scripted providers, `FaultLedger`, recorded calls | `run`, `_run_sessions`, `run_dict_to_trajectory` | drive the agent platform (not in this repository) |
| Fault injection (`targets/faults.py`) | one call counter per wrapped seam, the ledger of firings | wrapped handlers, `FaultyProvider.complete` | sits between the recorder and the real tool or provider |
| Deterministic and trajectory graders (`graders/deterministic.py`, `graders/trajectory.py`) | none | pure functions of a case and a trajectory | called by `run_case` |
| Metrics (`types.py`) | none | `compute_metrics`, `judge_metrics` | runner, judge pass, summaries |
| Judge pass (`judge_pass.py`), judges (`graders/judge.py`), verdict cache (`graders/judge_cache.py`) | the stored run, `.cache/judge/*`, loaded model weights | `apply`, `judge`, `get`, `put`, `release` | reads and rewrites a summary |
| Results directory (`results.py`) | `results/<suite>/<started>-<target>.json`, `latest.json` | `write_summary`, `read_summary` | every command |
| Public runs (`suites/public.py`) and `Ledger` (`budget.py`) | `results/ledger.jsonl` | `run_public`, `charge`, `record`, `total_usd` | Inspect (a library) runs the samples |
| Calibration (`calibration.py`) | `results/calibration/latest.json` | `calibrate`, `write_report` | read by the gate |
| Gate (`gate/`) | `baselines/*.json`, `gate.yaml` | `compare`, `gate --update-baseline` | reads latest summaries, baselines and the calibration report |
| Catalog, suite loaders, EDGAR retriever, reports, telemetry, scripts | files only | load, render, serve | around the rest |
| CI workflow (`.github/workflows/ci.yml`) | the baseline files on main | measure, gate, commit, rebase, push | other jobs of the same workflow |

What makes each of them correct:

- *Runner and budget*: the money reported is the money the results show, an
  overrun is at most the case that caused it, and every case gets a result.
- *Targets and fault injection*: the trajectory states each call with its own
  arguments and outcome, a planned fault hits the call it names once, and a
  session ends with a reason.
- *Graders and metrics*: a metric is a function of the cases it stands beside, and
  a case without evidence is not a pass.
- *Judge pass and cache*: a verdict is paid for once, the stored verdicts are those
  of the grades, an interrupted pass loses nothing, and one model is resident.
- *Results directory*: a record that was written stays as it was, and the latest
  summary is that of the last successful run.
- *Public runs and ledger*: total spend is bounded by the budget, and every
  booking can be found again.
- *Calibration and gate*: a floor that holds holds for the cases, a judge counts
  once it has been shown to agree with people, and a baseline is of the same target.
- *Catalog, loaders, retriever, reports, workflow*: what they show is what the files
  say; they keep no state of their own.

The components meet in files: a run writes `latest.json`, a judge pass reads it
and writes it again, a calibration writes its report, and the gate reads
whatever the last writer of each left.  No lock is taken anywhere, every
command may be killed, and the budget has a wall clock that advances between any
two steps.  The hard behaviours are therefore the ones listed as `hazards` in
`PROJECT.json`: money that was spent and not booked or not evidenced, runs that
stop in the middle, files that are half written, two processes that take one
name, metrics that outlive the grades they were counted from, judges whose word
counts before anyone has shown it should, scripts, counters and call lists
shared by the sessions of one case, and servers and branches that others use at
the same time.

## 2. Modules

| Module | Models | Its state in the code |
|---|---|---|
| `BudgetedRun` | the abstract promise of a budgeted run: cases are attempted in order and paid for, and once the ceiling is passed the rest is skipped | the list of verdicts, the money, the stop |
| `SuiteRun` | `run_suite`, `run_case`, `Budget` | `results`, `spent`, `elapsed`, `exceeded` are the variables of the loop and the budget; `phase` is where the loop body is |
| `SuiteMetrics` | `compute_metrics`, `judge_metrics`, `case_passed`, `_place`, the merge of metrics | pure operators |
| `Gate` | `compare` and the helpers it calls, `CalibrationReport.calibrated` | pure operators |
| `MergeGate` | the commands between a run and a merge decision, each one atomic; composes `SuiteMetrics` and `Gate` | `latest`, `baseline`, `calibration` are the three sets of files |
| `ResultsStore` | the files of one suite, system call by system call | `disk` maps names to chunks, `pc`, `suffix`, `offset` belong to each process |
| `JudgePass` | judge passes, model call by model call, one after another or side by side; uses `SuiteMetrics` | `stored` is latest.json, `cache` the verdict files, `pass` the local variables of `apply` in each process, `loaded` the graders that hold weights |
| `PublicRun` | `evalplat run public`, the cap and the ledger | `ledger` is the file, line by line, `summaries` the per-run files |
| `CaseGrades` | `grade_expect`: the assertions of a case over one trajectory, and `run_case`'s verdict | pure operators |
| `LocalTarget` | one case on the in-process target, graded by `CaseGrades` | `popped` and `seen` are the positions and counters of the wrapped providers and tools, `calls` and `fired` the shared lists of `build_world` |
| `HttpTarget` | `AgentPlatformHttpTarget.run`, case after case, against a server | the variables of `run` (`cost_before`, `record`, `approved`), the request that is waited for and its answer; the server's inbox, runs, approvals and meter |
| `BaselinePush` | the jobs that re-measure baselines on main | `main` is the branch, commit by commit; `pc`, `measured`, `attempts`, `fetched` (its origin/main) and `head` (its HEAD) belong to each job |
| `Totals` | the sum of a list of amounts, which `SuiteRun` and `PublicRun` share | a recursive function |
| `MC*` | the instances TLC checks | |
| `SuiteRunProofs`, `MergeGateProofs`, `ResultsStoreProofs`, `JudgePassProofs`, `PublicRunProofs`, `LocalTargetProofs`, `HttpTargetProofs`, `BaselinePushProofs` | theorems, one module per component | |

`MergeGate` takes a command for one step; `ResultsStore`, `JudgePass` and
`PublicRun` look inside the commands and show what that atomicity hides.
`SuiteRun` implements `BudgetedRun` under a refinement mapping: a trajectory
counts as paid for from the moment its result is recorded, although the code
charges it one step later, because the result is appended before
`budget.charge` is called.

What is abstracted.  Money, time and metric values are integers; a rate is
counted in `Scale`-ths, and `Scale` is a multiple of every suite size, so that no
rate is rounded.  Prompts, answers and explanations are dropped.  A case keeps
how it ended and its judges' labels.  A file is a sequence of chunks that carry
the name of their writer.  In `LocalTarget` the arguments of a tool call are
the number of the call, and of a tool's output only whether a fault masked it.
In `HttpTarget` a request in the server's inbox outlives the client's patience, so
that a timeout and a lost answer are one thing: the client goes on, and the server
may still start, work on or resume the run.  In `BaselinePush` a baseline file is
one unit, whereas `-X theirs` settles conflicts hunk by hunk, so that a file two jobs
measured may be a mix of both; and two jobs never measure the same numbers, so that
no commit becomes empty in a rebase.  The agent platform, its server,
Inspect, git, the model weights and the operating system are external; their definitions say so and are marked in
`map`.  In `SuiteRun` the target and the graders may give any result, and the
target may raise.

## 3. What the runs check

| Run | Instance | Shows |
|---|---|---|
| `SuiteRun` | 4 cases, one the target cannot run, costs 0, 1, 3 against a ceiling of 3, a clock that can run out anywhere | `SpendIsEvidenced`: the budget's spend is the cost of the results kept. `BudgetSkipsAreATail`, `BudgetFlagIsExact`, `Returns`. `ImplementsBudgetedRun`: among the rest, an overrun is one case |
| `MergeGate` | one platform suite of 2 cases, one public suite, 2 judges and HHEM, 3 rows, histories of 4 commands | `FloorsHoldOnTheCases`: a passing gate's floors hold on freshly counted cases. `JudgeRowsNeedProof`, `RegressionsCompareOneTarget`, `JudgesCannotRescue`, `FreshBaselineNeverBlocks`, `NoObjectionNoDrop` |
| `ResultsStore` | 2 runs, 1 judge pass, 2 names, one at a time or side by side, a crash between any two steps | `RecordsAreKept`, `LatestIsTheLastPromoted` (which is never an errored run), `OnlyRunsChangeTheRun`, `WritersEnd` |
| `JudgePass` | 2 passes over 3 cases (sound, skipped, one with an empty answer), 3 grader lists, 2 samples, side by side or not, one snapshot update, aborts anywhere | `OneJudgeResident`. `PaidOnce`: a pass that dies costs one model call again, not one for every key it had asked. `StoredVerdictsAreCached`: a rerun finds every stored verdict again. `NoVerdictIsInvented`: even passes that write one entry over each other store only labels a model gave for that case |
| `PublicRun` | 2 commands, budget 3, three limits, one or two epochs, a kill anywhere, inside a ledger line too | `SpendIsBounded`, `SummariesArePaidFor`: money is booked before a summary exists. `LedgerIsWholeOrLoud`: the ledger's total covers every booking that returned, or the reading fails |
| `LocalTarget` | 1 or 2 sessions of up to 3 replies, up to 2 faults out of 10, caps of 2 and 3 steps, 5 expectations shaped like those of the suites | `StepsAreTheCalls`: the tool steps are the last session's calls, each with its own arguments, and the tool list is that of the whole case. `OneFaultPerCall`, `RepliesStayInTheirSession`. `RecoveryIsEarned`: what is graded as recovered survived a fault that fired and did what it was to do |
| `HttpTarget` | 2 cases, approving or not, alone or beside another client's run, up to 3 parked runs, one restart, failed readings and requests anywhere | `OwnRecord`: a client alone that never gives up a request at work gets the record of its own run. `ChargesAreCovered`: all cases together are charged at most what was spent. `ChargeIsTheRuns`: alone, a case pays for both stretches of its run. `EveryCaseEnds` |
| `BaselinePush` | 3 jobs, 2 files, 2 attempts, any git command of which may fail, a push after it went through too | `NoUpdateIsLost`: a commit changes no file its job did not measure. `ReachesMainOnce`: a job's measurement enters main at most once, however often it is retried, and has entered it if the job succeeds |

Each property has a mutant in `PROJECT.json`: a plausible bug in a mapped
definition that the property's own run finds.

**Bounds and why they are enough.** In `SuiteRun` four cases leave room for
cases before and after the one that overruns, and the cost set contains free
cases, cases that reach the ceiling exactly and a case that jumps over it.  The
clock stops at one past its ceiling because `check` only compares.  In
`MergeGate` four commands are a run, a judge pass or a calibration, a baseline
update and another run, the longest chain a verdict depends on; two cases are
the fewest on which a sample leaves a case out and two judges agree on one case
only.  The theorems have none of these bounds.  In
`ResultsStore` payloads of one and two chunks are the smallest for which a short
file over a long one, and a half-written one, differ from both.  In `JudgePass`
two passes are needed for reuse and for the race on an entry, one abort for a torn
one, and the sample sizes 1 and all separate the sampled cases from the rest; a
second gradable case is what a model stays resident for.  In `HttpTarget` a run
left over from one case meets the approvals of the next, so two cases suffice, and
three parks let the leftover, the case's own run and the other client's each wait
for an approval at once.  In `BaselinePush` two attempts stand for five: the first
fails at any command, or its push goes through unanswered and another job pushes on
top, and the second comes after it; jobs, and files, are interchangeable, so the run
uses symmetry (it checks no liveness).  In `PublicRun` a
second command is what meets the torn line left by the first.  In `LocalTarget`
two sessions are enough for a reply, a counter or a call to cross a session
boundary, and two faults on one seam for one to shadow the other.

**Fairness.** `SuiteRun` assumes weak fairness of the runner's own thread: it is
one loop that never waits, so it is scheduled as long as each target call ends;
nothing is asked of the clock.  `ResultsStore` assumes it of each process that
has started to write: its steps are file operations that always return.
`HttpTarget` assumes it of
the client: a request is answered, or httpx's timeout gives it up.  That timeout
bounds the silence between two chunks of an answer, and a client passed to
`from_client` has the timeout its maker gave it, so a wait is taken to end unless the
server sends an answer piece by piece for ever, or no timeout was set.
In none of them is anybody obliged to start a command, and a killed process needs
no fairness.  The other modules state none.
In `LocalTarget`, whether the platform's loop ends is a
promise of the platform.  Deadlock is not checked where the program
simply ends: after its commands, its case or its suite.

**What the properties leave open.** Some hazards are met in part only, because the
premise of a property or the instance stops short of them:

- `RecordsAreKept` and `OnlyRunsChangeTheRun` hold of processes whose names are apart,
  and of processes one at a time; the race on a name, and a run that a judge pass
  overwrites with the older one it had read, do happen (section 4).
- `JudgeRowsNeedProof` knows one kappa floor; the code reads the flag stored in the
  calibration report, and that `gate.yaml` may meanwhile ask for another floor is
  outside it.
- In `RegressionsCompareOneTarget` every run and baseline says which target it is of.
- `PaidOnce` counts calls of one pass after another; side by side two passes may both
  ask for a key.
- `OneFaultPerCall` counts firings, not what they did; only `RecoveryIsEarned` looks at
  their effect.
- `RepliesStayInTheirSession` is about scripts of the right length without faults or
  rejections; a session that stops early does shift the next one.
- `LedgerIsWholeOrLoud` counts whole dollars, so the rounding of a booking to six
  decimals does not show.

## 4. Where documents and code part

Each finding is a run with one property taken from a document, which TLC
refutes.  They are disagreements met while modelling, not a list of defects by
severity.

1. `MergeGateUnproven`: a comment of `compare` says an unproven judge can neither
   block nor clear a merge.  Its row cannot, but its `fail` takes the case out of
   the deterministic `pass_rate`, which can.
2. `MergeGateOverBudget`: the design document says a run over budget fails the
   gate.  `compare` never reads the flag.
3. `PublicRunLedger`: when the charge exceeds the budget the command returns
   before the ledger is written, so exactly the run that overspent is missing
   from it.
4. `LocalTargetForbidden`: `Expect`'s description says `forbidden_tools` fails if
   one of the tools was called.  The dimension reads the last session's steps, so
   a call in an earlier session passes.

Five more are plain from the code and have no run of their own:

- The design document says a case is not started when the running mean of the cost
  says it will not fit.  `run_suite` calls `budget.check()` without a projection
  (`runner.py:118`).
- Metrics a later judge pass no longer produces are carried forward
  (`judge_pass.py:166`), so a judge row can be decided by the swap agreement of
  grades that are gone; `types.py:368-370` says such a key is omitted.
- The free-name search asks `exists()` and opens the file in two steps
  (`results.py:33`, `64`), so two processes that start in one second can take one
  name.  `RecordsAreKept` therefore speaks of processes whose names are apart.
  `calibration.write_report` does not search at all.
- Choosing the newest approval is said to be right for one client driving one run
  at a time (`agent_platform_http.py:171`).  A request that times out while it is
  at work leaves a second run of the same client behind, whose approval may be the
  newest later; `OwnRecord` therefore excludes such a request.
- A target that raises after it spent money leaves no trajectory and so no charge
  (`runner.py:53`); `ChargesAreCovered` is an upper bound only.

## 5. What is proved

All proofs are checked by TLAPS for every value of the constants that satisfies
the named assumptions of the modules (`SuiteAssumption`, `MetricsAssumption`,
`GateAssumption`, `MergeGateAssumption`, `StoreAssumption`, `JudgePassAssumption`,
`PublicAssumption`, `LocalAssumption`, `HttpAssumption`, `PushAssumption`); TLC
evaluates these in every run.  They
are typing facts (costs are natural numbers, bounds are numbers, names are
strings), the distinctness of `None` from everything it could be confused with, the
divisibility that makes rates exact, that there are finitely many processes and
each writes something (`StoreAssumption`), that a tool is granted, gated or neither
and is not called like an event of the history (`LocalAssumption`), and one real
restriction: at most two judges
on a rubric, which is the pair the swap agreement is defined for.

Every safety invariant and every action property that a run checks is a theorem;
the refinement is one up to its fairness.

Two devices recur.  A sum over a list (`Totals`) is recursive, and the library's
induction theorems cannot be instantiated; a sum is therefore tied to a *running
total*, a function that starts at zero and adds one entry at each place
(`RunningTotal`).  That the two agree (`TotalIs`) follows from the well-foundedness
of the naturals: there is no first place at which they differ.  And a step from one
list to a longer one keeps the running total and adds one entry (`NextTotal`).
`LocalTargetProofs` proves induction once in the form of sets (`SetInduction`: a set
of naturals that holds zero and each successor of a member is all of them).

**`SuiteRunProofs`.** The invariant `IInv` joins the types, `FlagInv` (the local
flag is set exactly when the spend is over the ceiling or a budget skip is in the
list), `PhaseInv` (what is known at each place of the loop body) and
`BudgetSkipsAreATail`.  The last of them is not inductive alone: to append a
`budget exceeded` result it must be known that a skip in the list means the flag
is up, and `FlagInv` says so; to append any other result, that
the flag is down.  From it follow `TypeCorrect`, `StopsOnce`, `FlagIsExact` and
`RunsWithinBudget`, and `SafetyRefinement`: initial states map to initial states
of `BudgetedRun` and each step to a step or a stutter.  `SpendIsAccountedFor` needs
`EvidInv`: the running total of the results' costs is the spend, plus the last
result's cost while that is recorded and not yet charged.

**`MergeGateProofs`.** The invariant says that every promoted summary is well
formed and *honest* (each key `compute_metrics` would write for its cases is
there with that value, and a case passes exactly if its deterministic grades did
and no grader failed it),
that a public summary is a success without cases, that a judge the report clears
met both floors, and that every baseline states a target.  Honesty is what makes
the verdicts speak of the cases: a judge pass merges metrics rather than
replacing them, and the proof shows the merge keeps every recomputed key.  From
it follow `TypeCorrect`, `FloorsHold`, `JudgesAreProven`, `TargetsAgree`,
`JudgesNeverRescue` (with monotonicity of integer division), `ErroredRunsStayOut`
and the action properties `FreshBaselines` and `AbstainingIsFree`.  The last is
about two summaries side by side: the rule for a case, read off its grades, is
monotone in the absence of objections, so of two honest summaries of cases that
ended alike the one with fewer objections has the higher pass rate.  The invariant
must also know that HHEM never abstains, because an `unknown` of it would fail the
case without being an objection.  That a row reads a
summary at all is a choice of the smallest index among its candidates, which
exists because the natural numbers are well founded.  Stale metrics lie just
outside: honesty says nothing of keys that `compute_metrics` no longer writes.

**`ResultsStoreProofs`.** Three layers.  `TInv`: the types, who took which name, and
that the names a process has passed over in its search are taken by others.  The
suffixes it passed are therefore different processes, and as there are finitely
many the search stays within the names there are (`SuffixIsBounded`, a pigeonhole
argument), which is what `TypeCorrect` needs.  `KInv`, when names are apart: no two
processes have taken one file, a file holds what its own process has written so
far, and latest.json only chunks of processes that came to copy and whose run was a
success; from it `RecordsStay`.  `SInv`, for processes that run one at a time:
latest.json is a beginning of what the last promoter writes, all of it once that one
is done, and a judge pass grades the run it is about; from it
`LatestFollowsThePromotions` and the action property `JudgingKeepsTheRun`.  A crash
in the middle of the copy leaves a promoter that died and a file that is a true
beginning; a judge pass starts from it only if it is all there.

**`JudgePassProofs`.** Three invariants on top of the types.  `ModelInv`: in a
serial store only one pass runs, and a pass holds no judge's model but that of the
grader whose turn it is, because the turn advances only through `_release`; from it
`OneJudgeAtATime`.  `Evidence`: every label, wherever it rests on its way (the answer
in hand, the labels of a pass, the copy of the run a pass read, the stored run),
is vouched for by an answer in `given` or, in a serial store, by a cache entry that
will not change; an entry that is a hit was given for its key.  From it
`VerdictsAreGiven` and `RerunsAreIdentical`.  That entries do not change is itself a
part of it: a pass writes only an entry that it missed, and alone nobody fills that
entry in between.  `Bill` counts the answers of a key that came to nothing (`Lost`:
all but the one that is kept or being written) against the crashes, for any two keys
together: a pass that dies loses the answer it was writing and no other, which gives
`NothingIsPaidTwice`.

**`PublicRunProofs`.** `PInv` adds to the types that only the ledger's last line can
lack its newline, and that every run that has a summary, or is about to get one, is
named in some line; `LedgerComesFirst` follows because a line that is
joined to a torn one keeps the names of both.  `CapInv` bounds what a run has cost
plus what its remaining samples may still cost, multiplied by the limit that divides
the cap; the products are handled in lemmas, since they are beyond linear
arithmetic.  With what remains dropped that is `SpendStaysBounded`.
`LedgerNeverHides` compares two running totals, over the lines of a readable ledger and
over the bookings of the runs that ended, with the run that is recorded and not yet
over in between (`BooksInv`); an append adds the line's amount, or joins a torn line,
after which `total_usd` raises for good.

**`LocalTargetProofs`.** `TInv` are the types and what is known at each place of a
session.  `FaultsAreOnePerCall`: every firing carries a call index below its seam's
counter, and a seam's counter moves with each call, so a new firing is at a new
index.  `TrajectoryShowsTheCalls`: while a session runs, its recorded calls and the
`tool_result`s of its history correspond by the call's number, in order and tool
by tool (`ResultsAreCalls`); an order isomorphism between finite sets of
positions keeps ranks (`IsoKeepsRanks`), and the code matches by rank within one
tool, so the i-th result of a tool meets the i-th call of it.  A masked result is
still a result, a raised one ends the case before it is read, and calls of earlier
sessions lie outside the session's calls on both sides.  `RecoveriesAreEarned` adds
that what has fired so far is survivable as long as the case goes on.
`SessionsKeepTheirReplies`: the concatenated script has a place where each
session's replies start (`FlattenAt`), and as long as no fault, no rejection and no
early stop disturb it, session and planner are in step: the number of
replies taken is that place plus the replies of the session so far.

**`HttpTargetProofs`.** `NothingIsChargedTwice` rests on an invariant that adds the
case that is open: what is charged plus what the meter has grown since the first
reading stays within what was spent, which survives a restart because the meter only
falls.
For `RecordsAreOwn` the invariant says, of a client that is alone and has given up
nothing at work, that at most one request is under way, that a run being waited for
is of the case that runs, and that the newest approval is the one of the run that
parked last: approvals are dated by the counter of parks, so whatever earlier cases
left behind is older.  `CasesPayForTheirRuns` builds on it: a client alone has one run
per case at most, and none of the case in hand before the server takes its request;
since the first reading the meter has therefore grown by what that run has cost, and
the runs of the cases before are never worked on again, so what was charged for
them stays right.

**`BaselinePushProofs`.** A job that pushes has fetched a commit that exists
(`TypeCorrect`), and a push goes through only if that commit is still the tip, which
makes the rebased commit a successor of it in every file (`UpdatesAreKept`).  For
`MeasurementsReachMainOnce` the invariant `Trace` says where on main a job's own
commit can be: before its first push nowhere; after a push that failed, right above
the commit its HEAD sits on, if it went through after all; and once rebased, nowhere
(its HEAD carries it) or somewhere in the main it fetched (its HEAD does not).  The
job itself pushes nothing between a fetch and the rebase after it, so the rebase sees
every commit of its own.  That a job gives up says nothing about main: five failed
commands of any kind suffice, and its measurement may be on main if the answer of
a push was lost.

**Only model-checked.** Everything under fairness (`Returns`, `WritersEnd`,
`EveryCaseEnds`, and the fairness part of `ImplementsBudgetedRun`): liveness and
ENABLED are out of the prover's reach.  The four refutations of section 4 are
counterexamples and need no proof.

Where a definition was first written with an operator the provers cannot reason
about (a fold, `SelectSeq`, `SetToSortSeq`), it is now written with sets, ranks
(`Nth`) and `Totals`.

## 6. What is not modelled

- MCP and scripted targets: transport and a fixed replay.
- Of the HTTP target, the health check of the constructor, `close` and answers that
  lack a field: a `/costs` answer without `total_usd` counts as 0.0 in the code, and
  the theorems about charges do not cover it.
- Of the graders, what needs the text of answers, quotes or arguments
  (`answer_contains`, `quotes_in_source`, `max_redundant_calls`), the list of
  history types, and side effects.
- Memory contents, side effects and the approval queue of the in-process target.
- The computation of kappa, and the calibration report's own file.
- Catalog and suite loaders, the EDGAR retriever, reports and telemetry: loading,
  lookup and rendering without state of their own.
- Of the CI workflow, everything but the baseline jobs on main; of those, a commit
  by hand to a baseline file, a failing `git rebase --abort` and a stash that cannot be
  restored; the one-off scripts.
- Percentiles, latency and cost metrics, and the rates of single dimensions.

## 7. Plan

Order of work: the money and the merge decision first (`SuiteRun`, `SuiteMetrics`,
`Gate`, `MergeGate`), then what their atomic commands hide (`ResultsStore`,
`JudgePass`, `PublicRun`), then what produces the evidence (`LocalTarget`,
`CaseGrades`, `HttpTarget`), then the baselines' way to main (`BaselinePush`).  All
of that is in place.  What is left, in this order:

1. An abstract store of whole records, which `ResultsStore` implements when
   processes run one at a time, with the refinement proved, and `JudgePass`
   composed with it.
2. Calibration: the partition of items, the reuse of cached verdicts and the
   report file; the pairing of two judges.
3. The approval queue and side effects of the in-process target, with the
   dimensions that grade them.
