------------------------------ MODULE BaselinePush ------------------------------
(***************************************************************************)
(* Re-measured baselines on main (.github/workflows/ci.yml).               *)
(*                                                                         *)
(* Every push to main starts a job.  It measures the suites on the commit  *)
(* it checked out, stops if the gate fails, commits the baseline files     *)
(* that changed, and tries to bring the commit to main: fetch, rebase with *)
(* its own files winning every conflict, push.  An attempt fails with the  *)
(* rebase, which is then aborted, or with the push, for whatever reason:   *)
(* main has moved, the network is down, or the push went through and only  *)
(* its answer was lost.  After MaxAttempts failures (5 in the workflow)    *)
(* the job gives up.  A runner may also stop for good between any two      *)
(* commands: nothing here is fair.                                         *)
(*                                                                         *)
(* git is external: a push is accepted if it moves main forward, and a     *)
(* rebase drops a commit that upstream already has.  A baseline file is    *)
(* one unit, named by the job that measured it; git merges hunk by hunk,   *)
(* so a file two jobs measured may in truth be a mix of both.              *)
(***************************************************************************)
EXTENDS Integers, Sequences

CONSTANTS Jobs, Suites, MaxAttempts, None

ASSUME PushAssumption == MaxAttempts \in Nat \ {0} /\ None \notin Jobs

VARIABLES main,      \* the commits of main: whose each is, the baselines it holds
          pc, measured, attempts,  \* of every job
          fetched,   \* the commit of main that is the job's origin/main
          head       \* its HEAD: main[base], with its own commit on top or not

jobs == <<pc, measured, attempts, fetched, head>>
vars == <<main, jobs>>

Baselines == [Suites -> Jobs \cup {None}]
Commits == [by : Jobs \cup {None}, files : Baselines]
Tip == main[Len(main)]

Init ==
  /\ main = <<[by |-> None, files |-> [s \in Suites |-> None]]>>
  /\ pc = [j \in Jobs |-> "idle"]
  /\ measured = [j \in Jobs |-> {}]
  /\ attempts = [j \in Jobs |-> 0]
  /\ fetched = [j \in Jobs |-> 0]
  /\ head = [j \in Jobs |-> [base |-> 0, own |-> FALSE]]

\* Somebody pushes a change of the program, and a job checks it out.
Trigger(j) ==
  /\ pc[j] = "idle"
  /\ main' = Append(main, [by |-> None, files |-> Tip.files])
  /\ pc' = [pc EXCEPT ![j] = "measure"]
  /\ head' = [head EXCEPT ![j] = [base |-> Len(main) + 1, own |-> FALSE]]
  /\ UNCHANGED <<measured, attempts, fetched>>

\* gate --update-baseline, gate, git add, git commit: the job goes on with
\* the files that changed, or ends.
Measure(j) ==
  /\ pc[j] = "measure"
  /\ \E S \in SUBSET Suites :
       /\ measured' = [measured EXCEPT ![j] = S]
       /\ pc' = [pc EXCEPT ![j] = IF S = {} THEN "unchanged" ELSE "fetch"]
       /\ head' = [head EXCEPT ![j].own = (S # {})]
  /\ UNCHANGED <<main, attempts, fetched>>

GateFails(j) ==
  /\ pc[j] = "measure"
  /\ pc' = [pc EXCEPT ![j] = "failed"]
  /\ UNCHANGED <<main, measured, attempts, fetched, head>>

Fetch(j) ==
  /\ pc[j] = "fetch"
  /\ fetched' = [fetched EXCEPT ![j] = Len(main)]
  /\ pc' = [pc EXCEPT ![j] = "rebase"]
  /\ UNCHANGED <<main, measured, attempts, head>>

\* The fetch is the one command of the loop nothing catches: bash -e.
FetchFails(j) ==
  /\ pc[j] = "fetch"
  /\ pc' = [pc EXCEPT ![j] = "failed"]
  /\ UNCHANGED <<main, measured, attempts, fetched, head>>

\* Mutant: each attempt commits the measurement anew on what it fetched.
CommittedAnew(j) == FALSE

\* The job's commit is in the main it fetched.
Landed(j) ==
  /\ head[j].base < fetched[j]
  /\ main[head[j].base + 1].by = j

Rebase(j) ==
  /\ pc[j] = "rebase"
  /\ head' = [head EXCEPT ![j] =
                [base |-> fetched[j], own |-> head[j].own /\ ~Landed(j)]]
  /\ pc' = [pc EXCEPT ![j] = "push"]
  /\ UNCHANGED <<main, measured, attempts, fetched>>

\* Mutant: one attempt too many.
OneMore(j) == IF attempts[j] < MaxAttempts THEN "fetch" ELSE "gave_up"

NextTry(j) == IF attempts[j] + 1 < MaxAttempts THEN "fetch" ELSE "gave_up"

AttemptFails(j) ==
  /\ attempts' = [attempts EXCEPT ![j] = attempts[j] + 1]
  /\ pc' = [pc EXCEPT ![j] = NextTry(j)]
  /\ UNCHANGED <<measured, fetched, head>>

\* git rebase --abort puts HEAD back.
RebaseFails(j) == pc[j] = "rebase" /\ AttemptFails(j) /\ UNCHANGED main

\* git rebase -X theirs: the job's files over those of the commit below.
Rebased(j) ==
  [by |-> j,
   files |-> [s \in Suites |-> IF s \in measured[j] THEN j ELSE main[head[j].base].files[s]]]

\* Mutant: git push --force.
Forced(j) == TRUE

FastForward(j) == head[j].base = Len(main)

\* The push is accepted: main takes the job's commit, if it was not there.
Accepted(j) ==
  /\ pc[j] = "push" /\ FastForward(j)
  /\ main' = IF head[j].own THEN Append(main, Rebased(j)) ELSE main

Push(j) ==
  /\ Accepted(j)
  /\ pc' = [pc EXCEPT ![j] = "done"]
  /\ UNCHANGED <<measured, attempts, fetched, head>>

PushAnswerLost(j) == Accepted(j) /\ AttemptFails(j)

\* Rejected because main has moved, or failed for a reason of its own.
PushFails(j) == pc[j] = "push" /\ AttemptFails(j) /\ UNCHANGED main

Job(j) ==
  \/ Measure(j) \/ GateFails(j)
  \/ Fetch(j) \/ FetchFails(j)
  \/ Rebase(j) \/ RebaseFails(j)
  \/ Push(j) \/ PushAnswerLost(j) \/ PushFails(j)

Next == \E j \in Jobs : Trigger(j) \/ Job(j)

Spec == Init /\ [][Next]_vars

-----------------------------------------------------------------------------
Ended == {"unchanged", "failed", "done", "gave_up"}

(***************************************************************************)
(* The commits of main, what a job measured and its attempts have their    *)
(* types, and what a job is about to rebase onto or to push sits on a      *)
(* commit of main.                                                         *)
(***************************************************************************)
TypeOK ==
  /\ main \in Seq(Commits) /\ Len(main) > 0
  /\ pc \in [Jobs -> {"idle", "measure", "fetch", "rebase", "push"} \cup Ended]
  /\ measured \in [Jobs -> SUBSET Suites]
  /\ attempts \in [Jobs -> 0..MaxAttempts]
  /\ fetched \in [Jobs -> Nat]
  /\ head \in [Jobs -> [base : Nat, own : BOOLEAN]]
  /\ \A j \in Jobs : pc[j] = "rebase" => fetched[j] \in 1..Len(main)
  /\ \A j \in Jobs : pc[j] = "push" => head[j].base \in 1..Len(main)

\* The job's own files are new, the others are as they were.
TouchesOnly(before, after, j) ==
  \A s \in Suites : after[s] = IF s \in measured[j] THEN j ELSE before[s]

(***************************************************************************)
(* No update is lost: whatever jobs push in between, a commit takes every  *)
(* baseline file from the commit right before it, but for those its own    *)
(* job measured (the rebase in the loop, ci.yml:89).                       *)
(***************************************************************************)
NoUpdateIsLost ==
  [][main' # main =>
       /\ main' = Append(main, Tip')
       /\ \/ Tip'.by = None /\ Tip'.files = Tip.files
          \/ \E j \in Jobs : Tip'.by = j /\ TouchesOnly(Tip.files, Tip'.files, j)]_vars

\* Where on main the commits of a job are.
OwnCommits(j) == {p \in 1..Len(main) : main[p].by = j}

(***************************************************************************)
(* However many attempts fail, and at whichever command, a job brings its  *)
(* measurement to main at most once, so that no retry puts an old one over *)
(* a newer one of another job; and a job that reports success has brought  *)
(* it there (ci.yml:84-97).                                                *)
(***************************************************************************)
ReachesMainOnce ==
  \A j \in Jobs :
    /\ \A p, q \in OwnCommits(j) : p = q
    /\ pc[j] = "done" => OwnCommits(j) # {}
==============================================================================
