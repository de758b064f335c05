-------------------------- MODULE BaselinePushProofs --------------------------
(***************************************************************************)
(* Proofs about BaselinePush for every number of jobs, files and attempts. *)
(*                                                                         *)
(* main only grows, so what a job fetched stays a commit of main.  And as  *)
(* long as a job tries, its HEAD tells where on main its own commit can    *)
(* be: right above the commit HEAD sits on, and nowhere once it rebased    *)
(* onto a main that does not hold it (Trace).                              *)
(***************************************************************************)
EXTENDS BaselinePush, SequenceTheorems, TLAPS

MainOK == main \in Seq(Commits) /\ Len(main) > 0
JobsOK ==
  /\ pc \in [Jobs -> {"idle", "measure", "fetch", "rebase", "push"} \cup Ended]
  /\ measured \in [Jobs -> SUBSET Suites]
  /\ attempts \in [Jobs -> 0..MaxAttempts]
  /\ fetched \in [Jobs -> Nat]
  /\ head \in [Jobs -> [base : Nat, own : BOOLEAN]]
BaseOK ==
  /\ \A j \in Jobs : pc[j] = "rebase" => fetched[j] \in 1..Len(main)
  /\ \A j \in Jobs : pc[j] = "push" => head[j].base \in 1..Len(main)

LEMMA TypeParts == TypeOK <=> MainOK /\ JobsOK /\ BaseOK
BY DEF TypeOK, MainOK, JobsOK, BaseOK

\* A job in the loop has an attempt left.
AttemptsOK ==
  \A j \in Jobs :
    /\ pc[j] \in {"idle", "measure"} => attempts[j] = 0
    /\ pc[j] \in {"fetch", "rebase", "push"} => attempts[j] < MaxAttempts

TInv == TypeOK /\ AttemptsOK

\* A commit appended to main is its new tip, and the others stay in place.
LEMMA Appending ==
  ASSUME MainOK, NEW c \in Commits
  PROVE  /\ Append(main, c) \in Seq(Commits)
         /\ Len(Append(main, c)) = Len(main) + 1
         /\ \A i \in 1..Len(main) : Append(main, c)[i] = main[i]
         /\ Append(main, c)[Len(main) + 1] = c
BY AppendProperties DEF MainOK

LEMMA TipIsCommit ==
  ASSUME MainOK
  PROVE  Tip \in Commits /\ [by |-> None, files |-> Tip.files] \in Commits
<1>1. Tip \in Commits
  BY ElementOfSeq DEF MainOK, Tip
<1> QED
  BY <1>1 DEF Commits

LEMMA RebasedIsCommit ==
  ASSUME MainOK, JobsOK, BaseOK, NEW j \in Jobs, pc[j] = "push"
  PROVE  Rebased(j) \in Commits
<1>1. head[j].base \in 1..Len(main)
  BY DEF BaseOK
<1>2. main[head[j].base] \in Commits
  BY <1>1, ElementOfSeq DEF MainOK
<1>3. main[head[j].base].files \in Baselines
  BY <1>2 DEF Commits
<1> QED
  BY <1>3 DEF Rebased, Baselines, Commits

\* An accepted push adds the job's own commit to main, or nothing.
LEMMA Accepting ==
  ASSUME MainOK, JobsOK, BaseOK, NEW j \in Jobs, Accepted(j)
  PROVE  /\ pc[j] = "push" /\ head[j].base = Len(main)
         /\ MainOK' /\ Len(main') >= Len(main)
         /\ head[j].own => main' = Append(main, Rebased(j)) /\ Len(main') = Len(main) + 1
         /\ ~head[j].own => main' = main
<1>1. pc[j] = "push" /\ head[j].base = Len(main)
  BY DEF Accepted, FastForward
<1>2. CASE head[j].own
  <2>1. main' = Append(main, Rebased(j))
    BY <1>2 DEF Accepted
  <2> QED
    BY <1>1, <1>2, <2>1, Appending, RebasedIsCommit DEF MainOK
<1>3. CASE ~head[j].own
  BY <1>1, <1>3 DEF Accepted, MainOK
<1> QED
  BY <1>2, <1>3

-----------------------------------------------------------------------------
LEMMA TypeInit == Init => TInv
<1> SUFFICES ASSUME Init PROVE TInv
  OBVIOUS
<1>1. [by |-> None, files |-> [s \in Suites |-> None]] \in Commits
  BY DEF Baselines, Commits
<1>2. MainOK
  BY <1>1 DEF Init, MainOK
<1>3. JobsOK /\ BaseOK /\ AttemptsOK
  BY PushAssumption DEF Init, JobsOK, BaseOK, AttemptsOK
<1> QED
  BY <1>2, <1>3, TypeParts DEF TInv

\* A failed attempt keeps the types, if main is kept or grows.
LEMMA FailedAttempt ==
  ASSUME TInv, NEW j \in Jobs, pc[j] \in {"rebase", "push"}, AttemptFails(j),
         MainOK', Len(main') >= Len(main)
  PROVE  TInv'
<1> USE PushAssumption
<1>0. MainOK /\ JobsOK /\ BaseOK /\ AttemptsOK
  BY TypeParts DEF TInv
<1>1. JobsOK'
  BY <1>0 DEF AttemptFails, NextTry, JobsOK, AttemptsOK, Ended
<1>2. BaseOK'
  BY <1>0 DEF AttemptFails, NextTry, MainOK, JobsOK, BaseOK
<1>3. AttemptsOK'
  BY <1>0 DEF AttemptFails, NextTry, JobsOK, AttemptsOK
<1> QED
  BY <1>1, <1>2, <1>3 DEF TInv, TypeOK, MainOK, JobsOK, BaseOK

LEMMA TypeStep == TInv /\ [Next]_vars => TInv'
<1> SUFFICES ASSUME TInv, [Next]_vars PROVE TInv'
  OBVIOUS
<1> USE PushAssumption
<1>0. MainOK /\ JobsOK /\ BaseOK /\ AttemptsOK
  BY TypeParts DEF TInv
<1> USE DEF TInv, TypeOK, MainOK, JobsOK, BaseOK, AttemptsOK, Ended
<1>1. ASSUME NEW j \in Jobs, Trigger(j) PROVE TInv'
  <2>1. MainOK' /\ Len(main') = Len(main) + 1
    BY <1>0, <1>1, Appending, TipIsCommit DEF Trigger
  <2> QED
    BY <1>0, <1>1, <2>1 DEF Trigger
<1>2. ASSUME NEW j \in Jobs, Measure(j) PROVE TInv'
  <2>1. PICK S \in SUBSET Suites :
          /\ measured' = [measured EXCEPT ![j] = S]
          /\ pc' = [pc EXCEPT ![j] = IF S = {} THEN "unchanged" ELSE "fetch"]
          /\ head' = [head EXCEPT ![j].own = (S # {})]
    BY <1>2 DEF Measure
  <2>2. pc[j] = "measure" /\ UNCHANGED <<main, attempts, fetched>>
    BY <1>2 DEF Measure
  <2>3. JobsOK'
    BY <1>0, <2>1, <2>2
  <2> QED
    BY <1>0, <2>1, <2>2, <2>3
<1>3. ASSUME NEW j \in Jobs, GateFails(j) PROVE TInv'
  BY <1>0, <1>3 DEF GateFails
<1>4. ASSUME NEW j \in Jobs, Fetch(j) PROVE TInv'
  BY <1>0, <1>4 DEF Fetch
<1>5. ASSUME NEW j \in Jobs, FetchFails(j) PROVE TInv'
  BY <1>0, <1>5 DEF FetchFails
<1>6. ASSUME NEW j \in Jobs, Rebase(j) PROVE TInv'
  BY <1>0, <1>6 DEF Rebase
<1>7. ASSUME NEW j \in Jobs, RebaseFails(j) PROVE TInv'
  BY <1>0, <1>7, FailedAttempt DEF RebaseFails
<1>8. ASSUME NEW j \in Jobs, Push(j) PROVE TInv'
  <2>1. MainOK' /\ Len(main') >= Len(main)
    BY <1>0, <1>8, Accepting DEF Push
  <2> QED
    BY <1>0, <1>8, <2>1 DEF Push
<1>9. ASSUME NEW j \in Jobs, PushAnswerLost(j) PROVE TInv'
  <2>1. pc[j] = "push" /\ MainOK' /\ Len(main') >= Len(main)
    BY <1>0, <1>9, Accepting DEF PushAnswerLost
  <2> QED
    BY <1>9, <2>1, FailedAttempt DEF PushAnswerLost
<1>10. ASSUME NEW j \in Jobs, PushFails(j) PROVE TInv'
  BY <1>0, <1>10, FailedAttempt DEF PushFails
<1>11. CASE UNCHANGED vars
  BY <1>11 DEF vars, jobs
<1> QED
  BY <1>1, <1>2, <1>3, <1>4, <1>5, <1>6, <1>7, <1>8, <1>9, <1>10, <1>11 DEF Next, Job

(***************************************************************************)
(* The commits of main and the state of every job keep their types, no job *)
(* makes more than MaxAttempts attempts, and what a job is about to rebase *)
(* onto or to push sits on a commit of main.                               *)
(***************************************************************************)
THEOREM TypeCorrect == Spec => []TypeOK
<1>1. Init => TInv
  BY TypeInit
<1>2. TInv /\ [Next]_vars => TInv'
  BY TypeStep
<1>3. TInv => TypeOK
  BY DEF TInv
<1> QED
  BY <1>1, <1>2, <1>3, PTL DEF Spec

-----------------------------------------------------------------------------
\* Where the commit of a job can be on main, from what the job knows of it.
Trace(j) ==
  /\ \A p, q \in OwnCommits(j) : p = q
  /\ pc[j] \in {"idle", "measure"} => OwnCommits(j) = {}
  /\ pc[j] \in {"fetch", "rebase"} /\ head[j].own => OwnCommits(j) \subseteq {head[j].base + 1}
  /\ pc[j] = "rebase" => \A p \in OwnCommits(j) : p <= fetched[j]
  /\ pc[j] = "push" /\ head[j].own => OwnCommits(j) = {}
  /\ pc[j] \in {"fetch", "rebase", "push"} /\ ~head[j].own => OwnCommits(j) # {}
  /\ pc[j] = "done" => OwnCommits(j) # {}

IInv == TInv /\ \A j \in Jobs : Trace(j)

\* A commit of nobody, or of another job, leaves a job's own where they are.
LEMMA OthersCommit ==
  ASSUME MainOK, NEW c \in Commits, main' = Append(main, c), NEW k \in Jobs, c.by # k
  PROVE  OwnCommits(k)' = OwnCommits(k)
<1>1. /\ Len(main') = Len(main) + 1
      /\ \A i \in 1..Len(main) : main'[i] = main[i]
      /\ main'[Len(main) + 1] = c
  BY Appending
<1> QED
  BY <1>1 DEF OwnCommits, MainOK

LEMMA OwnCommit ==
  ASSUME MainOK, NEW c \in Commits, main' = Append(main, c), NEW j \in Jobs, c.by = j
  PROVE  OwnCommits(j)' = OwnCommits(j) \cup {Len(main) + 1}
<1>1. /\ Len(main') = Len(main) + 1
      /\ \A i \in 1..Len(main) : main'[i] = main[i]
      /\ main'[Len(main) + 1] = c
  BY Appending
<1> QED
  BY <1>1 DEF OwnCommits, MainOK

\* An accepted push of a job moves the commits of no other, and leaves the
\* job with one commit on main, right above its HEAD's base if it is new.
LEMMA AcceptedCommit ==
  ASSUME TInv, NEW j \in Jobs, Trace(j), Accepted(j)
  PROVE  /\ pc[j] = "push"
         /\ \A k \in Jobs \ {j} : OwnCommits(k)' = OwnCommits(k)
         /\ head[j].own => OwnCommits(j)' = {head[j].base + 1}
         /\ ~head[j].own => OwnCommits(j)' = OwnCommits(j)
<1>0. MainOK /\ JobsOK /\ BaseOK
  BY TypeParts DEF TInv
<1>1. pc[j] = "push" /\ head[j].base = Len(main)
  BY <1>0, Accepting
<1>2. CASE head[j].own
  <2>1. main' = Append(main, Rebased(j)) /\ Rebased(j) \in Commits /\ Rebased(j).by = j
    BY <1>0, <1>1, <1>2, Accepting, RebasedIsCommit DEF Rebased
  <2>2. OwnCommits(j) = {}
    BY <1>1, <1>2 DEF Trace
  <2>3. \A k \in Jobs \ {j} : OwnCommits(k)' = OwnCommits(k)
    BY <1>0, <2>1, OthersCommit
  <2>4. OwnCommits(j)' = {head[j].base + 1}
    BY <1>0, <1>1, <2>1, <2>2, OwnCommit
  <2> QED
    BY <1>1, <1>2, <2>3, <2>4
<1>3. CASE ~head[j].own
  <2>1. main' = main
    BY <1>0, <1>3, Accepting
  <2> QED
    BY <1>1, <1>3, <2>1 DEF OwnCommits
<1> QED
  BY <1>2, <1>3

LEMMA TraceInit == Init => IInv
<1> SUFFICES ASSUME Init, NEW j \in Jobs PROVE Trace(j)
  BY TypeInit DEF IInv
<1>1. Len(main) = 1 /\ main[1].by = None
  BY DEF Init
<1>2. OwnCommits(j) = {}
  BY <1>1, PushAssumption DEF OwnCommits
<1> QED
  BY <1>2 DEF Trace, Init

LEMMA TraceStep == IInv /\ [Next]_vars => IInv'
<1> SUFFICES ASSUME IInv, [Next]_vars PROVE IInv'
  OBVIOUS
<1>0. MainOK /\ JobsOK /\ BaseOK /\ TInv /\ \A j \in Jobs : Trace(j)
  BY TypeParts DEF IInv, TInv
<1>t. TInv'
  BY TypeStep DEF IInv
\* Steps that leave main alone leave everybody's commits alone.
<1>m. ASSUME UNCHANGED main, NEW k \in Jobs PROVE OwnCommits(k)' = OwnCommits(k)
  BY <1>m DEF OwnCommits
<1>1. ASSUME NEW j \in Jobs, Trigger(j), NEW k \in Jobs PROVE Trace(k)'
  <2> DEFINE c == [by |-> None, files |-> Tip.files]
  <2>1. c \in Commits /\ main' = Append(main, c) /\ c.by # k
    BY <1>0, <1>1, TipIsCommit, PushAssumption DEF Trigger
  <2>2. OwnCommits(k)' = OwnCommits(k)
    BY <1>0, <2>1, OthersCommit
  <2> QED
    BY <1>0, <1>1, <2>2 DEF Trigger, JobsOK, Trace
<1>2. ASSUME NEW j \in Jobs, Measure(j), NEW k \in Jobs PROVE Trace(k)'
  <2>1. OwnCommits(k)' = OwnCommits(k)
    BY <1>2, <1>m DEF Measure
  <2>2. PICK S \in SUBSET Suites :
          /\ pc' = [pc EXCEPT ![j] = IF S = {} THEN "unchanged" ELSE "fetch"]
          /\ head' = [head EXCEPT ![j].own = (S # {})]
    BY <1>2 DEF Measure
  <2>3. pc[j] = "measure" /\ UNCHANGED fetched
    BY <1>2 DEF Measure
  <2>4. CASE k = j
    <3>1. OwnCommits(j)' = {}
      BY <1>0, <2>1, <2>3, <2>4 DEF Trace
    <3>2. pc'[j] = "unchanged" \/ (pc'[j] = "fetch" /\ head'[j].own)
      BY <1>0, <2>2 DEF JobsOK
    <3> QED
      BY <2>4, <3>1, <3>2 DEF Trace
  <2>5. CASE k # j
    BY <1>0, <2>1, <2>2, <2>3, <2>5 DEF JobsOK, Trace
  <2> QED
    BY <2>4, <2>5
<1>3. ASSUME NEW j \in Jobs, GateFails(j) \/ FetchFails(j), NEW k \in Jobs PROVE Trace(k)'
  <2>1. OwnCommits(k)' = OwnCommits(k)
    BY <1>3, <1>m DEF GateFails, FetchFails
  <2> QED
    BY <1>0, <1>3, <2>1 DEF GateFails, FetchFails, JobsOK, Trace
<1>4. ASSUME NEW j \in Jobs, Fetch(j), NEW k \in Jobs PROVE Trace(k)'
  <2>1. OwnCommits(k)' = OwnCommits(k)
    BY <1>4, <1>m DEF Fetch
  <2>2. \A p \in OwnCommits(j) : p <= Len(main)
    BY <1>0 DEF OwnCommits, MainOK
  <2>3. CASE k = j
    BY <1>0, <1>4, <2>1, <2>2, <2>3 DEF Fetch, JobsOK, Trace
  <2>4. CASE k # j
    BY <1>0, <1>4, <2>1, <2>4 DEF Fetch, JobsOK, Trace
  <2> QED
    BY <2>3, <2>4
<1>5. ASSUME NEW j \in Jobs, Rebase(j), NEW k \in Jobs PROVE Trace(k)'
  <2>1. OwnCommits(k)' = OwnCommits(k)
    BY <1>5, <1>m DEF Rebase
  <2>2. CASE k = j
    <3>1. pc[j] = "rebase" /\ pc'[j] = "push" /\ head'[j].own = (head[j].own /\ ~Landed(j))
      BY <1>0, <1>5 DEF Rebase, JobsOK
    <3>2. \A p \in OwnCommits(j) : p \in 1..Len(main) /\ p <= fetched[j] /\ main[p].by = j
      BY <1>0, <3>1 DEF Trace, OwnCommits
    <3>3. ASSUME head[j].own, ~Landed(j) PROVE OwnCommits(j) = {}
      <4>1. OwnCommits(j) \subseteq {head[j].base + 1}
        BY <1>0, <3>1, <3>3 DEF Trace
      <4>2. SUFFICES ASSUME head[j].base + 1 \in OwnCommits(j) PROVE FALSE
        BY <4>1
      <4>3. head[j].base < fetched[j]
        BY <1>0, <3>2, <4>2 DEF JobsOK
      <4> QED
        BY <3>2, <3>3, <4>2, <4>3 DEF Landed
    <3>4. ASSUME head[j].own, Landed(j) PROVE OwnCommits(j) # {}
      <4>1. head[j].base + 1 \in 1..Len(main) /\ main[head[j].base + 1].by = j
        BY <1>0, <3>1, <3>4 DEF Landed, BaseOK, JobsOK, MainOK
      <4> QED
        BY <4>1 DEF OwnCommits
    <3>5. ~head[j].own => OwnCommits(j) # {}
      BY <1>0, <3>1 DEF Trace
    <3>6. \A p, q \in OwnCommits(j) : p = q
      BY <1>0 DEF Trace
    <3>7. head[j].own \in BOOLEAN
      BY <1>0 DEF JobsOK
    <3> QED
      BY <2>1, <2>2, <3>1, <3>3, <3>4, <3>5, <3>6, <3>7 DEF Trace
  <2>3. CASE k # j
    BY <1>0, <1>5, <2>1, <2>3 DEF Rebase, JobsOK, Trace
  <2> QED
    BY <2>2, <2>3
<1>6. ASSUME NEW j \in Jobs, RebaseFails(j) \/ PushFails(j), NEW k \in Jobs PROVE Trace(k)'
  <2>1. OwnCommits(k)' = OwnCommits(k)
    BY <1>6, <1>m DEF RebaseFails, PushFails
  <2> QED
    BY <1>0, <1>6, <2>1 DEF RebaseFails, PushFails, AttemptFails, NextTry, JobsOK, Trace
<1>7. ASSUME NEW j \in Jobs, Push(j), NEW k \in Jobs PROVE Trace(k)'
  <2>1. Accepted(j) /\ pc' = [pc EXCEPT ![j] = "done"] /\ UNCHANGED <<fetched, head>>
    BY <1>7 DEF Push
  <2>2. CASE k = j
    <3>1. pc[j] = "push" /\ pc'[j] = "done"
      BY <1>0, <2>1, AcceptedCommit DEF JobsOK
    <3>2. (\A p, q \in OwnCommits(j)' : p = q) /\ OwnCommits(j)' # {}
      <4>1. CASE head[j].own
        BY <1>0, <2>1, <4>1, AcceptedCommit
      <4>2. CASE ~head[j].own
        BY <1>0, <2>1, <3>1, <4>2, AcceptedCommit DEF Trace
      <4> QED
        BY <4>1, <4>2
    <3> QED
      BY <2>2, <3>1, <3>2 DEF Trace
  <2>3. CASE k # j
    <3>1. OwnCommits(k)' = OwnCommits(k)
      BY <1>0, <2>1, <2>3, AcceptedCommit
    <3> QED
      BY <1>0, <2>1, <2>3, <3>1 DEF JobsOK, Trace
  <2> QED
    BY <2>2, <2>3
<1>8. ASSUME NEW j \in Jobs, PushAnswerLost(j), NEW k \in Jobs PROVE Trace(k)'
  <2>1. Accepted(j) /\ UNCHANGED <<fetched, head>>
    BY <1>8 DEF PushAnswerLost, AttemptFails
  <2>2. pc' = [pc EXCEPT ![j] = NextTry(j)] /\ NextTry(j) \in {"fetch", "gave_up"}
    BY <1>8 DEF PushAnswerLost, AttemptFails, NextTry
  <2>3. CASE k = j
    BY <1>0, <2>1, <2>2, <2>3, AcceptedCommit DEF JobsOK, Trace
  <2>4. CASE k # j
    <3>1. OwnCommits(k)' = OwnCommits(k)
      BY <1>0, <2>1, <2>4, AcceptedCommit
    <3> QED
      BY <1>0, <2>1, <2>2, <2>4, <3>1 DEF JobsOK, Trace
  <2> QED
    BY <2>3, <2>4
<1>9. ASSUME UNCHANGED vars, NEW k \in Jobs PROVE Trace(k)'
  BY <1>0, <1>9, <1>m DEF vars, jobs, Trace
<1> QED
  BY <1>t, <1>1, <1>2, <1>3, <1>4, <1>5, <1>6, <1>7, <1>8, <1>9 DEF Next, Job, IInv

(***************************************************************************)
(* Whichever commands fail, and however often, a job brings its            *)
(* measurement to main at most once, and a job that reports success has    *)
(* brought it there (ci.yml:84-97).                                        *)
(***************************************************************************)
THEOREM MeasurementsReachMainOnce == Spec => []ReachesMainOnce
<1>1. Init => IInv
  BY TraceInit
<1>2. IInv /\ [Next]_vars => IInv'
  BY TraceStep
<1>3. IInv => ReachesMainOnce
  BY DEF IInv, Trace, ReachesMainOnce
<1> QED
  BY <1>1, <1>2, <1>3, PTL DEF Spec

-----------------------------------------------------------------------------
\* What NoUpdateIsLost says of one step.
Kept ==
  main' # main =>
    /\ main' = Append(main, Tip')
    /\ \/ Tip'.by = None /\ Tip'.files = Tip.files
       \/ \E j \in Jobs : Tip'.by = j /\ TouchesOnly(Tip.files, Tip'.files, j)

LEMMA StepsKeep == TypeOK /\ [Next]_vars => Kept
<1> SUFFICES ASSUME TypeOK, [Next]_vars, main' # main PROVE
       /\ main' = Append(main, Tip')
       /\ \/ Tip'.by = None /\ Tip'.files = Tip.files
          \/ \E j \in Jobs : Tip'.by = j /\ TouchesOnly(Tip.files, Tip'.files, j)
  BY DEF Kept
<1>0. MainOK /\ JobsOK /\ BaseOK
  BY TypeParts
<1>1. ASSUME NEW j \in Jobs, Trigger(j) PROVE
       main' = Append(main, Tip') /\ Tip'.by = None /\ Tip'.files = Tip.files
  <2> DEFINE c == [by |-> None, files |-> Tip.files]
  <2>1. c \in Commits /\ main' = Append(main, c)
    BY <1>0, <1>1, TipIsCommit DEF Trigger
  <2>2. Tip' = c
    BY <1>0, <2>1, Appending DEF Tip, MainOK
  <2> QED
    BY <2>1, <2>2
<1>2. ASSUME NEW j \in Jobs, Accepted(j), UNCHANGED measured PROVE
       main' = Append(main, Tip') /\ Tip'.by = j /\ TouchesOnly(Tip.files, Tip'.files, j)
  <2>1. main' = Append(main, Rebased(j)) /\ pc[j] = "push" /\ head[j].base = Len(main)
    BY <1>0, <1>2, Accepting DEF JobsOK
  <2>2. Tip' = Rebased(j)
    BY <1>0, <2>1, Appending, RebasedIsCommit DEF Tip, MainOK
  <2>3. TouchesOnly(Tip.files, Rebased(j).files, j)
    BY <2>1 DEF TouchesOnly, Rebased, Tip
  <2> QED
    BY <2>1, <2>2, <2>3 DEF Rebased
<1>3. \E j \in Jobs : Trigger(j) \/ (Accepted(j) /\ UNCHANGED measured)
  BY DEF Next, Job, Measure, GateFails, Fetch, FetchFails, Rebase, RebaseFails,
         Push, PushAnswerLost, PushFails, AttemptFails, vars, jobs
<1> QED
  BY <1>1, <1>2, <1>3

(***************************************************************************)
(* Whatever number of jobs push in between, a commit changes no baseline   *)
(* file but those its own job measured (ci.yml:89).                        *)
(***************************************************************************)
THEOREM UpdatesAreKept == Spec => NoUpdateIsLost
<1>1. Init => TInv
  BY TypeInit
<1>2. TInv /\ [Next]_vars => TInv'
  BY TypeStep
<1>3. TInv /\ [Next]_vars => [main' # main =>
       /\ main' = Append(main, Tip')
       /\ \/ Tip'.by = None /\ Tip'.files = Tip.files
          \/ \E j \in Jobs : Tip'.by = j /\ TouchesOnly(Tip.files, Tip'.files, j)]_vars
  BY StepsKeep DEF Kept, TInv
<1> QED
  BY <1>1, <1>2, <1>3, PTL DEF Spec, NoUpdateIsLost
==============================================================================
