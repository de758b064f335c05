------------------------------- MODULE JudgePass -------------------------------
(***************************************************************************)
(* Judge passes over a suite's stored run (judge_pass.py) with the verdict *)
(* cache and the lazily loaded judges behind it (judge.py,                 *)
(* judge_cache.py).  A pass is a process of its own: it may die, or a      *)
(* model call may raise, at any point, and unless Serial it may run beside *)
(* another one.  The cache and the stored run are files and survive, what  *)
(* a pass holds in memory does not.  Meanwhile the snapshot of a local     *)
(* judge may be updated on disk.                                           *)
(*                                                                         *)
(* Writing the summary is one step here; ResultsStore.tla opens it up.     *)
(***************************************************************************)
EXTENDS SuiteMetrics, SequencesExt

CONSTANTS Passes,        \* bound: the processes that run a pass, once each
          Cases,         \* how the run ended: a sequence of outcomes
          EmptyAnswer,   \* cases whose answer is empty
          GraderLists,   \* the grader sequences a pass may be asked for
          Samples,       \* --sample, MaxCases for all cases
          Versions,      \* snapshots a judge may be at
          MaxUpdates,    \* bound: snapshot updates
          Serials        \* whether passes run one after another

ASSUME JudgePassAssumption ==
  /\ Cases \in Seq(RunOutcomes) /\ Len(Cases) <= MaxCases
  /\ EmptyAnswer \subseteq DOMAIN Cases
  /\ \A gs \in GraderLists : gs \in Seq(Graders) /\ gs # <<>>
  /\ Versions # {} /\ Serials \subseteq BOOLEAN

VARIABLES serial,     \* whether nobody starts a pass beside another
          stored,     \* the cases of latest.json
          verdictsAt, \* the judge versions of the pass that graded each of them
          cache,      \* .cache/judge: what each key's file holds
          installed,  \* the snapshot each judge would load now
          pc,         \* what each pass does next
          pass,       \* each pass in memory
          loaded,     \* the graders of each pass holding a model
          given,      \* what the models answered, in order, per key
          crashes, updates

files == <<stored, verdictsAt, cache>>
vars == <<serial, files, installed, pc, pass, loaded, given, crashes, updates>>

\* A cache key; rubric, parameters and the prompt are fixed here.
Keys == Judges \X (DOMAIN Cases) \X Versions
Entries == Labels \cup {"none", "torn"}
NoPass == <<>>
NoLabels == [g \in {} |-> "absent"]
Anything == CHOOSE v \in Versions : TRUE

Init ==
  /\ serial \in Serials
  /\ stored = [i \in DOMAIN Cases |-> NewCase(Cases[i])]
  /\ verdictsAt = [i \in DOMAIN Cases |-> [j \in Judges |-> Anything]]
  /\ cache = [k \in Keys |-> "none"]
  /\ installed = [j \in Judges |-> Anything]
  /\ pc = [p \in Passes |-> "idle"]
  /\ pass = [p \in Passes |-> NoPass]
  /\ loaded = [p \in Passes |-> {}]
  /\ given = [k \in Keys |-> <<>>]
  /\ crashes = 0 /\ updates = 0

\* The first n cases with a trajectory, in suite order.
SampleOf(n) ==
  {i \in Gradable(stored) : Cardinality({k \in Gradable(stored) : k < i}) < n}

Running(p) == pc[p] \notin {"idle", "over"}
Grader(p) == pass[p].graders[pass[p].turn]

\* The cases are graded in suite order.
First(S) == CHOOSE i \in S : \A k \in S : i <= k
Case(p) == First(pass[p].todo)

\* Mutant: the version is read anew for every case.
KeyAtTheMoment(p) == <<Grader(p), Case(p), installed[Grader(p)]>>

Key(p) == <<Grader(p), Case(p), pass[p].version[Grader(p)]>>

-----------------------------------------------------------------------------
\* evalplat judge: the stored run is read and the graders are built, which
\* reads their versions; models are not loaded yet.
StartPass(p) ==
  /\ pc[p] = "idle"
  /\ serial => \A q \in Passes : ~Running(q)
  /\ \E graders \in GraderLists, n \in Samples :
       pass' = [pass EXCEPT ![p] =
         [graders |-> graders, sample |-> SampleOf(n), todo |-> SampleOf(n), turn |-> 1,
          version |-> installed, labels |-> [i \in DOMAIN Cases |-> NoLabels],
          answer |-> "none", cases |-> stored, at |-> verdictsAt]]
  /\ pc' = [pc EXCEPT ![p] = "grade"]
  /\ UNCHANGED <<serial, files, installed, loaded, given, crashes, updates>>

\* The label is placed and the grader moves on to its next case.
Place1(p, label) ==
  LET labels == Updated(pass[p].labels[Case(p)], [g \in {Grader(p)} |-> label])
  IN pass' = [pass EXCEPT ![p] =
       [pass[p] EXCEPT !.labels = [pass[p].labels EXCEPT ![Case(p)] = labels],
                       !.todo = pass[p].todo \ {Case(p)}, !.answer = "none"]]

Grading(p) == pc[p] = "grade" /\ pass[p].todo # {}
Judging(p) == Grading(p) /\ Grader(p) \in Judges
OnDisk == <<serial, stored, verdictsAt, installed, crashes, updates>>

\* An empty answer is unknown without a call and without a cache entry.
JudgeEmpty(p) ==
  /\ Judging(p) /\ Case(p) \in EmptyAnswer
  /\ Place1(p, "unknown")
  /\ UNCHANGED <<cache, pc, loaded, given>> /\ UNCHANGED OnDisk

\* Mutant: any file is a hit, and a label that is none of the rubric's is
\* an unknown.
HitWhateverIsThere(p) ==
  /\ Judging(p) /\ Case(p) \notin EmptyAnswer
  /\ cache[Key(p)] # "none"
  /\ Place1(p, IF cache[Key(p)] \in Labels THEN cache[Key(p)] ELSE "unknown")
  /\ UNCHANGED <<cache, pc, loaded, given>> /\ UNCHANGED OnDisk

JudgeHit(p) ==
  /\ Judging(p) /\ Case(p) \notin EmptyAnswer
  /\ cache[Key(p)] \in Labels
  /\ Place1(p, cache[Key(p)])
  /\ UNCHANGED <<cache, pc, loaded, given>> /\ UNCHANGED OnDisk

\* A missing or malformed entry is a miss: the model is loaded if it is not
\* yet, and asked.
JudgeCall(p) ==
  /\ Judging(p) /\ Case(p) \notin EmptyAnswer
  /\ cache[Key(p)] \notin Labels
  /\ loaded' = [loaded EXCEPT ![p] = loaded[p] \cup {Grader(p)}]
  /\ \E label \in Labels :
       /\ given' = [given EXCEPT ![Key(p)] = Append(given[Key(p)], label)]
       /\ pass' = [pass EXCEPT ![p] = [pass[p] EXCEPT !.answer = label]]
  /\ pc' = [pc EXCEPT ![p] = "put"]
  /\ UNCHANGED cache /\ UNCHANGED OnDisk

\* JudgeCache.put opens the entry with truncation, then writes it.
PutOpen(p) ==
  /\ pc[p] = "put"
  /\ cache' = [cache EXCEPT ![Key(p)] = "torn"]
  /\ pc' = [pc EXCEPT ![p] = "putting"]
  /\ UNCHANGED <<pass, loaded, given>> /\ UNCHANGED OnDisk

\* Over what another pass wrote since the open, a shorter text leaves the
\* end of a longer one behind.
PutWrite(p) ==
  /\ pc[p] = "putting"
  /\ \E entry \in {pass[p].answer} \cup {e \in {"torn"} : cache[Key(p)] \in Labels} :
       cache' = [cache EXCEPT ![Key(p)] = entry]
  /\ Place1(p, pass[p].answer)
  /\ pc' = [pc EXCEPT ![p] = "grade"]
  /\ UNCHANGED <<loaded, given>> /\ UNCHANGED OnDisk

\* A semantic grader answers pass or fail and is never released.
GradeSemantic(p) ==
  /\ Grading(p) /\ Grader(p) \in Semantic
  /\ loaded' = [loaded EXCEPT ![p] = loaded[p] \cup {Grader(p)}]
  /\ \E label \in {"pass", "fail"} : Place1(p, label)
  /\ UNCHANGED <<cache, pc, given>> /\ UNCHANGED OnDisk

Through(p) == pc[p] = "grade" /\ pass[p].todo = {}

NextTurn(p) ==
  pass' = [pass EXCEPT ![p] =
             [pass[p] EXCEPT !.turn = pass[p].turn + 1, !.todo = pass[p].sample]]

\* Mutant: the models of all graders stay until the pass ends.
NextGraderKeepsModel(p) ==
  /\ Through(p) /\ pass[p].turn < Len(pass[p].graders)
  /\ NextTurn(p)
  /\ UNCHANGED <<cache, pc, loaded, given>> /\ UNCHANGED OnDisk

\* Mutant: the turn after the last one is taken too.
NextGraderOffByOne(p) ==
  /\ Through(p) /\ pass[p].turn <= Len(pass[p].graders)
  /\ loaded' = [loaded EXCEPT ![p] = loaded[p] \ ({Grader(p)} \cap Judges)]
  /\ NextTurn(p)
  /\ UNCHANGED <<cache, pc, given>> /\ UNCHANGED OnDisk

\* The grader is through its cases: released if it can be, and the next one
\* starts on the same sample.
NextGrader(p) ==
  /\ Through(p) /\ pass[p].turn < Len(pass[p].graders)
  /\ loaded' = [loaded EXCEPT ![p] = loaded[p] \ ({Grader(p)} \cap Judges)]
  /\ NextTurn(p)
  /\ UNCHANGED <<cache, pc, given>> /\ UNCHANGED OnDisk

Leave(p) ==
  /\ pc' = [pc EXCEPT ![p] = "over"]
  /\ pass' = [pass EXCEPT ![p] = NoPass]
  /\ loaded' = [loaded EXCEPT ![p] = {}]

\* Every grader is done: the sampled cases are regraded, the others kept as
\* they were read, the run is written back and the process ends.
Finish(p) ==
  /\ Through(p) /\ pass[p].turn = Len(pass[p].graders)
  /\ stored' = [i \in DOMAIN stored |->
       IF i \in pass[p].sample THEN Regrade(pass[p].cases[i], pass[p].labels[i])
       ELSE pass[p].cases[i]]
  /\ verdictsAt' = [i \in DOMAIN stored |-> [j \in Judges |->
       IF j \in DOMAIN pass[p].labels[i] THEN pass[p].version[j] ELSE pass[p].at[i][j]]]
  /\ Leave(p)
  /\ UNCHANGED <<serial, cache, installed, given, crashes, updates>>

\* Mutant: verdicts are kept in memory and written when the pass ends.
AbortUnflushed(p) ==
  /\ Running(p)
  /\ crashes' = crashes + 1
  /\ Leave(p)
  /\ cache' = [k \in Keys |-> "none"]
  /\ UNCHANGED <<serial, stored, verdictsAt, installed, given, updates>>

\* The process dies, or a model call raises through apply: nothing of the
\* pass is written back.
Abort(p) ==
  /\ Running(p)
  /\ crashes' = crashes + 1
  /\ Leave(p)
  /\ UNCHANGED <<serial, files, installed, given, updates>>

\* The environment: refs/main of a local judge moves.
UpdateSnapshot ==
  /\ updates < MaxUpdates
  /\ \E j \in Judges, v \in Versions :
       v # installed[j] /\ installed' = [installed EXCEPT ![j] = v]
  /\ updates' = updates + 1
  /\ UNCHANGED <<serial, files, pc, pass, loaded, given, crashes>>

Work(p) ==
  \/ JudgeEmpty(p) \/ JudgeHit(p) \/ JudgeCall(p) \/ PutOpen(p) \/ PutWrite(p)
  \/ GradeSemantic(p) \/ NextGrader(p) \/ Finish(p)

Next == UpdateSnapshot \/ \E p \in Passes : StartPass(p) \/ Work(p) \/ Abort(p)

Spec == Init /\ [][Next]_vars

-----------------------------------------------------------------------------
CaseIds == DOMAIN Cases
Stored == [CaseIds -> CaseResult]
VersionsUsed == [CaseIds -> [Judges -> Versions]]

FileTypes ==
  /\ serial \in BOOLEAN /\ crashes \in Nat /\ updates \in Nat
  /\ stored \in Stored /\ verdictsAt \in VersionsUsed
  /\ cache \in [Keys -> Entries]
  /\ installed \in [Judges -> Versions]
  /\ given \in [Keys -> Seq(Labels)]

PassRecords ==
  [graders : GraderLists, turn : Nat, sample : SUBSET CaseIds, todo : SUBSET CaseIds,
   version : [Judges -> Versions],
   labels : [CaseIds -> UNION {[G -> Labels] : G \in SUBSET Graders}],
   answer : Labels \cup {"none"}, cases : Stored, at : VersionsUsed]

Asking == {"put", "putting"}

\* Labels are placed for the sample only, and a model is asked about a case.
PassTypes(p) ==
  /\ pass[p] \in PassRecords
  /\ pass[p].turn \in DOMAIN pass[p].graders
  /\ pass[p].todo \subseteq pass[p].sample
  /\ \A i \in CaseIds \ pass[p].sample : DOMAIN pass[p].labels[i] = {}
  /\ pc[p] \in Asking => pass[p].todo # {} /\ pass[p].answer \in Labels

TypeOK ==
  /\ FileTypes
  /\ pc \in [Passes -> {"idle", "grade", "over"} \cup Asking]
  /\ loaded \in [Passes -> SUBSET Graders]
  /\ DOMAIN pass = Passes
  /\ \A p \in Passes : Running(p) => PassTypes(p)

Loaded == UNION {loaded[p] : p \in Passes}

(***************************************************************************)
(* Two judges of a pass never hold a model at the same time, although each *)
(* loads lazily and a cache hit loads nothing; nor do two of the machine   *)
(* where passes run one after another (judge_pass.py:141-144,              *)
(* base.py:36-38).                                                         *)
(***************************************************************************)
OneJudgeResident ==
  /\ \A p \in Passes : Cardinality(loaded[p] \cap Judges) <= 1
  /\ serial => Cardinality(Loaded \cap Judges) <= 1

(***************************************************************************)
(* A verdict is paid for once: where passes run one after another, a pass  *)
(* that is cut short costs one model call again, the one whose answer was  *)
(* not yet in its file, and not one for every key it had asked: one key    *)
(* takes at most one call and one per crash, and any two keys share the    *)
(* crashes (judge_cache.py:3-6, 103).                                      *)
(***************************************************************************)
PaidOnce ==
  serial =>
    \A k, h \in Keys :
      /\ Len(given[k]) <= crashes + 1
      /\ k # h => Len(given[k]) + Len(given[h]) <= crashes + 2

\* An empty answer is unknown to every judge, without a call or an entry.
IsCached(key, label) ==
  IF key[2] \in EmptyAnswer THEN label = "unknown" ELSE cache[key] = label
WasGiven(key, label) ==
  IF key[2] \in EmptyAnswer THEN label = "unknown" ELSE Contains(given[key], label)

(***************************************************************************)
(* A rerun is byte-identical: where passes run one after another, every    *)
(* judge label in the stored run is what the cache would answer for it     *)
(* again, at the version that gave it, whatever passes, crashes and        *)
(* updates came after (judge.py:158-181).                                  *)
(***************************************************************************)
StoredVerdictsAreCached ==
  serial =>
    \A i \in DOMAIN Cases, j \in Judges :
      stored[i].grades[j] # "absent" =>
        IsCached(<<j, i, verdictsAt[i][j]>>, stored[i].grades[j])

(***************************************************************************)
(* No verdict is invented: even if passes run side by side and overwrite   *)
(* each other's entries, every judge label in the stored run is one the    *)
(* model gave for that case at that version, and every cache entry that    *)
(* would be a hit is one the model gave for its key (judge_cache.py:83).   *)
(***************************************************************************)
NoVerdictIsInvented ==
  /\ \A i \in DOMAIN Cases, j \in Judges :
       stored[i].grades[j] # "absent" =>
         WasGiven(<<j, i, verdictsAt[i][j]>>, stored[i].grades[j])
  /\ \A k \in Keys : cache[k] \in Labels => Contains(given[k], cache[k])

=============================================================================
