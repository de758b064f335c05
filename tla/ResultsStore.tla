----------------------------- MODULE ResultsStore -----------------------------
(***************************************************************************)
(* The files of one suite (results.py) while several evalplat processes    *)
(* work on it: runs that write a summary and promote it, errored runs that *)
(* write one and do not, and judge passes that read latest.json and write  *)
(* it back graded (cli.py: cmd_judge).                                     *)
(*                                                                         *)
(* A file is a sequence of chunks, each named after the process whose      *)
(* payload it belongs to.  Opening for writing truncates, every process    *)
(* writes at its own offset, and a process may die between two steps.      *)
(***************************************************************************)
EXTENDS Integers, Sequences, FiniteSets

CONSTANTS Runs, JudgePasses,   \* the processes
          Stems,               \* <started_at>-<target>, the names runs ask for
          Size,                \* chunks in a process's payload
          None

Procs == Runs \cup JudgePasses

ASSUME StoreAssumption ==
  /\ IsFiniteSet(Procs) /\ Runs \cap JudgePasses = {}
  /\ None \notin Procs \cup Stems \cup Seq(Procs \cup {None})
  /\ Size \in [Procs -> Nat \ {0}]

VARIABLES disk,     \* file name -> chunks, None when there is no such file
          pc,       \* what each process does next
          suffix,   \* _free_path's n: the name each process tries or has taken
          offset,   \* how many chunks it has written to its open file
          base,     \* the run a judge pass grades; a run itself otherwise
          stem,     \* the stem of each run's name
          errored,  \* the runs whose status is not "success"
          serial,   \* whether processes run one at a time
          promoter  \* the last process to open latest.json for writing

vars == <<disk, pc, suffix, offset, base, stem, errored, serial, promoter>>
setup == <<stem, errored, serial>>

\* A run tries as many names as there are processes, and one more.
Latest == <<None, 0>>
Names == (Stems \X (1..(Cardinality(Procs) + 1))) \cup {Latest}
Hole == None
Payload(p) == [i \in 1..Size[p] |-> p]

Idle == {"start"}
Ended == {"done", "dead", "refused"}
Active(p) == pc[p] \notin Idle \cup Ended

\* The process whose whole payload a file holds, if it parses at all.
Parses(content) == \E p \in Procs : content = Payload(p)
Owner(content) == CHOOSE p \in Procs : content = Payload(p)

\* The new run file of a process; a judge pass keeps its run's started_at and
\* target, hence its stem.
RunFile(p) == <<stem[base[p]], suffix[p]>>

WriteAt(content, i, chunk) ==
  LET len == IF i > Len(content) THEN i ELSE Len(content)
  IN [k \in 1..len |-> IF k = i THEN chunk
                       ELSE IF k <= Len(content) THEN content[k] ELSE Hole]

Init ==
  /\ disk = [f \in Names |-> None]
  /\ pc = [p \in Procs |-> "start"]
  /\ suffix = [p \in Procs |-> 1]
  /\ offset = [p \in Procs |-> 0]
  /\ base = [p \in Procs |-> IF p \in Runs THEN p ELSE None]
  /\ stem \in [Runs -> Stems]
  /\ errored \in SUBSET Runs
  /\ serial \in BOOLEAN
  /\ promoter = None

MayStart(p) == pc[p] = "start" /\ (serial => \A q \in Procs : ~Active(q))

-----------------------------------------------------------------------------
\* A run has its result and calls write_summary.
StartRun(p) ==
  /\ p \in Runs /\ MayStart(p)
  /\ pc' = [pc EXCEPT ![p] = "probe"]
  /\ UNCHANGED <<disk, suffix, offset, base, promoter, setup>>

\* Mutant: the pass grades the first run file of the suite it finds.
GradedFileIsTheFirst == <<stem[CHOOSE r \in Runs : TRUE], 1>>

\* What a judge pass reads.
GradedFile == Latest

\* Mutant: the graded run's identity is not carried over.
StartJudgeForgetsTheRun(p) ==
  /\ p \in JudgePasses /\ MayStart(p)
  /\ disk[GradedFile] # None /\ Parses(disk[GradedFile])
  /\ pc' = [pc EXCEPT ![p] = "probe"]
  /\ UNCHANGED <<disk, suffix, offset, base, promoter, setup>>

\* cmd_judge: no stored run and a malformed one both end the command.
StartJudge(p) ==
  /\ p \in JudgePasses /\ MayStart(p)
  /\ IF disk[GradedFile] # None /\ Parses(disk[GradedFile])
     THEN /\ base' = [base EXCEPT ![p] = base[Owner(disk[GradedFile])]]
          /\ pc' = [pc EXCEPT ![p] = "probe"]
     ELSE /\ pc' = [pc EXCEPT ![p] = "refused"]
          /\ UNCHANGED base
  /\ UNCHANGED <<disk, suffix, offset, promoter, setup>>

\* Mutant: the name is taken without looking.
ProbeTakesAnyName(p) ==
  /\ pc[p] = "probe"
  /\ pc' = [pc EXCEPT ![p] = "open"]
  /\ UNCHANGED <<disk, suffix, offset, base, promoter, setup>>

\* Mutant: the suffix is not advanced.
ProbeRetries(p) ==
  /\ pc[p] = "probe"
  /\ IF disk[RunFile(p)] # None
     THEN UNCHANGED pc
     ELSE pc' = [pc EXCEPT ![p] = "open"]
  /\ UNCHANGED <<disk, suffix, offset, base, promoter, setup>>

\* One turn of _free_path's loop: exists() and, if so, the next suffix.
Probe(p) ==
  /\ pc[p] = "probe"
  /\ IF disk[RunFile(p)] # None
     THEN /\ suffix' = [suffix EXCEPT ![p] = suffix[p] + 1]
          /\ UNCHANGED pc
     ELSE /\ pc' = [pc EXCEPT ![p] = "open"]
          /\ UNCHANGED suffix
  /\ UNCHANGED <<disk, offset, base, promoter, setup>>

\* path.write_text opens with truncation.
Open(p) ==
  /\ pc[p] = "open"
  /\ disk' = [disk EXCEPT ![RunFile(p)] = <<>>]
  /\ offset' = [offset EXCEPT ![p] = 0]
  /\ pc' = [pc EXCEPT ![p] = "write"]
  /\ UNCHANGED <<suffix, base, promoter, setup>>

\* promote_latest: cmd_run_public asks for it only on success.
Promotes(p) == p \notin errored

Write(p) ==
  /\ pc[p] = "write"
  /\ disk' = [disk EXCEPT ![RunFile(p)] = WriteAt(@, offset[p] + 1, p)]
  /\ offset' = [offset EXCEPT ![p] = offset[p] + 1]
  /\ pc' = [pc EXCEPT ![p] = IF offset[p] + 1 < Size[p] THEN "write"
                             ELSE IF Promotes(p) THEN "promote" ELSE "done"]
  /\ UNCHANGED <<suffix, base, promoter, setup>>

\* Mutant: latest.json is overwritten in place.
OpenLatestInPlace(p) ==
  /\ pc[p] = "promote"
  /\ disk' = [disk EXCEPT ![Latest] = IF @ = None THEN <<>> ELSE @]
  /\ offset' = [offset EXCEPT ![p] = 0]
  /\ promoter' = p
  /\ pc' = [pc EXCEPT ![p] = "copy"]
  /\ UNCHANGED <<suffix, base, setup>>

\* shutil.copyfile opens latest.json with truncation ...
OpenLatest(p) ==
  /\ pc[p] = "promote"
  /\ disk' = [disk EXCEPT ![Latest] = <<>>]
  /\ offset' = [offset EXCEPT ![p] = 0]
  /\ promoter' = p
  /\ pc' = [pc EXCEPT ![p] = "copy"]
  /\ UNCHANGED <<suffix, base, setup>>

\* ... and copies what the run file holds, chunk by chunk, to its end.
Copy(p) ==
  /\ pc[p] = "copy"
  /\ IF offset[p] < Len(disk[RunFile(p)])
     THEN /\ disk' = [disk EXCEPT ![Latest] =
                        WriteAt(@, offset[p] + 1, disk[RunFile(p)][offset[p] + 1])]
          /\ offset' = [offset EXCEPT ![p] = offset[p] + 1]
          /\ UNCHANGED pc
     ELSE /\ pc' = [pc EXCEPT ![p] = "done"]
          /\ UNCHANGED <<disk, offset>>
  /\ UNCHANGED <<suffix, base, promoter, setup>>

\* The process is killed; the files stay as they are.
Crash(p) ==
  /\ Active(p)
  /\ pc' = [pc EXCEPT ![p] = "dead"]
  /\ UNCHANGED <<disk, suffix, offset, base, promoter, setup>>

Continue(p) == Probe(p) \/ Open(p) \/ Write(p) \/ OpenLatest(p) \/ Copy(p)

Next == \E p \in Procs : StartRun(p) \/ StartJudge(p) \/ Continue(p) \/ Crash(p)

\* A process that has started is scheduled until it ends or dies; nobody has
\* to start one.
Spec == Init /\ [][Next]_vars /\ \A p \in Procs : WF_vars(Continue(p))

-----------------------------------------------------------------------------
TypeOK ==
  /\ \A f \in Names : disk[f] # None => disk[f] \in Seq(Procs \cup {Hole})
  /\ pc \in [Procs -> Idle \cup Ended \cup {"probe", "open", "write", "promote", "copy"}]
  /\ \A p \in Procs : Active(p) => base[p] \in Runs /\ RunFile(p) \in Names
  /\ promoter \in Procs \cup {None}

\* Processes that cannot ask for the same name at the same time: one at a
\* time, or runs of different stems beside a single judge pass.
NamesApart ==
  \/ serial
  \/ /\ \A p, q \in Runs : stem[p] = stem[q] => p = q
     /\ Cardinality(JudgePasses) <= 1

Recorded(p) == pc[p] \in {"promote", "copy", "done"}

(***************************************************************************)
(* A run that was recorded stays on record, byte for byte, whatever later  *)
(* runs, judge passes and crashes do to the suite, as long as no two       *)
(* processes can ask for one name at once (results.py:25-36).              *)
(***************************************************************************)
RecordsAreKept ==
  NamesApart => \A p \in Procs : Recorded(p) => disk[RunFile(p)] = Payload(p)

(***************************************************************************)
(* One process at a time, latest.json is exactly the file of the last      *)
(* process that set out to promote one, which is never an errored run,     *)
(* unless that process died doing it: a torn latest.json lasts only until  *)
(* the next promotion (results.py:53-68).                                  *)
(***************************************************************************)
LatestIsTheLastPromoted ==
  serial /\ promoter # None /\ pc[promoter] = "done" =>
    disk[Latest] = Payload(promoter) /\ base[promoter] \notin errored

(***************************************************************************)
(* Judging never brings an old run back: one process at a time, a judge    *)
(* pass in latest.json grades the newest run that was promoted, which is   *)
(* to say that only a run changes which run latest.json is about           *)
(* (results.py:1-2, cli.py:528-583).                                       *)
(***************************************************************************)
OnlyRunsChangeTheRun ==
  [][serial /\ promoter' # promoter /\ promoter # None /\ promoter' \in JudgePasses =>
       base[promoter'] = base[promoter]]_vars

(***************************************************************************)
(* A process that has started to write ends: the search for a free name    *)
(* and the copy both stop, other processes or not.                         *)
(***************************************************************************)
WritersEnd == \A p \in Procs : pc[p] = "probe" ~> pc[p] \in Ended

=============================================================================
