-------------------------- MODULE ResultsStoreProofs --------------------------
(***************************************************************************)
(* Proofs about ResultsStore for every set of processes, stems and payload *)
(* sizes: the search for a free name stays within the names there are,     *)
(* records are kept, and latest.json follows the promotions.               *)
(***************************************************************************)
EXTENDS ResultsStore, FiniteSetTheorems, SequenceTheorems, TLAPS

-----------------------------------------------------------------------------
(* The inductive invariant: types, and who took which name.                *)

Started == {p \in Procs : pc[p] \notin {"start", "refused"}}
Took(p) == pc[p] \notin {"start", "refused", "probe"}
Contents == Seq(Started \cup {Hole})

VarsOK ==
  /\ disk \in [Names -> Contents \cup {None}]
  /\ pc \in [Procs -> Idle \cup Ended \cup {"probe", "open", "write", "promote", "copy"}]
  /\ suffix \in [Procs -> Nat \ {0}] /\ offset \in [Procs -> Nat]
  /\ base \in [Procs -> Runs \cup {None}]
  /\ stem \in [Runs -> Stems] /\ errored \subseteq Runs /\ serial \in BOOLEAN
  /\ promoter \in Procs \cup {None}

BasesOK ==
  /\ \A p \in Runs : base[p] = p
  /\ \A p \in Started : base[p] \in Runs
  /\ \A p \in Procs : pc[p] = "start" => suffix[p] = 1

\* Every name a search has passed over was taken by some process.
PassedAreTaken ==
  \A p \in Started : \A n \in 1..(suffix[p] - 1) :
    \E q \in Procs : Took(q) /\ RunFile(q) = <<stem[base[p]], n>>

FilesAreTaken ==
  \A f \in Names \ {Latest} : disk[f] # None => \E q \in Procs : Took(q) /\ RunFile(q) = f

\* A process reads and writes only files that are there.
FilesAreThere ==
  \A p \in Procs :
    /\ pc[p] \in {"write", "promote", "copy", "done"} => disk[RunFile(p)] # None
    /\ pc[p] = "copy" => disk[Latest] # None

TInv == VarsOK /\ BasesOK /\ PassedAreTaken /\ FilesAreTaken /\ FilesAreThere

-----------------------------------------------------------------------------
(* The second part: what the files hold when no two processes can ask for  *)
(* one name.                                                               *)

Chunks(p, n) == [i \in 1..n |-> p]
Copied == {p \in Procs : pc[p] \in {"copy", "done", "dead"}}

NoSharing ==
  \A p, q \in Procs :
    /\ p # q
    /\ pc[p] \in {"open", "write", "promote", "copy", "done"}
    /\ pc[q] \in {"open", "write", "promote", "copy", "done"}
    => RunFile(p) # RunFile(q)

OwnFiles ==
  \A p \in Procs :
    /\ pc[p] = "write" => disk[RunFile(p)] = Chunks(p, offset[p]) /\ offset[p] < Size[p]
    /\ Recorded(p) => disk[RunFile(p)] = Payload(p)

\* latest.json holds chunks of processes that have come to copy and whose run
\* was a success.
LatestIsCopied ==
  disk[Latest] # None =>
    \A i \in 1..Len(disk[Latest]) :
      disk[Latest][i] # Hole =>
        disk[Latest][i] \in Copied /\ base[disk[Latest][i]] \notin errored

GradesASuccess ==
  /\ \A p \in JudgePasses : p \in Started => base[p] \notin errored
  /\ \A p \in Procs : pc[p] \in {"promote", "copy"} => base[p] \notin errored

OneAtATime == serial => \A p, q \in Procs : Active(p) /\ Active(q) => p = q

\* A pass beside other processes grades a run that is past its own file.
GradesAWrittenRun ==
  serial \/ \A p \in JudgePasses : p \in Started => base[p] \in Copied

KInv ==
  NamesApart => /\ NoSharing /\ OwnFiles /\ LatestIsCopied /\ GradesASuccess
                /\ OneAtATime /\ GradesAWrittenRun

-----------------------------------------------------------------------------
(* The third part: one process at a time, latest.json is the promoter's.   *)

SInv ==
  serial =>
    /\ disk[Latest] # None =>
         /\ promoter # None
         /\ disk[Latest] = Chunks(promoter, Len(disk[Latest]))
    /\ promoter # None => pc[promoter] \in {"copy", "done", "dead"}
    /\ promoter # None => base[promoter] \notin errored
    /\ \A p \in Procs : pc[p] = "copy" =>
         promoter = p /\ disk[Latest] = Chunks(p, offset[p]) /\ offset[p] <= Size[p]
    /\ promoter # None /\ pc[promoter] = "done" => disk[Latest] = Payload(promoter)
    /\ \A p \in JudgePasses : Active(p) => promoter # None /\ base[p] = base[promoter]

-----------------------------------------------------------------------------
(* Operators.                                                              *)

LEMMA WriteAtIsASequence ==
  ASSUME NEW S, NEW content \in Seq(S), NEW i \in Nat \ {0}, NEW chunk \in S, Hole \in S
  PROVE  WriteAt(content, i, chunk) \in Seq(S)
<1> DEFINE len == IF i > Len(content) THEN i ELSE Len(content)
           e(k) == IF k = i THEN chunk
                   ELSE IF k <= Len(content) THEN content[k] ELSE Hole
<1>1. Len(content) \in Nat /\ len \in Nat
  BY LenProperties
<1>2. \A k \in 1..len : e(k) \in S
  <2> SUFFICES ASSUME NEW k \in 1..len PROVE e(k) \in S
    OBVIOUS
  <2>1. k <= Len(content) => content[k] \in S
    BY <1>1, ElementOfSeq
  <2> QED BY <2>1
<1>3. [k \in 1..len |-> e(k)] \in Seq(S)
  <2> HIDE DEF e, len
  <2> QED BY <1>1, <1>2, IsASeq
<1> QED BY <1>3 DEF WriteAt

\* Writing the next chunk of a prefix gives the next prefix.
LEMMA WriteAtTheEnd ==
  ASSUME NEW p \in Procs, NEW n \in Nat
  PROVE  WriteAt(Chunks(p, n), n + 1, p) = Chunks(p, n + 1)
<1>1. Chunks(p, n) \in Seq({p})
  BY IsASeq DEF Chunks
<1>2. DOMAIN Chunks(p, n) = 1..n
  BY DEF Chunks
<1>3. Len(Chunks(p, n)) = n
  BY <1>1, <1>2, LenProperties
<1>4. WriteAt(Chunks(p, n), n + 1, p)
        = [k \in 1..(n + 1) |-> IF k = n + 1 THEN p
                                ELSE IF k <= n THEN Chunks(p, n)[k] ELSE Hole]
  BY <1>3 DEF WriteAt
<1>5. \A k \in 1..(n + 1) : (IF k = n + 1 THEN p
                             ELSE IF k <= n THEN Chunks(p, n)[k] ELSE Hole) = p
  BY DEF Chunks
<1> QED BY <1>4, <1>5 DEF Chunks

LEMMA ChunksAre ==
  ASSUME NEW p \in Procs, NEW n \in Nat
  PROVE  /\ Chunks(p, n) \in Seq({p}) /\ Len(Chunks(p, n)) = n
         /\ \A i \in 1..n : Chunks(p, n)[i] = p
<1>1. Chunks(p, n) \in Seq({p})
  BY IsASeq DEF Chunks
<1>2. DOMAIN Chunks(p, n) = 1..n
  BY DEF Chunks
<1> QED BY <1>1, <1>2, LenProperties DEF Chunks

LEMMA PayloadIs ==
  ASSUME NEW p \in Procs
  PROVE  /\ Payload(p) = Chunks(p, Size[p]) /\ Size[p] \in Nat \ {0}
         /\ Payload(p) \in Seq({p}) /\ Len(Payload(p)) = Size[p] /\ Payload(p)[1] = p
         /\ \A i \in 1..Size[p] : Payload(p)[i] = p
<1>1. Size[p] \in Nat \ {0}
  BY StoreAssumption
<1>2. Payload(p) = Chunks(p, Size[p])
  BY DEF Payload, Chunks
<1>3. 1 \in 1..Size[p]
  BY <1>1
<1>4. /\ Chunks(p, Size[p]) \in Seq({p}) /\ Len(Chunks(p, Size[p])) = Size[p]
      /\ \A i \in 1..Size[p] : Chunks(p, Size[p])[i] = p
  BY <1>1, ChunksAre
<1> QED BY <1>1, <1>2, <1>3, <1>4

\* A content is not None.
LEMMA ContentsAreNotNone == None \notin Contents /\ None \notin Procs /\ Latest \in Names
<1>1. None \notin Seq(Procs \cup {None})
  BY StoreAssumption
<1>2. Contents \subseteq Seq(Procs \cup {None})
  BY SeqMonotonic DEF Contents, Started, Hole
<1> QED BY <1>1, <1>2, StoreAssumption DEF Names

LEMMA EmptyIsAContent == <<>> \in Contents /\ <<>> # None
<1>1. <<>> \in Contents
  BY EmptySeq DEF Contents
<1> QED BY <1>1, ContentsAreNotNone

\* A file that parses is the payload of a process that has started.
LEMMA OwnerIs ==
  ASSUME NEW content \in Contents, Parses(content)
  PROVE  /\ Owner(content) \in Started /\ content = Payload(Owner(content))
         /\ 1 \in 1..Len(content) /\ content[1] = Owner(content)
<1> DEFINE q == Owner(content)
<1>1. q \in Procs /\ content = Payload(q)
  BY DEF Parses, Owner
<1>2. Len(content) = Size[q] /\ content[1] = q /\ Size[q] \in Nat \ {0}
  BY <1>1, PayloadIs
<1>3. content[1] \in Started \cup {Hole}
  BY <1>2, ElementOfSeq DEF Contents
<1>4. q # Hole
  BY <1>1, ContentsAreNotNone DEF Hole
<1> QED BY <1>1, <1>2, <1>3, <1>4

-----------------------------------------------------------------------------
(* A search that has passed n names has met n other processes: it stays    *)
(* within Names.                                                           *)

LEMMA SuffixIsBounded ==
  ASSUME TInv, NEW p \in Started
  PROVE  suffix[p] \in 1..(Cardinality(Procs) + 1)
<1> DEFINE D == 1..(suffix[p] - 1)
           met(n) == CHOOSE q \in Procs : Took(q) /\ RunFile(q) = <<stem[base[p]], n>>
           f == [n \in D |-> met(n)]
<1>1. suffix[p] \in Nat \ {0} /\ IsFiniteSet(Procs) /\ Cardinality(Procs) \in Nat
  BY StoreAssumption, FS_CardinalityType DEF TInv, VarsOK, Started
<1>2. \A n \in D : met(n) \in Procs /\ suffix[met(n)] = n
  <2> TAKE n \in D
  <2>1. \E q \in Procs : Took(q) /\ RunFile(q) = <<stem[base[p]], n>>
    BY DEF TInv, PassedAreTaken
  <2>2. met(n) \in Procs /\ RunFile(met(n)) = <<stem[base[p]], n>>
    BY <2>1
  <2> QED BY <2>2 DEF RunFile
<1>3. f \in [D -> Procs] /\ \A n \in D : suffix[f[n]] = n
  <2> HIDE DEF met
  <2> QED BY <1>2
<1>4. IsFiniteSet(D) /\ Cardinality(D) = suffix[p] - 1
  <2>1. \A m \in Nat : IsFiniteSet(1..m) /\ Cardinality(1..m) = m
    BY FS_Interval
  <2>2. suffix[p] - 1 \in Nat
    BY <1>1
  <2> QED BY <2>1, <2>2
<1>5. ~ (Cardinality(Procs) < Cardinality(D))
  <2> SUFFICES ASSUME Cardinality(Procs) < Cardinality(D) PROVE FALSE
    OBVIOUS
  <2>1. \E x, y \in D : x # y /\ f[x] = f[y]
    <3> HIDE DEF f, D
    <3> QED BY <1>1, <1>3, <1>4, FS_PigeonHole
  <2> QED BY <2>1, <1>3
<1> QED BY <1>1, <1>4, <1>5

LEMMA RunFileIsAName ==
  ASSUME TInv, NEW p \in Started
  PROVE  base[p] \in Runs /\ stem[base[p]] \in Stems /\ RunFile(p) \in Names /\ RunFile(p) # Latest
<1>1. suffix[p] \in 1..(Cardinality(Procs) + 1)
  BY SuffixIsBounded
<1>2. base[p] \in Runs /\ stem[base[p]] \in Stems
  BY DEF TInv, VarsOK, BasesOK
<1> QED BY <1>1, <1>2, StoreAssumption DEF RunFile, Names, Latest

Step(p) == StartRun(p) \/ StartJudge(p) \/ Continue(p) \/ Crash(p)

\* What a step never changes: a name that was taken, the base of a process
\* that has started, and who has started.
LEMMA TakenStays ==
  ASSUME TInv, NEW p \in Procs, Step(p)
  PROVE  /\ \A q \in Procs : Took(q) => Took(q)' /\ suffix'[q] = suffix[q]
         /\ \A q \in Started : base'[q] = base[q] /\ q \in Started'
         /\ \A q \in Procs : Took(q) => q \in Started
         /\ \A q \in Procs : q # p => pc'[q] = pc[q] /\ suffix'[q] = suffix[q]
                                      /\ offset'[q] = offset[q] /\ base'[q] = base[q]
         /\ Contents \subseteq Contents'
         /\ stem' = stem /\ errored' = errored /\ serial' = serial
<1> USE DEF TInv, VarsOK, Took, Started
<1>1. stem' = stem /\ errored' = errored /\ serial' = serial
  BY DEF Step, StartRun, StartJudge, Continue, Probe, Open, Write, OpenLatest, Copy, Crash, setup
<1>2. \A q \in Procs : q # p => pc'[q] = pc[q] /\ suffix'[q] = suffix[q]
                                /\ offset'[q] = offset[q] /\ base'[q] = base[q]
  BY DEF Step, StartRun, StartJudge, Continue, Probe, Open, Write, OpenLatest, Copy, Crash
<1>3. /\ Took(p) => Took(p)' /\ suffix'[p] = suffix[p]
      /\ p \in Started => base'[p] = base[p] /\ p \in Started'
  BY DEF Step, StartRun, StartJudge, Continue, Probe, Open, Write, OpenLatest, Copy, Crash,
         MayStart, Active, Idle, Ended
<1>4. Started \subseteq Started'
  BY <1>2, <1>3
<1>5. Contents \subseteq Contents'
  <2>1. Started \cup {Hole} \subseteq Started' \cup {Hole}
    BY <1>4
  <2>2. \A S, T : S \subseteq T => Seq(S) \subseteq Seq(T)
    BY SeqMonotonic
  <2> HIDE DEF Started
  <2> QED BY <2>1, <2>2 DEF Contents, Hole
<1> QED BY <1>1, <1>2, <1>3, <1>4, <1>5

-----------------------------------------------------------------------------
(* Every step keeps the first part of the invariant.                       *)

LEMMA TInit == Init => TInv
<1> SUFFICES ASSUME Init PROVE TInv
  OBVIOUS
<1>1. Started = {}
  BY DEF Init, Started
<1>2. VarsOK
  BY DEF Init, VarsOK, Idle
<1>3. BasesOK
  BY <1>1 DEF Init, BasesOK, Procs
<1>4. PassedAreTaken /\ FilesAreTaken
  BY <1>1 DEF Init, PassedAreTaken, FilesAreTaken
<1>5. FilesAreThere
  BY DEF Init, FilesAreThere
<1> QED BY <1>2, <1>3, <1>4, <1>5 DEF TInv

\* What a file holds when a chunk is written to it.
LEMMA WrittenContents ==
  ASSUME TInv, NEW f \in Names, disk[f] # None, NEW i \in Nat \ {0}, NEW c \in Started \cup {Hole}
  PROVE  WriteAt(disk[f], i, c) \in Contents
<1>1. disk[f] \in Contents
  BY DEF TInv, VarsOK
<1> QED BY <1>1, WriteAtIsASequence DEF Contents

\* What latest.json holds when a chunk is copied to it.
LEMMA CopiedContents ==
  ASSUME TInv, NEW p \in Procs, pc[p] = "copy", offset[p] < Len(disk[RunFile(p)])
  PROVE  WriteAt(disk[Latest], offset[p] + 1, disk[RunFile(p)][offset[p] + 1]) \in Contents
<1> USE DEF TInv, VarsOK
<1>1. p \in Started /\ disk[RunFile(p)] # None /\ disk[Latest] # None
  BY DEF Started, FilesAreThere
<1>2. disk[RunFile(p)] \in Seq(Started \cup {Hole})
  BY <1>1, RunFileIsAName DEF Contents
<1>3. offset[p] + 1 \in 1..Len(disk[RunFile(p)])
  BY <1>2, LenProperties
<1>4. disk[RunFile(p)][offset[p] + 1] \in Started \cup {Hole}
  BY <1>2, <1>3, ElementOfSeq
<1> QED BY <1>1, <1>4, WrittenContents, ContentsAreNotNone

LEMMA VarsStep ==
  ASSUME TInv, NEW p \in Procs, Step(p)
  PROVE  VarsOK'
<1> USE DEF TInv, VarsOK
<1>0. Contents \subseteq Contents' /\ stem' = stem /\ errored' = errored /\ serial' = serial
  BY TakenStays
<1>1. CASE StartRun(p)
  BY <1>0, <1>1 DEF StartRun
<1>2. CASE StartJudge(p)
  <2>1. CASE disk[Latest] # None /\ Parses(disk[Latest])
    <3>1. disk[Latest] \in Contents
      BY <2>1, ContentsAreNotNone
    <3>2. base[Owner(disk[Latest])] \in Runs
      BY <2>1, <3>1, OwnerIs DEF BasesOK
    <3> QED BY <1>0, <1>2, <2>1, <3>2 DEF StartJudge, GradedFile
  <2>2. CASE ~(disk[Latest] # None /\ Parses(disk[Latest]))
    BY <1>0, <1>2, <2>2 DEF StartJudge, GradedFile, Ended
  <2> QED BY <2>1, <2>2
<1>3. CASE Probe(p)
  BY <1>0, <1>3 DEF Probe
<1>4. CASE Open(p)
  <2>1. <<>> \in Contents'
    BY EmptySeq DEF Contents
  <2> QED BY <1>0, <1>4, <2>1 DEF Open
<1>5. CASE Write(p)
  <2>1. p \in Started /\ disk[RunFile(p)] # None
    BY <1>5 DEF Write, Started, FilesAreThere
  <2>2. WriteAt(disk[RunFile(p)], offset[p] + 1, p) \in Contents
    BY <2>1, WrittenContents, RunFileIsAName
  <2>3. offset' \in [Procs -> Nat] /\ pc' \in [Procs -> Idle \cup Ended \cup
                                         {"probe", "open", "write", "promote", "copy"}]
    BY <1>5 DEF Write, Ended
  <2> QED BY <1>0, <1>5, <2>2, <2>3 DEF Write
<1>6. CASE OpenLatest(p)
  <2>1. <<>> \in Contents'
    BY EmptySeq DEF Contents
  <2> QED BY <1>0, <1>6, <2>1 DEF OpenLatest
<1>7. CASE Copy(p)
  <2>1. CASE offset[p] < Len(disk[RunFile(p)])
    <3>1. offset' \in [Procs -> Nat]
      BY <1>7, <2>1 DEF Copy
    <3>2. WriteAt(disk[Latest], offset[p] + 1, disk[RunFile(p)][offset[p] + 1]) \in Contents
      BY <1>7, <2>1, CopiedContents DEF Copy
    <3> QED BY <1>0, <1>7, <2>1, <3>1, <3>2 DEF Copy
  <2>2. CASE ~(offset[p] < Len(disk[RunFile(p)]))
    BY <1>0, <1>7, <2>2 DEF Copy, Ended
  <2> QED BY <2>1, <2>2
<1>8. CASE Crash(p)
  BY <1>0, <1>8 DEF Crash, Ended
<1> QED BY <1>1, <1>2, <1>3, <1>4, <1>5, <1>6, <1>7, <1>8 DEF Step, Continue

\* The only names a step adds to the searched ones and to the files.
LEMMA NewNames ==
  ASSUME TInv, NEW p \in Procs, Step(p)
  PROVE  /\ \A q \in Procs : suffix'[q] # suffix[q] =>
              /\ q = p /\ p \in Started /\ suffix'[p] = suffix[p] + 1
              /\ disk[RunFile(p)] # None
         /\ \A q \in Started' \ Started : q = p /\ suffix'[p] = 1 /\ base'[p] \in Runs
         /\ \A f \in Names \ {Latest} : disk'[f] # None /\ disk[f] = None =>
              p \in Started /\ Took(p) /\ f = RunFile(p)
         /\ \A f \in Names : disk[f] # None => disk'[f] # None
<1> USE DEF TInv, VarsOK
<1>1. CASE StartRun(p)
  BY <1>1 DEF StartRun, MayStart, Started, BasesOK
<1>2. CASE StartJudge(p)
  <2>1. CASE disk[Latest] # None /\ Parses(disk[Latest])
    <3>1. disk[Latest] \in Contents
      BY <2>1, ContentsAreNotNone
    <3>2. base[Owner(disk[Latest])] \in Runs
      BY <2>1, <3>1, OwnerIs DEF BasesOK
    <3> QED BY <1>2, <2>1, <3>2 DEF StartJudge, GradedFile, MayStart, Started, BasesOK
  <2>2. CASE ~(disk[Latest] # None /\ Parses(disk[Latest]))
    BY <1>2, <2>2 DEF StartJudge, GradedFile, MayStart, Started
  <2> QED BY <2>1, <2>2
<1>3. CASE Probe(p)
  BY <1>3 DEF Probe, Started
<1>4. CASE Open(p)
  <2>1. p \in Started /\ Took(p) /\ Started' = Started
    BY <1>4 DEF Open, Started, Took
  <2>2. <<>> # None
    BY EmptyIsAContent
  <2> QED BY <1>4, <2>1, <2>2, RunFileIsAName DEF Open
<1>5. CASE Write(p)
  <2>1. p \in Started /\ Took(p) /\ Started' = Started /\ disk[RunFile(p)] # None
    BY <1>5 DEF Write, Started, Took, FilesAreThere
  <2>2. WriteAt(disk[RunFile(p)], offset[p] + 1, p) # None
    BY <2>1, WrittenContents, RunFileIsAName, ContentsAreNotNone
  <2> QED BY <1>5, <2>1, <2>2, RunFileIsAName DEF Write
<1>6. CASE OpenLatest(p)
  <2>1. Started' = Started
    BY <1>6 DEF OpenLatest, Started
  <2>2. <<>> # None
    BY EmptyIsAContent
  <2> QED BY <1>6, <2>1, <2>2 DEF OpenLatest
<1>7. CASE Copy(p)
  <2>1. p \in Started /\ Started' = Started /\ suffix' = suffix
    BY <1>7 DEF Copy, Started
  <2>2. CASE offset[p] < Len(disk[RunFile(p)])
    BY <1>7, <2>1, <2>2, CopiedContents, ContentsAreNotNone DEF Copy
  <2>3. CASE ~(offset[p] < Len(disk[RunFile(p)]))
    BY <1>7, <2>1, <2>3 DEF Copy
  <2> QED BY <2>2, <2>3
<1>8. CASE Crash(p)
  BY <1>8 DEF Crash, Started, Active, Idle, Ended
<1> QED BY <1>1, <1>2, <1>3, <1>4, <1>5, <1>6, <1>7, <1>8 DEF Step, Continue

LEMMA TStep == TInv /\ [Next]_vars => TInv'
<1> SUFFICES ASSUME TInv, [Next]_vars PROVE TInv'
  OBVIOUS
<1>1. CASE UNCHANGED vars
  <2> USE DEF vars
  <2>1. Contents' = Contents /\ Started' = Started /\ \A q \in Procs : Took(q)' = Took(q)
    BY <1>1 DEF Contents, Started, Took
  <2>2. \A q \in Procs : RunFile(q)' = RunFile(q)
    BY <1>1 DEF RunFile
  <2>3. VarsOK' /\ BasesOK'
    BY <1>1, <2>1 DEF TInv, VarsOK, BasesOK
  <2>4. PassedAreTaken' /\ FilesAreTaken'
    BY <1>1, <2>1, <2>2 DEF TInv, PassedAreTaken, FilesAreTaken
  <2>5. FilesAreThere'
    BY <1>1, <2>2 DEF TInv, FilesAreThere
  <2> QED BY <2>3, <2>4, <2>5 DEF TInv
<1>2. ASSUME NEW p \in Procs, Step(p)
      PROVE  TInv'
  <2>1. VarsOK'
    BY <1>2, VarsStep
  <2>2. /\ \A q \in Procs : Took(q) => Took(q)' /\ RunFile(q)' = RunFile(q)
        /\ \A q \in Started : base'[q] = base[q] /\ q \in Started'
    BY <1>2, TakenStays DEF RunFile
  <2>3. BasesOK'
    <3>1. \A q \in Runs : base'[q] = q
      <4> SUFFICES ASSUME NEW q \in Runs PROVE base'[q] = q
        OBVIOUS
      <4>1. base[q] = q /\ q \in Procs /\ q \notin JudgePasses
        BY StoreAssumption DEF TInv, BasesOK, Procs
      <4>2. CASE q \in Started
        BY <2>2, <4>1, <4>2
      <4>3. CASE q # p
        BY <1>2, <4>1, <4>3, TakenStays
      <4>4. CASE q = p /\ q \notin Started
        <5>1. base' = base
          BY <1>2, <4>1, <4>4 DEF Step, Continue, StartRun, StartJudge, Probe, Open, Write,
                  OpenLatest, Copy, Crash
        <5> QED BY <4>1, <5>1
      <4> QED BY <4>2, <4>3, <4>4
    <3>2. \A q \in Started' : base'[q] \in Runs
      BY <1>2, <2>2, NewNames DEF TInv, BasesOK
    <3>3. \A q \in Procs : pc'[q] = "start" => suffix'[q] = 1
      BY <1>2, TakenStays DEF TInv, VarsOK, BasesOK, Step, Continue, StartRun, StartJudge, Probe,
                  Open, Write, OpenLatest, Copy, Crash
    <3> QED BY <3>1, <3>2, <3>3 DEF BasesOK
  <2>4. PassedAreTaken'
    <3> SUFFICES ASSUME NEW q \in Started', NEW n \in 1..(suffix'[q] - 1)
                 PROVE  \E s \in Procs : (Took(s) /\ RunFile(s) = <<stem[base[q]], n>>)'
      BY DEF PassedAreTaken
    <3>0. q \in Procs /\ stem' = stem
      BY <1>2, TakenStays DEF Started
    <3>1. q \in Started
      BY <1>2, NewNames
    <3>2. base'[q] = base[q] /\ suffix[q] \in Nat \ {0}
      BY <2>2, <3>0, <3>1 DEF TInv, VarsOK
    <3>3. CASE n \in 1..(suffix[q] - 1)
      <4>1. PICK s \in Procs : Took(s) /\ RunFile(s) = <<stem[base[q]], n>>
        BY <3>1, <3>3 DEF TInv, PassedAreTaken
      <4> QED BY <4>1, <2>2, <3>0, <3>2
    <3>4. CASE n \notin 1..(suffix[q] - 1)
      <4>1. suffix'[q] = suffix[q] + 1 /\ q = p /\ disk[RunFile(p)] # None
        BY <1>2, <3>0, <3>2, <3>4, NewNames
      <4>2. n = suffix[q]
        BY <3>2, <3>4, <4>1
      <4>3. PICK s \in Procs : Took(s) /\ RunFile(s) = RunFile(q)
        BY <3>1, <4>1, RunFileIsAName DEF TInv, FilesAreTaken
      <4> QED BY <4>2, <4>3, <2>2, <3>0, <3>2 DEF RunFile
    <3> QED BY <3>3, <3>4
  <2>5. FilesAreTaken'
    <3> SUFFICES ASSUME NEW f \in Names \ {Latest}, disk'[f] # None
                 PROVE  \E s \in Procs : (Took(s) /\ RunFile(s) = f)'
      BY DEF FilesAreTaken
    <3>1. CASE disk[f] # None
      BY <3>1, <2>2 DEF TInv, FilesAreTaken
    <3>2. CASE disk[f] = None
      BY <3>2, <1>2, <2>2, NewNames
    <3> QED BY <3>1, <3>2
  <2>6. FilesAreThere'
    <3>1. \A q \in Started : RunFile(q) \in Names
      BY RunFileIsAName
    <3>2. \A f \in Names : disk[f] # None => disk'[f] # None
      BY <1>2, NewNames
    <3>3. <<>> # None
      BY EmptyIsAContent
    <3>4. ASSUME NEW q \in Procs, pc'[q] \in {"write", "promote", "copy", "done"}
          PROVE  disk'[RunFile(q)'] # None
      <4>1. CASE pc[q] \in {"write", "promote", "copy", "done"}
        <5>1. q \in Started /\ Took(q)
          BY <4>1 DEF Started, Took
        <5> QED BY <4>1, <5>1, <2>2, <3>1, <3>2 DEF TInv, FilesAreThere
      <4>2. CASE pc[q] \notin {"write", "promote", "copy", "done"}
        <5>1. q = p /\ Open(p)
          BY <1>2, <3>4, <4>2, TakenStays DEF Step, Continue, StartRun, StartJudge, Probe, Open,
                  Write, OpenLatest, Copy, Crash, TInv, VarsOK
        <5>2. q \in Started /\ Took(q)
          BY <5>1 DEF Open, Started, Took
        <5> QED BY <5>1, <5>2, <2>2, <3>1, <3>3 DEF Open, TInv, VarsOK
      <4> QED BY <4>1, <4>2
    <3>5. ASSUME NEW q \in Procs, pc'[q] = "copy"
          PROVE  disk'[Latest] # None
      <4>1. CASE pc[q] = "copy"
        BY <4>1, <3>2, ContentsAreNotNone DEF TInv, FilesAreThere
      <4>2. CASE pc[q] # "copy"
        <5>1. OpenLatest(p)
          BY <1>2, <3>5, <4>2, TakenStays DEF Step, Continue, StartRun, StartJudge, Probe, Open,
                  Write, OpenLatest, Copy, Crash, TInv, VarsOK
        <5> QED BY <5>1, <3>3, ContentsAreNotNone DEF OpenLatest, TInv, VarsOK
      <4> QED BY <4>1, <4>2
    <3> QED BY <3>4, <3>5 DEF FilesAreThere
  <2> QED BY <2>1, <2>3, <2>4, <2>5, <2>6 DEF TInv
<1> QED BY <1>1, <1>2 DEF Next, Step

LEMMA TInvariant == Spec => []TInv
BY TInit, TStep, PTL DEF Spec

\* The search for a free name never leaves Names, and no process reads or
\* writes a file that is not there (results.py: _free_path).
THEOREM TypeCorrect == Spec => []TypeOK
<1>1. TInv => TypeOK
  <2> SUFFICES ASSUME TInv PROVE TypeOK
    OBVIOUS
  <2>1. \A f \in Names : disk[f] # None => disk[f] \in Seq(Procs \cup {Hole})
    <3>1. Contents \subseteq Seq(Procs \cup {Hole})
      BY SeqMonotonic DEF Contents, Started
    <3> QED BY <3>1 DEF TInv, VarsOK
  <2>2. \A p \in Procs : Active(p) => base[p] \in Runs /\ RunFile(p) \in Names
    <3>1. \A p \in Procs : Active(p) => p \in Started
      BY DEF Active, Idle, Ended, Started
    <3> QED BY <3>1, RunFileIsAName
  <2> QED BY <2>1, <2>2 DEF TypeOK, TInv, VarsOK
<1> QED BY <1>1, TInvariant, PTL

-----------------------------------------------------------------------------
(* Every step keeps the second part of the invariant.                      *)

Writing == {"open", "write", "promote", "copy", "done"}

\* Where a step writes.
LEMMA DiskChanges ==
  ASSUME TInv, NEW p \in Procs, Step(p), NEW f \in Names, disk'[f] # disk[f]
  PROVE  \/ f = RunFile(p) /\ pc[p] \in {"open", "write"} /\ (Open(p) \/ Write(p))
         \/ f = Latest /\ pc[p] \in {"promote", "copy"} /\ (OpenLatest(p) \/ Copy(p))
<1> USE DEF TInv, VarsOK
<1>1. StartRun(p) \/ StartJudge(p) \/ Probe(p) \/ Crash(p) => disk' = disk
  BY DEF StartRun, StartJudge, Probe, Crash
<1>2. Open(p) \/ Write(p) => f = RunFile(p)
  BY DEF Open, Write
<1>3. OpenLatest(p) \/ Copy(p) => f = Latest
  BY DEF OpenLatest, Copy
<1> QED BY <1>1, <1>2, <1>3 DEF Step, Continue, Open, Write, OpenLatest, Copy

LEMMA OneJudgePass ==
  ASSUME Cardinality(JudgePasses) <= 1, NEW p \in JudgePasses, NEW q \in JudgePasses
  PROVE  p = q
<1>1. IsFiniteSet(JudgePasses) /\ Cardinality(JudgePasses) \in Nat
  <2>1. IsFiniteSet(Procs) /\ JudgePasses \in SUBSET Procs
    BY StoreAssumption DEF Procs
  <2> QED BY <2>1, FS_Subset, FS_CardinalityType
<1>2. CASE Cardinality(JudgePasses) = 0
  BY <1>1, <1>2, FS_EmptySet
<1>3. CASE Cardinality(JudgePasses) = 1
  BY <1>1, <1>3, FS_Singleton
<1> QED BY <1>1, <1>2, <1>3

LEMMA KInit == Init => KInv
<1> SUFFICES ASSUME Init PROVE KInv
  OBVIOUS
<1>1. \A p \in Procs : pc[p] = "start" /\ p \notin Started
  BY DEF Init, Started
<1>2. disk[Latest] = None
  BY ContentsAreNotNone DEF Init
<1>3. NoSharing /\ OwnFiles
  BY <1>1 DEF NoSharing, OwnFiles, Recorded
<1>4. LatestIsCopied /\ GradesASuccess /\ OneAtATime /\ GradesAWrittenRun
  BY <1>1, <1>2 DEF LatestIsCopied, GradesASuccess, OneAtATime, GradesAWrittenRun, Active, Idle, Procs
<1> QED BY <1>3, <1>4 DEF KInv

LEMMA NoSharingStep ==
  ASSUME TInv, NEW p \in Procs, Step(p),
         NamesApart, NoSharing, OneAtATime, GradesAWrittenRun
  PROVE  NoSharing'
<1> SUFFICES ASSUME NEW x \in Procs, NEW y \in Procs, x # y,
                    pc'[x] \in Writing, pc'[y] \in Writing, RunFile(x)' = RunFile(y)'
             PROVE  FALSE
  BY DEF NoSharing, Writing
<1> USE DEF TInv, VarsOK, Writing
<1>1. \A z \in Procs : pc'[z] \in Writing =>
        /\ z \in Started /\ RunFile(z)' = RunFile(z)
        /\ pc[z] \in Writing \/ (z = p /\ pc[z] = "probe" /\ disk[RunFile(z)] = None)
  <2> SUFFICES ASSUME NEW z \in Procs, pc'[z] \in Writing
               PROVE  /\ z \in Started /\ RunFile(z)' = RunFile(z)
                      /\ pc[z] \in Writing \/ (z = p /\ pc[z] = "probe" /\ disk[RunFile(z)] = None)
    OBVIOUS
  <2>1. CASE pc[z] \in Writing
    <3>1. z \in Started /\ Took(z)
      BY <2>1 DEF Started, Took
    <3> QED BY <2>1, <3>1, TakenStays DEF RunFile
  <2>2. CASE pc[z] \notin Writing
    <3>1. z = p
      BY <2>2, TakenStays
    <3>2. Probe(p) /\ disk[RunFile(p)] = None
      BY <2>2, <3>1 DEF Step, Continue, StartRun, StartJudge, Probe, Open, Write, OpenLatest,
              Copy, Crash
    <3> QED BY <3>1, <3>2 DEF Probe, Started, RunFile, setup
  <2> QED BY <2>1, <2>2
<1>2. ~(pc[x] \in Writing /\ pc[y] \in Writing)
  BY <1>1 DEF NoSharing
<1>3. PICK z \in Procs : z # p /\ z \in Started /\ pc[z] \in Writing /\ RunFile(z) = RunFile(p)
                         /\ p \in Started /\ pc[p] = "probe" /\ disk[RunFile(p)] = None
  BY <1>1, <1>2
<1>4. pc[z] = "open"
  BY <1>3 DEF FilesAreThere
<1>5. CASE serial
  BY <1>3, <1>4, <1>5 DEF OneAtATime, Active, Idle, Ended
<1>6. CASE ~serial
  <2>1. /\ \A r, q \in Runs : stem[r] = stem[q] => r = q
        /\ Cardinality(JudgePasses) <= 1
    BY <1>6 DEF NamesApart
  <2>2. base[z] \in Runs /\ base[p] \in Runs /\ base[z] = base[p]
    BY <1>3, <2>1, RunFileIsAName DEF RunFile
  <2>3. z \in Runs => base[z] = z
    BY DEF BasesOK
  <2>4. p \in Runs => base[p] = p
    BY DEF BasesOK
  <2>5. p \in JudgePasses => pc[base[p]] \notin {"open", "probe"}
    BY <1>3, <1>6 DEF GradesAWrittenRun, Copied
  <2>6. z \in JudgePasses => pc[base[z]] \notin {"open", "probe"}
    BY <1>3, <1>6 DEF GradesAWrittenRun, Copied
  <2>7. ~(p \in JudgePasses /\ z \in JudgePasses)
    BY <1>3, <2>1, OneJudgePass
  <2> QED BY <1>3, <1>4, <2>2, <2>3, <2>4, <2>5, <2>6, <2>7 DEF Procs
<1> QED BY <1>5, <1>6

\* Nobody else writes to the file of a process that has opened it.
LEMMA OthersKeepTheFile ==
  ASSUME TInv, NEW p \in Procs, Step(p), NoSharing,
         NEW q \in Procs, q # p, pc[q] \in Writing
  PROVE  disk'[RunFile(q)] = disk[RunFile(q)] /\ RunFile(q)' = RunFile(q)
<1>1. q \in Started /\ Took(q)
  BY DEF Writing, Started, Took
<1>2. RunFile(q) \in Names /\ RunFile(q) # Latest
  BY <1>1, RunFileIsAName
<1>3. pc[p] \in {"open", "write"} => RunFile(q) # RunFile(p)
  BY DEF NoSharing, Writing
<1>4. RunFile(q)' = RunFile(q)
  BY <1>1, TakenStays DEF RunFile
<1> QED BY <1>2, <1>3, <1>4, DiskChanges

LEMMA OwnFilesStep ==
  ASSUME TInv, NEW p \in Procs, Step(p), NoSharing, OwnFiles
  PROVE  OwnFiles'
<1> USE DEF TInv, VarsOK
<1>1. ASSUME NEW q \in Procs, q # p
      PROVE  /\ pc'[q] = "write" => disk'[RunFile(q)'] = Chunks(q, offset'[q]) /\ offset'[q] < Size[q]
             /\ pc'[q] \in {"promote", "copy", "done"} => disk'[RunFile(q)'] = Payload(q)
  <2>1. pc'[q] = pc[q] /\ offset'[q] = offset[q]
    BY <1>1, TakenStays
  <2> QED BY <1>1, <2>1, OthersKeepTheFile DEF OwnFiles, Recorded, Writing
<1>2. /\ pc'[p] = "write" => disk'[RunFile(p)'] = Chunks(p, offset'[p]) /\ offset'[p] < Size[p]
      /\ pc'[p] \in {"promote", "copy", "done"} => disk'[RunFile(p)'] = Payload(p)
  <2>0. Size[p] \in Nat \ {0} /\ Payload(p) = Chunks(p, Size[p])
    BY PayloadIs
  <2>1. CASE StartRun(p) \/ StartJudge(p) \/ Probe(p) \/ Crash(p)
    BY <2>1 DEF StartRun, StartJudge, Probe, Crash
  <2>2. CASE Open(p)
    <3>1. p \in Started /\ RunFile(p)' = RunFile(p)
      BY <2>2 DEF Open, Started, RunFile, setup
    <3>2. disk'[RunFile(p)] = <<>> /\ offset'[p] = 0 /\ pc'[p] = "write"
      BY <2>2, <3>1, RunFileIsAName DEF Open
    <3>3. Chunks(p, 0) = <<>>
      BY ChunksAre, EmptySeq
    <3> QED BY <2>0, <3>1, <3>2, <3>3
  <2>3. CASE Write(p)
    <3>1. p \in Started /\ RunFile(p)' = RunFile(p) /\ pc[p] = "write"
      BY <2>3 DEF Write, Started, RunFile, setup
    <3>2. disk[RunFile(p)] = Chunks(p, offset[p]) /\ offset[p] < Size[p]
      BY <3>1 DEF OwnFiles
    <3>3. disk'[RunFile(p)] = Chunks(p, offset[p] + 1) /\ offset'[p] = offset[p] + 1
      BY <2>3, <3>1, <3>2, RunFileIsAName, WriteAtTheEnd DEF Write
    <3>4. pc'[p] = "write" => offset[p] + 1 < Size[p]
      BY <2>3 DEF Write
    <3>5. pc'[p] # "write" => offset[p] + 1 = Size[p]
      BY <2>0, <2>3, <3>2 DEF Write
    <3> QED BY <2>0, <3>1, <3>3, <3>4, <3>5
  <2>4. CASE OpenLatest(p) \/ Copy(p)
    <3>1. p \in Started /\ RunFile(p)' = RunFile(p) /\ Recorded(p) /\ pc'[p] \in {"copy", "done"}
      BY <2>4 DEF OpenLatest, Copy, Started, RunFile, setup, Recorded
    <3>2. disk'[RunFile(p)] = disk[RunFile(p)]
      BY <2>4, <3>1, RunFileIsAName DEF OpenLatest, Copy
    <3> QED BY <3>1, <3>2 DEF OwnFiles
  <2> QED BY <2>1, <2>2, <2>3, <2>4 DEF Step, Continue
<1> QED BY <1>1, <1>2 DEF OwnFiles, Recorded

\* Every chunk after a write is the chunk written, a hole, or an old one.
LEMMA WriteAtElements ==
  ASSUME NEW S, NEW content \in Seq(S), NEW i \in Nat \ {0}, NEW chunk \in S, Hole \in S,
         NEW k \in 1..Len(WriteAt(content, i, chunk))
  PROVE  \/ WriteAt(content, i, chunk)[k] \in {chunk, Hole}
         \/ k \in 1..Len(content) /\ WriteAt(content, i, chunk)[k] = content[k]
<1> DEFINE len == IF i > Len(content) THEN i ELSE Len(content)
<1>1. Len(content) \in Nat /\ len \in Nat
  BY LenProperties
<1>2. WriteAt(content, i, chunk) \in Seq(S)
  BY WriteAtIsASequence
<1>3. DOMAIN WriteAt(content, i, chunk) = 1..len
  BY DEF WriteAt
<1>4. k \in 1..len
  BY <1>1, <1>2, <1>3, LenProperties
<1> QED BY <1>1, <1>4 DEF WriteAt

\* A chunk of latest.json is of a process that copies or has copied a success.
LEMMA LatestChunks ==
  ASSUME TInv, LatestIsCopied, disk[Latest] # None, Parses(disk[Latest])
  PROVE  /\ Owner(disk[Latest]) \in Copied /\ Owner(disk[Latest]) \in Started
         /\ base[Owner(disk[Latest])] \notin errored /\ base[Owner(disk[Latest])] \in Runs
<1>1. disk[Latest] \in Contents
  BY ContentsAreNotNone DEF TInv, VarsOK
<1>2. /\ Owner(disk[Latest]) \in Started /\ 1 \in 1..Len(disk[Latest])
      /\ disk[Latest][1] = Owner(disk[Latest])
  BY <1>1, OwnerIs
<1>3. Owner(disk[Latest]) # Hole
  BY <1>2, ContentsAreNotNone DEF Started, Hole
<1> QED BY <1>2, <1>3 DEF LatestIsCopied, TInv, BasesOK

LEMMA CopiedStays ==
  ASSUME TInv, NEW p \in Procs, Step(p), NEW q \in Copied
  PROVE  q \in Copied' /\ q \in Started /\ base'[q] = base[q]
<1> USE DEF TInv, VarsOK
<1>1. q \in Procs /\ q \in Started
  BY DEF Copied, Started
<1>2. base'[q] = base[q]
  BY <1>1, TakenStays
<1>3. CASE q # p
  BY <1>1, <1>2, <1>3, TakenStays DEF Copied
<1>4. CASE q = p
  BY <1>1, <1>2, <1>4 DEF Step, Continue, StartRun, StartJudge, MayStart, Probe, Open, Write,
                          OpenLatest, Copy, Crash, Copied
<1> QED BY <1>3, <1>4

LEMMA LatestIsCopiedStep ==
  ASSUME TInv, NEW p \in Procs, Step(p), OwnFiles, LatestIsCopied, GradesASuccess
  PROVE  LatestIsCopied'
<1> USE DEF TInv, VarsOK
<1>0. errored' = errored /\ Latest \in Names
  BY TakenStays, ContentsAreNotNone
<1>1. \A q \in Copied : q \in Copied' /\ base'[q] = base[q]
  BY CopiedStays
<1>2. CASE disk'[Latest] = disk[Latest]
  BY <1>0, <1>1, <1>2 DEF LatestIsCopied
<1>3. CASE OpenLatest(p)
  <2>1. disk'[Latest] = <<>> /\ Len(<<>>) = 0
    BY <1>0, <1>3, EmptySeq DEF OpenLatest
  <2> QED BY <2>1 DEF LatestIsCopied
<1>4. CASE Copy(p) /\ disk'[Latest] # disk[Latest]
  <2>1. p \in Started /\ p \in Copied /\ pc[p] = "copy" /\ disk[Latest] # None
    BY <1>4 DEF Copy, Started, Copied, FilesAreThere
  <2>2. offset[p] < Len(disk[RunFile(p)])
    BY <1>4 DEF Copy
  <2>3. disk[RunFile(p)] = Payload(p)
    BY <2>1 DEF OwnFiles, Recorded
  <2>4. disk[RunFile(p)][offset[p] + 1] = p
    <3>1. /\ Len(Payload(p)) = Size[p] /\ Size[p] \in Nat
          /\ \A i \in 1..Size[p] : Payload(p)[i] = p
      BY PayloadIs
    <3>2. offset[p] + 1 \in 1..Size[p]
      BY <2>2, <2>3, <3>1
    <3> QED BY <2>3, <3>1, <3>2
  <2>5. disk'[Latest] = WriteAt(disk[Latest], offset[p] + 1, p)
    BY <1>0, <1>4, <2>2, <2>4 DEF Copy
  <2>6. disk[Latest] \in Seq(Started \cup {Hole})
    BY <1>0, <2>1 DEF Contents
  <2>7. base[p] \notin errored /\ p \in Copied' /\ base'[p] = base[p]
    BY <1>1, <2>1 DEF GradesASuccess
  <2> SUFFICES ASSUME NEW k \in 1..Len(disk'[Latest]), disk'[Latest][k] # Hole
               PROVE  disk'[Latest][k] \in Copied' /\ base'[disk'[Latest][k]] \notin errored
    BY <1>0 DEF LatestIsCopied
  <2>8. disk'[Latest][k] = p \/ (k \in 1..Len(disk[Latest]) /\ disk'[Latest][k] = disk[Latest][k])
    <3>1. offset[p] + 1 \in Nat \ {0} /\ p \in Started \cup {Hole} /\ Hole \in Started \cup {Hole}
      BY <2>1
    <3>2. k \in 1..Len(WriteAt(disk[Latest], offset[p] + 1, p))
      BY <2>5
    <3> HIDE DEF Hole, TInv, VarsOK
    <3> QED BY <2>5, <2>6, <3>1, <3>2, WriteAtElements
  <2>9. CASE disk'[Latest][k] = p
    BY <2>7, <2>9
  <2>10. CASE k \in 1..Len(disk[Latest]) /\ disk'[Latest][k] = disk[Latest][k]
    BY <1>1, <2>1, <2>10 DEF LatestIsCopied
  <2> QED BY <2>8, <2>9, <2>10
<1> QED BY <1>0, <1>2, <1>3, <1>4, DiskChanges, RunFileIsAName DEF Started

LEMMA GradesStep ==
  ASSUME TInv, NEW p \in Procs, Step(p), NamesApart, LatestIsCopied, GradesASuccess,
         GradesAWrittenRun
  PROVE  GradesASuccess' /\ GradesAWrittenRun'
<1> USE DEF TInv, VarsOK
<1>0. errored' = errored /\ serial' = serial
  BY TakenStays
\* A judge pass that starts takes the base of a copied success.
<1>1. ASSUME NEW q \in Started' \ Started, q \in JudgePasses
      PROVE  base'[q] \notin errored /\ (serial \/ base'[q] \in Copied')
  <2>1. q = p /\ p \notin Runs
    BY <1>1, NewNames, StoreAssumption
  <2>2. StartJudge(p) /\ disk[Latest] # None /\ Parses(disk[Latest])
    BY <1>1, <2>1 DEF Step, Continue, StartRun, StartJudge, MayStart, Probe, Open, Write,
              OpenLatest, Copy, Crash, Active, Started, GradedFile, Idle, Ended
  <2> DEFINE o == Owner(disk[Latest])
  <2>3. base'[p] = base[o] /\ o \in Copied /\ o \in Started /\ base[o] \notin errored
    BY <2>2, LatestChunks DEF StartJudge, GradedFile
  <2>4. CASE serial
    BY <2>1, <2>3, <2>4
  <2>5. CASE ~serial
    <3>1. o \notin JudgePasses
      BY <1>1, <2>1, <2>3, <2>5, OneJudgePass DEF NamesApart
    <3>2. base[o] = o
      BY <2>3, <3>1 DEF BasesOK, Started, Procs
    <3> QED BY <2>1, <2>3, <3>2, CopiedStays
  <2> QED BY <2>4, <2>5
<1>2. ASSUME NEW q \in JudgePasses, q \in Started'
      PROVE  base'[q] \notin errored /\ (serial \/ base'[q] \in Copied')
  <2>1. CASE q \in Started
    <3>1. base'[q] = base[q] /\ base[q] \notin errored
      BY <2>1, TakenStays DEF GradesASuccess
    <3> QED BY <2>1, <3>1, CopiedStays DEF GradesAWrittenRun
  <2> QED BY <1>1, <1>2, <2>1
<1>3. ASSUME NEW q \in Procs, pc'[q] \in {"promote", "copy"}
      PROVE  base'[q] \notin errored
  <2>1. CASE q # p
    BY <1>3, <2>1, TakenStays DEF GradesASuccess
  <2>2. CASE q = p /\ pc[p] \in {"promote", "copy"}
    BY <2>2, TakenStays DEF GradesASuccess, Started
  <2>3. CASE q = p /\ pc[p] \notin {"promote", "copy"}
    <3>1. Write(p) /\ p \notin errored /\ p \in Started
      BY <1>3, <2>3 DEF Step, Continue, StartRun, StartJudge, Probe, Open, Write, OpenLatest, Copy,
              Crash, Promotes, Started
    <3>2. base'[p] = base[p]
      BY <3>1 DEF Write
    <3> QED BY <2>3, <3>1, <3>2 DEF GradesASuccess, BasesOK, Procs
  <2> QED BY <2>1, <2>2, <2>3
<1> QED BY <1>0, <1>2, <1>3 DEF GradesASuccess, GradesAWrittenRun

LEMMA KStep == TInv /\ KInv /\ [Next]_vars => KInv'
<1> SUFFICES ASSUME TInv, KInv, [Next]_vars, NamesApart' PROVE
               NoSharing' /\ OwnFiles' /\ LatestIsCopied' /\ GradesASuccess' /\ OneAtATime'
               /\ GradesAWrittenRun'
  BY DEF KInv
<1>1. CASE UNCHANGED vars
  <2>1. NamesApart
    BY <1>1 DEF vars, NamesApart
  <2>2. \A p : RunFile(p)' = RunFile(p)
    BY <1>1 DEF vars, RunFile
  <2>3. Copied' = Copied /\ Started' = Started
    BY <1>1 DEF vars, Copied, Started
  <2>4. NoSharing' /\ OwnFiles'
    BY <1>1, <2>1, <2>2 DEF vars, KInv, NoSharing, OwnFiles, Recorded
  <2>5. LatestIsCopied' /\ GradesASuccess' /\ OneAtATime' /\ GradesAWrittenRun'
    BY <1>1, <2>1, <2>3 DEF vars, KInv, LatestIsCopied, GradesASuccess, OneAtATime,
         GradesAWrittenRun, Active
  <2> QED BY <2>4, <2>5
<1>2. ASSUME NEW p \in Procs, Step(p)
      PROVE  NoSharing' /\ OwnFiles' /\ LatestIsCopied' /\ GradesASuccess' /\ OneAtATime'
             /\ GradesAWrittenRun'
  <2>1. NamesApart
    BY <1>2, TakenStays DEF NamesApart
  <2>2. NoSharing /\ OwnFiles /\ LatestIsCopied /\ GradesASuccess /\ OneAtATime /\ GradesAWrittenRun
    BY <2>1 DEF KInv
  <2>3. OneAtATime'
    <3>1. \A q \in Procs : q # p => Active(q)' = Active(q)
      BY <1>2, TakenStays DEF Active
    <3>2. Active(p)' => Active(p) \/ MayStart(p)
      BY <1>2 DEF Step, Continue, StartRun, StartJudge, Probe, Open, Write, OpenLatest, Copy,
                  Crash, Active, Idle, Ended
    <3>3. serial' = serial
      BY <1>2, TakenStays
    <3> QED BY <2>2, <3>1, <3>2, <3>3 DEF OneAtATime, MayStart
  <2> QED BY <1>2, <2>1, <2>2, <2>3, NoSharingStep, OwnFilesStep, LatestIsCopiedStep, GradesStep
<1> QED BY <1>1, <1>2 DEF Next, Step

LEMMA KInvariant == Spec => []KInv
BY KInit, KStep, TInvariant, PTL DEF Spec

\* A run that was recorded stays on record, whatever later runs, judge passes
\* and crashes do (results.py: _free_path, write_summary).
THEOREM RecordsStay == Spec => []RecordsAreKept
<1>1. KInv => RecordsAreKept
  BY DEF KInv, OwnFiles, RecordsAreKept
<1> QED BY <1>1, KInvariant, PTL

-----------------------------------------------------------------------------
(* Every step keeps the third part of the invariant.                       *)

SParts ==
  /\ disk[Latest] # None => promoter # None /\ disk[Latest] = Chunks(promoter, Len(disk[Latest]))
  /\ promoter # None => pc[promoter] \in {"copy", "done", "dead"} /\ base[promoter] \notin errored
  /\ \A p \in Procs : pc[p] = "copy" =>
       promoter = p /\ disk[Latest] = Chunks(p, offset[p]) /\ offset[p] <= Size[p]
  /\ promoter # None /\ pc[promoter] = "done" => disk[Latest] = Payload(promoter)
  /\ \A p \in JudgePasses : Active(p) => promoter # None /\ base[p] = base[promoter]

LEMMA SPartsAre == SInv <=> (serial => SParts)
BY DEF SInv, SParts

\* One process at a time, latest.json parses as the payload of its promoter.
LEMMA OwnerIsThePromoter ==
  ASSUME TInv, SParts, disk[Latest] # None, Parses(disk[Latest])
  PROVE  promoter \in Procs /\ Owner(disk[Latest]) = promoter
<1>1. disk[Latest] \in Contents
  BY ContentsAreNotNone DEF TInv, VarsOK
<1>2. 1 \in 1..Len(disk[Latest]) /\ disk[Latest][1] = Owner(disk[Latest])
  BY <1>1, OwnerIs
<1>3. promoter \in Procs /\ disk[Latest] = Chunks(promoter, Len(disk[Latest]))
  BY DEF SParts, TInv, VarsOK
<1>4. Len(disk[Latest]) \in Nat
  BY <1>1, LenProperties DEF Contents
<1>5. disk[Latest][1] = promoter
  <2>1. \A i \in 1..Len(disk[Latest]) : Chunks(promoter, Len(disk[Latest]))[i] = promoter
    BY <1>3, <1>4, ChunksAre
  <2> QED BY <1>2, <1>3, <2>1
<1> QED BY <1>2, <1>3, <1>5

\* A step of a process that does not copy leaves latest.json alone.
LEMMA QuietStep ==
  ASSUME TInv, SParts, serial, OneAtATime, NEW p \in Procs, Step(p),
         pc[p] \notin {"promote", "copy"} \/ (pc[p] = "promote" /\ Crash(p))
  PROVE  SParts'
<1> USE DEF TInv, VarsOK
<1>1. promoter' = promoter /\ errored' = errored
  BY DEF Step, Continue, StartRun, StartJudge, Probe, Open, Write, OpenLatest, Copy, Crash, setup
<1>2. disk'[Latest] = disk[Latest]
  <2>1. ~OpenLatest(p) /\ ~Copy(p)
    <3>1. ~(OpenLatest(p) /\ Crash(p))
      BY DEF OpenLatest, Crash
    <3> QED BY <3>1 DEF OpenLatest, Copy
  <2> QED BY <2>1, DiskChanges, RunFileIsAName, ContentsAreNotNone DEF Started
<1>3. pc'[p] # "copy" /\ (pc[p] \notin {"done", "dead", "refused"})
  BY DEF Step, Continue, StartRun, StartJudge, MayStart, Probe, Open, Write, OpenLatest, Copy, Crash,
         Active, Ended
<1>4. promoter # None => promoter # p /\ promoter \in Procs
  BY <1>3 DEF SParts
<1>5. \A q \in Procs : q # p => pc'[q] = pc[q] /\ offset'[q] = offset[q] /\ base'[q] = base[q]
  BY TakenStays
<1>6. disk'[Latest] # None => promoter' # None /\ disk'[Latest] = Chunks(promoter', Len(disk'[Latest]))
  BY <1>1, <1>2 DEF SParts
<1>7. promoter' # None => pc'[promoter'] \in {"copy", "done", "dead"} /\ base'[promoter'] \notin errored'
  BY <1>1, <1>4, <1>5 DEF SParts
<1>8. \A q \in Procs : pc'[q] = "copy" =>
        promoter' = q /\ disk'[Latest] = Chunks(q, offset'[q]) /\ offset'[q] <= Size[q]
  BY <1>1, <1>2, <1>3, <1>5 DEF SParts
<1>9. promoter' # None /\ pc'[promoter'] = "done" => disk'[Latest] = Payload(promoter')
  BY <1>1, <1>2, <1>4, <1>5 DEF SParts
<1>10. ASSUME NEW q \in JudgePasses, Active(q)'
       PROVE  promoter' # None /\ base'[q] = base'[promoter']
  <2>1. q \in Procs
    BY DEF Procs
  <2>2. CASE Active(q)
    <3>1. q \in Started /\ base'[q] = base[q]
      BY <2>1, <2>2, TakenStays DEF Active, Idle, Ended, Started
    <3> QED BY <2>2, <3>1, <1>1, <1>4, <1>5 DEF SParts
  <2>3. CASE ~Active(q)
    <3>1. q = p
      BY <1>5, <1>10, <2>1, <2>3 DEF Active
    <3>2. q \notin Runs
      BY <1>10, StoreAssumption
    <3>3. StartJudge(p) /\ disk[Latest] # None /\ Parses(disk[Latest])
      BY <1>10, <2>3, <3>1, <3>2 DEF Active, Idle, Ended, Step, Continue, StartRun, StartJudge,
           MayStart, Probe, Open, Write, OpenLatest, Copy, Crash, GradedFile
    <3>4. base'[p] = base[promoter] /\ promoter \in Procs
      BY <3>3, OwnerIsThePromoter DEF StartJudge, GradedFile
    <3>5. promoter # None
      BY <3>4, ContentsAreNotNone
    <3> QED BY <1>1, <1>4, <1>5, <3>1, <3>4, <3>5
  <2> QED BY <2>2, <2>3
<1> QED BY <1>6, <1>7, <1>8, <1>9, <1>10 DEF SParts

LEMMA PromotionStep ==
  ASSUME TInv, SParts, serial, OneAtATime, OwnFiles, GradesASuccess, NEW p \in Procs,
         OpenLatest(p) \/ Copy(p) \/ (pc[p] = "copy" /\ Crash(p))
  PROVE  SParts'
<1> USE DEF TInv, VarsOK
<1>0. Step(p) /\ errored' = errored /\ base' = base /\ p # None /\ Latest \in Names
  BY ContentsAreNotNone DEF Step, Continue, OpenLatest, Copy, Crash, setup
<1>1. pc[p] \in {"promote", "copy"} /\ p \in Started
  BY DEF OpenLatest, Copy, Crash, Started
<1>2. \A q \in Procs : q # p => ~Active(q) /\ ~Active(q)' /\ pc'[q] = pc[q]
  BY <1>0, <1>1, TakenStays DEF OneAtATime, Active, Idle, Ended
<1>3. Size[p] \in Nat /\ Payload(p) = Chunks(p, Size[p]) /\ Len(Payload(p)) = Size[p]
      /\ \A i \in 1..Size[p] : Payload(p)[i] = p
  BY PayloadIs
<1>4. disk[RunFile(p)] = Payload(p) /\ base[p] \notin errored
  BY <1>1 DEF OwnFiles, Recorded, GradesASuccess
<1>5. CASE OpenLatest(p)
  <2>1. promoter' = p /\ pc'[p] = "copy" /\ offset'[p] = 0 /\ disk'[Latest] = <<>>
    BY <1>0, <1>5 DEF OpenLatest
  <2>2. Chunks(p, 0) = <<>> /\ Len(<<>>) = 0
    BY ChunksAre, EmptySeq
  <2>3. \A q \in JudgePasses : Active(q)' => q = p
    BY <1>2 DEF Procs
  <2>4. \A q \in Procs : pc'[q] = "copy" => q = p
    BY <1>2 DEF Active, Idle, Ended
  <2> QED BY <1>0, <1>3, <1>4, <2>1, <2>2, <2>3, <2>4 DEF SParts
<1>6. CASE Copy(p)
  <2>0. /\ promoter = p /\ disk[Latest] = Chunks(p, offset[p]) /\ offset[p] <= Size[p]
        /\ promoter' = p /\ pc[p] = "copy"
    BY <1>6 DEF SParts, Copy
  <2>1. \A q \in JudgePasses : Active(q)' => q = p
    BY <1>2 DEF Procs
  <2>2. \A q \in Procs : pc'[q] = "copy" => q = p
    BY <1>2 DEF Active, Idle, Ended
  <2>3. CASE offset[p] < Len(disk[RunFile(p)])
    <3>1. offset[p] + 1 \in 1..Size[p] /\ offset[p] + 1 \in Nat
      BY <1>3, <1>4, <2>3
    <3>2. disk[RunFile(p)][offset[p] + 1] = p
      BY <1>3, <1>4, <3>1
    <3>3. disk'[Latest] = WriteAt(disk[Latest], offset[p] + 1, p) /\ offset'[p] = offset[p] + 1
          /\ pc'[p] = "copy"
      BY <1>0, <1>6, <2>3, <3>2 DEF Copy
    <3>4. disk'[Latest] = Chunks(p, offset'[p])
      BY <2>0, <3>3, WriteAtTheEnd
    <3>5. Len(disk'[Latest]) = offset'[p]
      <4>1. Len(Chunks(p, offset[p] + 1)) = offset[p] + 1
        BY <3>1, ChunksAre
      <4> QED BY <3>3, <3>4, <4>1
    <3>6. offset'[p] <= Size[p]
      BY <1>3, <3>1, <3>3
    <3> QED BY <1>0, <1>4, <2>0, <2>1, <2>2, <3>3, <3>4, <3>5, <3>6 DEF SParts
  <2>4. CASE ~(offset[p] < Len(disk[RunFile(p)]))
    <3>1. offset[p] = Size[p]
      BY <1>3, <1>4, <2>0, <2>4
    <3>2. disk' = disk /\ pc'[p] = "done"
      BY <1>6, <2>4 DEF Copy
    <3>3. disk'[Latest] = Payload(p) /\ disk'[Latest] = Chunks(p, Len(disk'[Latest]))
      BY <1>3, <2>0, <3>1, <3>2
    <3> QED BY <1>0, <1>4, <2>0, <2>1, <2>2, <3>2, <3>3 DEF SParts
  <2> QED BY <2>3, <2>4
<1>7. CASE pc[p] = "copy" /\ Crash(p)
  <2>1. promoter = p /\ disk[Latest] = Chunks(p, offset[p])
    BY <1>7 DEF SParts
  <2>2. promoter' = p /\ disk' = disk /\ pc'[p] = "dead"
    BY <1>7, <2>1 DEF Crash
  <2>3. \A q \in JudgePasses : ~Active(q)'
    BY <1>2, <2>2 DEF Procs, Active, Ended
  <2>4. \A q \in Procs : pc'[q] # "copy"
    BY <1>2, <2>2 DEF Active, Idle, Ended
  <2> QED BY <1>0, <1>4, <2>1, <2>2, <2>3, <2>4 DEF SParts
<1> QED BY <1>5, <1>6, <1>7

LEMMA SStep == TInv /\ KInv /\ SInv /\ [Next]_vars => SInv'
<1> SUFFICES ASSUME TInv, KInv, SInv, [Next]_vars PROVE SInv'
  OBVIOUS
<1>1. CASE UNCHANGED vars
  BY <1>1 DEF vars, SInv, Active
<1>2. ASSUME NEW p \in Procs, Step(p)
      PROVE  SInv'
  <2> SUFFICES ASSUME serial' PROVE SParts'
    BY DEF SInv, SParts
  <2>1. serial /\ NamesApart
    BY <1>2, TakenStays DEF NamesApart
  <2>2. SParts /\ OneAtATime /\ OwnFiles /\ GradesASuccess
    BY <2>1, SPartsAre DEF KInv
  <2>3. CASE OpenLatest(p) \/ Copy(p) \/ (pc[p] = "copy" /\ Crash(p))
    BY <2>1, <2>2, <2>3, PromotionStep
  <2>4. CASE ~(OpenLatest(p) \/ Copy(p) \/ (pc[p] = "copy" /\ Crash(p)))
    <3>1. pc[p] \notin {"promote", "copy"} \/ (pc[p] = "promote" /\ Crash(p))
      BY <1>2, <2>4 DEF Step, Continue, StartRun, StartJudge, MayStart, Probe, Open, Write
    <3> QED BY <1>2, <2>1, <2>2, <3>1, QuietStep
  <2> QED BY <2>3, <2>4
<1> QED BY <1>1, <1>2 DEF Next, Step

LEMMA SInit == Init => SInv
<1> SUFFICES ASSUME Init PROVE SInv
  OBVIOUS
<1>1. disk[Latest] = None /\ promoter = None /\ \A p \in Procs : pc[p] = "start" /\ ~Active(p)
  BY ContentsAreNotNone DEF Init, Active, Idle
<1> QED BY <1>1 DEF SInv, Procs

LEMMA SInvariant == Spec => []SInv
BY SInit, SStep, TInvariant, KInvariant, PTL DEF Spec

\* One process at a time, latest.json is exactly what the last process to
\* promote one wrote, and never an errored run (results.py: promote_latest).
THEOREM LatestFollowsThePromotions == Spec => []LatestIsTheLastPromoted
<1>1. SInv => LatestIsTheLastPromoted
  BY DEF SInv, LatestIsTheLastPromoted
<1> QED BY <1>1, SInvariant, PTL

\* Only a run changes which run latest.json is about: a judge pass promotes
\* the run that was already there (cli.py: cmd_judge).
THEOREM JudgingKeepsTheRun == Spec => OnlyRunsChangeTheRun
<1> DEFINE Kept == serial /\ promoter' # promoter /\ promoter # None /\ promoter' \in JudgePasses
                     => base[promoter'] = base[promoter]
<1>1. SInv /\ [Next]_vars => [Kept]_vars
  <2> SUFFICES ASSUME SInv, NEW p \in Procs, Step(p), promoter' # promoter,
                      serial, promoter' \in JudgePasses
               PROVE  base[promoter'] = base[promoter]
    BY DEF Next, Step
  <2>1. OpenLatest(p)
    BY DEF Step, Continue, StartRun, StartJudge, Probe, Open, Write, OpenLatest, Copy, Crash
  <2> QED BY <2>1 DEF OpenLatest, SInv, Active, Idle, Ended
<1> QED BY <1>1, SInvariant, PTL DEF Spec, OnlyRunsChangeTheRun

===============================================================================
