--------------------------- MODULE JudgePassProofs ---------------------------
(***************************************************************************)
(* Proofs about JudgePass for every number of passes, cases and judges.    *)
(*                                                                         *)
(* A label rests on something (Rests): a model gave it for the case at the *)
(* version in the record, and where passes run one after another the cache *)
(* still holds it.  What a label rests on stays, because answers are never *)
(* forgotten, and because a serial pass writes to no entry that is a hit.  *)
(* So it is enough that each label is placed with something to rest on.    *)
(***************************************************************************)
EXTENDS JudgePass, FiniteSetTheorems, SequenceTheorems, WellFoundedInduction, TLAPS

LEMMA CaseIdsAreNumbers == CaseIds \subseteq Nat
BY JudgePassAssumption DEF CaseIds

LEMMA FirstIsOf ==
  ASSUME NEW S \in SUBSET Nat, S # {}
  PROVE  First(S) \in S
<1>1. PICK i \in S : \A k \in S : ~(<<k, i>> \in OpToRel(<, Nat))
  BY WFMin, NatLessThanWellFounded
<1>2. \A k \in S : k \in Nat /\ i \in Nat /\ ~(k < i)
  BY <1>1 DEF OpToRel
<1>3. \A k \in S : i <= k
  BY <1>2
<1> QED
  BY <1>3 DEF First

LEMMA SampleOfIsOfTheRun ==
  ASSUME stored \in Stored, NEW n PROVE SampleOf(n) \subseteq CaseIds
<1>1. Gradable(stored) \subseteq CaseIds
  BY DEF Gradable, Indices, Stored
<1> QED
  BY <1>1 DEF SampleOf

PartialGrades == UNION {[G -> Labels] : G \in SUBSET Graders}

LEMMA RegradeOfACase ==
  ASSUME NEW c \in CaseResult, NEW labels \in PartialGrades
  PROVE  /\ Regrade(c, labels) \in CaseResult
         /\ Regrade(c, labels).grades =
              [g \in Graders |-> IF g \in DOMAIN labels THEN labels[g] ELSE c.grades[g]]
<1> DEFINE grades == [g \in Graders |-> IF g \in DOMAIN labels THEN labels[g] ELSE c.grades[g]]
<1>1. grades \in [Graders -> GradeLabels]
  BY DEF CaseResult, PartialGrades, GradeLabels
<1>2. Place(c.grades, labels) = grades
  BY DEF Place
<1>3. case_passed(c.outcome, grades) \in BOOLEAN
  BY Zenon DEF case_passed
<1>4. Regrade(c, labels) =
        [c EXCEPT !.grades = grades, !.passed = case_passed(c.outcome, grades)]
  BY <1>2 DEF Regrade
<1> HIDE DEF grades
<1>5. QED
  BY <1>1, <1>3, <1>4 DEF CaseResult, grades

\* What Place1 does to the pass in memory.
LEMMA Placing ==
  ASSUME NEW p \in Passes, DOMAIN pass = Passes, PassTypes(p), pass[p].todo # {},
         Grader(p) \in Graders, NEW label \in Labels, Place1(p, label)
  PROVE  /\ DOMAIN pass' = Passes
         /\ \A q \in Passes \ {p} : pass'[q] = pass[q]
         /\ pass'[p] \in PassRecords
         /\ pass'[p].graders = pass[p].graders /\ pass'[p].turn = pass[p].turn
         /\ pass'[p].sample = pass[p].sample /\ pass'[p].version = pass[p].version
         /\ pass'[p].cases = pass[p].cases /\ pass'[p].at = pass[p].at
         /\ pass'[p].todo = pass[p].todo \ {Case(p)}
         /\ Case(p) \in pass[p].todo
         /\ \A i \in CaseIds \ {Case(p)} : pass'[p].labels[i] = pass[p].labels[i]
         /\ DOMAIN pass'[p].labels[Case(p)] = DOMAIN pass[p].labels[Case(p)] \cup {Grader(p)}
         /\ \A g \in DOMAIN pass'[p].labels[Case(p)] :
              pass'[p].labels[Case(p)][g] =
                IF g = Grader(p) THEN label ELSE pass[p].labels[Case(p)][g]
<1> DEFINE one == [g \in {Grader(p)} |-> label]
           new == Updated(pass[p].labels[Case(p)], one)
           labels == [pass[p].labels EXCEPT ![Case(p)] = new]
<1>1. pass[p] \in PassRecords /\ pass[p].todo \subseteq CaseIds
  BY DEF PassTypes, PassRecords
<1>2. Case(p) \in pass[p].todo /\ Case(p) \in CaseIds
  BY <1>1, FirstIsOf, CaseIdsAreNumbers DEF Case
<1>3. pass[p].labels \in [CaseIds -> PartialGrades]
  BY <1>1 DEF PassRecords, PartialGrades
<1>4. /\ DOMAIN new = DOMAIN pass[p].labels[Case(p)] \cup {Grader(p)}
      /\ \A g \in DOMAIN new :
           new[g] = IF g = Grader(p) THEN label ELSE pass[p].labels[Case(p)][g]
  BY DEF Updated
<1>5. new \in PartialGrades
  <2>1. new = [g \in DOMAIN new |-> new[g]]
    BY DEF Updated
  <2>2. DOMAIN new \in SUBSET Graders
    BY <1>2, <1>3, <1>4 DEF PartialGrades
  <2>3. \A g \in DOMAIN new : new[g] \in Labels
    BY <1>2, <1>3, <1>4 DEF PartialGrades
  <2>4. new \in [DOMAIN new -> Labels]
    BY <2>1, <2>3
  <2> HIDE DEF new
  <2> QED
    BY <2>2, <2>4 DEF PartialGrades
<1> HIDE DEF new
<1>6. labels \in [CaseIds -> PartialGrades]
  BY <1>2, <1>3, <1>5
<1>7. pass' = [pass EXCEPT ![p] = [pass[p] EXCEPT !.labels = labels,
                                     !.todo = pass[p].todo \ {Case(p)}, !.answer = "none"]]
  BY DEF Place1, new
<1>8. labels[Case(p)] = new /\ \A i \in CaseIds \ {Case(p)} : labels[i] = pass[p].labels[i]
  BY <1>2, <1>3
<1> HIDE DEF labels
<1>9. pass'[p] \in PassRecords
  BY <1>1, <1>6, <1>7 DEF PassRecords, PartialGrades
<1> QED
  BY <1>1, <1>2, <1>4, <1>7, <1>8, <1>9 DEF PassRecords

\* A running pass's grader is a grader, and what it asks about has a key.
LEMMA GraderIsAGrader ==
  ASSUME NEW p \in Passes, PassTypes(p) PROVE Grader(p) \in Graders
BY JudgePassAssumption, ElementOfSeq DEF PassTypes, PassRecords, Grader

LEMMA CaseIsInTheSample ==
  ASSUME NEW p \in Passes, PassTypes(p), pass[p].todo # {}
  PROVE  Case(p) \in pass[p].todo /\ Case(p) \in CaseIds
BY FirstIsOf, CaseIdsAreNumbers DEF Case, PassTypes, PassRecords

LEMMA KeyIsAKey ==
  ASSUME NEW p \in Passes, PassTypes(p), pass[p].todo # {}, Grader(p) \in Judges
  PROVE  Key(p) \in Keys
BY CaseIsInTheSample DEF Key, Keys, PassTypes, PassRecords, CaseIds

-----------------------------------------------------------------------------
LEMMA TypeInit == Init => TypeOK
<1> SUFFICES ASSUME Init PROVE TypeOK
  OBVIOUS
<1>1. Anything \in Versions
  BY JudgePassAssumption DEF Anything
<1>2. \A o \in RunOutcomes : NewCase(o) \in CaseResult
  BY DEF NewCase, CaseResult, Ungraded, GradeLabels
<1>3. \A i \in CaseIds : Cases[i] \in RunOutcomes
  BY JudgePassAssumption, ElementOfSeq DEF CaseIds
<1>4. stored \in Stored /\ verdictsAt \in VersionsUsed
  BY <1>1, <1>2, <1>3 DEF Init, Stored, VersionsUsed, CaseIds
<1>5. FileTypes
  BY <1>1, <1>4, JudgePassAssumption DEF Init, FileTypes, Entries
<1> QED
  BY <1>5 DEF Init, TypeOK, Running

\* The passes a step leaves alone keep their types.
LEMMA OthersKeepTypes ==
  ASSUME TypeOK, NEW p \in Passes, NEW q \in Passes, q # p,
         pass'[q] = pass[q], pc'[q] = pc[q], Running(q)'
  PROVE  PassTypes(q)'
BY DEF TypeOK, PassTypes, Running

LEMMA TypeStep == TypeOK /\ [Next]_vars => TypeOK'
<1> SUFFICES ASSUME TypeOK, [Next]_vars PROVE TypeOK'
  OBVIOUS
<1> USE DEF Asking
<1>0. /\ FileTypes /\ DOMAIN pass = Passes /\ loaded \in [Passes -> SUBSET Graders]
      /\ pc \in [Passes -> {"idle", "grade", "over"} \cup Asking]
      /\ \A p \in Passes : Running(p) => PassTypes(p)
  BY DEF TypeOK
\* Placing a label keeps the types of the pass.
<1>p. ASSUME NEW p \in Passes, pc[p] \in {"grade", "putting"}, pass[p].todo # {},
             NEW label \in Labels, Place1(p, label), pc'[p] = "grade",
             \A q \in Passes \ {p} : pc'[q] = pc[q]
      PROVE  DOMAIN pass' = Passes /\ \A q \in Passes : Running(q)' => PassTypes(q)'
  <2>1. PassTypes(p) /\ Grader(p) \in Graders
    BY <1>0, <1>p, GraderIsAGrader DEF Running
  <2>2. /\ DOMAIN pass' = Passes
        /\ \A q \in Passes \ {p} : pass'[q] = pass[q]
        /\ pass'[p] \in PassRecords
        /\ pass'[p].graders = pass[p].graders /\ pass'[p].turn = pass[p].turn
        /\ pass'[p].sample = pass[p].sample
        /\ pass'[p].todo = pass[p].todo \ {Case(p)} /\ Case(p) \in pass[p].todo
        /\ \A i \in CaseIds \ {Case(p)} : pass'[p].labels[i] = pass[p].labels[i]
    BY <1>0, <1>p, <2>1, Placing
  <2>3. PassTypes(p)'
    BY <1>p, <2>1, <2>2 DEF PassTypes
  <2> QED
    BY <1>p, <2>2, <2>3, OthersKeepTypes
<1>1. ASSUME NEW p \in Passes, StartPass(p) PROVE TypeOK'
  <2>1. PICK graders \in GraderLists, n \in Samples :
          pass' = [pass EXCEPT ![p] =
            [graders |-> graders, sample |-> SampleOf(n), todo |-> SampleOf(n), turn |-> 1,
             version |-> installed, labels |-> [i \in DOMAIN Cases |-> NoLabels],
             answer |-> "none", cases |-> stored, at |-> verdictsAt]]
    BY <1>1 DEF StartPass
  <2>2. SampleOf(n) \subseteq CaseIds
    BY <1>0, SampleOfIsOfTheRun DEF FileTypes
  <2>3. NoLabels \in [{} -> Labels] /\ DOMAIN NoLabels = {}
    BY DEF NoLabels
  <2>4. NoLabels \in UNION {[G -> Labels] : G \in SUBSET Graders}
    BY <2>3
  <2>5. 1 \in DOMAIN graders
    BY JudgePassAssumption, LenProperties
  <2>6. pass'[p] \in PassRecords
    BY <1>0, <2>1, <2>2, <2>4 DEF PassRecords, FileTypes, CaseIds
  <2>7. PassTypes(p)'
    BY <1>0, <1>1, <2>1, <2>3, <2>5, <2>6 DEF StartPass, PassTypes, CaseIds
  <2>8. \A q \in Passes : Running(q)' => PassTypes(q)'
    BY <1>0, <1>1, <2>1, <2>7, OthersKeepTypes DEF StartPass
  <2> QED
    BY <1>0, <1>1, <2>1, <2>8 DEF StartPass, TypeOK, FileTypes, files
<1>2. ASSUME NEW p \in Passes, JudgeEmpty(p) PROVE TypeOK'
  <2>1. \A q \in Passes : pc'[q] = pc[q]
    BY <1>2 DEF JudgeEmpty
  <2>2. DOMAIN pass' = Passes /\ \A q \in Passes : Running(q)' => PassTypes(q)'
    BY <1>2, <1>p, <2>1 DEF JudgeEmpty, Judging, Grading, Labels
  <2> QED
    BY <1>0, <1>2, <2>2 DEF JudgeEmpty, OnDisk, TypeOK, FileTypes
<1>3. ASSUME NEW p \in Passes, JudgeHit(p) PROVE TypeOK'
  <2>1. \A q \in Passes : pc'[q] = pc[q]
    BY <1>3 DEF JudgeHit
  <2>2. DOMAIN pass' = Passes /\ \A q \in Passes : Running(q)' => PassTypes(q)'
    BY <1>3, <1>p, <2>1 DEF JudgeHit, Judging, Grading
  <2> QED
    BY <1>0, <1>3, <2>2 DEF JudgeHit, OnDisk, TypeOK, FileTypes
<1>4. ASSUME NEW p \in Passes, JudgeCall(p) PROVE TypeOK'
  <2>1. PassTypes(p) /\ Grader(p) \in Graders /\ pass[p].todo # {} /\ Key(p) \in Keys
    BY <1>0, <1>4, GraderIsAGrader, KeyIsAKey DEF JudgeCall, Judging, Grading, Running
  <2>2. PICK label \in Labels :
          /\ given' = [given EXCEPT ![Key(p)] = Append(given[Key(p)], label)]
          /\ pass' = [pass EXCEPT ![p] = [pass[p] EXCEPT !.answer = label]]
    BY <1>4 DEF JudgeCall
  <2>3. given' \in [Keys -> Seq(Labels)]
    BY <1>0, <2>1, <2>2 DEF FileTypes
  <2>4. PassTypes(p)'
    BY <1>0, <1>4, <2>1, <2>2 DEF JudgeCall, PassTypes, PassRecords
  <2>5. \A q \in Passes : Running(q)' => PassTypes(q)'
    BY <1>0, <1>4, <2>2, <2>4, OthersKeepTypes DEF JudgeCall
  <2> QED
    BY <1>0, <1>4, <2>1, <2>2, <2>3, <2>5 DEF JudgeCall, OnDisk, TypeOK, FileTypes
<1>5. ASSUME NEW p \in Passes, PutOpen(p) PROVE TypeOK'
  <2>1. \A q \in Passes : Running(q)' => PassTypes(q)'
    BY <1>0, <1>5 DEF PutOpen, PassTypes, Running
  <2> QED
    BY <1>0, <1>5, <2>1 DEF PutOpen, OnDisk, TypeOK, FileTypes, Entries
<1>6. ASSUME NEW p \in Passes, PutWrite(p) PROVE TypeOK'
  <2>1. PassTypes(p) /\ pass[p].todo # {} /\ pass[p].answer \in Labels
    BY <1>0, <1>6 DEF PutWrite, Running, PassTypes
  <2>2. DOMAIN pass' = Passes /\ \A q \in Passes : Running(q)' => PassTypes(q)'
    BY <1>0, <1>6, <1>p, <2>1 DEF PutWrite
  <2>3. cache' \in [Keys -> Entries]
    BY <1>0, <1>6, <2>1 DEF PutWrite, FileTypes, Entries
  <2> QED
    BY <1>0, <1>6, <2>2, <2>3 DEF PutWrite, OnDisk, TypeOK, FileTypes
<1>7. ASSUME NEW p \in Passes, GradeSemantic(p) PROVE TypeOK'
  <2>1. \A q \in Passes : pc'[q] = pc[q]
    BY <1>7 DEF GradeSemantic
  <2>2. DOMAIN pass' = Passes /\ \A q \in Passes : Running(q)' => PassTypes(q)'
    BY <1>7, <1>p, <2>1 DEF GradeSemantic, Grading, Labels
  <2>3. Grader(p) \in Graders
    BY <1>0, <1>7, GraderIsAGrader DEF GradeSemantic, Grading, Running
  <2> QED
    BY <1>0, <1>7, <2>2, <2>3 DEF GradeSemantic, OnDisk, TypeOK, FileTypes
<1>8. ASSUME NEW p \in Passes, NextGrader(p) PROVE TypeOK'
  <2>1. PassTypes(p) /\ pc[p] = "grade" /\ pass[p].turn < Len(pass[p].graders)
    BY <1>0, <1>8 DEF NextGrader, Through, Running
  <2>2. pass[p].turn + 1 \in DOMAIN pass[p].graders
    BY <2>1, JudgePassAssumption, LenProperties DEF PassTypes, PassRecords
  <2>3. PassTypes(p)'
    <3>1. /\ pass'[p].turn = pass[p].turn + 1 /\ pass'[p].todo = pass[p].sample
          /\ pass'[p].graders = pass[p].graders /\ pass'[p].sample = pass[p].sample
          /\ pass'[p].labels = pass[p].labels /\ pc'[p] = "grade"
      BY <1>0, <1>8, <2>1 DEF NextGrader, NextTurn, PassTypes, PassRecords
    <3>2. pass'[p] = [pass[p] EXCEPT !.turn = pass[p].turn + 1, !.todo = pass[p].sample]
      BY <1>0, <1>8 DEF NextGrader, NextTurn
    <3>3. pass[p] \in PassRecords
      BY <2>1 DEF PassTypes
    <3>4. pass[p].turn + 1 \in Nat /\ pass[p].sample \in SUBSET CaseIds
      BY <3>3 DEF PassRecords
    <3>5. pass'[p] \in PassRecords
      BY <3>2, <3>3, <3>4 DEF PassRecords
    <3> QED
      BY <2>1, <2>2, <3>1, <3>5 DEF PassTypes
  <2>4. \A q \in Passes : Running(q)' => PassTypes(q)'
    BY <1>0, <1>8, <2>3, OthersKeepTypes DEF NextGrader, NextTurn
  <2> QED
    BY <1>0, <1>8, <2>4 DEF NextGrader, NextTurn, OnDisk, TypeOK, FileTypes
\* A pass that leaves has no types to keep.
<1>l. ASSUME NEW p \in Passes, Leave(p) PROVE
        /\ DOMAIN pass' = Passes /\ loaded' \in [Passes -> SUBSET Graders]
        /\ pc' \in [Passes -> {"idle", "grade", "over"} \cup Asking]
        /\ \A q \in Passes : Running(q)' => PassTypes(q)'
  <2>1. \A q \in Passes \ {p} : pass'[q] = pass[q] /\ pc'[q] = pc[q]
    BY <1>0, <1>l DEF Leave
  <2>2. ~Running(p)'
    BY <1>0, <1>l DEF Leave, Running
  <2> QED
    BY <1>0, <1>l, <2>1, <2>2, OthersKeepTypes DEF Leave
<1>9. ASSUME NEW p \in Passes, Finish(p) PROVE TypeOK'
  <2>1. PassTypes(p)
    BY <1>0, <1>9 DEF Finish, Through, Running
  <2>2. /\ pass[p].labels \in [CaseIds -> PartialGrades] /\ pass[p].cases \in Stored
        /\ pass[p].at \in VersionsUsed /\ pass[p].version \in [Judges -> Versions]
    BY <2>1 DEF PassTypes, PassRecords, PartialGrades
  <2>3. \A i \in CaseIds : Regrade(pass[p].cases[i], pass[p].labels[i]) \in CaseResult
    BY <2>2, RegradeOfACase DEF Stored
  <2>4. stored' \in Stored
    BY <1>0, <1>9, <2>2, <2>3 DEF Finish, Stored, FileTypes
  <2>5. verdictsAt' \in VersionsUsed
    BY <1>0, <1>9, <2>2 DEF Finish, VersionsUsed, FileTypes, Stored
  <2> QED
    BY <1>0, <1>9, <1>l, <2>4, <2>5 DEF Finish, TypeOK, FileTypes
<1>10. ASSUME NEW p \in Passes, Abort(p) PROVE TypeOK'
  BY <1>0, <1>10, <1>l DEF Abort, TypeOK, FileTypes, files
<1>11. CASE UpdateSnapshot
  <2>1. \A q \in Passes : Running(q)' => PassTypes(q)'
    BY <1>0, <1>11 DEF UpdateSnapshot, PassTypes, Running
  <2> QED
    BY <1>0, <1>11, <2>1 DEF UpdateSnapshot, TypeOK, FileTypes, files
<1>12. CASE UNCHANGED vars
  BY <1>0, <1>12 DEF vars, files, TypeOK, FileTypes, PassTypes, Running
<1> QED
  BY <1>1, <1>2, <1>3, <1>4, <1>5, <1>6, <1>7, <1>8, <1>9, <1>10, <1>11, <1>12 DEF Next, Work

(***************************************************************************)
(* What is stored, cached and held in memory keeps its type, and a pass    *)
(* has a turn, a case to ask about and an answer whenever it uses one.     *)
(***************************************************************************)
THEOREM TypeCorrect == Spec => []TypeOK
<1>1. Init => TypeOK
  BY TypeInit
<1>2. TypeOK /\ [Next]_vars => TypeOK'
  BY TypeStep
<1> QED
  BY <1>1, <1>2, PTL DEF Spec

-----------------------------------------------------------------------------
Alone == serial => \A p, q \in Passes : Running(p) /\ Running(q) => p = q

\* Of the judges only the one at work holds a model.
OwnModel(p) == loaded[p] \cap Judges \subseteq {g \in Graders : Running(p) /\ g = Grader(p)}

ModelInv == TypeOK /\ Alone /\ \A p \in Passes : OwnModel(p)

LEMMA AloneStep == TypeOK /\ Alone /\ [Next]_vars => Alone'
<1> SUFFICES ASSUME TypeOK, Alone, [Next]_vars PROVE Alone'
  OBVIOUS
<1>0. pc \in [Passes -> {"idle", "grade", "over"} \cup Asking]
  BY DEF TypeOK
<1>1. ASSUME NEW p \in Passes, StartPass(p) PROVE Alone'
  BY <1>0, <1>1 DEF StartPass, Alone, Running
<1>2. ASSUME NEW p \in Passes, Work(p) \/ Abort(p) PROVE Alone'
  <2>1. Running(p) /\ serial' = serial /\ \A q \in Passes \ {p} : pc'[q] = pc[q]
    BY <1>0, <1>2 DEF Work, JudgeEmpty, JudgeHit, JudgeCall, PutOpen, PutWrite, GradeSemantic,
       NextGrader, Finish, Abort, Leave, Judging, Grading, Through, OnDisk, Running
  <2> QED
    BY <2>1 DEF Alone, Running
<1>3. CASE UpdateSnapshot
  BY <1>3 DEF UpdateSnapshot, Alone, Running
<1>4. CASE UNCHANGED vars
  BY <1>4 DEF vars, Alone, Running
<1> QED
  BY <1>1, <1>2, <1>3, <1>4 DEF Next

LEMMA ModelInit == Init => ModelInv
BY TypeInit DEF Init, ModelInv, Alone, OwnModel, Running

LEMMA ModelStep == ModelInv /\ [Next]_vars => ModelInv'
<1> SUFFICES ASSUME ModelInv, [Next]_vars, NEW q \in Passes PROVE OwnModel(q)'
  BY TypeStep, AloneStep DEF ModelInv
<1> USE MetricsAssumption DEF OwnModel
<1>0. /\ DOMAIN pass = Passes /\ loaded \in [Passes -> SUBSET Graders]
      /\ pc \in [Passes -> {"idle", "grade", "over"} \cup Asking]
      /\ \A p \in Passes : OwnModel(p)
      /\ \A p \in Passes : Running(p) => PassTypes(p)
  BY DEF TypeOK, ModelInv
\* A step that loads or releases nothing and leaves the turn alone.
<1>s. ASSUME loaded'[q] = loaded[q], Running(q) => Running(q)' /\ Grader(q)' = Grader(q)
      PROVE  OwnModel(q)'
  BY <1>0, <1>s DEF Running
\* A step of another pass.
<1>o. ASSUME NEW p \in Passes, p # q, pass'[q] = pass[q], pc'[q] = pc[q], loaded'[q] = loaded[q]
      PROVE  OwnModel(q)'
  BY <1>s, <1>o DEF Grader, Running
<1>1. ASSUME NEW p \in Passes, StartPass(p) PROVE OwnModel(q)'
  <2>1. CASE p = q
    BY <1>0, <1>1, <2>1 DEF StartPass, Running
  <2> QED
    BY <1>0, <1>1, <1>o, <2>1 DEF StartPass
\* Placing a label leaves the turn alone.
<1>p. ASSUME NEW p \in Passes, Running(p), pass[p].todo # {}, NEW label \in Labels,
             Place1(p, label)
      PROVE  Grader(p)' = Grader(p) /\ \A k \in Passes \ {p} : pass'[k] = pass[k]
  BY <1>0, <1>p, Placing, GraderIsAGrader DEF Grader
<1>2. ASSUME NEW p \in Passes, JudgeEmpty(p) PROVE OwnModel(q)'
  <2>1. Grader(p)' = Grader(p) /\ \A k \in Passes \ {p} : pass'[k] = pass[k]
    BY <1>2, <1>p DEF JudgeEmpty, Judging, Grading, Labels, Running
  <2> QED
    BY <1>2, <1>s, <1>o, <2>1 DEF JudgeEmpty, Running
<1>3. ASSUME NEW p \in Passes, JudgeHit(p) PROVE OwnModel(q)'
  <2>1. Grader(p)' = Grader(p) /\ \A k \in Passes \ {p} : pass'[k] = pass[k]
    BY <1>3, <1>p DEF JudgeHit, Judging, Grading, Running
  <2> QED
    BY <1>3, <1>s, <1>o, <2>1 DEF JudgeHit, Running
<1>4. ASSUME NEW p \in Passes, JudgeCall(p) PROVE OwnModel(q)'
  <2>1. Running(p) /\ PassTypes(p) /\ Grader(p) \in Judges
    BY <1>0, <1>4 DEF JudgeCall, Judging, Grading, Running
  <2>2. \A k \in Passes \ {p} : pass'[k] = pass[k] /\ pc'[k] = pc[k] /\ loaded'[k] = loaded[k]
    BY <1>0, <1>4 DEF JudgeCall
  <2>3. CASE p = q
    <3>1. Grader(p)' = Grader(p) /\ Running(p)'
      BY <1>0, <1>4, <2>1 DEF JudgeCall, Grader, PassTypes, PassRecords, Running
    <3>2. loaded'[p] = loaded[p] \cup {Grader(p)}
      BY <1>0, <1>4 DEF JudgeCall
    <3> QED
      BY <1>0, <2>1, <2>3, <3>1, <3>2 DEF Graders
  <2> QED
    BY <1>o, <2>2, <2>3
<1>5. ASSUME NEW p \in Passes, PutOpen(p) PROVE OwnModel(q)'
  <2>1. Grader(q)' = Grader(q) /\ loaded' = loaded /\ (Running(q) => Running(q)')
    BY <1>0, <1>5 DEF PutOpen, Grader, Running
  <2> QED
    BY <1>s, <2>1
<1>6. ASSUME NEW p \in Passes, PutWrite(p) PROVE OwnModel(q)'
  <2>1. Running(p) /\ PassTypes(p) /\ pass[p].todo # {} /\ pass[p].answer \in Labels
    BY <1>0, <1>6 DEF PutWrite, Running, PassTypes, Asking
  <2>2. Grader(p)' = Grader(p) /\ \A k \in Passes \ {p} : pass'[k] = pass[k]
    BY <1>6, <1>p, <2>1 DEF PutWrite
  <2>3. loaded' = loaded /\ Running(p)' /\ \A k \in Passes \ {p} : pc'[k] = pc[k]
    BY <1>0, <1>6 DEF PutWrite, Running
  <2> QED
    BY <1>s, <1>o, <2>2, <2>3
<1>7. ASSUME NEW p \in Passes, GradeSemantic(p) PROVE OwnModel(q)'
  <2>1. Running(p) /\ Grader(p) \notin Judges
    BY <1>7 DEF GradeSemantic, Grading, Running
  <2>2. Grader(p)' = Grader(p) /\ \A k \in Passes \ {p} : pass'[k] = pass[k]
    BY <1>7, <1>p DEF GradeSemantic, Grading, Labels, Running
  <2>3. CASE p = q
    <3>1. loaded'[p] \cap Judges = loaded[p] \cap Judges /\ Running(p)'
      BY <1>0, <1>7, <2>1 DEF GradeSemantic, Running
    <3> QED
      BY <1>0, <2>1, <2>2, <2>3, <3>1
  <2> QED
    BY <1>0, <1>7, <1>o, <2>2, <2>3 DEF GradeSemantic
<1>8. ASSUME NEW p \in Passes, NextGrader(p) PROVE OwnModel(q)'
  <2>1. CASE p = q
    BY <1>0, <1>8, <2>1 DEF NextGrader, Through, Running
  <2> QED
    BY <1>0, <1>8, <1>o, <2>1 DEF NextGrader, NextTurn
<1>9. ASSUME NEW p \in Passes, Leave(p) PROVE OwnModel(q)'
  <2>1. CASE p = q
    BY <1>0, <1>9, <2>1 DEF Leave
  <2> QED
    BY <1>0, <1>9, <1>o, <2>1 DEF Leave
<1>10. CASE UpdateSnapshot
  BY <1>0, <1>10 DEF UpdateSnapshot, Grader, Running
<1>11. CASE UNCHANGED vars
  BY <1>0, <1>11 DEF vars, Grader, Running
<1> QED
  BY <1>1, <1>2, <1>3, <1>4, <1>5, <1>6, <1>7, <1>8, <1>9, <1>10, <1>11
  DEF Next, Work, Finish, Abort

LEMMA AtMostOneMember ==
  ASSUME NEW S, \A x, y \in S : x = y PROVE Cardinality(S) <= 1
<1>1. CASE S = {}
  BY <1>1, FS_EmptySet
<1>2. CASE S # {}
  <2>1. PICK x \in S : S = {x}
    BY <1>2
  <2> QED
    BY <2>1, FS_Singleton
<1> QED
  BY <1>1, <1>2

(***************************************************************************)
(* A pass never holds the models of two judges, nor does the machine where *)
(* passes run one after another, however judges, caches and crashes        *)
(* follow each other (judge_pass.py:141-144).                              *)
(***************************************************************************)
THEOREM OneJudgeAtATime == Spec => []OneJudgeResident
<1>1. Init => ModelInv
  BY ModelInit
<1>2. ModelInv /\ [Next]_vars => ModelInv'
  BY ModelStep
<1>3. ModelInv => OneJudgeResident
  <2> SUFFICES ASSUME ModelInv PROVE OneJudgeResident
    OBVIOUS
  <2>1. ASSUME NEW p \in Passes PROVE Cardinality(loaded[p] \cap Judges) <= 1
    BY AtMostOneMember DEF ModelInv, OwnModel
  <2>2. ASSUME serial PROVE Cardinality(Loaded \cap Judges) <= 1
    <3>1. \A x, y \in Loaded \cap Judges : x = y
      <4>0. \A p \in Passes : \A x \in loaded[p] \cap Judges : Running(p) /\ x = Grader(p)
        BY DEF ModelInv, OwnModel
      <4>1. \A x \in Loaded \cap Judges :
              \E p \in Passes : Running(p) /\ x = Grader(p)
        BY <4>0 DEF Loaded
      <4>2. \A p, q \in Passes : Running(p) /\ Running(q) => p = q
        BY <2>2 DEF ModelInv, Alone
      <4> QED
        BY <4>1, <4>2
    <3> QED
      BY <3>1, AtMostOneMember
  <2> QED
    BY <2>1, <2>2 DEF OneJudgeResident
<1> QED
  BY <1>1, <1>2, <1>3, PTL DEF Spec

-----------------------------------------------------------------------------
Rests(key, label) == WasGiven(key, label) /\ (serial => IsCached(key, label))

Vouched(cases, at) ==
  \A i \in CaseIds, j \in Judges :
    cases[i].grades[j] # "absent" => Rests(<<j, i, at[i][j]>>, cases[i].grades[j])

PassVouched(p) ==
  /\ Vouched(pass[p].cases, pass[p].at)
  /\ \A i \in CaseIds, j \in Judges :
       j \in DOMAIN pass[p].labels[i] =>
         Rests(<<j, i, pass[p].version[j]>>, pass[p].labels[i][j])

\* Between the answer and the write the entry is no hit to lose.
AskedFor(p) ==
  pc[p] \in Asking =>
    /\ Grader(p) \in Judges /\ Case(p) \notin EmptyAnswer
    /\ Contains(given[Key(p)], pass[p].answer)
    /\ serial => cache[Key(p)] \notin Labels

HitsGiven == \A k \in Keys : cache[k] \in Labels => Contains(given[k], cache[k])

Evidence ==
  /\ TypeOK /\ Alone /\ HitsGiven
  /\ Vouched(stored, verdictsAt)
  /\ \A p \in Passes : AskedFor(p) /\ (Running(p) => PassVouched(p))

LEMMA ContainsMore ==
  ASSUME NEW s \in Seq(Labels), NEW l \in Labels
  PROVE  /\ Contains(Append(s, l), l)
         /\ \A m : Contains(s, m) => Contains(Append(s, l), m)
BY AppendProperties DEF Contains

LEMMA AskingTypes ==
  ASSUME TypeOK, NEW p \in Passes, AskedFor(p), pc[p] \in Asking
  PROVE  PassTypes(p) /\ Key(p) \in Keys /\ pass[p].answer \in Labels
BY KeyIsAKey DEF TypeOK, PassTypes, AskedFor, Running, Asking

LEMMA JudgingTypes ==
  ASSUME TypeOK, NEW p \in Passes, Judging(p)
  PROVE  PassTypes(p) /\ Key(p) \in Keys /\ pass[p].todo # {}
BY KeyIsAKey DEF TypeOK, Judging, Grading, Running

\* No answer is forgotten.
LEMMA AnswersStay ==
  ASSUME TypeOK, [Next]_vars
  PROVE  \A k \in Keys : \A l : Contains(given[k], l) => Contains(given'[k], l)
<1>1. given \in [Keys -> Seq(Labels)]
  BY DEF TypeOK, FileTypes
<1>2. ASSUME NEW p \in Passes, JudgeCall(p)
      PROVE  \A k \in Keys : \A l : Contains(given[k], l) => Contains(given'[k], l)
  <2>1. Key(p) \in Keys
    BY <1>2, JudgingTypes DEF JudgeCall
  <2>2. PICK label \in Labels : given' = [given EXCEPT ![Key(p)] = Append(given[Key(p)], label)]
    BY <1>2 DEF JudgeCall
  <2> QED
    BY <1>1, <2>1, <2>2, ContainsMore
<1>3. given' = given \/ \E p \in Passes : JudgeCall(p)
  BY DEF Next, Work, StartPass, JudgeEmpty, JudgeHit, PutOpen, PutWrite, GradeSemantic,
     NextGrader, Finish, Abort, UpdateSnapshot, vars
<1> QED
  BY <1>2, <1>3

\* A serial pass leaves the hits alone.
LEMMA HitsStay ==
  ASSUME TypeOK, \A p \in Passes : AskedFor(p), [Next]_vars
  PROVE  serial' = serial /\ (serial => \A k \in Keys : cache[k] \in Labels => cache'[k] = cache[k])
<1>1. serial' = serial
  BY DEF Next, Work, StartPass, JudgeEmpty, JudgeHit, JudgeCall, PutOpen, PutWrite,
     GradeSemantic, NextGrader, Finish, Abort, UpdateSnapshot, vars, OnDisk
<1>2. cache \in [Keys -> Entries]
  BY DEF TypeOK, FileTypes
<1>3. ASSUME NEW p \in Passes, PutOpen(p) \/ PutWrite(p), serial, NEW k \in Keys,
             cache[k] \in Labels
      PROVE  cache'[k] = cache[k]
  <2>1. Key(p) \in Keys /\ cache[Key(p)] \notin Labels
    BY <1>3, AskingTypes DEF PutOpen, PutWrite, AskedFor, Asking
  <2> QED
    BY <1>2, <1>3, <2>1 DEF PutOpen, PutWrite
<1>4. cache' = cache \/ \E p \in Passes : PutOpen(p) \/ PutWrite(p)
  BY DEF Next, Work, StartPass, JudgeEmpty, JudgeHit, JudgeCall, GradeSemantic,
     NextGrader, Finish, Abort, UpdateSnapshot, vars, files
<1> QED
  BY <1>1, <1>3, <1>4

\* So what a label rests on stays.
LEMMA RestsStay ==
  ASSUME TypeOK, \A p \in Passes : AskedFor(p), [Next]_vars
  PROVE  \A k \in Keys, l \in Labels : Rests(k, l) => Rests(k, l)'
<1>1. \A k \in Keys : \A l : Contains(given[k], l) => Contains(given'[k], l)
  BY AnswersStay
<1>2. serial' = serial /\ (serial => \A k \in Keys : cache[k] \in Labels => cache'[k] = cache[k])
  BY HitsStay
<1> SUFFICES ASSUME NEW k \in Keys, NEW l \in Labels, Rests(k, l) PROVE Rests(k, l)'
  OBVIOUS
<1>3. WasGiven(k, l)'
  BY <1>1 DEF Rests, WasGiven
<1>4. serial' => IsCached(k, l)'
  BY <1>2 DEF Rests, IsCached
<1> QED
  BY <1>3, <1>4 DEF Rests

LEMMA EvidenceInit == Init => Evidence
<1> SUFFICES ASSUME Init PROVE Evidence
  OBVIOUS
<1>1. \A i \in CaseIds, j \in Judges : stored[i].grades[j] = "absent"
  BY DEF Init, NewCase, Ungraded, CaseIds, Graders
<1>2. HitsGiven /\ Vouched(stored, verdictsAt)
  BY <1>1 DEF Init, HitsGiven, Vouched, Labels
<1> QED
  BY <1>2, TypeInit DEF Init, Evidence, Alone, AskedFor, Asking, Running

LEMMA EvidenceStep == Evidence /\ [Next]_vars => Evidence'
<1> SUFFICES ASSUME Evidence, [Next]_vars PROVE Evidence'
  OBVIOUS
<1> USE DEF Asking
<1>0. /\ TypeOK /\ HitsGiven /\ Vouched(stored, verdictsAt)
      /\ \A p \in Passes : AskedFor(p)
      /\ \A p \in Passes : Running(p) => PassTypes(p) /\ PassVouched(p)
      /\ DOMAIN pass = Passes /\ pc \in [Passes -> {"idle", "grade", "over"} \cup Asking]
      /\ cache \in [Keys -> Entries] /\ given \in [Keys -> Seq(Labels)]
      /\ stored \in Stored /\ verdictsAt \in VersionsUsed
  BY DEF Evidence, TypeOK, FileTypes
<1>t. TypeOK' /\ Alone'
  BY TypeStep, AloneStep DEF Evidence
<1>r. \A k \in Keys, l \in Labels : Rests(k, l) => Rests(k, l)'
  BY <1>0, RestsStay
\* The labels of a record that is not touched still rest on something.
<1>v. ASSUME NEW q \in Passes, Running(q), pass'[q].cases = pass[q].cases,
             pass'[q].at = pass[q].at
      PROVE  Vouched(pass[q].cases, pass[q].at)'
  <2> SUFFICES ASSUME NEW i \in CaseIds, NEW j \in Judges,
                      pass'[q].cases[i].grades[j] # "absent"
               PROVE  Rests(<<j, i, pass[q].at[i][j]>>, pass[q].cases[i].grades[j])'
    BY DEF Vouched
  <2>0. pass[q].at \in VersionsUsed
    BY <1>0, <1>v DEF PassTypes, PassRecords
  <2>1. PICK k \in Keys : k = <<j, i, pass[q].at[i][j]>>
    BY <2>0 DEF VersionsUsed, Keys, CaseIds
  <2>2. PICK l \in Labels : l = pass[q].cases[i].grades[j]
    BY <1>0, <1>v DEF PassTypes, PassRecords, Stored, CaseResult, GradeLabels, Graders
  <2>3. Rests(k, l)
    BY <1>0, <1>v, <2>1, <2>2 DEF PassVouched, Vouched
  <2>4. Rests(k, l)'
    BY <1>r, <2>3
  <2> QED
    BY <1>v, <2>1, <2>2, <2>4 DEF Rests, WasGiven, IsCached
\* So do the labels a pass holds, on the same record and at the same versions.
<1>l. ASSUME NEW q \in Passes, Running(q), pass'[q].version = pass[q].version,
             NEW i \in CaseIds, NEW j \in Judges, j \in DOMAIN pass[q].labels[i],
             j \in DOMAIN pass'[q].labels[i], pass'[q].labels[i][j] = pass[q].labels[i][j]
      PROVE  Rests(<<j, i, pass[q].version[j]>>, pass[q].labels[i][j])'
  <2>0. pass[q].version \in [Judges -> Versions] /\ pass[q].labels \in [CaseIds -> PartialGrades]
    BY <1>0, <1>l DEF PassTypes, PassRecords, PartialGrades
  <2>1. PICK k \in Keys : k = <<j, i, pass[q].version[j]>>
    BY <2>0 DEF Keys, CaseIds
  <2>2. PICK l \in Labels : l = pass[q].labels[i][j]
    BY <1>l, <2>0 DEF PartialGrades
  <2>3. Rests(k, l)
    BY <1>0, <1>l, <2>1, <2>2 DEF PassVouched
  <2>4. Rests(k, l)'
    BY <1>r, <2>3
  <2> QED
    BY <1>l, <2>1, <2>2, <2>4 DEF Rests, WasGiven, IsCached
<1>k. ASSUME NEW q \in Passes, Running(q), pass'[q].cases = pass[q].cases,
             pass'[q].at = pass[q].at, pass'[q].version = pass[q].version,
             pass'[q].labels = pass[q].labels
      PROVE  PassVouched(q)'
  BY <1>k, <1>v, <1>l DEF PassVouched
\* The record on disk, where a step leaves it alone.
<1>d. ASSUME stored' = stored, verdictsAt' = verdictsAt PROVE Vouched(stored, verdictsAt)'
  <2> SUFFICES ASSUME NEW i \in CaseIds, NEW j \in Judges, stored'[i].grades[j] # "absent"
               PROVE  Rests(<<j, i, verdictsAt[i][j]>>, stored[i].grades[j])'
    BY DEF Vouched
  <2>1. PICK k \in Keys : k = <<j, i, verdictsAt[i][j]>>
    BY <1>0 DEF VersionsUsed, Keys, CaseIds
  <2>2. PICK l \in Labels : l = stored[i].grades[j]
    BY <1>0, <1>d DEF Stored, CaseResult, GradeLabels, Graders
  <2>3. Rests(k, l)
    BY <1>0, <1>d, <2>1, <2>2 DEF Vouched
  <2>4. Rests(k, l)'
    BY <1>r, <2>3
  <2> QED
    BY <1>d, <2>1, <2>2, <2>4 DEF Rests, WasGiven, IsCached
\* A label is placed with something to rest on.
<1>p. ASSUME NEW p \in Passes, Running(p), pass[p].todo # {}, NEW label \in Labels,
             Place1(p, label),
             Grader(p) \in Judges => \E k \in Keys : k = Key(p) /\ Rests(k, label)'
      PROVE  PassVouched(p)' /\ \A q \in Passes \ {p} : pass'[q] = pass[q]
  <2>1. /\ pass'[p].version = pass[p].version
        /\ pass'[p].cases = pass[p].cases /\ pass'[p].at = pass[p].at
        /\ Case(p) \in pass[p].todo
        /\ \A i \in CaseIds \ {Case(p)} : pass'[p].labels[i] = pass[p].labels[i]
        /\ DOMAIN pass'[p].labels[Case(p)] = DOMAIN pass[p].labels[Case(p)] \cup {Grader(p)}
        /\ \A g \in DOMAIN pass'[p].labels[Case(p)] :
             pass'[p].labels[Case(p)][g] =
               IF g = Grader(p) THEN label ELSE pass[p].labels[Case(p)][g]
        /\ \A q \in Passes \ {p} : pass'[q] = pass[q]
    BY <1>0, <1>p, Placing, GraderIsAGrader
  <2>2. Vouched(pass[p].cases, pass[p].at)'
    BY <1>p, <1>v, <2>1
  <2>3. ASSUME NEW i \in CaseIds, NEW j \in Judges, j \in DOMAIN pass'[p].labels[i]
        PROVE  Rests(<<j, i, pass[p].version[j]>>, pass[p].labels[i][j])'
    <3>1. CASE i = Case(p) /\ j = Grader(p)
      <4>1. PICK k \in Keys : k = <<j, i, pass[p].version[j]>> /\ Rests(k, label)'
        BY <1>p, <3>1 DEF Key
      <4>2. pass'[p].labels[i][j] = label
        BY <2>1, <2>3, <3>1
      <4> QED
        BY <2>1, <4>1, <4>2 DEF Rests, WasGiven, IsCached
    <3>2. CASE ~(i = Case(p) /\ j = Grader(p))
      <4>1. j \in DOMAIN pass[p].labels[i] /\ pass'[p].labels[i][j] = pass[p].labels[i][j]
        BY <2>1, <2>3, <3>2
      <4> QED
        BY <1>p, <1>l, <2>1, <2>3, <4>1
    <3> QED
      BY <3>1, <3>2
  <2> QED
    BY <2>1, <2>2, <2>3 DEF PassVouched
\* The passes a step leaves alone.
<1>o. ASSUME NEW p \in Passes, NEW q \in Passes, q # p, pass'[q] = pass[q], pc'[q] = pc[q]
      PROVE  Running(q)' => PassVouched(q)'
  BY <1>k, <1>o DEF Running
\* What a pass asked about stays asked, while nobody else writes to its key.
<1>a. ASSUME NEW q \in Passes, pc[q] \in Asking, pc'[q] \in Asking,
             pass'[q] = pass[q], serial => cache'[Key(q)] = cache[Key(q)]
      PROVE  AskedFor(q)'
  <2>1. Key(q) \in Keys
    BY <1>0, <1>a, AskingTypes
  <2>2. Contains(given'[Key(q)], pass[q].answer)
    BY <1>0, <1>a, <2>1, AnswersStay DEF AskedFor
  <2>3. serial' = serial
    BY <1>0, HitsStay
  <2>4. Grader(q)' = Grader(q) /\ Case(q)' = Case(q) /\ Key(q)' = Key(q)
    BY <1>a DEF Grader, Case, Key
  <2> QED
    BY <1>0, <1>a, <2>2, <2>3, <2>4 DEF AskedFor
\* Beside a pass that is at work, and alone if it is serial, nobody asks.
<1>b. ASSUME NEW p \in Passes, Running(p), NEW q \in Passes, q # p, pass'[q] = pass[q],
             pc'[q] = pc[q]
      PROVE  AskedFor(q)'
  <2>1. CASE serial
    <3>1. ~Running(q)
      BY <1>b, <2>1 DEF Evidence, Alone
    <3> QED
      BY <1>b, <3>1 DEF AskedFor, Running
  <2>2. CASE ~serial
    <3>1. CASE pc[q] \in Asking
      BY <1>a, <1>b, <2>2, <3>1
    <3>2. CASE pc[q] \notin Asking
      BY <1>b, <3>2 DEF AskedFor
    <3> QED
      BY <3>1, <3>2
  <2> QED
    BY <2>1, <2>2
<1>h. ASSUME cache' = cache PROVE HitsGiven'
  BY <1>0, <1>h, AnswersStay DEF HitsGiven
\* A step of p that leaves the entries and the record on disk alone and asks nothing.
<1>q. ASSUME NEW p \in Passes, Running(p), UNCHANGED <<cache, stored, verdictsAt>>,
             pc'[p] \notin Asking, Running(p)' => PassVouched(p)',
             \A q \in Passes \ {p} : pass'[q] = pass[q] /\ pc'[q] = pc[q]
      PROVE  Evidence'
  <2>1. AskedFor(p)'
    BY <1>q DEF AskedFor
  <2>2. \A q \in Passes : AskedFor(q)' /\ (Running(q)' => PassVouched(q)')
    BY <1>b, <1>o, <1>q, <2>1
  <2> QED
    BY <1>d, <1>h, <1>q, <1>t, <2>2 DEF Evidence
<1>1. ASSUME NEW p \in Passes, StartPass(p) PROVE Evidence'
  <2>1. /\ pass'[p].cases = stored /\ pass'[p].at = verdictsAt
        /\ \A i \in CaseIds : DOMAIN pass'[p].labels[i] = {}
    BY <1>0, <1>1 DEF StartPass, NoLabels, CaseIds
  <2>2. Vouched(stored, verdictsAt)' /\ stored' = stored /\ verdictsAt' = verdictsAt
    BY <1>1, <1>d DEF StartPass, files
  <2>3. PassVouched(p)'
    BY <2>1, <2>2 DEF PassVouched, Vouched
  <2>4. \A q \in Passes \ {p} : pass'[q] = pass[q] /\ pc'[q] = pc[q]
    BY <1>0, <1>1 DEF StartPass
  <2>5. cache' = cache /\ pc'[p] = "grade"
    BY <1>0, <1>1 DEF StartPass, files
  <2>6. \A q \in Passes : AskedFor(q)'
    BY <1>a, <2>4, <2>5 DEF AskedFor
  <2> QED
    BY <1>h, <1>o, <1>t, <2>2, <2>3, <2>4, <2>5, <2>6 DEF Evidence
<1>2. ASSUME NEW p \in Passes, JudgeEmpty(p) PROVE Evidence'
  <2>1. /\ Running(p) /\ pass[p].todo # {} /\ Place1(p, "unknown") /\ Case(p) \in EmptyAnswer
        /\ pc[p] = "grade" /\ pc' = pc /\ UNCHANGED <<cache, stored, verdictsAt>>
    BY <1>2 DEF JudgeEmpty, Judging, Grading, Running, OnDisk
  <2>2. PICK k \in Keys : k = Key(p)
    BY <1>0, <1>2, JudgingTypes DEF JudgeEmpty
  <2>3. k[2] \in EmptyAnswer
    BY <2>1, <2>2 DEF Key
  <2>4. Rests(k, "unknown")'
    BY <2>3 DEF Rests, WasGiven, IsCached
  <2>5. PassVouched(p)' /\ \A q \in Passes \ {p} : pass'[q] = pass[q]
    BY <1>p, <2>1, <2>2, <2>4 DEF Labels
  <2> QED
    BY <1>q, <2>1, <2>5
<1>3. ASSUME NEW p \in Passes, JudgeHit(p) PROVE Evidence'
  <2>1. /\ Running(p) /\ pass[p].todo # {} /\ Place1(p, cache[Key(p)]) /\ Case(p) \notin EmptyAnswer
        /\ cache[Key(p)] \in Labels
        /\ pc[p] = "grade" /\ pc' = pc /\ UNCHANGED <<cache, stored, verdictsAt>>
    BY <1>3 DEF JudgeHit, Judging, Grading, Running, OnDisk
  <2>2. PICK k \in Keys : k = Key(p)
    BY <1>0, <1>3, JudgingTypes DEF JudgeHit
  <2>3. PICK l \in Labels : l = cache[k]
    BY <2>1, <2>2
  <2>4. k[2] \notin EmptyAnswer
    BY <2>1, <2>2 DEF Key
  <2>5. Rests(k, l)
    BY <1>0, <2>3, <2>4 DEF Rests, WasGiven, IsCached, HitsGiven
  <2>6. Rests(k, l)'
    BY <1>r, <2>5
  <2>7. PassVouched(p)' /\ \A q \in Passes \ {p} : pass'[q] = pass[q]
    BY <1>p, <2>1, <2>2, <2>3, <2>6
  <2> QED
    BY <1>q, <2>1, <2>7
<1>4. ASSUME NEW p \in Passes, JudgeCall(p) PROVE Evidence'
  <2>1. /\ Running(p) /\ Grader(p) \in Judges /\ Case(p) \notin EmptyAnswer
        /\ cache[Key(p)] \notin Labels /\ UNCHANGED <<cache, stored, verdictsAt>>
        /\ PassTypes(p) /\ Key(p) \in Keys /\ pass[p].todo # {}
    BY <1>0, <1>4, JudgingTypes DEF JudgeCall, Judging, Grading, Running, OnDisk
  <2>2. PICK label \in Labels :
          /\ given' = [given EXCEPT ![Key(p)] = Append(given[Key(p)], label)]
          /\ pass' = [pass EXCEPT ![p] = [pass[p] EXCEPT !.answer = label]]
    BY <1>4 DEF JudgeCall
  <2>3. /\ pass'[p].answer = label /\ pass'[p].graders = pass[p].graders
        /\ pass'[p].turn = pass[p].turn /\ pass'[p].todo = pass[p].todo
        /\ pass'[p].version = pass[p].version /\ pass'[p].labels = pass[p].labels
        /\ pass'[p].cases = pass[p].cases /\ pass'[p].at = pass[p].at
    BY <1>0, <2>1, <2>2 DEF PassTypes, PassRecords
  <2>4. Grader(p)' = Grader(p) /\ Case(p)' = Case(p) /\ Key(p)' = Key(p)
    BY <2>3 DEF Grader, Case, Key
  <2>5. Contains(given'[Key(p)], label)
    BY <1>0, <2>1, <2>2, ContainsMore
  <2>6. AskedFor(p)'
    BY <2>1, <2>3, <2>4, <2>5 DEF AskedFor
  <2>7. PassVouched(p)'
    BY <1>k, <2>1, <2>3
  <2>8. \A q \in Passes \ {p} : pass'[q] = pass[q] /\ pc'[q] = pc[q]
    BY <1>0, <1>4, <2>2 DEF JudgeCall
  <2>9. \A q \in Passes : AskedFor(q)' /\ (Running(q)' => PassVouched(q)')
    BY <1>b, <1>o, <2>1, <2>6, <2>7, <2>8
  <2> QED
    BY <1>d, <1>h, <1>t, <2>1, <2>9 DEF Evidence
<1>5. ASSUME NEW p \in Passes, PutOpen(p) PROVE Evidence'
  <2>1. /\ Running(p) /\ pc[p] = "put" /\ pc'[p] = "putting" /\ pass' = pass
        /\ Key(p) \in Keys /\ cache' = [cache EXCEPT ![Key(p)] = "torn"]
        /\ UNCHANGED <<stored, verdictsAt>> /\ \A q \in Passes \ {p} : pc'[q] = pc[q]
    BY <1>0, <1>5, AskingTypes DEF PutOpen, OnDisk, Running
  <2>2. AskedFor(p)'
    <3>1. Contains(given'[Key(p)], pass[p].answer)
      BY <1>0, <2>1, AnswersStay DEF AskedFor
    <3>2. cache'[Key(p)] \notin Labels
      BY <1>0, <2>1 DEF Labels
    <3>3. Grader(p)' = Grader(p) /\ Case(p)' = Case(p) /\ Key(p)' = Key(p)
      BY <2>1 DEF Grader, Case, Key
    <3> QED
      BY <1>0, <2>1, <3>1, <3>2, <3>3 DEF AskedFor
  <2>3. HitsGiven'
    BY <1>0, <2>1, AnswersStay DEF HitsGiven, Labels
  <2>4. PassVouched(p)'
    BY <1>k, <2>1
  <2>5. \A q \in Passes : AskedFor(q)' /\ (Running(q)' => PassVouched(q)')
    BY <1>b, <1>o, <2>1, <2>2, <2>4
  <2> QED
    BY <1>d, <1>t, <2>1, <2>3, <2>5 DEF Evidence
<1>6. ASSUME NEW p \in Passes, PutWrite(p) PROVE Evidence'
  <2>1. /\ Running(p) /\ pc[p] = "putting" /\ pc'[p] = "grade" /\ Place1(p, pass[p].answer)
        /\ UNCHANGED <<stored, verdictsAt, given>> /\ \A q \in Passes \ {p} : pc'[q] = pc[q]
    BY <1>0, <1>6 DEF PutWrite, OnDisk, Running
  <2>2. /\ Grader(p) \in Judges /\ Case(p) \notin EmptyAnswer /\ pass[p].todo # {}
        /\ Contains(given[Key(p)], pass[p].answer)
        /\ serial => cache[Key(p)] \notin Labels
        /\ Key(p) \in Keys /\ pass[p].answer \in Labels
    BY <1>0, <2>1, AskingTypes DEF AskedFor, PassTypes
  <2>3. PICK k \in Keys : k = Key(p)
    BY <2>2
  <2>4. PICK l \in Labels : l = pass[p].answer
    BY <2>2
  <2>5. PICK entry \in {l} \cup {e \in {"torn"} : cache[k] \in Labels} :
          cache' = [cache EXCEPT ![k] = entry]
    BY <1>6, <2>3, <2>4 DEF PutWrite
  <2>6. serial => cache'[k] = l
    BY <1>0, <2>2, <2>3, <2>5
  <2>7. Rests(k, l)'
    <3>1. k[2] \notin EmptyAnswer
      BY <2>2, <2>3 DEF Key
    <3>2. Contains(given'[k], l) /\ serial' = serial
      BY <1>0, <2>1, <2>2, <2>3, <2>4, HitsStay
    <3> QED
      BY <2>6, <3>1, <3>2 DEF Rests, WasGiven, IsCached
  <2>8. PassVouched(p)' /\ \A q \in Passes \ {p} : pass'[q] = pass[q]
    BY <1>p, <2>1, <2>2, <2>3, <2>4, <2>7
  <2>9. HitsGiven'
    BY <1>0, <2>1, <2>2, <2>3, <2>4, <2>5 DEF HitsGiven, Labels
  <2>10. AskedFor(p)'
    BY <2>1 DEF AskedFor
  <2>11. \A q \in Passes : AskedFor(q)' /\ (Running(q)' => PassVouched(q)')
    BY <1>b, <1>o, <2>1, <2>8, <2>10
  <2> QED
    BY <1>d, <1>t, <2>1, <2>9, <2>11 DEF Evidence
<1>7. ASSUME NEW p \in Passes, GradeSemantic(p) PROVE Evidence'
  <2>1. /\ Running(p) /\ pass[p].todo # {} /\ Grader(p) \notin Judges
        /\ pc[p] = "grade" /\ pc' = pc /\ UNCHANGED <<cache, stored, verdictsAt>>
    BY <1>7, MetricsAssumption DEF GradeSemantic, Grading, Running, OnDisk
  <2>2. PassVouched(p)' /\ \A q \in Passes \ {p} : pass'[q] = pass[q]
    BY <1>7, <1>p, <2>1 DEF GradeSemantic, Labels
  <2> QED
    BY <1>q, <2>1, <2>2
<1>8. ASSUME NEW p \in Passes, NextGrader(p) PROVE Evidence'
  <2>1. /\ Running(p) /\ PassTypes(p) /\ pc[p] = "grade" /\ pc' = pc
        /\ UNCHANGED <<cache, stored, verdictsAt>>
    BY <1>0, <1>8 DEF NextGrader, Through, Running, OnDisk
  <2>2. /\ pass'[p].version = pass[p].version /\ pass'[p].labels = pass[p].labels
        /\ pass'[p].cases = pass[p].cases /\ pass'[p].at = pass[p].at
        /\ \A q \in Passes \ {p} : pass'[q] = pass[q]
    BY <1>0, <1>8, <2>1 DEF NextGrader, NextTurn, PassTypes, PassRecords
  <2>3. PassVouched(p)'
    BY <1>k, <2>1, <2>2
  <2> QED
    BY <1>q, <2>1, <2>2, <2>3
<1>9. ASSUME NEW p \in Passes, Finish(p) PROVE Evidence'
  <2>1. /\ Running(p) /\ ~Running(p)' /\ pc'[p] = "over" /\ cache' = cache /\ PassTypes(p)
        /\ \A q \in Passes \ {p} : pass'[q] = pass[q] /\ pc'[q] = pc[q]
    BY <1>0, <1>9 DEF Finish, Through, Leave, Running
  <2>2. /\ pass[p].labels \in [CaseIds -> PartialGrades] /\ pass[p].cases \in Stored
        /\ pass[p].at \in VersionsUsed /\ pass[p].version \in [Judges -> Versions]
        /\ \A i \in CaseIds \ pass[p].sample : DOMAIN pass[p].labels[i] = {}
    BY <2>1 DEF PassTypes, PassRecords, PartialGrades
  <2>3. ASSUME NEW i \in CaseIds, NEW j \in Judges
        PROVE  stored'[i].grades[j] = IF j \in DOMAIN pass[p].labels[i] THEN pass[p].labels[i][j]
                                      ELSE pass[p].cases[i].grades[j]
    <3>1. pass[p].cases[i] \in CaseResult /\ pass[p].labels[i] \in PartialGrades
      BY <2>2 DEF Stored
    <3>2. stored'[i] = IF i \in pass[p].sample
                       THEN Regrade(pass[p].cases[i], pass[p].labels[i]) ELSE pass[p].cases[i]
      BY <1>0, <1>9 DEF Finish, Stored
    <3>3. CASE i \in pass[p].sample
      <4>1. Regrade(pass[p].cases[i], pass[p].labels[i]).grades =
              [g \in Graders |-> IF g \in DOMAIN pass[p].labels[i] THEN pass[p].labels[i][g]
                               ELSE pass[p].cases[i].grades[g]]
        BY <3>1, RegradeOfACase
      <4>2. j \in Graders
        BY DEF Graders
      <4> QED
        BY <3>2, <3>3, <4>1, <4>2
    <3>4. CASE i \notin pass[p].sample
      BY <2>2, <3>2, <3>4
    <3> QED
      BY <3>3, <3>4
  <2>4. ASSUME NEW i \in CaseIds, NEW j \in Judges
        PROVE  verdictsAt'[i][j] = IF j \in DOMAIN pass[p].labels[i] THEN pass[p].version[j]
                                   ELSE pass[p].at[i][j]
    BY <1>0, <1>9 DEF Finish, Stored
  <2>5. Vouched(stored, verdictsAt)'
    <3> SUFFICES ASSUME NEW i \in CaseIds, NEW j \in Judges, stored'[i].grades[j] # "absent"
                 PROVE  Rests(<<j, i, verdictsAt[i][j]>>, stored[i].grades[j])'
      BY DEF Vouched
    <3>1. stored' \in Stored /\ verdictsAt' \in VersionsUsed
      BY <1>t DEF TypeOK, FileTypes
    <3>2. PICK k \in Keys : k = <<j, i, verdictsAt'[i][j]>>
      BY <3>1 DEF VersionsUsed, Keys, CaseIds
    <3>3. PICK l \in Labels : l = stored'[i].grades[j]
      BY <3>1 DEF Stored, CaseResult, GradeLabels, Graders
    <3>4. CASE j \in DOMAIN pass[p].labels[i]
      <4>1. k = <<j, i, pass[p].version[j]>> /\ l = pass[p].labels[i][j]
        BY <2>3, <2>4, <3>2, <3>3, <3>4
      <4>2. Rests(k, l)
        BY <1>0, <2>1, <3>4, <4>1 DEF PassVouched
      <4>3. Rests(k, l)'
        BY <1>r, <4>2
      <4> QED
        BY <3>2, <3>3, <4>3 DEF Rests, WasGiven, IsCached
    <3>5. CASE j \notin DOMAIN pass[p].labels[i]
      <4>1. /\ k = <<j, i, pass[p].at[i][j]>> /\ l = pass[p].cases[i].grades[j]
            /\ pass[p].cases[i].grades[j] # "absent"
        BY <2>3, <2>4, <3>2, <3>3, <3>5
      <4>2. Rests(k, l)
        BY <1>0, <2>1, <4>1 DEF PassVouched, Vouched
      <4>3. Rests(k, l)'
        BY <1>r, <4>2
      <4> QED
        BY <3>2, <3>3, <4>3 DEF Rests, WasGiven, IsCached
    <3> QED
      BY <3>4, <3>5
  <2>6. \A q \in Passes : AskedFor(q)' /\ (Running(q)' => PassVouched(q)')
    BY <1>b, <1>o, <2>1 DEF AskedFor
  <2> QED
    BY <1>h, <1>t, <2>1, <2>5, <2>6 DEF Evidence
<1>10. ASSUME NEW p \in Passes, Abort(p) PROVE Evidence'
  <2>1. /\ Running(p) /\ ~Running(p)' /\ pc'[p] = "over" /\ UNCHANGED <<cache, stored, verdictsAt>>
        /\ \A q \in Passes \ {p} : pass'[q] = pass[q] /\ pc'[q] = pc[q]
    BY <1>0, <1>10 DEF Abort, Leave, Running, files
  <2> QED
    BY <1>q, <2>1
<1>11. CASE UpdateSnapshot \/ UNCHANGED vars
  <2>1. UNCHANGED <<cache, stored, verdictsAt, pc, pass>>
    BY <1>11 DEF UpdateSnapshot, vars, files
  <2>2. \A q \in Passes : AskedFor(q)'
    BY <1>a, <2>1 DEF AskedFor
  <2>3. \A q \in Passes : Running(q)' => PassVouched(q)'
    BY <1>k, <2>1 DEF Running
  <2> QED
    BY <1>d, <1>h, <1>t, <2>1, <2>2, <2>3 DEF Evidence
<1> QED
  BY <1>1, <1>2, <1>3, <1>4, <1>5, <1>6, <1>7, <1>8, <1>9, <1>10, <1>11 DEF Next, Work

LEMMA EvidenceKept == Spec => []Evidence
<1>1. Init => Evidence
  BY EvidenceInit
<1>2. Evidence /\ [Next]_vars => Evidence'
  BY EvidenceStep
<1> QED
  BY <1>1, <1>2, PTL DEF Spec

LEMMA EvidenceOfTheRun ==
  ASSUME Evidence, NEW i \in CaseIds, NEW j \in Judges, stored[i].grades[j] # "absent"
  PROVE  Rests(<<j, i, verdictsAt[i][j]>>, stored[i].grades[j])
BY DEF Evidence, Vouched

(***************************************************************************)
(* Every judge label of the stored run, and every entry that would be a    *)
(* hit, was given by the model for that case at that version, however many *)
(* passes run side by side and tear each other's entries                   *)
(* (judge_cache.py:83-106).                                                *)
(***************************************************************************)
THEOREM VerdictsAreGiven == Spec => []NoVerdictIsInvented
<1>1. Evidence => NoVerdictIsInvented
  BY EvidenceOfTheRun DEF Evidence, HitsGiven, NoVerdictIsInvented, Rests, CaseIds
<1> QED
  BY <1>1, EvidenceKept, PTL

(***************************************************************************)
(* Where passes run one after another, the cache answers every judge label *)
(* of the stored run again, at the version that gave it                    *)
(* (judge.py:158-181).                                                     *)
(***************************************************************************)
THEOREM RerunsAreIdentical == Spec => []StoredVerdictsAreCached
<1>1. Evidence => StoredVerdictsAreCached
  BY EvidenceOfTheRun DEF StoredVerdictsAreCached, Rests, CaseIds
<1> QED
  BY <1>1, EvidenceKept, PTL

-----------------------------------------------------------------------------
\* An answer for k is kept, or on its way to the entry.
PaidFor(k) == cache[k] \in Labels \/ \E p \in Passes : pc[p] \in Asking /\ Key(p) = k

\* How many answers for k came to nothing.
Lost(k) == Len(given[k]) - (IF PaidFor(k) THEN 1 ELSE 0)

Bill ==
  serial =>
    \A k, h \in Keys :
      /\ Lost(k) <= crashes
      /\ k # h => Lost(k) + Lost(h) <= crashes

LEMMA LostIsInt ==
  ASSUME TypeOK, NEW k \in Keys
  PROVE  Len(given[k]) \in Nat /\ Lost(k) \in Int /\ Len(given[k]) <= Lost(k) + 1
<1>1. Len(given[k]) \in Nat
  BY DEF TypeOK, FileTypes
<1> QED
  BY <1>1 DEF Lost

\* Nothing but an abort loses an answer.
LEMMA LessIsLost ==
  ASSUME Evidence, [Next]_vars, serial', \A p \in Passes : ~Abort(p), NEW k \in Keys
  PROVE  Lost(k)' <= Lost(k) /\ crashes' = crashes
<1> USE DEF Asking
<1>0. /\ TypeOK /\ given \in [Keys -> Seq(Labels)] /\ crashes \in Nat
      /\ cache \in [Keys -> Entries] /\ DOMAIN pass = Passes
      /\ pc \in [Passes -> {"idle", "grade", "over"} \cup Asking]
      /\ \A p \in Passes : AskedFor(p)
      /\ \A p, q \in Passes : serial /\ Running(p) /\ Running(q) => p = q
  BY DEF Evidence, TypeOK, FileTypes, Alone
<1>s. /\ serial /\ \A h \in Keys : cache[h] \in Labels => cache'[h] = cache[h]
  BY <1>0, HitsStay
<1>b. Len(given[k]) \in Nat
  BY <1>0, LostIsInt
\* A step that asks nothing and lets nobody lose an answer.
<1>q. ASSUME given' = given, crashes' = crashes, PaidFor(k) => PaidFor(k)'
      PROVE  Lost(k)' <= Lost(k) /\ crashes' = crashes
  <2>1. Len(given'[k]) = Len(given[k])
    BY <1>q
  <2> QED
    BY <1>b, <1>q, <2>1 DEF Lost
\* A pass that asks nothing itself, where nobody else is at work.
<1>p. ASSUME NEW p \in Passes, Running(p), pc[p] \notin Asking, cache' = cache
      PROVE  PaidFor(k) => PaidFor(k)'
  <2>1. \A q \in Passes : pc[q] \notin Asking
    BY <1>0, <1>s, <1>p DEF Running
  <2> QED
    BY <1>p, <2>1 DEF PaidFor
<1>1. ASSUME NEW p \in Passes, StartPass(p)
      PROVE  PaidFor(k) => PaidFor(k)'
  <2>1. \A q \in Passes : pc[q] \notin Asking
    BY <1>1, <1>s DEF StartPass, Running
  <2> QED
    BY <1>1, <2>1 DEF StartPass, files, PaidFor
<1>2. ASSUME NEW p \in Passes,
             JudgeEmpty(p) \/ JudgeHit(p) \/ GradeSemantic(p) \/ NextGrader(p) \/ Finish(p)
      PROVE  /\ given' = given /\ crashes' = crashes
             /\ PaidFor(k) => PaidFor(k)'
  <2>1. Running(p) /\ pc[p] = "grade" /\ UNCHANGED <<cache, given, crashes>>
    BY <1>2 DEF JudgeEmpty, JudgeHit, GradeSemantic, NextGrader, Finish, Judging, Grading,
       Through, OnDisk, Running
  <2> QED
    BY <1>p, <2>1
<1>4. ASSUME NEW p \in Passes, JudgeCall(p)
      PROVE  Lost(k)' <= Lost(k) /\ crashes' = crashes
  <2>1. /\ Running(p) /\ pc[p] = "grade" /\ PassTypes(p) /\ Key(p) \in Keys
        /\ cache[Key(p)] \notin Labels /\ UNCHANGED <<cache, crashes>> /\ pc'[p] = "put"
    BY <1>0, <1>4, JudgingTypes DEF JudgeCall, Judging, Grading, Running, OnDisk
  <2>2. PICK label \in Labels :
          /\ given' = [given EXCEPT ![Key(p)] = Append(given[Key(p)], label)]
          /\ pass' = [pass EXCEPT ![p] = [pass[p] EXCEPT !.answer = label]]
    BY <1>4 DEF JudgeCall
  <2>3. CASE k = Key(p)
    <3>1. ~PaidFor(k)
      <4>1. \A q \in Passes : pc[q] \notin Asking
        BY <1>0, <1>s, <2>1 DEF Running
      <4> QED
        BY <2>1, <2>3, <4>1 DEF PaidFor
    <3>2. Len(given'[k]) = Len(given[k]) + 1
      BY <1>0, <2>2, <2>3, AppendProperties
    <3>3. pass'[p].graders = pass[p].graders /\ pass'[p].turn = pass[p].turn
          /\ pass'[p].todo = pass[p].todo /\ pass'[p].version = pass[p].version
      BY <1>0, <2>1, <2>2 DEF PassTypes, PassRecords
    <3>4. Key(p)' = k
      BY <2>3, <3>3 DEF Key, Grader, Case
    <3>5. PaidFor(k)'
      BY <2>1, <3>4 DEF PaidFor
    <3> QED
      BY <1>b, <2>1, <3>1, <3>2, <3>5 DEF Lost
  <2>4. CASE k # Key(p)
    <3>1. given'[k] = given[k]
      BY <1>0, <2>2, <2>4
    <3>2. PaidFor(k) => PaidFor(k)'
      BY <1>p, <2>1
    <3>3. Len(given'[k]) = Len(given[k])
      BY <3>1
    <3> QED
      BY <1>b, <2>1, <3>2, <3>3 DEF Lost
  <2> QED
    BY <2>3, <2>4
<1>5. ASSUME NEW p \in Passes, PutOpen(p) PROVE PaidFor(k) => PaidFor(k)'
  <2>1. /\ pc[p] = "put" /\ pc'[p] = "putting" /\ pass' = pass
        /\ \A q \in Passes \ {p} : pc'[q] = pc[q]
    BY <1>0, <1>5 DEF PutOpen
  <2>2. \A q \in Passes : Key(q)' = Key(q)
    BY <2>1 DEF Key, Grader, Case
  <2> QED
    BY <1>s, <2>1, <2>2 DEF PaidFor
<1>6. ASSUME NEW p \in Passes, PutWrite(p) PROVE PaidFor(k) => PaidFor(k)'
  <2>1. pc[p] = "putting" /\ Running(p) /\ cache[Key(p)] \notin Labels /\ Key(p) \in Keys
        /\ pass[p].answer \in Labels
    BY <1>0, <1>6, <1>s, AskingTypes DEF PutWrite, AskedFor, Running
  <2>2. cache' = [cache EXCEPT ![Key(p)] = pass[p].answer]
    BY <1>6, <2>1 DEF PutWrite
  <2>3. \A q \in Passes : pc[q] \in Asking => q = p
    BY <1>0, <1>s, <2>1 DEF Running
  <2> QED
    BY <1>0, <1>s, <2>1, <2>2, <2>3 DEF PaidFor
<1>8. CASE UpdateSnapshot \/ UNCHANGED vars
  <2>1. UNCHANGED <<cache, given, crashes, pc, pass>>
    BY <1>8 DEF UpdateSnapshot, vars, files
  <2>2. \A q \in Passes : Key(q)' = Key(q)
    BY <2>1 DEF Key, Grader, Case
  <2>3. PaidFor(k) => PaidFor(k)'
    BY <2>1, <2>2 DEF PaidFor
  <2> QED
    BY <1>q, <2>1, <2>3
<1>9. ASSUME NEW p \in Passes, StartPass(p) \/ PutOpen(p) \/ PutWrite(p)
      PROVE  given' = given /\ crashes' = crashes
  BY <1>9 DEF StartPass, PutOpen, PutWrite, OnDisk
<1> QED
  BY <1>q, <1>1, <1>2, <1>4, <1>5, <1>6, <1>8, <1>9 DEF Next, Work

\* An abort loses the answer its pass was writing, if any, and no other.
LEMMA AbortLosesOne ==
  ASSUME Evidence, serial, NEW p \in Passes, Abort(p), NEW k \in Keys
  PROVE  /\ Lost(k)' <= Lost(k) + 1 /\ crashes' = crashes + 1
         /\ Key(p) # k => Lost(k)' <= Lost(k)
<1> USE DEF Asking
<1>0. /\ Running(p) /\ TypeOK /\ crashes' = crashes + 1
      /\ UNCHANGED <<cache, given>> /\ pc' = [pc EXCEPT ![p] = "over"]
  BY DEF Evidence, Abort, Leave, files
<1>1. \A q \in Passes : pc[q] \in Asking => q = p
  BY <1>0 DEF Evidence, Alone, Running
<1>2. Len(given[k]) \in Nat /\ Len(given'[k]) = Len(given[k])
  BY <1>0, LostIsInt
<1>3. Key(p) # k => (PaidFor(k) => PaidFor(k)')
  BY <1>0, <1>1 DEF PaidFor
<1>4. Lost(k)' = Len(given[k]) - (IF PaidFor(k)' THEN 1 ELSE 0)
  BY <1>2 DEF Lost
<1>5. Lost(k)' <= Lost(k) + 1
  <2>1. Lost(k)' \in Int /\ Lost(k)' <= Len(given[k])
    <3>1. CASE PaidFor(k)'
      BY <1>2, <1>4, <3>1
    <3>2. CASE ~PaidFor(k)'
      BY <1>2, <1>4, <3>2
    <3> QED
      BY <3>1, <3>2
  <2>2. Lost(k) \in Int /\ Len(given[k]) <= Lost(k) + 1
    BY <1>0, LostIsInt
  <2> QED
    BY <1>2, <2>1, <2>2
<1>6. Key(p) # k => Lost(k)' <= Lost(k)
  BY <1>2, <1>3, <1>4 DEF Lost
<1> QED
  BY <1>0, <1>5, <1>6

LEMMA BillStep == Evidence /\ Bill /\ [Next]_vars => Bill'
<1> SUFFICES ASSUME Evidence, Bill, [Next]_vars, serial', NEW k \in Keys, NEW h \in Keys
             PROVE  /\ Lost(k)' <= crashes'
                    /\ k # h => Lost(k)' + Lost(h)' <= crashes'
  BY DEF Bill
<1>0. TypeOK /\ crashes \in Nat /\ serial
  BY HitsStay DEF Evidence, TypeOK, FileTypes
<1>1. Lost(k) <= crashes /\ (k # h => Lost(k) + Lost(h) <= crashes)
  BY <1>0 DEF Bill
<1>2. TypeOK'
  BY EvidenceStep DEF Evidence
<1>3. Lost(k) \in Int /\ Lost(h) \in Int /\ Lost(k)' \in Int /\ Lost(h)' \in Int
  <2>1. Lost(k)' \in Int /\ Lost(h)' \in Int
    BY <1>2, LostIsInt DEF Lost, TypeOK, FileTypes
  <2> QED
    BY <1>0, <2>1, LostIsInt
<1>4. CASE \A p \in Passes : ~Abort(p)
  BY <1>0, <1>1, <1>3, <1>4, LessIsLost
<1>5. ASSUME NEW p \in Passes, Abort(p)
      PROVE  /\ Lost(k)' <= crashes'
             /\ k # h => Lost(k)' + Lost(h)' <= crashes'
  <2>1. /\ Lost(k)' <= Lost(k) + 1 /\ Lost(h)' <= Lost(h) + 1 /\ crashes' = crashes + 1
        /\ Key(p) # k => Lost(k)' <= Lost(k)
        /\ Key(p) # h => Lost(h)' <= Lost(h)
    BY <1>0, <1>5, AbortLosesOne
  <2> QED
    BY <1>0, <1>1, <1>3, <2>1
<1> QED
  BY <1>4, <1>5

(***************************************************************************)
(* Where passes run one after another, no key costs more model calls than  *)
(* passes were cut short, and one, and no two keys together more than      *)
(* that and two: a pass that dies loses one answer (judge_cache.py:3-6).   *)
(***************************************************************************)
THEOREM NothingIsPaidTwice == Spec => []PaidOnce
<1>1. Init => Evidence /\ Bill
  <2>1. Init => Bill
    <3> SUFFICES ASSUME Init, NEW k \in Keys, NEW h \in Keys
                 PROVE  Lost(k) <= crashes /\ Lost(k) + Lost(h) <= crashes
      BY DEF Bill
    <3>1. Len(given[k]) = 0 /\ Len(given[h]) = 0 /\ crashes = 0
      BY DEF Init
    <3> QED
      BY <3>1 DEF Lost
  <2> QED
    BY <2>1, EvidenceInit
<1>2. Evidence /\ Bill /\ [Next]_vars => Evidence' /\ Bill'
  BY EvidenceStep, BillStep
<1>3. Evidence /\ Bill => PaidOnce
  <2> SUFFICES ASSUME Evidence, Bill, serial, NEW k \in Keys, NEW h \in Keys
               PROVE  /\ Len(given[k]) <= crashes + 1
                      /\ k # h => Len(given[k]) + Len(given[h]) <= crashes + 2
    BY DEF PaidOnce
  <2>1. TypeOK /\ crashes \in Nat
    BY DEF Evidence, TypeOK, FileTypes
  <2>2. Lost(k) <= crashes /\ (k # h => Lost(k) + Lost(h) <= crashes)
    BY DEF Bill
  <2>3. /\ Len(given[k]) \in Nat /\ Lost(k) \in Int /\ Len(given[k]) <= Lost(k) + 1
        /\ Len(given[h]) \in Nat /\ Lost(h) \in Int /\ Len(given[h]) <= Lost(h) + 1
    BY <2>1, LostIsInt
  <2>4. Len(given[k]) <= crashes + 1
    BY <2>1, <2>2, <2>3
  <2>5. ASSUME k # h PROVE Len(given[k]) + Len(given[h]) <= crashes + 2
    <3>1. Lost(k) + Lost(h) <= crashes
      BY <2>2, <2>5
    <3> QED
      <4>1. PICK a \in Nat, b \in Nat, x \in Int, y \in Int :
              a = Len(given[k]) /\ b = Len(given[h]) /\ x = Lost(k) /\ y = Lost(h)
        BY <2>3, Zenon
      <4>2. a <= x + 1 /\ b <= y + 1 /\ x + y <= crashes
        BY <2>3, <3>1, <4>1, Zenon
      <4>3. a + b <= crashes + 2
        BY <2>1, <4>2
      <4> QED
        BY <4>1, <4>3, Zenon
  <2> QED
    BY <2>4, <2>5
<1> QED
  BY <1>1, <1>2, <1>3, PTL DEF Spec
==============================================================================
