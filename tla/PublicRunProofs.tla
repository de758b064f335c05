---------------------------- MODULE PublicRunProofs ----------------------------
(***************************************************************************)
(* Proofs about PublicRun for every budget, dataset, limit and number of   *)
(* commands: the cap bounds the spend, summaries are paid for, and the     *)
(* ledger does not under-report in silence.                                *)
(***************************************************************************)
EXTENDS PublicRun, NaturalsInduction, WellFoundedInduction, SequenceTheorems, TLAPS

-----------------------------------------------------------------------------
(* Types.                                                                  *)

RunSet == [limit : Limits \cup {NoLimit}, epochs : Nat \ {0}, mode : Modes, left : Nat, usd : Nat]
LineSet == [runs : (SUBSET Ids) \ {{}}, usd : Nat, parses : BOOLEAN, open : BOOLEAN]
Outcome == [usd : Nat, booked : BOOLEAN,
            how : {"raised", "overrun", "killed", "wrote", "unwritten"}]

VarsOK ==
  /\ pc \in {"idle", "inspect", "charge", "ledger", "summary"}
  /\ run \in RunSet
  /\ ledger \in Seq(LineSet) /\ history \in Seq(Outcome)
  /\ summaries \subseteq Ids
  /\ Len(history) <= MaxRuns /\ (pc # "idle" => Len(history) < MaxRuns)
  /\ pc = "idle" => run = NoRun

\* Only the last line can lack its newline.
OpenIsLast == \A i \in DOMAIN ledger : ledger[i].open => i = Len(ledger)

-----------------------------------------------------------------------------
(* Operators.                                                              *)

LEMMA FrontIs ==
  ASSUME NEW S, NEW s \in Seq(S), Len(s) \in Nat \ {0}
  PROVE  /\ Front(s) \in Seq(S) /\ Len(Front(s)) = Len(s) - 1
         /\ \A i \in 1..(Len(s) - 1) : Front(s)[i] = s[i]
<1>1. PICK m \in Nat : m = Len(s) - 1
  OBVIOUS
<1>2. \A i \in 1..m : s[i] \in S
  BY <1>1, ElementOfSeq
<1>3. /\ SubSeq(s, 1, m) \in Seq(S)
      /\ Len(SubSeq(s, 1, m)) = IF 1 <= m THEN m - 1 + 1 ELSE 0
      /\ \A i \in 1..(m - 1 + 1) : SubSeq(s, 1, m)[i] = s[1 + i - 1]
  BY <1>2, SubSeqProperties
<1>4. Len(SubSeq(s, 1, m)) = m
  BY <1>3
<1>5. \A i \in 1..m : i \in 1..(m - 1 + 1) /\ 1 + i - 1 = i
  OBVIOUS
<1>6. \A i \in 1..m : SubSeq(s, 1, m)[i] = s[i]
  BY <1>3, <1>5
<1> QED BY <1>1, <1>3, <1>4, <1>6 DEF Front

\* Appending a line: the ledger keeps its shape, every run named in it stays
\* named, and the line's runs are named.
LEMMA AppendedIs ==
  ASSUME NEW lines \in Seq(LineSet), NEW line \in LineSet,
         \A i \in DOMAIN lines : lines[i].open => i = Len(lines)
  PROVE  /\ Appended(lines, line) \in Seq(LineSet)
         /\ \A i \in DOMAIN Appended(lines, line) :
              Appended(lines, line)[i].open => i = Len(Appended(lines, line))
         /\ \A id : (\E i \in DOMAIN lines : id \in lines[i].runs) \/ id \in line.runs =>
              \E i \in DOMAIN Appended(lines, line) : id \in Appended(lines, line)[i].runs
         /\ \/ Appended(lines, line) = Append(lines, line)
            \/ ~Readable(Appended(lines, line))
<1> DEFINE new == Appended(lines, line)
<1>1. Len(lines) \in Nat /\ DOMAIN lines = 1..Len(lines)
  BY LenProperties
<1>2. CASE lines # <<>> /\ Last(lines).open
  <2> DEFINE n == Len(lines)
             joined == [runs |-> Last(lines).runs \cup line.runs,
                        usd |-> 0, parses |-> FALSE, open |-> line.open]
  <2>1. n \in Nat \ {0} /\ n \in 1..n
    BY <1>1, <1>2, EmptySeq
  <2>2. Last(lines) = lines[n] /\ lines[n] \in LineSet
    BY <2>1, ElementOfSeq DEF Last
  <2>3. joined \in LineSet
    <3>1. lines[n].runs \in (SUBSET Ids) \ {{}} /\ line.runs \in (SUBSET Ids) \ {{}}
          /\ line.open \in BOOLEAN
      BY <2>2 DEF LineSet
    <3> QED BY <2>2, <3>1 DEF LineSet
  <2>4. /\ Front(lines) \in Seq(LineSet) /\ Len(Front(lines)) = n - 1
        /\ \A i \in 1..(n - 1) : Front(lines)[i] = lines[i]
    BY <2>1, FrontIs
  <2>5. new = Append(Front(lines), joined)
    BY <1>2 DEF Appended
  <2>6. /\ new \in Seq(LineSet) /\ Len(new) = n /\ DOMAIN new = 1..n
        /\ \A i \in 1..(n - 1) : new[i] = lines[i]
        /\ new[n] = joined
    <3> HIDE DEF joined, n, new
    <3>1. n - 1 \in Nat /\ (n - 1) + 1 = n
      BY <2>1
    <3> QED BY <2>3, <2>4, <2>5, <3>1, AppendProperties, LenProperties
  <2>7. \A i \in DOMAIN new : new[i].open => i = Len(new)
    BY <1>1, <2>1, <2>6
  <2>8. ASSUME NEW id, (\E i \in DOMAIN lines : id \in lines[i].runs) \/ id \in line.runs
        PROVE  \E i \in DOMAIN new : id \in new[i].runs
    <3>1. CASE id \in line.runs \/ id \in lines[n].runs
      BY <2>1, <2>2, <2>6, <3>1
    <3>2. CASE \E i \in 1..(n - 1) : id \in lines[i].runs
      BY <2>1, <2>6, <3>2
    <3> QED BY <1>1, <2>1, <2>8, <3>1, <3>2
  <2>9. ~Readable(new)
    BY <2>1, <2>6 DEF Readable
  <2> QED BY <2>6, <2>7, <2>8, <2>9
<1>3. CASE ~(lines # <<>> /\ Last(lines).open)
  <2>1. new = Append(lines, line)
    BY <1>3 DEF Appended
  <2>2. /\ new \in Seq(LineSet) /\ Len(new) = Len(lines) + 1 /\ DOMAIN new = 1..(Len(lines) + 1)
        /\ \A i \in 1..Len(lines) : new[i] = lines[i]
        /\ new[Len(lines) + 1] = line
    <3> HIDE DEF new
    <3> QED BY <2>1, AppendProperties, LenProperties
  <2>3. \A i \in DOMAIN lines : ~lines[i].open
    BY <1>1, <1>3, EmptySeq DEF Last
  <2>4. \A i \in DOMAIN new : new[i].open => i = Len(new)
    BY <1>1, <2>2, <2>3
  <2>5. ASSUME NEW id, (\E i \in DOMAIN lines : id \in lines[i].runs) \/ id \in line.runs
        PROVE  \E i \in DOMAIN new : id \in new[i].runs
    BY <1>1, <2>2, <2>5
  <2> QED BY <2>1, <2>2, <2>4, <2>5
<1> QED BY <1>2, <1>3

LEMMA AppendedHistory ==
  ASSUME NEW h \in Seq(Outcome), NEW o \in Outcome
  PROVE  /\ Append(h, o) \in Seq(Outcome) /\ Len(Append(h, o)) = Len(h) + 1
         /\ DOMAIN Append(h, o) = 1..(Len(h) + 1)
         /\ \A i \in 1..Len(h) : Append(h, o)[i] = h[i]
         /\ Append(h, o)[Len(h) + 1] = o
BY AppendProperties, LenProperties

LEMMA SamplesIs ==
  ASSUME NEW limit \in Limits \cup {NoLimit}
  PROVE  /\ Samples(limit) \in Nat
         /\ limit = NoLimit => Samples(limit) = DatasetSize
         /\ limit # NoLimit => limit \in Nat \ {0} /\ Samples(limit) <= limit
<1>1. CASE limit = NoLimit
  BY <1>1, PublicAssumption DEF Samples
<1>2. CASE limit # NoLimit
  <2>1. limit \in Nat \ {0} /\ DatasetSize \in Nat
    BY <1>2, PublicAssumption
  <2>2. \E m \in {limit, DatasetSize} : \A y \in {limit, DatasetSize} : m <= y
    <3>1. CASE limit <= DatasetSize
      BY <2>1, <3>1
    <3>2. CASE ~(limit <= DatasetSize)
      BY <2>1, <3>2
    <3> QED BY <3>1, <3>2
  <2>3. /\ Min({limit, DatasetSize}) \in {limit, DatasetSize}
        /\ \A y \in {limit, DatasetSize} : Min({limit, DatasetSize}) <= y
    BY <2>2 DEF Min
  <2> QED BY <1>2, <2>1, <2>3 DEF Samples
<1> QED BY <1>1, <1>2

\* What ending a command leaves.
LEMMA Ending ==
  ASSUME VarsOK, pc # "idle",
         NEW how \in {"raised", "overrun", "killed", "wrote", "unwritten"}, End(how)
  PROVE  /\ pc' = "idle" /\ run' = NoRun /\ history' \in Seq(Outcome)
         /\ Len(history') = Len(history) + 1 /\ Len(history') <= MaxRuns
         /\ DOMAIN history = 1..Len(history) /\ DOMAIN history' = 1..(Len(history) + 1)
         /\ \A i \in 1..Len(history) : history'[i] = history[i]
         /\ history'[Len(history) + 1].usd = run.usd
         /\ history'[Len(history) + 1].booked = (pc = "summary")
<1> DEFINE o == [usd |-> run.usd, how |-> how, booked |-> pc = "summary"]
<1>1. o \in Outcome /\ Len(history) \in Nat /\ DOMAIN history = 1..Len(history)
  BY LenProperties DEF VarsOK, RunSet, Outcome
<1>2. history' = Append(history, o) /\ pc' = "idle" /\ run' = NoRun
  BY DEF End
<1>3. o.usd = run.usd /\ o.booked = (pc = "summary")
  OBVIOUS
<1>4. /\ history' \in Seq(Outcome) /\ Len(history') = Len(history) + 1
      /\ DOMAIN history' = 1..(Len(history) + 1)
      /\ \A i \in 1..Len(history) : history'[i] = history[i]
      /\ history'[Len(history) + 1] = o
  <2> HIDE DEF o
  <2> QED BY <1>1, <1>2, AppendedHistory DEF VarsOK
<1>5. Len(history') <= MaxRuns
  BY <1>1, <1>4, PublicAssumption DEF VarsOK
<1> QED BY <1>1, <1>2, <1>3, <1>4, <1>5

\* A line of the current command.
LEMMA LineIs ==
  ASSUME VarsOK, pc # "idle", NEW parses \in BOOLEAN, NEW open \in BOOLEAN
  PROVE  /\ Id \in Ids /\ Line(run.usd, parses, open) \in LineSet
         /\ Line(run.usd, parses, open).runs = {Id}
<1>1. Id \in Ids
  <2>1. Len(history) \in Nat
    BY LenProperties DEF VarsOK
  <2> QED BY <2>1, PublicAssumption DEF VarsOK, Ids, Id
<1>2. run.usd \in Nat
  BY DEF VarsOK, RunSet
<1> QED BY <1>1, <1>2 DEF Line, LineSet

-----------------------------------------------------------------------------
(* The type invariant, and summaries that are paid for.                    *)

Named(id) == \E i \in DOMAIN ledger : id \in ledger[i].runs

PInv ==
  /\ VarsOK /\ OpenIsLast
  /\ \A id \in summaries : Named(id)
  /\ pc = "summary" => Named(Id)

LEMMA PInit == Init => PInv
<1> SUFFICES ASSUME Init PROVE PInv
  OBVIOUS
<1>1. NoRun \in RunSet
  BY PublicAssumption DEF NoRun, RunSet, Modes
<1>2. <<>> \in Seq(LineSet) /\ <<>> \in Seq(Outcome) /\ Len(<<>>) = 0
  BY EmptySeq
<1>3. VarsOK
  BY <1>1, <1>2, PublicAssumption DEF Init, VarsOK
<1>4. OpenIsLast
  BY <1>2, LenProperties DEF Init, OpenIsLast
<1> QED BY <1>3, <1>4 DEF Init, PInv

\* A step that appends a line of the current command.
LEMMA LineStep ==
  ASSUME PInv, pc # "idle", NEW parses \in BOOLEAN, NEW open \in BOOLEAN,
         ledger' = Appended(ledger, Line(run.usd, parses, open))
  PROVE  /\ ledger' \in Seq(LineSet) /\ OpenIsLast'
         /\ \A id : Named(id) \/ id = Id => Named(id)'
<1>1. /\ Line(run.usd, parses, open) \in LineSet /\ Line(run.usd, parses, open).runs = {Id}
      /\ ledger \in Seq(LineSet)
  BY LineIs DEF PInv, VarsOK
<1>2. \A i \in DOMAIN ledger : ledger[i].open => i = Len(ledger)
  BY DEF PInv, OpenIsLast
<1>3. /\ ledger' \in Seq(LineSet)
      /\ \A i \in DOMAIN ledger' : ledger'[i].open => i = Len(ledger')
      /\ \A id : (\E i \in DOMAIN ledger : id \in ledger[i].runs)
                   \/ id \in Line(run.usd, parses, open).runs =>
           \E i \in DOMAIN ledger' : id \in ledger'[i].runs
  BY <1>1, <1>2, AppendedIs
<1> QED BY <1>1, <1>3 DEF OpenIsLast, Named

LEMMA PStep == PInv /\ [Next]_vars => PInv'
<1> SUFFICES ASSUME PInv, [Next]_vars PROVE PInv'
  OBVIOUS
<1> USE DEF PInv
<1>0. Len(history) \in Nat /\ run.usd \in Nat /\ run.left \in Nat
  BY LenProperties DEF VarsOK, RunSet
<1>1. CASE UNCHANGED vars
  BY <1>1 DEF vars, VarsOK, OpenIsLast, Named, Id
<1>2. CASE StartRun
  <2>1. PICK limit \in Limits, epochs \in Epochs, mode \in Modes :
          run' = [limit |-> limit, epochs |-> epochs, mode |-> mode,
                  left |-> Samples(limit) * epochs, usd |-> 0]
    BY <1>2 DEF StartRun
  <2>2. Samples(limit) * epochs \in Nat /\ epochs \in Nat \ {0}
    BY SamplesIs, PublicAssumption
  <2>3. run' \in RunSet
    BY <2>1, <2>2 DEF RunSet
  <2> QED BY <1>0, <1>2, <2>3 DEF StartRun, VarsOK, OpenIsLast, Named
<1>3. CASE Sample
  <2>1. PICK cost \in SampleCosts(run) : run' = [run EXCEPT !.left = @ - 1, !.usd = @ + cost]
    BY <1>3 DEF Sample
  <2>2. cost \in Nat
    BY PublicAssumption DEF SampleCosts
  <2>3. run' \in RunSet
    <3>1. run.left - 1 \in Nat /\ run.usd + cost \in Nat /\ run \in RunSet
      BY <1>0, <1>3, <2>2 DEF Sample, VarsOK
    <3> QED BY <2>1, <3>1 DEF RunSet
  <2> QED BY <1>3, <2>3 DEF Sample, VarsOK, OpenIsLast, Named
<1>4. CASE InspectReturns \/ ChargePasses
  BY <1>4 DEF InspectReturns, ChargePasses, VarsOK, OpenIsLast, Named
<1>5. CASE InspectRaises \/ ChargeRaises \/ Kill \/ WriteFails
  <2>1. pc # "idle" /\ ledger' = ledger /\ summaries' = summaries
        /\ (End("raised") \/ End("overrun") \/ End("killed") \/ End("unwritten"))
    BY <1>5 DEF InspectRaises, ChargeRaises, Kill, WriteFails
  <2>2. pc' = "idle" /\ run' = NoRun /\ history' \in Seq(Outcome) /\ Len(history') <= MaxRuns
    BY <2>1, Ending
  <2>3. NoRun \in RunSet
    BY PublicAssumption DEF NoRun, RunSet, Modes
  <2> QED BY <2>1, <2>2, <2>3 DEF VarsOK, OpenIsLast, Named
<1>6. CASE Record
  <2>1. pc = "ledger" /\ ledger' = Appended(ledger, Line(run.usd, TRUE, FALSE)) /\ pc' = "summary"
        /\ UNCHANGED <<run, summaries, history>>
    BY <1>6 DEF Record
  <2>2. /\ ledger' \in Seq(LineSet) /\ OpenIsLast'
        /\ \A id : Named(id) \/ id = Id => Named(id)'
    BY <2>1, LineStep
  <2>3. VarsOK'
    BY <2>1, <2>2 DEF VarsOK
  <2> QED BY <2>1, <2>2, <2>3 DEF Id
<1>7. CASE KillInRecord
  <2>1. PICK parses \in BOOLEAN : ledger' = Appended(ledger, Line(run.usd, parses, TRUE))
    BY <1>7 DEF KillInRecord
  <2>2. pc = "ledger" /\ End("killed") /\ summaries' = summaries
    BY <1>7 DEF KillInRecord
  <2>3. /\ ledger' \in Seq(LineSet) /\ OpenIsLast'
        /\ \A id : Named(id) \/ id = Id => Named(id)'
    BY <2>1, <2>2, LineStep
  <2>4. pc' = "idle" /\ run' = NoRun /\ history' \in Seq(Outcome) /\ Len(history') <= MaxRuns
    BY <2>2, Ending
  <2>5. NoRun \in RunSet
    BY PublicAssumption DEF NoRun, RunSet, Modes
  <2> QED BY <2>2, <2>3, <2>4, <2>5 DEF VarsOK
<1>8. CASE WriteSummary
  <2>1. pc = "summary" /\ End("wrote") /\ ledger' = ledger /\ summaries' = summaries \cup {Id}
    BY <1>8 DEF WriteSummary
  <2>2. pc' = "idle" /\ run' = NoRun /\ history' \in Seq(Outcome) /\ Len(history') <= MaxRuns
    BY <2>1, Ending
  <2>3. Id \in Ids
    BY <2>1, LineIs
  <2>4. NoRun \in RunSet
    BY PublicAssumption DEF NoRun, RunSet, Modes
  <2> QED BY <2>1, <2>2, <2>3, <2>4 DEF VarsOK, OpenIsLast, Named
<1> QED BY <1>1, <1>2, <1>3, <1>4, <1>5, <1>6, <1>7, <1>8 DEF Next

LEMMA PInvariant == Spec => []PInv
BY PInit, PStep, PTL DEF Spec

\* The run in memory, the ledger and the summaries keep their types, and only
\* the ledger's last line can lack its newline (cli.py, budget.py: Ledger).
THEOREM TypeCorrect == Spec => []TypeOK
<1>1. PInv => TypeOK
  <2> SUFFICES ASSUME PInv PROVE TypeOK
    OBVIOUS
  <2>1. \A i \in DOMAIN ledger : ledger[i] \in LineSet
    BY LenProperties, ElementOfSeq DEF PInv, VarsOK
  <2> QED BY <2>1 DEF PInv, VarsOK, OpenIsLast, TypeOK, RunSet, LineSet
<1> QED BY <1>1, PInvariant, PTL

\* Every summary has its cost in the ledger, wherever the command was killed
\* (cli.py: cmd_run_public, the ledger first).
THEOREM LedgerComesFirst == Spec => []SummariesArePaidFor
<1>1. PInv => SummariesArePaidFor
  BY DEF PInv, Named, SummariesArePaidFor
<1> QED BY <1>1, PInvariant, PTL

-----------------------------------------------------------------------------
(* The cap: what has been spent and what the samples left may still spend  *)
(* stay under the ceiling, both multiplied by the limit that divides it.   *)

Share(r) == IF r.limit = NoLimit THEN 1 ELSE r.limit
Width(r) == IF r.limit = NoLimit THEN DatasetSize ELSE r.limit
PerSample(r) == MaxUsd + Share(r) * LastCall

CapInv ==
  /\ run.mode # "priced" => run.usd = 0
  /\ run.mode = "priced" =>
       Share(run) * run.usd + run.left * PerSample(run) <= run.epochs * (Width(run) * PerSample(run))

LEMMA TimesMonotonic ==
  ASSUME NEW a \in Nat, NEW b \in Nat, NEW c \in Nat, a <= b
  PROVE  a * c <= b * c
<1>1. PICK d \in Nat : b = a + d
  <2>1. b - a \in Nat /\ b = a + (b - a)
    OBVIOUS
  <2> QED BY <2>1
<1>2. b * c = a * c + d * c
  BY <1>1
<1>3. d * c \in Nat /\ a * c \in Nat
  OBVIOUS
<1> QED BY <1>2, <1>3

LEMMA ProductsAreNat == ASSUME NEW a \in Nat, NEW b \in Nat PROVE a * b \in Nat
OBVIOUS

LEMMA CancelFactor ==
  ASSUME NEW a \in Nat, NEW b \in Nat, NEW c \in Nat \ {0}, c * a <= c * b
  PROVE  a <= b
<1> SUFFICES ASSUME b + 1 <= a PROVE FALSE
  OBVIOUS
<1>1. (b + 1) * c <= a * c
  BY TimesMonotonic
<1>2. (b + 1) * c = c * b + c /\ a * c = c * a
  OBVIOUS
<1>3. c * b \in Nat /\ c * a \in Nat
  OBVIOUS
<1> QED BY <1>1, <1>2, <1>3

LEMMA FactorsAre ==
  ASSUME PInv
  PROVE  /\ Share(run) \in Nat \ {0} /\ Width(run) \in Nat /\ PerSample(run) \in Nat
         /\ run.usd \in Nat /\ run.left \in Nat /\ run.epochs \in Nat \ {0}
         /\ Share(run) * LastCall \in Nat /\ PerSample(run) = MaxUsd + Share(run) * LastCall
         /\ Share(run) * run.usd \in Nat /\ run.left * PerSample(run) \in Nat
<1>1. run.limit \in Limits \cup {NoLimit} /\ run.usd \in Nat /\ run.left \in Nat
      /\ run.epochs \in Nat \ {0}
  BY DEF PInv, VarsOK, RunSet
<1>2. Share(run) \in Nat \ {0} /\ Width(run) \in Nat /\ LastCall \in Nat /\ MaxUsd \in Nat
  <2>1. run.limit # NoLimit => run.limit \in Nat \ {0}
    BY <1>1, PublicAssumption
  <2>2. DatasetSize \in Nat /\ LastCall \in Nat /\ MaxUsd \in Nat
    BY PublicAssumption
  <2>3. CASE run.limit = NoLimit
    BY <2>2, <2>3 DEF Share, Width
  <2>4. CASE run.limit # NoLimit
    BY <2>1, <2>2, <2>4 DEF Share, Width
  <2> QED BY <2>3, <2>4
<1>3. Share(run) * LastCall \in Nat
  BY <1>2, ProductsAreNat
<1>4. PerSample(run) = MaxUsd + Share(run) * LastCall
  BY DEF PerSample
<1>5. PerSample(run) \in Nat
  BY <1>2, <1>3, <1>4
<1>6. Share(run) * run.usd \in Nat /\ run.left * PerSample(run) \in Nat
  BY <1>1, <1>2, <1>5, ProductsAreNat
<1> QED BY <1>1, <1>2, <1>3, <1>4, <1>5, <1>6

\* A sample costs its share of the budget and one more call at most.
LEMMA SampleCostIs ==
  ASSUME PInv, NEW cost \in SampleCosts(run)
  PROVE  /\ cost \in Nat
         /\ run.mode # "priced" => cost = 0
         /\ run.mode = "priced" => Share(run) * cost <= PerSample(run)
<1>0. MaxUsd \in Nat /\ LastCall \in Nat
  BY PublicAssumption
<1>1. CASE run.mode # "priced"
  BY <1>1 DEF SampleCosts
<1>2. CASE run.mode = "priced"
  <2>1. PICK before \in 0..MaxUsd, call \in 0..LastCall :
          UnderTheCap(run, before) /\ cost = before + call
    BY <1>2 DEF SampleCosts
  <2>2. before \in Nat /\ call \in Nat /\ call <= LastCall
    BY <1>0, <2>1
  <2>3. Share(run) \in Nat \ {0} /\ Share(run) * LastCall \in Nat
        /\ PerSample(run) = MaxUsd + Share(run) * LastCall
    BY FactorsAre
  <2>4. Share(run) * before <= MaxUsd
    <3>1. CASE run.limit = NoLimit
      BY <2>1, <2>2, <3>1 DEF UnderTheCap, Share
    <3>2. CASE run.limit # NoLimit
      <4>1. before * run.limit <= MaxUsd /\ Share(run) = run.limit
        BY <2>1, <3>2 DEF UnderTheCap, Share
      <4> QED BY <2>2, <2>3, <4>1
    <3> QED BY <3>1, <3>2
  <2>5. Share(run) * call <= Share(run) * LastCall
    <3>1. call * Share(run) <= LastCall * Share(run)
      BY <1>0, <2>2, <2>3, TimesMonotonic
    <3> QED BY <1>0, <2>2, <2>3, <3>1
  <2>6. Share(run) * cost = Share(run) * before + Share(run) * call
    BY <2>1, <2>2, <2>3
  <2>7. Share(run) * before \in Nat /\ Share(run) * call \in Nat
    BY <2>2, <2>3, ProductsAreNat
  <2> QED BY <1>0, <1>2, <2>1, <2>2, <2>3, <2>4, <2>5, <2>6, <2>7
<1> QED BY <1>1, <1>2

LEMMA CapInit == Init => CapInv
BY DEF Init, CapInv, NoRun

LEMMA CapStep == PInv /\ PInv' /\ CapInv /\ [Next]_vars => CapInv'
<1> SUFFICES ASSUME PInv, PInv', CapInv, [Next]_vars PROVE CapInv'
  OBVIOUS
<1>1. CASE run' = run
  BY <1>1 DEF CapInv, Share, Width, PerSample
<1>2. CASE run' = NoRun
  BY <1>2 DEF CapInv, NoRun
<1>3. CASE StartRun
  <2>1. PICK limit \in Limits, epochs \in Epochs, mode \in Modes :
          run' = [limit |-> limit, epochs |-> epochs, mode |-> mode,
                  left |-> Samples(limit) * epochs, usd |-> 0]
    BY <1>3 DEF StartRun
  <2> DEFINE w == IF limit = NoLimit THEN DatasetSize ELSE limit
             s == IF limit = NoLimit THEN 1 ELSE limit
             k == MaxUsd + s * LastCall
             n == Samples(limit)
  <2>2. w \in Nat /\ s \in Nat \ {0} /\ n \in Nat /\ n <= w /\ epochs \in Nat \ {0}
        /\ LastCall \in Nat /\ MaxUsd \in Nat
    BY SamplesIs, PublicAssumption
  <2>3. k \in Nat
    <3>1. s * LastCall \in Nat
      BY <2>2, ProductsAreNat
    <3> HIDE DEF s
    <3> QED BY <2>2, <3>1
  <2>4. (n * epochs) * k <= epochs * (w * k)
    <3> HIDE DEF w, s, k, n
    <3>1. n * k <= w * k /\ n * k \in Nat /\ w * k \in Nat
      BY <2>2, <2>3, TimesMonotonic, ProductsAreNat
    <3>2. (n * k) * epochs <= (w * k) * epochs
      BY <2>2, <3>1, TimesMonotonic
    <3>3. (n * epochs) * k = (n * k) * epochs /\ epochs * (w * k) = (w * k) * epochs
      BY <2>2, <2>3
    <3> QED BY <3>2, <3>3
  <2>5. /\ run'.usd = 0 /\ run'.left = n * epochs /\ run'.epochs = epochs
        /\ Share(run') = s /\ Width(run') = w /\ PerSample(run') = k
    BY <2>1 DEF Share, Width, PerSample
  <2>6. Share(run') * run'.usd = 0
    <3> HIDE DEF s
    <3> QED BY <2>2, <2>5
  <2>7. Share(run') * run'.usd + run'.left * PerSample(run')
          <= run'.epochs * (Width(run') * PerSample(run'))
    <3>1. n * epochs \in Nat
      <4> HIDE DEF n
      <4> QED BY <2>2, ProductsAreNat
    <3>2. (n * epochs) * k \in Nat
      <4> HIDE DEF n, k
      <4> QED BY <2>3, <3>1, ProductsAreNat
    <3> HIDE DEF w, s, k, n
    <3>3. 0 + (n * epochs) * k = (n * epochs) * k
      BY <3>2
    <3> QED BY <2>4, <2>5, <2>6, <3>3
  <2> QED BY <2>5, <2>7 DEF CapInv
<1>4. CASE Sample
  <2>1. PICK cost \in SampleCosts(run) : run' = [run EXCEPT !.left = @ - 1, !.usd = @ + cost]
    BY <1>4 DEF Sample
  <2>2. /\ run'.left = run.left - 1 /\ run'.usd = run.usd + cost /\ run'.mode = run.mode
        /\ run'.limit = run.limit /\ run'.epochs = run.epochs
    BY <2>1 DEF PInv, VarsOK, RunSet
  <2>3. Share(run') = Share(run) /\ Width(run') = Width(run) /\ PerSample(run') = PerSample(run)
    BY <2>2 DEF Share, Width, PerSample
  <2>4. /\ cost \in Nat
        /\ run.mode # "priced" => cost = 0
        /\ run.mode = "priced" => Share(run) * cost <= PerSample(run)
    BY SampleCostIs
  <2>5. /\ Share(run) \in Nat \ {0} /\ PerSample(run) \in Nat
        /\ run.usd \in Nat /\ run.left \in Nat /\ Share(run) * run.usd \in Nat
        /\ run.left * PerSample(run) \in Nat
    BY FactorsAre
  <2>6. Share(run) * (run.usd + cost) = Share(run) * run.usd + Share(run) * cost
    BY <2>4, <2>5
  <2>7. (run.left - 1) * PerSample(run) = run.left * PerSample(run) - PerSample(run)
    BY <2>5
  <2>8. Share(run) * cost \in Nat
    BY <2>4, <2>5, ProductsAreNat
  <2>9. run.mode = "priced" =>
          Share(run') * run'.usd + run'.left * PerSample(run')
            <= Share(run) * run.usd + run.left * PerSample(run)
    BY <2>2, <2>3, <2>4, <2>5, <2>6, <2>7, <2>8
  <2>10. /\ Share(run') * run'.usd + run'.left * PerSample(run') \in Int
         /\ Share(run) * run.usd + run.left * PerSample(run) \in Int
    BY <2>2, <2>3, <2>5, <2>6, <2>7, <2>8
  <2>11. run.epochs * (Width(run) * PerSample(run)) \in Nat
    BY FactorsAre, ProductsAreNat
  <2> QED BY <2>2, <2>3, <2>4, <2>5, <2>9, <2>10, <2>11 DEF CapInv
<1>5. Next => run' = run \/ run' = NoRun \/ StartRun \/ Sample
  BY DEF Next, InspectReturns, InspectRaises, ChargeRaises, ChargePasses, Record, WriteSummary,
         WriteFails, Kill, KillInRecord, End
<1>6. UNCHANGED vars => run' = run
  BY DEF vars
<1> QED BY <1>1, <1>2, <1>3, <1>4, <1>5, <1>6

\* The cap run_public computes bounds what a run costs, whatever Inspect does
\* under it (suites/public.py: cost_limit).
THEOREM SpendStaysBounded == Spec => []SpendIsBounded
<1>1. PInv /\ CapInv => SpendIsBounded
  <2> SUFFICES ASSUME PInv, CapInv PROVE SpendIsBounded
    OBVIOUS
  <2>1. CASE run.mode # "priced"
    BY <2>1 DEF CapInv, SpendIsBounded, Ceiling
  <2>2. CASE run.mode = "priced"
    <3> DEFINE s == Share(run)
               w == Width(run)
               k == PerSample(run)
    <3>1. /\ s \in Nat \ {0} /\ w \in Nat /\ k \in Nat /\ run.usd \in Nat
          /\ run.epochs \in Nat \ {0} /\ s * run.usd \in Nat /\ run.left * k \in Nat
          /\ LastCall \in Nat /\ MaxUsd \in Nat
      BY FactorsAre, PublicAssumption
    <3>2. s * run.usd + run.left * k <= run.epochs * (w * k)
      BY <2>2 DEF CapInv
    <3>3. run.epochs * (w * k) \in Nat /\ w * k \in Nat
      <4> HIDE DEF s, w, k
      <4> QED BY <3>1, ProductsAreNat
    <3>4. s * run.usd <= run.epochs * (w * k)
      <4> HIDE DEF s, w, k
      <4> QED BY <3>1, <3>2, <3>3
    <3>5. CASE run.limit = NoLimit
      <4>1. s = 1 /\ w = DatasetSize /\ k = MaxUsd + 1 * LastCall
        BY <3>5 DEF Share, Width, PerSample
      <4>2. k = MaxUsd + LastCall /\ s * run.usd = run.usd
        <5> HIDE DEF s, w, k
        <5> QED BY <3>1, <4>1
      <4>3. Ceiling(run) = run.epochs * (w * k)
        <5> HIDE DEF s, w, k
        <5> QED BY <2>2, <3>5, <4>1, <4>2 DEF Ceiling
      <4> HIDE DEF s, w, k
      <4> QED BY <3>4, <4>2, <4>3 DEF SpendIsBounded
    <3>6. CASE run.limit # NoLimit
      <4>1. s = run.limit /\ w = s /\ k = MaxUsd + run.limit * LastCall
        BY <3>6 DEF Share, Width, PerSample
      <4>2. Ceiling(run) = run.epochs * k
        BY <2>2, <3>6, <4>1 DEF Ceiling
      <4>3. run.epochs * (w * k) = s * (run.epochs * k)
        <5> HIDE DEF s, w, k
        <5> QED BY <3>1, <4>1
      <4>4. run.epochs * k \in Nat
        <5> HIDE DEF s, w, k
        <5> QED BY <3>1, ProductsAreNat
      <4>5. run.usd <= run.epochs * k
        <5> HIDE DEF s, w, k
        <5> QED BY <3>1, <3>4, <4>3, <4>4, CancelFactor
      <4> QED BY <4>2, <4>5 DEF SpendIsBounded
    <3> QED BY <3>5, <3>6
  <2> QED BY <2>1, <2>2
<1> QED BY <1>1, PInvariant, CapInit, CapStep, PTL DEF Spec

-----------------------------------------------------------------------------
(* Sums: Total is the running total, which an appended value extends.      *)

RunningTotal(t, f, n) ==
  /\ t \in [0..n -> Nat] /\ t[0] = 0
  /\ \A k \in 1..n : t[k] = t[k - 1] + f[k]

\* Total is the end of any running total.
LEMMA TotalIs ==
  ASSUME NEW f, NEW n \in Nat, NEW t, RunningTotal(t, f, n)
  PROVE  Total(f, n) = t[n]
<1> DEFINE F(s) == [k \in 0..n |-> IF k = 0 THEN 0 ELSE s[k - 1] + f[k]]
           u == CHOOSE s : s = F(s)
<1>1. t = F(t)
  BY DEF RunningTotal
<1>2. u = F(u)
  <2> HIDE DEF F
  <2> QED BY <1>1
<1>3. Total(f, n) = u[n]
  BY DEF Total
<1>4. u[0] = 0 /\ \A k \in 1..n : u[k] = u[k - 1] + f[k]
  <2> HIDE DEF u
  <2>1. \A k \in 0..n : u[k] = IF k = 0 THEN 0 ELSE u[k - 1] + f[k]
    BY <1>2
  <2> QED BY <2>1
<1>5. \A k \in 0..n : u[k] = t[k]
  <2> DEFINE Bad == {k \in 0..n : u[k] # t[k]}
  <2> SUFFICES ASSUME Bad # {} PROVE FALSE
    OBVIOUS
  <2>1. IsWellFoundedOn(OpToRel(<, Nat), Nat)
    BY NatLessThanWellFounded
  <2>2. Bad \subseteq Nat
    OBVIOUS
  <2>3. PICK k \in Bad : \A j \in Bad : ~(<<j, k>> \in OpToRel(<, Nat))
    <3> HIDE DEF Bad
    <3> QED BY <2>1, <2>2, WFMin
  <2>4. \A j \in Bad : ~(j < k)
    BY <2>2, <2>3 DEF OpToRel
  <2>5. k # 0 /\ k \in 1..n
    BY <1>4 DEF RunningTotal
  <2>6. k - 1 \in 0..n /\ k - 1 < k
    BY <2>5
  <2>7. u[k - 1] = t[k - 1]
    BY <2>4, <2>6
  <2> HIDE DEF u
  <2> QED BY <1>4, <2>5, <2>7 DEF RunningTotal
<1> HIDE DEF u
<1> QED BY <1>3, <1>5

Extended(t, n, v) == [k \in 0..(n + 1) |-> IF k = n + 1 THEN t[n] + v ELSE t[k]]

\* g continues f after its first n values.
Continues(g, f, n) == (\A k \in 1..n : g[k] = f[k]) /\ g[n + 1] \in Nat

LEMMA NextTotal ==
  ASSUME NEW f, NEW g, NEW n \in Nat, NEW t, RunningTotal(t, f, n), Continues(g, f, n)
  PROVE  /\ RunningTotal(Extended(t, n, g[n + 1]), g, n + 1)
         /\ Extended(t, n, g[n + 1])[n + 1] = t[n] + g[n + 1]
<1> DEFINE u == [k \in 0..(n + 1) |-> IF k = n + 1 THEN t[n] + g[n + 1] ELSE t[k]]
<1>0. u = Extended(t, n, g[n + 1])
  BY DEF Extended
<1>1. t[n] \in Nat
  BY DEF RunningTotal
<1>2. u \in [0..(n + 1) -> Nat]
  BY <1>1 DEF RunningTotal, Continues
<1>3. u[0] = 0 /\ u[n + 1] = t[n] + g[n + 1]
  BY DEF RunningTotal
<1>4. \A k \in 1..(n + 1) : u[k] = u[k - 1] + g[k]
  <2> SUFFICES ASSUME NEW k \in 1..(n + 1) PROVE u[k] = u[k - 1] + g[k]
    OBVIOUS
  <2>1. CASE k = n + 1
    <3>1. u[k] = t[n] + g[n + 1] /\ u[k - 1] = t[n]
      BY <2>1
    <3> QED BY <2>1, <3>1
  <2>2. CASE k # n + 1
    <3>1. k \in 1..n
      BY <2>2
    <3>2. u[k] = t[k] /\ u[k - 1] = t[k - 1]
      BY <3>1
    <3>3. t[k] = t[k - 1] + f[k] /\ g[k] = f[k]
      BY <3>1 DEF RunningTotal, Continues
    <3> QED BY <3>2, <3>3
  <2> QED BY <2>1, <2>2
<1> HIDE DEF u
<1>5. RunningTotal(u, g, n + 1)
  BY <1>2, <1>3, <1>4 DEF RunningTotal
<1> QED BY <1>0, <1>3, <1>5

-----------------------------------------------------------------------------
(* The ledger covers what was booked.                                      *)

Usds(lines) == [i \in DOMAIN lines |-> lines[i].usd]
Costs(h) == [i \in DOMAIN h |-> IF h[i].booked THEN h[i].usd ELSE 0]
Pending == IF pc = "summary" THEN run.usd ELSE 0

BooksInv ==
  Readable(ledger) =>
    \E t, b :
      /\ RunningTotal(t, Usds(ledger), Len(ledger))
      /\ RunningTotal(b, Costs(history), Len(history))
      /\ t[Len(ledger)] >= b[Len(history)] + Pending

LEMMA BooksInit == Init => BooksInv
<1> SUFFICES ASSUME Init PROVE BooksInv
  OBVIOUS
<1>1. ledger = <<>> /\ history = <<>> /\ Len(<<>>) = 0 /\ Pending = 0
  BY EmptySeq DEF Init, Pending
<1> DEFINE z == [k \in 0..0 |-> 0]
<1>2. \A f : RunningTotal(z, f, 0)
  BY DEF RunningTotal
<1>3. z[0] >= z[0] + 0
  OBVIOUS
<1> HIDE DEF z
<1> QED BY <1>1, <1>2, <1>3 DEF BooksInv

\* What a line adds to the ledger's total.
LEMMA TotalOfALine ==
  ASSUME PInv, pc # "idle", NEW parses \in BOOLEAN, NEW open \in BOOLEAN,
         ledger' = Appended(ledger, Line(run.usd, parses, open)), Readable(ledger')
  PROVE  /\ Readable(ledger) /\ parses
         /\ \A t : RunningTotal(t, Usds(ledger), Len(ledger)) =>
              \E u : /\ RunningTotal(u, Usds(ledger'), Len(ledger'))
                     /\ u[Len(ledger')] = t[Len(ledger)] + run.usd
<1> DEFINE line == Line(run.usd, parses, open)
           n == Len(ledger)
<1>1. line \in LineSet /\ ledger \in Seq(LineSet) /\ run.usd \in Nat
  BY LineIs DEF PInv, VarsOK, RunSet
<1>2. ledger' = Append(ledger, line)
  <2>1. \A i \in DOMAIN ledger : ledger[i].open => i = Len(ledger)
    BY DEF PInv, OpenIsLast
  <2> HIDE DEF line
  <2>2. \/ Appended(ledger, line) = Append(ledger, line)
        \/ ~Readable(Appended(ledger, line))
    BY <1>1, <2>1, AppendedIs
  <2>3. ledger' = Appended(ledger, line)
    BY DEF line
  <2> QED BY <2>2, <2>3
<1>3. /\ n \in Nat /\ DOMAIN ledger = 1..n /\ Len(ledger') = n + 1 /\ DOMAIN ledger' = 1..(n + 1)
      /\ \A i \in 1..n : ledger'[i] = ledger[i]
      /\ ledger'[n + 1] = line
  <2> HIDE DEF line
  <2> QED BY <1>1, <1>2, AppendProperties, LenProperties
<1>4. Readable(ledger) /\ parses
  <2>1. line.parses = parses
    BY DEF Line
  <2> HIDE DEF line, n
  <2>2. \A i \in 1..(n + 1) : ledger'[i].parses
    BY <1>3 DEF Readable
  <2>3. n + 1 \in 1..(n + 1) /\ \A i \in 1..n : i \in 1..(n + 1)
    BY <1>3
  <2> QED BY <1>3, <2>1, <2>2, <2>3 DEF Readable
<1>5. line.usd = run.usd
  BY <1>4 DEF Line
<1>6. /\ \A k \in 1..n : Usds(ledger')[k] = Usds(ledger)[k]
      /\ Usds(ledger')[n + 1] = run.usd
  <2> HIDE DEF line, n
  <2>1. n + 1 \in 1..(n + 1) /\ \A i \in 1..n : i \in 1..(n + 1)
    BY <1>3
  <2> QED BY <1>3, <1>5, <2>1 DEF Usds
<1> HIDE DEF line, n
<1>7. ASSUME NEW t, RunningTotal(t, Usds(ledger), n)
      PROVE  \E u : RunningTotal(u, Usds(ledger'), n + 1) /\ u[n + 1] = t[n] + run.usd
  <2>1. Usds(ledger')[n + 1] \in Nat
    BY <1>1, <1>6
  <2> DEFINE u == Extended(t, n, Usds(ledger')[n + 1])
  <2>2. RunningTotal(u, Usds(ledger'), n + 1) /\ u[n + 1] = t[n] + Usds(ledger')[n + 1]
    <3>1. PICK f, g : f = Usds(ledger) /\ g = Usds(ledger')
      OBVIOUS
    <3>2. RunningTotal(t, f, n) /\ Continues(g, f, n)
      BY <1>6, <1>7, <2>1, <3>1 DEF Continues
    <3>3. /\ RunningTotal(Extended(t, n, g[n + 1]), g, n + 1)
          /\ Extended(t, n, g[n + 1])[n + 1] = t[n] + g[n + 1]
      BY <1>3, <3>2, NextTotal
    <3> QED BY <3>1, <3>3
  <2> HIDE DEF u
  <2> QED BY <1>6, <2>2
<1> QED BY <1>3, <1>4, <1>7 DEF n

\* What ending a command adds to what was booked: what was pending.
LEMMA TotalOfAnEnd ==
  ASSUME PInv, pc # "idle",
         NEW how \in {"raised", "overrun", "killed", "wrote", "unwritten"}, End(how),
         NEW b, RunningTotal(b, Costs(history), Len(history))
  PROVE  /\ Pending' = 0
         /\ \E c : /\ RunningTotal(c, Costs(history'), Len(history'))
                   /\ c[Len(history')] = b[Len(history)] + Pending
<1> DEFINE n == Len(history)
<1>1. /\ pc' = "idle" /\ Len(history') = n + 1
      /\ DOMAIN history = 1..n /\ DOMAIN history' = 1..(n + 1)
      /\ \A i \in 1..n : history'[i] = history[i]
      /\ history'[n + 1].usd = run.usd
      /\ history'[n + 1].booked = (pc = "summary")
  BY Ending DEF PInv
<1>2. n \in Nat /\ run.usd \in Nat
  BY LenProperties DEF PInv, VarsOK, RunSet
<1> HIDE DEF n
<1>3. n + 1 \in 1..(n + 1) /\ \A i \in 1..n : i \in 1..(n + 1)
  BY <1>2
<1>4. \A k \in 1..n : Costs(history')[k] = Costs(history)[k]
  BY <1>1, <1>3 DEF Costs
<1>5. Costs(history')[n + 1] = Pending
  BY <1>1, <1>3 DEF Costs, Pending
<1>6. Pending \in Nat
  BY <1>2 DEF Pending
<1>7. \E c : RunningTotal(c, Costs(history'), n + 1) /\ c[n + 1] = b[n] + Pending
  <2>1. RunningTotal(b, Costs(history), n)
    BY DEF n
  <2>2. Costs(history')[n + 1] \in Nat
    BY <1>5, <1>6
  <2> DEFINE c == Extended(b, n, Costs(history')[n + 1])
  <2>3. RunningTotal(c, Costs(history'), n + 1) /\ c[n + 1] = b[n] + Costs(history')[n + 1]
    <3>1. PICK f, g : f = Costs(history) /\ g = Costs(history')
      OBVIOUS
    <3>2. RunningTotal(b, f, n) /\ Continues(g, f, n)
      BY <1>4, <2>1, <2>2, <3>1 DEF Continues
    <3> HIDE DEF c
    <3>3. n \in Nat
      BY <1>2
    <3>4. /\ RunningTotal(Extended(b, n, g[n + 1]), g, n + 1)
          /\ Extended(b, n, g[n + 1])[n + 1] = b[n] + g[n + 1]
      BY <3>2, <3>3, NextTotal, Zenon
    <3> QED BY <3>1, <3>4 DEF c
  <2> HIDE DEF c
  <2> QED BY <1>5, <2>3
<1> QED BY <1>1, <1>7 DEF n, Pending

LEMMA BooksStep == PInv /\ BooksInv /\ [Next]_vars => BooksInv'
<1> SUFFICES ASSUME PInv, BooksInv, [Next]_vars, Readable(ledger')
             PROVE  \E t, b : /\ RunningTotal(t, Usds(ledger'), Len(ledger'))
                              /\ RunningTotal(b, Costs(history'), Len(history'))
                              /\ t[Len(ledger')] >= b[Len(history')] + Pending'
  BY DEF BooksInv
<1>0. run.usd \in Nat /\ Len(history) \in Nat /\ Len(ledger) \in Nat /\ Pending \in Nat
  BY LenProperties DEF PInv, VarsOK, RunSet, Pending
<1>1. ASSUME ledger' = ledger, history' = history, Pending' = Pending
      PROVE  \E t, b : /\ RunningTotal(t, Usds(ledger'), Len(ledger'))
                       /\ RunningTotal(b, Costs(history'), Len(history'))
                       /\ t[Len(ledger')] >= b[Len(history')] + Pending'
  BY <1>1 DEF BooksInv
<1>2. UNCHANGED vars => ledger' = ledger /\ history' = history /\ Pending' = Pending
  BY DEF vars, Pending
<1>3. StartRun \/ Sample \/ InspectReturns \/ ChargePasses =>
        ledger' = ledger /\ history' = history /\ Pending' = Pending
  BY DEF StartRun, Sample, InspectReturns, ChargePasses, Pending
\* A command ends without touching the ledger: what was pending is booked.
<1>4. ASSUME InspectRaises \/ ChargeRaises \/ Kill \/ WriteFails \/ WriteSummary
      PROVE  \E t, b : /\ RunningTotal(t, Usds(ledger'), Len(ledger'))
                       /\ RunningTotal(b, Costs(history'), Len(history'))
                       /\ t[Len(ledger')] >= b[Len(history')] + Pending'
  <2>1. pc # "idle" /\ ledger' = ledger
        /\ \E how \in {"raised", "overrun", "killed", "wrote", "unwritten"} : End(how)
    BY <1>4 DEF InspectRaises, ChargeRaises, Kill, WriteFails, WriteSummary
  <2>2. PICK t, b : /\ RunningTotal(t, Usds(ledger), Len(ledger))
                    /\ RunningTotal(b, Costs(history), Len(history))
                    /\ t[Len(ledger)] >= b[Len(history)] + Pending
    BY <2>1 DEF BooksInv
  <2>3. /\ Pending' = 0
        /\ \E c : /\ RunningTotal(c, Costs(history'), Len(history'))
                  /\ c[Len(history')] = b[Len(history)] + Pending
    BY <2>1, <2>2, TotalOfAnEnd
  <2>4. PICK c : /\ RunningTotal(c, Costs(history'), Len(history'))
                 /\ c[Len(history')] = b[Len(history)] + Pending
    BY <2>3
  <2>5. b[Len(history)] \in Nat
    BY <1>0, <2>2 DEF RunningTotal
  <2>6. t[Len(ledger')] >= c[Len(history')] + Pending'
    BY <1>0, <2>1, <2>2, <2>3, <2>4, <2>5
  <2> QED BY <2>1, <2>2, <2>4, <2>6
\* The line is written: its cost covers what is pending from now on.
<1>5. ASSUME Record
      PROVE  \E t, b : /\ RunningTotal(t, Usds(ledger'), Len(ledger'))
                       /\ RunningTotal(b, Costs(history'), Len(history'))
                       /\ t[Len(ledger')] >= b[Len(history')] + Pending'
  <2>1. pc = "ledger" /\ ledger' = Appended(ledger, Line(run.usd, TRUE, FALSE))
        /\ history' = history /\ Pending = 0 /\ Pending' = run.usd
    BY <1>5 DEF Record, Pending
  <2>2. /\ Readable(ledger)
        /\ \A t : RunningTotal(t, Usds(ledger), Len(ledger)) =>
             \E u : /\ RunningTotal(u, Usds(ledger'), Len(ledger'))
                    /\ u[Len(ledger')] = t[Len(ledger)] + run.usd
    BY <2>1, TotalOfALine
  <2>3. PICK t, b : /\ RunningTotal(t, Usds(ledger), Len(ledger))
                    /\ RunningTotal(b, Costs(history), Len(history))
                    /\ t[Len(ledger)] >= b[Len(history)] + Pending
    BY <2>2 DEF BooksInv
  <2>4. PICK u : /\ RunningTotal(u, Usds(ledger'), Len(ledger'))
                 /\ u[Len(ledger')] = t[Len(ledger)] + run.usd
    BY <2>2, <2>3
  <2>5. b[Len(history)] \in Nat /\ t[Len(ledger)] \in Nat
    BY <1>0, <2>3 DEF RunningTotal
  <2>6. u[Len(ledger')] >= b[Len(history')] + Pending'
    BY <1>0, <2>1, <2>3, <2>4, <2>5
  <2> QED BY <2>1, <2>3, <2>4, <2>6
\* Killed in the middle of the line: whatever it says is more than was booked.
<1>6. ASSUME KillInRecord
      PROVE  \E t, b : /\ RunningTotal(t, Usds(ledger'), Len(ledger'))
                       /\ RunningTotal(b, Costs(history'), Len(history'))
                       /\ t[Len(ledger')] >= b[Len(history')] + Pending'
  <2>1. PICK parses \in BOOLEAN : ledger' = Appended(ledger, Line(run.usd, parses, TRUE))
    BY <1>6 DEF KillInRecord
  <2>2. pc = "ledger" /\ End("killed") /\ Pending = 0
    BY <1>6 DEF KillInRecord, Pending
  <2>3. /\ Readable(ledger)
        /\ \A t : RunningTotal(t, Usds(ledger), Len(ledger)) =>
             \E u : /\ RunningTotal(u, Usds(ledger'), Len(ledger'))
                    /\ u[Len(ledger')] = t[Len(ledger)] + run.usd
    BY <2>1, <2>2, TotalOfALine
  <2>4. PICK t, b : /\ RunningTotal(t, Usds(ledger), Len(ledger))
                    /\ RunningTotal(b, Costs(history), Len(history))
                    /\ t[Len(ledger)] >= b[Len(history)] + Pending
    BY <2>3 DEF BooksInv
  <2>5. PICK u : /\ RunningTotal(u, Usds(ledger'), Len(ledger'))
                 /\ u[Len(ledger')] = t[Len(ledger)] + run.usd
    BY <2>3, <2>4
  <2>6. /\ Pending' = 0
        /\ \E c : /\ RunningTotal(c, Costs(history'), Len(history'))
                  /\ c[Len(history')] = b[Len(history)] + Pending
    BY <2>2, <2>4, TotalOfAnEnd
  <2>7. PICK c : /\ RunningTotal(c, Costs(history'), Len(history'))
                 /\ c[Len(history')] = b[Len(history)] + Pending
    BY <2>6
  <2>8. b[Len(history)] \in Nat /\ t[Len(ledger)] \in Nat
    BY <1>0, <2>4 DEF RunningTotal
  <2>9. u[Len(ledger')] >= c[Len(history')] + Pending'
    BY <1>0, <2>2, <2>4, <2>5, <2>6, <2>7, <2>8
  <2> QED BY <2>5, <2>7, <2>9
<1> QED BY <1>1, <1>2, <1>3, <1>4, <1>5, <1>6 DEF Next

\* What was booked, as a running total.
LEMMA BookedUsdIs ==
  ASSUME PInv, NEW b, RunningTotal(b, Costs(history), Len(history))
  PROVE  BookedUsd = b[Len(history)] + Pending
<1> DEFINE n == Len(history)
           cost == [i \in 1..Id |-> IF i \notin Booked THEN 0
                                    ELSE IF i = Id THEN run.usd ELSE history[i].usd]
<1>1. n \in Nat /\ run.usd \in Nat /\ DOMAIN history = 1..n /\ Id = n + 1 /\ Pending \in Nat
  BY LenProperties DEF PInv, VarsOK, RunSet, Id, Pending
<1>2. \A i \in 1..n : cost[i] = Costs(history)[i]
  <2> HIDE DEF n
  <2> SUFFICES ASSUME NEW i \in 1..n PROVE cost[i] = Costs(history)[i]
    OBVIOUS
  <2>1. i # Id /\ i \in 1..Id /\ (i \in Booked <=> history[i].booked)
    BY <1>1 DEF Booked
  <2>2. Costs(history)[i] = IF history[i].booked THEN history[i].usd ELSE 0
    BY <1>1 DEF Costs
  <2> QED BY <2>1, <2>2
<1>3. cost[n + 1] = Pending
  <2> HIDE DEF n
  <2>1. n + 1 \in 1..Id /\ (n + 1 \in Booked <=> pc = "summary")
    BY <1>1 DEF Booked
  <2> QED BY <1>1, <2>1 DEF Pending
<1>4. BookedUsd = Total(cost, n + 1)
  BY <1>1 DEF BookedUsd
<1> HIDE DEF n, cost
<1>5. RunningTotal(b, Costs(history), n)
  BY DEF n
<1>6. Total(cost, n + 1) = b[n] + Pending
  <2>1. PICK f, g : f = Costs(history) /\ g = cost
    OBVIOUS
  <2>2. RunningTotal(b, f, n) /\ Continues(g, f, n)
    BY <1>1, <1>2, <1>3, <1>5, <2>1 DEF Continues
  <2>0. n \in Nat
    BY <1>1
  <2>3. /\ RunningTotal(Extended(b, n, g[n + 1]), g, n + 1)
        /\ Extended(b, n, g[n + 1])[n + 1] = b[n] + g[n + 1]
    BY <2>0, <2>2, NextTotal, Zenon
  <2>4. n + 1 \in Nat
    BY <2>0
  <2>5. Total(g, n + 1) = b[n] + g[n + 1]
    BY <2>3, <2>4, TotalIs
  <2> QED BY <1>3, <2>1, <2>5
<1> QED BY <1>4, <1>6 DEF n

\* total_usd raises, or it counts the cost of every run whose record call
\* returned, whichever lines were torn (budget.py: Ledger).
THEOREM LedgerNeverHides == Spec => []LedgerIsWholeOrLoud
<1>1. PInv /\ BooksInv => LedgerIsWholeOrLoud
  <2> SUFFICES ASSUME PInv, BooksInv, Readable(ledger)
               PROVE  TotalUsd(ledger) >= BookedUsd
    BY DEF LedgerIsWholeOrLoud
  <2>1. PICK t, b : /\ RunningTotal(t, Usds(ledger), Len(ledger))
                    /\ RunningTotal(b, Costs(history), Len(history))
                    /\ t[Len(ledger)] >= b[Len(history)] + Pending
    BY DEF BooksInv
  <2>2. Len(ledger) \in Nat
    BY LenProperties DEF PInv, VarsOK
  <2>3. TotalUsd(ledger) = t[Len(ledger)]
    <3>1. TotalUsd(ledger) = Total(Usds(ledger), Len(ledger))
      BY DEF TotalUsd, Usds
    <3>2. PICK f : f = Usds(ledger)
      OBVIOUS
    <3>3. Total(f, Len(ledger)) = t[Len(ledger)]
      BY <2>1, <2>2, <3>2, TotalIs
    <3> QED BY <3>1, <3>2, <3>3
  <2>4. BookedUsd = b[Len(history)] + Pending
    BY <2>1, BookedUsdIs
  <2> QED BY <2>1, <2>3, <2>4
<1> QED BY <1>1, PInvariant, BooksInit, BooksStep, PTL DEF Spec

===============================================================================
