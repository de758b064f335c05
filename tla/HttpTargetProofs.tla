---------------------------- MODULE HttpTargetProofs ----------------------------
(***************************************************************************)
(* Proofs about HttpTarget, for every number of cases, every cost and any  *)
(* behaviour of the server and of its other clients.                       *)
(*                                                                         *)
(* Three inductive invariants over the types: Covered, that the money the  *)
(* open reading of the meter can still be charged was spent; Alone, that a *)
(* client by itself has only its own request at work; and Charged, that    *)
(* its meter then moves with the run of the case in hand alone.            *)
(***************************************************************************)
EXTENDS HttpTarget, SequenceTheorems, NaturalsInduction, WellFoundedInduction, TLAPS

USE DEF RunFor, ApprovalOf, Other

-----------------------------------------------------------------------------
(***************************************************************************)
(* Types                                                                   *)
(***************************************************************************)
\* The initial state has its types.
LEMMA TypeInit == Init => TypeOK
  <1> SUFFICES ASSUME Init PROVE TypeOK
    OBVIOUS
  <1>1. FlagTypes
    BY HttpAssumption, Zenon DEF Init, HttpAssumption, FlagTypes
  <1>2. ClientTypes
    BY HttpAssumption DEF Init, HttpAssumption, ClientTypes
  <1>3. ServerTypes
    BY DEF Init, ServerTypes
  <1>4. Linked /\ ResultTypes
    BY DEF Init, Linked, ResultTypes
  <1> QED
    BY <1>1, <1>2, <1>3, <1>4 DEF TypeOK

\* A set of natural numbers that is not empty has a smallest element.
LEMMA SmallestOf ==
  ASSUME NEW S \in SUBSET Nat, S # {}
  PROVE  \E i \in S : \A k \in S : i <= k
  <1>1. PICK i \in S : \A k \in S : ~ (<<k, i>> \in OpToRel(<, Nat))
    BY NatLessThanWellFounded, WFMin
  <1>2. \A k \in S : k \in Nat /\ i \in Nat /\ ~(k < i)
    BY <1>1 DEF OpToRel
  <1> QED
    BY <1>2

\* The newest approval is one of those that are pending, and none is newer.
LEMMA NewestIsPending ==
  ASSUME ServerTypes, Linked, pending # {}
  PROVE  /\ Newest \in pending
         /\ \A b \in pending : b.created_at <= Newest.created_at
  <1> DEFINE Ages == {parked - a.created_at : a \in pending}
  <1>1. parked \in Nat /\ \A a \in pending : a.created_at \in Nat /\ a.created_at <= parked
    BY DEF ServerTypes, Linked, Approvals
  <1>2. Ages \in SUBSET Nat /\ Ages # {}
    BY <1>1
  <1>3. PICK age \in Ages : \A k \in Ages : age <= k
    BY <1>2, SmallestOf
  <1>4. PICK a \in pending : age = parked - a.created_at
    BY <1>3
  <1>5. \A b \in pending : b.created_at <= a.created_at
    <2> SUFFICES ASSUME NEW b \in pending PROVE b.created_at <= a.created_at
      OBVIOUS
    <2>1. parked - a.created_at <= parked - b.created_at
      BY <1>3, <1>4
    <2> QED
      BY <1>1, <2>1
  <1> QED
    BY <1>5 DEF Newest

\* Setting one run leaves a sequence of as many runs.
LEMMA RunSet ==
  ASSUME runs \in Seq(Runs), NEW r \in DOMAIN runs, NEW v \in Runs
  PROVE  /\ [runs EXCEPT ![r] = v] \in Seq(Runs)
         /\ DOMAIN [runs EXCEPT ![r] = v] = DOMAIN runs
         /\ [runs EXCEPT ![r] = v][r] = v
         /\ \A k \in DOMAIN runs : k # r => [runs EXCEPT ![r] = v][k] = runs[k]
  BY ExceptSeq

\* Every action of the client keeps the types.
LEMMA TypeClient == TypeOK /\ Client => TypeOK'
  <1> SUFFICES ASSUME TypeOK, Client PROVE TypeOK'
    OBVIOUS
  <1> USE HttpAssumption DEF HttpAssumption
  <1>1. CASE ReadBefore
    <2>1. FlagTypes'
      BY <1>1, Zenon DEF ReadBefore, server, TypeOK, FlagTypes
    <2>2. ClientTypes'
      BY <1>1 DEF ReadBefore, server, CostTotal, TypeOK, ClientTypes, ServerTypes
    <2>3. ServerTypes'
      BY <1>1 DEF ReadBefore, server, TypeOK, ServerTypes, ClientTypes
    <2>4. Linked'
      BY <1>1 DEF ReadBefore, server, TypeOK, Linked, ClientTypes, ServerTypes
    <2>5. ResultTypes'
      BY <1>1 DEF ReadBefore, server, TypeOK, ResultTypes, ClientTypes
    <2> QED
      BY <2>1, <2>2, <2>3, <2>4, <2>5 DEF TypeOK
  <1>2. CASE PostRun
    <2>1. FlagTypes'
      BY <1>2, Zenon DEF PostRun, Send, TypeOK, FlagTypes
    <2>2. ClientTypes'
      BY <1>2 DEF PostRun, Send, Requests, TypeOK, ClientTypes, ServerTypes
    <2>3. ServerTypes'
      BY <1>2 DEF PostRun, Send, Requests, TypeOK, ServerTypes, ClientTypes
    <2>4. Linked'
      BY <1>2 DEF PostRun, Send, TypeOK, Linked, ClientTypes, ServerTypes
    <2>5. ResultTypes'
      BY <1>2 DEF PostRun, Send, TypeOK, ResultTypes, ClientTypes
    <2> QED
      BY <2>1, <2>2, <2>3, <2>4, <2>5 DEF TypeOK
  <1>3. CASE RunAnswered
    <2>1. FlagTypes'
      BY <1>3, Zenon DEF RunAnswered, server, TypeOK, FlagTypes
    <2>2. ClientTypes'
      BY <1>3 DEF RunAnswered, server, TypeOK, ClientTypes, ServerTypes
    <2>3. ServerTypes'
      BY <1>3 DEF RunAnswered, server, TypeOK, ServerTypes, ClientTypes
    <2>4. Linked'
      BY <1>3 DEF RunAnswered, server, TypeOK, Linked, ClientTypes, ServerTypes
    <2>5. ResultTypes'
      BY <1>3 DEF RunAnswered, server, TypeOK, ResultTypes, ClientTypes
    <2> QED
      BY <2>1, <2>2, <2>3, <2>4, <2>5 DEF TypeOK
  <1>4. CASE ListApprovals
    <2>1. FlagTypes'
      BY <1>4, Zenon DEF ListApprovals, Send, TypeOK, FlagTypes
    <2>2. ClientTypes'
      <3>1. pending # {} => Newest \in Approvals
        BY NewestIsPending DEF TypeOK, ServerTypes
      <3> QED
        BY <1>4, <3>1 DEF ListApprovals, Send, Requests, TypeOK, ClientTypes, ServerTypes
    <2>3. ServerTypes'
      <3>1. pending # {} => Newest \in Approvals
        BY NewestIsPending DEF TypeOK, ServerTypes
      <3> QED
        BY <1>4, <3>1 DEF ListApprovals, Send, Requests, TypeOK, ServerTypes, ClientTypes
    <2>4. Linked'
      <3>1. pending # {} => Newest.run \in DOMAIN runs
        BY NewestIsPending DEF TypeOK, Linked
      <3>2. \A q \in inbox' : q \in inbox \/ (pending # {} /\ q = ApprovalOf(case, Newest))
        BY <1>4 DEF ListApprovals, Send
      <3> QED
        BY <1>4, <3>1, <3>2 DEF ListApprovals, Send, TypeOK, Linked
    <2>5. ResultTypes'
      BY <1>4 DEF ListApprovals, Send, TypeOK, ResultTypes, ClientTypes
    <2> QED
      BY <2>1, <2>2, <2>3, <2>4, <2>5 DEF TypeOK
  <1>5. CASE ApprovalAnswered
    <2>1. FlagTypes'
      BY <1>5, Zenon DEF ApprovalAnswered, server, TypeOK, FlagTypes
    <2>2. ClientTypes'
      BY <1>5 DEF ApprovalAnswered, server, TypeOK, ClientTypes, ServerTypes
    <2>3. ServerTypes'
      BY <1>5 DEF ApprovalAnswered, server, TypeOK, ServerTypes, ClientTypes
    <2>4. Linked'
      BY <1>5 DEF ApprovalAnswered, server, TypeOK, Linked, ClientTypes, ServerTypes
    <2>5. ResultTypes'
      BY <1>5 DEF ApprovalAnswered, server, TypeOK, ResultTypes, ClientTypes
    <2> QED
      BY <2>1, <2>2, <2>3, <2>4, <2>5 DEF TypeOK
  <1>6. CASE ReadAfter
    <2>1. FlagTypes'
      BY <1>6, Zenon DEF ReadAfter, NextCase, server, TypeOK, FlagTypes
    <2>2. ClientTypes'
      BY <1>6 DEF ReadAfter, NextCase, server, CostTotal, CostUsd, TypeOK, ClientTypes, ServerTypes
    <2>3. ServerTypes'
      BY <1>6 DEF ReadAfter, NextCase, server, TypeOK, ServerTypes, ClientTypes
    <2>4. Linked'
      BY <1>6 DEF ReadAfter, NextCase, server, TypeOK, Linked, ClientTypes, ServerTypes
    <2>5. ResultTypes'
      <3>1. record.run \in DOMAIN runs /\ record.run \in Nat
        BY <1>6 DEF ReadAfter, TypeOK, Linked, Answers
      <3>2. runs[record.run].case \in Nat
        <4>1. runs[record.run] \in Runs
          BY <3>1, ElementOfSeq DEF TypeOK, ServerTypes
        <4> QED
          BY <4>1 DEF Runs
      <3>3. PICK after \in CostTotal :
              results' = Append(results,
                [run |-> record.run, of |-> runs[record.run].case, approved |-> approved,
                 cost |-> CostUsd(after), cost_unavailable |-> cost_before = None \/ after = None])
        BY <1>6 DEF ReadAfter
      <3>4. CostUsd(after) \in Nat
        BY <3>3 DEF CostTotal, CostUsd, TypeOK, ClientTypes, ServerTypes
      <3>5. (cost_before = None \/ after = None) \in BOOLEAN
        OBVIOUS
      <3>6. results' \in Seq(Trajectories \cup {None}) /\ Len(results') = Len(results) + 1
        BY <3>1, <3>2, <3>3, <3>4, <3>5, AppendProperties
           DEF Trajectories, TypeOK, ResultTypes, FlagTypes
      <3> QED
        BY <1>6, <3>6 DEF ReadAfter, NextCase, TypeOK, ResultTypes, ClientTypes
    <2> QED
      BY <2>1, <2>2, <2>3, <2>4, <2>5 DEF TypeOK
  <1>7. CASE RequestFails
    <2>1. FlagTypes'
      BY <1>7, Zenon DEF RequestFails, NextCase, server, TypeOK, FlagTypes
    <2>2. ClientTypes'
      BY <1>7 DEF RequestFails, NextCase, server, TypeOK, ClientTypes, ServerTypes
    <2>3. ServerTypes'
      BY <1>7 DEF RequestFails, NextCase, server, TypeOK, ServerTypes, ClientTypes
    <2>4. Linked'
      BY <1>7 DEF RequestFails, NextCase, server, TypeOK, Linked, ClientTypes, ServerTypes
    <2>5. ResultTypes'
      BY <1>7 DEF RequestFails, NextCase, server, TypeOK, ResultTypes, ClientTypes
    <2> QED
      BY <2>1, <2>2, <2>3, <2>4, <2>5 DEF TypeOK
  <1> QED
    BY <1>1, <1>2, <1>3, <1>4, <1>5, <1>6, <1>7 DEF Client

\* A resumed run is a run, and there are as many as before.
LEMMA Resumed ==
  ASSUME TypeOK, NEW a \in pending, NEW q \in Requests \cup {None}
  PROVE  /\ Running(a.run, q) \in Seq(Runs)
         /\ DOMAIN Running(a.run, q) = DOMAIN runs
  <1>1. a.run \in DOMAIN runs /\ runs \in Seq(Runs)
    BY DEF TypeOK, Linked, ServerTypes
  <1>2. runs[a.run] \in Runs
    BY <1>1, ElementOfSeq
  <1>3. [runs[a.run] EXCEPT !.status = "running", !.awaited = q] \in Runs
    BY <1>2 DEF Runs
  <1> QED
    BY <1>1, <1>3, RunSet DEF Running

\* So is a run that was worked on.
LEMMA Worked ==
  ASSUME TypeOK, NEW r \in DOMAIN runs, NEW cost \in Costs, Work(r, cost)
  PROVE  runs' \in Seq(Runs) /\ DOMAIN runs' = DOMAIN runs
  <1>1. runs \in Seq(Runs) /\ cost \in Nat
    BY HttpAssumption DEF HttpAssumption, TypeOK, ServerTypes
  <1>2. runs[r] \in Runs
    BY <1>1, ElementOfSeq
  <1>3. PICK status \in {"completed", "waiting_approval"} :
          runs' = [runs EXCEPT ![r] =
                     [runs[r] EXCEPT !.status = status, !.awaited = None, !.cost = @ + cost]]
    BY DEF Work
  <1> DEFINE worked == [runs[r] EXCEPT !.status = status, !.awaited = None, !.cost = @ + cost]
  <1>4. runs[r].cost + cost \in Nat
    BY <1>1, <1>2 DEF Runs
  <1>5. worked \in Runs
    BY <1>2, <1>4 DEF Runs
  <1>6. runs' = [runs EXCEPT ![r] = worked]
    BY <1>3
  <1> HIDE DEF worked
  <1> QED
    BY <1>1, <1>5, <1>6, RunSet

\* Every action of the server and of its other clients keeps the types.
LEMMA TypeServer == TypeOK /\ Server => TypeOK'
  <1> SUFFICES ASSUME TypeOK, Server PROVE TypeOK'
    OBVIOUS
  <1> USE HttpAssumption DEF HttpAssumption
  <1>1. ASSUME NEW q \in inbox, Start(q) PROVE TypeOK'
    <2>1. FlagTypes'
      BY <1>1, Zenon DEF Start, Unserved, TypeOK, FlagTypes
    <2>2. ClientTypes'
      BY <1>1 DEF Start, Unserved, TypeOK, ClientTypes, ServerTypes
    <2>3. ServerTypes'
      BY <1>1 DEF Start, Unserved, NewRun, Requests, Runs, TypeOK, ServerTypes, ClientTypes
    <2>4. Linked'
      BY <1>1 DEF Start, Unserved, NewRun, TypeOK, Linked, ClientTypes, ServerTypes
    <2>5. ResultTypes'
      BY <1>1 DEF Start, Unserved, TypeOK, ResultTypes, ClientTypes
    <2> QED
      BY <2>1, <2>2, <2>3, <2>4, <2>5 DEF TypeOK
  <1>2. ASSUME NEW q \in inbox, Approve(q) PROVE TypeOK'
    <2>1. FlagTypes'
      BY <1>2, Zenon DEF Approve, Unserved, AnswerTo, TypeOK, FlagTypes
    <2>2. ClientTypes'
      <3>1. q.approval.run \in Nat
        BY <1>2 DEF Approve, TypeOK, ServerTypes, Requests, Approvals
      <3>2. answer' \in Answers \cup {None}
        BY <1>2, <3>1 DEF Approve, AnswerTo, Answers, TypeOK, ClientTypes
      <3> QED
        BY <1>2, <3>2 DEF Approve, Unserved, TypeOK, ClientTypes
    <2>3. ServerTypes'
      <3>1. runs' \in Seq(Runs)
        BY <1>2, Resumed DEF Approve, TypeOK, ServerTypes
      <3> QED
        BY <1>2, <3>1 DEF Approve, Unserved, TypeOK, ServerTypes
    <2>4. Linked'
      <3>1. DOMAIN runs' = DOMAIN runs
        BY <1>2, Resumed DEF Approve, TypeOK, ServerTypes
      <3>2. q.approval.run \in Nat
        BY <1>2 DEF Approve, TypeOK, ServerTypes, Requests, Approvals
      <3>3. answer' # None => answer'.run \in DOMAIN runs
        BY <1>2, <3>2 DEF Approve, AnswerTo, TypeOK, Linked, ServerTypes, Requests
      <3>4. \A a \in pending' : a \in pending /\ parked' = parked
        BY <1>2 DEF Approve
      <3> QED
        BY <1>2, <3>1, <3>3, <3>4 DEF Approve, Unserved, TypeOK, Linked
    <2>5. ResultTypes'
      BY <1>2 DEF Approve, Unserved, AnswerTo, TypeOK, ResultTypes, ClientTypes
    <2> QED
      BY <2>1, <2>2, <2>3, <2>4, <2>5 DEF TypeOK
  <1>3. ASSUME NEW r \in DOMAIN runs, NEW cost \in Costs, Work(r, cost) PROVE TypeOK'
    <2>1. FlagTypes'
      BY <1>3, Zenon DEF Work, Unserved, AnswerTo, TypeOK, FlagTypes
    <2>2. ClientTypes'
      BY <1>3 DEF Work, Unserved, AnswerTo, Answers, TypeOK, ClientTypes, ServerTypes
    <2>3. ServerTypes'
      <3>1. runs' \in Seq(Runs)
        BY <1>3, Worked
      <3> QED
        BY <1>3, <3>1 DEF Work, Unserved, Approvals, TypeOK, ServerTypes
    <2>4. Linked'
      <3>1. DOMAIN runs' = DOMAIN runs
        BY <1>3, Worked
      <3>2. answer' # None => answer'.run \in DOMAIN runs
        BY <1>3 DEF Work, AnswerTo, TypeOK, Linked
      <3>3. parked' \in Nat /\ parked <= parked'
        BY <1>3 DEF Work, TypeOK, ServerTypes
      <3>4. \A a \in pending' : a.run \in DOMAIN runs /\ a.created_at <= parked'
        BY <1>3, <3>3 DEF Work, TypeOK, Linked, ServerTypes, Approvals
      <3> QED
        BY <1>3, <3>1, <3>2, <3>4 DEF Work, Unserved, TypeOK, Linked
    <2>5. ResultTypes'
      BY <1>3 DEF Work, Unserved, AnswerTo, TypeOK, ResultTypes, ClientTypes
    <2> QED
      BY <2>1, <2>2, <2>3, <2>4, <2>5 DEF TypeOK
  <1>4. CASE Restart
    <2>1. FlagTypes'
      BY <1>4, Zenon DEF Restart, Unserved, TypeOK, FlagTypes
    <2>2. ClientTypes'
      BY <1>4 DEF Restart, Unserved, TypeOK, ClientTypes, ServerTypes
    <2>3. ServerTypes'
      <3>1. ASSUME NEW k \in DOMAIN runs
            PROVE  [runs[k] EXCEPT !.status = "gone", !.awaited = None] \in Runs
        <4>1. runs[k] \in Runs
          BY ElementOfSeq DEF TypeOK, ServerTypes
        <4> QED
          BY <4>1 DEF Runs
      <3>2. DOMAIN runs = 1..Len(runs) /\ Len(runs) \in Nat
        BY LenProperties DEF TypeOK, ServerTypes
      <3>3. runs' = [k \in 1..Len(runs) |-> [runs[k] EXCEPT !.status = "gone", !.awaited = None]]
        BY <1>4, <3>2 DEF Restart
      <3>4. runs' \in Seq(Runs)
        <4>1. runs' \in [1..Len(runs) -> Runs]
          BY <3>1, <3>2, <3>3
        <4> QED
          BY <3>2, <4>1, SeqDef
      <3>5. /\ inbox' = {} /\ pending' = {} /\ meter' = 0
            /\ spent' = spent /\ parked' = parked /\ restarts' = restarts + 1
        BY <1>4 DEF Restart
      <3> QED
        BY <3>4, <3>5 DEF TypeOK, ServerTypes
    <2>4. Linked'
      BY <1>4 DEF Restart, Unserved, TypeOK, Linked, ClientTypes, ServerTypes
    <2>5. ResultTypes'
      BY <1>4 DEF Restart, Unserved, TypeOK, ResultTypes, ClientTypes
    <2> QED
      BY <2>1, <2>2, <2>3, <2>4, <2>5 DEF TypeOK
  <1>5. CASE OtherPosts
    <2>1. FlagTypes'
      BY <1>5, Zenon DEF OtherPosts, Unserved, TypeOK, FlagTypes
    <2>2. ClientTypes'
      BY <1>5 DEF OtherPosts, Unserved, TypeOK, ClientTypes, ServerTypes
    <2>3. ServerTypes'
      BY <1>5 DEF OtherPosts, Unserved, NewRun, Runs, TypeOK, ServerTypes, ClientTypes
    <2>4. Linked'
      BY <1>5 DEF OtherPosts, Unserved, NewRun, TypeOK, Linked, ClientTypes, ServerTypes
    <2>5. ResultTypes'
      BY <1>5 DEF OtherPosts, Unserved, TypeOK, ResultTypes, ClientTypes
    <2> QED
      BY <2>1, <2>2, <2>3, <2>4, <2>5 DEF TypeOK
  <1>6. CASE OtherApproves
    <2>1. FlagTypes'
      BY <1>6, Zenon DEF OtherApproves, Unserved, TypeOK, FlagTypes
    <2>2. ClientTypes'
      BY <1>6 DEF OtherApproves, Unserved, TypeOK, ClientTypes, ServerTypes
    <2>3. ServerTypes'
      <3>1. runs' \in Seq(Runs)
        BY <1>6, Resumed DEF OtherApproves, TypeOK, ServerTypes, Linked
      <3> QED
        BY <1>6, <3>1 DEF OtherApproves, Unserved, TypeOK, ServerTypes
    <2>4. Linked'
      BY <1>6 DEF OtherApproves, Unserved, Running, TypeOK, Linked, ClientTypes, ServerTypes
    <2>5. ResultTypes'
      BY <1>6 DEF OtherApproves, Unserved, TypeOK, ResultTypes, ClientTypes
    <2> QED
      BY <2>1, <2>2, <2>3, <2>4, <2>5 DEF TypeOK
  <1> QED
    BY <1>1, <1>2, <1>3, <1>4, <1>5, <1>6 DEF Server

\* Every behaviour keeps the types.
LEMMA Types == Spec => []TypeOK
  <1>1. TypeOK /\ [Next]_vars => TypeOK'
    <2> SUFFICES ASSUME TypeOK, [Next]_vars PROVE TypeOK'
      OBVIOUS
    <2>1. CASE Client
      BY <2>1, TypeClient
    <2>2. CASE Server
      BY <2>2, TypeServer
    <2>3. CASE UNCHANGED vars
      BY <2>3 DEF vars, client, server, TypeOK, FlagTypes, ClientTypes, ServerTypes, Linked,
                  ResultTypes
    <2> QED
      BY <2>1, <2>2, <2>3 DEF Next
  <1> QED
    BY <1>1, TypeInit, PTL DEF Spec

(***************************************************************************)
(* The state of a suite on the HTTP target keeps its types, for every      *)
(* number of cases and every server.                                       *)
(***************************************************************************)
THEOREM TypeCorrect == Spec => []TypeOK
  BY Types

-----------------------------------------------------------------------------
(***************************************************************************)
(* Charges                                                                 *)
(***************************************************************************)
\* What has been charged and what the open reading can still charge were
\* spent.
Covered ==
  /\ charged <= spent
  /\ cost_before # None => charged + (meter - cost_before) <= spent

\* A step of the client keeps Covered: the reading that opens a case charges
\* nothing yet, the one that closes it charges what the first one left open.
LEMMA CoveredClient == TypeOK /\ Covered /\ Client => Covered'
  <1> SUFFICES ASSUME TypeOK, Covered, Client PROVE Covered'
    OBVIOUS
  <1>1. /\ charged \in Nat /\ meter \in Nat /\ spent \in Nat
        /\ cost_before \in Nat \cup {None} /\ None \notin Int
    BY HttpAssumption DEF HttpAssumption, TypeOK, ClientTypes, ServerTypes
  <1>2. CASE ReadBefore
    <2>1. /\ cost_before' = meter \/ cost_before' = None
          /\ meter' = meter /\ spent' = spent /\ charged' = charged
      BY <1>2 DEF ReadBefore, CostTotal, server
    <2> QED
      BY <1>1, <2>1 DEF Covered
  <1>3. CASE PostRun \/ ListApprovals
    BY <1>3 DEF PostRun, ListApprovals, Covered
  <1>4. CASE RunAnswered \/ ApprovalAnswered
    BY <1>4 DEF RunAnswered, ApprovalAnswered, Covered, server
  <1>5. CASE ReadAfter
    <2>1. PICK after \in CostTotal : charged' = charged + CostUsd(after)
      BY <1>5 DEF ReadAfter
    <2>2. charged + CostUsd(after) <= spent
      BY <1>1, <2>1 DEF CostTotal, CostUsd, Covered
    <2> QED
      BY <1>5, <2>1, <2>2 DEF ReadAfter, NextCase, Covered, server
  <1>6. CASE RequestFails
    BY <1>6 DEF RequestFails, NextCase, Covered, server
  <1> QED
    BY <1>2, <1>3, <1>4, <1>5, <1>6 DEF Client

\* A step of the server keeps Covered: work raises the meter by what it
\* costs, and a restart only takes from it.
LEMMA CoveredServer == TypeOK /\ Covered /\ Server => Covered'
  <1> SUFFICES ASSUME TypeOK, Covered, Server PROVE Covered'
    OBVIOUS
  <1>1. /\ charged \in Nat /\ meter \in Nat /\ spent \in Nat
        /\ cost_before \in Nat \cup {None} /\ None \notin Int
    BY HttpAssumption DEF HttpAssumption, TypeOK, ClientTypes, ServerTypes
  <1>2. ASSUME NEW q \in inbox, Start(q) \/ Approve(q) PROVE Covered'
    BY <1>2 DEF Start, Approve, Unserved, Covered
  <1>3. ASSUME NEW r \in DOMAIN runs, NEW cost \in Costs, Work(r, cost) PROVE Covered'
    <2>1. cost \in Nat
      BY HttpAssumption DEF HttpAssumption
    <2>2. /\ meter' = meter + cost /\ spent' = spent + cost
          /\ charged' = charged /\ cost_before' = cost_before
      BY <1>3 DEF Work, Unserved
    <2> QED
      BY <1>1, <2>1, <2>2 DEF Covered
  <1>4. CASE Restart
    <2>1. /\ meter' = 0 /\ spent' = spent
          /\ charged' = charged /\ cost_before' = cost_before
      BY <1>4 DEF Restart, Unserved
    <2>2. cost_before # None => charged + (0 - cost_before) <= spent
      BY <1>1 DEF Covered
    <2> QED
      BY <1>1, <2>1, <2>2 DEF Covered
  <1>5. CASE OtherPosts \/ OtherApproves
    BY <1>5 DEF OtherPosts, OtherApproves, Unserved, Covered
  <1> QED
    BY <1>2, <1>3, <1>4, <1>5 DEF Server

(***************************************************************************)
(* Whichever reads of /costs fail, and although the server restarts and    *)
(* others spend on it, the cases together are never charged more than it   *)
(* spent, as long as its answers carry total_usd (run, _cost_total).       *)
(***************************************************************************)
THEOREM NothingIsChargedTwice == Spec => []ChargesAreCovered
  <1>1. Init => Covered
    BY DEF Init, Covered
  <1>2. TypeOK /\ Covered /\ [Next]_vars => Covered'
    <2>1. UNCHANGED vars /\ Covered => Covered'
      BY DEF vars, client, server, Covered
    <2> QED
      BY <2>1, CoveredClient, CoveredServer DEF Next
  <1>3. Covered => ChargesAreCovered
    BY DEF Covered, ChargesAreCovered
  <1> QED
    BY <1>1, <1>2, <1>3, Types, PTL DEF Spec

-----------------------------------------------------------------------------
(***************************************************************************)
(* Records                                                                 *)
(***************************************************************************)
Waiting == pc \in {"running", "approving"}

\* run() waits for the request its place in the code has sent.
Awaits ==
  /\ pc = "running" => request.kind = "run" /\ request.case = case
  /\ pc = "approving" => request.kind = "approve" /\ request.approval.run = record.run

\* Nothing is on its way to the server but the request run() waits for ...
InboxMine == \A q \in inbox : Waiting /\ answer = None /\ q = request

\* ... and no run is at work but the one that request started or resumed.
RunningMine ==
  \A r \in DOMAIN runs : runs[r].status = "running" =>
    /\ Waiting /\ answer = None /\ inbox = {} /\ runs[r].awaited = request
    /\ pc = "running" => runs[r].case = case
    /\ pc = "approving" => r = record.run
    /\ \A k \in DOMAIN runs : runs[k].status = "running" => k = r

\* The approval of run r is the newest, unless a restart took it away.
Dated(r) ==
  /\ pending # {} => [run |-> r, created_at |-> parked] \in pending
  /\ \A a \in pending : a.created_at = parked => a.run = r

AnswerMine ==
  answer # None =>
    /\ pc = "running" => /\ runs[answer.run].case = case
                         /\ answer.status = "waiting_approval" => Dated(answer.run)
    /\ pc = "approving" => answer.run = record.run

RecordMine ==
  /\ pc \in {"list", "approving", "cost"} => runs[record.run].case = case
  /\ pc = "list" => Dated(record.run)

ResultsMine == \A c \in DOMAIN results : results[c] # None => results[c].of = c

Mine == Awaits /\ InboxMine /\ RunningMine /\ AnswerMine /\ RecordMine /\ ResultsMine
Alone == ~shared /\ ~given_up => Mine

\* A step that only the client takes part in and that touches no run.
LEMMA MineReading ==
  ASSUME TypeOK, Mine, ReadBefore \/ RunAnswered \/ ApprovalAnswered
  PROVE  Mine'
  <1> USE DEF Waiting
  <1>1. CASE ReadBefore
    <2>1. /\ pc = "start" /\ pc' = "post"
          /\ UNCHANGED <<case, record, request, answer, results, inbox, runs, pending, parked>>
      BY <1>1 DEF ReadBefore, server
    <2> QED
      BY <2>1 DEF Mine, Awaits, InboxMine, RunningMine, AnswerMine, RecordMine, ResultsMine, Dated
  <1>2. CASE RunAnswered
    <2>1. /\ pc = "running" /\ answer # None /\ record' = answer /\ answer' = None
          /\ (pc' = "list" /\ answer.status = "waiting_approval") \/ pc' = "cost"
          /\ UNCHANGED <<case, results, inbox, runs, pending, parked>>
      BY <1>2 DEF RunAnswered, server
    <2> QED
      BY <2>1 DEF Mine, Awaits, InboxMine, RunningMine, AnswerMine, RecordMine, ResultsMine, Dated
  <1>3. CASE ApprovalAnswered
    <2>1. /\ pc = "approving" /\ answer # None /\ pc' = "cost" /\ answer' = None
          /\ record' = answer \/ record' = record
          /\ UNCHANGED <<case, results, inbox, runs, pending, parked>>
      BY <1>3 DEF ApprovalAnswered, server
    <2> QED
      BY <2>1 DEF Mine, Awaits, InboxMine, RunningMine, AnswerMine, RecordMine, ResultsMine, Dated
  <1> QED
    BY <1>1, <1>2, <1>3

\* A request is sent only when nothing is at work, and the newest approval
\* is that of the run in hand.
LEMMA MineSending ==
  ASSUME TypeOK, Mine, PostRun \/ ListApprovals
  PROVE  Mine'
  <1> USE DEF Waiting
  <1>1. CASE PostRun
    <2>1. /\ pc = "post" /\ pc' = "running" /\ request' = RunFor(case) /\ answer' = None
          /\ inbox' = inbox \cup {RunFor(case)}
          /\ UNCHANGED <<case, record, results, runs, pending, parked>>
      BY <1>1 DEF PostRun, Send
    <2>2. inbox' = {RunFor(case)} /\ \A r \in DOMAIN runs : runs[r].status # "running"
      BY <2>1 DEF Mine, InboxMine, RunningMine
    <2> QED
      BY <2>1, <2>2 DEF Mine, Awaits, InboxMine, RunningMine, AnswerMine, RecordMine, ResultsMine
  <1>2. CASE ListApprovals /\ pending = {}
    <2>1. /\ pc = "list" /\ pc' = "cost"
          /\ UNCHANGED <<case, record, request, answer, results, inbox, runs, pending, parked>>
      BY <1>2 DEF ListApprovals
    <2> QED
      BY <2>1 DEF Mine, Awaits, InboxMine, RunningMine, AnswerMine, RecordMine, ResultsMine
  <1>3. CASE ListApprovals /\ pending # {}
    <2>1. /\ pc = "list" /\ pc' = "approving" /\ request' = ApprovalOf(case, Newest)
          /\ answer' = None /\ inbox' = inbox \cup {ApprovalOf(case, Newest)}
          /\ UNCHANGED <<case, record, results, runs, pending, parked>>
      BY <1>3 DEF ListApprovals, Send
    <2>2. inbox' = {ApprovalOf(case, Newest)} /\ \A r \in DOMAIN runs : runs[r].status # "running"
      BY <2>1 DEF Mine, InboxMine, RunningMine
    <2>3. Newest.run = record.run
      <3>1. Newest \in pending /\ parked <= Newest.created_at
        BY <1>3, <2>1, NewestIsPending DEF TypeOK, Mine, RecordMine, Dated
      <3>2. Newest.created_at <= parked /\ Newest.created_at \in Nat /\ parked \in Nat
        BY <3>1 DEF TypeOK, Linked, ServerTypes, Approvals
      <3> QED
        BY <2>1, <3>1, <3>2 DEF Mine, RecordMine, Dated
    <2> QED
      BY <2>1, <2>2, <2>3
         DEF Mine, Awaits, InboxMine, RunningMine, AnswerMine, RecordMine, ResultsMine
  <1> QED
    BY <1>1, <1>2, <1>3

\* A case ends with nothing at work, unless its request is given up.
LEMMA MineEnding ==
  ASSUME TypeOK, Mine, ReadAfter \/ (RequestFails /\ ~given_up')
  PROVE  Mine'
  <1> USE DEF Waiting
  <1>1. /\ pc' = "start" /\ case' = case + 1
        /\ UNCHANGED <<inbox, runs, pending, parked>>
    BY DEF ReadAfter, RequestFails, NextCase, server
  <1>2. inbox = {} /\ \A r \in DOMAIN runs : runs[r].status # "running"
    <2>1. CASE pc \in {"list", "cost"}
      BY <2>1 DEF Mine, InboxMine, RunningMine
    <2>2. CASE RequestFails /\ pc # "list" /\ ~given_up'
      BY <2>2 DEF RequestFails, AtWork, Mine, InboxMine, RunningMine
    <2> QED
      BY <2>1, <2>2 DEF ReadAfter, RequestFails
  <1>3. ResultsMine'
    <2>1. results \in Seq(Trajectories \cup {None}) /\ Len(results) = case - 1 /\ case \in Nat
      BY HttpAssumption DEF HttpAssumption, TypeOK, ResultTypes, ClientTypes
    <2>2. CASE ReadAfter
      <3>1. PICK t : results' = Append(results, t) /\ t.of = runs[record.run].case /\ pc = "cost"
        BY <2>2 DEF ReadAfter
      <3>2. t.of = case
        BY <3>1 DEF Mine, RecordMine
      <3> QED
        BY <2>1, <3>1, <3>2, AppendProperties DEF Mine, ResultsMine
    <2>3. CASE RequestFails
      <3>1. results' = Append(results, None)
        BY <2>3 DEF RequestFails
      <3> QED
        BY <2>1, <3>1, AppendProperties DEF Mine, ResultsMine
    <2> QED
      BY <2>2, <2>3
  <1> QED
    BY <1>1, <1>2, <1>3 DEF Mine, Awaits, InboxMine, RunningMine, AnswerMine, RecordMine

\* The server starts a run for the request in hand.
LEMMA MineStart ==
  ASSUME TypeOK, Mine, NEW q \in inbox, Start(q)
  PROVE  Mine'
  <1> USE DEF Waiting
  <1> DEFINE n == Len(runs) + 1
  <1>1. /\ runs' = Append(runs, NewRun(q.case, q)) /\ inbox' = inbox \ {q}
        /\ UNCHANGED <<case, pc, record, request, answer, results, pending, parked>>
    BY DEF Start, Unserved
  <1>2. /\ Waiting /\ q = request /\ answer = None /\ inbox' = {}
        /\ \A r \in DOMAIN runs : runs[r].status # "running"
    BY <1>1 DEF Mine, InboxMine, RunningMine
  <1>3. pc = "running" /\ q.case = case
    BY <1>2 DEF Start, Mine, Awaits
  <1>4. /\ runs \in Seq(Runs) /\ Len(runs) \in Nat /\ DOMAIN runs = 1..Len(runs)
        /\ DOMAIN runs' = 1..n
        /\ runs'[n] = NewRun(case, q) /\ \A k \in DOMAIN runs : runs'[k] = runs[k]
    BY <1>1, <1>3 DEF TypeOK, ServerTypes
  <1>5. RunningMine'
    BY <1>1, <1>2, <1>3, <1>4 DEF RunningMine, NewRun
  <1> QED
    BY <1>1, <1>2, <1>3, <1>4, <1>5
       DEF Mine, Awaits, InboxMine, AnswerMine, RecordMine, ResultsMine

\* Work on a run keeps every run's case, and its answer speaks of the run
\* the request was about, whose approval is the newest if it parks.
LEMMA MineWork ==
  ASSUME TypeOK, Mine, NEW r \in DOMAIN runs, NEW cost \in Costs, Work(r, cost)
  PROVE  Mine'
  <1> USE DEF Waiting
  <1>1. PICK status \in {"completed", "waiting_approval"} :
          /\ runs' = [runs EXCEPT ![r] =
                        [runs[r] EXCEPT !.status = status, !.awaited = None, !.cost = @ + cost]]
          /\ parked' = parked + (IF status = "completed" THEN 0 ELSE 1)
          /\ pending' = IF status = "completed" THEN pending
                        ELSE pending \cup {[run |-> r, created_at |-> parked']}
          /\ AnswerTo(runs[r].awaited, [run |-> r, status |-> status])
    BY DEF Work
  <1>2. /\ runs[r].status = "running"
        /\ UNCHANGED <<case, pc, record, request, results, inbox>>
    BY DEF Work, Unserved
  <1>3. /\ Waiting /\ answer = None /\ inbox = {}
        /\ pc = "running" => runs[r].case = case
        /\ pc = "approving" => r = record.run
        /\ \A k \in DOMAIN runs : runs[k].status = "running" => k = r
    BY <1>2 DEF Mine, RunningMine
  <1>4. runs \in Seq(Runs) /\ runs[r] \in Runs /\ parked \in Nat
    BY ElementOfSeq DEF TypeOK, ServerTypes
  <1>5. DOMAIN runs' = DOMAIN runs /\ \A k \in DOMAIN runs : runs'[k].case = runs[k].case
    BY <1>1, <1>4 DEF Runs
  <1>6. \A k \in DOMAIN runs : runs'[k].status # "running"
    BY <1>1, <1>3, <1>4 DEF Runs
  <1>7. status = "waiting_approval" => Dated(r)'
    <2> SUFFICES ASSUME status = "waiting_approval" PROVE Dated(r)'
      OBVIOUS
    <2>1. parked' = parked + 1 /\ pending' = pending \cup {[run |-> r, created_at |-> parked']}
      BY <1>1
    <2>2. \A a \in pending : a.created_at <= parked /\ a.created_at \in Nat
      BY DEF TypeOK, Linked, ServerTypes, Approvals
    <2>3. \A a \in pending' : a.created_at = parked' => a.run = r
      BY <1>4, <2>1, <2>2
    <2> QED
      BY <2>1, <2>3 DEF Dated
  <1>8. answer' # None => answer'.run = r /\ answer'.status = status
    BY <1>1, <1>3 DEF AnswerTo
  <1>9. AnswerMine'
    BY <1>2, <1>3, <1>5, <1>7, <1>8 DEF AnswerMine, Dated
  <1>10. pc \in {"list", "approving", "cost"} => record.run \in DOMAIN runs
    BY DEF TypeOK, Linked
  <1> QED
    BY <1>2, <1>3, <1>5, <1>6, <1>9, <1>10
       DEF Mine, Awaits, InboxMine, RunningMine, RecordMine, ResultsMine

\* The approval in hand resumes the run in hand.
LEMMA MineApprove ==
  ASSUME TypeOK, Mine, NEW q \in inbox, Approve(q)
  PROVE  Mine'
  <1> USE DEF Waiting
  <1>1. /\ inbox' = inbox \ {q}
        /\ UNCHANGED <<case, pc, record, request, results, parked>>
    BY DEF Approve, Unserved
  <1>2. /\ Waiting /\ q = request /\ answer = None /\ inbox' = {}
        /\ \A r \in DOMAIN runs : runs[r].status # "running"
    BY <1>1 DEF Mine, InboxMine, RunningMine
  <1>3. pc = "approving" /\ q.approval.run = record.run
    BY <1>2 DEF Approve, Mine, Awaits
  <1>4. runs \in Seq(Runs) /\ record.run \in DOMAIN runs /\ runs[record.run] \in Runs
    BY <1>3, ElementOfSeq DEF TypeOK, Linked, ServerTypes
  <1>5. CASE runs' = Running(record.run, q) /\ answer' = None
    <2>1. /\ DOMAIN runs' = DOMAIN runs
          /\ runs'[record.run].awaited = q /\ runs'[record.run].case = runs[record.run].case
          /\ \A k \in DOMAIN runs : k # record.run => runs'[k] = runs[k]
      BY <1>4, <1>5 DEF Running, Runs
    <2>2. RunningMine'
      BY <1>1, <1>2, <1>3, <1>5, <2>1 DEF RunningMine
    <2> QED
      BY <1>1, <1>2, <1>3, <1>4, <1>5, <2>1, <2>2
         DEF Mine, Awaits, InboxMine, AnswerMine, RecordMine, ResultsMine
  <1>6. CASE runs' = runs /\ (answer' = None \/ answer'.run = record.run)
    BY <1>1, <1>2, <1>3, <1>6
       DEF Mine, Awaits, InboxMine, RunningMine, AnswerMine, RecordMine, ResultsMine
  <1>7. \/ runs' = Running(record.run, q) /\ answer' = None
        \/ runs' = runs /\ (answer' = None \/ answer'.run = record.run)
    BY <1>2, <1>3 DEF Approve, AnswerTo
  <1> QED
    BY <1>5, <1>6, <1>7

\* A restart leaves nothing at work and no approval.
LEMMA MineRestart ==
  ASSUME TypeOK, Mine, Restart
  PROVE  Mine'
  <1> USE DEF Waiting
  <1>1. /\ runs' = [r \in DOMAIN runs |-> [runs[r] EXCEPT !.status = "gone", !.awaited = None]]
        /\ inbox' = {} /\ pending' = {}
        /\ UNCHANGED <<case, pc, record, request, answer, results, parked>>
    BY DEF Restart, Unserved
  <1>2. \A k \in DOMAIN runs : runs[k] \in Runs
    BY ElementOfSeq DEF TypeOK, ServerTypes
  <1>3. /\ DOMAIN runs' = DOMAIN runs
        /\ \A k \in DOMAIN runs : runs'[k].case = runs[k].case /\ runs'[k].status = "gone"
    BY <1>1, <1>2 DEF Runs
  <1>4. /\ pc \in {"list", "approving", "cost"} => record.run \in DOMAIN runs
        /\ answer # None => answer.run \in DOMAIN runs
    BY DEF TypeOK, Linked
  <1> QED
    BY <1>1, <1>3, <1>4
       DEF Mine, Awaits, InboxMine, RunningMine, AnswerMine, RecordMine, ResultsMine, Dated

\* A client by itself only ever has its own request at work.
LEMMA AloneAlways == Spec => []Alone
  <1>1. Init => Alone
    BY DEF Init, Alone, Mine, Awaits, InboxMine, RunningMine, AnswerMine, RecordMine, ResultsMine,
           Waiting
  <1>2. TypeOK /\ Alone /\ [Next]_vars => Alone'
    <2> SUFFICES ASSUME TypeOK, Alone, [Next]_vars, ~shared', ~given_up' PROVE Mine'
      BY DEF Alone
    <2>1. CASE Client
      <3>1. ~shared /\ ~given_up
        <4>1. shared' = shared
          BY <2>1 DEF Client, ReadBefore, PostRun, RunAnswered, ListApprovals, ApprovalAnswered,
                      ReadAfter, RequestFails
        <4>2. given_up' = given_up \/ given_up' = (given_up \/ (pc # "list" /\ AtWork(request)))
          BY <2>1 DEF Client, ReadBefore, PostRun, RunAnswered, ListApprovals, ApprovalAnswered,
                      ReadAfter, RequestFails
        <4>3. ~shared
          BY <4>1, Zenon
        <4>4. CASE given_up' = given_up
          BY <4>3, <4>4, Zenon
        <4>5. CASE given_up' = (given_up \/ (pc # "list" /\ AtWork(request)))
          BY <4>3, <4>5, Zenon
        <4> QED
          BY <4>2, <4>3, <4>4, <4>5
      <3>2. Mine
        BY <3>1 DEF Alone
      <3> QED
        BY <2>1, <3>2, MineReading, MineSending, MineEnding DEF Client
    <2>2. CASE Server
      <3>1. ~shared /\ ~given_up
        <4>1. shared' = shared /\ given_up' = given_up
          BY <2>2 DEF Server, Start, Approve, Work, Restart, OtherPosts, OtherApproves, Unserved
        <4> QED
          BY <4>1, Zenon
      <3>2. Mine
        BY <3>1 DEF Alone
      <3>3. ~OtherPosts /\ ~OtherApproves
        BY <3>1 DEF OtherPosts, OtherApproves
      <3> QED
        BY <2>2, <3>2, <3>3, MineStart, MineApprove, MineWork, MineRestart DEF Server
    <2>3. CASE UNCHANGED vars
      BY <2>3 DEF vars, client, server, Alone, Mine, Awaits, InboxMine, RunningMine, AnswerMine,
                  RecordMine, ResultsMine, Waiting, Dated
    <2> QED
      BY <2>1, <2>2, <2>3 DEF Next
  <1> QED
    BY <1>1, <1>2, Types, PTL DEF Spec

(***************************************************************************)
(* One client that never walks away from a request at work is answered     *)
(* with the record of its own run, for every number of cases, however      *)
(* often runs park and the server restarts, and whatever failed requests   *)
(* and lost answers leave behind (run, lines 204-218).                     *)
(***************************************************************************)
THEOREM RecordsAreOwn == Spec => []OwnRecord
  <1>1. Alone => OwnRecord
    BY DEF Alone, Mine, ResultsMine, OwnRecord
  <1> QED
    BY <1>1, AloneAlways, PTL

-----------------------------------------------------------------------------
(***************************************************************************)
(* What a case is charged                                                  *)
(***************************************************************************)
\* Runs are of the cases so far, one for each at most, and of the case in
\* hand there is none until the server has taken its request.
OneRunEach ==
  /\ \A r \in DOMAIN runs : runs[r].case <= case
  /\ \A r \in DOMAIN runs : runs[r].case = case =>
       pc \notin {"start", "post"} /\ (pc = "running" => inbox = {})
  /\ \A r, k \in DOMAIN runs : runs[r].case = runs[k].case => r = k

\* Since the first reading, the meter has counted the run of the case ...
Metered ==
  cost_before # None =>
    /\ (\A r \in DOMAIN runs : runs[r].case # case) => meter = cost_before
    /\ \A r \in DOMAIN runs : runs[r].case = case => meter = cost_before + runs[r].cost

\* ... and what was charged for the cases before is what their runs cost.
Paid ==
  \A c \in DOMAIN results : results[c] # None =>
    /\ results[c].run \in DOMAIN runs /\ runs[results[c].run].case = c
    /\ ~results[c].cost_unavailable => results[c].cost = runs[results[c].run].cost

Undisturbed == OneRunEach /\ Metered /\ Paid
Charged == ~shared /\ ~given_up /\ restarts = 0 => Undisturbed

\* The meter is read before the server has a run of the case, and what the
\* client does until it reads it again changes no run.
LEMMA ChargedWaiting ==
  ASSUME TypeOK, Mine, Undisturbed,
         ReadBefore \/ PostRun \/ RunAnswered \/ ListApprovals \/ ApprovalAnswered
  PROVE  Undisturbed'
  <1>1. UNCHANGED <<case, results, runs, meter>>
    BY DEF ReadBefore, PostRun, RunAnswered, ListApprovals, ApprovalAnswered, server
  <1>2. Paid'
    BY <1>1 DEF Undisturbed, Paid
  <1>3. CASE ReadBefore
    <2>1. pc = "start" /\ pc' = "post" /\ cost_before' \in {meter, None} /\ inbox' = inbox
      BY <1>3 DEF ReadBefore, CostTotal, server
    <2> QED
      BY <1>1, <1>2, <2>1 DEF Undisturbed, OneRunEach, Metered
  <1>4. CASE PostRun
    <2>1. pc = "post" /\ pc' = "running" /\ cost_before' = cost_before
      BY <1>4 DEF PostRun
    <2> QED
      BY <1>1, <1>2, <2>1 DEF Undisturbed, OneRunEach, Metered
  <1>5. CASE RunAnswered \/ ListApprovals \/ ApprovalAnswered
    <2>1. pc' \in {"list", "approving", "cost"} /\ pc \notin {"start", "post"}
          /\ cost_before' = cost_before
      BY <1>5 DEF RunAnswered, ListApprovals, ApprovalAnswered
    <2> QED
      BY <1>1, <1>2, <2>1 DEF Undisturbed, OneRunEach, Metered
  <1> QED
    BY <1>3, <1>4, <1>5

\* The second reading finds what the case's run has cost since the first.
LEMMA ChargedEnding ==
  ASSUME TypeOK, Mine, Undisturbed, ReadAfter \/ RequestFails
  PROVE  Undisturbed'
  <1>1. /\ pc' = "start" /\ case' = case + 1 /\ cost_before' = None
        /\ UNCHANGED <<runs, meter>>
    BY DEF ReadAfter, RequestFails, NextCase, server
  <1>2. /\ results \in Seq(Trajectories \cup {None}) /\ Len(results) = case - 1 /\ case \in Nat
        /\ meter \in Nat /\ cost_before \in Nat \cup {None} /\ None \notin Int
        /\ DOMAIN results = 1..Len(results)
    BY HttpAssumption DEF HttpAssumption, TypeOK, ResultTypes, ClientTypes, ServerTypes
  <1>3. \A r \in DOMAIN runs : runs[r].case \in Nat /\ runs[r].cost \in Nat
    <2>1. \A r \in DOMAIN runs : runs[r] \in Runs
      BY ElementOfSeq DEF TypeOK, ServerTypes
    <2> QED
      BY <2>1 DEF Runs
  <1>4. OneRunEach'
    BY <1>1, <1>2, <1>3 DEF Undisturbed, OneRunEach
  <1>5. Metered'
    BY <1>1 DEF Metered
  <1>6. CASE ReadAfter
    <2>1. PICK after \in CostTotal :
            results' = Append(results,
              [run |-> record.run, of |-> runs[record.run].case, approved |-> approved,
               cost |-> CostUsd(after), cost_unavailable |-> cost_before = None \/ after = None])
      BY <1>6 DEF ReadAfter
    <2> DEFINE t == [run |-> record.run, of |-> runs[record.run].case, approved |-> approved,
                     cost |-> CostUsd(after),
                     cost_unavailable |-> cost_before = None \/ after = None]
    <2>2. record.run \in DOMAIN runs /\ runs[record.run].case = case
      BY <1>6 DEF ReadAfter, TypeOK, Linked, Mine, RecordMine
    <2>3. ~t.cost_unavailable => t.cost = runs[record.run].cost
      <3> SUFFICES ASSUME cost_before # None, after # None
                   PROVE  CostUsd(after) = runs[record.run].cost
        OBVIOUS
      <3>1. after = meter /\ meter = cost_before + runs[record.run].cost
        BY <2>1, <2>2 DEF CostTotal, Undisturbed, Metered
      <3> QED
        BY <1>2, <1>3, <2>2, <3>1 DEF CostUsd
    <2>4. /\ DOMAIN results' = 1..case /\ results'[case] = t
          /\ \A c \in DOMAIN results : results'[c] = results[c]
      BY <1>2, <2>1, AppendProperties
    <2>5. \A c \in DOMAIN results' : c \in DOMAIN results \/ c = case
      BY <1>2, <2>4
    <2>6. t.run = record.run
      OBVIOUS
    <2> HIDE DEF t
    <2>7. Paid'
      BY <1>1, <2>2, <2>3, <2>4, <2>5, <2>6 DEF Undisturbed, Paid
    <2> QED
      BY <1>4, <1>5, <2>7 DEF Undisturbed
  <1>7. CASE RequestFails
    <2>1. results' = Append(results, None)
      BY <1>7 DEF RequestFails
    <2>2. /\ DOMAIN results' = 1..case /\ results'[case] = None
          /\ \A c \in DOMAIN results : results'[c] = results[c]
      BY <1>2, <2>1, AppendProperties
    <2>3. \A c \in DOMAIN results' : c \in DOMAIN results \/ c = case
      BY <1>2, <2>2
    <2>4. Paid'
      BY <1>1, <2>2, <2>3 DEF Undisturbed, Paid
    <2> QED
      BY <1>4, <1>5, <2>4 DEF Undisturbed
  <1> QED
    BY <1>6, <1>7

\* The request in hand is taken once, and its run has cost nothing yet.
LEMMA ChargedStart ==
  ASSUME TypeOK, Mine, Undisturbed, NEW q \in inbox, Start(q)
  PROVE  Undisturbed'
  <1> DEFINE n == Len(runs) + 1
  <1>1. /\ runs' = Append(runs, NewRun(q.case, q)) /\ inbox' = inbox \ {q}
        /\ UNCHANGED <<case, pc, cost_before, results, meter>>
    BY DEF Start, Unserved
  <1>2. pc = "running" /\ q.case = case /\ inbox # {} /\ inbox' = {}
    BY <1>1 DEF Start, Mine, Awaits, InboxMine, Waiting
  <1>3. \A r \in DOMAIN runs : runs[r].case # case
    BY <1>2 DEF Undisturbed, OneRunEach
  <1>4. /\ DOMAIN runs = 1..Len(runs) /\ DOMAIN runs' = 1..n /\ Len(runs) \in Nat
        /\ runs'[n].case = case /\ runs'[n].cost = 0
        /\ \A k \in DOMAIN runs : runs'[k] = runs[k]
    BY <1>1, <1>2 DEF TypeOK, ServerTypes, NewRun
  <1>5. DOMAIN runs \subseteq DOMAIN runs' /\ \A k \in DOMAIN runs' : k \in DOMAIN runs \/ k = n
    BY <1>4
  <1>6. case \in Nat /\ meter \in Nat
    BY HttpAssumption DEF HttpAssumption, TypeOK, ClientTypes, ServerTypes
  <1>7. OneRunEach'
    <2>1. \A r \in DOMAIN runs' : runs'[r].case <= case
      BY <1>4, <1>5, <1>6 DEF Undisturbed, OneRunEach
    <2>2. \A r, k \in DOMAIN runs' : runs'[r].case = runs'[k].case => r = k
      BY <1>3, <1>4, <1>5 DEF Undisturbed, OneRunEach
    <2> QED
      BY <1>1, <1>2, <2>1, <2>2 DEF OneRunEach
  <1>8. Metered'
    <2>1. ASSUME cost_before # None PROVE meter = cost_before
      BY <1>3, <2>1 DEF Undisturbed, Metered
    <2>2. \A r \in DOMAIN runs' : runs'[r].case = case => r = n
      BY <1>3, <1>4, <1>5
    <2>3. n \in DOMAIN runs'
      BY <1>4
    <2> QED
      BY <1>1, <1>4, <1>6, <2>1, <2>2, <2>3 DEF Metered
  <1>9. Paid'
    BY <1>1, <1>4, <1>5 DEF Undisturbed, Paid
  <1> QED
    BY <1>7, <1>8, <1>9 DEF Undisturbed

\* What work costs, the meter and the run of the case in hand both count.
LEMMA ChargedWork ==
  ASSUME TypeOK, Mine, Undisturbed, NEW r \in DOMAIN runs, NEW cost \in Costs, Work(r, cost)
  PROVE  Undisturbed'
  <1>1. PICK status \in {"completed", "waiting_approval"} :
          runs' = [runs EXCEPT ![r] =
                     [runs[r] EXCEPT !.status = status, !.awaited = None, !.cost = @ + cost]]
    BY DEF Work
  <1>2. /\ runs[r].status = "running" /\ meter' = meter + cost
        /\ UNCHANGED <<case, pc, cost_before, results, inbox>>
    BY DEF Work, Unserved
  <1>3. runs[r].case = case
    BY <1>2 DEF Mine, RunningMine, RecordMine, Waiting
  <1>4. /\ runs \in Seq(Runs) /\ runs[r] \in Runs /\ cost \in Nat /\ meter \in Nat
        /\ case \in Nat /\ cost_before \in Nat \cup {None}
    BY HttpAssumption, ElementOfSeq DEF HttpAssumption, TypeOK, ServerTypes, ClientTypes
  <1>5. /\ DOMAIN runs' = DOMAIN runs /\ runs'[r].cost = runs[r].cost + cost
        /\ \A k \in DOMAIN runs : runs'[k].case = runs[k].case
        /\ \A k \in DOMAIN runs : k # r => runs'[k] = runs[k]
    BY <1>1, <1>4 DEF Runs
  <1>6. OneRunEach'
    BY <1>2, <1>5 DEF Undisturbed, OneRunEach
  <1>7. Metered'
    <2>1. \A k \in DOMAIN runs : runs[k].case = case => k = r
      BY <1>3 DEF Undisturbed, OneRunEach
    <2>2. ASSUME cost_before # None PROVE meter' = cost_before + runs'[r].cost
      <3>1. meter = cost_before + runs[r].cost
        BY <1>3, <2>2 DEF Undisturbed, Metered
      <3>2. runs[r].cost \in Nat /\ cost_before \in Nat
        BY <1>4, <2>2 DEF Runs
      <3> QED
        BY <1>2, <1>4, <1>5, <3>1, <3>2
    <2> QED
      BY <1>2, <1>3, <1>5, <2>1, <2>2 DEF Metered
  <1>8. Paid'
    <2>1. \A c \in DOMAIN results : c # case
      <3>1. results \in Seq(Trajectories \cup {None}) /\ Len(results) = case - 1
        BY DEF TypeOK, ResultTypes
      <3> QED
        BY <1>4, <3>1
    <2>2. \A c \in DOMAIN results : results[c] # None => results[c].run # r
      BY <1>3, <2>1 DEF Undisturbed, Paid
    <2> QED
      BY <1>2, <1>5, <2>2 DEF Undisturbed, Paid
  <1> QED
    BY <1>6, <1>7, <1>8 DEF Undisturbed

\* An approval resumes a run at the cost and for the case it had.
LEMMA ChargedApprove ==
  ASSUME TypeOK, Mine, Undisturbed, NEW q \in inbox, Approve(q)
  PROVE  Undisturbed'
  <1>1. inbox' = inbox \ {q} /\ UNCHANGED <<case, pc, cost_before, results, meter>>
    BY DEF Approve, Unserved
  <1>2. pc = "approving"
    BY DEF Approve, Mine, Awaits, InboxMine, Waiting
  <1>3. /\ DOMAIN runs' = DOMAIN runs
        /\ \A k \in DOMAIN runs : runs'[k].case = runs[k].case /\ runs'[k].cost = runs[k].cost
    <2>1. CASE q.approval \in pending /\ runs' = Running(q.approval.run, q)
      <3>1. q.approval.run \in DOMAIN runs /\ runs \in Seq(Runs)
        BY <2>1 DEF TypeOK, Linked, ServerTypes
      <3>2. runs[q.approval.run] \in Runs
        BY <3>1, ElementOfSeq
      <3> QED
        BY <2>1, <3>1, <3>2 DEF Running, Runs
    <2>2. CASE runs' = runs
      BY <2>2
    <2> QED
      BY <2>1, <2>2 DEF Approve
  <1> QED
    BY <1>1, <1>2, <1>3 DEF Undisturbed, OneRunEach, Metered, Paid

(***************************************************************************)
(* A case that has the server to itself is charged what its run cost,      *)
(* before and after the approval, and stays charged that much, however     *)
(* many cases follow (run: cost_before, cost_after).                       *)
(***************************************************************************)
THEOREM CasesPayForTheirRuns == Spec => []ChargeIsTheRuns
  <1>1. Init => Charged
    BY DEF Init, Charged, Undisturbed, OneRunEach, Metered, Paid
  <1>2. TypeOK /\ Alone /\ Charged /\ [Next]_vars => Charged'
    <2> SUFFICES ASSUME TypeOK, Alone, Charged, [Next]_vars, ~shared', ~given_up', restarts' = 0
                 PROVE  Undisturbed'
      BY DEF Charged
    <2>1. ASSUME ~shared, ~given_up, restarts = 0 PROVE Mine /\ Undisturbed
      BY <2>1 DEF Alone, Charged
    <2>2. CASE Client
      <3>1. shared' = shared /\ restarts' = restarts
        BY <2>2 DEF Client, ReadBefore, PostRun, RunAnswered, ListApprovals, ApprovalAnswered,
                    ReadAfter, RequestFails, server
      <3>2. given_up' = given_up \/ given_up' = (given_up \/ (pc # "list" /\ AtWork(request)))
        BY <2>2 DEF Client, ReadBefore, PostRun, RunAnswered, ListApprovals, ApprovalAnswered,
                    ReadAfter, RequestFails
      <3>3. ~shared
        BY <3>1, Zenon
      <3>4. ~given_up
        <4>1. CASE given_up' = given_up
          BY <4>1, Zenon
        <4>2. CASE given_up' = (given_up \/ (pc # "list" /\ AtWork(request)))
          BY <4>2, Zenon
        <4> QED
          BY <3>2, <4>1, <4>2
      <3> QED
        BY <2>1, <2>2, <3>1, <3>3, <3>4, ChargedWaiting, ChargedEnding DEF Client
    <2>3. CASE Server
      <3>1. shared' = shared /\ given_up' = given_up
        BY <2>3 DEF Server, Start, Approve, Work, Restart, OtherPosts, OtherApproves, Unserved
      <3>2. ~shared /\ ~given_up
        BY <3>1, Zenon
      <3>3. ~OtherPosts /\ ~OtherApproves
        BY <3>2 DEF OtherPosts, OtherApproves
      <3>4. ~Restart
        <4>1. restarts \in Nat
          BY DEF TypeOK, ServerTypes
        <4>2. Restart => restarts' = restarts + 1
          BY DEF Restart
        <4> QED
          BY <4>1, <4>2
      <3>5. restarts = 0
        BY <2>3, <3>3, <3>4 DEF Server, Start, Approve, Work
      <3> QED
        BY <2>1, <2>3, <3>2, <3>3, <3>4, <3>5, ChargedStart, ChargedApprove, ChargedWork
           DEF Server
    <2>4. CASE UNCHANGED vars
      <3>1. /\ shared' = shared /\ given_up' = given_up
            /\ UNCHANGED <<case, pc, cost_before, results, inbox, runs, meter, restarts>>
        BY <2>4 DEF vars, client, server
      <3>2. ~shared /\ ~given_up
        BY <3>1, Zenon
      <3> QED
        BY <2>1, <3>1, <3>2 DEF Undisturbed, OneRunEach, Metered, Paid
    <2> QED
      BY <2>2, <2>3, <2>4 DEF Next
  <1>3. Charged => ChargeIsTheRuns
    BY DEF Charged, Undisturbed, Paid, ChargeIsTheRuns
  <1>4. Spec => []Alone
    BY AloneAlways
  <1> QED
    BY <1>1, <1>2, <1>3, <1>4, Types, PTL DEF Spec
==============================================================================
