------------------------------- MODULE HttpTarget -------------------------------
(***************************************************************************)
(* Cases run one after another on AgentPlatformHttpTarget                  *)
(* (targets/agent_platform_http.py) against a server it may share.         *)
(*                                                                         *)
(* run() reads the cost meter, posts the run and waits for it to end or to *)
(* park, approves the newest pending approval if it parked, and reads the  *)
(* meter again.  Every request may fail, and one that times out may still  *)
(* be on its way to the server or at work there.                           *)
(*                                                                         *)
(* The server is external: it starts a run for a request, works on it at a *)
(* cost until it ends or parks on a gated action, dates the approval it    *)
(* then waits for, resumes the run when it is given, and keeps all of that *)
(* and the meter in memory.                                                *)
(***************************************************************************)
EXTENDS Integers, Sequences

CONSTANTS Cases,       \* how many cases the suite has
          Costs,       \* what one stretch of work on a run may cost
          Approving,   \* the values of the target's `approve`
          Sharing,     \* whether another client uses the server
          MaxOthers, MaxParks, MaxRestarts,  \* bounds on the environment
          None

ASSUME HttpAssumption ==
  /\ None \notin Int
  /\ Cases \in Nat /\ Costs \subseteq Nat
  /\ Approving \subseteq BOOLEAN /\ Sharing \subseteq BOOLEAN
  /\ MaxOthers \in Nat /\ MaxParks \in Nat /\ MaxRestarts \in Nat

VARIABLES approve, shared,
          case, pc,       \* the case that is running, and where run() is
          cost_before,    \* the first reading of the meter, or None
          record, approved,
          request,        \* the POST run() is waiting for
          answer,         \* the response to it, on its way back
          results,        \* one trajectory or error per case that ended
          charged,        \* the cost_usd of all of them together
          inbox,          \* requests the server has not looked at
          runs,           \* the server's runs, by number
          pending,        \* approvals waited for
          meter,          \* total_usd of /costs
          spent,          \* what the server has really spent
          given_up,       \* a request was given up while it was being served
          parked, restarts   \* how often a run has parked, the server restarted

client == <<case, pc, cost_before, record, approved, request, answer, results, charged, given_up>>
server == <<inbox, runs, pending, meter, spent, parked, restarts>>
vars == <<approve, shared, client, server>>

Other == 0
RunFor(c) == [kind |-> "run", case |-> c, approval |-> None]
ApprovalOf(c, a) == [kind |-> "approve", case |-> c, approval |-> a]

Init ==
  /\ approve \in Approving /\ shared \in Sharing
  /\ case = 1 /\ pc = "start"
  /\ cost_before = None /\ record = None /\ approved = FALSE
  /\ request = None /\ answer = None
  /\ results = <<>> /\ charged = 0
  /\ inbox = {} /\ runs = <<>> /\ pending = {}
  /\ meter = 0 /\ spent = 0
  /\ given_up = FALSE /\ parked = 0 /\ restarts = 0

-----------------------------------------------------------------------------
\* _cost_total: best effort, None when the read fails.
CostTotal == {meter, None}

ReadBefore ==
  /\ pc = "start" /\ case <= Cases
  /\ cost_before' \in CostTotal
  /\ pc' = "post"
  /\ UNCHANGED <<approve, shared, case, record, approved, request, answer, results, charged,
                 given_up, server>>

Send(q) == request' = q /\ answer' = None /\ inbox' = inbox \cup {q}

PostRun ==
  /\ pc = "post"
  /\ Send(RunFor(case))
  /\ pc' = "running"
  /\ UNCHANGED <<approve, shared, case, cost_before, record, approved, results, charged, given_up,
                 runs, pending, meter, spent, parked, restarts>>

RunAnswered ==
  /\ pc = "running" /\ answer # None
  /\ record' = answer /\ request' = None /\ answer' = None
  /\ pc' = IF approve /\ answer.status = "waiting_approval" THEN "list" ELSE "cost"
  /\ UNCHANGED <<approve, shared, case, cost_before, approved, results, charged, given_up, server>>

\* Mutant: the first approval in the list is taken.
Oldest == CHOOSE a \in pending : \A b \in pending : a.created_at <= b.created_at

\* max(pending, key=created_at)
Newest == CHOOSE a \in pending : \A b \in pending : b.created_at <= a.created_at

ListApprovals ==
  /\ pc = "list"
  /\ \/ /\ pending # {}
        /\ Send(ApprovalOf(case, Newest)) /\ pc' = "approving"
     \/ /\ pending = {}
        /\ pc' = "cost" /\ UNCHANGED <<request, answer, inbox>>
  /\ UNCHANGED <<approve, shared, case, cost_before, record, approved, results, charged, given_up,
                 runs, pending, meter, spent, parked, restarts>>

\* Mutant: the approval is posted and not waited for.
ApprovalNotAwaited ==
  /\ pc = "approving"
  /\ request' = None /\ answer' = None
  /\ pc' = "cost"
  /\ UNCHANGED <<approve, shared, case, cost_before, record, approved, results, charged, given_up,
                 server>>

\* A resumed run's record takes the place of the first one, whichever run
\* it is of.
ApprovalAnswered ==
  /\ pc = "approving" /\ answer # None /\ answer.status # "rejected"
  /\ IF answer.status = "not_resumed" THEN UNCHANGED <<record, approved>>
     ELSE record' = answer /\ approved' = TRUE
  /\ request' = None /\ answer' = None
  /\ pc' = "cost"
  /\ UNCHANGED <<approve, shared, case, cost_before, results, charged, given_up, server>>

\* Mutant: a reading that failed counts as zero.
CostUsdFromZero(after) ==
  LET before == IF cost_before = None THEN 0 ELSE cost_before
  IN IF after = None \/ after < before THEN 0 ELSE after - before

CostUsd(after) ==
  IF cost_before = None \/ after = None \/ after < cost_before THEN 0 ELSE after - cost_before

\* run()'s variables go out of scope.
NextCase ==
  case' = case + 1 /\ pc' = "start" /\ cost_before' = None /\ record' = None /\ approved' = FALSE

ReadAfter ==
  /\ pc = "cost"
  /\ \E after \in CostTotal :
       /\ results' = Append(results,
            [run |-> record.run, of |-> runs[record.run].case, approved |-> approved,
             cost |-> CostUsd(after), cost_unavailable |-> cost_before = None \/ after = None])
       /\ charged' = charged + CostUsd(after)
  /\ NextCase
  /\ UNCHANGED <<approve, shared, request, answer, given_up, server>>

\* The request is still being served.
AtWork(q) == q \in inbox \/ \E r \in DOMAIN runs : runs[r].awaited = q

\* Mutant: a run that was not answered is posted again.
RequestRetried ==
  /\ pc \in {"running", "list", "approving"}
  /\ request' = None /\ answer' = None
  /\ pc' = "post"
  /\ UNCHANGED <<approve, shared, case, cost_before, record, approved, results, charged, given_up,
                 server>>

\* Mutant: a case that failed leaves nothing behind.
RequestFailsSilently ==
  /\ pc \in {"running", "list", "approving"}
  /\ given_up' = (given_up \/ (pc # "list" /\ AtWork(request)))
  /\ request' = None /\ answer' = None
  /\ NextCase
  /\ UNCHANGED <<approve, shared, results, charged, server>>

\* A request that fails or times out is a ValueError, and run_case a failed
\* case without a trajectory.
RequestFails ==
  /\ pc \in {"running", "list", "approving"}
  /\ results' = Append(results, None)
  /\ given_up' = (given_up \/ (pc # "list" /\ AtWork(request)))
  /\ request' = None /\ answer' = None
  /\ NextCase
  /\ UNCHANGED <<approve, shared, charged, server>>

-----------------------------------------------------------------------------
NewRun(c, q) == [case |-> c, status |-> "running", awaited |-> q, cost |-> 0]
Running(r, q) == [runs EXCEPT ![r] = [runs[r] EXCEPT !.status = "running", !.awaited = q]]
AnswerTo(q, a) == answer' = IF q # None /\ q = request THEN a ELSE answer
Unserved == UNCHANGED <<approve, shared, case, pc, cost_before, record, approved, request,
                        results, charged, given_up>>

Start(q) ==
  /\ q \in inbox /\ q.kind = "run"
  /\ runs' = Append(runs, NewRun(q.case, q))
  /\ inbox' = inbox \ {q}
  /\ UNCHANGED <<answer, pending, meter, spent, parked, restarts>> /\ Unserved

\* The answer of a request is sent when the run ends or parks.
Work(r, cost) ==
  /\ runs[r].status = "running"
  /\ meter' = meter + cost /\ spent' = spent + cost
  /\ \E status \in {"completed", "waiting_approval"} :
       /\ status = "waiting_approval" => parked < MaxParks
       /\ parked' = parked + (IF status = "completed" THEN 0 ELSE 1)
       /\ runs' = [runs EXCEPT ![r] =
                     [runs[r] EXCEPT !.status = status, !.awaited = None, !.cost = @ + cost]]
       /\ pending' = IF status = "completed" THEN pending
                      ELSE pending \cup {[run |-> r, created_at |-> parked']}
       /\ AnswerTo(runs[r].awaited, [run |-> r, status |-> status])
  /\ UNCHANGED <<inbox, restarts>> /\ Unserved

\* An approval that is pending is executed, and the run resumed if it can
\* be; one that is not is rejected.
Approve(q) ==
  /\ q \in inbox /\ q.kind = "approve"
  /\ inbox' = inbox \ {q}
  /\ \/ /\ q.approval \in pending
        /\ pending' = pending \ {q.approval}
        /\ \/ runs' = Running(q.approval.run, q) /\ UNCHANGED answer
           \/ UNCHANGED runs /\ AnswerTo(q, [run |-> q.approval.run, status |-> "not_resumed"])
     \/ /\ q.approval \notin pending
        /\ AnswerTo(q, [run |-> q.approval.run, status |-> "rejected"])
        /\ UNCHANGED <<runs, pending>>
  /\ UNCHANGED <<meter, spent, parked, restarts>> /\ Unserved

OtherPosts ==
  /\ shared /\ Len(SelectSeq(runs, LAMBDA r : r.case = Other)) < MaxOthers
  /\ runs' = Append(runs, NewRun(Other, None))
  /\ UNCHANGED <<answer, inbox, pending, meter, spent, parked, restarts>> /\ Unserved

OtherApproves ==
  /\ shared
  /\ \E a \in pending : pending' = pending \ {a} /\ runs' = Running(a.run, None)
  /\ UNCHANGED <<answer, inbox, meter, spent, parked, restarts>> /\ Unserved

\* Runs, approvals and the meter are gone.
Restart ==
  /\ restarts < MaxRestarts /\ restarts' = restarts + 1
  /\ runs' = [r \in DOMAIN runs |-> [runs[r] EXCEPT !.status = "gone", !.awaited = None]]
  /\ inbox' = {} /\ pending' = {} /\ meter' = 0
  /\ UNCHANGED <<answer, spent, parked>> /\ Unserved

Client ==
  \/ ReadBefore \/ PostRun \/ RunAnswered \/ ListApprovals \/ ApprovalAnswered \/ ReadAfter
  \/ RequestFails

\* What the server does after the last case is nobody's concern.
Server ==
  /\ case <= Cases
  /\ \/ \E q \in inbox : Start(q) \/ Approve(q)
     \/ \E r \in DOMAIN runs, cost \in Costs : Work(r, cost)
     \/ Restart \/ OtherPosts \/ OtherApproves

Next == Client \/ Server

\* A client's wait ends: by an answer or by httpx's timeout, which ends it as
\* long as the server does not send an answer piece by piece without end.
Spec == Init /\ [][Next]_vars /\ WF_vars(Client)

-----------------------------------------------------------------------------
Approvals == [run : Nat, created_at : Nat]
Requests == [kind : {"run"}, case : Nat, approval : {None}]
              \cup [kind : {"approve"}, case : Nat, approval : Approvals]
Answers == [run : Nat, status : {"completed", "waiting_approval", "not_resumed", "rejected"}]
Runs == [case : Nat, status : {"running", "completed", "waiting_approval", "gone"},
         awaited : Requests \cup {None}, cost : Nat]
Trajectories ==
  [run : Nat, of : Nat, approved : BOOLEAN, cost : Nat, cost_unavailable : BOOLEAN]

FlagTypes ==
  approve \in BOOLEAN /\ shared \in BOOLEAN /\ given_up \in BOOLEAN /\ approved \in BOOLEAN

ClientTypes ==
  /\ case \in 1..Cases + 1
  /\ pc \in {"start", "post", "running", "list", "approving", "cost"}
  /\ pc # "start" => case <= Cases
  /\ cost_before \in Nat \cup {None} /\ charged \in Nat
  /\ record \in Answers \cup {None} /\ answer \in Answers \cup {None}
  /\ request \in Requests \cup {None}

ServerTypes ==
  /\ meter \in Nat /\ spent \in Nat /\ parked \in Nat /\ restarts \in Nat
  /\ inbox \subseteq Requests
  /\ runs \in Seq(Runs)
  /\ pending \subseteq Approvals

\* Runs that are spoken of exist, and no approval is dated in the future.
Linked ==
  /\ pc \in {"list", "approving", "cost"} => record \in Answers /\ record.run \in DOMAIN runs
  /\ answer # None => answer.run \in DOMAIN runs
  /\ \A q \in inbox : q.kind = "approve" => q.approval.run \in DOMAIN runs
  /\ \A a \in pending : a.run \in DOMAIN runs /\ a.created_at <= parked

ResultTypes == results \in Seq(Trajectories \cup {None}) /\ Len(results) = case - 1

TypeOK == FlagTypes /\ ClientTypes /\ ServerTypes /\ Linked /\ ResultTypes

(***************************************************************************)
(* One client that never walks away from a request at work is answered     *)
(* with the record of the run it started, although it picks the approval   *)
(* by age: what failed requests and answers that were lost leave behind is *)
(* always older (run, lines 204-218).                                      *)
(***************************************************************************)
OwnRecord ==
  ~shared /\ ~given_up =>
    \A c \in DOMAIN results : results[c] # None => results[c].of = c

(***************************************************************************)
(* No money is charged twice, and none that was not spent: whichever reads *)
(* fail, and although the meter is reset and others spend on it, the cases *)
(* together are charged at most what the server spent (run, _cost_total).  *)
(* An answer of /costs carries total_usd here; the code reads one without  *)
(* it as 0.0.                                                              *)
(***************************************************************************)
ChargesAreCovered == charged <= spent

(***************************************************************************)
(* A case that has the server to itself pays for all of its run, before    *)
(* and after the approval (run: cost_before, cost_after).                  *)
(***************************************************************************)
ChargeIsTheRuns ==
  ~shared /\ ~given_up /\ restarts = 0 =>
    \A c \in DOMAIN results :
      results[c] # None /\ ~results[c].cost_unavailable => results[c].cost = runs[results[c].run].cost

(***************************************************************************)
(* Every case ends, with a trajectory or an error, although the server may *)
(* never answer a request (run; httpx's timeout).                          *)
(***************************************************************************)
EveryCaseEnds == <>(case > Cases)
=============================================================================
