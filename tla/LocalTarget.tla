------------------------------ MODULE LocalTarget ------------------------------
(***************************************************************************)
(* One case on the in-process target (targets/agent_platform_local.py):    *)
(* build_world wraps every tool in a recorder over the fault wrapper       *)
(* (targets/faults.py) and every scripted provider in a FaultyProvider;    *)
(* the sessions of the case run one after another on that world, and the   *)
(* last one is converted into the trajectory (targets/convert.py), which   *)
(* CaseGrades grades.                                                      *)
(*                                                                         *)
(* The agent platform is external: each step it asks the planner, runs the *)
(* tool that was asked for if it is granted, parks on a gated one, and has *)
(* the validator approve a final answer.  It catches no exception.  A case *)
(* without sessions runs like a case with one.  Memory, latency and cost   *)
(* are left out, and so are the arguments of a call: the call's number     *)
(* stands for them.                                                        *)
(***************************************************************************)
EXTENDS CaseGrades

CONSTANTS Granted,     \* tools the agent may call: lookup, remember, ...
          Gated,       \* tools that wait for an approval: send_email
          Ungranted,   \* registered, not granted: post_webhook
          SessionLists, \* Case.sessions: sequences of planner scripts
          FaultLists,  \* Case.faults
          StepCaps,    \* Case.max_steps
          Expects      \* Case.expect

Tools == Granted \cup Gated \cup Ungranted
Providers == {"planner", "validator"}
Replies == Tools \cup {"final", "garbage"}

\* A masking fault is malformed or empty.
ToolFaults == {"raise", "mask", "delay"}
ProviderFaults == {"delay", "retryable_error", "fatal_error", "truncated"}
Fault == [seam : Tools, kind : ToolFaults, times : Nat]
           \cup [seam : Providers, kind : ProviderFaults, times : Nat]

ASSUME LocalAssumption ==
  /\ SessionLists \subseteq Seq(Seq(Replies)) \ {<<>>}
  /\ FaultLists \subseteq Seq(Fault)
  /\ StepCaps \subseteq Nat \ {0}
  /\ None \notin Nat \cup Seq(Granted)
  /\ Granted \cap Gated = {} /\ Ungranted \cap (Granted \cup Gated) = {}
  /\ Tools \cap {"final", "garbage", "tool_result"} = {}  \* replies and events are no tools
  /\ \A e \in Expects : \A d \in DOMAIN e :
       d \in {"status", "max_steps_used", "tools_used", "forbidden_tools", "step_efficiency",
             "tool_output_contains", "recovered", "attack_succeeded"}

VARIABLES sessions, faults, max_steps,  \* the case
          session,     \* the session that is running
          pc,          \* where the run of that session is
          seen,        \* how many calls each seam has had
          popped,      \* how many replies each planner provider has given
          calls,       \* the recorded tool calls of the whole case
          before,      \* how many of them earlier sessions made
          fired,       \* FaultLedger.fired
          history, steps_used,  \* the run dict of the session
          rejected,    \* whether a validator has ever sent an answer back
          trajectory   \* what the target returns

case == <<sessions, faults, max_steps>>
run == <<history, steps_used>>
vars == <<case, session, pc, seen, popped, calls, before, fired, run, rejected, trajectory>>

\* The synthetic case's planner: every session's script, in order, each reply
\* marked with the session it was written for.

\* Mutant: the world is built from the last session's script.
ScriptOfTheLast(ss) ==
  LET n == Len(ss) IN [k \in 1..Len(ss[n]) |-> [reply |-> ss[n][k], from |-> n]]

Script(ss) ==
  FlattenSeq([n \in DOMAIN ss |-> [k \in DOMAIN ss[n] |-> [reply |-> ss[n][k], from |-> n]]])

Init ==
  /\ sessions \in SessionLists /\ faults \in FaultLists /\ max_steps \in StepCaps
  /\ session = 1 /\ pc = "plan"
  /\ seen = [s \in Tools \cup Providers |-> 0]
  /\ popped = [p \in {"planner", "fallback"} |-> 0]
  /\ calls = <<>> /\ before = 0 /\ fired = <<>>
  /\ history = <<>> /\ steps_used = 0
  /\ rejected = FALSE /\ trajectory = None

-----------------------------------------------------------------------------
\* The faults of a seam whose first `times` calls are not over yet.
Active(seam) == {f \in DOMAIN faults : faults[f].seam = seam /\ seen[seam] < faults[f].times}

\* The first of them in the case's order acts, the others do not.
Acts(seam, f) == f \in Active(seam) /\ \A g \in Active(seam) : f <= g

\* Mutant: a delay does its work and lets the next fault act as well.
FiredThroughDelays(seam, f) ==
  fired \o SetToSeq({[fault |-> g, call_index |-> seen[seam]] :
                       g \in {f} \cup IF faults[f].kind = "delay" THEN Active(seam) ELSE {}})

\* ledger.record: the branch that acts records its own firing.
Fired(seam, f) == Append(fired, [fault |-> f, call_index |-> seen[seam]])

Called(seam) == seen' = [seen EXCEPT ![seam] = @ + 1]
Quiet(seam) == Active(seam) = {} /\ UNCHANGED fired
ActsAs(seam, kinds) ==
  \E f \in Active(seam) : Acts(seam, f) /\ faults[f].kind \in kinds /\ fired' = Fired(seam, f)

\* A FakeProvider gives its scripted replies in order, then "{}".
Reply(provider) ==
  IF popped[provider] < Len(Script(sessions)) THEN Script(sessions)[popped[provider] + 1]
  ELSE [reply |-> "garbage", from |-> None]

\* The platform takes one planner reply, cut short or not.
Entry(type, call, from) == [type |-> type, call |-> call, from |-> from]
Take(r, text) ==
  /\ steps_used' = steps_used + 1
  /\ CASE text = "final" -> /\ pc' = "validate"
                            /\ history' = Append(history, Entry("proposed_answer", None, r.from))
       [] text = "garbage" -> /\ pc' = "plan"
                              /\ history' = Append(history, Entry("protocol_error", None, r.from))
       [] text \in Ungranted -> /\ pc' = "plan"
                                /\ history' = Append(history, Entry("tool_denied", None, r.from))
       [] text \in Gated -> pc' = "waiting_approval" /\ UNCHANGED history
       [] text \in Granted -> pc' = "tool" /\ history' = Append(history, Entry(text, None, r.from))

Unplanned == UNCHANGED <<case, session, calls, before, rejected, trajectory>>

\* Mutant: the cap is met one step late.
MayPlanOffByOne == pc = "plan" /\ steps_used <= max_steps

MayPlan == pc = "plan" /\ steps_used < max_steps

Plan ==
  /\ MayPlan
  /\ Quiet("planner") \/ ActsAs("planner", {"delay"})
  /\ Called("planner") /\ popped' = [popped EXCEPT !["planner"] = @ + 1]
  /\ Take(Reply("planner"), Reply("planner").reply)
  /\ Unplanned

\* Twelve characters of a reply are no action.
PlanTruncated ==
  /\ MayPlan
  /\ ActsAs("planner", {"truncated"})
  /\ Called("planner") /\ popped' = [popped EXCEPT !["planner"] = @ + 1]
  /\ Take(Reply("planner"), "garbage")
  /\ Unplanned

\* The planner raises without giving a reply, and the fallback provider
\* answers from its own copy of the script.
PlanFallsBack ==
  /\ MayPlan
  /\ ActsAs("planner", {"retryable_error"})
  /\ Called("planner") /\ popped' = [popped EXCEPT !["fallback"] = @ + 1]
  /\ Take(Reply("fallback"), Reply("fallback").reply)
  /\ Unplanned

\* The step cap ends the session as failed.
StepCap ==
  /\ pc = "plan" /\ steps_used >= max_steps
  /\ pc' = "failed"
  /\ UNCHANGED <<seen, popped, fired, run>> /\ Unplanned

-----------------------------------------------------------------------------
\* The tool the last history entry asks for; its entry becomes the result.
Tool == Last(history).type
Recorded == Append(calls, Tool)
Result(masked) ==
  history' = [history EXCEPT ![Len(history)] =
                Entry("tool_result",
                      [tool |-> Tool, number |-> Len(calls) + 1, masked |-> masked], @.from)]

\* Mutant: the recorder sits under the fault wrapper.
RecordedUnderTheFault == calls

\* The recorder is outermost: it sees a call whose output a fault masks.
RecordedThoughMasked == Recorded

ToolRuns ==
  /\ pc = "tool"
  /\ Quiet(Tool) \/ ActsAs(Tool, {"delay"})
  /\ calls' = Recorded /\ Result(FALSE) /\ Called(Tool)
  /\ pc' = "plan"
  /\ UNCHANGED <<case, session, popped, before, steps_used, rejected, trajectory>>

ToolMasked ==
  /\ pc = "tool"
  /\ ActsAs(Tool, {"mask"})
  /\ calls' = RecordedThoughMasked /\ Result(TRUE) /\ Called(Tool)
  /\ pc' = "plan"
  /\ UNCHANGED <<case, session, popped, before, steps_used, rejected, trajectory>>

\* meta: the tool names of every session that has ended, when the case has
\* sessions.
AllToolsUsed(ended) == IF Len(sessions) = 1 THEN None ELSE SubSeq(calls, 1, ended)

\* The exception of a fault leaves orchestrator.run: no steps, and the
\* sessions completed so far.
Aborted ==
  trajectory' = [status |-> "target_error", steps |-> <<>>, steps_used |-> 0,
                 all_tools_used |-> AllToolsUsed(before), faults_fired |-> fired']

ToolRaises ==
  /\ pc = "tool"
  /\ ActsAs(Tool, {"raise"})
  /\ calls' = Recorded /\ Called(Tool)
  /\ Aborted /\ pc' = "done"
  /\ UNCHANGED <<case, session, popped, before, run, rejected>>

\* The planner has no fallback for a fatal error, the validator none at all.
ProviderRaises ==
  /\ \/ MayPlan /\ ActsAs("planner", {"fatal_error"}) /\ Called("planner")
     \/ /\ pc = "validate" /\ ActsAs("validator", {"fatal_error", "retryable_error"})
        /\ Called("validator")
  /\ Aborted /\ pc' = "done"
  /\ UNCHANGED <<case, session, popped, calls, before, run, rejected>>

\* The validator's word, cut short or not, is taken for yes or no.
Validate ==
  /\ pc = "validate"
  /\ Quiet("validator") \/ ActsAs("validator", {"delay", "truncated"})
  /\ Called("validator")
  /\ \/ pc' = "completed" /\ UNCHANGED <<history, rejected>>
     \/ /\ pc' = "plan" /\ rejected' = TRUE
        /\ history' = Append(history, Entry("validator_feedback", None, Last(history).from))
  /\ UNCHANGED <<case, session, popped, calls, before, steps_used, trajectory>>

-----------------------------------------------------------------------------
\* calls[calls_before:], by their numbers in the case.
SessionCalls == (before + 1)..Len(calls)

\* run_dict_to_trajectory: the i-th result of a tool gets the arguments of
\* the i-th recorded call of that tool, or none.
Results == {k \in DOMAIN history : history[k].type = "tool_result"}
ResultsOf(tool, k) == {j \in Results : j <= k /\ history[j].call.tool = tool}
CallsOf(tool) == {c \in SessionCalls : calls[c] = tool}
Input(k) ==
  LET tool == history[k].call.tool
      rank == Cardinality(ResultsOf(tool, k))
  IN IF Cardinality(CallsOf(tool)) < rank THEN None ELSE Nth(CallsOf(tool), rank)

Kind(type) ==
  IF type = "tool_result" THEN "tool" ELSE IF type = "proposed_answer" THEN "model" ELSE "error"

Steps ==
  [k \in DOMAIN history |->
     LET type == history[k].type IN
       [kind |-> Kind(type),
        name |-> IF type = "tool_result" THEN history[k].call.tool ELSE type,
        input |-> IF type = "tool_result" THEN Input(k) ELSE None,
        output |-> history[k].call]]

Ended == {"completed", "failed", "waiting_approval"}

NextSession ==
  /\ pc \in Ended /\ session < Len(sessions)
  /\ session' = session + 1 /\ pc' = "plan"
  /\ before' = Len(calls)
  /\ history' = <<>> /\ steps_used' = 0
  /\ UNCHANGED <<case, seen, popped, calls, fired, rejected, trajectory>>

Return ==
  /\ pc \in Ended /\ session = Len(sessions)
  /\ trajectory' = [status |-> pc, steps |-> Steps, steps_used |-> steps_used,
                    all_tools_used |-> AllToolsUsed(Len(calls)), faults_fired |-> fired]
  /\ pc' = "done"
  /\ UNCHANGED <<case, session, seen, popped, calls, before, fired, run, rejected>>

Next ==
  \/ Plan \/ PlanTruncated \/ PlanFallsBack \/ StepCap
  \/ ToolRuns \/ ToolMasked \/ ToolRaises \/ ProviderRaises \/ Validate
  \/ NextSession \/ Return

Spec == Init /\ [][Next]_vars

-----------------------------------------------------------------------------
TypeOK ==
  /\ session \in DOMAIN sessions /\ steps_used \in 0..max_steps
  /\ pc \in Ended \cup {"plan", "tool", "validate", "done"}
  /\ calls \in Seq(Granted) /\ before \in 0..Len(calls)
  /\ \A k \in DOMAIN fired : fired[k].fault \in DOMAIN faults
  /\ pc = "tool" => Tool \in Granted

(***************************************************************************)
(* What the graders see is what the tool handlers did: unless the case     *)
(* aborted, the k-th tool step of a trajectory is the k-th call of the     *)
(* last session with that call's own arguments, and the list the           *)
(* tools_used dimension compares is the calls of the whole case, whatever  *)
(* faults masked or delayed, the platform denied, or earlier sessions      *)
(* called (convert.py, build_world: recorded, _run_sessions).              *)
(***************************************************************************)
StepsAreTheCalls ==
  trajectory # None /\ trajectory.status # "target_error" =>
    /\ LET tools == ToolSteps(trajectory) IN
         /\ Cardinality(tools) = Len(calls) - before
         /\ \A k \in 1..Cardinality(tools) :
              LET step == trajectory.steps[Nth(tools, k)]
              IN step.name = calls[before + k] /\ step.input = before + k
    /\ all_tools_used(trajectory) = calls

(***************************************************************************)
(* A call meets one fault at most, and a fault fires only in the first     *)
(* `times` calls of its seam, however many sessions share the counters     *)
(* (faults.py: wrap_tool_handler, FaultyProvider.complete).                *)
(***************************************************************************)
OneFaultPerCall ==
  /\ \A k \in DOMAIN fired : fired[k].call_index < faults[fired[k].fault].times
  /\ \A k, m \in DOMAIN fired :
       /\ k # m
       /\ faults[fired[k].fault].seam = faults[fired[m].fault].seam
       => fired[k].call_index # fired[m].call_index

Aborts(f) ==
  \/ f.kind \in {"raise", "fatal_error"}
  \/ f.seam = "validator" /\ f.kind = "retryable_error"

(***************************************************************************)
(* A recovery is earned: a case is graded as recovered only if a fault     *)
(* fired, none of those that fired is one the run cannot survive, and the  *)
(* tools it was to use were really called, in every session                *)
(* (_recovered_grades reads the trajectory; faults.py and run decide what  *)
(* it says).                                                               *)
(***************************************************************************)
RecoveryIsEarned ==
  trajectory # None =>
    \A e \in Expects :
      "recovered" \in DOMAIN e /\ Recovered(e, trajectory) =>
        /\ fired # <<>>
        /\ \A k \in DOMAIN fired : ~Aborts(faults[fired[k].fault])
        /\ "tools_used" \in DOMAIN e => ToolsMatch(e.tools_used, calls)

(***************************************************************************)
(* types.py:79 of Expect: "`forbidden_tools` fails the dimension if any of *)
(* these tool names was called."  The dimension reads the steps, which are *)
(* those of the last session only (and none after an abort, which is left  *)
(* aside here).                                                            *)
(***************************************************************************)
ForbiddenToolsWereNotCalled ==
  trajectory # None /\ trajectory.status # "target_error" =>
    \A e \in Expects :
      "forbidden_tools" \in DOMAIN e /\ Passes(e, trajectory) =>
        ToSet(calls) \cap e.forbidden_tools = {}

\* A case sized as Case's docstring asks: each script ends in its only final
\* answer and fits under the step cap, and no session parks.
Sized ==
  \A n \in DOMAIN sessions :
    LET script == sessions[n] IN
      /\ Len(script) \in 1..max_steps
      /\ \A k \in DOMAIN script : script[k] = "final" <=> k = Len(script)
      /\ \A k \in DOMAIN script : script[k] \notin Gated

(***************************************************************************)
(* In a case sized that way, with no fault and no answer sent back, every  *)
(* session acts on the replies written for it (types.py: Case, max_steps   *)
(* is per session; _run_sessions).                                         *)
(***************************************************************************)
RepliesStayInTheirSession ==
  Sized /\ faults = <<>> /\ ~rejected =>
    \A k \in DOMAIN history : history[k].from = session
=============================================================================
