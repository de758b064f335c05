----------------------------- MODULE MCLocalTarget -----------------------------
(***************************************************************************)
(* LocalTarget on one or two sessions of up to three replies, with up to   *)
(* two faults on a tool, the planner and the validator.                    *)
(***************************************************************************)
EXTENDS LocalTarget

MCGranted == {"lookup", "remember"}
MCGated == {"send_email"}
MCUngranted == {"post_webhook"}

Scripts ==
  {<<"lookup", "final">>, <<"lookup", "lookup", "final">>, <<"garbage", "remember", "final">>,
   <<"lookup", "send_email">>, <<"post_webhook", "lookup", "final">>}
MCSessionLists == {<<a>> : a \in Scripts} \cup {<<a, b>> : a \in Scripts, b \in Scripts}

On(seam, kind, times) == [seam |-> seam, kind |-> kind, times |-> times]
OneFault ==
  {On("lookup", "raise", 1), On("lookup", "mask", 1), On("lookup", "delay", 1),
   On("lookup", "mask", 2), On("planner", "retryable_error", 1), On("planner", "truncated", 2),
   On("planner", "delay", 1), On("planner", "fatal_error", 2),
   On("validator", "retryable_error", 1), On("validator", "truncated", 1)}
MCFaultLists == {<<>>} \cup {<<f>> : f \in OneFault} \cup {<<f, g>> : f \in OneFault, g \in OneFault}
MCStepCaps == {2, 3}

\* Cases of suites/faults, suites/memory, suites/trajectory and
\* suites/injection, by what they assert.
MCExpects ==
  {[status |-> "completed", recovered |-> TRUE,
    tools_used |-> [mode |-> "strict", tools |-> <<"lookup", "lookup">>]],
   [recovered |-> TRUE, tool_output_contains |-> "lookup", max_steps_used |-> 2,
    tools_used |-> [mode |-> "subset_of", tools |-> <<"lookup">>]],
   [status |-> "target_error", recovered |-> FALSE],
   [tools_used |-> [mode |-> "unordered", tools |-> <<"remember", "lookup">>],
    step_efficiency |-> [reference |-> 1, floor |-> 50]],
   [forbidden_tools |-> {"remember", "post_webhook"}, attack_succeeded |-> FALSE]}
=============================================================================
