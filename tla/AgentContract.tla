--------------------------- MODULE AgentContract ---------------------------
(***************************************************************************)
(* What POST /agent/invoke promises a caller, without saying how: every    *)
(* accepted invocation ends in one answer or one error; PLANNER_MODE       *)
(* decides which planner an answer may come from and which codes an error  *)
(* may carry.                                                              *)
(***************************************************************************)
CONSTANTS Requests, Modes

VARIABLES
    mode,           \* settings.planner_mode
    configured,     \* an LLM planner can be built from the settings
    stage,          \* how far each invocation is
    verdict         \* what its reply says of the planner and of the failure

vars == <<mode, configured, stage, verdict>>

LLMCodes == {"LLM_TIMEOUT", "LLM_PROVIDER_ERROR", "INVALID_PLANNER_OUTPUT",
             "UNKNOWN_TOOL", "TOOL_ARGUMENT_VALIDATION_FAILED"}

NoVerdict == [planner |-> "none", fallback |-> FALSE, code |-> "none"]

\* Rule mode answers from rules.  With an LLM planner the answer comes from
\* its plan, or, in auto mode only, from rules and marked as a fallback.
ByPlan(planner, fallback) ==
    \/ mode = "rule" /\ planner = "rule" /\ ~fallback
    \/ mode # "rule" /\ configured /\ planner = "llm" /\ ~fallback
    \/ mode = "auto" /\ planner = "rule" /\ fallback

\* An invocation may fail before it is planned or after, in every mode; the
\* planner's codes surface in llm mode only, and a planner that cannot be built
\* has one of them.
ByCode(code) ==
    \/ code = "agent_invocation_failed"
    \/ mode = "llm" /\ configured /\ code \in LLMCodes
    \/ mode = "llm" /\ ~configured /\ code = "LLM_PROVIDER_ERROR"

Init ==
    /\ mode \in Modes
    /\ configured \in BOOLEAN
    /\ stage = [r \in Requests |-> "idle"]
    /\ verdict = [r \in Requests |-> NoVerdict]

Accept(r) ==
    /\ stage[r] # "accepted"
    /\ stage' = [stage EXCEPT ![r] = "accepted"]
    /\ verdict' = [verdict EXCEPT ![r] = NoVerdict]
    /\ UNCHANGED <<mode, configured>>

Answer(r) ==
    /\ stage[r] = "accepted"
    /\ stage' = [stage EXCEPT ![r] = "answered"]
    /\ \E planner \in {"rule", "llm"}, fallback \in BOOLEAN :
          /\ ByPlan(planner, fallback)
          /\ verdict' = [verdict EXCEPT ![r] =
                [planner |-> planner, fallback |-> fallback, code |-> "none"]]
    /\ UNCHANGED <<mode, configured>>

Refuse(r) ==
    /\ stage[r] = "accepted"
    /\ stage' = [stage EXCEPT ![r] = "failed"]
    /\ \E code \in LLMCodes \cup {"agent_invocation_failed"} :
          /\ ByCode(code)
          /\ verdict' = [verdict EXCEPT ![r] = [NoVerdict EXCEPT !.code = code]]
    /\ UNCHANGED <<mode, configured>>

Next == \E r \in Requests : Accept(r) \/ Answer(r) \/ Refuse(r)

SafeSpec == Init /\ [][Next]_vars

Spec == SafeSpec /\ \A r \in Requests : WF_vars(Answer(r) \/ Refuse(r))
=============================================================================
