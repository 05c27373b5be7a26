--------------------------- MODULE AgentPipeline ---------------------------
(***************************************************************************)
(* The request path of the maintenance agent: POST /agent/invoke is run on *)
(* a worker thread, AgentService.invoke drives the five graph nodes        *)
(*                                                                         *)
(*   route_query -> plan_actions -> execute_tools                          *)
(*               -> retrieve_context -> synthesize                         *)
(*                                                                         *)
(* and maps the final state, or the exception, onto a reply.  The planner  *)
(* node dispatches on PLANNER_MODE between the frozen rule planner and the *)
(* LLM planner.                                                            *)
(*                                                                         *)
(* Data is abstracted to what the control flow tells apart: a query is the *)
(* entities and keyword groups the parser finds in it, an LLM completion   *)
(* is unreadable or a plan, the arguments of a planned call do or do not   *)
(* validate against the tool's input model, and a tool payload is its      *)
(* outcome.                                                                *)
(***************************************************************************)
EXTENDS Naturals, Sequences, FiniteSets

CONSTANTS
    Requests,       \* callers, each with at most one invocation in flight
    ThreadLimit,    \* worker threads that run the synchronous endpoint
    Modes,          \* values of PLANNER_MODE under study
    Queries,        \* abstract queries, see QueryShape
    Plans           \* plans an LLM completion may carry, see PlanShape

ToolNames == {"device", "alarm", "manual"}

Intents == {"alarm_diagnosis", "maintenance_advice", "device_status", "unknown"}

\* What parse_query can tell about a text: a device, an alarm code and the
\* keyword groups that occur in it.
QueryShape == [equipment : BOOLEAN, alarm : BOOLEAN,
               words : SUBSET {"alarm", "maintenance", "status"}]

Call == [tool : ToolNames \cup {"unregistered"}, args : {"valid", "invalid"}]

PlanShape == [intent : Intents \cup {"none"}, calls : Seq(Call)]

ASSUME PipelineAssumption ==
    /\ ThreadLimit \in Nat \ {0}
    /\ Modes \subseteq {"rule", "llm", "auto"}
    /\ Queries \subseteq QueryShape
    /\ Plans \subseteq PlanShape

\* The five codes of the planner's failure taxonomy.
PlannerCodes == {"LLM_PROVIDER_ERROR", "LLM_TIMEOUT", "INVALID_PLANNER_OUTPUT",
                 "UNKNOWN_TOOL", "TOOL_ARGUMENT_VALIDATION_FAILED"}

Unexpected == "UNEXPECTED_PLANNER_ERROR"

InvocationFailed == "agent_invocation_failed"

\* What a tool payload says: found, not found, the source could not be read,
\* or, for the manual, fragments with or without any text in them.
Outcomes == {"found", "not_found", "unavailable", "hits", "blank_hits"}

Result == [tool : ToolNames, outcome : Outcomes]

Sections == {"not_requested", "unavailable", "not_found", "found", "hits"}

Events == {"request.started", "request.completed",
           "planner.started", "planner.completed", "planner.failed",
           "tool.started", "tool.completed", "tool.failed",
           "rag.started", "rag.completed", "rag.unavailable",
           "llm.started", "llm.completed", "llm.failed"}

----------------------------------------------------------------------------
VARIABLES
    mode,           \* settings.planner_mode, fixed for the process
    configured,     \* can build_llm_planner succeed with these settings
    catalog,        \* the device catalog has been read, and is cached for good
    backlog,        \* invocations waiting for a worker thread, oldest first
    pc,             \* where each invocation stands
    query,          \* the query of each invocation
    state,          \* MaintenanceState of each invocation
    run,            \* the executor's local lists
    tally,          \* events logged under each invocation's request_id
    reply           \* what the caller gets

vars == <<mode, configured, catalog, backlog, pc, query, state, run, tally, reply>>

settings == <<mode, configured>>

\* What the requests of a process share, the thread pool aside.
process == <<mode, configured, catalog>>

\* Steps that hold a worker thread.
Running == {"route_query", "plan_actions", "awaiting_llm", "execute_tools",
            "in_tool", "retrieve_context", "synthesize", "respond"}

NoSections == [t \in ToolNames |-> "not_requested"]

FreshState ==
    [intent |-> "none", equipment |-> FALSE, alarm |-> FALSE,
     required |-> <<>>, calls |-> <<>>,
     used |-> "none", fallback |-> FALSE, reason |-> "none",
     results |-> <<>>, error |-> FALSE,
     context |-> {}, evidence |-> {}, answer |-> NoSections]

FreshRun == [results |-> <<>>, skipped |-> 0]

NoEvents == [e \in Events |-> 0]

NoReply ==
    [kind |-> "none", code |-> "none", intent |-> "none", planner |-> "none",
     fallback |-> FALSE, reason |-> "none", required |-> <<>>, results |-> <<>>,
     error |-> FALSE, answer |-> NoSections, evidence |-> {}]

StateShape ==
    [intent : Intents \cup {"none"}, equipment : BOOLEAN, alarm : BOOLEAN,
     required : Seq(ToolNames), calls : Seq(Call),
     used : {"none", "rule", "llm"}, fallback : BOOLEAN,
     reason : PlannerCodes \cup {Unexpected, "none"},
     results : Seq(Result), error : BOOLEAN,
     context : SUBSET Nat, evidence : SUBSET Nat,
     answer : [ToolNames -> Sections]]

ReplyShape ==
    [kind : {"none", "answer", "error"},
     code : PlannerCodes \cup {InvocationFailed, "none"},
     intent : Intents \cup {"none"}, planner : {"none", "rule", "llm"},
     fallback : BOOLEAN, reason : PlannerCodes \cup {Unexpected, "none"},
     required : Seq(ToolNames), results : Seq(Result), error : BOOLEAN,
     answer : [ToolNames -> Sections], evidence : SUBSET Nat]

Init ==
    /\ mode \in Modes
    /\ configured \in BOOLEAN
    /\ catalog = FALSE
    /\ backlog = <<>>
    /\ pc = [r \in Requests |-> "idle"]
    /\ query \in [Requests -> Queries]
    /\ state = [r \in Requests |-> FreshState]
    /\ run = [r \in Requests |-> FreshRun]
    /\ tally = [r \in Requests |-> NoEvents]
    /\ reply = [r \in Requests |-> NoReply]

----------------------------------------------------------------------------
(* Pure parts of the nodes. *)

\* _detect_intent: a fixed precedence order.
IntentOf(q) ==
    IF q.alarm \/ "alarm" \in q.words THEN "alarm_diagnosis"
    ELSE IF "maintenance" \in q.words THEN "maintenance_advice"
    ELSE IF q.equipment \/ "status" \in q.words THEN "device_status"
    ELSE "unknown"

\* plan_actions: the frozen rule planner, over the state's entities and intent.
RuleTools(st) ==
      (IF st.equipment THEN <<"device">> ELSE <<>>)
   \o (IF st.alarm THEN <<"alarm">> ELSE <<>>)
   \o (IF st.intent \in {"alarm_diagnosis", "maintenance_advice"}
       THEN <<"manual">> ELSE <<>>)

\* validate_tool_arguments: a registered tool whose input model accepts them.
Validates(call) == call.tool \in ToolNames /\ call.args = "valid"

\* Mutant of PlanDefect: only the first call of the plan is validated.
PlanDefect_FirstCallOnly(calls) ==
    IF calls = <<>> \/ Validates(calls[1]) THEN "none"
    ELSE IF calls[1].tool \notin ToolNames THEN "UNKNOWN_TOOL"
         ELSE "TOOL_ARGUMENT_VALIDATION_FAILED"

\* _validate_tools: the code of the first call that is refused.
PlanDefect(calls) ==
    IF \A i \in DOMAIN calls : Validates(calls[i]) THEN "none"
    ELSE LET i == CHOOSE i \in DOMAIN calls :
                     /\ ~Validates(calls[i])
                     /\ \A j \in 1 .. i - 1 : Validates(calls[j])
         IN  IF calls[i].tool \notin ToolNames THEN "UNKNOWN_TOOL"
             ELSE "TOOL_ARGUMENT_VALIDATION_FAILED"

\* The argument adapters: can the call's arguments be read off the state?  The
\* manual query falls back to the request text, which is never blank.
Derivable(tool, st) ==
    /\ tool = "device" => st.equipment
    /\ tool = "alarm" => st.alarm

\* execute_tools: an explicit call list takes precedence over required_tools.
Scheduled(st) == IF st.calls # <<>> THEN Len(st.calls) ELSE Len(st.required)

ToolAt(st, n) == IF st.calls # <<>> THEN st.calls[n].tool ELSE st.required[n]

Runnable(st, n) == IF st.calls # <<>> THEN Validates(st.calls[n])
                   ELSE Derivable(st.required[n], st)

\* The entry of the list the executor is at.
Cursor(r) == Len(run[r].results) + run[r].skipped + 1

\* Mutant of Cited: a hit without text is cited too.
Cited_BlankHitsToo(results) ==
    {i \in DOMAIN results :
        results[i].tool = "manual" => results[i].outcome \in {"hits", "blank_hits"}}

\* _standardize_evidence: the positions of the results that become evidence.
\* Every device and alarm result does; a manual result only through hits that
\* have text.
Cited(results) ==
    {i \in DOMAIN results :
        results[i].tool = "manual" => results[i].outcome = "hits"}

\* Mutant of SectionOf: no branch for hits without text.
SectionOf_NoBlankBranch(results, tool) ==
    IF \A i \in DOMAIN results : results[i].tool # tool THEN "not_requested"
    ELSE results[CHOOSE i \in DOMAIN results : results[i].tool = tool].outcome

\* _find_result and the section renderers: a section shows the first result of
\* its tool.
SectionOf(results, tool) ==
    IF \A i \in DOMAIN results : results[i].tool # tool THEN "not_requested"
    ELSE LET i == CHOOSE i \in DOMAIN results :
                     /\ results[i].tool = tool
                     /\ \A j \in 1 .. i - 1 : results[j].tool # tool
         IN  IF results[i].outcome = "blank_hits" THEN "hits"
             ELSE results[i].outcome

\* One log_event per member, under the request's correlation id.
Emit(r, events) ==
    tally' = [tally EXCEPT ![r] =
                [e \in Events |-> tally[r][e] + (IF e \in events THEN 1 ELSE 0)]]

Goto(r, label) == pc' = [pc EXCEPT ![r] = label]

Busy == {r \in Requests : pc[r] \in Running}

----------------------------------------------------------------------------
(* The caller and the thread pool. *)

\* A validated POST body arrives; a caller sends its next one after a reply.
Submit(r) ==
    /\ pc[r] \in {"idle", "done"}
    /\ \E q \in Queries : query' = [query EXCEPT ![r] = q]
    /\ Goto(r, "queued")
    /\ backlog' = Append(backlog, r)
    /\ tally' = [tally EXCEPT ![r] = NoEvents]
    /\ reply' = [reply EXCEPT ![r] = NoReply]
    /\ UNCHANGED <<process, state, run>>

\* Mutant of Admit: the newest waiting invocation goes first.
Admit_NewestFirst(r) ==
    /\ backlog # <<>> /\ backlog[Len(backlog)] = r
    /\ Cardinality(Busy) < ThreadLimit
    /\ backlog' = SubSeq(backlog, 1, Len(backlog) - 1)
    /\ Goto(r, "route_query")
    /\ Emit(r, {"request.started"})
    /\ UNCHANGED <<process, query, state, run, reply>>

\* A free worker thread takes the oldest waiting invocation and enters
\* AgentService.invoke, up to the call of the graph.
Admit(r) ==
    /\ backlog # <<>> /\ Head(backlog) = r /\ pc[r] = "queued"
    /\ Cardinality(Busy) < ThreadLimit
    /\ backlog' = Tail(backlog)
    /\ Goto(r, "route_query")
    /\ Emit(r, {"request.started"})
    /\ UNCHANGED <<process, query, state, run, reply>>

\* An exception leaves the graph: invoke logs the failure, chains the cause and
\* the error handler answers with the code.
Abort(r, code, events) ==
    /\ Goto(r, "done")
    /\ reply' = [reply EXCEPT ![r] = [NoReply EXCEPT !.kind = "error", !.code = code]]
    /\ Emit(r, events \cup {"request.completed"})
    /\ state' = [state EXCEPT ![r] = FreshState]
    /\ run' = [run EXCEPT ![r] = FreshRun]
    /\ UNCHANGED <<process, backlog, query>>

----------------------------------------------------------------------------
(* Understanding and planning. *)

\* Parse the query, over the device catalog, which stays cached once it has been
\* read; an entity the parser did not find leaves the field alone.
RouteQuery(r) ==
    /\ pc[r] = "route_query"
    /\ catalog' = TRUE
    /\ state' = [state EXCEPT ![r] =
                   [@ EXCEPT !.intent = IntentOf(query[r]),
                             !.equipment = query[r].equipment \/ state[r].equipment,
                             !.alarm = query[r].alarm \/ state[r].alarm]]
    /\ Goto(r, "plan_actions")
    /\ UNCHANGED <<settings, backlog, query, run, tally, reply>>

\* The catalog is missing or malformed: the parser raises before anything is
\* planned, in every mode.  A failure is not cached, the next query tries again.
CatalogFails(r) ==
    /\ pc[r] = "route_query" /\ ~catalog
    /\ Abort(r, InvocationFailed, {})

\* The planner node returns an update and the graph moves to the executor.
Planned(r, update, events) ==
    /\ state' = [state EXCEPT ![r] = update]
    /\ Goto(r, "execute_tools")
    /\ Emit(r, events)
    /\ UNCHANGED <<process, backlog, query, run, reply>>

\* Mutant of RuleUpdate: a fallback is not marked.
RuleUpdate_Unmarked(st, reason) ==
    [st EXCEPT !.required = RuleTools(st), !.calls = <<>>, !.used = "rule",
               !.fallback = FALSE, !.reason = reason]

\* _rule_update over the frozen planner's output.
RuleUpdate(st, reason) ==
    [st EXCEPT !.required = RuleTools(st), !.calls = <<>>, !.used = "rule",
               !.fallback = (reason # "none"), !.reason = reason]

\* _llm_update: the plan's calls, and its intent when it states one.
LLMUpdate(st, plan) ==
    [st EXCEPT !.required = [i \in DOMAIN plan.calls |-> plan.calls[i].tool],
               !.calls = plan.calls, !.used = "llm",
               !.fallback = FALSE, !.reason = "none",
               !.intent = IF plan.intent = "none" THEN @ ELSE plan.intent]

\* Mutant of PlannerFails: auto mode raises as llm mode does.
PlannerFails_AlwaysRaises(r, code, events) ==
    Abort(r, IF code \in PlannerCodes THEN code ELSE InvocationFailed,
          events \cup {"planner.failed"})

\* Mutant of PlannerFails: the failed attempt leaves its mark on the state.
PlannerFails_ClearsIntent(r, code, events) ==
    IF mode = "llm"
    THEN Abort(r, IF code \in PlannerCodes THEN code ELSE InvocationFailed,
               events \cup {"planner.failed"})
    ELSE Planned(r, RuleUpdate([state[r] EXCEPT !.intent = "unknown"], code),
                 events \cup {"planner.failed"})

\* dispatch_plan's two except branches: llm mode re-raises, auto mode runs the
\* rule planner on the state the LLM planner left alone.
PlannerFails(r, code, events) ==
    IF mode = "llm"
    THEN Abort(r, IF code \in PlannerCodes THEN code ELSE InvocationFailed,
               events \cup {"planner.failed"})
    ELSE Planned(r, RuleUpdate(state[r], code), events \cup {"planner.failed"})

\* PLANNER_MODE=rule.
PlanByRule(r) ==
    /\ pc[r] = "plan_actions" /\ mode = "rule"
    /\ Planned(r, RuleUpdate(state[r], "none"),
               {"planner.started", "planner.completed"})

\* llm and auto: no planner can be built from the settings.
PlannerNotBuilt(r) ==
    /\ pc[r] = "plan_actions" /\ mode # "rule" /\ ~configured
    /\ PlannerFails(r, "LLM_PROVIDER_ERROR", {"planner.started"})

\* llm and auto: the planner is built and its provider called.
AskLLM(r) ==
    /\ pc[r] = "plan_actions" /\ mode # "rule" /\ configured
    /\ Goto(r, "awaiting_llm")
    /\ Emit(r, {"planner.started", "llm.started"})
    /\ UNCHANGED <<process, backlog, query, state, run, reply>>

\* The provider call raises: the two exceptions the planner translates, or any
\* other one, which passes it by.
ProviderRaises(r) ==
    /\ pc[r] = "awaiting_llm"
    /\ \/ \E code \in {"LLM_TIMEOUT", "LLM_PROVIDER_ERROR"} :
             PlannerFails(r, code, {"llm.failed"})
       \/ PlannerFails(r, Unexpected, {})

\* A completion arrives that holds no JSON object, or one off the plan schema,
\* or one the JSON parser gives up on (nesting beyond the recursion limit).
CompletionUnreadable(r) ==
    /\ pc[r] = "awaiting_llm"
    /\ \E code \in {"INVALID_PLANNER_OUTPUT", Unexpected} :
          PlannerFails(r, code, {"llm.completed"})

\* Mutant of CompletionIsPlan: the plan is announced before it is validated.
CompletionIsPlan_AnnouncedFirst(r) ==
    /\ pc[r] = "awaiting_llm"
    /\ \E plan \in Plans :
          IF PlanDefect(plan.calls) = "none"
          THEN Planned(r, LLMUpdate(state[r], plan),
                       {"llm.completed", "planner.completed"})
          ELSE PlannerFails(r, PlanDefect(plan.calls),
                            {"llm.completed", "planner.completed"})

\* A completion arrives that reads as a plan: every call is validated before
\* any of them is accepted.
CompletionIsPlan(r) ==
    /\ pc[r] = "awaiting_llm"
    /\ \E plan \in Plans :
          IF PlanDefect(plan.calls) = "none"
          THEN Planned(r, LLMUpdate(state[r], plan),
                       {"llm.completed", "planner.completed"})
          ELSE PlannerFails(r, PlanDefect(plan.calls), {"llm.completed"})

----------------------------------------------------------------------------
(* Execution. *)

\* One turn of the executor's loop: start the call, or report and skip it.
TakeCall(r) ==
    /\ pc[r] = "execute_tools"
    /\ Cursor(r) <= Scheduled(state[r])
    /\ IF Runnable(state[r], Cursor(r))
       THEN /\ Goto(r, "in_tool")
            /\ Emit(r, {"tool.started"})
            /\ UNCHANGED run
       ELSE /\ run' = [run EXCEPT ![r] = [@ EXCEPT !.skipped = run[r].skipped + 1]]
            /\ UNCHANGED <<pc, tally>>
    /\ UNCHANGED <<process, backlog, query, state, reply>>

\* The tool returns a payload.
ToolReturns(r, tool, outcome, events) ==
    /\ pc[r] = "in_tool" /\ ToolAt(state[r], Cursor(r)) = tool
    /\ run' = [run EXCEPT ![r] =
                 [@ EXCEPT !.results = Append(run[r].results,
                                              [tool |-> tool, outcome |-> outcome])]]
    /\ Goto(r, "execute_tools")
    /\ Emit(r, events \cup {"tool.completed"})
    /\ UNCHANGED <<process, backlog, query, state, reply>>

\* get_device_status: a source answers, has no such device, or is configured
\* and cannot be read.
DeviceReturns(r) ==
    \E outcome \in {"found", "not_found", "unavailable"} :
        ToolReturns(r, "device", outcome, {})

\* query_alarm_code: the catalog has the code or does not.
AlarmReturns(r) ==
    \E outcome \in {"found", "not_found"} : ToolReturns(r, "alarm", outcome, {})

\* search_maintenance_manual: no provider can be built, the retrieval cannot
\* run, or it runs, with or without hits.
ManualReturns(r) ==
    \/ ToolReturns(r, "manual", "unavailable", {"rag.unavailable"})
    \/ ToolReturns(r, "manual", "unavailable", {"rag.started", "rag.unavailable"})
    \/ \E outcome \in {"hits", "blank_hits", "not_found"} :
          ToolReturns(r, "manual", outcome, {"rag.started", "rag.completed"})

\* Mutant of ToolRaises: the exception passes without tool.failed.
ToolRaises_Unrecorded(r) ==
    /\ pc[r] = "in_tool"
    /\ Abort(r, InvocationFailed, {})

\* The tool raises: the whole invocation fails, whatever ran before it.  A
\* retrieval that raises something else than its own error has started.
ToolRaises(r) ==
    /\ pc[r] = "in_tool"
    /\ Abort(r, InvocationFailed,
             {"tool.failed"} \cup
             (IF ToolAt(state[r], Cursor(r)) = "manual" THEN {"rag.started"} ELSE {}))

\* The loop is over: the node returns its update, and the state's reducer
\* appends the results to those it holds.
FinishTools(r) ==
    /\ pc[r] = "execute_tools"
    /\ Cursor(r) > Scheduled(state[r])
    /\ state' = [state EXCEPT ![r] =
                   [@ EXCEPT !.results = state[r].results \o run[r].results,
                             !.error = run[r].skipped > 0]]
    /\ Goto(r, "retrieve_context")
    /\ UNCHANGED <<process, backlog, query, run, tally, reply>>

----------------------------------------------------------------------------
(* Evidence, answer, reply. *)

RetrieveContext(r) ==
    /\ pc[r] = "retrieve_context"
    /\ state' = [state EXCEPT ![r] = [@ EXCEPT !.context = Cited(state[r].results)]]
    /\ Goto(r, "synthesize")
    /\ UNCHANGED <<process, backlog, query, run, tally, reply>>

Synthesize(r) ==
    /\ pc[r] = "synthesize"
    /\ state' = [state EXCEPT ![r] =
                   [@ EXCEPT
                      !.evidence = IF state[r].context # {} THEN state[r].context
                                    ELSE Cited(state[r].results),
                      !.answer = [t \in ToolNames |-> SectionOf(state[r].results, t)]]]
    /\ Goto(r, "respond")
    /\ UNCHANGED <<process, backlog, query, run, tally, reply>>

\* invoke translates the final state; the debug block carries the plan, the
\* executor's own error and the fallback reason.
Respond(r) ==
    /\ pc[r] = "respond"
    /\ reply' = [reply EXCEPT ![r] =
                   [kind |-> "answer", code |-> "none",
                    intent |-> state[r].intent, planner |-> state[r].used,
                    fallback |-> state[r].fallback, reason |-> state[r].reason,
                    required |-> state[r].required, results |-> state[r].results,
                    error |-> state[r].error, answer |-> state[r].answer,
                    evidence |-> state[r].evidence]]
    /\ Goto(r, "done")
    /\ Emit(r, {"request.completed"})
    /\ state' = [state EXCEPT ![r] = FreshState]
    /\ run' = [run EXCEPT ![r] = FreshRun]
    /\ UNCHANGED <<process, backlog, query>>

----------------------------------------------------------------------------
Planning(r) ==
    \/ RouteQuery(r) \/ CatalogFails(r)
    \/ PlanByRule(r) \/ PlannerNotBuilt(r) \/ AskLLM(r)
    \/ ProviderRaises(r) \/ CompletionUnreadable(r) \/ CompletionIsPlan(r)

Executing(r) ==
    \/ TakeCall(r) \/ FinishTools(r) \/ ToolRaises(r)
    \/ DeviceReturns(r) \/ AlarmReturns(r) \/ ManualReturns(r)

Answering(r) == RetrieveContext(r) \/ Synthesize(r) \/ Respond(r)

\* Everything but the caller's own decision to send a query.
Serve(r) == Admit(r) \/ Planning(r) \/ Executing(r) \/ Answering(r)

Next == \E r \in Requests : Submit(r) \/ Serve(r)

SafeSpec == Init /\ [][Next]_vars

\* The event loop hands a free thread the head of its queue, threads run, and
\* every external call returns or raises: LLM and HTTP retrieval calls carry a
\* timeout, the other sources are local.
Spec == SafeSpec /\ \A r \in Requests : WF_vars(Serve(r))

----------------------------------------------------------------------------
(* Properties. *)

TypeOK ==
    /\ mode \in Modes
    /\ configured \in BOOLEAN
    /\ catalog \in BOOLEAN
    /\ backlog \in Seq(Requests)
    /\ pc \in [Requests -> Running \cup {"idle", "queued", "done"}]
    /\ query \in [Requests -> Queries]
    /\ state \in [Requests -> StateShape]
    /\ run \in [Requests -> [results : Seq(Result), skipped : Nat]]
    /\ tally \in [Requests -> [Events -> Nat]]
    /\ reply \in [Requests -> ReplyShape]

Answered(r) == reply[r].kind = "answer"

\* The executor never has to skip a call: whichever planner made the plan, and
\* although its arguments are checked or derived only later, an answered
\* request ran exactly the planned tools, once each, in the planned order, and
\* carries no executor error (execute_tools, _execute_planned_calls).
PlansRunWhole ==
    \A r \in Requests : Answered(r) =>
        /\ ~reply[r].error
        /\ Len(reply[r].results) = Len(reply[r].required)
        /\ \A i \in DOMAIN reply[r].results :
              reply[r].results[i].tool = reply[r].required[i]

\* The planner bookkeeping of a plan tells how it came about.
MarkedHonestly(planner, fallback, reason) ==
    /\ planner \in {"rule", "llm"}
    /\ planner = "rule" <=> (mode = "rule" \/ fallback)
    /\ planner = "llm" => configured
    /\ fallback => mode = "auto"
    /\ fallback <=> reason # "none"

\* No silent change of planner (dispatch_plan): rule mode neither calls an LLM
\* nor reports a fallback; llm mode answers from an LLM plan or fails; auto
\* mode never fails with a planner code, and marks a rule plan as a fallback
\* with the reason.
ModeHonoured ==
    \A r \in Requests :
        /\ mode = "rule" => tally[r]["llm.started"] = 0
        /\ mode # "llm" => reply[r].code \notin PlannerCodes
        /\ Answered(r) =>
              MarkedHonestly(reply[r].planner, reply[r].fallback, reply[r].reason)

\* A fallback is the rule baseline (dispatch_plan, _fallback): whatever the
\* failed LLM attempt did, the tools that ran and the intent reported are those
\* rule mode derives from the same query.
FallbackIsBaseline ==
    \A r \in Requests : Answered(r) /\ reply[r].planner = "rule" =>
        /\ reply[r].intent = IntentOf(query[r])
        /\ reply[r].required =
              RuleTools([equipment |-> query[r].equipment, alarm |-> query[r].alarm,
                         intent |-> IntentOf(query[r])])

\* A planning failure that reaches the caller reached no tool (dispatch_plan,
\* AgentService.invoke): a reply with a planner code means nothing was executed.
RefusedPlanRunsNothing ==
    \A r \in Requests : reply[r].code \in PlannerCodes =>
        /\ tally[r]["tool.started"] = 0
        /\ tally[r]["planner.completed"] = 0

\* Every operation that was logged as started is logged as ended by the time
\* the caller has the reply (request_completed, planner_failed, tool_failed on
\* every path out of invoke).
OperationsAreClosed ==
    \A r \in Requests : pc[r] = "done" =>
        LET n == tally[r] IN
        /\ n["request.started"] = 1 /\ n["request.completed"] = 1
        /\ n["planner.started"] = n["planner.completed"] + n["planner.failed"]
        /\ n["tool.started"] = n["tool.completed"] + n["tool.failed"]
        /\ Answered(r) => n["tool.completed"] = Len(reply[r].results)

NoToolTwice(calls) ==
    \A i, j \in DOMAIN calls : calls[i].tool = calls[j].tool => i = j

\* A section and the evidence agree with what the tools said (synthesize,
\* retrieve_context): a tool's section says "not requested" only if the plan
\* does not name it; and when no tool ran twice, a source that could not be read
\* is never shown as an empty one, and the manual is cited as a document exactly
\* when its section shows fragments and one of them has text.
AnswerTellsOutcomes ==
    \A r \in Requests : Answered(r) =>
        LET answer  == reply[r].answer
            results == reply[r].results
        IN  /\ \A t \in ToolNames :
                  answer[t] = "not_requested"
                  <=> (\A i \in DOMAIN reply[r].required : reply[r].required[i] # t)
            /\ NoToolTwice(results) =>
                  /\ \A i \in DOMAIN results :
                        answer[results[i].tool] = "unavailable"
                        <=> results[i].outcome = "unavailable"
                  /\ \A i \in DOMAIN results : results[i].tool = "manual" =>
                        (i \in reply[r].evidence
                         <=> (answer["manual"] = "hits" /\ results[i].outcome # "blank_hits"))

\* Every accepted request is answered or refused, however the others fare
\* (AgentService.invoke turns every exception into a reply).
EveryRequestEnds == \A r \in Requests : pc[r] = "queued" ~> pc[r] = "done"

\* What AgentContract sees of an invocation: its stage and the verdict.
Contract ==
    INSTANCE AgentContract WITH
        stage <- [r \in Requests |->
                    IF pc[r] = "idle" THEN "idle"
                    ELSE IF pc[r] # "done" THEN "accepted"
                    ELSE IF Answered(r) THEN "answered" ELSE "failed"],
        verdict <- [r \in Requests |->
                      [planner |-> reply[r].planner, fallback |-> reply[r].fallback,
                       code |-> reply[r].code]]

\* The pipeline keeps the contract of the endpoint, liveness included.
ImplementsContract == Contract!Spec

----------------------------------------------------------------------------
(* A statement of the documentation that the code does not live up to. *)

\* AgentInvokeResponse: "a knowledge base that was unavailable, is reported
\* inside answer".  The answer renders only the first result of a tool, so an
\* outage met by a later call of the same tool is not in it (graph.py,
\* _find_result).
EveryOutageIsReported ==
    \A r \in Requests : Answered(r) =>
        \A i \in DOMAIN reply[r].results :
            reply[r].results[i].outcome = "unavailable" =>
                reply[r].answer[reply[r].results[i].tool] = "unavailable"
=============================================================================
