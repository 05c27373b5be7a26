------------------------- MODULE AgentReplyProofs -------------------------
(***************************************************************************)
(* Theorems about what the caller of AgentPipeline is told: what a reply   *)
(* says of the tools that ran, of the plan behind it, and that every       *)
(* operation logged as started is logged as ended when it is given.  They  *)
(* rest on the types and on PlanInv of AgentPipelineProofs.                *)
(***************************************************************************)
EXTENDS AgentPipelineProofs

----------------------------------------------------------------------------
(* What the steps do to the request they belong to. *)

Rises(r, e, k) == tally'[r][e] = tally[r][e] + k

ToolEvents == {"tool.started", "tool.completed", "tool.failed"}

Kept(r) ==
    /\ query'[r] = query[r] /\ state'[r] = state[r]
    /\ run'[r] = run[r] /\ reply'[r] = reply[r]

LEMMA EmitRises ==
    ASSUME TypeOK, NEW r \in Requests, NEW events, Emit(r, events), NEW e \in Events
    PROVE  /\ tally[r][e] \in Nat
           /\ e \in events => Rises(r, e, 1)
           /\ e \notin events => Rises(r, e, 0)
BY EmitEffect DEF TypeOK, Rises

LEMMA AllEvents ==
    /\ ToolEvents \subseteq Events
    /\ {"request.started", "request.completed"} \subseteq Events
    /\ {"planner.started", "planner.completed", "planner.failed"} \subseteq Events
BY DEF ToolEvents, Events

\* An invocation that fails: the reply carries the code and nothing else.
Refuses(r, code) ==
    /\ pc'[r] = "done" /\ query'[r] = query[r]
    /\ state'[r] = FreshState /\ run'[r] = FreshRun
    /\ reply'[r] = [NoReply EXCEPT !.kind = "error", !.code = code]
    /\ Rises(r, "request.completed", 1)

\* A plan is handed to the executor: the rule planner's, over the state as
\* parsing left it, or an LLM's all calls of which validate.
HandsOver(r) ==
    /\ pc'[r] = "execute_tools" /\ query'[r] = query[r]
    /\ run'[r] = run[r] /\ reply'[r] = reply[r]
    /\ Rises(r, "request.completed", 0)
    /\ \/ \E reason : state'[r] = RuleUpdate(state[r], reason)
       \/ \E plan \in PlanShape : state'[r] = LLMUpdate(state[r], plan)

\* With which code: what the LLM planner failed with, or the catch-all.
MayRefuse(r, code) ==
    /\ mode = "llm" /\ code \in PlannerCodes \cup {InvocationFailed}
    /\ pc[r] = "plan_actions" => ~configured /\ code = "LLM_PROVIDER_ERROR"

PlannerStep(r) ==
    \/ PlanByRule(r) \/ PlannerNotBuilt(r) \/ ProviderRaises(r)
    \/ CompletionUnreadable(r) \/ CompletionIsPlan(r)

\* One planner operation ends: as completed with a plan, or as failed with
\* either outcome.
PlannerEnds(r) ==
    /\ pc[r] \in {"plan_actions", "awaiting_llm"}
    /\ Rises(r, "request.started", 0)
    /\ Rises(r, "planner.started", IF pc[r] = "plan_actions" THEN 1 ELSE 0)
    /\ \A e \in ToolEvents : Rises(r, e, 0)
    /\ \/ /\ Rises(r, "planner.completed", 1) /\ Rises(r, "planner.failed", 0)
          /\ HandsOver(r)
       \/ /\ Rises(r, "planner.completed", 0) /\ Rises(r, "planner.failed", 1)
          /\ HandsOver(r) \/ \E code : Refuses(r, code) /\ MayRefuse(r, code)

LEMMA AbortRefuses ==
    ASSUME TypeOK, NEW r \in Requests, NEW code, NEW events, Abort(r, code, events)
    PROVE  Refuses(r, code)
<1>1. Emit(r, events \cup {"request.completed"})
  BY DEF Abort
<1>2. Rises(r, "request.completed", 1)
  BY <1>1, EmitRises, AllEvents
<1> QED BY <1>2, AbortEffect DEF Refuses

\* A failed attempt of the LLM planner, after these events.
LEMMA PlannerFailsEnds ==
    ASSUME TypeOK, NEW r \in Requests, NEW code, NEW events,
           PlannerFails(r, code, events),
           pc[r] \in {"plan_actions", "awaiting_llm"},
           pc[r] = "plan_actions" => ~configured /\ code = "LLM_PROVIDER_ERROR",
           "planner.started" \in events <=> pc[r] = "plan_actions",
           events \cap {"request.started", "request.completed", "planner.completed",
                        "planner.failed", "tool.started", "tool.completed",
                        "tool.failed"} = {}
    PROVE  PlannerEnds(r)
<1> DEFINE Logged == events \cup {"planner.failed"}
<1>1. ASSUME NEW all, Emit(r, all), all = Logged \/ all = Logged \cup {"request.completed"}
      PROVE  /\ Rises(r, "request.started", 0)
             /\ Rises(r, "planner.started", IF pc[r] = "plan_actions" THEN 1 ELSE 0)
             /\ \A e \in ToolEvents : Rises(r, e, 0)
             /\ Rises(r, "planner.completed", 0) /\ Rises(r, "planner.failed", 1)
             /\ "request.completed" \notin all => Rises(r, "request.completed", 0)
  <2>1. /\ {"request.started", "planner.completed"} \cap all = {}
        /\ ToolEvents \cap all = {}
        /\ "planner.failed" \in all
        /\ "planner.started" \in all <=> pc[r] = "plan_actions"
    BY <1>1 DEF ToolEvents
  <2>2. "planner.started" \in Events
    BY AllEvents
  <2>3. Rises(r, "planner.started", IF pc[r] = "plan_actions" THEN 1 ELSE 0)
    BY <1>1, <2>1, <2>2, EmitRises
  <2> QED BY <1>1, <2>1, <2>3, EmitRises, AllEvents
<1>2. CASE mode = "llm"
  <2> DEFINE c == IF code \in PlannerCodes THEN code ELSE InvocationFailed
  <2>1. Abort(r, c, Logged)
    BY <1>2 DEF PlannerFails
  <2>3. MayRefuse(r, c)
    BY <1>2 DEF MayRefuse, PlannerCodes
  <2> HIDE DEF c
  <2>2. Emit(r, Logged \cup {"request.completed"})
    BY <2>1 DEF Abort
  <2> QED BY <1>1, <2>1, <2>2, <2>3, AbortRefuses DEF PlannerEnds
<1>3. CASE mode # "llm"
  <2>1. Planned(r, RuleUpdate(state[r], code), Logged)
    BY <1>3 DEF PlannerFails
  <2>2. Emit(r, Logged) /\ "request.completed" \notin Logged
    BY <2>1 DEF Planned
  <2>3. HandsOver(r)
    BY <1>1, <2>1, <2>2, PlannedEffect DEF HandsOver
  <2> QED BY <1>1, <2>2, <2>3 DEF PlannerEnds
<1> QED BY <1>2, <1>3

\* The planner completes with a plan.
LEMMA PlannedEnds ==
    ASSUME TypeOK, NEW r \in Requests, NEW update, NEW events,
           Planned(r, update, events),
           pc[r] \in {"plan_actions", "awaiting_llm"},
           "planner.started" \in events <=> pc[r] = "plan_actions",
           "planner.completed" \in events,
           events \subseteq {"planner.started", "planner.completed", "llm.completed"},
           \/ \E reason : update = RuleUpdate(state[r], reason)
           \/ \E plan \in PlanShape : update = LLMUpdate(state[r], plan)
    PROVE  PlannerEnds(r)
<1>1. Emit(r, events)
  BY DEF Planned
<1>2. /\ events \cap {"request.started", "request.completed", "planner.failed"} = {}
      /\ events \cap ToolEvents = {}
  BY DEF ToolEvents
<1>3. Rises(r, "planner.started", IF pc[r] = "plan_actions" THEN 1 ELSE 0)
  BY <1>1, EmitRises, AllEvents
<1>4. /\ Rises(r, "request.started", 0) /\ Rises(r, "request.completed", 0)
      /\ Rises(r, "planner.completed", 1) /\ Rises(r, "planner.failed", 0)
      /\ \A e \in ToolEvents : Rises(r, e, 0)
  BY <1>1, <1>2, EmitRises, AllEvents
<1>5. HandsOver(r)
  BY <1>4, PlannedEffect DEF HandsOver
<1> QED BY <1>3, <1>4, <1>5 DEF PlannerEnds

LEMMA PlannerStepEnds ==
    ASSUME PipelineAssumption, TypeOK, NEW r \in Requests, PlannerStep(r)
    PROVE  PlannerEnds(r)
<1>1. CASE PlanByRule(r)
  BY <1>1, PlannedEnds DEF PlanByRule
<1>2. CASE PlannerNotBuilt(r)
  BY <1>2, PlannerFailsEnds DEF PlannerNotBuilt
<1>3. CASE ProviderRaises(r)
  BY <1>3, PlannerFailsEnds DEF ProviderRaises
<1>4. CASE CompletionUnreadable(r)
  BY <1>4, PlannerFailsEnds DEF CompletionUnreadable
<1>5. CASE CompletionIsPlan(r)
  <2>1. PICK plan \in Plans :
          IF PlanDefect(plan.calls) = "none"
          THEN Planned(r, LLMUpdate(state[r], plan),
                       {"llm.completed", "planner.completed"})
          ELSE PlannerFails(r, PlanDefect(plan.calls), {"llm.completed"})
    BY <1>5 DEF CompletionIsPlan
  <2>2. plan \in PlanShape /\ pc[r] = "awaiting_llm"
    BY <1>5 DEF PipelineAssumption, CompletionIsPlan
  <2>3. CASE PlanDefect(plan.calls) = "none"
    BY <2>1, <2>2, <2>3, PlannedEnds
  <2>4. CASE PlanDefect(plan.calls) # "none"
    BY <2>1, <2>2, <2>4, PlannerFailsEnds
  <2> QED BY <2>3, <2>4
<1> QED BY <1>1, <1>2, <1>3, <1>4, <1>5 DEF PlannerStep

\* The events the properties count, and the log of a step among them.
Counted ==
    ToolEvents \cup {"request.started", "request.completed", "planner.started",
                     "planner.completed", "planner.failed"}

Logs(r, logged) ==
    \A e \in Counted : Rises(r, e, IF e \in logged THEN 1 ELSE 0)

Moves(r, from, to, logged) ==
    /\ pc[r] = from /\ pc'[r] = to
    /\ query'[r] = query[r]
    /\ Logs(r, logged)

\* Every other step, as what it does to its request.
Arrives(r) ==
    /\ pc[r] \in {"idle", "done"} /\ pc'[r] = "queued"
    /\ state'[r] = state[r] /\ run'[r] = run[r]
    /\ tally'[r] = NoEvents /\ reply'[r] = NoReply

Admitted(r) == Moves(r, "queued", "route_query", {"request.started"}) /\ Kept(r)

Parsed(r) ==
    /\ Moves(r, "route_query", "plan_actions", {})
    /\ run'[r] = run[r] /\ reply'[r] = reply[r]
    /\ state'[r].intent = IntentOf(query[r])
    /\ state'[r].equipment = (query[r].equipment \/ state[r].equipment)
    /\ state'[r].alarm = (query[r].alarm \/ state[r].alarm)

ParseFails(r) ==
    /\ Moves(r, "route_query", "done", {"request.completed"})
    /\ Refuses(r, InvocationFailed)

Asked(r) == Moves(r, "plan_actions", "awaiting_llm", {"planner.started"}) /\ Kept(r)

CallStarts(r) == Moves(r, "execute_tools", "in_tool", {"tool.started"}) /\ Kept(r)

CallSkipped(r) ==
    /\ Moves(r, "execute_tools", "execute_tools", {})
    /\ ~Runnable(state[r], Cursor(r)) /\ Cursor(r) <= Scheduled(state[r])
    /\ state'[r] = state[r] /\ reply'[r] = reply[r]

CallEnds(r) ==
    /\ Moves(r, "in_tool", "execute_tools", {"tool.completed"})
    /\ state'[r] = state[r] /\ reply'[r] = reply[r]
    /\ Len(run'[r].results) = Len(run[r].results) + 1

CallRaises(r) ==
    /\ Moves(r, "in_tool", "done", {"tool.failed", "request.completed"})
    /\ Refuses(r, InvocationFailed)

Undisturbed(r) ==
    /\ state'[r].equipment = state[r].equipment /\ state'[r].alarm = state[r].alarm
    /\ state'[r].intent = state[r].intent /\ state'[r].required = state[r].required
    /\ state'[r].used = state[r].used
    /\ run'[r] = run[r] /\ reply'[r] = reply[r]

ToolsDone(r) ==
    /\ Moves(r, "execute_tools", "retrieve_context", {})
    /\ Undisturbed(r)
    /\ state'[r].results = state[r].results \o run[r].results

ContextBuilt(r) ==
    /\ Moves(r, "retrieve_context", "synthesize", {})
    /\ Undisturbed(r)
    /\ state'[r].results = state[r].results
    /\ state'[r].context = Cited(state[r].results)

AnswerBuilt(r) ==
    /\ Moves(r, "synthesize", "respond", {})
    /\ Undisturbed(r)
    /\ state'[r].results = state[r].results
    /\ state'[r].evidence = IF state[r].context # {} THEN state[r].context
                            ELSE Cited(state[r].results)
    /\ state'[r].answer = [t \in ToolNames |-> SectionOf(state[r].results, t)]

Responded(r) ==
    /\ Moves(r, "respond", "done", {"request.completed"})
    /\ state'[r] = FreshState /\ run'[r] = FreshRun
    /\ reply'[r].kind = "answer" /\ reply'[r].code = "none"
    /\ reply'[r].intent = state[r].intent /\ reply'[r].planner = state[r].used
    /\ reply'[r].fallback = state[r].fallback
    /\ reply'[r].required = state[r].required /\ reply'[r].results = state[r].results
    /\ reply'[r].answer = state[r].answer /\ reply'[r].evidence = state[r].evidence

LEMMA EmitLogs ==
    ASSUME TypeOK, NEW r \in Requests, NEW events, NEW logged, Emit(r, events),
           \A e \in Counted : e \in events <=> e \in logged
    PROVE  Logs(r, logged)
<1>1. Counted \subseteq Events
  BY DEF Counted, ToolEvents, Events
<1> QED BY <1>1, EmitRises DEF Logs

LEMMA SameLogs ==
    ASSUME TypeOK, NEW r \in Requests, tally' = tally
    PROVE  Logs(r, {})
<1>1. Counted \subseteq Events
  BY DEF Counted, ToolEvents, Events
<1>2. \A e \in Counted : tally[r][e] \in Nat
  BY <1>1 DEF TypeOK
<1> QED BY <1>2 DEF Logs, Rises

LEMMA StepCases ==
    ASSUME PipelineAssumption, TypeOK, NEW r \in Requests, Submit(r) \/ Serve(r)
    PROVE  \/ Arrives(r) \/ Admitted(r) \/ Parsed(r) \/ Asked(r) \/ PlannerEnds(r)
           \/ CallStarts(r) \/ CallSkipped(r) \/ CallEnds(r) \/ CallRaises(r)
           \/ ToolsDone(r) \/ ContextBuilt(r) \/ AnswerBuilt(r) \/ Responded(r)
           \/ ParseFails(r)
<1>0. /\ state[r] \in StateShape
      /\ run[r].results \in Seq(Result)
  BY DEF TypeOK
<1>1. CASE Submit(r)
  BY <1>1 DEF Submit, Goto, TypeOK, Arrives
<1>2. CASE Admit(r)
  <2>1. Logs(r, {"request.started"})
    BY <1>2, EmitLogs DEF Admit
  <2> QED BY <1>2, <2>1 DEF Admit, Goto, TypeOK, Admitted, Moves, Kept
<1>3. CASE RouteQuery(r)
  <2> DEFINE equipment == query[r].equipment \/ state[r].equipment
             alarm == query[r].alarm \/ state[r].alarm
  <2>1. /\ pc[r] = "route_query" /\ pc'[r] = "plan_actions"
        /\ run' = run /\ reply' = reply /\ query' = query /\ tally' = tally
        /\ state'[r] = [state[r] EXCEPT !.intent = IntentOf(query[r]),
                                        !.equipment = equipment, !.alarm = alarm]
    BY <1>3 DEF RouteQuery, Goto, TypeOK
  <2> HIDE DEF equipment, alarm
  <2>2. /\ state'[r].intent = IntentOf(query[r])
        /\ state'[r].equipment = equipment /\ state'[r].alarm = alarm
    BY <1>0, <2>1 DEF StateShape
  <2>3. Logs(r, {})
    BY <2>1, SameLogs
  <2> QED BY <2>1, <2>2, <2>3 DEF Parsed, Moves, equipment, alarm
<1>4. CASE PlanByRule(r) \/ PlannerNotBuilt(r) \/ ProviderRaises(r)
           \/ CompletionUnreadable(r) \/ CompletionIsPlan(r)
  BY <1>4, PlannerStepEnds DEF PlannerStep
<1>5. CASE AskLLM(r)
  <2>1. Logs(r, {"planner.started"})
    BY <1>5, EmitLogs DEF AskLLM, Counted, ToolEvents
  <2> QED BY <1>5, <2>1 DEF AskLLM, Goto, TypeOK, Asked, Moves, Kept
<1>6. CASE TakeCall(r)
  <2>1. CASE Runnable(state[r], Cursor(r))
    <3>1. Logs(r, {"tool.started"})
      BY <1>6, <2>1, EmitLogs DEF TakeCall
    <3> QED BY <1>6, <2>1, <3>1 DEF TakeCall, Goto, TypeOK, CallStarts, Moves, Kept
  <2>2. CASE ~Runnable(state[r], Cursor(r))
    <3>1. Logs(r, {})
      BY <1>6, <2>2, SameLogs DEF TakeCall
    <3> QED BY <1>6, <2>2, <3>1 DEF TakeCall, CallSkipped, Moves
  <2> QED BY <2>1, <2>2
<1>7. ASSUME NEW tool, NEW outcome, NEW events, ToolReturns(r, tool, outcome, events),
             events \cap Counted = {}
      PROVE  CallEnds(r)
  <2>1. Logs(r, {"tool.completed"})
    BY <1>7, EmitLogs DEF ToolReturns
  <2>2. run'[r].results = Append(run[r].results, [tool |-> tool, outcome |-> outcome])
    BY <1>7 DEF ToolReturns, TypeOK
  <2>3. Len(run'[r].results) = Len(run[r].results) + 1
    BY <1>0, <2>2
  <2> QED BY <1>7, <2>1, <2>3 DEF ToolReturns, Goto, TypeOK, CallEnds, Moves
<1>8. CASE DeviceReturns(r) \/ AlarmReturns(r) \/ ManualReturns(r)
  <2>1. {"rag.started", "rag.completed", "rag.unavailable"} \cap Counted = {}
    BY DEF Counted, ToolEvents
  <2> QED BY <1>7, <1>8, <2>1 DEF DeviceReturns, AlarmReturns, ManualReturns
<1>9. CASE ToolRaises(r)
  <2>1. PICK more \in {{}, {"rag.started"}} :
           Abort(r, InvocationFailed, {"tool.failed"} \cup more)
    BY <1>9 DEF ToolRaises
  <2>2. Emit(r, ({"tool.failed"} \cup more) \cup {"request.completed"})
    BY <2>1 DEF Abort
  <2>3. \A e \in Counted : e \in ({"tool.failed"} \cup more) \cup {"request.completed"}
                           <=> e \in {"tool.failed", "request.completed"}
    BY <2>1 DEF Counted, ToolEvents
  <2>4. Logs(r, {"tool.failed", "request.completed"})
    BY <2>2, <2>3, EmitLogs
  <2>5. Refuses(r, InvocationFailed)
    BY <2>1, AbortRefuses
  <2> QED BY <1>9, <2>4, <2>5 DEF ToolRaises, CallRaises, Moves, Refuses
<1>10. CASE FinishTools(r)
  <2> DEFINE results == state[r].results \o run[r].results
             error == run[r].skipped > 0
  <2>1. /\ pc[r] = "execute_tools" /\ pc'[r] = "retrieve_context"
        /\ run' = run /\ reply' = reply /\ query' = query /\ tally' = tally
        /\ state'[r] = [state[r] EXCEPT !.results = results, !.error = error]
    BY <1>10 DEF FinishTools, Goto, TypeOK
  <2> HIDE DEF error, results
  <2>2. state'[r].results = results /\ Undisturbed(r)
    BY <1>0, <2>1 DEF StateShape, Undisturbed
  <2>3. Logs(r, {})
    BY <2>1, SameLogs
  <2> QED BY <2>1, <2>2, <2>3 DEF ToolsDone, Moves, results
<1>11. CASE RetrieveContext(r)
  <2>1. /\ pc[r] = "retrieve_context" /\ pc'[r] = "synthesize"
        /\ run' = run /\ reply' = reply /\ query' = query /\ tally' = tally
        /\ state'[r] = [state[r] EXCEPT !.context = Cited(state[r].results)]
    BY <1>11 DEF RetrieveContext, Goto, TypeOK
  <2>2. /\ state'[r].results = state[r].results /\ Undisturbed(r)
        /\ state'[r].context = Cited(state[r].results)
    BY <1>0, <2>1 DEF StateShape, Undisturbed
  <2>3. Logs(r, {})
    BY <2>1, SameLogs
  <2> QED BY <2>1, <2>2, <2>3 DEF ContextBuilt, Moves
<1>12. CASE Synthesize(r)
  <2> DEFINE evidence == IF state[r].context # {} THEN state[r].context
                         ELSE Cited(state[r].results)
             answer == [t \in ToolNames |-> SectionOf(state[r].results, t)]
  <2>1. /\ pc[r] = "synthesize" /\ pc'[r] = "respond"
        /\ run' = run /\ reply' = reply /\ query' = query /\ tally' = tally
        /\ state'[r] = [state[r] EXCEPT !.evidence = evidence, !.answer = answer]
    BY <1>12 DEF Synthesize, Goto, TypeOK
  <2> HIDE DEF evidence, answer
  <2>2. /\ state'[r].results = state[r].results /\ Undisturbed(r)
        /\ state'[r].evidence = evidence /\ state'[r].answer = answer
    BY <1>0, <2>1 DEF StateShape, Undisturbed
  <2>3. Logs(r, {})
    BY <2>1, SameLogs
  <2> QED BY <2>1, <2>2, <2>3 DEF AnswerBuilt, Moves, evidence, answer
<1>13. CASE Respond(r)
  <2>1. Logs(r, {"request.completed"})
    BY <1>13, EmitLogs DEF Respond
  <2> QED BY <1>13, <2>1 DEF Respond, Goto, TypeOK, Responded, Moves
<1>14. CASE CatalogFails(r)
  <2>1. Abort(r, InvocationFailed, {}) /\ pc[r] = "route_query"
    BY <1>14 DEF CatalogFails
  <2>2. Logs(r, {"request.completed"})
    BY <2>1, EmitLogs DEF Abort
  <2>3. Refuses(r, InvocationFailed)
    BY <2>1, AbortRefuses
  <2> QED BY <2>1, <2>2, <2>3 DEF ParseFails, Moves, Refuses
<1> QED BY <1>1, <1>2, <1>3, <1>4, <1>5, <1>6, <1>8, <1>9, <1>10, <1>11, <1>12, <1>13,
           <1>14
        DEF Serve, Planning, Executing, Answering

----------------------------------------------------------------------------
(* The inductive invariant, one part per property. *)

\* Where no plan has been accepted yet.
BeforePlan == {"idle", "queued", "route_query", "plan_actions", "awaiting_llm"}

NothingRan(r) == tally[r]["tool.started"] = 0 /\ tally[r]["planner.completed"] = 0

RefusedInv(r) ==
    /\ pc[r] \in BeforePlan => NothingRan(r)
    /\ reply[r].code \in PlannerCodes => NothingRan(r)

Baseline(q) ==
    RuleTools([equipment |-> q.equipment, alarm |-> q.alarm, intent |-> IntentOf(q)])

\* The state is fresh when a query is parsed, and the planner finds in it what
\* parsing put there, whatever was attempted in between.
BaselineInv(r) ==
    /\ pc[r] \in {"idle", "queued", "route_query", "done"} => state[r] = FreshState
    /\ pc[r] \in {"plan_actions", "awaiting_llm"} =>
          /\ state[r].equipment = query[r].equipment
          /\ state[r].alarm = query[r].alarm
          /\ state[r].intent = IntentOf(query[r])
    /\ pc[r] \in WithPlan /\ state[r].used = "rule" =>
          /\ state[r].intent = IntentOf(query[r])
          /\ state[r].required = Baseline(query[r])
    /\ Answered(r) /\ reply[r].planner = "rule" =>
          /\ reply[r].intent = IntentOf(query[r])
          /\ reply[r].required = Baseline(query[r])

OneIf(condition) == IF condition THEN 1 ELSE 0

\* At every moment, what is started and not ended is what the invocation is in.
RequestCounted(r) ==
    /\ tally[r]["request.started"] = OneIf(pc[r] \notin {"idle", "queued"})
    /\ tally[r]["request.completed"] = OneIf(pc[r] = "done")

PlannerCounted(r) ==
    tally[r]["planner.started"]
      = tally[r]["planner.completed"] + tally[r]["planner.failed"]
        + OneIf(pc[r] = "awaiting_llm")

ToolsCounted(r) ==
    tally[r]["tool.started"]
      = tally[r]["tool.completed"] + tally[r]["tool.failed"] + OneIf(pc[r] = "in_tool")

ResultsCounted(r) ==
    LET completed == tally[r]["tool.completed"] IN
    /\ pc[r] \in BeforePlan => completed = 0
    /\ pc[r] \in {"execute_tools", "in_tool"} => completed = Len(run[r].results)
    /\ pc[r] \in {"retrieve_context", "synthesize", "respond"} =>
          completed = Len(state[r].results)
    /\ Answered(r) => completed = Len(reply[r].results)

ClosedInv(r) ==
    RequestCounted(r) /\ PlannerCounted(r) /\ ToolsCounted(r) /\ ResultsCounted(r)

Rendered(results) == [t \in ToolNames |-> SectionOf(results, t)]

RenderedInv(r) ==
    /\ pc[r] = "synthesize" => state[r].context = Cited(state[r].results)
    /\ pc[r] = "respond" =>
          /\ state[r].evidence = Cited(state[r].results)
          /\ state[r].answer = Rendered(state[r].results)
    /\ Answered(r) =>
          /\ reply[r].evidence = Cited(reply[r].results)
          /\ reply[r].answer = Rendered(reply[r].results)

ReplyInv(r) ==
    /\ pc[r] # "done" => reply[r] = NoReply
    /\ RefusedInv(r) /\ BaselineInv(r) /\ ClosedInv(r) /\ RenderedInv(r)

LEMMA NoReplyFields == NoReply.kind = "none" /\ NoReply.code = "none"
BY DEF NoReply

LEMMA RefusesFields ==
    ASSUME NEW r \in Requests, NEW code, Refuses(r, code)
    PROVE  reply'[r].kind = "error" /\ reply'[r].code = code
BY DEF Refuses, NoReply

LEMMA RefusedStep ==
    ASSUME PipelineAssumption, TypeOK, NEW r \in Requests,
           ReplyInv(r), Submit(r) \/ Serve(r)
    PROVE  RefusedInv(r)'
<1> DEFINE Still == Rises(r, "tool.started", 0) /\ Rises(r, "planner.completed", 0)
<1>0. /\ pc[r] # "done" => reply[r].code = "none"
      /\ pc[r] \in BeforePlan => NothingRan(r)
      /\ "none" \notin PlannerCodes /\ InvocationFailed \notin PlannerCodes
      /\ {"tool.started", "planner.completed"} \subseteq Counted
  BY NoReplyFields DEF ReplyInv, RefusedInv, PlannerCodes, InvocationFailed, Counted,
     ToolEvents
<1>1. Still /\ NothingRan(r) => NothingRan(r)'
  BY DEF Rises, NothingRan
<1>2. CASE Arrives(r)
  <2>1. NothingRan(r)' /\ reply'[r].code = "none"
    BY <1>2, NoReplyFields DEF Arrives, NothingRan, NoEvents, Events
  <2> QED BY <1>0, <2>1 DEF RefusedInv
<1>3. CASE Admitted(r) \/ Parsed(r) \/ Asked(r)
  <2>1. Still /\ pc[r] \in BeforePlan /\ reply'[r] = reply[r]
    BY <1>0, <1>3 DEF Admitted, Parsed, Asked, Moves, Logs, Kept, BeforePlan
  <2> QED BY <1>0, <1>1, <2>1 DEF RefusedInv
<1>4. CASE PlannerEnds(r)
  <2>1. pc[r] \in BeforePlan /\ pc[r] # "done" /\ Rises(r, "tool.started", 0)
    BY <1>4 DEF PlannerEnds, BeforePlan, ToolEvents
  <2>2. CASE HandsOver(r)
    BY <1>0, <2>1, <2>2 DEF HandsOver, RefusedInv, BeforePlan
  <2>3. CASE Rises(r, "planner.completed", 0)
    BY <1>0, <1>1, <2>1, <2>3 DEF RefusedInv
  <2> QED BY <1>4, <2>2, <2>3 DEF PlannerEnds
<1>5. CASE \/ CallStarts(r) \/ CallSkipped(r) \/ CallEnds(r)
           \/ ToolsDone(r) \/ ContextBuilt(r) \/ AnswerBuilt(r)
  <2>1. /\ pc[r] # "done" /\ pc'[r] \notin BeforePlan /\ reply'[r] = reply[r]
    BY <1>5 DEF CallStarts, CallSkipped, CallEnds, ToolsDone, ContextBuilt, AnswerBuilt,
       Moves, Kept, Undisturbed, BeforePlan
  <2> QED BY <1>0, <2>1 DEF RefusedInv
<1>6. CASE CallRaises(r) \/ Responded(r) \/ ParseFails(r)
  <2>1. pc'[r] = "done" /\ reply'[r].code \in {"none", InvocationFailed}
    BY <1>6, RefusesFields DEF CallRaises, Responded, ParseFails, Moves
  <2> QED BY <1>0, <2>1 DEF RefusedInv, BeforePlan
<1> QED BY <1>2, <1>3, <1>4, <1>5, <1>6, StepCases

LEMMA BaselineStep ==
    ASSUME PipelineAssumption, TypeOK, NEW r \in Requests,
           ReplyInv(r), Submit(r) \/ Serve(r)
    PROVE  BaselineInv(r)'
<1>0. /\ state[r] \in StateShape
      /\ pc[r] # "done" => reply[r].kind = "none"
      /\ BaselineInv(r)
  BY NoReplyFields DEF TypeOK, ReplyInv
<1>1. CASE Arrives(r)
  BY <1>0, <1>1, NoReplyFields DEF Arrives, BaselineInv, Answered, WithPlan
<1>2. CASE Admitted(r) \/ Asked(r)
  BY <1>0, <1>2 DEF Admitted, Asked, Moves, Kept, BaselineInv, Answered, WithPlan
<1>3. CASE Parsed(r)
  <2>1. FreshState.equipment = FALSE /\ FreshState.alarm = FALSE
    BY DEF FreshState
  <2>2. query[r].equipment \in BOOLEAN /\ query[r].alarm \in BOOLEAN
    BY DEF TypeOK, PipelineAssumption, QueryShape
  <2>3. state[r] = FreshState
    BY <1>0, <1>3 DEF Parsed, Moves, BaselineInv
  <2>4. /\ state'[r].equipment = query[r].equipment
        /\ state'[r].alarm = query[r].alarm
        /\ state'[r].intent = IntentOf(query[r])
    BY <1>3, <2>1, <2>2, <2>3 DEF Parsed
  <2>5. pc[r] = "route_query" /\ pc'[r] = "plan_actions"
        /\ reply'[r] = reply[r] /\ query'[r] = query[r]
    BY <1>3 DEF Parsed, Moves
  <2> QED BY <1>0, <2>4, <2>5 DEF BaselineInv, Answered, WithPlan
<1>4. CASE PlannerEnds(r)
  <2>1. /\ pc[r] \in {"plan_actions", "awaiting_llm"}
        /\ HandsOver(r) \/ \E code : Refuses(r, code)
    BY <1>4 DEF PlannerEnds
  <2>2. ASSUME NEW code, Refuses(r, code) PROVE BaselineInv(r)'
    BY <2>2, RefusesFields DEF Refuses, BaselineInv, Answered, WithPlan
  <2>3. CASE HandsOver(r)
    <3>1. /\ pc'[r] = "execute_tools" /\ query'[r] = query[r] /\ reply'[r] = reply[r]
          /\ reply[r].kind = "none"
      BY <1>0, <2>1, <2>3 DEF HandsOver
    <3>2. ASSUME NEW reason, state'[r] = RuleUpdate(state[r], reason)
          PROVE  /\ state'[r].intent = IntentOf(query[r])
                 /\ state'[r].required = Baseline(query[r])
      <4>1. /\ state'[r].intent = state[r].intent
            /\ state'[r].required = RuleTools(state[r])
        BY <1>0, <3>2, RuleUpdateFields
      <4>2. /\ state[r].equipment = query[r].equipment
            /\ state[r].alarm = query[r].alarm
            /\ state[r].intent = IntentOf(query[r])
        BY <1>0, <2>1 DEF BaselineInv
      <4>3. RuleTools(state[r]) = Baseline(query[r])
        BY <4>2 DEF RuleTools, Baseline
      <4> QED BY <4>1, <4>2, <4>3
    <3>3. ASSUME NEW plan \in PlanShape, state'[r] = LLMUpdate(state[r], plan)
          PROVE  state'[r].used # "rule"
      BY <1>0, <3>3, LLMUpdateFields
    <3>4. state'[r].used = "rule" =>
             /\ state'[r].intent = IntentOf(query[r])
             /\ state'[r].required = Baseline(query[r])
      BY <2>3, <3>2, <3>3 DEF HandsOver
    <3> QED BY <3>1, <3>4 DEF BaselineInv, Answered
  <2> QED BY <2>1, <2>2, <2>3
<1>5. CASE \/ CallStarts(r) \/ CallSkipped(r) \/ CallEnds(r)
           \/ ToolsDone(r) \/ ContextBuilt(r) \/ AnswerBuilt(r)
  <2>1. /\ pc[r] \in WithPlan /\ pc'[r] \in WithPlan
        /\ reply'[r] = reply[r] /\ query'[r] = query[r]
        /\ state'[r].used = state[r].used /\ state'[r].intent = state[r].intent
        /\ state'[r].required = state[r].required
    BY <1>5 DEF CallStarts, CallSkipped, CallEnds, ToolsDone, ContextBuilt, AnswerBuilt,
       Moves, Kept, Undisturbed, WithPlan
  <2>2. pc[r] # "done" /\ pc'[r] \notin {"idle", "queued", "route_query", "done",
                                         "plan_actions", "awaiting_llm"}
    BY <2>1 DEF WithPlan
  <2> QED BY <1>0, <2>1, <2>2 DEF BaselineInv, Answered
<1>6. CASE CallRaises(r) \/ ParseFails(r)
  BY <1>6, RefusesFields
     DEF CallRaises, ParseFails, Refuses, BaselineInv, Answered, WithPlan
<1>7. CASE Responded(r)
  <2>1. /\ pc[r] \in WithPlan /\ pc'[r] = "done" /\ state'[r] = FreshState
        /\ query'[r] = query[r]
        /\ reply'[r].intent = state[r].intent /\ reply'[r].planner = state[r].used
        /\ reply'[r].required = state[r].required
    BY <1>7 DEF Responded, Moves, WithPlan
  <2> QED BY <1>0, <2>1 DEF BaselineInv, WithPlan
<1> QED BY <1>1, <1>2, <1>3, <1>4, <1>5, <1>6, <1>7, StepCases

\* The eight counts across a step.
Counts(r, logged) ==
    LET n == tally[r]
        m == tally'[r]
    IN  /\ m["request.started"] = n["request.started"] + OneIf("request.started" \in logged)
        /\ m["request.completed"]
              = n["request.completed"] + OneIf("request.completed" \in logged)
        /\ m["planner.started"] = n["planner.started"] + OneIf("planner.started" \in logged)
        /\ m["planner.completed"]
              = n["planner.completed"] + OneIf("planner.completed" \in logged)
        /\ m["planner.failed"] = n["planner.failed"] + OneIf("planner.failed" \in logged)
        /\ m["tool.started"] = n["tool.started"] + OneIf("tool.started" \in logged)
        /\ m["tool.completed"] = n["tool.completed"] + OneIf("tool.completed" \in logged)
        /\ m["tool.failed"] = n["tool.failed"] + OneIf("tool.failed" \in logged)

LEMMA LogsCounts ==
    ASSUME NEW r, NEW logged, Logs(r, logged)
    PROVE  Counts(r, logged)
BY DEF Logs, Counts, Counted, ToolEvents, Rises, OneIf

LEMMA CountsAreNat ==
    ASSUME TypeOK, NEW r \in Requests
    PROVE  LET n == tally[r] IN
           /\ n["request.started"] \in Nat /\ n["request.completed"] \in Nat
           /\ n["planner.started"] \in Nat /\ n["planner.completed"] \in Nat
           /\ n["planner.failed"] \in Nat /\ n["tool.started"] \in Nat
           /\ n["tool.completed"] \in Nat /\ n["tool.failed"] \in Nat
<1>1. tally[r] \in [Events -> Nat]
  BY DEF TypeOK
<1> QED BY <1>1 DEF Events

\* The counts across the end of the planner's operation.
LEMMA PlannerCounts ==
    ASSUME NEW r, PlannerEnds(r)
    PROVE  LET n == tally[r]
               m == tally'[r]
           IN  /\ m["request.started"] = n["request.started"] + 0
               /\ m["planner.started"]
                     = n["planner.started"] + OneIf(pc[r] = "plan_actions")
               /\ m["tool.started"] = n["tool.started"] + 0
               /\ m["tool.completed"] = n["tool.completed"] + 0
               /\ m["tool.failed"] = n["tool.failed"] + 0
               /\ \/ /\ m["planner.completed"] = n["planner.completed"] + 1
                     /\ m["planner.failed"] = n["planner.failed"] + 0
                  \/ /\ m["planner.completed"] = n["planner.completed"] + 0
                     /\ m["planner.failed"] = n["planner.failed"] + 1
<1>1. \A e \in ToolEvents : Rises(r, e, 0)
  BY DEF PlannerEnds
<1>2. /\ Rises(r, "tool.started", 0) /\ Rises(r, "tool.completed", 0)
      /\ Rises(r, "tool.failed", 0)
  BY <1>1 DEF ToolEvents
<1>3. /\ Rises(r, "request.started", 0)
      /\ Rises(r, "planner.started", OneIf(pc[r] = "plan_actions"))
      /\ \/ Rises(r, "planner.completed", 1) /\ Rises(r, "planner.failed", 0)
         \/ Rises(r, "planner.completed", 0) /\ Rises(r, "planner.failed", 1)
  BY Zenon DEF PlannerEnds, OneIf
<1> QED BY <1>2, <1>3, Zenon DEF Rises

LEMMA PlannerBalance ==
    ASSUME TypeOK, NEW r \in Requests, PlannerCounted(r), PlannerEnds(r),
           pc'[r] # "awaiting_llm"
    PROVE  PlannerCounted(r)'
<1> DEFINE started == tally[r]["planner.started"]
           completed == tally[r]["planner.completed"]
           failed == tally[r]["planner.failed"]
<1>1. started \in Nat /\ completed \in Nat /\ failed \in Nat
  BY CountsAreNat
<1>2. started + OneIf(pc[r] = "plan_actions") = completed + failed + 1
  <2>1. started = completed + failed + OneIf(pc[r] = "awaiting_llm")
    BY DEF PlannerCounted
  <2>2. pc[r] \in {"plan_actions", "awaiting_llm"}
    BY DEF PlannerEnds
  <2> HIDE DEF started, completed, failed
  <2> QED BY <1>1, <2>1, <2>2 DEF OneIf
<1>3. /\ (started)' = started + OneIf(pc[r] = "plan_actions")
      /\ \/ (completed)' = completed + 1 /\ (failed)' = failed + 0
         \/ (completed)' = completed + 0 /\ (failed)' = failed + 1
  BY PlannerCounts
<1>4. (started)' = (completed)' + (failed)' + 0
  <2> HIDE DEF started, completed, failed
  <2> QED BY <1>1, <1>2, <1>3
<1> QED BY <1>4 DEF PlannerCounted, OneIf

LEMMA ClosedStep ==
    ASSUME PipelineAssumption, TypeOK, NEW r \in Requests, PlanInv(r),
           ReplyInv(r), Submit(r) \/ Serve(r)
    PROVE  ClosedInv(r)'
<1>0. /\ pc[r] # "done" => reply[r].kind = "none"
      /\ RequestCounted(r) /\ PlannerCounted(r) /\ ToolsCounted(r) /\ ResultsCounted(r)
      /\ run[r].results \in Seq(Result) /\ state[r].results \in Seq(Result)
  BY NoReplyFields DEF TypeOK, ReplyInv, ClosedInv, StateShape
<1>n. LET n == tally[r] IN
      /\ n["request.started"] \in Nat /\ n["request.completed"] \in Nat
      /\ n["planner.started"] \in Nat /\ n["planner.completed"] \in Nat
      /\ n["planner.failed"] \in Nat /\ n["tool.started"] \in Nat
      /\ n["tool.completed"] \in Nat /\ n["tool.failed"] \in Nat
  BY CountsAreNat
<1>1. CASE Arrives(r)
  <2>1. /\ pc'[r] = "queued" /\ reply'[r].kind = "none" /\ tally'[r] = NoEvents
    BY <1>1, NoReplyFields DEF Arrives
  <2> QED BY <2>1 DEF ClosedInv, RequestCounted, PlannerCounted, ToolsCounted,
                      ResultsCounted, Answered, NoEvents, Events, OneIf
<1>2. CASE Admitted(r)
  <2>1. /\ pc[r] = "queued" /\ pc'[r] = "route_query" /\ reply'[r] = reply[r]
        /\ Counts(r, {"request.started"})
    BY <1>2, LogsCounts DEF Admitted, Moves, Kept
  <2>a. RequestCounted(r)'
    BY <1>0, <1>n, <2>1 DEF Counts, RequestCounted, OneIf
  <2>b. PlannerCounted(r)'
    BY <1>0, <1>n, <2>1 DEF Counts, PlannerCounted, OneIf
  <2>c. ToolsCounted(r)'
    BY <1>0, <1>n, <2>1 DEF Counts, ToolsCounted, OneIf
  <2>d. ResultsCounted(r)'
    BY <1>0, <1>n, <2>1 DEF Counts, ResultsCounted, Answered, BeforePlan, OneIf
  <2> QED BY <2>a, <2>b, <2>c, <2>d DEF ClosedInv
<1>3. CASE Parsed(r)
  <2>1. /\ pc[r] = "route_query" /\ pc'[r] = "plan_actions" /\ reply'[r] = reply[r]
        /\ Counts(r, {})
    BY <1>3, LogsCounts DEF Parsed, Moves
  <2>a. RequestCounted(r)'
    BY <1>0, <1>n, <2>1 DEF Counts, RequestCounted, OneIf
  <2>b. PlannerCounted(r)'
    BY <1>0, <1>n, <2>1 DEF Counts, PlannerCounted, OneIf
  <2>c. ToolsCounted(r)'
    BY <1>0, <1>n, <2>1 DEF Counts, ToolsCounted, OneIf
  <2>d. ResultsCounted(r)'
    BY <1>0, <1>n, <2>1 DEF Counts, ResultsCounted, Answered, BeforePlan, OneIf
  <2> QED BY <2>a, <2>b, <2>c, <2>d DEF ClosedInv
<1>4. CASE Asked(r)
  <2>1. /\ pc[r] = "plan_actions" /\ pc'[r] = "awaiting_llm" /\ reply'[r] = reply[r]
        /\ Counts(r, {"planner.started"})
    BY <1>4, LogsCounts DEF Asked, Moves, Kept
  <2>a. RequestCounted(r)'
    BY <1>0, <1>n, <2>1 DEF Counts, RequestCounted, OneIf
  <2>b. PlannerCounted(r)'
    BY <1>0, <1>n, <2>1 DEF Counts, PlannerCounted, OneIf
  <2>c. ToolsCounted(r)'
    BY <1>0, <1>n, <2>1 DEF Counts, ToolsCounted, OneIf
  <2>d. ResultsCounted(r)'
    BY <1>0, <1>n, <2>1 DEF Counts, ResultsCounted, Answered, BeforePlan, OneIf
  <2> QED BY <2>a, <2>b, <2>c, <2>d DEF ClosedInv
<1>5. CASE PlannerEnds(r)
  <2>1. pc[r] \in {"plan_actions", "awaiting_llm"} /\ Len(run[r].results) = 0
    BY <1>5 DEF PlannerEnds, PlanInv, FreshRun, WithPlan
  <2>4. tally'[r]["tool.completed"] = 0
    <3>1. tally[r]["tool.completed"] = 0
      BY <1>0, <2>1 DEF ResultsCounted, BeforePlan
    <3>2. tally'[r]["tool.completed"] = tally[r]["tool.completed"] + 0
      BY <1>5, PlannerCounts
    <3> QED BY <3>1, <3>2
  <2>2. CASE HandsOver(r)
    <3>1. /\ pc'[r] = "execute_tools" /\ run'[r] = run[r] /\ reply'[r] = reply[r]
          /\ tally'[r]["request.completed"] = tally[r]["request.completed"] + 0
      BY <2>2 DEF HandsOver, Rises
    <3>a. RequestCounted(r)'
      BY <1>0, <1>5, <1>n, <2>1, <3>1, PlannerCounts DEF RequestCounted, OneIf
    <3>b. PlannerCounted(r)'
      BY <1>0, <1>5, <3>1, PlannerBalance
    <3>c. ToolsCounted(r)'
      BY <1>0, <1>5, <1>n, <2>1, <3>1, PlannerCounts DEF ToolsCounted, OneIf
    <3>d. ResultsCounted(r)'
      BY <1>0, <2>1, <2>4, <3>1 DEF ResultsCounted, Answered, BeforePlan
    <3> QED BY <3>a, <3>b, <3>c, <3>d DEF ClosedInv
  <2>3. ASSUME NEW code, Refuses(r, code) PROVE ClosedInv(r)'
    <3>1. /\ pc'[r] = "done" /\ reply'[r].kind = "error"
          /\ tally'[r]["request.completed"] = tally[r]["request.completed"] + 1
      BY <2>3, RefusesFields DEF Refuses, Rises
    <3>a. RequestCounted(r)'
      BY <1>0, <1>5, <1>n, <2>1, <3>1, PlannerCounts DEF RequestCounted, OneIf
    <3>b. PlannerCounted(r)'
      BY <1>0, <1>5, <3>1, PlannerBalance
    <3>c. ToolsCounted(r)'
      BY <1>0, <1>5, <1>n, <2>1, <3>1, PlannerCounts DEF ToolsCounted, OneIf
    <3>d. ResultsCounted(r)'
      BY <1>0, <2>1, <2>4, <3>1 DEF ResultsCounted, Answered, BeforePlan
    <3> QED BY <3>a, <3>b, <3>c, <3>d DEF ClosedInv
  <2> QED BY <1>5, <2>2, <2>3 DEF PlannerEnds
<1>6. CASE CallStarts(r)
  <2>1. /\ pc[r] = "execute_tools" /\ pc'[r] = "in_tool" /\ reply'[r] = reply[r]
        /\ run'[r] = run[r] /\ Counts(r, {"tool.started"})
    BY <1>6, LogsCounts DEF CallStarts, Moves, Kept
  <2>a. RequestCounted(r)'
    BY <1>0, <1>n, <2>1 DEF Counts, RequestCounted, OneIf
  <2>b. PlannerCounted(r)'
    BY <1>0, <1>n, <2>1 DEF Counts, PlannerCounted, OneIf
  <2>c. ToolsCounted(r)'
    BY <1>0, <1>n, <2>1 DEF Counts, ToolsCounted, OneIf
  <2>d. ResultsCounted(r)'
    BY <1>0, <1>n, <2>1 DEF Counts, ResultsCounted, Answered, BeforePlan, OneIf
  <2> QED BY <2>a, <2>b, <2>c, <2>d DEF ClosedInv
<1>7. CASE CallSkipped(r)
  <2>1. /\ Sound(state[r]) /\ run[r].skipped = 0
        /\ Cursor(r) <= Scheduled(state[r]) /\ ~Runnable(state[r], Cursor(r))
    BY <1>7 DEF CallSkipped, Moves, PlanInv
  <2>2. Cursor(r) \in 1 .. Len(state[r].required)
    BY <1>0, <2>1 DEF Cursor, Sound, TypeOK, StateShape
  <2> QED BY <2>1, <2>2 DEF Sound
<1>8. CASE CallEnds(r)
  <2>1. /\ pc[r] = "in_tool" /\ pc'[r] = "execute_tools" /\ reply'[r] = reply[r]
        /\ Len(run'[r].results) = Len(run[r].results) + 1
        /\ Counts(r, {"tool.completed"})
    BY <1>8, LogsCounts DEF CallEnds, Moves
  <2>a. RequestCounted(r)'
    BY <1>0, <1>n, <2>1 DEF Counts, RequestCounted, OneIf
  <2>b. PlannerCounted(r)'
    BY <1>0, <1>n, <2>1 DEF Counts, PlannerCounted, OneIf
  <2>2. tally[r]["tool.started"] = tally[r]["tool.completed"] + tally[r]["tool.failed"] + 1
    BY <1>0, <2>1 DEF ToolsCounted, OneIf
  <2>3. /\ tally'[r]["tool.started"] = tally[r]["tool.started"]
        /\ tally'[r]["tool.completed"] = tally[r]["tool.completed"] + 1
        /\ tally'[r]["tool.failed"] = tally[r]["tool.failed"]
    BY <1>n, <2>1 DEF Counts, OneIf
  <2>4. tally'[r]["tool.completed"] + tally'[r]["tool.failed"] + 0
          = tally'[r]["tool.started"]
    BY <1>n, <2>2, <2>3
  <2>c. ToolsCounted(r)'
    BY <2>1, <2>4 DEF ToolsCounted, OneIf
  <2>d. ResultsCounted(r)'
    BY <1>0, <1>n, <2>1 DEF Counts, ResultsCounted, Answered, BeforePlan, OneIf
  <2> QED BY <2>a, <2>b, <2>c, <2>d DEF ClosedInv
<1>9. CASE CallRaises(r)
  <2>1. /\ pc[r] = "in_tool" /\ pc'[r] = "done" /\ reply'[r].kind = "error"
        /\ Counts(r, {"tool.failed", "request.completed"})
    BY <1>9, LogsCounts, RefusesFields DEF CallRaises, Moves
  <2>a. RequestCounted(r)'
    BY <1>0, <1>n, <2>1 DEF Counts, RequestCounted, OneIf
  <2>b. PlannerCounted(r)'
    BY <1>0, <1>n, <2>1 DEF Counts, PlannerCounted, OneIf
  <2>2. tally[r]["tool.started"] = tally[r]["tool.completed"] + tally[r]["tool.failed"] + 1
    BY <1>0, <2>1 DEF ToolsCounted, OneIf
  <2>3. /\ tally'[r]["tool.started"] = tally[r]["tool.started"]
        /\ tally'[r]["tool.completed"] = tally[r]["tool.completed"]
        /\ tally'[r]["tool.failed"] = tally[r]["tool.failed"] + 1
    BY <1>n, <2>1 DEF Counts, OneIf
  <2>4. tally'[r]["tool.completed"] + tally'[r]["tool.failed"] + 0
          = tally'[r]["tool.started"]
    BY <1>n, <2>2, <2>3
  <2>c. ToolsCounted(r)'
    BY <2>1, <2>4 DEF ToolsCounted, OneIf
  <2>d. ResultsCounted(r)'
    BY <1>0, <1>n, <2>1 DEF Counts, ResultsCounted, Answered, BeforePlan, OneIf
  <2> QED BY <2>a, <2>b, <2>c, <2>d DEF ClosedInv
<1>10. CASE ToolsDone(r)
  <2>1. /\ pc[r] = "execute_tools" /\ pc'[r] = "retrieve_context" /\ reply'[r] = reply[r]
        /\ state'[r].results = state[r].results \o run[r].results
        /\ Counts(r, {})
    BY <1>10, LogsCounts DEF ToolsDone, Moves, Undisturbed
  <2>2. state[r].results = <<>>
    BY <2>1 DEF PlanInv
  <2>3. state'[r].results = run[r].results
    BY <1>0, <2>1, <2>2
  <2>a. RequestCounted(r)'
    BY <1>0, <1>n, <2>1, <2>3 DEF Counts, RequestCounted, OneIf
  <2>b. PlannerCounted(r)'
    BY <1>0, <1>n, <2>1, <2>3 DEF Counts, PlannerCounted, OneIf
  <2>c. ToolsCounted(r)'
    BY <1>0, <1>n, <2>1, <2>3 DEF Counts, ToolsCounted, OneIf
  <2>d. ResultsCounted(r)'
    BY <1>0, <1>n, <2>1, <2>3 DEF Counts, ResultsCounted, Answered, BeforePlan, OneIf
  <2> QED BY <2>a, <2>b, <2>c, <2>d DEF ClosedInv
<1>11. CASE ContextBuilt(r) \/ AnswerBuilt(r)
  <2>1. /\ pc[r] \in {"retrieve_context", "synthesize"}
        /\ pc'[r] \in {"synthesize", "respond"} /\ reply'[r] = reply[r]
        /\ state'[r].results = state[r].results
        /\ Counts(r, {})
    BY <1>11, LogsCounts DEF ContextBuilt, AnswerBuilt, Moves, Undisturbed
  <2>a. RequestCounted(r)'
    BY <1>0, <1>n, <2>1 DEF Counts, RequestCounted, OneIf
  <2>b. PlannerCounted(r)'
    BY <1>0, <1>n, <2>1 DEF Counts, PlannerCounted, OneIf
  <2>c. ToolsCounted(r)'
    BY <1>0, <1>n, <2>1 DEF Counts, ToolsCounted, OneIf
  <2>d. ResultsCounted(r)'
    BY <1>0, <1>n, <2>1 DEF Counts, ResultsCounted, Answered, BeforePlan, OneIf
  <2> QED BY <2>a, <2>b, <2>c, <2>d DEF ClosedInv
<1>12. CASE Responded(r)
  <2>1. /\ pc[r] = "respond" /\ pc'[r] = "done"
        /\ reply'[r].results = state[r].results
        /\ Counts(r, {"request.completed"})
    BY <1>12, LogsCounts DEF Responded, Moves
  <2>a. RequestCounted(r)'
    BY <1>0, <1>n, <2>1 DEF Counts, RequestCounted, OneIf
  <2>b. PlannerCounted(r)'
    BY <1>0, <1>n, <2>1 DEF Counts, PlannerCounted, OneIf
  <2>c. ToolsCounted(r)'
    BY <1>0, <1>n, <2>1 DEF Counts, ToolsCounted, OneIf
  <2>d. ResultsCounted(r)'
    BY <1>0, <1>n, <2>1 DEF Counts, ResultsCounted, Answered, BeforePlan, OneIf
  <2> QED BY <2>a, <2>b, <2>c, <2>d DEF ClosedInv
<1>13. CASE ParseFails(r)
  <2>1. /\ pc[r] = "route_query" /\ pc'[r] = "done" /\ reply'[r].kind = "error"
        /\ Counts(r, {"request.completed"})
    BY <1>13, LogsCounts, RefusesFields DEF ParseFails, Moves
  <2>a. RequestCounted(r)'
    BY <1>0, <1>n, <2>1 DEF Counts, RequestCounted, OneIf
  <2>b. PlannerCounted(r)'
    BY <1>0, <1>n, <2>1 DEF Counts, PlannerCounted, OneIf
  <2>c. ToolsCounted(r)'
    BY <1>0, <1>n, <2>1 DEF Counts, ToolsCounted, OneIf
  <2>d. ResultsCounted(r)'
    BY <1>0, <1>n, <2>1 DEF Counts, ResultsCounted, Answered, BeforePlan, OneIf
  <2> QED BY <2>a, <2>b, <2>c, <2>d DEF ClosedInv
<1> QED BY <1>1, <1>2, <1>3, <1>4, <1>5, <1>6, <1>7, <1>8, <1>9, <1>10, <1>11,
           <1>12, <1>13, StepCases

LEMMA RenderedStep ==
    ASSUME PipelineAssumption, TypeOK, NEW r \in Requests,
           ReplyInv(r), Submit(r) \/ Serve(r)
    PROVE  RenderedInv(r)'
<1>0. RenderedInv(r) /\ (pc[r] # "done" => reply[r].kind = "none")
  BY NoReplyFields DEF ReplyInv
<1>1. ASSUME pc'[r] \notin {"synthesize", "respond"}, reply'[r].kind # "answer"
      PROVE  RenderedInv(r)'
  BY <1>1 DEF RenderedInv, Answered
<1>2. CASE \/ Arrives(r) \/ Admitted(r) \/ Parsed(r) \/ Asked(r)
           \/ CallStarts(r) \/ CallSkipped(r) \/ CallEnds(r) \/ ToolsDone(r)
  BY <1>0, <1>1, <1>2, NoReplyFields DEF Arrives, Admitted, Parsed, Asked, CallStarts,
     CallSkipped, CallEnds, ToolsDone, Moves, Kept, Undisturbed
<1>3. CASE PlannerEnds(r)
  BY <1>0, <1>1, <1>3, RefusesFields DEF PlannerEnds, HandsOver, Refuses
<1>4. CASE CallRaises(r) \/ ParseFails(r)
  BY <1>1, <1>4, RefusesFields DEF CallRaises, ParseFails, Refuses
<1>5. CASE ContextBuilt(r)
  BY <1>0, <1>5 DEF ContextBuilt, Moves, Undisturbed, RenderedInv, Answered
<1>6. CASE AnswerBuilt(r)
  <2>1. /\ state[r].context = Cited(state[r].results)
        /\ pc'[r] = "respond" /\ reply'[r].kind = "none"
    BY <1>0, <1>6 DEF AnswerBuilt, Moves, Undisturbed, RenderedInv
  <2>2. /\ state'[r].evidence = Cited(state'[r].results)
        /\ state'[r].answer = Rendered(state'[r].results)
    BY <1>6, <2>1 DEF AnswerBuilt, Rendered
  <2> QED BY <2>1, <2>2 DEF RenderedInv, Answered
<1>7. CASE Responded(r)
  BY <1>0, <1>7 DEF Responded, Moves, RenderedInv, Answered
<1> QED BY <1>2, <1>3, <1>4, <1>5, <1>6, <1>7, StepCases

\* With the types and the plan, the four parts together are inductive.
ReplyIInv == \A r \in Requests : ReplyInv(r)

LEMMA ReplyInvariant == Spec => []ReplyIInv
<1> USE PipelineAssumption
<1>1. Init => ReplyIInv
  <2> SUFFICES ASSUME Init, NEW r \in Requests PROVE ReplyInv(r)
    BY DEF ReplyIInv
  <2>1. /\ pc[r] = "idle" /\ reply[r] = NoReply /\ state[r] = FreshState
        /\ tally[r] = NoEvents
    BY DEF Init
  <2>2. RefusedInv(r)
    BY <2>1, NoReplyFields DEF RefusedInv, NothingRan, NoEvents, Events, PlannerCodes
  <2>3. BaselineInv(r)
    BY <2>1, NoReplyFields DEF BaselineInv, Answered, WithPlan
  <2>4. ClosedInv(r)
    BY <2>1, NoReplyFields DEF ClosedInv, RequestCounted, PlannerCounted, ToolsCounted,
       ResultsCounted, Answered, NoEvents, Events, OneIf
  <2>5. RenderedInv(r)
    BY <2>1, NoReplyFields DEF RenderedInv, Answered
  <2> QED BY <2>1, <2>2, <2>3, <2>4, <2>5 DEF ReplyInv
<1>2. PlanIInv /\ ReplyIInv /\ [Next]_vars => ReplyIInv'
  <2> SUFFICES ASSUME PlanIInv, ReplyIInv, [Next]_vars, NEW s \in Requests
               PROVE  ReplyInv(s)'
    BY DEF ReplyIInv
  <2>1. TypeOK /\ PlanInv(s) /\ ReplyInv(s)
    BY DEF PlanIInv, ReplyIInv
  <2>2. ASSUME /\ pc'[s] = pc[s] /\ query'[s] = query[s] /\ state'[s] = state[s]
               /\ run'[s] = run[s] /\ tally'[s] = tally[s] /\ reply'[s] = reply[s]
        PROVE  ReplyInv(s)'
    BY <2>1, <2>2 DEF ReplyInv, RefusedInv, NothingRan, BaselineInv, ClosedInv,
       RequestCounted, PlannerCounted, ToolsCounted, ResultsCounted, RenderedInv, Answered
  <2>3. CASE UNCHANGED vars
    BY <2>2, <2>3 DEF vars
  <2>4. CASE Next
    <3>1. PICK r \in Requests : Submit(r) \/ Serve(r)
      BY <2>4 DEF Next
    <3>2. CASE s # r
      BY <2>1, <2>2, <3>1, <3>2, Frame
    <3>3. CASE s = r
      <4>1. /\ RefusedInv(s)' /\ BaselineInv(s)' /\ ClosedInv(s)' /\ RenderedInv(s)'
        BY <2>1, <3>1, <3>3, RefusedStep, BaselineStep, ClosedStep, RenderedStep
      <4>2. pc'[s] # "done" => reply'[s] = NoReply
        BY <2>1, <3>1, <3>3, StepCases DEF ReplyInv, Arrives, Admitted, Parsed, Asked,
           PlannerEnds, HandsOver, Refuses, CallStarts, CallSkipped, CallEnds,
           CallRaises, ParseFails, ToolsDone, ContextBuilt, AnswerBuilt, Responded,
           Moves, Kept, Undisturbed
      <4> QED BY <4>1, <4>2 DEF ReplyInv
    <3> QED BY <3>2, <3>3
  <2> QED BY <2>3, <2>4
<1> QED BY <1>1, <1>2, PlanInvariant, PTL DEF Spec, SafeSpec

----------------------------------------------------------------------------
(* The theorems. *)

\* A reply with a planner code comes from an invocation that ran no tool and
\* announced no plan, whatever plan was refused (dispatch_plan).
THEOREM RefusalRunsNothing == Spec => []RefusedPlanRunsNothing
<1>1. ReplyIInv => RefusedPlanRunsNothing
  BY DEF ReplyIInv, ReplyInv, RefusedInv, NothingRan, RefusedPlanRunsNothing
<1> QED BY <1>1, ReplyInvariant, PTL

\* A rule plan, fallback or not, is the one rule mode derives from the query,
\* whatever the LLM attempt before it did (dispatch_plan, _fallback).
THEOREM FallbackIsTheBaseline == Spec => []FallbackIsBaseline
<1>1. ReplyIInv => FallbackIsBaseline
  BY DEF ReplyIInv, ReplyInv, BaselineInv, Baseline, FallbackIsBaseline
<1> QED BY <1>1, ReplyInvariant, PTL

\* Every operation logged as started is logged as ended when the reply is
\* given, on every path out of invoke, for plans of any length.
THEOREM EveryOperationIsClosed == Spec => []OperationsAreClosed
<1>1. PlanIInv /\ ReplyIInv => OperationsAreClosed
  <2> SUFFICES ASSUME PlanIInv, ReplyIInv, NEW r \in Requests, pc[r] = "done"
               PROVE  LET n == tally[r] IN
                      /\ n["request.started"] = 1 /\ n["request.completed"] = 1
                      /\ n["planner.started"] = n["planner.completed"] + n["planner.failed"]
                      /\ n["tool.started"] = n["tool.completed"] + n["tool.failed"]
                      /\ Answered(r) => n["tool.completed"] = Len(reply[r].results)
    BY Zenon DEF OperationsAreClosed
  <2>1. /\ RequestCounted(r) /\ PlannerCounted(r) /\ ToolsCounted(r) /\ ResultsCounted(r)
    BY DEF ReplyIInv, ReplyInv, ClosedInv
  <2>2. tally[r]["request.started"] = 1 /\ tally[r]["request.completed"] = 1
    BY <2>1 DEF RequestCounted, OneIf
  <2>3. LET n == tally[r] IN
        /\ n["planner.completed"] \in Nat /\ n["planner.failed"] \in Nat
        /\ n["tool.completed"] \in Nat /\ n["tool.failed"] \in Nat
    BY CountsAreNat DEF PlanIInv
  <2>4. tally[r]["planner.started"]
          = tally[r]["planner.completed"] + tally[r]["planner.failed"]
    BY <2>1, <2>3 DEF PlannerCounted, OneIf
  <2>5. tally[r]["tool.started"] = tally[r]["tool.completed"] + tally[r]["tool.failed"]
    BY <2>1, <2>3 DEF ToolsCounted, OneIf
  <2> QED BY <2>1, <2>2, <2>4, <2>5 DEF ResultsCounted
<1> QED BY <1>1, PlanInvariant, ReplyInvariant, PTL

\* What a section shows of a tool that ran once, and that it shows something of
\* every tool that ran.
LEMMA SectionShows ==
    ASSUME NEW results \in Seq(Result), NEW t \in ToolNames
    PROVE  /\ SectionOf(results, t) = "not_requested"
                <=> \A i \in DOMAIN results : results[i].tool # t
           /\ NoToolTwice(results) =>
                 \A i \in DOMAIN results : results[i].tool = t =>
                    SectionOf(results, t) = IF results[i].outcome = "blank_hits"
                                            THEN "hits" ELSE results[i].outcome
<1>1. \A i \in DOMAIN results : results[i].outcome \in Outcomes
  <2>1. \A i \in DOMAIN results : results[i] \in Result
    OBVIOUS
  <2> QED BY <2>1 DEF Result
<1>2. CASE \A i \in DOMAIN results : results[i].tool # t
  BY <1>2, SectionCases
<1>3. CASE \E i \in DOMAIN results : results[i].tool = t
  <2>1. PICK i \in DOMAIN results :
           /\ results[i].tool = t
           /\ SectionOf(results, t) = IF results[i].outcome = "blank_hits"
                                      THEN "hits" ELSE results[i].outcome
    BY <1>3, SectionCases
  <2>2. SectionOf(results, t) # "not_requested"
    BY <1>1, <2>1 DEF Outcomes
  <2>3. NoToolTwice(results) => \A j \in DOMAIN results : results[j].tool = t => j = i
    BY <2>1 DEF NoToolTwice
  <2> QED BY <2>1, <2>2, <2>3
<1> QED BY <1>2, <1>3

\* An answer tells what the tools said, section by section, and cites the
\* manual exactly when it has something to cite (synthesize, retrieve_context).
THEOREM AnswerTellsTheOutcomes == Spec => []AnswerTellsOutcomes
<1>1. PlanIInv /\ ReplyIInv => AnswerTellsOutcomes
  <2> SUFFICES ASSUME PlanIInv, ReplyIInv, NEW r \in Requests, Answered(r)
               PROVE
          LET answer  == reply[r].answer
              results == reply[r].results
          IN  /\ \A t \in ToolNames :
                    answer[t] = "not_requested"
                    <=> (\A i \in DOMAIN reply[r].required : reply[r].required[i] # t)
              /\ NoToolTwice(results) =>
                    /\ \A i \in DOMAIN results :
                          answer[results[i].tool] = "unavailable"
                          <=> results[i].outcome = "unavailable"
                    /\ \A i \in DOMAIN results : results[i].tool = "manual" =>
                          (i \in reply[r].evidence
                           <=> (answer["manual"] = "hits"
                                /\ results[i].outcome # "blank_hits"))
    BY Zenon DEF AnswerTellsOutcomes
  <2> DEFINE answer == reply[r].answer
             results == reply[r].results
             required == reply[r].required
  <2>1. results \in Seq(Result) /\ required \in Seq(ToolNames)
    BY DEF PlanIInv, TypeOK, ReplyShape
  <2>2. Len(results) = Len(required) /\ Follows(results, required)
    BY DEF PlanIInv, PlanInv
  <2>3. reply[r].evidence = Cited(results) /\ answer = Rendered(results)
    BY DEF ReplyIInv, ReplyInv, RenderedInv
  <2>4. \A t \in ToolNames : answer[t] = SectionOf(results, t)
    BY <2>3 DEF Rendered
  <2> HIDE DEF answer, results, required
  <2>5. DOMAIN results = DOMAIN required
        /\ \A i \in DOMAIN results : results[i].tool = required[i]
    BY <2>1, <2>2 DEF Follows
  <2>6. ASSUME NEW t \in ToolNames
        PROVE  answer[t] = "not_requested" <=> \A i \in DOMAIN required : required[i] # t
    BY <2>1, <2>4, <2>5, SectionShows
  <2>7. ASSUME NoToolTwice(results), NEW i \in DOMAIN results
        PROVE  /\ answer[results[i].tool] = "unavailable"
                  <=> results[i].outcome = "unavailable"
               /\ results[i].tool = "manual" =>
                     (i \in Cited(results)
                      <=> (answer["manual"] = "hits"
                           /\ results[i].outcome # "blank_hits"))
    <3>1. results[i].tool \in ToolNames
      <4>1. results[i] \in Result
        BY <2>1
      <4> QED BY <4>1 DEF Result
    <3>2. answer[results[i].tool] = IF results[i].outcome = "blank_hits"
                                    THEN "hits" ELSE results[i].outcome
      BY <2>1, <2>4, <2>7, <3>1, SectionShows
    <3> QED BY <3>2 DEF Cited
  <2>8. NoToolTwice(results) =>
           /\ \A i \in DOMAIN results :
                 answer[results[i].tool] = "unavailable"
                 <=> results[i].outcome = "unavailable"
           /\ \A i \in DOMAIN results : results[i].tool = "manual" =>
                 (i \in reply[r].evidence
                  <=> (answer["manual"] = "hits" /\ results[i].outcome # "blank_hits"))
    BY <2>3, <2>7
  <2> QED BY <2>6, <2>8 DEF answer, results, required
<1> QED BY <1>1, PlanInvariant, ReplyInvariant, PTL

----------------------------------------------------------------------------
(* The pipeline implements the contract of the endpoint. *)

StageOf(label, kind) ==
    IF label = "idle" THEN "idle"
    ELSE IF label # "done" THEN "accepted"
    ELSE IF kind = "answer" THEN "answered" ELSE "failed"

VerdictOf(rep) ==
    [planner |-> rep.planner, fallback |-> rep.fallback, code |-> rep.code]

StagesOf == [r \in Requests |-> StageOf(pc[r], reply[r].kind)]

VerdictsOf == [r \in Requests |-> VerdictOf(reply[r])]

\* A step of one request is a step of the contract once it is one for that
\* request: the other entries of both functions stay.
LEMMA OnlyItsEntry ==
    ASSUME TypeOK, NEW r \in Requests, Submit(r) \/ Serve(r)
    PROVE  /\ StagesOf' = [StagesOf EXCEPT ![r] = StageOf(pc'[r], reply'[r].kind)]
           /\ VerdictsOf' = [VerdictsOf EXCEPT ![r] = VerdictOf(reply'[r])]
<1>1. \A s \in Requests : s # r => pc'[s] = pc[s] /\ reply'[s] = reply[s]
  BY Frame
<1> QED BY <1>1 DEF StagesOf, VerdictsOf

\* What a step does to its own entry.
LEMMA ContractCases ==
    ASSUME PipelineAssumption, TypeOK, NEW r \in Requests, ModeInv(r), ReplyInv(r),
           Submit(r) \/ Serve(r)
    PROVE  \/ /\ pc[r] \in {"idle", "done"} /\ pc'[r] = "queued"
              /\ reply'[r] = NoReply
           \/ /\ pc[r] \notin {"idle", "done"} /\ pc'[r] = "done"
              /\ reply'[r].kind = "answer" /\ reply'[r].code = "none"
              /\ reply'[r].planner \in {"rule", "llm"} /\ reply'[r].fallback \in BOOLEAN
              /\ Contract!ByPlan(reply'[r].planner, reply'[r].fallback)
           \/ /\ pc[r] \notin {"idle", "done"} /\ pc'[r] = "done"
              /\ \E code \in PlannerCodes \cup {InvocationFailed} :
                    /\ Contract!ByCode(code)
                    /\ reply'[r] = [NoReply EXCEPT !.kind = "error", !.code = code]
           \/ /\ pc[r] \notin {"idle", "done"} /\ pc'[r] \notin {"idle", "done"}
              /\ reply'[r] = reply[r]
<1>0. mode \in {"rule", "llm", "auto"} /\ configured \in BOOLEAN
      /\ state[r].used \in {"none", "rule", "llm"} /\ state[r].fallback \in BOOLEAN
  BY DEF PipelineAssumption, TypeOK, StateShape
<1>1. CASE Arrives(r)
  BY <1>1 DEF Arrives
<1>2. CASE \/ Admitted(r) \/ Parsed(r) \/ Asked(r) \/ CallStarts(r) \/ CallSkipped(r)
           \/ CallEnds(r) \/ ToolsDone(r) \/ ContextBuilt(r) \/ AnswerBuilt(r)
  BY <1>2 DEF Admitted, Parsed, Asked, CallStarts, CallSkipped, CallEnds, ToolsDone,
     ContextBuilt, AnswerBuilt, Moves, Kept, Undisturbed
<1>3. CASE PlannerEnds(r)
  <2>1. CASE HandsOver(r)
    BY <1>3, <2>1 DEF PlannerEnds, HandsOver
  <2>2. ASSUME NEW code, Refuses(r, code), MayRefuse(r, code)
        PROVE  Contract!ByCode(code) /\ code \in PlannerCodes \cup {InvocationFailed}
    <3>1. \/ pc[r] = "plan_actions"
          \/ pc[r] = "awaiting_llm" /\ configured
      BY <1>3 DEF PlannerEnds, ModeInv
    <3> QED BY <2>2, <3>1 DEF MayRefuse, Contract!ByCode, Contract!LLMCodes,
            PlannerCodes, InvocationFailed
  <2> QED BY <1>3, <2>1, <2>2 DEF PlannerEnds, Refuses
<1>4. CASE CallRaises(r) \/ ParseFails(r)
  <2>1. Contract!ByCode(InvocationFailed)
    BY DEF Contract!ByCode, InvocationFailed
  <2> QED BY <1>4, <2>1 DEF CallRaises, ParseFails, Moves, Refuses
<1>5. CASE Responded(r)
  <2>1. MarkedHonestly(state[r].used, state[r].fallback, state[r].reason)
    BY <1>5 DEF Responded, Moves, ModeInv, WithPlan
  <2>2. Contract!ByPlan(state[r].used, state[r].fallback)
        /\ state[r].used \in {"rule", "llm"}
    BY <1>0, <2>1 DEF MarkedHonestly, Contract!ByPlan
  <2> QED BY <1>0, <1>5, <2>2 DEF Responded, Moves
<1> QED BY <1>1, <1>2, <1>3, <1>4, <1>5, StepCases

LEMMA VerdictCode ==
    ASSUME NEW planner, NEW fallback, NEW none, NEW code
    PROVE  [[planner |-> planner, fallback |-> fallback, code |-> none]
              EXCEPT !.code = code]
           = [planner |-> planner, fallback |-> fallback, code |-> code]
OBVIOUS

LEMMA ContractStep ==
    ASSUME PipelineAssumption, TypeOK, NEW r \in Requests, ModeInv(r), ReplyInv(r),
           Submit(r) \/ Serve(r)
    PROVE  Contract!Next \/ UNCHANGED Contract!vars
<1> DEFINE stage == StageOf(pc'[r], reply'[r].kind)
           verdict == VerdictOf(reply'[r])
<1>1. /\ StagesOf' = [StagesOf EXCEPT ![r] = stage]
      /\ VerdictsOf' = [VerdictsOf EXCEPT ![r] = verdict]
      /\ mode' = mode /\ configured' = configured
  BY OnlyItsEntry, SettingsFixed
<1>2. StagesOf[r] = StageOf(pc[r], reply[r].kind)
      /\ VerdictsOf[r] = VerdictOf(reply[r])
  BY DEF StagesOf, VerdictsOf
<1>3. CASE /\ pc[r] \in {"idle", "done"} /\ pc'[r] = "queued" /\ reply'[r] = NoReply
  <2>1. StagesOf[r] # "accepted" /\ stage = "accepted"
    BY <1>2, <1>3 DEF StageOf
  <2>2. verdict = Contract!NoVerdict
    BY <1>3 DEF VerdictOf, NoReply, Contract!NoVerdict
  <2> HIDE DEF stage, verdict
  <2>3. Contract!Accept(r)
    BY <1>1, <2>1, <2>2
       DEF Contract!Accept, StagesOf, VerdictsOf, StageOf, VerdictOf, Answered
  <2> QED BY <2>3 DEF Contract!Next
<1>4. CASE /\ pc[r] \notin {"idle", "done"} /\ pc'[r] = "done"
           /\ reply'[r].kind = "answer" /\ reply'[r].code = "none"
           /\ reply'[r].planner \in {"rule", "llm"} /\ reply'[r].fallback \in BOOLEAN
           /\ Contract!ByPlan(reply'[r].planner, reply'[r].fallback)
  <2>1. StagesOf[r] = "accepted" /\ stage = "answered"
    BY <1>2, <1>4 DEF StageOf
  <2> DEFINE planner == reply'[r].planner
             fallback == reply'[r].fallback
  <2>2. verdict = [planner |-> planner, fallback |-> fallback, code |-> "none"]
    BY <1>4 DEF VerdictOf
  <2>3. planner \in {"rule", "llm"} /\ fallback \in BOOLEAN
        /\ Contract!ByPlan(planner, fallback)
    BY <1>4
  <2> HIDE DEF stage, verdict, planner, fallback
  <2>4. Contract!Answer(r)
    BY <1>1, <2>1, <2>2, <2>3
       DEF Contract!Answer, StagesOf, VerdictsOf, StageOf, VerdictOf, Answered
  <2> QED BY <2>4 DEF Contract!Next
<1>5. CASE /\ pc[r] \notin {"idle", "done"} /\ pc'[r] = "done"
           /\ \E code \in PlannerCodes \cup {InvocationFailed} :
                 /\ Contract!ByCode(code)
                 /\ reply'[r] = [NoReply EXCEPT !.kind = "error", !.code = code]
  <2>1. PICK code \in PlannerCodes \cup {InvocationFailed} :
           /\ Contract!ByCode(code)
           /\ reply'[r] = [NoReply EXCEPT !.kind = "error", !.code = code]
    BY <1>5
  <2>2. StagesOf[r] = "accepted" /\ stage = "failed"
    BY <1>2, <1>5, <2>1 DEF StageOf, NoReply
  <2>3. verdict = [Contract!NoVerdict EXCEPT !.code = code]
    <3>1. /\ reply'[r].planner = "none" /\ reply'[r].fallback = FALSE
          /\ reply'[r].code = code
      BY <2>1 DEF NoReply
    <3>2. [Contract!NoVerdict EXCEPT !.code = code]
            = [planner |-> "none", fallback |-> FALSE, code |-> code]
      BY VerdictCode DEF Contract!NoVerdict
    <3> QED BY <3>1, <3>2 DEF VerdictOf
  <2>4. code \in Contract!LLMCodes \cup {"agent_invocation_failed"}
    BY DEF PlannerCodes, InvocationFailed, Contract!LLMCodes
  <2> HIDE DEF stage, verdict
  <2>5. Contract!Refuse(r)
    BY <1>1, <2>1, <2>2, <2>3, <2>4
       DEF Contract!Refuse, StagesOf, VerdictsOf, StageOf, VerdictOf, Answered
  <2> QED BY <2>5 DEF Contract!Next
<1>6. CASE /\ pc[r] \notin {"idle", "done"} /\ pc'[r] \notin {"idle", "done"}
           /\ reply'[r] = reply[r]
  <2>1. stage = StagesOf[r] /\ verdict = VerdictsOf[r]
    BY <1>2, <1>6 DEF StageOf
  <2>2. StagesOf' = StagesOf /\ VerdictsOf' = VerdictsOf
    BY <1>1, <2>1 DEF StagesOf, VerdictsOf
  <2> QED BY <1>1, <2>2
          DEF Contract!vars, StagesOf, VerdictsOf, StageOf, VerdictOf, Answered
<1> QED BY <1>3, <1>4, <1>5, <1>6, ContractCases

\* The pipeline keeps the contract of the endpoint: each invocation ends in one
\* answer or one error, from a planner and with a code its mode allows.  What
\* ImplementsContract says beyond this is liveness.
THEOREM ContractIsKept == Spec => Contract!SafeSpec
<1> USE PipelineAssumption
<1>1. Init => Contract!Init
  BY DEF Init, Contract!Init, Contract!NoVerdict, NoReply
<1>2. PlanIInv /\ ModeIInv /\ ReplyIInv /\ [Next]_vars
      => [Contract!Next]_(Contract!vars)
  <2> SUFFICES ASSUME PlanIInv, ModeIInv, ReplyIInv, [Next]_vars
               PROVE  Contract!Next \/ UNCHANGED Contract!vars
    OBVIOUS
  <2>1. CASE UNCHANGED vars
    BY <2>1 DEF vars, Contract!vars, Answered
  <2>2. CASE Next
    <3>1. PICK r \in Requests : Submit(r) \/ Serve(r)
      BY <2>2 DEF Next
    <3> QED BY <3>1, ContractStep DEF PlanIInv, ModeIInv, ReplyIInv
  <2> QED BY <2>1, <2>2
<1> QED BY <1>1, <1>2, PlanInvariant, ModeInvariant, ReplyInvariant, PTL
        DEF Spec, SafeSpec, Contract!SafeSpec
=============================================================================
