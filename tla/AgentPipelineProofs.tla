------------------------ MODULE AgentPipelineProofs ------------------------
(***************************************************************************)
(* Theorems about AgentPipeline, for every set of requests, queries and    *)
(* plans and every number of worker threads.                               *)
(***************************************************************************)
EXTENDS AgentPipeline, SequenceTheorems,
        WellFoundedInduction, TLAPS

----------------------------------------------------------------------------
(* What the pure operators return. *)

\* A nonempty set of naturals has a least element.
LEMMA LeastNat ==
    ASSUME NEW S \in SUBSET Nat, S # {}
    PROVE  \E i \in S : \A j \in S : i <= j
<1> DEFINE R == OpToRel(<, Nat)
<1>1. \E i \in S : \A j \in S : ~(<<j, i>> \in R)
  <2>1. IsWellFoundedOn(R, Nat)
    BY NatLessThanWellFounded
  <2> HIDE DEF R
  <2> QED BY <2>1, WFMin
<1>2. \A i, j \in Nat : ~(<<j, i>> \in R) => i <= j
  BY DEF OpToRel
<1> QED BY <1>1, <1>2

\* The rule planner's list is a sequence of registered tools.
LEMMA RuleToolsType ==
    ASSUME NEW st, st.equipment \in BOOLEAN, st.alarm \in BOOLEAN
    PROVE  RuleTools(st) \in Seq(ToolNames)
<1>1. /\ <<>> \in Seq(ToolNames)
      /\ <<"device">> \in Seq(ToolNames)
      /\ <<"alarm">> \in Seq(ToolNames)
      /\ <<"manual">> \in Seq(ToolNames)
  BY DEF ToolNames
<1>2. \A s, t \in Seq(ToolNames) : s \o t \in Seq(ToolNames)
  OBVIOUS
<1> HIDE DEF ToolNames
<1>3. (IF st.equipment THEN <<"device">> ELSE <<>>) \in Seq(ToolNames)
  BY <1>1, Zenon
<1>4. (IF st.alarm THEN <<"alarm">> ELSE <<>>) \in Seq(ToolNames)
  BY <1>1, Zenon
<1>5. (IF st.intent \in {"alarm_diagnosis", "maintenance_advice"}
       THEN <<"manual">> ELSE <<>>) \in Seq(ToolNames)
  BY <1>1, Zenon
<1> QED BY <1>2, <1>3, <1>4, <1>5, Zenon DEF RuleTools

\* A plan is refused with a planner code, or every call of it validates.
LEMMA PlanDefectCases ==
    ASSUME NEW calls \in Seq(Call)
    PROVE  /\ PlanDefect(calls) \in PlannerCodes \cup {"none"}
           /\ PlanDefect(calls) = "none" => \A i \in DOMAIN calls : Validates(calls[i])
BY DEF PlanDefect, PlannerCodes

\* The update of the frozen planner is a state.
LEMMA RuleUpdateType ==
    ASSUME NEW st \in StateShape,
           NEW reason \in PlannerCodes \cup {Unexpected, "none"}
    PROVE  RuleUpdate(st, reason) \in StateShape
<1>1. RuleTools(st) \in Seq(ToolNames)
  BY RuleToolsType DEF StateShape
<1>2. <<>> \in Seq(Call)
  OBVIOUS
<1> DEFINE fb == reason # "none"
<1>3. fb \in BOOLEAN
  OBVIOUS
<1>4. RuleUpdate(st, reason) =
       [st EXCEPT !.required = RuleTools(st), !.calls = <<>>, !.used = "rule",
                  !.fallback = fb, !.reason = reason]
  BY DEF RuleUpdate
<1> HIDE DEF fb
<1> QED BY <1>1, <1>2, <1>3, <1>4 DEF StateShape

\* The tools of a plan whose calls all validate are registered ones.
LEMMA PlannedToolsType ==
    ASSUME NEW calls \in Seq(Call),
           \A i \in DOMAIN calls : Validates(calls[i])
    PROVE  [i \in DOMAIN calls |-> calls[i].tool] \in Seq(ToolNames)
<1>1. DOMAIN calls = 1 .. Len(calls) /\ Len(calls) \in Nat
  OBVIOUS
<1>2. \A i \in 1 .. Len(calls) : calls[i].tool \in ToolNames
  BY <1>1 DEF Validates
<1>3. [i \in 1 .. Len(calls) |-> calls[i].tool] \in [1 .. Len(calls) -> ToolNames]
  BY <1>2
<1> QED BY <1>1, <1>3, IsASeq

LEMMA LLMUpdateType ==
    ASSUME NEW st \in StateShape, NEW plan \in PlanShape,
           PlanDefect(plan.calls) = "none"
    PROVE  LLMUpdate(st, plan) \in StateShape
<1> DEFINE names == [i \in DOMAIN plan.calls |-> plan.calls[i].tool]
           intent == IF plan.intent = "none" THEN st.intent ELSE plan.intent
<1>1. plan.calls \in Seq(Call) /\ plan.intent \in Intents \cup {"none"}
  BY DEF PlanShape
<1>2. names \in Seq(ToolNames)
  BY <1>1, PlanDefectCases, PlannedToolsType
<1>3. intent \in Intents \cup {"none"}
  BY <1>1 DEF StateShape
<1>4. LLMUpdate(st, plan) =
       [st EXCEPT !.required = names, !.calls = plan.calls, !.used = "llm",
                  !.fallback = FALSE, !.reason = "none", !.intent = intent]
  BY DEF LLMUpdate, StateShape
<1> HIDE DEF names, intent
<1> QED BY <1>1, <1>2, <1>3, <1>4 DEF StateShape

LEMMA IntentOfType == ASSUME NEW q PROVE IntentOf(q) \in Intents
BY DEF IntentOf, Intents

\* A section is not requested when no result is of its tool, and shows the
\* outcome of one such result otherwise.
LEMMA SectionCases ==
    ASSUME NEW results \in Seq(Result), NEW t \in ToolNames
    PROVE  \/ /\ \A i \in DOMAIN results : results[i].tool # t
              /\ SectionOf(results, t) = "not_requested"
           \/ \E i \in DOMAIN results :
                 /\ results[i].tool = t
                 /\ SectionOf(results, t) = IF results[i].outcome = "blank_hits"
                                            THEN "hits" ELSE results[i].outcome
<1>1. CASE \A i \in DOMAIN results : results[i].tool # t
  BY <1>1 DEF SectionOf
<1>2. CASE ~(\A i \in DOMAIN results : results[i].tool # t)
  <2> DEFINE S == {i \in DOMAIN results : results[i].tool = t}
             First(i) == results[i].tool = t /\ \A j \in 1 .. i - 1 : results[j].tool # t
  <2>1. S \in SUBSET Nat /\ S # {} /\ DOMAIN results = 1 .. Len(results)
    BY <1>2
  <2>2. PICK i \in S : \A j \in S : i <= j
    BY <2>1, LeastNat
  <2>3. i \in DOMAIN results /\ First(i)
    BY <2>1, <2>2
  <2>4. (CHOOSE k \in DOMAIN results : First(k)) \in DOMAIN results
        /\ First(CHOOSE k \in DOMAIN results : First(k))
    BY <2>3, Zenon
  <2> HIDE DEF First
  <2>5. SectionOf(results, t) =
          LET k == CHOOSE k \in DOMAIN results : First(k)
          IN  IF results[k].outcome = "blank_hits" THEN "hits" ELSE results[k].outcome
    BY <1>2, Zenon DEF SectionOf, First
  <2> DEFINE k == CHOOSE k \in DOMAIN results : First(k)
  <2>6. results[k].tool = t
    BY <2>4 DEF First
  <2> HIDE DEF k
  <2> QED BY <2>4, <2>5, <2>6 DEF k
<1> QED BY <1>1, <1>2

LEMMA SectionType ==
    ASSUME NEW results \in Seq(Result), NEW t \in ToolNames
    PROVE  SectionOf(results, t) \in Sections
<1>1. \A i \in DOMAIN results : results[i] \in Result
  OBVIOUS
<1> HIDE DEF ToolNames
<1> QED BY <1>1, SectionCases DEF Sections, Result, Outcomes

----------------------------------------------------------------------------
(* Type correctness. *)

LEMMA InitialShapes ==
    /\ FreshState \in StateShape
    /\ FreshRun \in [results : Seq(Result), skipped : Nat]
    /\ NoEvents \in [Events -> Nat]
    /\ NoReply \in ReplyShape
<1>1. /\ <<>> \in Seq(ToolNames) /\ <<>> \in Seq(Call) /\ <<>> \in Seq(Result)
      /\ {} \in SUBSET Nat
  OBVIOUS
<1>2. NoSections \in [ToolNames -> Sections]
  BY DEF NoSections, Sections
<1>3. FreshState \in StateShape
  BY <1>1, <1>2 DEF FreshState, StateShape
<1>4. NoReply \in ReplyShape
  BY <1>1, <1>2 DEF NoReply, ReplyShape
<1>5. FreshRun \in [results : Seq(Result), skipped : Nat]
  BY <1>1 DEF FreshRun
<1>6. NoEvents \in [Events -> Nat]
  BY DEF NoEvents
<1> QED BY <1>3, <1>4, <1>5, <1>6

LEMMA EmitType ==
    ASSUME tally \in [Requests -> [Events -> Nat]],
           NEW r \in Requests, NEW events, Emit(r, events)
    PROVE  tally' \in [Requests -> [Events -> Nat]]
<1> DEFINE bumped == [e \in Events |-> tally[r][e] + (IF e \in events THEN 1 ELSE 0)]
<1>1. bumped \in [Events -> Nat]
  OBVIOUS
<1>2. tally' = [tally EXCEPT ![r] = bumped]
  BY DEF Emit
<1> HIDE DEF bumped
<1> QED BY <1>1, <1>2

LEMMA AbortType ==
    ASSUME TypeOK, NEW r \in Requests, NEW events,
           NEW code \in PlannerCodes \cup {InvocationFailed},
           Abort(r, code, events)
    PROVE  TypeOK'
<1>1. tally' \in [Requests -> [Events -> Nat]]
  BY EmitType DEF Abort, TypeOK
<1>2. [NoReply EXCEPT !.kind = "error", !.code = code] \in ReplyShape
  BY InitialShapes DEF ReplyShape
<1>3. reply' \in [Requests -> ReplyShape]
  BY <1>2 DEF Abort, TypeOK
<1>4. state' \in [Requests -> StateShape]
  BY InitialShapes DEF Abort, TypeOK
<1>5. run' \in [Requests -> [results : Seq(Result), skipped : Nat]]
  BY InitialShapes DEF Abort, TypeOK
<1>6. pc' \in [Requests -> Running \cup {"idle", "queued", "done"}]
  BY DEF Abort, Goto, TypeOK
<1> QED BY <1>1, <1>3, <1>4, <1>5, <1>6 DEF Abort, TypeOK, process

LEMMA PlannedType ==
    ASSUME TypeOK, NEW r \in Requests, NEW events, NEW update \in StateShape,
           Planned(r, update, events)
    PROVE  TypeOK'
<1>1. tally' \in [Requests -> [Events -> Nat]]
  BY EmitType DEF Planned, TypeOK
<1>2. state' \in [Requests -> StateShape]
  BY DEF Planned, TypeOK
<1>3. pc' \in [Requests -> Running \cup {"idle", "queued", "done"}]
  BY DEF Planned, Goto, TypeOK, Running
<1> QED BY <1>1, <1>2, <1>3 DEF Planned, TypeOK, process

LEMMA PlannerFailsType ==
    ASSUME TypeOK, NEW r \in Requests, NEW events,
           NEW code \in PlannerCodes \cup {Unexpected},
           PlannerFails(r, code, events)
    PROVE  TypeOK'
<1>1. CASE mode = "llm"
  BY <1>1, AbortType DEF PlannerFails
<1>2. CASE mode # "llm"
  <2>1. RuleUpdate(state[r], code) \in StateShape
    BY RuleUpdateType DEF TypeOK
  <2> QED BY <1>2, <2>1, PlannedType DEF PlannerFails
<1> QED BY <1>1, <1>2

\* Every step keeps the types.
LEMMA TypeStep ==
    ASSUME PipelineAssumption, TypeOK, Next
    PROVE  TypeOK'
<1> PICK r \in Requests : Submit(r) \/ Serve(r)
  BY DEF Next
<1> DEFINE Tally == tally' \in [Requests -> [Events -> Nat]]
           Pc == pc' \in [Requests -> Running \cup {"idle", "queued", "done"}]
           Run == run' \in [Requests -> [results : Seq(Result), skipped : Nat]]
           State == state' \in [Requests -> StateShape]
           Locals == [results : Seq(Result), skipped : Nat]
<1>0. /\ state[r] \in StateShape
      /\ run[r] \in Locals
  BY DEF TypeOK
<1>1. CASE Submit(r)
  <2>1. backlog' \in Seq(Requests) /\ query' \in [Requests -> Queries] /\ Pc
    BY <1>1 DEF Submit, Goto, TypeOK
  <2>2. Tally /\ reply' \in [Requests -> ReplyShape]
    BY <1>1, InitialShapes DEF Submit, TypeOK
  <2> QED BY <1>1, <2>1, <2>2 DEF Submit, TypeOK, process
<1>2. CASE Admit(r)
  <2>1. Tally
    BY <1>2, EmitType DEF Admit, TypeOK
  <2>2. Pc /\ backlog' \in Seq(Requests)
    BY <1>2 DEF Admit, Goto, TypeOK, Running
  <2> QED BY <1>2, <2>1, <2>2 DEF Admit, TypeOK, process
<1>3. CASE RouteQuery(r)
  <2>1. IntentOf(query[r]) \in Intents
    BY IntentOfType
  <2>2. query[r].equipment \in BOOLEAN /\ query[r].alarm \in BOOLEAN
    BY DEF TypeOK, PipelineAssumption, QueryShape
  <2> DEFINE equipment == query[r].equipment \/ state[r].equipment
             alarm == query[r].alarm \/ state[r].alarm
             st == [state[r] EXCEPT !.intent = IntentOf(query[r]),
                                    !.equipment = equipment, !.alarm = alarm]
  <2>3. state' = [state EXCEPT ![r] = st]
    BY <1>3 DEF RouteQuery
  <2>4. equipment \in BOOLEAN /\ alarm \in BOOLEAN
    OBVIOUS
  <2> HIDE DEF equipment, alarm
  <2>5. st \in StateShape
    BY <1>0, <2>1, <2>4 DEF StateShape
  <2> HIDE DEF st
  <2>6. State
    BY <2>3, <2>5 DEF TypeOK
  <2>7. Pc
    BY <1>3 DEF RouteQuery, Goto, TypeOK, Running
  <2> QED BY <1>3, <2>6, <2>7 DEF RouteQuery, TypeOK, settings
<1>4. CASE PlanByRule(r)
  <2>1. RuleUpdate(state[r], "none") \in StateShape
    BY RuleUpdateType DEF TypeOK
  <2> QED BY <1>4, <2>1, PlannedType DEF PlanByRule
<1>5. CASE PlannerNotBuilt(r)
  BY <1>5, PlannerFailsType DEF PlannerNotBuilt, PlannerCodes
<1>6. CASE AskLLM(r)
  <2>1. Tally
    BY <1>6, EmitType DEF AskLLM, TypeOK
  <2>2. Pc
    BY <1>6 DEF AskLLM, Goto, TypeOK, Running
  <2> QED BY <1>6, <2>1, <2>2 DEF AskLLM, TypeOK, process
<1>7. CASE ProviderRaises(r)
  BY <1>7, PlannerFailsType DEF ProviderRaises, PlannerCodes
<1>8. CASE CompletionUnreadable(r)
  BY <1>8, PlannerFailsType DEF CompletionUnreadable, PlannerCodes
<1>9. CASE CompletionIsPlan(r)
  <2>1. PICK plan \in Plans :
          IF PlanDefect(plan.calls) = "none"
          THEN Planned(r, LLMUpdate(state[r], plan),
                       {"llm.completed", "planner.completed"})
          ELSE PlannerFails(r, PlanDefect(plan.calls), {"llm.completed"})
    BY <1>9 DEF CompletionIsPlan
  <2>2. plan \in PlanShape /\ plan.calls \in Seq(Call)
    BY DEF PipelineAssumption, PlanShape
  <2>3. CASE PlanDefect(plan.calls) = "none"
    <3>1. LLMUpdate(state[r], plan) \in StateShape
      BY <2>2, <2>3, LLMUpdateType DEF TypeOK
    <3> QED BY <2>1, <2>3, <3>1, PlannedType
  <2>4. CASE PlanDefect(plan.calls) # "none"
    <3>1. PlanDefect(plan.calls) \in PlannerCodes \cup {Unexpected}
      BY <2>2, <2>4, PlanDefectCases
    <3> QED BY <2>1, <2>4, <3>1, PlannerFailsType
  <2> QED BY <2>3, <2>4
<1>10. CASE TakeCall(r)
  <2>1. CASE Runnable(state[r], Cursor(r))
    <3>1. Tally
      BY <1>10, <2>1, EmitType DEF TakeCall, TypeOK
    <3>2. Pc
      BY <1>10, <2>1 DEF TakeCall, Goto, TypeOK, Running
    <3> QED BY <1>10, <2>1, <3>1, <3>2 DEF TakeCall, TypeOK, process
  <2>2. CASE ~Runnable(state[r], Cursor(r))
    <3> DEFINE skipped == run[r].skipped + 1
               locals == [run[r] EXCEPT !.skipped = skipped]
    <3>2. run' = [run EXCEPT ![r] = locals]
      BY <1>10, <2>2 DEF TakeCall
    <3>3. skipped \in Nat
      BY <1>0
    <3> HIDE DEF skipped
    <3>4. locals \in Locals
      BY <1>0, <3>3
    <3> HIDE DEF locals
    <3>1. Run
      BY <3>2, <3>4 DEF TypeOK
    <3> QED BY <1>10, <2>2, <3>1 DEF TakeCall, TypeOK, process
  <2> QED BY <2>1, <2>2
<1>11. ASSUME NEW tool \in ToolNames, NEW outcome \in Outcomes, NEW events,
              ToolReturns(r, tool, outcome, events)
       PROVE  TypeOK'
  <2>1. Tally
    BY <1>11, EmitType DEF ToolReturns, TypeOK
  <2>2. [tool |-> tool, outcome |-> outcome] \in Result
    BY <1>11 DEF Result
  <2> DEFINE results == Append(run[r].results, [tool |-> tool, outcome |-> outcome])
             locals == [run[r] EXCEPT !.results = results]
  <2>6. run' = [run EXCEPT ![r] = locals]
    BY <1>11 DEF ToolReturns
  <2>7. results \in Seq(Result)
    BY <1>0, <2>2
  <2> HIDE DEF results
  <2>3. locals \in Locals
    BY <1>0, <2>7
  <2> HIDE DEF locals
  <2>5. Run
    BY <2>3, <2>6 DEF TypeOK
  <2>4. Pc
    BY <1>11 DEF ToolReturns, Goto, TypeOK, Running
  <2> QED BY <1>11, <2>1, <2>4, <2>5 DEF ToolReturns, TypeOK, process
<1>12. CASE DeviceReturns(r) \/ AlarmReturns(r) \/ ManualReturns(r)
  BY <1>12, <1>11 DEF DeviceReturns, AlarmReturns, ManualReturns, ToolNames, Outcomes
<1>13. CASE ToolRaises(r) \/ CatalogFails(r)
  BY <1>13, AbortType DEF ToolRaises, CatalogFails
<1>14. CASE FinishTools(r)
  <2> DEFINE results == state[r].results \o run[r].results
             error == run[r].skipped > 0
             st == [state[r] EXCEPT !.results = results, !.error = error]
  <2>1. results \in Seq(Result) /\ (run[r].skipped > 0) \in BOOLEAN
    BY <1>0 DEF StateShape
  <2>4. state' = [state EXCEPT ![r] = st]
    BY <1>14 DEF FinishTools
  <2> HIDE DEF error, results
  <2>6. error \in BOOLEAN
    BY <2>1 DEF error
  <2>5. st \in StateShape
    BY <1>0, <2>1, <2>6 DEF StateShape
  <2> HIDE DEF st
  <2>2. State
    BY <2>4, <2>5 DEF TypeOK
  <2>3. Pc
    BY <1>14 DEF FinishTools, Goto, TypeOK, Running
  <2> QED BY <1>14, <2>2, <2>3 DEF FinishTools, TypeOK, process
<1>15. ASSUME NEW results \in Seq(Result)
       PROVE  Cited(results) \in SUBSET Nat
  BY DEF Cited
<1>16. CASE RetrieveContext(r)
  <2>1. Cited(state[r].results) \in SUBSET Nat
    BY <1>15 DEF TypeOK, StateShape
  <2> DEFINE st == [state[r] EXCEPT !.context = Cited(state[r].results)]
  <2>4. st \in StateShape
    BY <1>0, <2>1 DEF StateShape
  <2>5. state' = [state EXCEPT ![r] = st]
    BY <1>16 DEF RetrieveContext
  <2> HIDE DEF st
  <2>2. State
    BY <2>4, <2>5 DEF TypeOK
  <2>3. Pc
    BY <1>16 DEF RetrieveContext, Goto, TypeOK, Running
  <2> QED BY <1>16, <2>2, <2>3 DEF RetrieveContext, TypeOK, process
<1>17. CASE Synthesize(r)
  <2> DEFINE evidence == IF state[r].context # {} THEN state[r].context
                         ELSE Cited(state[r].results)
             answer == [t \in ToolNames |-> SectionOf(state[r].results, t)]
  <2>1. evidence \in SUBSET Nat
    BY <1>15 DEF TypeOK, StateShape
  <2>2. state[r].results \in Seq(Result)
    BY DEF TypeOK, StateShape
  <2>3. answer \in [ToolNames -> Sections]
    BY <2>2, SectionType, Zenon
  <2> DEFINE st == [state[r] EXCEPT !.evidence = evidence, !.answer = answer]
  <2>4. state' = [state EXCEPT ![r] = st]
    BY <1>17 DEF Synthesize
  <2> HIDE DEF evidence, answer
  <2>7. st \in StateShape
    BY <1>0, <2>1, <2>3 DEF StateShape
  <2> HIDE DEF st
  <2>5. State
    BY <2>4, <2>7 DEF TypeOK
  <2>6. Pc
    BY <1>17 DEF Synthesize, Goto, TypeOK, Running
  <2> QED BY <1>17, <2>5, <2>6 DEF Synthesize, TypeOK, process
<1>18. CASE Respond(r)
  <2> DEFINE body == [kind |-> "answer", code |-> "none",
                      intent |-> state[r].intent, planner |-> state[r].used,
                      fallback |-> state[r].fallback, reason |-> state[r].reason,
                      required |-> state[r].required, results |-> state[r].results,
                      error |-> state[r].error, answer |-> state[r].answer,
                      evidence |-> state[r].evidence]
  <2>1. body \in ReplyShape
    BY DEF TypeOK, StateShape, ReplyShape
  <2>2. reply' = [reply EXCEPT ![r] = body]
    BY <1>18 DEF Respond
  <2> HIDE DEF body
  <2>3. reply' \in [Requests -> ReplyShape]
    BY <2>1, <2>2 DEF TypeOK
  <2>4. Tally
    BY <1>18, EmitType DEF Respond, TypeOK
  <2>5. State /\ Run
    BY <1>18, InitialShapes DEF Respond, TypeOK
  <2>6. Pc
    BY <1>18 DEF Respond, Goto, TypeOK
  <2> QED BY <1>18, <2>3, <2>4, <2>5, <2>6 DEF Respond, TypeOK, process
<1> QED BY <1>1, <1>2, <1>3, <1>4, <1>5, <1>6, <1>7, <1>8, <1>9, <1>10, <1>12,
           <1>13, <1>14, <1>16, <1>17, <1>18
        DEF Serve, Planning, Executing, Answering

LEMMA InitialTypes == PipelineAssumption /\ Init => TypeOK
<1> SUFFICES ASSUME PipelineAssumption, Init PROVE TypeOK
  OBVIOUS
<1>1. backlog \in Seq(Requests)
  BY DEF Init
<1> QED BY <1>1, InitialShapes DEF Init, TypeOK

\* Type correctness: every variable, the state record and the reply keep the
\* shape the code gives them.
THEOREM TypeCorrect == Spec => []TypeOK
<1> USE PipelineAssumption
<1>1. Init => TypeOK
  BY InitialTypes
<1>2. TypeOK /\ [Next]_vars => TypeOK'
  <2>1. TypeOK /\ Next => TypeOK'
    BY TypeStep
  <2>2. TypeOK /\ UNCHANGED vars => TypeOK'
    BY DEF TypeOK, vars
  <2> QED BY <2>1, <2>2
<1> QED BY <1>1, <1>2, PTL DEF Spec, SafeSpec

----------------------------------------------------------------------------
(* What a step does to its own request, and that it does nothing to the    *)
(* others.                                                                 *)

LEMMA EmitEffect ==
    ASSUME tally \in [Requests -> [Events -> Nat]],
           NEW r \in Requests, NEW events, Emit(r, events)
    PROVE  \A e \in Events :
              tally'[r][e] = tally[r][e] + (IF e \in events THEN 1 ELSE 0)
BY DEF Emit

LEMMA AbortEffect ==
    ASSUME TypeOK, NEW r \in Requests, NEW code, NEW events, Abort(r, code, events)
    PROVE  /\ pc'[r] = "done"
           /\ reply'[r] = [NoReply EXCEPT !.kind = "error", !.code = code]
           /\ state'[r] = FreshState /\ run'[r] = FreshRun
           /\ \A e \in Events : tally'[r][e] = tally[r][e]
                 + (IF e \in events \cup {"request.completed"} THEN 1 ELSE 0)
           /\ mode' = mode /\ configured' = configured /\ query' = query
<1>1. Emit(r, events \cup {"request.completed"})
  BY DEF Abort
<1>2. \A e \in Events : tally'[r][e] = tally[r][e]
         + (IF e \in events \cup {"request.completed"} THEN 1 ELSE 0)
  BY <1>1, EmitEffect DEF TypeOK
<1> QED BY <1>2 DEF Abort, Goto, TypeOK, process

LEMMA PlannedEffect ==
    ASSUME TypeOK, NEW r \in Requests, NEW update, NEW events,
           Planned(r, update, events)
    PROVE  /\ pc'[r] = "execute_tools"
           /\ state'[r] = update /\ run'[r] = run[r] /\ reply'[r] = reply[r]
           /\ \A e \in Events :
                 tally'[r][e] = tally[r][e] + (IF e \in events THEN 1 ELSE 0)
           /\ mode' = mode /\ configured' = configured /\ query' = query
<1>1. \A e \in Events :
         tally'[r][e] = tally[r][e] + (IF e \in events THEN 1 ELSE 0)
  BY EmitEffect DEF Planned, TypeOK
<1> QED BY <1>1 DEF Planned, Goto, TypeOK, process

\* A step of one request leaves every other request, and the settings, alone.
LEMMA Frame ==
    ASSUME TypeOK, NEW r \in Requests, NEW s \in Requests, s # r,
           Submit(r) \/ Serve(r)
    PROVE  /\ pc'[s] = pc[s] /\ query'[s] = query[s] /\ state'[s] = state[s]
           /\ run'[s] = run[s] /\ tally'[s] = tally[s] /\ reply'[s] = reply[s]
<1> USE DEF TypeOK
<1> DEFINE Same == /\ pc'[s] = pc[s] /\ query'[s] = query[s] /\ state'[s] = state[s]
                   /\ run'[s] = run[s] /\ tally'[s] = tally[s] /\ reply'[s] = reply[s]
<1>1. ASSUME NEW events, Emit(r, events) PROVE tally'[s] = tally[s]
  BY <1>1 DEF Emit
<1>2. ASSUME NEW label, Goto(r, label) PROVE pc'[s] = pc[s]
  BY <1>2 DEF Goto
<1>3. ASSUME NEW code, NEW events, Abort(r, code, events) PROVE Same
  BY <1>1, <1>2, <1>3 DEF Abort
<1>4. ASSUME NEW update, NEW events, Planned(r, update, events) PROVE Same
  BY <1>1, <1>2, <1>4 DEF Planned
<1>5. ASSUME NEW code, NEW events, PlannerFails(r, code, events) PROVE Same
  BY <1>3, <1>4, <1>5 DEF PlannerFails
<1>6. CASE Submit(r)
  BY <1>2, <1>6 DEF Submit
<1>7. CASE Admit(r)
  BY <1>1, <1>2, <1>7 DEF Admit
<1>8. CASE Planning(r)
  <2>1. CASE RouteQuery(r)
    BY <1>2, <2>1 DEF RouteQuery
  <2>2. CASE PlanByRule(r)
    BY <1>4, <2>2 DEF PlanByRule
  <2>3. CASE PlannerNotBuilt(r) \/ ProviderRaises(r) \/ CompletionUnreadable(r)
    BY <1>5, <2>3 DEF PlannerNotBuilt, ProviderRaises, CompletionUnreadable
  <2>4. CASE AskLLM(r)
    BY <1>1, <1>2, <2>4 DEF AskLLM
  <2>5. CASE CompletionIsPlan(r)
    BY <1>4, <1>5, <2>5 DEF CompletionIsPlan
  <2>6. CASE CatalogFails(r)
    BY <1>3, <2>6 DEF CatalogFails
  <2> QED BY <1>8, <2>1, <2>2, <2>3, <2>4, <2>5, <2>6 DEF Planning
<1>9. CASE Executing(r)
  <2>1. ASSUME NEW tool, NEW outcome, NEW events, ToolReturns(r, tool, outcome, events)
        PROVE  Same
    BY <1>1, <1>2, <2>1 DEF ToolReturns
  <2>2. CASE TakeCall(r)
    BY <1>1, <1>2, <2>2 DEF TakeCall
  <2>3. CASE FinishTools(r)
    BY <1>2, <2>3 DEF FinishTools
  <2>4. CASE ToolRaises(r)
    BY <1>3, <2>4 DEF ToolRaises
  <2>5. CASE DeviceReturns(r) \/ AlarmReturns(r) \/ ManualReturns(r)
    BY <2>1, <2>5 DEF DeviceReturns, AlarmReturns, ManualReturns
  <2> QED BY <1>9, <2>2, <2>3, <2>4, <2>5 DEF Executing
<1>10. CASE Answering(r)
  BY <1>1, <1>2, <1>10 DEF Answering, RetrieveContext, Synthesize, Respond
<1> QED BY <1>6, <1>7, <1>8, <1>9, <1>10 DEF Serve

\* The settings are those the process started with.
LEMMA SettingsFixed ==
    ASSUME NEW r, Submit(r) \/ Serve(r)
    PROVE  mode' = mode /\ configured' = configured
<1> USE DEF settings, process
<1>1. ASSUME NEW code, NEW events, Abort(r, code, events) PROVE UNCHANGED settings
  BY <1>1 DEF Abort
<1>2. ASSUME NEW update, NEW events, Planned(r, update, events) PROVE UNCHANGED settings
  BY <1>2 DEF Planned
<1>3. ASSUME NEW code, NEW events, PlannerFails(r, code, events)
      PROVE  UNCHANGED settings
  BY <1>1, <1>2, <1>3 DEF PlannerFails
<1>4. CASE Planning(r)
  BY <1>1, <1>2, <1>3, <1>4
     DEF Planning, RouteQuery, CatalogFails, PlanByRule, PlannerNotBuilt, AskLLM,
     ProviderRaises, CompletionUnreadable, CompletionIsPlan
<1>5. CASE Executing(r)
  BY <1>1, <1>5 DEF Executing, TakeCall, FinishTools, ToolRaises, DeviceReturns,
     AlarmReturns, ManualReturns, ToolReturns
<1>6. CASE Submit(r) \/ Admit(r) \/ Answering(r)
  BY <1>6 DEF Submit, Admit, Answering, RetrieveContext, Synthesize, Respond
<1> QED BY <1>4, <1>5, <1>6 DEF Serve

----------------------------------------------------------------------------
(* The planner mode is honoured. *)

\* Where a plan exists: from the planner node's return to the reply.
WithPlan == {"execute_tools", "in_tool", "retrieve_context", "synthesize", "respond"}

\* ModeHonoured is about replies.  What makes it inductive is the same of a
\* plan under way, and that only a process that may ask an LLM waits for one.
ModeInv(r) ==
    /\ mode = "rule" => tally[r]["llm.started"] = 0
    /\ pc[r] = "awaiting_llm" => mode # "rule" /\ configured
    /\ pc[r] \in WithPlan =>
          MarkedHonestly(state[r].used, state[r].fallback, state[r].reason)
    /\ pc[r] # "done" => reply[r] = NoReply
    /\ mode # "llm" => reply[r].code \notin PlannerCodes
    /\ Answered(r) =>
          MarkedHonestly(reply[r].planner, reply[r].fallback, reply[r].reason)

\* The count of LLM calls across another log event.
LEMMA EmitQuiet ==
    ASSUME TypeOK, NEW r \in Requests, NEW events, Emit(r, events),
           "llm.started" \notin events
    PROVE  tally'[r]["llm.started"] = tally[r]["llm.started"]
<1>1. "llm.started" \in Events
  BY DEF Events
<1>2. tally[r]["llm.started"] \in Nat
  BY <1>1 DEF TypeOK
<1> QED BY <1>1, <1>2, EmitEffect DEF TypeOK

\* An error reply, whichever step it comes from.
LEMMA AbortMode ==
    ASSUME TypeOK, NEW r \in Requests, ModeInv(r), NEW code, NEW events,
           Abort(r, code, events),
           mode # "llm" => code \notin PlannerCodes, "llm.started" \notin events
    PROVE  ModeInv(r)'
<1>1. /\ pc'[r] = "done" /\ mode' = mode
      /\ reply'[r] = [NoReply EXCEPT !.kind = "error", !.code = code]
  BY AbortEffect
<1>2. reply'[r].kind = "error" /\ reply'[r].code = code
  BY <1>1 DEF NoReply
<1>3. tally'[r]["llm.started"] = tally[r]["llm.started"]
  <2>1. Emit(r, events \cup {"request.completed"})
    BY DEF Abort
  <2> QED BY <2>1, EmitQuiet
<1> QED BY <1>1, <1>2, <1>3 DEF ModeInv, Answered, WithPlan

\* A plan, from whichever planner.
LEMMA PlannedMode ==
    ASSUME TypeOK, NEW r \in Requests, ModeInv(r), NEW update, NEW events,
           Planned(r, update, events), pc[r] # "done", "llm.started" \notin events,
           MarkedHonestly(update.used, update.fallback, update.reason)
    PROVE  ModeInv(r)'
<1>1. /\ pc'[r] = "execute_tools" /\ state'[r] = update /\ reply'[r] = reply[r]
      /\ mode' = mode /\ configured' = configured
  BY PlannedEffect
<1>2. tally'[r]["llm.started"] = tally[r]["llm.started"]
  BY EmitQuiet DEF Planned
<1>3. reply'[r].kind = "none" /\ reply'[r].code = "none"
  BY <1>1 DEF ModeInv, NoReply
<1> QED BY <1>1, <1>2, <1>3 DEF ModeInv, Answered, MarkedHonestly, PlannerCodes

LEMMA RuleUpdateFields ==
    ASSUME NEW st \in StateShape, NEW reason
    PROVE  LET u == RuleUpdate(st, reason) IN
           /\ u.used = "rule" /\ (u.fallback <=> reason # "none") /\ u.reason = reason
           /\ u.required = RuleTools(st) /\ u.calls = <<>>
           /\ u.equipment = st.equipment /\ u.alarm = st.alarm /\ u.intent = st.intent
           /\ u.results = st.results /\ u.fallback \in BOOLEAN
<1> DEFINE fb == reason # "none"
<1>1. RuleUpdate(st, reason) =
       [st EXCEPT !.required = RuleTools(st), !.calls = <<>>, !.used = "rule",
                  !.fallback = fb, !.reason = reason]
  BY DEF RuleUpdate
<1>2. fb \in BOOLEAN
  OBVIOUS
<1>3. RuleUpdate(st, reason).fallback = fb
  <2> HIDE DEF fb
  <2> QED BY <1>1 DEF StateShape
<1>4. LET u == RuleUpdate(st, reason) IN
      /\ u.used = "rule" /\ u.reason = reason
      /\ u.required = RuleTools(st) /\ u.calls = <<>>
      /\ u.equipment = st.equipment /\ u.alarm = st.alarm /\ u.intent = st.intent
      /\ u.results = st.results
  <2> HIDE DEF fb
  <2> QED BY <1>1 DEF StateShape
<1> QED BY <1>2, <1>3, <1>4

LEMMA LLMUpdateFields ==
    ASSUME NEW st \in StateShape, NEW plan \in PlanShape
    PROVE  LET u == LLMUpdate(st, plan) IN
           /\ u.used = "llm" /\ u.fallback = FALSE /\ u.reason = "none"
           /\ u.required = [i \in DOMAIN plan.calls |-> plan.calls[i].tool]
           /\ u.calls = plan.calls /\ u.results = st.results
<1> DEFINE names == [i \in DOMAIN plan.calls |-> plan.calls[i].tool]
           intent == IF plan.intent = "none" THEN st.intent ELSE plan.intent
<1>1. LLMUpdate(st, plan) =
       [st EXCEPT !.required = names, !.calls = plan.calls, !.used = "llm",
                  !.fallback = FALSE, !.reason = "none", !.intent = intent]
  BY DEF LLMUpdate, StateShape
<1> HIDE DEF names, intent
<1>2. LET u == LLMUpdate(st, plan) IN
      /\ u.used = "llm" /\ u.fallback = FALSE /\ u.reason = "none"
      /\ u.required = names /\ u.calls = plan.calls /\ u.results = st.results
  BY <1>1 DEF StateShape
<1> QED BY <1>2 DEF names

LEMMA PlannerFailsMode ==
    ASSUME PipelineAssumption, TypeOK, NEW r \in Requests, ModeInv(r), NEW events,
           NEW code \in PlannerCodes \cup {Unexpected}, PlannerFails(r, code, events),
           mode # "rule", pc[r] # "done", "llm.started" \notin events
    PROVE  ModeInv(r)'
<1>1. CASE mode = "llm"
  BY <1>1, AbortMode DEF PlannerFails
<1>2. CASE mode # "llm"
  <2> DEFINE update == RuleUpdate(state[r], code)
  <2>1. code # "none"
    BY DEF PlannerCodes, Unexpected
  <2>2. update.used = "rule" /\ update.fallback /\ update.reason = code
    BY <2>1, RuleUpdateFields DEF TypeOK
  <2>3. mode = "auto"
    BY <1>2 DEF PipelineAssumption, TypeOK
  <2>4. MarkedHonestly(update.used, update.fallback, update.reason)
    BY <2>1, <2>2, <2>3 DEF MarkedHonestly
  <2>5. Planned(r, update, events \cup {"planner.failed"})
    BY <1>2 DEF PlannerFails
  <2> HIDE DEF update
  <2> QED BY <2>4, <2>5, PlannedMode
<1> QED BY <1>1, <1>2

\* A step that leaves the planner's marks and the reply where they are.
LEMMA QuietMode ==
    ASSUME TypeOK, NEW r \in Requests, ModeInv(r),
           mode' = mode, configured' = configured,
           tally'[r]["llm.started"] = tally[r]["llm.started"],
           reply'[r] = reply[r], pc[r] # "done",
           pc'[r] \in WithPlan =>
              /\ pc[r] \in WithPlan
              /\ state'[r].used = state[r].used
              /\ state'[r].fallback = state[r].fallback
              /\ state'[r].reason = state[r].reason,
           pc'[r] # "awaiting_llm"
    PROVE  ModeInv(r)'
<1>1. reply'[r].kind = "none" /\ reply'[r].code = "none" /\ reply'[r] = NoReply
  BY DEF ModeInv, NoReply
<1> QED BY <1>1 DEF ModeInv, Answered, MarkedHonestly, PlannerCodes

LEMMA ModeStep ==
    ASSUME PipelineAssumption, TypeOK, NEW r \in Requests, ModeInv(r),
           Submit(r) \/ Serve(r)
    PROVE  ModeInv(r)'
<1> DEFINE Kept == /\ state'[r].used = state[r].used
                   /\ state'[r].fallback = state[r].fallback
                   /\ state'[r].reason = state[r].reason
<1>a. mode' = mode /\ configured' = configured
  BY SettingsFixed
<1>b. state[r] \in StateShape
  BY DEF TypeOK
<1>1. CASE Submit(r)
  <2>1. pc'[r] = "queued" /\ reply'[r] = NoReply /\ tally'[r] = NoEvents
    BY <1>1 DEF Submit, Goto, TypeOK
  <2>2. tally'[r]["llm.started"] = 0
    BY <2>1 DEF NoEvents, Events
  <2>3. reply'[r].kind = "none" /\ reply'[r].code = "none"
    BY <2>1 DEF NoReply
  <2> QED BY <1>a, <2>1, <2>2, <2>3 DEF ModeInv, Answered, WithPlan, PlannerCodes
<1>2. CASE Admit(r)
  <2>1. /\ pc'[r] = "route_query" /\ reply'[r] = reply[r] /\ pc[r] = "queued"
        /\ Emit(r, {"request.started"})
    BY <1>2 DEF Admit, Goto, TypeOK
  <2>2. tally'[r]["llm.started"] = tally[r]["llm.started"]
    BY <2>1, EmitQuiet
  <2> QED BY <1>a, <2>1, <2>2, QuietMode DEF WithPlan
<1>3. CASE RouteQuery(r)
  <2>1. /\ pc'[r] = "plan_actions" /\ reply'[r] = reply[r] /\ tally' = tally
        /\ pc[r] = "route_query"
    BY <1>3 DEF RouteQuery, Goto, TypeOK
  <2> QED BY <1>a, <2>1, QuietMode DEF WithPlan
<1>4. CASE PlanByRule(r)
  <2> DEFINE update == RuleUpdate(state[r], "none")
  <2>1. update.used = "rule" /\ (update.fallback <=> FALSE) /\ update.reason = "none"
    BY <1>b, RuleUpdateFields
  <2>2. MarkedHonestly(update.used, update.fallback, update.reason)
    BY <1>4, <2>1 DEF MarkedHonestly, PlanByRule
  <2>3. Planned(r, update, {"planner.started", "planner.completed"}) /\ pc[r] # "done"
    BY <1>4 DEF PlanByRule
  <2> HIDE DEF update
  <2> QED BY <2>2, <2>3, PlannedMode
<1>5. CASE PlannerNotBuilt(r)
  BY <1>5, PlannerFailsMode DEF PlannerNotBuilt, PlannerCodes
<1>6. CASE AskLLM(r)
  <2>1. /\ pc'[r] = "awaiting_llm" /\ reply'[r] = reply[r] /\ pc[r] = "plan_actions"
        /\ mode # "rule" /\ configured
    BY <1>6 DEF AskLLM, Goto, TypeOK
  <2>2. reply'[r].kind = "none" /\ reply'[r].code = "none" /\ reply'[r] = NoReply
    BY <2>1 DEF ModeInv, NoReply
  <2> QED BY <1>a, <2>1, <2>2 DEF ModeInv, Answered, WithPlan, PlannerCodes
<1>7. CASE ProviderRaises(r)
  BY <1>7, PlannerFailsMode DEF ProviderRaises, PlannerCodes, ModeInv
<1>8. CASE CompletionUnreadable(r)
  BY <1>8, PlannerFailsMode DEF CompletionUnreadable, PlannerCodes, ModeInv
<1>9. CASE CompletionIsPlan(r)
  <2>1. PICK plan \in Plans :
          IF PlanDefect(plan.calls) = "none"
          THEN Planned(r, LLMUpdate(state[r], plan),
                       {"llm.completed", "planner.completed"})
          ELSE PlannerFails(r, PlanDefect(plan.calls), {"llm.completed"})
    BY <1>9 DEF CompletionIsPlan
  <2>2. plan \in PlanShape /\ plan.calls \in Seq(Call)
    BY DEF PipelineAssumption, PlanShape
  <2>3. pc[r] = "awaiting_llm" /\ mode # "rule" /\ configured
    BY <1>9 DEF CompletionIsPlan, ModeInv
  <2>4. CASE PlanDefect(plan.calls) = "none"
    <3> DEFINE update == LLMUpdate(state[r], plan)
    <3>1. update.used = "llm" /\ update.fallback = FALSE /\ update.reason = "none"
      BY <1>b, <2>2, LLMUpdateFields
    <3>2. MarkedHonestly(update.used, update.fallback, update.reason)
      BY <2>3, <3>1 DEF MarkedHonestly
    <3>3. Planned(r, update, {"llm.completed", "planner.completed"})
      BY <2>1, <2>4
    <3> HIDE DEF update
    <3> QED BY <2>3, <3>2, <3>3, PlannedMode
  <2>5. CASE PlanDefect(plan.calls) # "none"
    <3>1. PlanDefect(plan.calls) \in PlannerCodes \cup {Unexpected}
      BY <2>2, <2>5, PlanDefectCases
    <3> QED BY <2>1, <2>3, <2>5, <3>1, PlannerFailsMode
  <2> QED BY <2>4, <2>5
<1>10. CASE TakeCall(r)
  <2>1. /\ pc[r] = "execute_tools" /\ pc'[r] \in {"execute_tools", "in_tool"}
        /\ state' = state /\ reply' = reply
    BY <1>10 DEF TakeCall, Goto, TypeOK
  <2>2. tally' = tally \/ Emit(r, {"tool.started"})
    BY <1>10 DEF TakeCall
  <2>3. tally'[r]["llm.started"] = tally[r]["llm.started"]
    BY <2>2, EmitQuiet
  <2> QED BY <1>a, <2>1, <2>3, QuietMode DEF WithPlan
<1>11. ASSUME NEW tool, NEW outcome, NEW events, "llm.started" \notin events,
              ToolReturns(r, tool, outcome, events)
       PROVE  ModeInv(r)'
  <2>1. /\ pc[r] = "in_tool" /\ pc'[r] = "execute_tools"
        /\ state' = state /\ reply' = reply
        /\ Emit(r, events \cup {"tool.completed"})
    BY <1>11 DEF ToolReturns, Goto, TypeOK
  <2>2. tally'[r]["llm.started"] = tally[r]["llm.started"]
    BY <1>11, <2>1, EmitQuiet
  <2> QED BY <1>a, <2>1, <2>2, QuietMode DEF WithPlan
<1>12. CASE DeviceReturns(r) \/ AlarmReturns(r) \/ ManualReturns(r)
  BY <1>11, <1>12 DEF DeviceReturns, AlarmReturns, ManualReturns
<1>13. CASE ToolRaises(r) \/ CatalogFails(r)
  <2>1. InvocationFailed \notin PlannerCodes
    BY DEF PlannerCodes, InvocationFailed
  <2> QED BY <1>13, <2>1, AbortMode DEF ToolRaises, CatalogFails
<1>14. CASE FinishTools(r)
  <2>1. /\ pc[r] = "execute_tools" /\ pc'[r] = "retrieve_context"
        /\ reply' = reply /\ tally' = tally
    BY <1>14 DEF FinishTools, Goto, TypeOK
  <2> DEFINE results == state[r].results \o run[r].results
             error == run[r].skipped > 0
  <2>2. state'[r] = [state[r] EXCEPT !.results = results, !.error = error]
    BY <1>14 DEF FinishTools, TypeOK
  <2> HIDE DEF error, results
  <2>3. Kept
    BY <1>b, <2>2 DEF StateShape
  <2> QED BY <1>a, <2>1, <2>3, QuietMode DEF WithPlan
<1>15. CASE RetrieveContext(r)
  <2>1. /\ pc[r] = "retrieve_context" /\ pc'[r] = "synthesize"
        /\ reply' = reply /\ tally' = tally
        /\ state'[r] = [state[r] EXCEPT !.context = Cited(state[r].results)]
    BY <1>15 DEF RetrieveContext, Goto, TypeOK
  <2>2. Kept
    BY <1>b, <2>1 DEF StateShape
  <2> QED BY <1>a, <2>1, <2>2, QuietMode DEF WithPlan
<1>16. CASE Synthesize(r)
  <2> DEFINE evidence == IF state[r].context # {} THEN state[r].context
                         ELSE Cited(state[r].results)
             answer == [t \in ToolNames |-> SectionOf(state[r].results, t)]
  <2>1. /\ pc[r] = "synthesize" /\ pc'[r] = "respond"
        /\ reply' = reply /\ tally' = tally
        /\ state'[r] = [state[r] EXCEPT !.evidence = evidence, !.answer = answer]
    BY <1>16 DEF Synthesize, Goto, TypeOK
  <2> HIDE DEF evidence, answer
  <2>2. Kept
    BY <1>b, <2>1 DEF StateShape
  <2> QED BY <1>a, <2>1, <2>2, QuietMode DEF WithPlan
<1>17. CASE Respond(r)
  <2>1. /\ pc[r] = "respond" /\ pc'[r] = "done" /\ Emit(r, {"request.completed"})
        /\ reply'[r].code = "none" /\ reply'[r].planner = state[r].used
        /\ reply'[r].fallback = state[r].fallback
        /\ reply'[r].reason = state[r].reason
    BY <1>17 DEF Respond, Goto, TypeOK
  <2>2. tally'[r]["llm.started"] = tally[r]["llm.started"]
    BY <2>1, EmitQuiet
  <2> QED BY <1>a, <2>1, <2>2 DEF ModeInv, WithPlan, MarkedHonestly, PlannerCodes
<1> QED BY <1>1, <1>2, <1>3, <1>4, <1>5, <1>6, <1>7, <1>8, <1>9, <1>10, <1>12,
           <1>13, <1>14, <1>15, <1>16, <1>17
        DEF Serve, Planning, Executing, Answering

\* With the types, honouring the mode is inductive.
ModeIInv == TypeOK /\ \A r \in Requests : ModeInv(r)

LEMMA ModeInvariant == Spec => []ModeIInv
<1> USE PipelineAssumption
<1>1. Init => ModeIInv
  <2> SUFFICES ASSUME Init PROVE ModeIInv
    OBVIOUS
  <2>1. TypeOK
    BY InitialTypes
  <2>2. ASSUME NEW r \in Requests PROVE ModeInv(r)
    <3>1. pc[r] = "idle" /\ reply[r] = NoReply /\ tally[r] = NoEvents
      BY DEF Init
    <3>2. NoEvents["llm.started"] = 0 /\ NoReply.kind = "none" /\ NoReply.code = "none"
      BY DEF NoEvents, Events, NoReply
    <3> QED BY <3>1, <3>2 DEF ModeInv, Answered, WithPlan, PlannerCodes
  <2> QED BY <2>1, <2>2 DEF ModeIInv
<1>2. ModeIInv /\ [Next]_vars => ModeIInv'
  <2> SUFFICES ASSUME ModeIInv, [Next]_vars PROVE ModeIInv'
    OBVIOUS
  <2>1. TypeOK /\ \A s \in Requests : ModeInv(s)
    BY DEF ModeIInv
  <2>2. CASE UNCHANGED vars
    <3>1. TypeOK'
      BY <2>1, <2>2 DEF TypeOK, vars
    <3>2. ASSUME NEW s \in Requests PROVE ModeInv(s)'
      BY <2>1, <2>2 DEF ModeInv, MarkedHonestly, Answered, vars
    <3> QED BY <3>1, <3>2 DEF ModeIInv
  <2>3. CASE Next
    <3>1. TypeOK'
      BY <2>1, <2>3, TypeStep
    <3>2. PICK r \in Requests : Submit(r) \/ Serve(r)
      BY <2>3 DEF Next
    <3>3. mode' = mode /\ configured' = configured
      BY <3>2, SettingsFixed
    <3>4. ASSUME NEW s \in Requests, s # r PROVE ModeInv(s)'
      <4>1. /\ pc'[s] = pc[s] /\ state'[s] = state[s]
            /\ tally'[s] = tally[s] /\ reply'[s] = reply[s]
        BY <2>1, <3>2, <3>4, Frame
      <4>2. ModeInv(s)
        BY <2>1
      <4> QED BY <3>3, <4>1, <4>2 DEF ModeInv, MarkedHonestly, Answered
    <3>5. ModeInv(r)'
      BY <2>1, <3>2, ModeStep
    <3> QED BY <3>1, <3>4, <3>5 DEF ModeIInv
  <2> QED BY <2>2, <2>3
<1> QED BY <1>1, <1>2, PTL DEF Spec, SafeSpec

\* The planner mode is honoured, for every interleaving of any number of
\* requests and whatever an LLM answers.
THEOREM ModeIsHonoured == Spec => []ModeHonoured
<1>1. ModeIInv => ModeHonoured
  BY DEF ModeIInv, ModeInv, ModeHonoured
<1> QED BY <1>1, ModeInvariant, PTL

----------------------------------------------------------------------------
(* Plans run whole. *)

\* What the planner node hands over: a plan every entry of which can run.
Sound(st) ==
    /\ Scheduled(st) = Len(st.required)
    /\ \A n \in 1 .. Len(st.required) : Runnable(st, n) /\ ToolAt(st, n) = st.required[n]

Follows(results, required) ==
    \A i \in 1 .. Len(results) : results[i].tool = required[i]

\* PlansRunWhole is about replies.  What makes it inductive is that the results
\* of the executor are at every moment those of a prefix of a sound plan.
PlanInv(r) ==
    /\ pc[r] \notin WithPlan => state[r].results = <<>> /\ run[r] = FreshRun
    /\ pc[r] \in {"execute_tools", "in_tool"} =>
          /\ Sound(state[r])
          /\ state[r].results = <<>> /\ run[r].skipped = 0
          /\ Len(run[r].results) <= Len(state[r].required)
          /\ pc[r] = "in_tool" => Len(run[r].results) < Len(state[r].required)
          /\ Follows(run[r].results, state[r].required)
    /\ pc[r] \in {"retrieve_context", "synthesize", "respond"} =>
          /\ ~state[r].error
          /\ Len(state[r].results) = Len(state[r].required)
          /\ Follows(state[r].results, state[r].required)
    /\ Answered(r) =>
          /\ ~reply[r].error
          /\ Len(reply[r].results) = Len(reply[r].required)
          /\ Follows(reply[r].results, reply[r].required)

PlanIInv == TypeOK /\ \A r \in Requests : PlanInv(r)

\* The rule planner asks only for tools whose arguments the state provides.
LEMMA RuleToolsDerivable ==
    ASSUME NEW st, st.equipment \in BOOLEAN, st.alarm \in BOOLEAN
    PROVE  RuleTools(st) \in Seq({t \in ToolNames : Derivable(t, st)})
<1> DEFINE D == {t \in ToolNames : Derivable(t, st)}
<1>1. /\ "manual" \in D
      /\ st.equipment => "device" \in D
      /\ st.alarm => "alarm" \in D
  BY DEF ToolNames, Derivable
<1> HIDE DEF D
<1>2. /\ <<>> \in Seq(D) /\ <<"manual">> \in Seq(D)
      /\ st.equipment => <<"device">> \in Seq(D)
      /\ st.alarm => <<"alarm">> \in Seq(D)
  BY <1>1
<1>3. \A s, t \in Seq(D) : s \o t \in Seq(D)
  OBVIOUS
<1>4. (IF st.equipment THEN <<"device">> ELSE <<>>) \in Seq(D)
  BY <1>2, Zenon
<1>5. (IF st.alarm THEN <<"alarm">> ELSE <<>>) \in Seq(D)
  BY <1>2, Zenon
<1>6. (IF st.intent \in {"alarm_diagnosis", "maintenance_advice"}
       THEN <<"manual">> ELSE <<>>) \in Seq(D)
  BY <1>2, Zenon
<1>7. RuleTools(st) \in Seq(D)
  BY <1>3, <1>4, <1>5, <1>6, Zenon DEF RuleTools
<1> QED BY <1>7 DEF D

LEMMA RuleUpdateSound ==
    ASSUME NEW st \in StateShape, NEW reason
    PROVE  Sound(RuleUpdate(st, reason))
<1> DEFINE u == RuleUpdate(st, reason)
<1>1. /\ u.required = RuleTools(st) /\ u.calls = <<>>
      /\ u.equipment = st.equipment /\ u.alarm = st.alarm
  BY RuleUpdateFields
<1>2. RuleTools(st) \in Seq({t \in ToolNames : Derivable(t, st)})
  BY RuleToolsDerivable DEF StateShape
<1> HIDE DEF u
<1>3. \A n \in 1 .. Len(u.required) : Derivable(u.required[n], st)
  BY <1>1, <1>2
<1>4. \A n \in 1 .. Len(u.required) : Derivable(u.required[n], u)
  BY <1>1, <1>3 DEF Derivable
<1>5. Sound(u)
  BY <1>1, <1>4 DEF Sound, Scheduled, Runnable, ToolAt
<1> QED BY <1>5 DEF u

LEMMA LLMUpdateSound ==
    ASSUME NEW st \in StateShape, NEW plan \in PlanShape,
           PlanDefect(plan.calls) = "none"
    PROVE  Sound(LLMUpdate(st, plan))
<1> DEFINE u == LLMUpdate(st, plan)
<1>1. /\ u.required = [i \in DOMAIN plan.calls |-> plan.calls[i].tool]
      /\ u.calls = plan.calls
  BY LLMUpdateFields
<1> HIDE DEF u
<1>2. plan.calls \in Seq(Call)
  BY DEF PlanShape
<1>3. \A i \in DOMAIN plan.calls : Validates(plan.calls[i])
  BY <1>2, PlanDefectCases
<1>4. DOMAIN plan.calls = 1 .. Len(plan.calls) /\ Len(plan.calls) \in Nat
  BY <1>2
<1>5. Len(u.required) = Len(plan.calls)
  BY <1>1, <1>4
<1>6. ASSUME plan.calls = <<>> PROVE Sound(u)
  <2>1. Len(u.required) = 0
    BY <1>5, <1>6
  <2> QED BY <1>1, <1>6, <2>1 DEF Sound, Scheduled
<1>7. ASSUME plan.calls # <<>> PROVE Sound(u)
  BY <1>1, <1>3, <1>4, <1>5, <1>7 DEF Sound, Scheduled, Runnable, ToolAt
<1>8. Sound(u)
  BY <1>6, <1>7
<1> QED BY <1>8 DEF u

\* A failed invocation, and a plan handed to the executor.
LEMMA AbortPlan ==
    ASSUME TypeOK, NEW r \in Requests, NEW code, NEW events, Abort(r, code, events)
    PROVE  PlanInv(r)'
<1>1. /\ pc'[r] = "done" /\ state'[r] = FreshState /\ run'[r] = FreshRun
      /\ reply'[r] = [NoReply EXCEPT !.kind = "error", !.code = code]
  BY AbortEffect
<1>2. reply'[r].kind = "error" /\ FreshState.results = <<>>
  BY <1>1 DEF NoReply, FreshState
<1> QED BY <1>1, <1>2 DEF PlanInv, Answered, WithPlan

LEMMA PlannedPlan ==
    ASSUME TypeOK, NEW r \in Requests, PlanInv(r), pc[r] \notin WithPlan,
           NEW update \in StateShape, Sound(update), update.results = state[r].results,
           NEW events, Planned(r, update, events)
    PROVE  PlanInv(r)'
<1>1. /\ pc'[r] = "execute_tools" /\ state'[r] = update
      /\ run'[r] = run[r] /\ reply'[r] = reply[r]
  BY PlannedEffect
<1>2. update.results = <<>> /\ run'[r] = FreshRun
  BY <1>1 DEF PlanInv
<1>3. run'[r].results = <<>> /\ run'[r].skipped = 0
  BY <1>2 DEF FreshRun
<1>4. Len(update.required) \in Nat
  BY DEF StateShape
<1>5. Follows(<<>>, update.required)
  BY DEF Follows
<1> QED BY <1>1, <1>2, <1>3, <1>4, <1>5 DEF PlanInv, Answered, WithPlan

LEMMA PlannerFailsPlan ==
    ASSUME TypeOK, NEW r \in Requests, PlanInv(r), pc[r] \notin WithPlan,
           NEW code \in PlannerCodes \cup {Unexpected}, NEW events,
           PlannerFails(r, code, events)
    PROVE  PlanInv(r)'
<1>1. CASE mode = "llm"
  BY <1>1, AbortPlan DEF PlannerFails
<1>2. CASE mode # "llm"
  <2> DEFINE update == RuleUpdate(state[r], code)
  <2>1. update \in StateShape
    BY RuleUpdateType DEF TypeOK
  <2>2. Sound(update) /\ update.results = state[r].results
    BY RuleUpdateSound, RuleUpdateFields DEF TypeOK
  <2>3. Planned(r, update, events \cup {"planner.failed"})
    BY <1>2 DEF PlannerFails
  <2> HIDE DEF update
  <2> QED BY <2>1, <2>2, <2>3, PlannedPlan
<1> QED BY <1>1, <1>2

LEMMA PlanStep ==
    ASSUME PipelineAssumption, TypeOK, NEW r \in Requests, PlanInv(r),
           Submit(r) \/ Serve(r)
    PROVE  PlanInv(r)'
<1>0. /\ state[r] \in StateShape
      /\ run[r].results \in Seq(Result) /\ run[r].skipped \in Nat
      /\ state[r].required \in Seq(ToolNames)
  BY DEF TypeOK, StateShape
<1>1. CASE Submit(r)
  <2>1. /\ pc[r] \in {"idle", "done"} /\ pc'[r] = "queued"
        /\ state' = state /\ run' = run /\ reply'[r] = NoReply
    BY <1>1 DEF Submit, Goto, TypeOK
  <2>2. reply'[r].kind = "none"
    BY <2>1 DEF NoReply
  <2> QED BY <2>1, <2>2 DEF PlanInv, Answered, WithPlan
<1>2. CASE Admit(r) \/ AskLLM(r)
  <2>1. /\ pc[r] \notin WithPlan /\ pc'[r] \in {"route_query", "awaiting_llm"}
        /\ state' = state /\ run' = run /\ reply' = reply
    BY <1>2 DEF Admit, AskLLM, Goto, TypeOK, WithPlan
  <2> QED BY <2>1 DEF PlanInv, Answered, WithPlan
<1>3. CASE RouteQuery(r)
  <2> DEFINE equipment == query[r].equipment \/ state[r].equipment
             alarm == query[r].alarm \/ state[r].alarm
  <2>1. /\ pc[r] = "route_query" /\ pc'[r] = "plan_actions"
        /\ run' = run /\ reply' = reply
        /\ state'[r] = [state[r] EXCEPT !.intent = IntentOf(query[r]),
                                        !.equipment = equipment, !.alarm = alarm]
    BY <1>3 DEF RouteQuery, Goto, TypeOK
  <2> HIDE DEF equipment, alarm
  <2>2. state'[r].results = state[r].results
    BY <1>0, <2>1 DEF StateShape
  <2> QED BY <2>1, <2>2 DEF PlanInv, Answered, WithPlan
<1>4. CASE PlanByRule(r)
  <2> DEFINE update == RuleUpdate(state[r], "none")
  <2>1. update \in StateShape
    BY <1>0, RuleUpdateType
  <2>2. Sound(update) /\ update.results = state[r].results
    BY <1>0, RuleUpdateSound, RuleUpdateFields
  <2>3. Planned(r, update, {"planner.started", "planner.completed"})
        /\ pc[r] \notin WithPlan
    BY <1>4 DEF PlanByRule, WithPlan
  <2> HIDE DEF update
  <2> QED BY <2>1, <2>2, <2>3, PlannedPlan
<1>5. CASE PlannerNotBuilt(r)
  BY <1>5, PlannerFailsPlan DEF PlannerNotBuilt, PlannerCodes, WithPlan
<1>6. CASE ProviderRaises(r)
  BY <1>6, PlannerFailsPlan DEF ProviderRaises, PlannerCodes, WithPlan
<1>7. CASE CompletionUnreadable(r)
  BY <1>7, PlannerFailsPlan DEF CompletionUnreadable, PlannerCodes, WithPlan
<1>8. CASE CompletionIsPlan(r)
  <2>1. PICK plan \in Plans :
          IF PlanDefect(plan.calls) = "none"
          THEN Planned(r, LLMUpdate(state[r], plan),
                       {"llm.completed", "planner.completed"})
          ELSE PlannerFails(r, PlanDefect(plan.calls), {"llm.completed"})
    BY <1>8 DEF CompletionIsPlan
  <2>2. plan \in PlanShape /\ plan.calls \in Seq(Call)
    BY DEF PipelineAssumption, PlanShape
  <2>3. pc[r] \notin WithPlan
    BY <1>8 DEF CompletionIsPlan, WithPlan
  <2>4. CASE PlanDefect(plan.calls) = "none"
    <3> DEFINE update == LLMUpdate(state[r], plan)
    <3>1. update \in StateShape
      BY <1>0, <2>2, <2>4, LLMUpdateType
    <3>2. Sound(update) /\ update.results = state[r].results
      BY <1>0, <2>2, <2>4, LLMUpdateSound, LLMUpdateFields
    <3>3. Planned(r, update, {"llm.completed", "planner.completed"})
      BY <2>1, <2>4
    <3> HIDE DEF update
    <3> QED BY <2>3, <3>1, <3>2, <3>3, PlannedPlan
  <2>5. CASE PlanDefect(plan.calls) # "none"
    <3>1. PlanDefect(plan.calls) \in PlannerCodes \cup {Unexpected}
      BY <2>2, <2>5, PlanDefectCases
    <3> QED BY <2>1, <2>3, <2>5, <3>1, PlannerFailsPlan
  <2> QED BY <2>4, <2>5
<1>9. CASE TakeCall(r)
  <2>1. /\ pc[r] = "execute_tools" /\ Cursor(r) <= Scheduled(state[r])
        /\ state' = state /\ reply' = reply
    BY <1>9 DEF TakeCall
  <2>2. Sound(state[r]) /\ run[r].skipped = 0
    BY <2>1 DEF PlanInv
  <2>3. Cursor(r) = Len(run[r].results) + 1 /\ Len(run[r].results) \in Nat
    BY <1>0, <2>2 DEF Cursor
  <2>4. Cursor(r) \in 1 .. Len(state[r].required)
    BY <1>0, <2>1, <2>2, <2>3 DEF Sound
  <2>5. Runnable(state[r], Cursor(r))
    BY <2>2, <2>4 DEF Sound
  <2>6. pc'[r] = "in_tool" /\ run' = run
    BY <1>9, <2>5 DEF TakeCall, Goto, TypeOK
  <2>7. Len(run[r].results) < Len(state[r].required)
    BY <1>0, <2>3, <2>4
  <2> QED BY <2>1, <2>6, <2>7 DEF PlanInv, Answered, WithPlan
<1>10. ASSUME NEW tool, NEW outcome, NEW events, tool \in ToolNames,
              outcome \in Outcomes, ToolReturns(r, tool, outcome, events)
       PROVE  PlanInv(r)'
  <2> DEFINE result == [tool |-> tool, outcome |-> outcome]
             done == run[r].results
  <2>1. /\ pc[r] = "in_tool" /\ pc'[r] = "execute_tools"
        /\ ToolAt(state[r], Cursor(r)) = tool /\ state' = state /\ reply' = reply
    BY <1>10 DEF ToolReturns, Goto, TypeOK
  <2>2. /\ Sound(state[r]) /\ run[r].skipped = 0 /\ state[r].results = <<>>
        /\ Len(done) < Len(state[r].required) /\ Follows(done, state[r].required)
    BY <2>1 DEF PlanInv
  <2>3. Cursor(r) = Len(done) + 1 /\ Len(done) \in Nat /\ Len(state[r].required) \in Nat
    BY <1>0, <2>2 DEF Cursor
  <2>4. Cursor(r) \in 1 .. Len(state[r].required)
    BY <2>2, <2>3
  <2>5. tool = state[r].required[Len(done) + 1]
    BY <2>1, <2>2, <2>3, <2>4 DEF Sound
  <2>6. /\ run'[r].results = Append(done, result)
        /\ run'[r].skipped = run[r].skipped
    BY <1>10 DEF ToolReturns, TypeOK
  <2>7. result \in Result /\ result.tool = tool
    BY <1>10 DEF Result
  <2> HIDE DEF result, done
  <2>8. done \in Seq(Result)
    BY <1>0 DEF done
  <2>9. Len(run'[r].results) = Len(done) + 1
    BY <2>6, <2>7, <2>8
  <2>10. Follows(run'[r].results, state[r].required)
    BY <2>2, <2>5, <2>6, <2>7, <2>8 DEF Follows
  <2>11. Len(run'[r].results) <= Len(state[r].required)
    BY <2>2, <2>3, <2>9
  <2> QED BY <2>1, <2>2, <2>6, <2>10, <2>11 DEF PlanInv, Answered, WithPlan
<1>11. CASE DeviceReturns(r) \/ AlarmReturns(r) \/ ManualReturns(r)
  BY <1>10, <1>11 DEF DeviceReturns, AlarmReturns, ManualReturns, ToolNames, Outcomes
<1>12. CASE ToolRaises(r) \/ CatalogFails(r)
  BY <1>12, AbortPlan DEF ToolRaises, CatalogFails
<1>13. CASE FinishTools(r)
  <2> DEFINE results == state[r].results \o run[r].results
             error == run[r].skipped > 0
  <2>1. /\ pc[r] = "execute_tools" /\ pc'[r] = "retrieve_context"
        /\ Cursor(r) > Scheduled(state[r]) /\ run' = run /\ reply' = reply
        /\ state'[r] = [state[r] EXCEPT !.results = results, !.error = error]
    BY <1>13 DEF FinishTools, Goto, TypeOK
  <2>2. /\ Sound(state[r]) /\ run[r].skipped = 0 /\ state[r].results = <<>>
        /\ Len(run[r].results) <= Len(state[r].required)
        /\ Follows(run[r].results, state[r].required)
    BY <2>1 DEF PlanInv
  <2>3. results = run[r].results /\ ~error
    BY <1>0, <2>2
  <2>4. Len(run[r].results) = Len(state[r].required)
    BY <1>0, <2>1, <2>2 DEF Cursor, Sound
  <2> HIDE DEF results, error
  <2>5. /\ state'[r].results = results /\ state'[r].error = error
        /\ state'[r].required = state[r].required
    BY <1>0, <2>1 DEF StateShape
  <2>6. ~state'[r].error
    BY <2>3, <2>5
  <2> QED BY <2>1, <2>2, <2>3, <2>4, <2>5, <2>6 DEF PlanInv, Answered, WithPlan
<1>14. ASSUME pc[r] \in {"retrieve_context", "synthesize"},
              pc'[r] \in {"synthesize", "respond"}, reply' = reply,
              state'[r].results = state[r].results, state'[r].error = state[r].error,
              state'[r].required = state[r].required
       PROVE  PlanInv(r)'
  BY <1>14 DEF PlanInv, Answered, WithPlan
<1>15. CASE RetrieveContext(r)
  <2>1. /\ pc[r] = "retrieve_context" /\ pc'[r] = "synthesize" /\ reply' = reply
        /\ state'[r] = [state[r] EXCEPT !.context = Cited(state[r].results)]
    BY <1>15 DEF RetrieveContext, Goto, TypeOK
  <2>2. /\ state'[r].results = state[r].results /\ state'[r].error = state[r].error
        /\ state'[r].required = state[r].required
    BY <1>0, <2>1 DEF StateShape
  <2> QED BY <1>14, <2>1, <2>2
<1>16. CASE Synthesize(r)
  <2> DEFINE evidence == IF state[r].context # {} THEN state[r].context
                         ELSE Cited(state[r].results)
             answer == [t \in ToolNames |-> SectionOf(state[r].results, t)]
  <2>1. /\ pc[r] = "synthesize" /\ pc'[r] = "respond" /\ reply' = reply
        /\ state'[r] = [state[r] EXCEPT !.evidence = evidence, !.answer = answer]
    BY <1>16 DEF Synthesize, Goto, TypeOK
  <2> HIDE DEF evidence, answer
  <2>2. /\ state'[r].results = state[r].results /\ state'[r].error = state[r].error
        /\ state'[r].required = state[r].required
    BY <1>0, <2>1 DEF StateShape
  <2> QED BY <1>14, <2>1, <2>2
<1>17. CASE Respond(r)
  <2>1. /\ pc[r] = "respond" /\ pc'[r] = "done"
        /\ state'[r] = FreshState /\ run'[r] = FreshRun
        /\ reply'[r].required = state[r].required
        /\ reply'[r].results = state[r].results
        /\ reply'[r].error = state[r].error
    BY <1>17 DEF Respond, Goto, TypeOK
  <2>2. FreshState.results = <<>>
    BY DEF FreshState
  <2>3. /\ ~state[r].error /\ Len(state[r].results) = Len(state[r].required)
        /\ Follows(state[r].results, state[r].required)
    BY <2>1 DEF PlanInv
  <2>4. ~reply'[r].error
    BY <2>1, <2>3
  <2> QED BY <2>1, <2>2, <2>3, <2>4 DEF PlanInv, Answered, WithPlan
<1> QED BY <1>1, <1>2, <1>3, <1>4, <1>5, <1>6, <1>7, <1>8, <1>9, <1>11, <1>12,
           <1>13, <1>15, <1>16, <1>17
        DEF Serve, Planning, Executing, Answering

LEMMA PlanInvariant == Spec => []PlanIInv
<1> USE PipelineAssumption
<1>1. Init => PlanIInv
  <2> SUFFICES ASSUME Init PROVE PlanIInv
    OBVIOUS
  <2>1. TypeOK
    BY InitialTypes
  <2>2. ASSUME NEW r \in Requests PROVE PlanInv(r)
    <3>1. /\ pc[r] = "idle" /\ reply[r] = NoReply
          /\ state[r] = FreshState /\ run[r] = FreshRun
      BY DEF Init
    <3>2. NoReply.kind = "none" /\ FreshState.results = <<>>
      BY DEF FreshState, NoReply
    <3> QED BY <3>1, <3>2 DEF PlanInv, Answered, WithPlan
  <2> QED BY <2>1, <2>2 DEF PlanIInv
<1>2. PlanIInv /\ [Next]_vars => PlanIInv'
  <2> SUFFICES ASSUME PlanIInv, [Next]_vars PROVE PlanIInv'
    OBVIOUS
  <2>1. TypeOK /\ \A s \in Requests : PlanInv(s)
    BY DEF PlanIInv
  <2>2. CASE UNCHANGED vars
    <3>1. TypeOK'
      BY <2>1, <2>2 DEF TypeOK, vars
    <3>2. ASSUME NEW s \in Requests PROVE PlanInv(s)'
      BY <2>1, <2>2 DEF PlanInv, Answered, vars
    <3> QED BY <3>1, <3>2 DEF PlanIInv
  <2>3. CASE Next
    <3>1. TypeOK'
      BY <2>1, <2>3, TypeStep
    <3>2. PICK r \in Requests : Submit(r) \/ Serve(r)
      BY <2>3 DEF Next
    <3>3. ASSUME NEW s \in Requests, s # r PROVE PlanInv(s)'
      <4>1. /\ pc'[s] = pc[s] /\ state'[s] = state[s]
            /\ run'[s] = run[s] /\ reply'[s] = reply[s]
        BY <2>1, <3>2, <3>3, Frame
      <4>2. PlanInv(s)
        BY <2>1
      <4> QED BY <4>1, <4>2 DEF PlanInv, Answered
    <3>4. PlanInv(r)'
      BY <2>1, <3>2, PlanStep
    <3> QED BY <3>1, <3>3, <3>4 DEF PlanIInv
  <2> QED BY <2>2, <2>3
<1> QED BY <1>1, <1>2, PTL DEF Spec, SafeSpec

\* An answered request ran its whole plan, in order and without an executor
\* error, for every plan an LLM may produce and every query.
THEOREM PlansAreRunWhole == Spec => []PlansRunWhole
<1>1. PlanIInv => PlansRunWhole
  <2> SUFFICES ASSUME PlanIInv, NEW r \in Requests, Answered(r)
               PROVE  /\ ~reply[r].error
                      /\ Len(reply[r].results) = Len(reply[r].required)
                      /\ \A i \in DOMAIN reply[r].results :
                            reply[r].results[i].tool = reply[r].required[i]
    BY DEF PlansRunWhole
  <2>1. DOMAIN reply[r].results = 1 .. Len(reply[r].results)
    BY DEF PlanIInv, TypeOK, ReplyShape
  <2> QED BY <2>1 DEF PlanIInv, PlanInv, Follows
<1> QED BY <1>1, PlanInvariant, PTL
=============================================================================
