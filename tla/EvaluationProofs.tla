-------------------------- MODULE EvaluationProofs --------------------------
(***************************************************************************)
(* Proofs about the evaluation harness, for every set of tools, dataset,   *)
(* plan and number of runs.                                                *)
(***************************************************************************)
EXTENDS Evaluation, FiniteSums, TLAPS

-----------------------------------------------------------------------------
(* Scoring one case                                                        *)

\* The two computations of evaluate_case agree on any case and observation,
\* out of domain or not, whatever the plan names.
LEMMA VerdictAgrees ==
    ASSUME NEW c \in Case, NEW o \in Observation
    PROVE  TaskSuccess(c, o) <=> FailuresOf(c, o) \subseteq {"execution_error"}
  <1> DEFINE F == FailuresOf(c, o)
  <1>1. /\ "planning_error" \in F <=> o.planning_error
        /\ "invalid_tool" \in F <=> invalid_tools(o.tools) # {}
        /\ "unexpected_tool_call_on_ood" \in F <=> c.ood /\ o.tools # <<>>
        /\ "intent_mismatch" \in F <=> ~c.ood /\ ~IntentCorrect(c, o)
        /\ "missing_tool" \in F
            <=> ~c.ood /\ missing_tools(c.tools, o.tools) # {}
        /\ "unnecessary_tool" \in F
            <=> ~c.ood /\ unnecessary_tools(c.tools, o.tools) # {}
        /\ "argument_mismatch" \in F
            <=> ~c.ood /\ Passed(c, o) # Checked(c, o)
    BY DEF FailuresOf, FailureTypes
  <1>2. F \subseteq FailureTypes
    BY DEF FailuresOf
  <1>3. F \subseteq {"execution_error"}
          <=> /\ "planning_error" \notin F /\ "invalid_tool" \notin F
              /\ "unexpected_tool_call_on_ood" \notin F
              /\ "intent_mismatch" \notin F /\ "missing_tool" \notin F
              /\ "unnecessary_tool" \notin F /\ "argument_mismatch" \notin F
    BY <1>2 DEF FailureTypes
  <1>4. ToSet(o.tools) = ToSet(c.tools)
          <=> /\ missing_tools(c.tools, o.tools) = {}
              /\ unnecessary_tools(c.tools, o.tools) = {}
    BY DEF missing_tools, unnecessary_tools
  <1>5. c.ood \in BOOLEAN /\ o.planning_error \in BOOLEAN
    BY DEF Case, Observation
  <1> QED
    BY <1>1, <1>3, <1>4, <1>5 DEF TaskSuccess

LEMMA OutcomeTyped ==
    ASSUME NEW c \in Case, NEW o \in Observation
    PROVE  evaluate_case(c, o) \in Outcome
  <1>1. TaskSuccess(c, o) \in BOOLEAN
    BY DEF TaskSuccess
  <1>2. FailuresOf(c, o) \in SUBSET FailureTypes
    BY DEF FailuresOf
  <1> QED
    BY <1>1, <1>2 DEF evaluate_case, Outcome

-----------------------------------------------------------------------------
(* Types                                                                   *)

\* Each runner's part.
RunsOK ==
    /\ run \in [Runners -> RunState]
    /\ \A r \in Runners : run[r].pc # "idle" => run[r].planner \in Planners

\* What waits to be written is a sequence for each program.
TodoOK ==
    /\ todo \in [Programs -> Seq(UNION {ToSet(todo[p]) : p \in Programs})]
    /\ \A p \in Programs : \A i \in DOMAIN todo[p] : todo[p][i].path \in Paths

OpenOK ==
    /\ opened \subseteq {p \in Programs : todo[p] # <<>>}
    /\ shared \subseteq opened /\ alone \subseteq Runners

\* What the other invariants rest on: TypeOK but for what the reports are.
IInv ==
    /\ dataset \in Datasets
    /\ runs \in 0..RunLimit /\ edits \in 0..EditLimit
    /\ RunsOK /\ TodoOK /\ OpenOK
    /\ DOMAIN files = Paths
    /\ rule = Absent \/ rule.status = "OK"

LEMMA PartsKept ==
    /\ RunsOK /\ UNCHANGED run => RunsOK'
    /\ TodoOK /\ UNCHANGED todo => TodoOK'
    /\ OpenOK /\ UNCHANGED <<todo, opened, shared, alone>> => OpenOK'
  <1>1. RunsOK /\ UNCHANGED run => RunsOK'
    BY DEF RunsOK
  <1>2. TodoOK /\ UNCHANGED todo => TodoOK'
    BY DEF TodoOK
  <1>3. OpenOK /\ UNCHANGED <<todo, opened, shared, alone>> => OpenOK'
    BY DEF OpenOK
  <1> QED
    BY <1>1, <1>2, <1>3

LEMMA ObservationsTyped ==
    ASSUME EvaluationAssumption, NEW c \in Case, NEW planner \in Planners,
           NEW execute \in BOOLEAN, NEW o \in Observations(c, planner, execute)
    PROVE  o \in Observation
  <1>1. CASE o = PlanningError
    <2>1. <<>> \in Seq(Names) /\ {} \in SUBSET Names
      OBVIOUS
    <2> QED
      BY <1>1, <2>1 DEF PlanningError, Observation
  <1>2. CASE o # PlanningError
    <2>1. PICK plan \in Plans[planner] :
            \E d \in SUBSET (c.declared \cap ToSet(plan.tools)),
               u \in PlannerUsed(planner), e \in {FALSE, execute} :
                o = [intent |-> plan.intent, tools |-> plan.tools,
                     deviating |-> d, planner_used |-> u,
                     planning_error |-> FALSE, executed |-> execute,
                     execution_errors |-> e]
      BY <1>2 DEF Observations
    <2>2. plan.intent \in Intents /\ plan.tools \in Seq(Tools)
      BY DEF EvaluationAssumption
    <2>3. plan.tools \in Seq(Names)
      BY <2>2 DEF EvaluationAssumption
    <2>4. c.declared \subseteq Names
      BY DEF Case
    <2>5. PlannerUsed(planner) \subseteq {"rule", "llm", None}
      BY DEF PlannerUsed, Planners
    <2>6. PICK d \in SUBSET (c.declared \cap ToSet(plan.tools)),
               u \in PlannerUsed(planner), e \in {FALSE, execute} :
                o = [intent |-> plan.intent, tools |-> plan.tools,
                     deviating |-> d, planner_used |-> u,
                     planning_error |-> FALSE, executed |-> execute,
                     execution_errors |-> e]
      BY <2>1
    <2>7. d \in SUBSET Names /\ u \in {"rule", "llm", None} /\ e \in BOOLEAN
      BY <2>4, <2>5, <2>6
    <2> QED
      BY <2>2, <2>3, <2>6, <2>7 DEF Observation
  <1> QED
    BY <1>1, <1>2

LEMMA CasesTyped ==
    ASSUME EvaluationAssumption, NEW d \in Datasets \cup {<<>>}
    PROVE  d \in Seq(Case)
  <1>1. <<>> \in Seq(Case)
    OBVIOUS
  <1> QED
    BY <1>1 DEF EvaluationAssumption

\* What a run has become after its next case.
After(r, o) ==
    [run[r] EXCEPT
        !.pc = "cases",
        !.outcomes = Append(run[r].outcomes, evaluate_case(NextCase(r), o))]

\* A case is run: the next one, on an observation, and its outcome is added.
LEMMA CaseIsAdded ==
    ASSUME EvaluationAssumption, IInv, NEW r \in Runners, RunCase(r)
    PROVE  /\ run[r].planner \in Planners /\ run[r].execute \in BOOLEAN
           /\ NextCase(r) \in Case
           /\ \E o \in Observations(NextCase(r), run[r].planner, run[r].execute) :
                o \in Observation /\ run' = [run EXCEPT ![r] = After(r, o)]
  <1>1. /\ run \in [Runners -> RunState] /\ run[r] \in RunState
        /\ run[r].planner \in Planners /\ run[r].execute \in BOOLEAN
        /\ run[r].cases \in Seq(Case) /\ Len(run[r].outcomes) \in Nat
    BY CasesTyped DEF IInv, RunsOK, RunCase, HasCase, RunState
  <1>2. NextCase(r) \in Case
    <2>1. Len(run[r].outcomes) + 1 \in 1..Len(run[r].cases)
      BY <1>1 DEF RunCase, HasCase
    <2> QED
      BY <1>1, <2>1 DEF NextCase
  <1>3. PICK o \in Observations(NextCase(r), run[r].planner, run[r].execute) :
            run' = [run EXCEPT
                ![r].pc = "cases",
                ![r].outcomes = Append(@, evaluate_case(NextCase(r), o))]
    BY DEF RunCase
  <1>4. o \in Observation
    BY <1>1, <1>2, ObservationsTyped
  <1>5. run' = [run EXCEPT ![r] = After(r, o)]
    <2> DEFINE e == evaluate_case(NextCase(r), o)
    <2> HIDE DEF e
    <2>1. run' = [run EXCEPT ![r] = [run[r] EXCEPT
                    !.pc = "cases", !.outcomes = Append(run[r].outcomes, e)]]
      BY <1>1, <1>3 DEF e
    <2> QED
      BY <2>1 DEF After, e
  <1> QED
    BY <1>1, <1>2, <1>4, <1>5

LEMMA StateAdvanced ==
    ASSUME NEW state \in RunState, NEW outcomes \in Seq(Outcome)
    PROVE  LET next == [state EXCEPT !.pc = "cases", !.outcomes = outcomes]
           IN  /\ next \in RunState /\ next.outcomes = outcomes
               /\ next.cases = state.cases /\ next.planner = state.planner
    BY DEF RunState

LEMMA AfterTyped ==
    ASSUME EvaluationAssumption, IInv, NEW r \in Runners,
           run[r].planner \in Planners, NextCase(r) \in Case,
           NEW o \in Observation
    PROVE  /\ After(r, o) \in RunState
           /\ After(r, o).outcomes
                = Append(run[r].outcomes, evaluate_case(NextCase(r), o))
           /\ After(r, o).cases = run[r].cases
           /\ After(r, o).planner = run[r].planner
           /\ evaluate_case(NextCase(r), o) \in Outcome
           /\ run[r].outcomes \in Seq(Outcome)
  <1>1. evaluate_case(NextCase(r), o) \in Outcome
    BY OutcomeTyped
  <1>2. run[r] \in RunState
    BY DEF IInv, RunsOK
  <1>3. run[r].outcomes \in Seq(Outcome)
    BY <1>2 DEF RunState
  <1>4. Append(run[r].outcomes, evaluate_case(NextCase(r), o)) \in Seq(Outcome)
    BY <1>1, <1>3
  <1> QED
    BY <1>1, <1>2, <1>3, <1>4, StateAdvanced DEF After

\* A queue of entries for the reports directory may replace that of one program.
LEMMA QueueReplaced ==
    ASSUME TodoOK, NEW p \in Programs, NEW S, NEW s \in Seq(S),
           \A x \in S : x.path \in Paths,
           todo' = [todo EXCEPT ![p] = s]
    PROVE  TodoOK'
  <1> DEFINE R == UNION {ToSet(todo[q]) : q \in Programs}
             T == UNION {ToSet(todo'[q]) : q \in Programs}
  <1>1. todo' \in [Programs -> Seq(R \cup S)]
    <2>1. todo \in [Programs -> Seq(R)]
      BY DEF TodoOK
    <2>2. Seq(R) \subseteq Seq(R \cup S) /\ s \in Seq(R \cup S)
      OBVIOUS
    <2> QED
      BY <2>1, <2>2
  <1>2. ASSUME NEW q \in Programs
        PROVE  todo'[q] \in Seq(T)
    <2>1. \A i \in DOMAIN todo'[q] : todo'[q][i] \in ToSet(todo'[q])
      BY DEF ToSet
    <2>2. ToSet(todo'[q]) \subseteq T
      BY <1>2
    <2>3. todo'[q] \in Seq(R \cup S)
      BY <1>1, <1>2
    <2> HIDE DEF T
    <2>4. \A i \in 1..Len(todo'[q]) : todo'[q][i] \in T
      BY <2>1, <2>2, <2>3
    <2> QED
      BY <2>3, <2>4
  <1>3. todo' \in [Programs -> Seq(T)]
    BY <1>1, <1>2
  <1>4. ASSUME NEW q \in Programs, NEW i \in DOMAIN todo'[q]
        PROVE  todo'[q][i].path \in Paths
    <2>1. CASE q = p
      <3>1. todo'[q] = s
        BY <2>1 DEF TodoOK
      <3> QED
        BY <3>1, <1>4
    <2>2. CASE q # p
      <3>1. todo'[q] = todo[q]
        BY <2>2 DEF TodoOK
      <3> QED
        BY <3>1, <1>4 DEF TodoOK
    <2> QED
      BY <2>1, <2>2
  <1> QED
    BY <1>3, <1>4 DEF TodoOK

LEMMA EmptyQueueReplaces ==
    ASSUME TodoOK, NEW p \in Programs, todo' = [todo EXCEPT ![p] = <<>>]
    PROVE  TodoOK'
  <1> DEFINE S == {}
  <1>1. <<>> \in Seq(S)
    OBVIOUS
  <1>2. \A x \in S : x.path \in Paths
    OBVIOUS
  <1> HIDE DEF S
  <1> QED
    BY <1>1, <1>2, QueueReplaced, Zenon

LEMMA OneReplaces ==
    ASSUME TodoOK, NEW p \in Programs, NEW x, x.path \in Paths,
           todo' = [todo EXCEPT ![p] = <<x>>]
    PROVE  TodoOK'
  <1> DEFINE S == {x}
  <1>1. <<x>> \in Seq(S)
    OBVIOUS
  <1>2. \A y \in S : y.path \in Paths
    OBVIOUS
  <1> HIDE DEF S
  <1> QED
    BY <1>1, <1>2, QueueReplaced, Zenon

\* Who gets a report to write, or more, may have had a file open.
LEMMA OpenStays ==
    ASSUME IInv, NEW p \in Programs, NEW s, s # <<>>,
           todo' = [todo EXCEPT ![p] = s], UNCHANGED <<opened, shared>>,
           alone' \subseteq Runners
    PROVE  OpenOK'
  <1>1. \A q \in Programs : todo'[q] = todo[q] \/ todo'[q] = s
    BY DEF IInv, TodoOK
  <1> QED
    BY <1>1 DEF IInv, OpenOK

\* One runner's state is replaced.
LEMMA RunReplaced ==
    ASSUME RunsOK, NEW r \in Runners, NEW state \in RunState,
           state.pc # "idle" => state.planner \in Planners,
           run' = [run EXCEPT ![r] = state]
    PROVE  RunsOK'
  <1>1. run' \in [Runners -> RunState]
    BY DEF RunsOK
  <1>2. \A q \in Runners : run'[q] = run[q] \/ run'[q] = state
    BY DEF RunsOK
  <1> QED
    BY <1>1, <1>2 DEF RunsOK

LEMMA IdleTyped == Idle \in RunState /\ Idle.pc = "idle"
  <1>1. <<>> \in Seq(Outcome)
    OBVIOUS
  <1> QED
    BY <1>1 DEF Idle, RunState

LEMMA LoadTyped ==
    ASSUME EvaluationAssumption, IInv, NEW r \in Runners,
           NEW option \in Options, Load(r, option[1], option[2])
    PROVE  IInv'
  <1>1. option[1] \in Planners /\ option[2] \in BOOLEAN
    BY DEF EvaluationAssumption
  <1> DEFINE state == [Idle EXCEPT !.pc = "loaded", !.planner = option[1],
                                   !.execute = option[2], !.cases = dataset]
  <1>2. state \in RunState /\ state.planner = option[1]
    <2>1. <<>> \in Seq(Outcome) /\ dataset \in Datasets
      BY DEF IInv
    <2> QED
      BY <1>1, <2>1 DEF Idle, RunState
  <1>3. RunsOK'
    <2>1. run' = [run EXCEPT ![r] = state] /\ RunsOK
      BY DEF Load, IInv
    <2> HIDE DEF state
    <2> QED
      BY <1>1, <1>2, <2>1, RunReplaced
  <1>4. runs' \in 0..RunLimit
    BY DEF Load, IInv, EvaluationAssumption
  <1>5. UNCHANGED <<dataset, files, todo, opened, shared, alone, rule, edits>>
    BY DEF Load
  <1> QED
    BY <1>3, <1>4, <1>5, PartsKept DEF IInv

LEMMA RunCaseTyped ==
    ASSUME EvaluationAssumption, IInv, NEW r \in Runners, RunCase(r)
    PROVE  IInv'
  <1>1. PICK o \in Observation : run' = [run EXCEPT ![r] = After(r, o)]
    BY CaseIsAdded
  <1>2. RunsOK'
    <2>1. /\ After(r, o) \in RunState /\ run[r].planner \in Planners
          /\ After(r, o).planner = run[r].planner
      BY CaseIsAdded, AfterTyped
    <2>2. RunsOK
      BY DEF IInv
    <2> QED
      BY <1>1, <2>1, <2>2, RunReplaced
  <1>3. UNCHANGED <<dataset, files, todo, opened, shared, alone, rule, runs, edits>>
    BY DEF RunCase
  <1> QED
    BY <1>2, <1>3, PartsKept DEF IInv

LEMMA WritesTyped ==
    ASSUME EvaluationAssumption, IInv, NEW p \in Programs,
           Truncate(p) \/ Fill(p) \/ Mix(p) \/ Kill(p)
    PROVE  IInv'
  <1>1. TodoOK /\ OpenOK
    BY DEF IInv
  <1>2. TodoOK'
    <2>1. CASE UNCHANGED todo
      BY <1>1, <2>1 DEF TodoOK
    <2>2. CASE Fill(p)
      <3> DEFINE S == {x \in UNION {ToSet(todo[q]) : q \in Programs} :
                        x.path \in Paths}
      <3>1. todo[p] \in Seq(S) /\ todo[p] # <<>>
        <4> DEFINE U == UNION {ToSet(todo[q]) : q \in Programs}
        <4>1. todo[p] \in Seq(U)
          BY <1>1 DEF TodoOK
        <4>2. \A i \in 1..Len(todo[p]) : todo[p][i] \in S
          <5>1. DOMAIN todo[p] = 1..Len(todo[p])
            BY <4>1
          <5>2. \A i \in DOMAIN todo[p] : todo[p][i] \in U
            BY DEF ToSet
          <5> QED
            BY <1>1, <5>1, <5>2 DEF TodoOK
        <4>3. todo[p] # <<>>
          BY <1>1, <2>2 DEF Fill, OpenOK
        <4> HIDE DEF S, U
        <4> QED
          BY <4>1, <4>2, <4>3
      <3>2. Tail(todo[p]) \in Seq(S)
        <4> HIDE DEF S
        <4> QED
          BY <3>1
      <3>3. todo' = [todo EXCEPT ![p] = Tail(todo[p])]
        BY <2>2, <1>1 DEF Fill, TodoOK
      <3>4. \A x \in S : x.path \in Paths
        OBVIOUS
      <3> HIDE DEF S
      <3> QED
        BY <1>1, <3>2, <3>3, <3>4, QueueReplaced, Zenon
    <2>3. CASE Kill(p)
      BY <1>1, <2>3, EmptyQueueReplaces DEF Kill
    <2> QED
      BY <2>1, <2>2, <2>3 DEF Truncate, Mix
  <1>3. DOMAIN files' = Paths
    <2>1. DOMAIN files = Paths
      BY DEF IInv
    <2>2. \A path, report : DOMAIN [files EXCEPT ![path] = report] = Paths
      BY <2>1
    <2> QED
      BY <2>1, <2>2 DEF Truncate, Fill, Mix, Kill
  <1>4. OpenOK'
    <2>1. \A q \in Programs \ {p} : todo'[q] = todo[q]
      BY <1>1 DEF Truncate, Fill, Mix, Kill, TodoOK
    <2>2. CASE Truncate(p)
      <3>1. todo' = todo /\ todo[p] # <<>> /\ opened' = opened \cup {p}
        BY <2>2 DEF Truncate
      <3>2. shared' \subseteq opened'
        BY <1>1, <2>2 DEF Truncate, Sharers, OpenOK
      <3> QED
        BY <1>1, <2>2, <3>1, <3>2 DEF OpenOK, Truncate
    <2>3. CASE Fill(p) \/ Kill(p)
      BY <1>1, <2>1, <2>3 DEF Fill, Kill, OpenOK
    <2>4. CASE Mix(p)
      BY <1>1, <2>4 DEF Mix, OpenOK
    <2> QED
      BY <2>2, <2>3, <2>4
  <1>5. UNCHANGED <<dataset, run, rule, runs, edits>>
    BY DEF Truncate, Fill, Mix, Kill
  <1> QED
    BY <1>2, <1>3, <1>4, <1>5, PartsKept DEF IInv

LEMMA DeliverTyped ==
    ASSUME IInv, NEW r \in Runners, NEW writes, writes # <<>>,
           Deliver(r, writes), TodoOK'
    PROVE  IInv'
  <1>1. RunsOK'
    <2>1. RunsOK /\ run' = [run EXCEPT ![r] = Idle]
      BY DEF IInv, Deliver
    <2> QED
      BY <2>1, IdleTyped, RunReplaced
  <1>2. OpenOK'
    <2>1. alone' \subseteq Runners
      BY DEF Deliver, IInv, OpenOK
    <2>2. todo' = [todo EXCEPT ![r] = writes] /\ UNCHANGED <<opened, shared>>
      BY DEF Deliver
    <2> QED
      BY <2>1, <2>2, OpenStays DEF Programs
  <1>3. UNCHANGED <<dataset, files, rule, runs, edits>>
    BY DEF Deliver
  <1> QED
    BY <1>1, <1>2, <1>3 DEF IInv

LEMMA GateTyped ==
    ASSUME EvaluationAssumption, IInv, NEW r \in Runners, Gate(r)
    PROVE  IInv'
  <1> DEFINE w == Write(r, "evaluation_status", GateReport(run[r], dataset))
  <1>1. w.path \in Paths
    BY DEF Write, Paths, Gate, IInv, RunsOK
  <1>2. Deliver(r, <<w>>) /\ TodoOK /\ r \in Programs
    BY DEF Gate, IInv, Programs
  <1>3. TodoOK'
    <2>1. todo' = [todo EXCEPT ![r] = <<w>>]
      BY <1>2 DEF Deliver
    <2> HIDE DEF w
    <2> QED
      BY <1>1, <1>2, <2>1, OneReplaces
  <1>4. <<w>> # <<>>
    OBVIOUS
  <1> HIDE DEF w
  <1> QED
    BY <1>2, <1>3, <1>4, DeliverTyped

LEMMA BuildReportsTyped ==
    ASSUME EvaluationAssumption, IInv, NEW r \in Runners, BuildReports(r)
    PROVE  IInv'
  <1> DEFINE w1 == Write(r, "baseline", EvaluationReport(run[r], dataset))
             w2 == Write(r, "failures", FailureReport(run[r], dataset))
             S == {w1, w2}
  <1>1. run[r].planner \in Planners
    BY DEF BuildReports, IInv, RunsOK
  <1>2. w1.path \in Paths /\ w2.path \in Paths
    BY <1>1 DEF Write, Paths
  <1>3. <<w1, w2>> \in Seq(S) /\ <<w1, w2>> # <<>>
    <2> HIDE DEF w1, w2
    <2> QED
      OBVIOUS
  <1>4. \A x \in S : x.path \in Paths
    BY <1>2
  <1>5. Deliver(r, <<w1, w2>>) /\ TodoOK /\ r \in Programs
    BY DEF BuildReports, IInv, Programs
  <1>6. TodoOK'
    <2>1. todo' = [todo EXCEPT ![r] = <<w1, w2>>]
      BY <1>5 DEF Deliver
    <2> HIDE DEF S, w1, w2
    <2> QED
      BY <1>3, <1>4, <1>5, <2>1, QueueReplaced, Zenon
  <1> HIDE DEF S, w1, w2
  <1> QED
    BY <1>3, <1>5, <1>6, DeliverTyped

\* The comparison's one write, whatever it is.
LEMMA ComparisonTyped ==
    ASSUME IInv, NEW x, x.path \in Paths,
           todo' = [todo EXCEPT !["comparison"] = <<x>>],
           UNCHANGED <<opened, shared, alone>>
    PROVE  TodoOK' /\ OpenOK'
  <1>1. TodoOK /\ "comparison" \in Programs /\ alone' \subseteq Runners
    BY DEF IInv, Programs, OpenOK
  <1>2. <<x>> # <<>>
    OBVIOUS
  <1> QED
    BY <1>1, <1>2, OneReplaces, OpenStays

LEMMA RefuseTyped ==
    ASSUME IInv, NEW status, Refuse(status), UNCHANGED <<opened, shared, alone>>
    PROVE  TodoOK' /\ OpenOK' /\ rule' = Absent
  <1> DEFINE x == [path |-> <<"planner", "comparison_status">>,
                   report |-> Refusal(status)]
  <1>1. x.path \in Paths
    BY DEF Paths
  <1>2. todo' = [todo EXCEPT !["comparison"] = <<x>>] /\ rule' = Absent
    BY DEF Refuse
  <1> HIDE DEF x
  <1> QED
    BY <1>1, <1>2, ComparisonTyped

LEMMA ReadRuleTyped ==
    ASSUME EvaluationAssumption, IInv, ReadRule
    PROVE  IInv'
  <1> DEFINE found == files[<<"rule", "baseline">>]
  <1>1. UNCHANGED <<dataset, files, opened, shared, run, alone, edits>>
    BY DEF ReadRule
  <1>2. TodoOK' /\ OpenOK' /\ (rule' = Absent \/ rule'.status = "OK")
    <2>1. CASE Readable(found) /\ rule' = found /\ UNCHANGED todo
      BY <1>1, <2>1 DEF Readable, IInv, TodoOK, OpenOK
    <2>2. CASE Refuse("INPUT_UNREADABLE")
      BY <1>1, <2>2, RefuseTyped
    <2> QED
      BY <2>1, <2>2 DEF ReadRule
  <1>3. runs' \in 0..RunLimit
    BY DEF ReadRule, IInv, EvaluationAssumption
  <1> QED
    BY <1>1, <1>2, <1>3, PartsKept DEF IInv

LEMMA ReadLLMTyped ==
    ASSUME EvaluationAssumption, IInv, ReadLLM
    PROVE  IInv'
  <1> DEFINE found == files[<<"llm", "baseline">>]
             x == [path |-> <<"planner", "comparison">>,
                   report |-> ComparisonReport(rule, found)]
  <1>1. UNCHANGED <<dataset, files, opened, shared, run, alone, runs, edits>>
    BY DEF ReadLLM
  <1>2. TodoOK' /\ OpenOK' /\ rule' = Absent
    <2>1. CASE Refuse("LLM_EVALUATION_NOT_RUN") \/ Refuse("DATASET_MISMATCH")
      BY <1>1, <2>1, RefuseTyped
    <2>2. CASE todo' = [todo EXCEPT !["comparison"] = <<x>>] /\ rule' = Absent
      <3>1. x.path \in Paths
        BY DEF Paths
      <3> HIDE DEF x
      <3> QED
        BY <1>1, <2>2, <3>1, ComparisonTyped
    <2> QED
      BY <2>1, <2>2 DEF ReadLLM
  <1> QED
    BY <1>1, <1>2, PartsKept DEF IInv

LEMMA InitTyped ==
    ASSUME EvaluationAssumption, Init
    PROVE  IInv
  <1>1. TodoOK
    <2>1. <<>> \in Seq(UNION {ToSet(todo[p]) : p \in Programs})
      OBVIOUS
    <2>2. DOMAIN <<>> = {}
      OBVIOUS
    <2> QED
      BY <2>1, <2>2 DEF Init, TodoOK
  <1>2. RunsOK
    BY IdleTyped DEF Init, RunsOK
  <1> QED
    BY <1>1, <1>2 DEF Init, IInv, OpenOK, EvaluationAssumption

LEMMA NextTyped ==
    ASSUME EvaluationAssumption, IInv, [Next]_vars
    PROVE  IInv'
  <1>1. CASE EditDataset
    <2>1. edits' \in 0..EditLimit
      BY <1>1 DEF EditDataset, IInv, EvaluationAssumption
    <2> QED
      BY <1>1, <2>1, PartsKept DEF EditDataset, IInv
  <1>2. ASSUME NEW r \in Runners, CaseRaises(r)
        PROVE  IInv'
    <2>1. RunsOK'
      <3>1. RunsOK /\ run' = [run EXCEPT ![r] = Idle]
        BY <1>2 DEF IInv, CaseRaises
      <3> QED
        BY <3>1, IdleTyped, RunReplaced
    <2> QED
      BY <1>2, <2>1, PartsKept DEF CaseRaises, IInv
  <1>3. CASE UNCHANGED vars
    BY <1>3, PartsKept DEF vars, IInv
  <1> QED
    BY <1>1, <1>2, <1>3, WritesTyped, LoadTyped, GateTyped, RunCaseTyped,
       BuildReportsTyped, ReadRuleTyped, ReadLLMTyped DEF Next

-----------------------------------------------------------------------------
(* Success and failures                                                    *)

LEMMA VerdictsStay ==
    ASSUME EvaluationAssumption, IInv, SuccessMeansNoFailure, [Next]_vars
    PROVE  SuccessMeansNoFailure'
  <1> DEFINE True(outcomes) ==
        \A i \in DOMAIN outcomes :
            outcomes[i].task_success
                <=> outcomes[i].failure_types \subseteq {"execution_error"}
  <1>1. ASSUME NEW r \in Runners, RunCase(r)
        PROVE  \A q \in Runners : True(run'[q].outcomes)
    <2> DEFINE c == NextCase(r)
    <2>1. PICK o \in Observation : run' = [run EXCEPT ![r] = After(r, o)]
      BY <1>1, CaseIsAdded
    <2>2. c \in Case /\ run[r].outcomes \in Seq(Outcome)
            /\ evaluate_case(c, o) \in Outcome
            /\ After(r, o).outcomes = Append(run[r].outcomes, evaluate_case(c, o))
      BY <1>1, CaseIsAdded, AfterTyped
    <2>3. TaskSuccess(c, o) <=> FailuresOf(c, o) \subseteq {"execution_error"}
      BY <2>2, VerdictAgrees
    <2>4. True(Append(run[r].outcomes, evaluate_case(c, o)))
      <3> DEFINE e == evaluate_case(c, o)
      <3>1. e.task_success <=> e.failure_types \subseteq {"execution_error"}
        BY <2>3 DEF evaluate_case
      <3> HIDE DEF e
      <3>2. \A i \in DOMAIN Append(run[r].outcomes, e) :
              \/ Append(run[r].outcomes, e)[i] = e
              \/ /\ i \in DOMAIN run[r].outcomes
                 /\ Append(run[r].outcomes, e)[i] = run[r].outcomes[i]
        BY <2>2 DEF e
      <3> QED
        BY <3>1, <3>2 DEF SuccessMeansNoFailure, e
    <2>5. \A q \in Runners :
            run'[q].outcomes \in {run[q].outcomes,
                                  Append(run[r].outcomes, evaluate_case(c, o))}
      BY <2>1, <2>2 DEF IInv, RunsOK
    <2> QED
      BY <2>4, <2>5 DEF SuccessMeansNoFailure
  <1>2. ASSUME \A q \in Runners : \/ run'[q].outcomes = run[q].outcomes
                                  \/ run'[q].outcomes = <<>>
        PROVE  SuccessMeansNoFailure'
    <2>1. DOMAIN <<>> = {}
      OBVIOUS
    <2> QED
      BY <1>2, <2>1 DEF SuccessMeansNoFailure
  <1>3. \/ \E r \in Runners : RunCase(r)
        \/ \A q \in Runners : \/ run'[q].outcomes = run[q].outcomes
                              \/ run'[q].outcomes = <<>>
    <2>1. CASE EditDataset \/ ReadRule \/ ReadLLM \/ UNCHANGED vars
      BY <2>1 DEF EditDataset, ReadRule, ReadLLM, vars
    <2>2. CASE \E p \in Programs : Truncate(p) \/ Fill(p) \/ Mix(p) \/ Kill(p)
      BY <2>2 DEF Truncate, Fill, Mix, Kill
    <2>3. ASSUME NEW r \in Runners, NEW state, state.outcomes = <<>>,
                 run' = [run EXCEPT ![r] = state]
          PROVE  \A q \in Runners : \/ run'[q].outcomes = run[q].outcomes
                                    \/ run'[q].outcomes = <<>>
      BY <2>3 DEF IInv, RunsOK
    <2>4. ASSUME NEW r \in Runners, NEW option \in Options,
                 Load(r, option[1], option[2])
          PROVE  \A q \in Runners : \/ run'[q].outcomes = run[q].outcomes
                                    \/ run'[q].outcomes = <<>>
      <3> DEFINE state == [Idle EXCEPT
                    !.pc = "loaded", !.planner = option[1],
                    !.execute = option[2], !.cases = dataset]
      <3>1. state.outcomes = <<>> /\ run' = [run EXCEPT ![r] = state]
        BY <2>4 DEF Load, Idle
      <3> HIDE DEF state
      <3> QED
        BY <3>1, <2>3
    <2>5. ASSUME NEW r \in Runners, Gate(r) \/ CaseRaises(r) \/ BuildReports(r)
          PROVE  \A q \in Runners : \/ run'[q].outcomes = run[q].outcomes
                                    \/ run'[q].outcomes = <<>>
      <3>1. Idle.outcomes = <<>> /\ run' = [run EXCEPT ![r] = Idle]
        BY <2>5 DEF Gate, CaseRaises, BuildReports, Deliver, Idle
      <3> QED
        BY <3>1, <2>3
    <2> QED
      BY <2>1, <2>2, <2>4, <2>5 DEF Next
  <1> QED
    BY <1>1, <1>2, <1>3 DEF SuccessMeansNoFailure

\* In every run, for every answer key and every plan, a case counts as a
\* success exactly when the failure report holds nothing against its plan.
THEOREM SuccessIsFailureFree ==
    ASSUME EvaluationAssumption
    PROVE  Spec => []SuccessMeansNoFailure
  <1>1. Init => IInv /\ SuccessMeansNoFailure
    <2>1. DOMAIN <<>> = {}
      OBVIOUS
    <2> QED
      BY <2>1, InitTyped DEF Init, Idle, SuccessMeansNoFailure
  <1>2. IInv /\ SuccessMeansNoFailure /\ [Next]_vars
            => (IInv /\ SuccessMeansNoFailure)'
    BY NextTyped, VerdictsStay
  <1> QED
    BY <1>1, <1>2, PTL DEF Spec

-----------------------------------------------------------------------------
(* Counting                                                                *)

LEMMA CountsAre ==
    ASSUME NEW outcomes
    PROVE  LET D == DOMAIN outcomes
               n == Counts(outcomes)
               x(i) == outcomes[i]
           IN  /\ n.total = Len(outcomes)
               /\ n.ood = Cardinality({i \in D : x(i).case.ood})
               /\ n.intent_correct = Cardinality({i \in D :
                    ~x(i).case.ood /\ IntentCorrect(x(i).case, x(i).seen)})
               /\ n.exact = Cardinality({i \in D :
                    ToSet(x(i).case.tools) = ToSet(x(i).seen.tools)})
               /\ n.success = Cardinality({i \in D : x(i).task_success})
               /\ n.planner_failures = Cardinality({i \in D : x(i).seen.planning_error})
               /\ n.execution_errors = Cardinality({i \in D : x(i).seen.execution_errors})
               /\ n.executed = Cardinality({i \in D : x(i).seen.executed})
               /\ n.expected = SumFunctionOnSet([i \in D |-> Len(x(i).case.tools)], D)
               /\ n.selected = SumFunctionOnSet([i \in D |-> Len(x(i).seen.tools)], D)
               /\ n.true_positive = SumFunctionOnSet([i \in D |->
                    Cardinality(true_positives(x(i).case.tools, x(i).seen.tools))], D)
               /\ n.false_positive = SumFunctionOnSet([i \in D |->
                    Cardinality(unnecessary_tools(x(i).case.tools, x(i).seen.tools))], D)
               /\ n.false_negative = SumFunctionOnSet([i \in D |->
                    Cardinality(missing_tools(x(i).case.tools, x(i).seen.tools))], D)
               /\ n.invalid = SumFunctionOnSet([i \in D |->
                    Cardinality(invalid_tools(x(i).seen.tools))], D)
               /\ n.checks = SumFunctionOnSet([i \in D |->
                    Cardinality(Checked(x(i).case, x(i).seen))], D)
               /\ n.passed = SumFunctionOnSet([i \in D |->
                    Cardinality(Passed(x(i).case, x(i).seen))], D)
    BY DEF Counts, CountOf, Total

\* The tools a list names are no more than its entries.
LEMMA SetOfList ==
    ASSUME NEW S, NEW s \in Seq(S)
    PROVE  /\ IsFiniteSet(ToSet(s)) /\ Len(s) \in Nat
           /\ Cardinality(ToSet(s)) <= Len(s)
           /\ ToSet(s) = {} <=> Len(s) = 0
  <1>1. DOMAIN s = 1..Len(s) /\ Len(s) \in Nat
    OBVIOUS
  <1>2. s \in Surjection(1..Len(s), ToSet(s))
    <2>1. s \in [1..Len(s) -> ToSet(s)]
      BY <1>1 DEF ToSet
    <2> QED
      BY <1>1, <2>1 DEF Surjection, ToSet
  <1>3. IsFiniteSet(1..Len(s)) /\ Cardinality(1..Len(s)) = Len(s)
    BY <1>1, FS_Interval
  <1>4. IsFiniteSet(ToSet(s)) /\ Cardinality(ToSet(s)) <= Len(s)
    BY <1>2, <1>3, FS_Surjection
  <1>5. ToSet(s) = {} <=> Len(s) = 0
    <2>1. Len(s) # 0 => 1 \in DOMAIN s
      BY <1>1
    <2>2. Len(s) = 0 => DOMAIN s = {}
      BY <1>1
    <2> QED
      BY <2>1, <2>2 DEF ToSet
  <1> QED
    BY <1>1, <1>4, <1>5

LEMMA PartOfFinite ==
    ASSUME NEW S, IsFiniteSet(S), NEW T, T \subseteq S
    PROVE  /\ Cardinality(T) \in Nat /\ Cardinality(T) <= Cardinality(S)
           /\ Cardinality(T) = 0 <=> T = {}
    BY FS_Subset, FS_CardinalityType, FS_EmptySet

\* What one case adds to the sums.
LEMMA Sizes ==
    ASSUME NEW c \in Case, NEW o \in Observation
    PROVE  LET tp == Cardinality(true_positives(c.tools, o.tools))
               fp == Cardinality(unnecessary_tools(c.tools, o.tools))
               fn == Cardinality(missing_tools(c.tools, o.tools))
               invalid == Cardinality(invalid_tools(o.tools))
               checks == Cardinality(Checked(c, o))
               passed == Cardinality(Passed(c, o))
           IN  /\ tp \in Nat /\ fp \in Nat /\ fn \in Nat /\ invalid \in Nat
               /\ checks \in Nat /\ passed \in Nat /\ passed <= checks
               /\ Len(c.tools) \in Nat /\ Len(o.tools) \in Nat
               /\ fp <= Len(o.tools) /\ invalid <= Len(o.tools)
               /\ Len(o.tools) = 0 <=> tp = 0 /\ fp = 0
               /\ Len(c.tools) = 0 <=> tp = 0 /\ fn = 0
  <1> DEFINE E == ToSet(c.tools)
             P == ToSet(o.tools)
  <1>1. c.tools \in Seq(Names) /\ o.tools \in Seq(Names)
    BY DEF Case, Observation
  <1>2. /\ IsFiniteSet(E) /\ Len(c.tools) \in Nat /\ Cardinality(E) <= Len(c.tools)
        /\ E = {} <=> Len(c.tools) = 0
        /\ IsFiniteSet(P) /\ Len(o.tools) \in Nat /\ Cardinality(P) <= Len(o.tools)
        /\ P = {} <=> Len(o.tools) = 0
        /\ Cardinality(P) \in Nat
    BY <1>1, SetOfList, FS_CardinalityType
  <1>3. /\ true_positives(c.tools, o.tools) = E \cap P
        /\ unnecessary_tools(c.tools, o.tools) = P \ E
        /\ missing_tools(c.tools, o.tools) = E \ P
        /\ invalid_tools(o.tools) = P \ Tools
        /\ Checked(c, o) = c.declared \cap P
        /\ Passed(c, o) = (c.declared \cap P) \ o.deviating
    BY DEF true_positives, unnecessary_tools, missing_tools, invalid_tools, Checked, Passed
  <1> HIDE DEF E, P
  <1>4. /\ Cardinality(E \cap P) \in Nat /\ (Cardinality(E \cap P) = 0 <=> E \cap P = {})
        /\ Cardinality(E \ P) \in Nat /\ (Cardinality(E \ P) = 0 <=> E \ P = {})
    BY <1>2, PartOfFinite
  <1>5. /\ Cardinality(P \ E) \in Nat /\ Cardinality(P \ E) <= Cardinality(P)
        /\ Cardinality(P \ E) = 0 <=> P \ E = {}
        /\ Cardinality(P \ Tools) \in Nat /\ Cardinality(P \ Tools) <= Cardinality(P)
    BY <1>2, PartOfFinite
  <1>6. /\ Cardinality(c.declared \cap P) \in Nat
        /\ Cardinality((c.declared \cap P) \ o.deviating) \in Nat
        /\ Cardinality((c.declared \cap P) \ o.deviating) <= Cardinality(c.declared \cap P)
    <2>1. IsFiniteSet(c.declared \cap P)
      BY <1>2, FS_Subset
    <2> QED
      BY <2>1, PartOfFinite, FS_CardinalityType
  <1>7. /\ P = {} <=> E \cap P = {} /\ P \ E = {}
        /\ E = {} <=> E \cap P = {} /\ E \ P = {}
    OBVIOUS
  <1>8. Cardinality(P \ E) <= Len(o.tools) /\ Cardinality(P \ Tools) <= Len(o.tools)
    BY <1>2, <1>5
  <1>9. /\ Len(o.tools) = 0 <=> Cardinality(E \cap P) = 0 /\ Cardinality(P \ E) = 0
        /\ Len(c.tools) = 0 <=> Cardinality(E \cap P) = 0 /\ Cardinality(E \ P) = 0
    BY <1>2, <1>4, <1>5, <1>7
  <1> QED
    BY <1>2, <1>3, <1>4, <1>5, <1>6, <1>8, <1>9

\* What the observation of a case leaves behind.
Scored(outcomes, cases) ==
    \A i \in DOMAIN outcomes :
        /\ outcomes[i] = evaluate_case(cases[i], outcomes[i].seen)
        /\ outcomes[i].seen.execution_errors => outcomes[i].seen.executed

\* What aggregate counts, by what it counts.
LEMMA CountsBounded ==
    ASSUME NEW outcomes \in Seq(Outcome), NEW cases, Scored(outcomes, cases)
    PROVE  LET n == Counts(outcomes)
           IN  /\ n.total \in Nat /\ n.ood \in Nat /\ n.ood <= n.total
               /\ n.intent_correct \in Nat /\ n.intent_correct <= n.total - n.ood
               /\ n.exact \in Nat /\ n.exact <= n.total
               /\ n.success \in Nat /\ n.success <= n.total
               /\ n.planner_failures \in Nat /\ n.planner_failures <= n.total
               /\ n.executed \in Nat
               /\ n.execution_errors \in Nat /\ n.execution_errors <= n.executed
  <1> DEFINE D == DOMAIN outcomes
             n == Counts(outcomes)
             ood == {i \in D : outcomes[i].case.ood}
             correct == {i \in D : ~outcomes[i].case.ood
                            /\ IntentCorrect(outcomes[i].case, outcomes[i].seen)}
             exact == {i \in D : ToSet(outcomes[i].case.tools) = ToSet(outcomes[i].seen.tools)}
             success == {i \in D : outcomes[i].task_success}
             failures == {i \in D : outcomes[i].seen.planning_error}
             errors == {i \in D : outcomes[i].seen.execution_errors}
             executed == {i \in D : outcomes[i].seen.executed}
  <1>1. IsFiniteSet(D) /\ Cardinality(D) = Len(outcomes) /\ Len(outcomes) \in Nat
    <2>1. D = 1..Len(outcomes) /\ Len(outcomes) \in Nat
      OBVIOUS
    <2> QED
      BY <2>1, FS_Interval
  <1>2. /\ n.total = Len(outcomes) /\ n.ood = Cardinality(ood)
        /\ n.intent_correct = Cardinality(correct) /\ n.exact = Cardinality(exact)
        /\ n.success = Cardinality(success) /\ n.planner_failures = Cardinality(failures)
        /\ n.execution_errors = Cardinality(errors) /\ n.executed = Cardinality(executed)
    BY CountsAre
  <1>3. /\ ood \subseteq D /\ correct \subseteq D \ ood /\ exact \subseteq D
        /\ success \subseteq D /\ failures \subseteq D /\ executed \subseteq D
        /\ errors \subseteq executed
    BY DEF Scored
  <1> HIDE DEF D, n, ood, correct, exact, success, failures, errors, executed
  <1>4. /\ Cardinality(ood) \in Nat /\ Cardinality(ood) <= Cardinality(D)
        /\ Cardinality(exact) \in Nat /\ Cardinality(exact) <= Cardinality(D)
        /\ Cardinality(success) \in Nat /\ Cardinality(success) <= Cardinality(D)
        /\ Cardinality(failures) \in Nat /\ Cardinality(failures) <= Cardinality(D)
        /\ Cardinality(executed) \in Nat
    BY <1>1, <1>3, PartOfFinite
  <1>5. Cardinality(errors) \in Nat /\ Cardinality(errors) <= Cardinality(executed)
    <2>1. IsFiniteSet(executed)
      BY <1>1, <1>3, FS_Subset
    <2> QED
      BY <1>3, <2>1, PartOfFinite
  <1>6. /\ Cardinality(correct) \in Nat
        /\ Cardinality(correct) <= Cardinality(D) - Cardinality(ood)
    <2>1. Cardinality(D \ ood) = Cardinality(D) - Cardinality(ood) /\ IsFiniteSet(D \ ood)
      <3>1. D \cap ood = ood
        BY <1>3
      <3>2. /\ IsFiniteSet(D \ ood)
            /\ Cardinality(D \ ood) = Cardinality(D) - Cardinality(D \cap ood)
        BY <1>1, FS_Difference
      <3> QED
        BY <3>1, <3>2
    <2> QED
      BY <1>3, <2>1, PartOfFinite
  <1> QED
    BY <1>1, <1>2, <1>4, <1>5, <1>6 DEF n

\* What aggregate sums up.
LEMMA SumsBounded ==
    ASSUME NEW outcomes \in Seq(Outcome)
    PROVE  LET n == Counts(outcomes)
           IN  /\ n.expected \in Nat /\ n.selected \in Nat
               /\ n.true_positive \in Nat /\ n.false_positive \in Nat
               /\ n.false_negative \in Nat /\ n.invalid \in Nat
               /\ n.checks \in Nat /\ n.passed \in Nat /\ n.passed <= n.checks
               /\ n.false_positive <= n.selected /\ n.invalid <= n.selected
               /\ n.selected = 0 <=> n.true_positive = 0 /\ n.false_positive = 0
               /\ n.expected = 0 <=> n.true_positive = 0 /\ n.false_negative = 0
  <1> DEFINE D == DOMAIN outcomes
             n == Counts(outcomes)
             expected == [i \in D |-> Len(outcomes[i].case.tools)]
             selected == [i \in D |-> Len(outcomes[i].seen.tools)]
             tp == [i \in D |-> Cardinality(
                        true_positives(outcomes[i].case.tools, outcomes[i].seen.tools))]
             fp == [i \in D |-> Cardinality(
                        unnecessary_tools(outcomes[i].case.tools, outcomes[i].seen.tools))]
             fn == [i \in D |-> Cardinality(
                        missing_tools(outcomes[i].case.tools, outcomes[i].seen.tools))]
             invalid == [i \in D |-> Cardinality(invalid_tools(outcomes[i].seen.tools))]
             checks == [i \in D |-> Cardinality(Checked(outcomes[i].case, outcomes[i].seen))]
             passed == [i \in D |-> Cardinality(Passed(outcomes[i].case, outcomes[i].seen))]
  <1>1. IsFiniteSet(D)
    <2>1. D = 1..Len(outcomes) /\ Len(outcomes) \in Nat
      OBVIOUS
    <2> QED
      BY <2>1, FS_Interval
  <1>2. /\ n.expected = SumFunctionOnSet(expected, D)
        /\ n.selected = SumFunctionOnSet(selected, D)
        /\ n.true_positive = SumFunctionOnSet(tp, D)
        /\ n.false_positive = SumFunctionOnSet(fp, D)
        /\ n.false_negative = SumFunctionOnSet(fn, D)
        /\ n.invalid = SumFunctionOnSet(invalid, D)
        /\ n.checks = SumFunctionOnSet(checks, D)
        /\ n.passed = SumFunctionOnSet(passed, D)
    BY CountsAre
  <1>3. \A i \in D :
            /\ expected[i] \in Nat /\ selected[i] \in Nat /\ tp[i] \in Nat /\ fp[i] \in Nat
            /\ fn[i] \in Nat /\ invalid[i] \in Nat /\ checks[i] \in Nat /\ passed[i] \in Nat
            /\ passed[i] <= checks[i] /\ fp[i] <= selected[i] /\ invalid[i] <= selected[i]
            /\ selected[i] = 0 <=> tp[i] = 0 /\ fp[i] = 0
            /\ expected[i] = 0 <=> tp[i] = 0 /\ fn[i] = 0
    <2> SUFFICES ASSUME NEW i \in D
                 PROVE  /\ expected[i] \in Nat /\ selected[i] \in Nat
                        /\ tp[i] \in Nat /\ fp[i] \in Nat
                        /\ fn[i] \in Nat /\ invalid[i] \in Nat
                        /\ checks[i] \in Nat /\ passed[i] \in Nat
                        /\ passed[i] <= checks[i] /\ fp[i] <= selected[i]
                        /\ invalid[i] <= selected[i]
                        /\ selected[i] = 0 <=> tp[i] = 0 /\ fp[i] = 0
                        /\ expected[i] = 0 <=> tp[i] = 0 /\ fn[i] = 0
      OBVIOUS
    <2>1. outcomes[i].case \in Case /\ outcomes[i].seen \in Observation
      <3>1. outcomes[i] \in Outcome
        OBVIOUS
      <3> QED
        BY <3>1 DEF Outcome
    <2> QED
      BY <2>1, Sizes
  <1> HIDE DEF D, n, expected, selected, tp, fp, fn, invalid, checks, passed
  <1>4. /\ n.expected \in Nat /\ n.selected \in Nat
        /\ n.true_positive \in Nat /\ n.false_positive \in Nat
        /\ n.false_negative \in Nat /\ n.invalid \in Nat
        /\ n.checks \in Nat /\ n.passed \in Nat
    BY <1>1, <1>2, <1>3, SumIsNatural
  <1>5. n.passed <= n.checks /\ n.false_positive <= n.selected /\ n.invalid <= n.selected
    BY <1>1, <1>2, <1>3, SumLess
  <1>6. /\ n.expected = 0 <=> \A i \in D : expected[i] = 0
        /\ n.selected = 0 <=> \A i \in D : selected[i] = 0
        /\ n.true_positive = 0 <=> \A i \in D : tp[i] = 0
        /\ n.false_positive = 0 <=> \A i \in D : fp[i] = 0
        /\ n.false_negative = 0 <=> \A i \in D : fn[i] = 0
    BY <1>1, <1>2, <1>3, SumIsZero
  <1>7. /\ n.selected = 0 <=> n.true_positive = 0 /\ n.false_positive = 0
        /\ n.expected = 0 <=> n.true_positive = 0 /\ n.false_negative = 0
    BY <1>3, <1>6
  <1> QED
    BY <1>4, <1>5, <1>7 DEF n

LEMMA RatioIs ==
    ASSUME EvaluationAssumption, NEW n \in Nat, NEW d \in Nat, n <= d
    PROVE  /\ ratio(n, d) # None =>
                /\ ratio(n, d) \in Nat \X Nat
                /\ 0 <= ratio(n, d)[1] /\ ratio(n, d)[1] <= ratio(n, d)[2]
                /\ ratio(n, d)[2] > 0
           /\ ratio(n, d) = None <=> d = 0
  <1>1. <<n, d>> \in Nat \X Nat
    OBVIOUS
  <1>2. <<n, d>> # None /\ <<n, d>>[1] = n /\ <<n, d>>[2] = d
    BY <1>1 DEF EvaluationAssumption
  <1> QED
    BY <1>2 DEF ratio

\* A ratio that is one of a part to its whole, or none.
Proportion(q) ==
    q # None => /\ q \in Nat \X Nat
                /\ 0 <= q[1] /\ q[1] <= q[2] /\ q[2] > 0

LEMMA MetricsProportional ==
    ASSUME EvaluationAssumption, NEW outcomes \in Seq(Outcome), NEW cases,
           Scored(outcomes, cases), NEW executed \in BOOLEAN
    PROVE  LET n == Counts(outcomes)
               m == MetricsOf(n, executed)
           IN  /\ \A name \in Metrics : Proportion(m[name])
               /\ m.tool_precision = None <=> n.selected = 0
               /\ m.unnecessary_tool_call_rate = None <=> n.selected = 0
               /\ m.tool_recall = None <=> n.expected = 0
  <1> DEFINE n == Counts(outcomes)
             m == MetricsOf(n, executed)
  <1>1. /\ n.total \in Nat /\ n.ood \in Nat /\ n.ood <= n.total
        /\ n.intent_correct \in Nat /\ n.intent_correct <= n.total - n.ood
        /\ n.exact \in Nat /\ n.exact <= n.total
        /\ n.success \in Nat /\ n.success <= n.total
        /\ n.planner_failures \in Nat /\ n.planner_failures <= n.total
        /\ n.executed \in Nat
        /\ n.execution_errors \in Nat /\ n.execution_errors <= n.executed
    BY CountsBounded
  <1>2. /\ n.expected \in Nat /\ n.selected \in Nat
        /\ n.true_positive \in Nat /\ n.false_positive \in Nat
        /\ n.false_negative \in Nat /\ n.invalid \in Nat
        /\ n.checks \in Nat /\ n.passed \in Nat /\ n.passed <= n.checks
        /\ n.false_positive <= n.selected /\ n.invalid <= n.selected
        /\ n.selected = 0 <=> n.true_positive = 0 /\ n.false_positive = 0
        /\ n.expected = 0 <=> n.true_positive = 0 /\ n.false_negative = 0
    BY SumsBounded
  <1> DEFINE a == n.total - n.ood
             b == n.true_positive + n.false_positive
             c == n.true_positive + n.false_negative
  <1>3. /\ m.intent_accuracy = ratio(n.intent_correct, a)
        /\ m.tool_selection_exact_match = ratio(n.exact, n.total)
        /\ m.tool_precision = ratio(n.true_positive, b)
        /\ m.tool_recall = ratio(n.true_positive, c)
        /\ m.argument_accuracy = ratio(n.passed, n.checks)
        /\ m.invalid_tool_rate = ratio(n.invalid, n.selected)
        /\ m.unnecessary_tool_call_rate = ratio(n.false_positive, n.selected)
        /\ m.task_success_rate = ratio(n.success, n.total)
        /\ m.planner_failure_rate = ratio(n.planner_failures, n.total)
        /\ m.execution_error_rate
            = IF executed THEN ratio(n.execution_errors, n.executed) ELSE None
    BY DEF MetricsOf
  <1> HIDE DEF n, m
  <1>4. /\ a \in Nat /\ b \in Nat /\ c \in Nat /\ n.true_positive <= b
        /\ n.true_positive <= c /\ n.intent_correct <= a
        /\ b = 0 <=> n.selected = 0
        /\ c = 0 <=> n.expected = 0
    <2>1. \A x, y \in Nat : x + y \in Nat /\ x <= x + y /\ (x + y = 0 <=> x = 0 /\ y = 0)
      OBVIOUS
    <2>2. a \in Nat /\ n.intent_correct <= a
      BY <1>1
    <2>3. b \in Nat /\ n.true_positive <= b /\ (b = 0 <=> n.selected = 0)
      BY <1>2, <2>1
    <2>4. c \in Nat /\ n.true_positive <= c /\ (c = 0 <=> n.expected = 0)
      BY <1>2, <2>1
    <2> HIDE DEF a, b, c
    <2> QED
      BY <2>2, <2>3, <2>4
  <1> HIDE DEF a, b, c
  <1>5. /\ Proportion(m.intent_accuracy) /\ Proportion(m.tool_selection_exact_match)
        /\ Proportion(m.tool_precision) /\ Proportion(m.tool_recall)
        /\ Proportion(m.argument_accuracy) /\ Proportion(m.task_success_rate)
        /\ Proportion(m.planner_failure_rate) /\ Proportion(m.invalid_tool_rate)
        /\ Proportion(m.unnecessary_tool_call_rate) /\ Proportion(m.execution_error_rate)
    <2>1. \A num, den \in Nat : num <= den => Proportion(ratio(num, den))
      BY RatioIs DEF Proportion
    <2>2. Proportion(None)
      BY DEF Proportion
    <2>3. /\ Proportion(ratio(n.intent_correct, a)) /\ Proportion(ratio(n.exact, n.total))
          /\ Proportion(ratio(n.success, n.total))
          /\ Proportion(ratio(n.planner_failures, n.total))
          /\ Proportion(ratio(n.execution_errors, n.executed))
      BY <1>1, <1>4, <2>1
    <2>4. /\ Proportion(ratio(n.true_positive, b)) /\ Proportion(ratio(n.true_positive, c))
          /\ Proportion(ratio(n.passed, n.checks)) /\ Proportion(ratio(n.invalid, n.selected))
          /\ Proportion(ratio(n.false_positive, n.selected))
      BY <1>2, <1>4, <2>1
    <2> HIDE DEF Proportion
    <2>5. Proportion(m.execution_error_rate)
      BY <1>3, <2>2, <2>3
    <2> QED
      BY <1>3, <2>3, <2>4, <2>5
  <1>6. \A name \in Metrics : Proportion(m[name])
    BY <1>5 DEF Metrics, ComparedMetrics, LowerIsBetter
  <1>7. /\ m.tool_precision = None <=> b = 0
        /\ m.unnecessary_tool_call_rate = None <=> n.selected = 0
        /\ m.tool_recall = None <=> c = 0
    <2>1. \A num, den \in Nat : num <= den => (ratio(num, den) = None <=> den = 0)
      BY RatioIs
    <2>2. /\ ratio(n.true_positive, b) = None <=> b = 0
          /\ ratio(n.false_positive, n.selected) = None <=> n.selected = 0
          /\ ratio(n.true_positive, c) = None <=> c = 0
      BY <1>2, <1>4, <2>1
    <2> QED
      BY <1>3, <1>4, <2>2
  <1> QED
    BY <1>4, <1>6, <1>7 DEF n, m

\* A case that succeeds is no offender.
LEMMA OffendersFail ==
    ASSUME NEW outcomes \in Seq(Outcome), NEW cases, Scored(outcomes, cases)
    PROVE  LET bad == CountOf(outcomes, LAMBDA x : x.case.ood /\ x.seen.tools # <<>>)
           IN  /\ bad \in Nat
               /\ Counts(outcomes).success + bad <= Counts(outcomes).total
  <1> DEFINE D == DOMAIN outcomes
             success == {i \in D : outcomes[i].task_success}
             offending == {i \in D : outcomes[i].case.ood /\ outcomes[i].seen.tools # <<>>}
  <1>1. IsFiniteSet(D) /\ Cardinality(D) = Len(outcomes) /\ Len(outcomes) \in Nat
    <2>1. D = 1..Len(outcomes) /\ Len(outcomes) \in Nat
      OBVIOUS
    <2> QED
      BY <2>1, FS_Interval
  <1>2. /\ Counts(outcomes).total = Len(outcomes)
        /\ Counts(outcomes).success = Cardinality(success)
    BY CountsAre
  <1>3. CountOf(outcomes, LAMBDA x : x.case.ood /\ x.seen.tools # <<>>)
            = Cardinality(offending)
    BY DEF CountOf
  <1>4. success \subseteq D /\ offending \subseteq D \ success
    <2> SUFFICES ASSUME NEW i \in D, outcomes[i].case.ood, outcomes[i].seen.tools # <<>>
                 PROVE  ~outcomes[i].task_success
      OBVIOUS
    <2> DEFINE o == outcomes[i].seen
    <2>1. outcomes[i] = evaluate_case(cases[i], o)
      BY DEF Scored
    <2> HIDE DEF o
    <2>2. /\ outcomes[i].case = cases[i]
          /\ outcomes[i].task_success = TaskSuccess(cases[i], o)
      BY <2>1 DEF evaluate_case
    <2> QED
      BY <2>2 DEF TaskSuccess, o
  <1> HIDE DEF D, success, offending
  <1>5. /\ Cardinality(success) \in Nat /\ Cardinality(success) <= Cardinality(D)
        /\ IsFiniteSet(D \ success)
    BY <1>1, <1>4, PartOfFinite, FS_Difference
  <1>6. Cardinality(D \ success) = Cardinality(D) - Cardinality(success)
    <2>1. D \cap success = success
      BY <1>4
    <2>2. Cardinality(D \ success) = Cardinality(D) - Cardinality(D \cap success)
      BY <1>1, FS_Difference
    <2> QED
      BY <2>1, <2>2
  <1>7. /\ Cardinality(offending) \in Nat
        /\ Cardinality(offending) <= Cardinality(D \ success)
    BY <1>4, <1>5, PartOfFinite
  <1> QED
    BY <1>1, <1>2, <1>3, <1>5, <1>6, <1>7

-----------------------------------------------------------------------------
(* The reports of a run                                                    *)

\* A run of which every case has been scored.
Complete(r) ==
    /\ r.cases \in Seq(Case) /\ ValidDataset(r.cases) /\ r.execute \in BOOLEAN
    /\ r.outcomes \in Seq(Outcome) /\ Len(r.outcomes) = Len(r.cases)
    /\ Scored(r.outcomes, r.cases)

Proportional(b) ==
    /\ \A name \in Metrics : Proportion(b.metrics[name])
    /\ b.metrics.tool_precision = None <=> b.denominators.selected = 0
    /\ b.metrics.unnecessary_tool_call_rate = None <=> b.denominators.selected = 0
    /\ b.metrics.tool_recall = None <=> b.denominators.expected = 0
    /\ b.denominators.total = b.run.case_count
    /\ b.offenders \in Nat
    /\ b.denominators.success + b.offenders <= b.denominators.total

LEMMA BaselineProportional ==
    ASSUME EvaluationAssumption, NEW r, Complete(r), NEW digest
    PROVE  Proportional(EvaluationReport(r, digest))
  <1> DEFINE b == EvaluationReport(r, digest)
             n == Counts(r.outcomes)
             m == MetricsOf(n, r.execute)
             bad == CountOf(r.outcomes, LAMBDA x : x.case.ood /\ x.seen.tools # <<>>)
  <1>1. /\ b.metrics = m /\ b.denominators = n /\ b.offenders = bad
        /\ b.run.case_count = Len(r.cases)
    BY DEF EvaluationReport, Metadata
  <1>2. n.total = Len(r.cases)
    BY CountsAre DEF Complete
  <1>3. /\ \A name \in Metrics : Proportion(m[name])
        /\ m.tool_precision = None <=> n.selected = 0
        /\ m.unnecessary_tool_call_rate = None <=> n.selected = 0
        /\ m.tool_recall = None <=> n.expected = 0
    BY MetricsProportional DEF Complete
  <1>4. bad \in Nat /\ n.success + bad <= n.total
    BY OffendersFail DEF Complete
  <1> HIDE DEF b, n, m, bad
  <1> QED
    BY <1>1, <1>2, <1>3, <1>4 DEF Proportional, b

\* The type a failing case is listed under is one of its own.
LEMMA PrimaryIsListed ==
    ASSUME NEW types, types \subseteq FailureTypes, types # {}
    PROVE  PrimaryFailure(types) \in types
  <1> DEFINE P == FailurePriority
             S == {i \in 1..8 : P[i] \in types}
  <1>1. DOMAIN P = 1..8 /\ \A f \in FailureTypes : \E i \in 1..8 : P[i] = f
    BY DEF FailurePriority, FailureTypes
  <1>2. S # {} /\ S \subseteq Nat
    BY <1>1
  <1>3. PICK i \in S : \A j \in S : <<j, i>> \notin OpToRel(<, Nat)
    <2> HIDE DEF S
    <2> QED
      BY <1>2, NatLessThanWellFounded, WFMin
  <1>4. \A j \in S : ~(j < i)
    BY <1>2, <1>3 DEF OpToRel
  <1>5. \A j \in 1..(i - 1) : j \in 1..8 /\ j < i
    OBVIOUS
  <1>6. \E k \in DOMAIN P : P[k] \in types /\ \A j \in 1..(k - 1) : P[j] \notin types
    <2>1. i \in DOMAIN P /\ P[i] \in types
      BY <1>1
    <2>2. \A j \in 1..(i - 1) : P[j] \notin types
      BY <1>4, <1>5
    <2> HIDE DEF P, S
    <2> QED
      BY <2>1, <2>2
  <1> QED
    <2> HIDE DEF P
    <2>1. PrimaryFailure(types) = P[CHOOSE k \in DOMAIN P :
                P[k] \in types /\ \A j \in 1..(k - 1) : P[j] \notin types]
      BY DEF PrimaryFailure, P
    <2> QED
      BY <1>6, <2>1

\* Identifiers are unique, so the lookups by id find the case itself.
LEMMA LookupsFindTheCase ==
    ASSUME NEW r, Complete(r), NEW i \in DOMAIN r.outcomes
    PROVE  LET x == r.outcomes[i]
           IN  /\ x.case = r.cases[i]
               /\ CaseById(r.cases, x.case.id) = r.cases[i]
               /\ ObservationOf(r.outcomes, x.case.id) = x.seen
  <1> DEFINE n == Len(r.cases)
             cases == r.cases
             outcomes == r.outcomes
             id == cases[i].id
  <1>1. /\ DOMAIN cases = 1..n /\ DOMAIN outcomes = 1..n /\ n \in Nat
        /\ Len(outcomes) = n
    BY DEF Complete
  <1>2. \A j \in 1..n : outcomes[j].case = cases[j]
    <2> SUFFICES ASSUME NEW j \in 1..n
                 PROVE  outcomes[j].case = cases[j]
      OBVIOUS
    <2> DEFINE o == outcomes[j].seen
    <2>1. outcomes[j] = evaluate_case(cases[j], o)
      BY <1>1 DEF Complete, Scored
    <2> HIDE DEF o
    <2> QED
      BY <2>1 DEF evaluate_case
  <1>3. \A j \in 1..n : cases[j].id = id => j = i
    BY <1>1 DEF Complete, ValidDataset
  <1>4. i \in 1..n /\ i \notin 1..(i - 1) /\ i \notin (i + 1)..n
    BY <1>1
  <1>5. /\ \A j \in 1..(i - 1) : j \in 1..n
        /\ \A j \in (i + 1)..n : j \in 1..n
    BY <1>1
  <1> HIDE DEF n, cases, outcomes, id
  <1>6. CaseById(cases, id) = cases[i]
    <2>1. i \in DOMAIN cases /\ cases[i].id = id /\ \A j \in 1..(i - 1) : cases[j].id # id
      BY <1>1, <1>3, <1>4, <1>5 DEF id
    <2>2. \A k \in DOMAIN cases : cases[k].id = id => k = i
      BY <1>1, <1>3
    <2> QED
      BY <2>1, <2>2 DEF CaseById
  <1>7. ObservationOf(outcomes, id) = outcomes[i].seen
    <2>1. /\ i \in DOMAIN outcomes /\ outcomes[i].case.id = id
          /\ \A j \in (i + 1)..Len(outcomes) : outcomes[j].case.id # id
      BY <1>1, <1>2, <1>3, <1>4, <1>5 DEF id
    <2>2. \A k \in DOMAIN outcomes : outcomes[k].case.id = id => k = i
      BY <1>1, <1>2, <1>3
    <2> QED
      BY <2>1, <2>2 DEF ObservationOf
  <1> QED
    BY <1>2, <1>4, <1>6, <1>7 DEF cases, outcomes, id

\* What a failure report tells of its cases.
Telling(listed) ==
    /\ \A i, j \in DOMAIN listed : listed[i].id = listed[j].id => i = j
    /\ \A i \in DOMAIN listed :
        LET r == listed[i]
            predicted == ToSet(r.actual.tools)
        IN  /\ r.failure_type \in r.failure_types
            /\ "missing_tool" \in r.failure_types
                <=> ~(ToSet(r.expected.tools) \subseteq predicted)
            /\ "argument_mismatch" \in r.failure_types
                <=> r.expected.declared \cap predicted \cap r.actual.deviating # {}

LEMMA FailuresAre ==
    ASSUME NEW r, Complete(r)
    PROVE  LET listed == FailureRecords(r.cases, r.outcomes)
               D == {i \in 1..Len(r.cases) :
                        FailuresOf(r.cases[i], r.outcomes[i].seen) # {}}
           IN  /\ DOMAIN listed = D
               /\ \A i \in D :
                    LET c == r.cases[i]
                        o == r.outcomes[i].seen
                    IN  listed[i] =
                          [id |-> c.id,
                           failure_type |-> PrimaryFailure(FailuresOf(c, o)),
                           failure_types |-> FailuresOf(c, o),
                           expected |-> [tools |-> c.tools, declared |-> c.declared],
                           actual |-> [tools |-> o.tools, deviating |-> o.deviating]]
  <1> DEFINE listed == FailureRecords(r.cases, r.outcomes)
             D == {i \in 1..Len(r.cases) : FailuresOf(r.cases[i], r.outcomes[i].seen) # {}}
  <1>1. DOMAIN r.outcomes = 1..Len(r.cases)
    BY DEF Complete
  <1>2. ASSUME NEW i \in DOMAIN r.outcomes
        PROVE  r.outcomes[i].failure_types = FailuresOf(r.cases[i], r.outcomes[i].seen)
    <2> DEFINE o == r.outcomes[i].seen
    <2>1. r.outcomes[i] = evaluate_case(r.cases[i], o)
      BY DEF Complete, Scored
    <2> HIDE DEF o
    <2>2. r.outcomes[i].failure_types = FailuresOf(r.cases[i], o)
      BY <2>1 DEF evaluate_case
    <2> QED
      BY <2>2 DEF o
  <1>3. /\ DOMAIN listed = {i \in DOMAIN r.outcomes : r.outcomes[i].failure_types # {}}
        /\ \A i \in DOMAIN listed :
              listed[i] = FailureRecord(r.outcomes[i], r.cases, r.outcomes)
    BY DEF FailureRecords
  <1>4. DOMAIN listed = D
    BY <1>1, <1>2, <1>3
  <1>5. ASSUME NEW i \in D
        PROVE  LET c == r.cases[i]
                   o == r.outcomes[i].seen
               IN  listed[i] =
                     [id |-> c.id,
                      failure_type |-> PrimaryFailure(FailuresOf(c, o)),
                      failure_types |-> FailuresOf(c, o),
                      expected |-> [tools |-> c.tools, declared |-> c.declared],
                      actual |-> [tools |-> o.tools, deviating |-> o.deviating]]
    <2>1. i \in DOMAIN r.outcomes
      BY <1>1
    <2>2. listed[i] = FailureRecord(r.outcomes[i], r.cases, r.outcomes)
      BY <1>3, <1>4
    <2>3. /\ r.outcomes[i].case = r.cases[i]
          /\ CaseById(r.cases, r.cases[i].id) = r.cases[i]
          /\ ObservationOf(r.outcomes, r.cases[i].id) = r.outcomes[i].seen
      BY <2>1, LookupsFindTheCase
    <2>4. r.outcomes[i].failure_types = FailuresOf(r.cases[i], r.outcomes[i].seen)
      BY <1>2, <2>1
    <2> HIDE DEF listed
    <2> QED
      BY <2>2, <2>3, <2>4 DEF FailureRecord
  <1> QED
    BY <1>4, <1>5

\* The same, read from a record of the list.
LEMMA FailuresListed ==
    ASSUME NEW x, Complete(x)
    PROVE  LET listed == FailureRecords(x.cases, x.outcomes)
               n == Len(x.cases)
               F(i) == FailuresOf(x.cases[i], x.outcomes[i].seen)
           IN  /\ \A i \in DOMAIN listed : i \in 1..n /\ F(i) # {}
               /\ \A i \in DOMAIN listed : listed[i] =
                     [id |-> x.cases[i].id,
                      failure_type |-> PrimaryFailure(F(i)),
                      failure_types |-> F(i),
                      expected |-> [tools |-> x.cases[i].tools, declared |-> x.cases[i].declared],
                      actual |-> [tools |-> x.outcomes[i].seen.tools,
                                  deviating |-> x.outcomes[i].seen.deviating]]
  <1> DEFINE listed == FailureRecords(x.cases, x.outcomes)
             n == Len(x.cases)
             F(i) == FailuresOf(x.cases[i], x.outcomes[i].seen)
  <1>1. /\ \A i \in DOMAIN listed : i \in 1..n /\ F(i) # {}
        /\ \A i \in DOMAIN listed : listed[i] =
              [id |-> x.cases[i].id,
               failure_type |-> PrimaryFailure(F(i)),
               failure_types |-> F(i),
               expected |-> [tools |-> x.cases[i].tools, declared |-> x.cases[i].declared],
               actual |-> [tools |-> x.outcomes[i].seen.tools,
                           deviating |-> x.outcomes[i].seen.deviating]]
    BY FailuresAre
  <1> QED
    BY <1>1

LEMMA FailuresTelling ==
    ASSUME NEW r, Complete(r)
    PROVE  Telling(FailureRecords(r.cases, r.outcomes))
  <1> DEFINE listed == FailureRecords(r.cases, r.outcomes)
             n == Len(r.cases)
             F(i) == FailuresOf(r.cases[i], r.outcomes[i].seen)
  <1>1. /\ \A i \in DOMAIN listed : i \in 1..n /\ F(i) # {}
        /\ \A i \in DOMAIN listed : listed[i] =
              [id |-> r.cases[i].id,
               failure_type |-> PrimaryFailure(F(i)),
               failure_types |-> F(i),
               expected |-> [tools |-> r.cases[i].tools, declared |-> r.cases[i].declared],
               actual |-> [tools |-> r.outcomes[i].seen.tools,
                           deviating |-> r.outcomes[i].seen.deviating]]
    BY FailuresAre
  <1>2. DOMAIN r.cases = 1..n
    BY DEF Complete
  <1> HIDE DEF listed
  <1>3. \A i, j \in DOMAIN listed : listed[i].id = listed[j].id => i = j
    <2>1. \A i \in DOMAIN listed : i \in DOMAIN r.cases /\ listed[i].id = r.cases[i].id
      BY <1>1, <1>2
    <2> QED
      BY <2>1 DEF Complete, ValidDataset
  <1>4. ASSUME NEW i \in DOMAIN listed
        PROVE  /\ listed[i].failure_type \in listed[i].failure_types
               /\ "missing_tool" \in listed[i].failure_types
                    <=> ~(ToSet(listed[i].expected.tools)
                            \subseteq ToSet(listed[i].actual.tools))
               /\ "argument_mismatch" \in listed[i].failure_types
                    <=> listed[i].expected.declared \cap ToSet(listed[i].actual.tools)
                            \cap listed[i].actual.deviating # {}
    <2> DEFINE c == r.cases[i]
               o == r.outcomes[i].seen
               T == FailuresOf(c, o)
    <2>1. /\ listed[i].failure_type = PrimaryFailure(T) /\ listed[i].failure_types = T
          /\ listed[i].expected.tools = c.tools
          /\ listed[i].expected.declared = c.declared
          /\ listed[i].actual.tools = o.tools
          /\ listed[i].actual.deviating = o.deviating
          /\ T # {} /\ i \in 1..n
      BY <1>1
    <2>2. c \in Case /\ ValidCase(c)
      BY <1>2, <2>1 DEF Complete, ValidDataset
    <2>3. c.ood \in BOOLEAN
      BY <2>2 DEF Case
    <2>4. /\ T \subseteq FailureTypes
          /\ "missing_tool" \in T <=> ~c.ood /\ missing_tools(c.tools, o.tools) # {}
          /\ "argument_mismatch" \in T <=> ~c.ood /\ Passed(c, o) # Checked(c, o)
      BY DEF FailuresOf, FailureTypes
    <2>5. c.ood => ToSet(c.tools) = {} /\ c.declared = {}
      <3>1. ToSet(<<>>) = {}
        BY DEF ToSet
      <3> QED
        BY <2>2, <3>1 DEF ValidCase
    <2>6. /\ missing_tools(c.tools, o.tools) # {} <=> ~(ToSet(c.tools) \subseteq ToSet(o.tools))
          /\ Passed(c, o) # Checked(c, o)
                <=> c.declared \cap ToSet(o.tools) \cap o.deviating # {}
      BY DEF missing_tools, Passed, Checked
    <2>7. PrimaryFailure(T) \in T
      BY <2>1, <2>4, PrimaryIsListed
    <2> HIDE DEF c, o, T
    <2> QED
      BY <2>1, <2>3, <2>4, <2>5, <2>6, <2>7
  <1> QED
    BY <1>3, <1>4 DEF Telling, listed

\* The two reports of a run count the same successes.
Agree(b, f) ==
    /\ b.run = f.run
    /\ b.denominators.total - b.denominators.success
         = Cardinality({i \in DOMAIN f.failures :
             f.failures[i].failure_types # {"execution_error"}})

LEMMA ReportsAgree ==
    ASSUME NEW r, Complete(r), NEW digest
    PROVE  Agree(EvaluationReport(r, digest), FailureReport(r, digest))
  <1> DEFINE b == EvaluationReport(r, digest)
             listed == FailureRecords(r.cases, r.outcomes)
             D == 1..Len(r.cases)
             success == {i \in D : r.outcomes[i].task_success}
             failed == {i \in DOMAIN listed : listed[i].failure_types # {"execution_error"}}
             F(i) == FailuresOf(r.cases[i], r.outcomes[i].seen)
  <1>1. /\ DOMAIN r.outcomes = D /\ Len(r.cases) \in Nat /\ Len(r.outcomes) = Len(r.cases)
        /\ IsFiniteSet(D) /\ Cardinality(D) = Len(r.cases)
    <2>1. DOMAIN r.outcomes = D /\ Len(r.cases) \in Nat
      BY DEF Complete
    <2> QED
      BY <2>1, FS_Interval DEF Complete
  <1>2. ASSUME NEW i \in D
        PROVE  r.outcomes[i].task_success <=> F(i) \subseteq {"execution_error"}
    <2> DEFINE c == r.cases[i]
               o == r.outcomes[i].seen
    <2>1. r.outcomes[i] = evaluate_case(c, o)
      BY <1>1 DEF Complete, Scored
    <2>2. c \in Case /\ o \in Observation
      <3>1. r.outcomes[i] \in Outcome /\ c \in Case
        BY <1>1 DEF Complete
      <3> QED
        BY <3>1 DEF Outcome
    <2> HIDE DEF c, o
    <2>3. r.outcomes[i].task_success = TaskSuccess(c, o)
      BY <2>1 DEF evaluate_case
    <2> QED
      BY <2>2, <2>3, VerdictAgrees DEF c, o
  <1>3. /\ DOMAIN listed = {i \in D : F(i) # {}}
        /\ \A i \in DOMAIN listed : listed[i].failure_types = F(i)
    <2>1. /\ DOMAIN listed = {i \in D : F(i) # {}}
          /\ \A i \in DOMAIN listed : listed[i] =
                [id |-> r.cases[i].id,
                 failure_type |-> PrimaryFailure(F(i)),
                 failure_types |-> F(i),
                 expected |-> [tools |-> r.cases[i].tools, declared |-> r.cases[i].declared],
                 actual |-> [tools |-> r.outcomes[i].seen.tools,
                             deviating |-> r.outcomes[i].seen.deviating]]
      BY FailuresAre
    <2> HIDE DEF listed, D
    <2>2. ASSUME NEW i \in DOMAIN listed
          PROVE  listed[i].failure_types = F(i)
      <3> DEFINE types == F(i)
                 c == r.cases[i]
                 o == r.outcomes[i].seen
      <3>1. listed[i] =
              [id |-> c.id,
               failure_type |-> PrimaryFailure(types),
               failure_types |-> types,
               expected |-> [tools |-> c.tools, declared |-> c.declared],
               actual |-> [tools |-> o.tools, deviating |-> o.deviating]]
        BY <2>1
      <3> HIDE DEF types, c, o
      <3>2. listed[i].failure_types = types
        BY <3>1
      <3> QED
        BY <3>2 DEF types
    <2>3. DOMAIN listed = {i \in D : F(i) # {}}
      BY <2>1
    <2> HIDE DEF F
    <2> QED
      BY <2>2, <2>3
  <1>4. failed = D \ success
    <2>1. \A i : i \in failed <=> i \in D /\ F(i) # {} /\ F(i) # {"execution_error"}
      BY <1>3
    <2>2. \A i : F(i) \subseteq {"execution_error"} <=> F(i) = {} \/ F(i) = {"execution_error"}
      OBVIOUS
    <2>3. \A i : i \in failed <=> i \in D \ success
      BY <1>2, <2>1, <2>2
    <2> HIDE DEF failed, success, D
    <2> QED
      BY <2>3
  <1>5. Cardinality(D \ success) = Cardinality(D) - Cardinality(success)
    <2>1. D \cap success = success
      OBVIOUS
    <2>2. Cardinality(D \ success) = Cardinality(D) - Cardinality(D \cap success)
      BY <1>1, FS_Difference
    <2> QED
      BY <2>1, <2>2
  <1>6. /\ b.denominators.total = Len(r.outcomes)
        /\ b.denominators.success = Cardinality(success)
    <2>1. b.denominators = Counts(r.outcomes)
      BY DEF EvaluationReport
    <2>2. /\ Counts(r.outcomes).total = Len(r.outcomes)
          /\ Counts(r.outcomes).success
                = Cardinality({i \in DOMAIN r.outcomes : r.outcomes[i].task_success})
      BY CountsAre
    <2> QED
      BY <1>1, <2>1, <2>2
  <1>7. FailureReport(r, digest).failures = listed /\ b.run = FailureReport(r, digest).run
    BY DEF FailureReport, EvaluationReport
  <1> HIDE DEF success, D, listed
  <1> QED
    BY <1>1, <1>4, <1>5, <1>6, <1>7 DEF Agree

-----------------------------------------------------------------------------
(* The reports directory                                                   *)

Baseline(t, x, digest) ==
    [path |-> <<t, "baseline">>, report |-> EvaluationReport(x, digest)]

Failures(t, x, digest) ==
    [path |-> <<t, "failures">>, report |-> FailureReport(x, digest)]

\* What a runner may have yet to write: the two reports of one run, the second
\* where it has written the first, and left alone has not lost it, the status
\* of a gated run.
RunnerWrites(r) ==
    LET q == todo[r]
    IN  \/ q = <<>>
        \/ \E t \in Planners : \E report :
              q = <<[path |-> <<t, "evaluation_status">>, report |-> report]>>
        \/ \E t \in Planners : \E x, digest :
              Complete(x) /\ q = <<Baseline(t, x, digest), Failures(t, x, digest)>>
        \/ \E t \in Planners : \E x, digest :
              /\ Complete(x) /\ q = <<Failures(t, x, digest)>>
              /\ r \in alone =>
                    files[<<t, "baseline">>] = EvaluationReport(x, digest)

\* What a reader may find in place of the two reports.
BaselineFound(found) ==
    found \in {Absent, Garbled}
        \/ \E x, digest : Complete(x) /\ found = EvaluationReport(x, digest)

FailuresFound(found) ==
    found \in {Absent, Garbled}
        \/ \E x, digest : Complete(x) /\ found = FailureReport(x, digest)

\* A runner that is left alone writes to other files than any other runner,
\* and has none of them open with another.
AloneOK ==
    /\ \A r \in alone : \A q \in Runners \ {r} :
        todo[r] # <<>> /\ todo[q] # <<>> => Target(q)[1] # Target(r)[1]
    /\ alone \cap shared = {}

\* What each runner has scored.
ScoredOK ==
    \A r \in Runners :
        /\ run[r].pc # "idle" => ValidDataset(run[r].cases) /\ todo[r] = <<>>
        /\ Scored(run[r].outcomes, run[r].cases)

FilesFound ==
    \A t \in Planners : /\ BaselineFound(files[<<t, "baseline">>])
                        /\ FailuresFound(files[<<t, "failures">>])

ComparisonApart ==
    \A i \in DOMAIN todo["comparison"] : todo["comparison"][i].path[1] = "planner"

\* The inductive invariant of the runners' reports.
ReportsInv ==
    /\ ScoredOK /\ AloneOK /\ ComparisonApart /\ FilesFound
    /\ \A r \in Runners : RunnerWrites(r)

LEMMA ReportPaths ==
    ASSUME NEW t \in Planners
    PROVE  /\ <<t, "baseline">> \in Paths /\ <<t, "failures">> \in Paths
           /\ t # "planner"
    BY DEF Planners, Paths

\* The pieces of the two kinds of queue.
LEMMA PairOfWrites ==
    ASSUME NEW x, NEW y, NEW q, q = <<x, y>>
    PROVE  q # <<>> /\ Head(q) = x /\ Tail(q) = <<y>>
    OBVIOUS

LEMMA OneWrite ==
    ASSUME NEW x, NEW q, q = <<x>>
    PROVE  q # <<>> /\ Head(q) = x /\ Tail(q) = <<>> /\ DOMAIN q = {1} /\ q[1] = x
    OBVIOUS

\* An action that leaves the queues and the files alone keeps what is about them.
LEMMA QueuesKept ==
    ASSUME ReportsInv, UNCHANGED <<todo, files, alone, shared>>
    PROVE  /\ AloneOK' /\ ComparisonApart' /\ FilesFound'
           /\ \A r \in Runners : RunnerWrites(r)'
  <1>1. AloneOK'
    BY DEF ReportsInv, AloneOK, Target
  <1>2. ComparisonApart' /\ FilesFound'
    BY DEF ReportsInv, ComparisonApart, FilesFound
  <1>3. \A r \in Runners : RunnerWrites(r)'
    <2> SUFFICES ASSUME NEW r \in Runners
                 PROVE  RunnerWrites(r)'
      OBVIOUS
    <2>1. RunnerWrites(r)
      BY DEF ReportsInv
    <2> QED
      BY <2>1 DEF RunnerWrites
  <1> QED
    BY <1>1, <1>2, <1>3

\* One runner's state is replaced, and its reports are not ready.
LEMMA ScoredReplaced ==
    ASSUME IInv, ReportsInv, NEW r \in Runners, NEW state,
           run' = [run EXCEPT ![r] = state], todo' = todo,
           state.pc # "idle" => ValidDataset(state.cases) /\ todo[r] = <<>>,
           Scored(state.outcomes, state.cases)
    PROVE  ScoredOK'
  <1>1. \A q \in Runners : run'[q] = IF q = r THEN state ELSE run[q]
    BY DEF IInv, RunsOK
  <1> QED
    BY <1>1 DEF ScoredOK, ReportsInv

LEMMA ScoredNothing ==
    ASSUME NEW cases
    PROVE  Scored(<<>>, cases)
  <1>1. DOMAIN <<>> = {}
    OBVIOUS
  <1> QED
    BY <1>1 DEF Scored

LEMMA ReportsRunCase ==
    ASSUME EvaluationAssumption, IInv, ReportsInv, NEW r \in Runners, RunCase(r)
    PROVE  ReportsInv'
  <1> DEFINE c == NextCase(r)
             before == run[r].outcomes
             n == Len(before)
  <1>1. PICK o \in Observations(c, run[r].planner, run[r].execute) :
            o \in Observation /\ run' = [run EXCEPT ![r] = After(r, o)]
    BY CaseIsAdded
  <1> DEFINE e == evaluate_case(c, o)
             after == After(r, o).outcomes
  <1>2. /\ after = Append(before, e) /\ After(r, o).cases = run[r].cases
        /\ before \in Seq(Outcome) /\ n \in Nat
    BY <1>1, CaseIsAdded, AfterTyped
  <1>3. o.execution_errors => o.executed
    BY <1>1 DEF Observations, PlanningError
  <1>4. ValidDataset(run[r].cases) /\ todo[r] = <<>> /\ Scored(before, run[r].cases)
    BY DEF ReportsInv, ScoredOK, RunCase, HasCase
  <1>5. Scored(after, After(r, o).cases)
    <2> SUFFICES ASSUME NEW i \in DOMAIN after
                 PROVE  /\ after[i] = evaluate_case(run[r].cases[i], after[i].seen)
                        /\ after[i].seen.execution_errors => after[i].seen.executed
      BY <1>2 DEF Scored
    <2>1. CASE i \in DOMAIN before /\ after[i] = before[i]
      BY <1>4, <2>1 DEF Scored
    <2>2. CASE i = n + 1 /\ after[i] = e
      <3>1. after[i].seen = o
        BY <2>2 DEF evaluate_case
      <3>2. c = run[r].cases[i]
        BY <2>2 DEF NextCase
      <3> QED
        BY <1>3, <2>2, <3>1, <3>2
    <2>3. \/ i \in DOMAIN before /\ after[i] = before[i]
          \/ i = n + 1 /\ after[i] = e
      <3> HIDE DEF e, after
      <3>1. /\ DOMAIN Append(before, e) = 1..(n + 1)
            /\ Append(before, e)[n + 1] = e
            /\ \A j \in 1..n : Append(before, e)[j] = before[j]
            /\ DOMAIN before = 1..n
        BY <1>2
      <3>2. \A j \in 1..(n + 1) : j \in 1..n \/ j = n + 1
        BY <1>2
      <3> HIDE DEF n
      <3> QED
        BY <1>2, <3>1, <3>2
    <2> QED
      BY <2>1, <2>2, <2>3
  <1>6. UNCHANGED <<todo, files, alone, shared>>
    BY DEF RunCase
  <1>7. ScoredOK'
    <2> HIDE DEF after
    <2>1. Scored(After(r, o).outcomes, After(r, o).cases)
      BY <1>5 DEF after
    <2> QED
      BY <1>1, <1>2, <1>4, <1>6, <2>1, ScoredReplaced
  <1> QED
    BY <1>6, <1>7, QueuesKept DEF ReportsInv

\* A run whose reports are built is complete.
LEMMA RunIsComplete ==
    ASSUME EvaluationAssumption, IInv, ReportsInv, NEW r \in Runners,
           BuildReports(r)
    PROVE  Complete(run[r]) /\ run[r].planner \in Planners
  <1>1. run[r] \in RunState /\ run[r].planner \in Planners
    BY DEF IInv, RunsOK, BuildReports
  <1>2. run[r].cases \in Seq(Case)
    BY <1>1, CasesTyped DEF RunState
  <1>3. /\ ValidDataset(run[r].cases) /\ Scored(run[r].outcomes, run[r].cases)
        /\ Len(run[r].outcomes) = Len(run[r].cases)
    BY DEF BuildReports, ReportsInv, ScoredOK
  <1>4. run[r].outcomes \in Seq(Outcome) /\ run[r].execute \in BOOLEAN
    BY <1>1 DEF RunState
  <1> QED
    BY <1>1, <1>2, <1>3, <1>4 DEF Complete

\* A runner goes by no more when it is no longer left alone.
LEMMA RunnerWritesKept ==
    ASSUME NEW r \in Runners, RunnerWrites(r), todo'[r] = todo[r], files' = files,
           r \in alone' => r \in alone
    PROVE  RunnerWrites(r)'
  <1>1. ASSUME NEW t \in Planners, NEW x, NEW digest, Complete(x),
               todo[r] = <<Failures(t, x, digest)>>,
               r \in alone => files[<<t, "baseline">>] = EvaluationReport(x, digest)
        PROVE  RunnerWrites(r)'
    <2>1. \E y, sha : /\ Complete(y) /\ todo'[r] = <<Failures(t, y, sha)>>
                      /\ r \in alone' =>
                            files'[<<t, "baseline">>] = EvaluationReport(y, sha)
      BY <1>1
    <2> QED
      BY <2>1 DEF RunnerWrites
  <1>2. CASE \/ todo[r] = <<>>
             \/ \E t \in Planners : \E status :
                  todo[r] = <<[path |-> <<t, "evaluation_status">>, report |-> status]>>
             \/ \E t \in Planners : \E x, digest :
                  /\ Complete(x)
                  /\ todo[r] = <<Baseline(t, x, digest), Failures(t, x, digest)>>
    BY <1>2 DEF RunnerWrites
  <1> QED
    BY <1>1, <1>2 DEF RunnerWrites

\* A runner that had nothing to write gets its reports: its rivals are not left
\* alone from here on, and neither is it if it has any.
LEMMA ReportsDeliver ==
    ASSUME EvaluationAssumption, IInv, ReportsInv, NEW r \in Runners, NEW writes, Deliver(r, writes),
           run[r].pc # "idle", writes # <<>>,
           Head(writes).path[1] = run[r].planner,
           \/ \E t \in Planners : \E report :
                writes = <<[path |-> <<t, "evaluation_status">>, report |-> report]>>
           \/ \E t \in Planners : \E x, digest :
                Complete(x)
                    /\ writes = <<Baseline(t, x, digest), Failures(t, x, digest)>>
    PROVE  ReportsInv'
  <1>1. /\ todo' = [todo EXCEPT ![r] = writes] /\ UNCHANGED <<files, shared>>
        /\ run' = [run EXCEPT ![r] = Idle]
        /\ alone' = IF Rivals(r) = {} THEN alone \cup {r}
                    ELSE alone \ (Rivals(r) \cup {r})
    BY DEF Deliver
  <1>2. /\ todo'[r] = writes
        /\ \A q \in Programs \ {r} : todo'[q] = todo[q]
    BY <1>1 DEF IInv, TodoOK, Programs
  <1>3. todo[r] = <<>> /\ r \notin shared
    BY DEF ReportsInv, ScoredOK, IInv, OpenOK
  <1>4. \A q \in Runners \ {r} : q \in alone' => q \in alone /\ q \notin Rivals(r)
    BY <1>1 DEF Rivals
  <1>5. r \in alone' => Rivals(r) = {}
    BY <1>1
  <1>6. AloneOK'
    <2>1. ASSUME NEW a \in alone', NEW q \in Runners \ {a},
                 todo'[a] # <<>>, todo'[q] # <<>>
          PROVE  Target(q)'[1] # Target(a)'[1]
      <3>1. a \in Runners
        BY <1>1 DEF IInv, OpenOK
      <3>2. CASE a = r
        <4>1. todo'[q] = todo[q] /\ q \notin Rivals(r)
          BY <1>2, <1>5, <2>1, <3>2 DEF Programs
        <4> QED
          BY <1>2, <2>1, <3>2, <4>1 DEF Rivals, Target
      <3>3. CASE q = r
        <4>1. todo'[a] = todo[a] /\ a \notin Rivals(r)
          BY <1>2, <1>4, <2>1, <3>1, <3>3 DEF Programs
        <4> QED
          BY <1>2, <2>1, <3>1, <3>3, <4>1 DEF Rivals, Target
      <3>4. CASE a # r /\ q # r
        <4>1. todo'[a] = todo[a] /\ todo'[q] = todo[q] /\ a \in alone
          BY <1>2, <1>4, <2>1, <3>1, <3>4 DEF Programs
        <4> QED
          BY <2>1, <4>1 DEF ReportsInv, AloneOK, Target
      <3> QED
        BY <3>2, <3>3, <3>4
    <2>2. alone' \cap shared' = {}
      <3>1. alone' \subseteq alone \cup {r}
        BY <1>1
      <3> QED
        BY <1>1, <1>3, <3>1 DEF ReportsInv, AloneOK
    <2> QED
      BY <2>1, <2>2 DEF AloneOK
  <1>7. \A q \in Runners : RunnerWrites(q)'
    <2>1. RunnerWrites(r)'
      BY <1>2 DEF RunnerWrites
    <2>2. ASSUME NEW q \in Runners \ {r}
          PROVE  RunnerWrites(q)'
      <3>1. todo'[q] = todo[q] /\ files' = files /\ (q \in alone' => q \in alone)
        BY <1>1, <1>2, <1>4 DEF Programs
      <3>2. RunnerWrites(q)
        BY DEF ReportsInv
      <3> QED
        BY <3>1, <3>2, RunnerWritesKept
    <2> QED
      BY <2>1, <2>2
  <1>8. ScoredOK'
    <2>1. \A q \in Runners : run'[q] = IF q = r THEN Idle ELSE run[q]
      BY <1>1 DEF IInv, RunsOK
    <2>2. Idle.pc = "idle" /\ Idle.outcomes = <<>>
      BY DEF Idle
    <2>3. \A q \in Runners \ {r} : todo'[q] = todo[q]
      BY <1>2 DEF Programs
    <2> QED
      BY <2>1, <2>2, <2>3, ScoredNothing DEF ScoredOK, ReportsInv
  <1>9. ComparisonApart' /\ FilesFound'
    <2>1. todo'["comparison"] = todo["comparison"] /\ files' = files
      BY <1>1, <1>2 DEF Programs, EvaluationAssumption
    <2> QED
      BY <2>1 DEF ReportsInv, ComparisonApart, FilesFound
  <1> QED
    BY <1>6, <1>7, <1>8, <1>9 DEF ReportsInv

LEMMA ReportsBuild ==
    ASSUME EvaluationAssumption, IInv, ReportsInv, NEW r \in Runners,
           BuildReports(r)
    PROVE  ReportsInv'
  <1> DEFINE t == run[r].planner
             writes == <<Baseline(t, run[r], dataset), Failures(t, run[r], dataset)>>
  <1>1. Complete(run[r]) /\ t \in Planners
    BY RunIsComplete
  <1>2. Deliver(r, writes) /\ run[r].pc # "idle"
    BY DEF BuildReports, Write, Baseline, Failures
  <1>3. writes # <<>> /\ Head(writes).path[1] = t
    BY PairOfWrites DEF Baseline
  <1>4. \E u \in Planners : \E x, digest :
            Complete(x) /\ writes = <<Baseline(u, x, digest), Failures(u, x, digest)>>
    BY <1>1
  <1> HIDE DEF writes
  <1> QED
    BY <1>2, <1>3, <1>4, ReportsDeliver

LEMMA ReportsGate ==
    ASSUME EvaluationAssumption, IInv, ReportsInv, NEW r \in Runners, Gate(r)
    PROVE  ReportsInv'
  <1> DEFINE report == GateReport(run[r], dataset)
             t == run[r].planner
             x == [path |-> <<t, "evaluation_status">>, report |-> report]
             writes == <<x>>
  <1>1. t \in Planners /\ run[r].pc # "idle"
    BY DEF Gate, IInv, RunsOK
  <1>2. Deliver(r, writes)
    BY DEF Gate, Write
  <1>3. writes # <<>> /\ Head(writes).path[1] = t
    OBVIOUS
  <1>4. \E u \in Planners : \E status :
            writes = <<[path |-> <<u, "evaluation_status">>, report |-> status]>>
    BY <1>1
  <1> HIDE DEF writes, x, report
  <1> QED
    BY <1>1, <1>2, <1>3, <1>4, ReportsDeliver

\* A step of the comparison: the runners' queues and the files stay.
LEMMA ReportsComparison ==
    ASSUME EvaluationAssumption, IInv, ReportsInv,
           UNCHANGED <<run, files, alone, shared>>, NEW x, x.path[1] = "planner",
           \/ todo' = [todo EXCEPT !["comparison"] = <<x>>]
           \/ todo' = todo
    PROVE  ReportsInv'
  <1>1. /\ \A r \in Runners : todo'[r] = todo[r]
        /\ todo'["comparison"] = <<x>> \/ todo'["comparison"] = todo["comparison"]
    BY DEF IInv, TodoOK, Programs, EvaluationAssumption
  <1>2. \A r \in Runners : RunnerWrites(r)'
    <2> SUFFICES ASSUME NEW r \in Runners
                 PROVE  RunnerWrites(r)'
      OBVIOUS
    <2>1. RunnerWrites(r) /\ todo'[r] = todo[r] /\ UNCHANGED <<files, alone>>
      BY <1>1 DEF ReportsInv
    <2> QED
      BY <2>1 DEF RunnerWrites
  <1>3. ComparisonApart'
    <2>1. DOMAIN <<x>> = {1} /\ <<x>>[1] = x
      OBVIOUS
    <2> QED
      BY <1>1, <2>1 DEF ReportsInv, ComparisonApart
  <1>4. AloneOK'
    <2>1. alone \subseteq Runners
      BY DEF IInv, OpenOK
    <2> QED
      BY <1>1, <2>1 DEF ReportsInv, AloneOK, Target
  <1>5. ScoredOK' /\ FilesFound'
    BY <1>1 DEF ReportsInv, ScoredOK, FilesFound
  <1> QED
    BY <1>2, <1>3, <1>4, <1>5 DEF ReportsInv

LEMMA ReportsReads ==
    ASSUME EvaluationAssumption, IInv, ReportsInv, ReadRule \/ ReadLLM
    PROVE  ReportsInv'
  <1>1. UNCHANGED <<run, files, alone, shared>>
    BY DEF ReadRule, ReadLLM
  <1>2. ASSUME NEW status, Refuse(status)
        PROVE  ReportsInv'
    <2> DEFINE x == [path |-> <<"planner", "comparison_status">>,
                     report |-> Refusal(status)]
    <2>1. x.path[1] = "planner" /\ todo' = [todo EXCEPT !["comparison"] = <<x>>]
      BY <1>2 DEF Refuse
    <2> HIDE DEF x
    <2> QED
      BY <1>1, <2>1, ReportsComparison
  <1>3. CASE ReadRule
    <2>1. CASE UNCHANGED todo
      <3> DEFINE x == [path |-> <<"planner">>]
      <3>1. x.path[1] = "planner"
        OBVIOUS
      <3> HIDE DEF x
      <3> QED
        BY <1>1, <2>1, <3>1, ReportsComparison
    <2>2. CASE Refuse("INPUT_UNREADABLE")
      BY <1>2, <2>2
    <2> QED
      BY <1>3, <2>1, <2>2 DEF ReadRule
  <1>4. CASE ReadLLM
    <2> DEFINE x == [path |-> <<"planner", "comparison">>,
                     report |-> ComparisonReport(rule, files[<<"llm", "baseline">>])]
    <2>1. x.path[1] = "planner"
      OBVIOUS
    <2>2. \/ Refuse("LLM_EVALUATION_NOT_RUN") \/ Refuse("DATASET_MISMATCH")
          \/ todo' = [todo EXCEPT !["comparison"] = <<x>>]
      BY <1>4 DEF ReadLLM
    <2> HIDE DEF x
    <2> QED
      BY <1>1, <1>2, <2>1, <2>2, ReportsComparison
  <1> QED
    BY <1>3, <1>4

\* Where a runner writes: to files of its planner, now and next.
LEMMA RunnerTarget ==
    ASSUME NEW r \in Runners, RunnerWrites(r), todo[r] # <<>>
    PROVE  \E t \in Planners :
             /\ Target(r)[1] = t
             /\ Tail(todo[r]) # <<>> => Head(Tail(todo[r])).path[1] = t
  <1>1. ASSUME NEW t \in Planners, NEW report,
               todo[r] = <<[path |-> <<t, "evaluation_status">>, report |-> report]>>
        PROVE  Target(r)[1] = t /\ Tail(todo[r]) = <<>>
    <2> DEFINE x == [path |-> <<t, "evaluation_status">>, report |-> report]
    <2>1. Head(todo[r]) = x /\ Tail(todo[r]) = <<>>
      <3> HIDE DEF x
      <3> QED
        BY <1>1, OneWrite DEF x
    <2> QED
      BY <2>1 DEF Target
  <1>2. ASSUME NEW t \in Planners, NEW x, NEW digest,
               todo[r] = <<Baseline(t, x, digest), Failures(t, x, digest)>>
        PROVE  /\ Target(r)[1] = t
               /\ Head(Tail(todo[r])).path[1] = t
    <2>1. /\ Head(todo[r]) = Baseline(t, x, digest)
          /\ Tail(todo[r]) = <<Failures(t, x, digest)>>
      BY <1>2, PairOfWrites
    <2>2. Head(Tail(todo[r])) = Failures(t, x, digest)
      BY <2>1, OneWrite
    <2> QED
      BY <2>1, <2>2 DEF Target, Baseline, Failures
  <1>3. ASSUME NEW t \in Planners, NEW x, NEW digest,
               todo[r] = <<Failures(t, x, digest)>>
        PROVE  Target(r)[1] = t /\ Tail(todo[r]) = <<>>
    <2>1. Head(todo[r]) = Failures(t, x, digest) /\ Tail(todo[r]) = <<>>
      BY <1>3, OneWrite
    <2> QED
      BY <2>1 DEF Target, Failures
  <1> QED
    BY <1>1, <1>2, <1>3 DEF RunnerWrites

LEMMA ComparisonTarget ==
    ASSUME IInv, ReportsInv, todo["comparison"] # <<>>
    PROVE  Target("comparison")[1] = "planner"
  <1> DEFINE U == UNION {ToSet(todo[q]) : q \in Programs}
             q == todo["comparison"]
  <1>1. q \in Seq(U) /\ q # <<>>
    BY DEF IInv, TodoOK, Programs
  <1> HIDE DEF U
  <1>2. 1 \in DOMAIN q /\ Head(q) = q[1]
    BY <1>1
  <1> QED
    BY <1>2 DEF ReportsInv, ComparisonApart, Target

\* No other program writes where a runner that is left alone writes.
LEMMA ApartFromOthers ==
    ASSUME IInv, ReportsInv, NEW r \in alone, todo[r] # <<>>,
           NEW p \in Programs \ {r}, todo[p] # <<>>
    PROVE  Target(p)[1] # Target(r)[1]
  <1>1. r \in Runners
    BY DEF IInv, OpenOK
  <1>2. CASE p \in Runners
    BY <1>2 DEF ReportsInv, AloneOK
  <1>3. CASE p = "comparison"
    <2>1. RunnerWrites(r)
      BY <1>1 DEF ReportsInv
    <2>2. Target(r)[1] \in Planners
      BY <1>1, <2>1, RunnerTarget
    <2>3. Target(p)[1] = "planner"
      BY <1>3, ComparisonTarget
    <2> QED
      BY <2>2, <2>3, ReportPaths
  <1> QED
    BY <1>2, <1>3 DEF Programs

\* A baseline that a runner left alone goes by is not another's target.
LEMMA BaselineKept ==
    ASSUME IInv, ReportsInv, NEW r \in alone, NEW t \in Planners, NEW x, NEW digest,
           todo[r] = <<Failures(t, x, digest)>>,
           NEW p \in Programs, todo[p] # <<>>
    PROVE  Target(p) # <<t, "baseline">>
  <1>1. Head(todo[r]) = Failures(t, x, digest) /\ todo[r] # <<>>
    BY OneWrite
  <1>2. Target(r) = <<t, "failures">>
    BY <1>1 DEF Target, Failures
  <1>3. CASE p = r
    BY <1>2, <1>3
  <1>4. CASE p # r
    <2>1. Target(p)[1] # t
      BY <1>1, <1>2, <1>4, ApartFromOthers
    <2> QED
      BY <2>1
  <1> QED
    BY <1>3, <1>4

\* What another program writes does not disturb what a runner goes by.
LEMMA OtherWrites ==
    ASSUME IInv, ReportsInv, NEW p \in Programs, todo[p] # <<>>, NEW report,
           files' = [files EXCEPT ![Target(p)] = report], alone' = alone,
           NEW r \in Runners, todo'[r] = todo[r]
    PROVE  RunnerWrites(r)'
  <1>1. RunnerWrites(r) /\ DOMAIN files = Paths
    BY DEF ReportsInv, IInv
  <1>2. ASSUME NEW t \in Planners, NEW x, NEW digest, Complete(x),
               todo[r] = <<Failures(t, x, digest)>>,
               r \in alone => files[<<t, "baseline">>] = EvaluationReport(x, digest)
        PROVE  RunnerWrites(r)'
    <2>1. r \in alone => Target(p) # <<t, "baseline">>
      BY <1>2, BaselineKept
    <2>2. r \in alone' => files'[<<t, "baseline">>] = EvaluationReport(x, digest)
      BY <1>1, <1>2, <2>1, ReportPaths
    <2>3. \E y, sha : /\ Complete(y) /\ todo'[r] = <<Failures(t, y, sha)>>
                      /\ r \in alone' =>
                            files'[<<t, "baseline">>] = EvaluationReport(y, sha)
      BY <1>2, <2>2
    <2> QED
      BY <2>3 DEF RunnerWrites
  <1>3. CASE \/ todo[r] = <<>>
             \/ \E t \in Planners : \E status :
                  todo[r] = <<[path |-> <<t, "evaluation_status">>, report |-> status]>>
             \/ \E t \in Planners : \E x, digest :
                  /\ Complete(x)
                  /\ todo[r] = <<Baseline(t, x, digest), Failures(t, x, digest)>>
    BY <1>3 DEF RunnerWrites
  <1> QED
    BY <1>1, <1>2, <1>3 DEF RunnerWrites

LEMMA FilesReplaced ==
    ASSUME IInv, ReportsInv, NEW path, NEW report,
           files' = [files EXCEPT ![path] = report],
           \A t \in Planners : path = <<t, "baseline">> => BaselineFound(report),
           \A t \in Planners : path = <<t, "failures">> => FailuresFound(report)
    PROVE  FilesFound'
  <1> SUFFICES ASSUME NEW t \in Planners
               PROVE  /\ BaselineFound(files'[<<t, "baseline">>])
                      /\ FailuresFound(files'[<<t, "failures">>])
    BY DEF FilesFound
  <1>1. /\ BaselineFound(files[<<t, "baseline">>])
        /\ FailuresFound(files[<<t, "failures">>])
    BY DEF ReportsInv, FilesFound
  <1>2. /\ DOMAIN files = Paths /\ <<t, "baseline">> \in Paths
        /\ <<t, "failures">> \in Paths
    BY ReportPaths DEF IInv
  <1>3. /\ files'[<<t, "baseline">>]
            = IF path = <<t, "baseline">> THEN report ELSE files[<<t, "baseline">>]
        /\ files'[<<t, "failures">>]
            = IF path = <<t, "failures">> THEN report ELSE files[<<t, "failures">>]
    BY <1>2
  <1> QED
    BY <1>1, <1>3

LEMMA GarbledFound == BaselineFound(Garbled) /\ FailuresFound(Garbled)
  BY DEF BaselineFound, FailuresFound

\* The first half of a write, and a write over another's.
LEMMA ReportsSpoil ==
    ASSUME IInv, ReportsInv, NEW p \in Programs, Truncate(p) \/ Mix(p)
    PROVE  ReportsInv'
  <1>1. /\ todo[p] # <<>> /\ files' = [files EXCEPT ![Target(p)] = Garbled]
        /\ UNCHANGED <<todo, run, alone>>
    BY DEF Truncate, Mix, IInv, OpenOK
  <1>2. FilesFound'
    BY <1>1, GarbledFound, FilesReplaced
  <1>3. \A r \in Runners : RunnerWrites(r)'
    BY <1>1, OtherWrites
  <1>4. alone \cap shared' = {}
    <2>1. CASE shared' = shared
      BY <2>1 DEF ReportsInv, AloneOK
    <2>2. CASE Truncate(p) /\ Sharers(p) # {}
      <3>1. shared' = shared \cup Sharers(p) \cup {p}
        BY <2>2 DEF Truncate
      <3>2. ASSUME NEW q \in Sharers(p)
            PROVE  /\ q \in Programs /\ q # p /\ todo[q] # <<>>
                   /\ Target(q)[1] = Target(p)[1]
        BY DEF Sharers, IInv, OpenOK
      <3>3. p \notin alone
        <4>1. PICK q \in Sharers(p) : TRUE
          BY <2>2
        <4> QED
          BY <1>1, <3>2, <4>1, ApartFromOthers
      <3>4. \A q \in Sharers(p) : q \notin alone
        BY <1>1, <3>2, ApartFromOthers
      <3> QED
        BY <3>1, <3>3, <3>4 DEF ReportsInv, AloneOK
    <2> QED
      BY <2>1, <2>2 DEF Truncate, Mix
  <1>5. AloneOK'
    BY <1>1, <1>4 DEF ReportsInv, AloneOK, Target
  <1>6. ScoredOK' /\ ComparisonApart'
    BY <1>1 DEF ReportsInv, ScoredOK, ComparisonApart
  <1> QED
    BY <1>2, <1>3, <1>5, <1>6 DEF ReportsInv

\* Entries leave a queue: what is left of it goes to the same place.
LEMMA QueueShrinks ==
    ASSUME EvaluationAssumption, IInv, ReportsInv, NEW p \in Programs, NEW s,
           todo' = [todo EXCEPT ![p] = s],
           s = <<>> \/ (s = Tail(todo[p]) /\ todo[p] # <<>>),
           UNCHANGED <<run, alone>>, shared' \subseteq shared
    PROVE  ScoredOK' /\ AloneOK' /\ ComparisonApart'
  <1>1. todo'[p] = s /\ \A q \in Programs \ {p} : todo'[q] = todo[q]
    BY DEF IInv, TodoOK
  <1>2. \A r \in Runners : todo[r] = <<>> => todo'[r] = <<>>
    BY <1>1 DEF Programs
  <1>3. ScoredOK'
    BY <1>2 DEF ReportsInv, ScoredOK
  <1>4. ASSUME NEW r \in Runners, todo'[r] # <<>>
        PROVE  Target(r)'[1] = Target(r)[1] /\ todo[r] # <<>>
    <2>1. CASE r = p
      <3>1. s = Tail(todo[r]) /\ todo[r] # <<>> /\ RunnerWrites(r)
        BY <1>1, <1>4, <2>1 DEF ReportsInv
      <3>2. Head(Tail(todo[r])).path[1] = Target(r)[1]
        BY <1>1, <1>4, <2>1, <3>1, RunnerTarget
      <3> QED
        BY <1>1, <2>1, <3>1, <3>2 DEF Target
    <2>2. CASE r # p
      BY <1>1, <1>4, <2>2 DEF Target, Programs
    <2> QED
      BY <2>1, <2>2
  <1>5. AloneOK'
    <2>1. alone \subseteq Runners
      BY DEF IInv, OpenOK
    <2>2. ASSUME NEW r \in alone, NEW q \in Runners \ {r},
                 todo'[r] # <<>>, todo'[q] # <<>>
          PROVE  Target(q)'[1] # Target(r)'[1]
      <3>1. /\ Target(r)'[1] = Target(r)[1] /\ todo[r] # <<>>
            /\ Target(q)'[1] = Target(q)[1] /\ todo[q] # <<>>
        BY <1>4, <2>1, <2>2
      <3> QED
        BY <3>1 DEF ReportsInv, AloneOK
    <2> QED
      BY <2>2 DEF ReportsInv, AloneOK
  <1>6. ComparisonApart'
    <2> DEFINE U == UNION {ToSet(todo[q]) : q \in Programs}
               c == todo["comparison"]
    <2>1. c \in Seq(U) /\ "comparison" \in Programs
      BY DEF IInv, TodoOK, Programs
    <2>2. \A i \in DOMAIN c : c[i].path[1] = "planner"
      BY DEF ReportsInv, ComparisonApart
    <2> HIDE DEF U
    <2>3. CASE todo'["comparison"] = c
      BY <2>2, <2>3 DEF ComparisonApart
    <2>4. CASE todo'["comparison"] = <<>>
      <3>1. DOMAIN <<>> = {}
        OBVIOUS
      <3> QED
        BY <2>4, <3>1 DEF ComparisonApart
    <2>5. CASE todo'["comparison"] = Tail(c) /\ c # <<>>
      <3>1. \A i \in DOMAIN Tail(c) : i + 1 \in DOMAIN c /\ Tail(c)[i] = c[i + 1]
        BY <2>1, <2>5
      <3> HIDE DEF c
      <3> QED
        BY <2>2, <2>5, <3>1 DEF ComparisonApart
    <2> QED
      BY <1>1, <2>1, <2>3, <2>4, <2>5
  <1> QED
    BY <1>3, <1>5, <1>6

\* What a program may put at its target.
LEMMA FilledWith ==
    ASSUME NEW p, Fill(p)
    PROVE  \E report :
             /\ files' = [files EXCEPT ![Target(p)] = report]
             /\ \/ report = Head(todo[p]).report
                \/ p \in shared /\ report = Garbled
    BY DEF Fill

\* A runner's second half of a write.
LEMMA RunnerFill ==
    ASSUME EvaluationAssumption, IInv, ReportsInv, NEW r \in Runners, Fill(r)
    PROVE  RunnerWrites(r)' /\ FilesFound'
  <1> DEFINE q == todo[r]
  <1>1. PICK report : /\ files' = [files EXCEPT ![Target(r)] = report]
                      /\ \/ report = Head(q).report
                         \/ r \in shared /\ report = Garbled
    BY FilledWith
  <1>2. /\ todo'[r] = Tail(q) /\ q # <<>> /\ DOMAIN files = Paths /\ alone' = alone
        /\ RunnerWrites(r) /\ (r \in shared => r \notin alone)
    BY DEF Fill, IInv, TodoOK, OpenOK, Programs, ReportsInv, AloneOK
  <1>3. ASSUME NEW t \in Planners, NEW status,
               q = <<[path |-> <<t, "evaluation_status">>, report |-> status]>>
        PROVE  RunnerWrites(r)' /\ FilesFound'
    <2> DEFINE x == [path |-> <<t, "evaluation_status">>, report |-> status]
    <2>1. Head(q) = x /\ Tail(q) = <<>>
      <3> HIDE DEF x
      <3> QED
        BY <1>3, OneWrite DEF x
    <2>2. Target(r) = <<t, "evaluation_status">>
      BY <2>1 DEF Target
    <2>3. \A u \in Planners : /\ Target(r) # <<u, "baseline">>
                              /\ Target(r) # <<u, "failures">>
      BY <2>2
    <2>4. RunnerWrites(r)'
      BY <1>2, <2>1 DEF RunnerWrites
    <2> HIDE DEF q
    <2> QED
      BY <1>1, <2>3, <2>4, FilesReplaced
  <1>4. ASSUME NEW t \in Planners, NEW x, NEW digest, Complete(x),
               q = <<Baseline(t, x, digest), Failures(t, x, digest)>>
        PROVE  RunnerWrites(r)' /\ FilesFound'
    <2>1. Head(q) = Baseline(t, x, digest) /\ Tail(q) = <<Failures(t, x, digest)>>
      BY <1>4, PairOfWrites
    <2>2. /\ Target(r) = <<t, "baseline">>
          /\ Head(q).report = EvaluationReport(x, digest)
      BY <2>1 DEF Baseline, Target
    <2>3. BaselineFound(report)
      BY <1>1, <1>4, <2>2, GarbledFound DEF BaselineFound
    <2>4. \A u \in Planners : Target(r) # <<u, "failures">>
      BY <2>2
    <2>5. r \in alone' => files'[<<t, "baseline">>] = EvaluationReport(x, digest)
      BY <1>1, <1>2, <2>2, ReportPaths
    <2>6. RunnerWrites(r)'
      <3>1. \E y, sha : /\ Complete(y) /\ todo'[r] = <<Failures(t, y, sha)>>
                        /\ r \in alone' =>
                            files'[<<t, "baseline">>] = EvaluationReport(y, sha)
        BY <1>2, <1>4, <2>1, <2>5
      <3> QED
        BY <3>1 DEF RunnerWrites
    <2> HIDE DEF q
    <2> QED
      BY <1>1, <2>3, <2>4, <2>6, FilesReplaced
  <1>5. ASSUME NEW t \in Planners, NEW x, NEW digest, Complete(x),
               q = <<Failures(t, x, digest)>>
        PROVE  RunnerWrites(r)' /\ FilesFound'
    <2>1. Head(q) = Failures(t, x, digest) /\ Tail(q) = <<>>
      BY <1>5, OneWrite
    <2>2. /\ Target(r) = <<t, "failures">>
          /\ Head(q).report = FailureReport(x, digest)
      BY <2>1 DEF Failures, Target
    <2>3. FailuresFound(report)
      BY <1>1, <1>5, <2>2, GarbledFound DEF FailuresFound
    <2>4. \A u \in Planners : Target(r) # <<u, "baseline">>
      BY <2>2
    <2>5. RunnerWrites(r)'
      BY <1>2, <2>1 DEF RunnerWrites
    <2> HIDE DEF q
    <2> QED
      BY <1>1, <2>3, <2>4, <2>5, FilesReplaced
  <1> QED
    BY <1>2, <1>3, <1>4, <1>5 DEF RunnerWrites

LEMMA ReportsFill ==
    ASSUME EvaluationAssumption, IInv, ReportsInv, NEW p \in Programs, Fill(p)
    PROVE  ReportsInv'
  <1>1. PICK report : files' = [files EXCEPT ![Target(p)] = report]
    BY FilledWith
  <1>2. /\ todo[p] # <<>> /\ todo' = [todo EXCEPT ![p] = Tail(todo[p])]
        /\ UNCHANGED <<run, alone>> /\ shared' \subseteq shared
    BY DEF Fill, IInv, OpenOK, TodoOK
  <1>3. ScoredOK' /\ AloneOK' /\ ComparisonApart'
    BY <1>2, QueueShrinks
  <1>4. \A r \in Runners \ {p} : RunnerWrites(r)'
    <2>1. \A r \in Runners \ {p} : todo'[r] = todo[r]
      BY <1>2 DEF IInv, TodoOK, Programs
    <2> QED
      BY <1>1, <1>2, <2>1, OtherWrites
  <1>5. CASE p \in Runners
    BY <1>3, <1>4, <1>5, RunnerFill DEF ReportsInv
  <1>6. CASE p = "comparison"
    <2>1. \A t \in Planners : /\ Target(p) # <<t, "baseline">>
                              /\ Target(p) # <<t, "failures">>
      <3>1. Target(p)[1] = "planner"
        BY <1>2, <1>6, ComparisonTarget
      <3>2. \A t \in Planners : /\ <<t, "baseline">>[1] = t
                                /\ <<t, "failures">>[1] = t /\ t # "planner"
        BY ReportPaths
      <3> QED
        BY <3>1, <3>2
    <2>2. FilesFound'
      BY <1>1, <2>1, FilesReplaced
    <2>3. p \notin Runners
      BY <1>6 DEF EvaluationAssumption
    <2> QED
      BY <1>3, <1>4, <2>2, <2>3 DEF ReportsInv
  <1> QED
    BY <1>5, <1>6 DEF Programs

LEMMA ReportsKill ==
    ASSUME EvaluationAssumption, IInv, ReportsInv, NEW p \in Programs, Kill(p)
    PROVE  ReportsInv'
  <1>1. /\ UNCHANGED <<run, files, alone>> /\ todo' = [todo EXCEPT ![p] = <<>>]
        /\ shared' \subseteq shared
    BY DEF Kill
  <1>2. ScoredOK' /\ AloneOK' /\ ComparisonApart'
    BY <1>1, QueueShrinks
  <1>3. \A r \in Runners : RunnerWrites(r)'
    <2> SUFFICES ASSUME NEW r \in Runners
                 PROVE  RunnerWrites(r)'
      OBVIOUS
    <2>1. todo'[r] = todo[r] \/ todo'[r] = <<>>
      BY <1>1 DEF IInv, TodoOK, Programs
    <2>2. RunnerWrites(r)
      BY DEF ReportsInv
    <2> QED
      BY <1>1, <2>1, <2>2 DEF RunnerWrites
  <1>4. FilesFound'
    BY <1>1 DEF ReportsInv, FilesFound
  <1> QED
    BY <1>2, <1>3, <1>4 DEF ReportsInv

LEMMA ReportsNext ==
    ASSUME EvaluationAssumption, IInv, ReportsInv, [Next]_vars
    PROVE  ReportsInv'
  <1>1. CASE EditDataset \/ UNCHANGED vars
    <2>1. UNCHANGED <<run, todo, files, alone, shared>>
      BY <1>1 DEF EditDataset, vars
    <2>2. ScoredOK'
      BY <2>1 DEF ReportsInv, ScoredOK
    <2> QED
      BY <2>1, <2>2, QueuesKept DEF ReportsInv
  <1>2. ASSUME NEW r \in Runners, CaseRaises(r)
        PROVE  ReportsInv'
    <2>1. /\ UNCHANGED <<todo, files, alone, shared>>
          /\ run' = [run EXCEPT ![r] = Idle]
          /\ Idle.pc = "idle" /\ Idle.outcomes = <<>>
      BY <1>2 DEF CaseRaises, Idle
    <2>2. ScoredOK'
      BY <2>1, ScoredNothing, ScoredReplaced
    <2> QED
      BY <2>1, <2>2, QueuesKept DEF ReportsInv
  <1>3. ASSUME NEW r \in Runners, NEW option \in Options,
               Load(r, option[1], option[2])
        PROVE  ReportsInv'
    <2> DEFINE state == [Idle EXCEPT !.pc = "loaded", !.planner = option[1],
                                     !.execute = option[2], !.cases = dataset]
    <2>1. /\ UNCHANGED <<todo, files, alone, shared>> /\ todo[r] = <<>>
          /\ run' = [run EXCEPT ![r] = state] /\ ValidDataset(dataset)
      BY <1>3 DEF Load
    <2>2. state.outcomes = <<>> /\ state.cases = dataset
      BY DEF Idle
    <2> HIDE DEF state
    <2>3. ScoredOK'
      BY <2>1, <2>2, ScoredNothing, ScoredReplaced
    <2> QED
      BY <2>1, <2>3, QueuesKept DEF ReportsInv
  <1> QED
    BY <1>1, <1>2, <1>3, ReportsRunCase, ReportsBuild, ReportsGate, ReportsReads,
       ReportsSpoil, ReportsFill, ReportsKill DEF Next

LEMMA ReportsInit ==
    ASSUME Init
    PROVE  ReportsInv
  <1>1. ScoredOK
    BY ScoredNothing DEF Init, Idle, ScoredOK, Programs
  <1>2. AloneOK /\ ComparisonApart
    <2>1. todo["comparison"] = <<>> /\ DOMAIN <<>> = {}
      BY DEF Init, Programs
    <2> QED
      BY <2>1 DEF Init, AloneOK, ComparisonApart
  <1>3. FilesFound
    <2>1. \A t \in Planners : /\ files[<<t, "baseline">>] = Absent
                              /\ files[<<t, "failures">>] = Absent
      BY ReportPaths DEF Init
    <2> QED
      BY <2>1 DEF FilesFound, BaselineFound, FailuresFound
  <1>4. \A r \in Runners : RunnerWrites(r)
    BY DEF Init, RunnerWrites, Programs
  <1> QED
    BY <1>1, <1>2, <1>3, <1>4 DEF ReportsInv

LEMMA ReportsInvariant ==
    ASSUME EvaluationAssumption
    PROVE  Spec => [](IInv /\ ReportsInv)
  <1>1. Init => IInv /\ ReportsInv
    BY InitTyped, ReportsInit
  <1>2. IInv /\ ReportsInv /\ [Next]_vars => (IInv /\ ReportsInv)'
    BY NextTyped, ReportsNext
  <1> QED
    BY <1>1, <1>2, PTL DEF Spec

\* Whatever the answer key holds and the planners do, a baseline that is found
\* whole publishes proportions of what was measured, or null where nothing was,
\* and counts every case once (evaluator.py, aggregate).
THEOREM MetricsAreSound ==
    ASSUME EvaluationAssumption
    PROVE  Spec => []MetricsAreProportions
  <1>1. ReportsInv => MetricsAreProportions
    <2> SUFFICES ASSUME ReportsInv, NEW b \in Baselines
                 PROVE  Proportional(b)
      BY DEF MetricsAreProportions, Proportional, Proportion
    <2>1. PICK t \in Planners : b = files[<<t, "baseline">>] /\ b \notin {Absent, Garbled}
      BY DEF Baselines
    <2>2. PICK r, digest : Complete(r) /\ b = EvaluationReport(r, digest)
      BY <2>1 DEF ReportsInv, FilesFound, BaselineFound
    <2> QED
      BY <2>2, BaselineProportional
  <1> QED
    BY <1>1, ReportsInvariant, PTL

\* Each record of a failure report shows the failures it lists, of its own
\* case, although it is put together by two lookups by identifier
\* (runner.py, _failure_record).
THEOREM FailureRecordsAreTrue ==
    ASSUME EvaluationAssumption
    PROVE  Spec => []FailuresTellTheirCase
  <1>1. ReportsInv => FailuresTellTheirCase
    <2> SUFFICES ASSUME ReportsInv, NEW t \in Planners,
                        files[<<t, "failures">>].status = "OK"
                 PROVE  Telling(files[<<t, "failures">>].failures)
      BY DEF FailuresTellTheirCase, Telling
    <2>1. files[<<t, "failures">>] \notin {Absent, Garbled}
      BY DEF Absent, Garbled
    <2>2. PICK r, digest :
              Complete(r) /\ files[<<t, "failures">>] = FailureReport(r, digest)
      BY <2>1 DEF ReportsInv, FilesFound, FailuresFound
    <2>3. files[<<t, "failures">>].failures = FailureRecords(r.cases, r.outcomes)
      BY <2>2 DEF FailureReport
    <2> QED
      BY <2>2, <2>3, FailuresTelling
  <1> QED
    BY <1>1, ReportsInvariant, PTL

\* The last write of a runner that was left alone is its failure report, and
\* its baseline is in place.
LEMMA LastWrite ==
    ASSUME EvaluationAssumption, IInv, ReportsInv, [Next]_vars,
           NEW r \in alone, NEW t \in Planners,
           todo[r] # <<>>, todo'[r] = <<>>, files' # files,
           Target(r) = <<t, "failures">>
    PROVE  \E x, digest :
             /\ Complete(x)
             /\ files'[<<t, "failures">>] = FailureReport(x, digest)
             /\ files'[<<t, "baseline">>] = EvaluationReport(x, digest)
  <1>1. r \in Runners /\ r \notin shared
    BY DEF IInv, OpenOK, ReportsInv, AloneOK
  <1>2. Fill(r)
    <2>1. \E p \in Programs : Truncate(p) \/ Fill(p) \/ Mix(p)
      BY DEF Next, vars, EditDataset, Kill, Load, Gate, RunCase, CaseRaises,
             BuildReports, Deliver, ReadRule, ReadLLM
    <2>2. ASSUME NEW p \in Programs, Truncate(p) \/ Mix(p)
          PROVE  FALSE
      BY <2>2 DEF Truncate, Mix
    <2>3. ASSUME NEW p \in Programs \ {r}, Fill(p)
          PROVE  FALSE
      BY <1>1, <2>3 DEF Fill, IInv, TodoOK, Programs
    <2> QED
      BY <2>1, <2>2, <2>3
  <1>3. PICK u \in Planners : \E x, digest :
            /\ Complete(x) /\ todo[r] = <<Failures(u, x, digest)>>
            /\ files[<<u, "baseline">>] = EvaluationReport(x, digest)
    <2>1. ASSUME NEW u \in Planners, NEW report,
                 todo[r] = <<[path |-> <<u, "evaluation_status">>, report |-> report]>>
          PROVE  FALSE
      <3>1. Target(r) = <<u, "evaluation_status">>
        BY <2>1 DEF Target
      <3> QED
        BY <3>1
    <2>2. ASSUME NEW u \in Planners, NEW x, NEW digest,
                 todo[r] = <<Baseline(u, x, digest), Failures(u, x, digest)>>
          PROVE  FALSE
      <3>1. Head(todo[r]) = Baseline(u, x, digest)
        BY <2>2, PairOfWrites
      <3> QED
        BY <3>1 DEF Baseline, Target
    <2>3. RunnerWrites(r)
      BY <1>1 DEF ReportsInv
    <2> QED
      BY <2>1, <2>2, <2>3 DEF RunnerWrites
  <1>4. PICK x, digest :
            /\ Complete(x) /\ todo[r] = <<Failures(u, x, digest)>>
            /\ files[<<u, "baseline">>] = EvaluationReport(x, digest)
    BY <1>3
  <1>5. Head(todo[r]) = Failures(u, x, digest)
    BY <1>4, OneWrite
  <1>6. t = u /\ Head(todo[r]).report = FailureReport(x, digest)
    BY <1>5 DEF Failures, Target
  <1>7. files' = [files EXCEPT ![<<t, "failures">>] = FailureReport(x, digest)]
    BY <1>1, <1>2, <1>6 DEF Fill
  <1>8. /\ files'[<<t, "failures">>] = FailureReport(x, digest)
        /\ files'[<<t, "baseline">>] = files[<<t, "baseline">>]
    <2>1. /\ DOMAIN files = Paths /\ <<t, "failures">> \in Paths
          /\ <<t, "baseline">> \in Paths /\ <<t, "baseline">> # <<t, "failures">>
      BY ReportPaths DEF IInv
    <2> QED
      BY <1>7, <2>1
  <1> QED
    BY <1>4, <1>6, <1>8

\* The two reports of a runner that no other runner wrote over are of one run
\* and count the same successes, although each is written on its own, the
\* comparison writes in between, programs are killed, the answer key may have
\* been edited and runs of other planners overlap (runner.py takes no lock).
THEOREM ReportsOfARunAgree ==
    ASSUME EvaluationAssumption
    PROVE  Spec => FinishedReportsAgree
  <1>1. IInv /\ ReportsInv /\ [Next]_vars =>
          \A r \in Runners, t \in Planners :
            r \in alone /\ todo[r] # <<>> /\ todo'[r] = <<>>
                /\ files' # files /\ Target(r) = <<t, "failures">>
            => LET b == files'[<<t, "baseline">>]
                   f == files'[<<t, "failures">>]
               IN  /\ b.run = f.run
                   /\ b.denominators.total - b.denominators.success
                        = Cardinality({i \in DOMAIN f.failures :
                            f.failures[i].failure_types # {"execution_error"}})
    <2> SUFFICES ASSUME IInv, ReportsInv, [Next]_vars, NEW r \in Runners,
                        NEW t \in Planners, r \in alone,
                        todo[r] # <<>>, todo'[r] = <<>>, files' # files,
                        Target(r) = <<t, "failures">>
                 PROVE  Agree(files'[<<t, "baseline">>], files'[<<t, "failures">>])
      BY DEF Agree
    <2>1. PICK x, digest :
            /\ Complete(x)
            /\ files'[<<t, "failures">>] = FailureReport(x, digest)
            /\ files'[<<t, "baseline">>] = EvaluationReport(x, digest)
      BY LastWrite
    <2> QED
      BY <2>1, ReportsAgree
  <1> QED
    BY <1>1, ReportsInvariant, PTL DEF Spec, FinishedReportsAgree

-----------------------------------------------------------------------------
(* What each file holds                                                    *)

Like(c) ==
    /\ c.rule_run.dataset_sha256 = c.llm_run.dataset_sha256
    /\ c.rule_run.planner_mode = "rule"
    /\ c.llm_run.planner_mode = "llm"

\* A report is of the kind its path names, and a comparison is of like reports.
Sound(path, report) ==
    /\ Fits(path, report)
    /\ path = <<"planner", "comparison">> => Like(report)

HoldsInv ==
    /\ \A path \in Paths : files[path] \in {Absent, Garbled} \/ Sound(path, files[path])
    /\ \A p \in Programs : \A i \in DOMAIN todo[p] :
            Sound(todo[p][i].path, todo[p][i].report)
    /\ rule = Absent \/ Sound(<<"rule", "baseline">>, rule)

\* The property is a part of the invariant.
LEMMA HoldsSuffices ==
    ASSUME HoldsInv
    PROVE  ComparesLikeWithLike
  <1>1. <<"planner", "comparison">> \in Paths
    BY DEF Paths
  <1> QED
    BY <1>1 DEF HoldsInv, Sound, Like, ComparesLikeWithLike, Absent, Garbled

LEMMA MetadataTyped ==
    ASSUME NEW x, Complete(x), x.planner \in Planners, NEW digest \in Datasets
    PROVE  /\ Metadata(x, digest) \in RunMetadata
           /\ Metadata(x, digest).planner_mode = x.planner
  <1>1. Len(x.cases) \in Nat /\ x.execute \in BOOLEAN
    BY DEF Complete
  <1> QED
    BY <1>1 DEF Metadata, RunMetadata

LEMMA BaselineSound ==
    ASSUME EvaluationAssumption, NEW x, Complete(x), NEW t \in Planners,
           x.planner = t, NEW digest \in Datasets
    PROVE  Sound(<<t, "baseline">>, EvaluationReport(x, digest))
  <1> DEFINE b == EvaluationReport(x, digest)
             path == <<t, "baseline">>
  <1>1. b.status = "OK" /\ b.run = Metadata(x, digest)
    BY DEF EvaluationReport
  <1>2. b.run \in RunMetadata /\ b.run.planner_mode = t
    BY <1>1, MetadataTyped
  <1>3. /\ \A name \in Metrics : b.metrics[name] \in {None} \cup (Nat \X Nat)
        /\ b.offenders \in Nat
    BY BaselineProportional DEF Proportional, Proportion
  <1>4. b.planner_used \subseteq {"rule", "llm", None}
    <2>1. b.planner_used = {x.outcomes[i].seen.planner_used : i \in DOMAIN x.outcomes}
      BY DEF EvaluationReport
    <2>2. \A i \in DOMAIN x.outcomes : x.outcomes[i] \in Outcome
      BY DEF Complete
    <2>3. \A i \in DOMAIN x.outcomes :
            x.outcomes[i].seen.planner_used \in {"rule", "llm", None}
      BY <2>2 DEF Outcome, Observation
    <2> HIDE DEF b
    <2> QED
      BY <2>1, <2>3
  <1>5. path[1] = t /\ path[2] = "baseline" /\ path # <<"planner", "comparison">>
    OBVIOUS
  <1> HIDE DEF b, path
  <1> QED
    BY <1>1, <1>2, <1>3, <1>4, <1>5 DEF Sound, Fits, b, path

LEMMA FailuresSound ==
    ASSUME EvaluationAssumption, NEW x, Complete(x), NEW t \in Planners,
           x.planner = t, NEW digest \in Datasets
    PROVE  Sound(<<t, "failures">>, FailureReport(x, digest))
  <1> DEFINE f == FailureReport(x, digest)
             path == <<t, "failures">>
             listed == FailureRecords(x.cases, x.outcomes)
             n == Len(x.cases)
             F(i) == FailuresOf(x.cases[i], x.outcomes[i].seen)
  <1>1. f.status = "OK" /\ f.run = Metadata(x, digest) /\ f.failures = listed
    BY DEF FailureReport
  <1>2. f.run \in RunMetadata /\ f.run.planner_mode = t
    BY <1>1, MetadataTyped
  <1>3. /\ \A i \in DOMAIN listed : i \in 1..n /\ F(i) # {}
        /\ \A i \in DOMAIN listed : listed[i] =
              [id |-> x.cases[i].id,
               failure_type |-> PrimaryFailure(F(i)),
               failure_types |-> F(i),
               expected |-> [tools |-> x.cases[i].tools, declared |-> x.cases[i].declared],
               actual |-> [tools |-> x.outcomes[i].seen.tools,
                           deviating |-> x.outcomes[i].seen.deviating]]
    BY FailuresListed
  <1> HIDE DEF listed, f
  <1>4. ASSUME NEW i \in DOMAIN listed
        PROVE  /\ listed[i].id \in CaseIds
               /\ listed[i].failure_types \in SUBSET FailureTypes
               /\ listed[i].failure_type \in listed[i].failure_types
    <2>1. x.cases[i].id \in CaseIds
      <3>1. x.cases[i] \in Case
        BY <1>3 DEF Complete
      <3> QED
        BY <3>1 DEF Case
    <2>2. F(i) \subseteq FailureTypes
      BY DEF FailuresOf
    <2>3. PrimaryFailure(F(i)) \in F(i)
      BY <1>3, <2>2, PrimaryIsListed
    <2> HIDE DEF F
    <2> QED
      BY <1>3, <2>1, <2>2, <2>3
  <1>5. path[1] = t /\ path[2] = "failures" /\ path # <<"planner", "comparison">>
    OBVIOUS
  <1> HIDE DEF path, F, n
  <1> QED
    BY <1>1, <1>2, <1>4, <1>5 DEF Sound, Fits, f, path

LEMMA StatusSound ==
    ASSUME NEW t \in Planners, NEW report, report.status = "LLM_EVALUATION_NOT_RUN",
           report.run \in RunMetadata, report.run.planner_mode = t
    PROVE  Sound(<<t, "evaluation_status">>, report)
  <1> DEFINE path == <<t, "evaluation_status">>
  <1>1. /\ path[1] = t /\ path[2] = "evaluation_status"
        /\ path # <<"planner", "comparison">>
    OBVIOUS
  <1> HIDE DEF path
  <1> QED
    BY <1>1 DEF Sound, Fits, path

LEMMA RefusalSound ==
    ASSUME NEW status \in {"INPUT_UNREADABLE", "LLM_EVALUATION_NOT_RUN",
                           "DATASET_MISMATCH"}
    PROVE  Sound(<<"planner", "comparison_status">>, Refusal(status))
  <1> DEFINE path == <<"planner", "comparison_status">>
  <1>1. path[2] = "comparison_status" /\ path # <<"planner", "comparison">>
    OBVIOUS
  <1>2. Refusal(status).status = status
    BY DEF Refusal
  <1> HIDE DEF path
  <1> QED
    BY <1>1, <1>2 DEF Sound, Fits, path

LEMMA BaselineIs ==
    ASSUME NEW t \in Planners, NEW b, Sound(<<t, "baseline">>, b)
    PROVE  b.status = "OK" /\ b.run \in RunMetadata /\ b.run.planner_mode = t
  <1> DEFINE path == <<t, "baseline">>
  <1>1. path[1] = t /\ path[2] = "baseline" /\ Fits(path, b)
    BY DEF Sound
  <1> HIDE DEF path
  <1> QED
    BY <1>1 DEF Fits

LEMMA ComparisonSound ==
    ASSUME NEW r, NEW l, Sound(<<"rule", "baseline">>, r),
           Sound(<<"llm", "baseline">>, l), Comparable(r, l)
    PROVE  Sound(<<"planner", "comparison">>, ComparisonReport(r, l))
  <1> DEFINE c == ComparisonReport(r, l)
             path == <<"planner", "comparison">>
  <1>1. /\ r.run \in RunMetadata /\ r.run.planner_mode = "rule"
        /\ l.run \in RunMetadata /\ l.run.planner_mode = "llm"
    BY BaselineIs DEF Planners
  <1>2. c.status = "OK" /\ c.rule_run = r.run /\ c.llm_run = l.run
    BY DEF ComparisonReport
  <1>3. c.verdicts \in [ComparedMetrics ->
            {"better", "worse", "unchanged", "not_comparable"}]
    BY DEF ComparisonReport, Verdict
  <1>4. Like(c)
    BY <1>1, <1>2 DEF Like, Comparable
  <1>5. path[2] = "comparison"
    OBVIOUS
  <1> HIDE DEF c, path
  <1> QED
    BY <1>1, <1>2, <1>3, <1>4, <1>5 DEF Sound, Fits, c, path

LEMMA HoldsWrites ==
    ASSUME EvaluationAssumption, IInv, HoldsInv, NEW p \in Programs,
           Truncate(p) \/ Fill(p) \/ Mix(p) \/ Kill(p)
    PROVE  HoldsInv'
  <1>1. rule' = rule
    BY DEF Truncate, Fill, Mix, Kill
  <1>2. /\ DOMAIN files = Paths
        /\ todo \in [Programs -> Seq(UNION {ToSet(todo[q]) : q \in Programs})]
    BY DEF IInv, TodoOK
  <1>3. \A path \in Paths : files'[path] \in {Absent, Garbled} \/ Sound(path, files'[path])
    <2>1. CASE Truncate(p) \/ Mix(p)
      BY <1>2, <2>1 DEF Truncate, Mix, HoldsInv
    <2>2. CASE Fill(p)
      <3> DEFINE U == UNION {ToSet(todo[q]) : q \in Programs}
      <3>1. todo[p] \in Seq(U) /\ todo[p] # <<>>
        BY <1>2, <2>2 DEF Fill, IInv, OpenOK
      <3> HIDE DEF U
      <3>2. 1 \in DOMAIN todo[p] /\ Head(todo[p]) = todo[p][1]
        BY <3>1
      <3>3. Sound(Target(p), Head(todo[p]).report)
        BY <3>2 DEF HoldsInv, Target
      <3>4. PICK report :
              /\ files' = [files EXCEPT ![Target(p)] = report]
              /\ report = Head(todo[p]).report \/ report = Garbled
        BY <2>2, FilledWith
      <3>5. report \in {Absent, Garbled} \/ Sound(Target(p), report)
        BY <3>3, <3>4
      <3> QED
        BY <1>2, <3>4, <3>5 DEF HoldsInv
    <2>3. CASE Kill(p)
      BY <2>3 DEF Kill, HoldsInv
    <2> QED
      BY <2>1, <2>2, <2>3
  <1>4. ASSUME NEW q \in Programs, NEW i \in DOMAIN todo'[q]
        PROVE  Sound(todo'[q][i].path, todo'[q][i].report)
    <2>1. CASE todo'[q] = todo[q]
      BY <1>4, <2>1 DEF HoldsInv
    <2>2. CASE todo'[q] = <<>>
      <3>1. DOMAIN <<>> = {}
        OBVIOUS
      <3> QED
        BY <1>4, <2>2, <3>1
    <2>3. CASE todo'[q] = Tail(todo[q]) /\ todo[q] # <<>>
      <3> DEFINE U == UNION {ToSet(todo[r]) : r \in Programs}
      <3>1. todo[q] \in Seq(U)
        BY <1>2
      <3> HIDE DEF U
      <3>2. i + 1 \in DOMAIN todo[q] /\ todo'[q][i] = todo[q][i + 1]
        BY <1>4, <2>3, <3>1
      <3> QED
        BY <3>2 DEF HoldsInv
    <2>4. \/ todo'[q] = todo[q] \/ todo'[q] = <<>>
          \/ todo'[q] = Tail(todo[q]) /\ todo[q] # <<>>
      BY <1>2 DEF Truncate, Fill, Mix, Kill, IInv, OpenOK
    <2> QED
      BY <2>1, <2>2, <2>3, <2>4
  <1> QED
    BY <1>1, <1>3, <1>4 DEF HoldsInv

\* An action that changes neither the files nor, but to forget it, what the
\* comparison has read need only queue what is sound.
LEMMA HoldsQueues ==
    ASSUME EvaluationAssumption, IInv, HoldsInv, NEW p \in Programs, NEW s,
           files' = files, todo' = [todo EXCEPT ![p] = s],
           rule' \in {rule, Absent},
           \A i \in DOMAIN s : Sound(s[i].path, s[i].report)
    PROVE  HoldsInv'
  <1>1. \A q \in Programs : todo'[q] = todo[q] \/ todo'[q] = s
    BY DEF IInv, TodoOK
  <1>2. ASSUME NEW q \in Programs, NEW i \in DOMAIN todo'[q]
        PROVE  Sound(todo'[q][i].path, todo'[q][i].report)
    <2>1. CASE todo'[q] = s
      BY <1>2, <2>1
    <2>2. CASE todo'[q] = todo[q]
      BY <1>2, <2>2 DEF HoldsInv
    <2> QED
      BY <1>1, <2>1, <2>2
  <1> QED
    BY <1>2 DEF HoldsInv

LEMMA HoldsRefuse ==
    ASSUME EvaluationAssumption, IInv, HoldsInv,
           NEW status \in {"INPUT_UNREADABLE", "LLM_EVALUATION_NOT_RUN",
                           "DATASET_MISMATCH"},
           Refuse(status), files' = files
    PROVE  HoldsInv'
  <1> DEFINE x == [path |-> <<"planner", "comparison_status">>,
                   report |-> Refusal(status)]
  <1>1. Sound(x.path, x.report)
    BY RefusalSound
  <1>2. /\ todo' = [todo EXCEPT !["comparison"] = <<x>>] /\ rule' = Absent
        /\ "comparison" \in Programs
    BY DEF Refuse, Programs
  <1> HIDE DEF x
  <1>3. \A i \in DOMAIN <<x>> : Sound(<<x>>[i].path, <<x>>[i].report)
    BY <1>1
  <1> QED
    BY <1>2, <1>3, HoldsQueues

LEMMA HoldsGate ==
    ASSUME EvaluationAssumption, IInv, HoldsInv, NEW r \in Runners, Gate(r)
    PROVE  HoldsInv'
  <1> DEFINE report == GateReport(run[r], dataset)
             w == Write(r, "evaluation_status", report)
  <1>1. run[r].planner \in Planners /\ run[r] \in RunState /\ dataset \in Datasets
    BY DEF Gate, IInv, RunsOK
  <1>2. report.status = "LLM_EVALUATION_NOT_RUN" /\ report.run = Metadata(run[r], dataset)
    BY DEF GateReport
  <1>3. report.run \in RunMetadata /\ report.run.planner_mode = run[r].planner
    <2>1. run[r].execute \in BOOLEAN /\ Len(run[r].cases) \in Nat
      BY <1>1, CasesTyped DEF RunState
    <2> QED
      BY <1>1, <1>2, <2>1 DEF Metadata, RunMetadata
  <1>4. Sound(w.path, w.report)
    <2> HIDE DEF report
    <2> QED
      BY <1>1, <1>2, <1>3, StatusSound DEF Write
  <1>5. /\ todo' = [todo EXCEPT ![r] = <<w>>] /\ r \in Programs
        /\ files' = files /\ rule' = rule
    BY DEF Gate, Deliver, Programs
  <1> HIDE DEF w
  <1>6. \A i \in DOMAIN <<w>> : Sound(<<w>>[i].path, <<w>>[i].report)
    BY <1>4
  <1> QED
    BY <1>5, <1>6, HoldsQueues

LEMMA HoldsBuildReports ==
    ASSUME EvaluationAssumption, IInv, ReportsInv, HoldsInv, NEW r \in Runners,
           BuildReports(r)
    PROVE  HoldsInv'
  <1> DEFINE w1 == Write(r, "baseline", EvaluationReport(run[r], dataset))
             w2 == Write(r, "failures", FailureReport(run[r], dataset))
  <1>1. Complete(run[r]) /\ run[r].planner \in Planners /\ dataset \in Datasets
    BY RunIsComplete DEF IInv
  <1>2. Sound(w1.path, w1.report) /\ Sound(w2.path, w2.report)
    BY <1>1, BaselineSound, FailuresSound DEF Write
  <1>3. /\ todo' = [todo EXCEPT ![r] = <<w1, w2>>]
        /\ r \in Programs /\ files' = files /\ rule' = rule
    BY DEF BuildReports, Deliver, Programs
  <1> HIDE DEF w1, w2
  <1>4. \A i \in DOMAIN <<w1, w2>> : Sound(<<w1, w2>>[i].path, <<w1, w2>>[i].report)
    BY <1>2
  <1> QED
    BY <1>3, <1>4, HoldsQueues

LEMMA ReadableIsSound ==
    ASSUME HoldsInv, NEW t \in Planners, Readable(files[<<t, "baseline">>])
    PROVE  Sound(<<t, "baseline">>, files[<<t, "baseline">>])
  <1>1. files[<<t, "baseline">>] \notin {Absent, Garbled}
    BY DEF Readable, Absent, Garbled
  <1> QED
    BY <1>1, ReportPaths DEF HoldsInv

LEMMA HoldsReadRule ==
    ASSUME EvaluationAssumption, IInv, HoldsInv, ReadRule
    PROVE  HoldsInv'
  <1> DEFINE found == files[<<"rule", "baseline">>]
  <1>1. CASE Readable(found) /\ rule' = found /\ UNCHANGED todo
    <2>1. Sound(<<"rule", "baseline">>, found)
      BY <1>1, ReadableIsSound DEF Planners
    <2> QED
      BY <1>1, <2>1 DEF HoldsInv, ReadRule
  <1>2. CASE Refuse("INPUT_UNREADABLE")
    BY <1>2, HoldsRefuse DEF ReadRule
  <1> QED
    BY <1>1, <1>2 DEF ReadRule

LEMMA HoldsReadLLM ==
    ASSUME EvaluationAssumption, IInv, HoldsInv, ReadLLM
    PROVE  HoldsInv'
  <1> DEFINE found == files[<<"llm", "baseline">>]
             x == [path |-> <<"planner", "comparison">>,
                   report |-> ComparisonReport(rule, found)]
  <1>1. files' = files
    BY DEF ReadLLM
  <1>2. CASE Refuse("LLM_EVALUATION_NOT_RUN") \/ Refuse("DATASET_MISMATCH")
    BY <1>1, <1>2, HoldsRefuse
  <1>3. CASE /\ Readable(found) /\ Comparable(rule, found)
             /\ todo' = [todo EXCEPT !["comparison"] = <<x>>]
             /\ rule' = Absent
    <2>1. Sound(<<"rule", "baseline">>, rule)
      BY DEF HoldsInv, ReadLLM
    <2>2. Sound(<<"llm", "baseline">>, found)
      BY <1>3, ReadableIsSound DEF Planners
    <2>3. Sound(x.path, x.report) /\ "comparison" \in Programs
      BY <1>3, <2>1, <2>2, ComparisonSound DEF Programs
    <2> HIDE DEF x
    <2>4. \A i \in DOMAIN <<x>> : Sound(<<x>>[i].path, <<x>>[i].report)
      BY <2>3
    <2> QED
      BY <1>1, <1>3, <2>3, <2>4, HoldsQueues
  <1> QED
    BY <1>1, <1>2, <1>3 DEF ReadLLM

LEMMA HoldsInit ==
    ASSUME Init
    PROVE  HoldsInv
  <1>1. \A p \in Programs : DOMAIN todo[p] = {}
    <2>1. DOMAIN <<>> = {}
      OBVIOUS
    <2> QED
      BY <2>1 DEF Init
  <1> QED
    BY <1>1 DEF Init, HoldsInv

LEMMA HoldsNext ==
    ASSUME EvaluationAssumption, IInv, ReportsInv, HoldsInv, [Next]_vars
    PROVE  HoldsInv'
  <1>1. CASE UNCHANGED <<files, todo, rule>>
    BY <1>1 DEF HoldsInv
  <1>2. CASE \/ EditDataset \/ UNCHANGED vars
             \/ \E r \in Runners : RunCase(r) \/ CaseRaises(r)
    BY <1>1, <1>2 DEF EditDataset, RunCase, CaseRaises, vars
  <1>3. ASSUME NEW r \in Runners, NEW option \in Options,
               Load(r, option[1], option[2])
        PROVE  HoldsInv'
    BY <1>1, <1>3 DEF Load
  <1> QED
    BY <1>2, <1>3, HoldsWrites, HoldsGate, HoldsBuildReports,
       HoldsReadRule, HoldsReadLLM DEF Next

LEMMA HoldsInvariant ==
    ASSUME EvaluationAssumption
    PROVE  Spec => [](IInv /\ ReportsInv /\ HoldsInv)
  <1>1. Init => IInv /\ ReportsInv /\ HoldsInv
    BY InitTyped, ReportsInit, HoldsInit
  <1>2. IInv /\ ReportsInv /\ HoldsInv /\ [Next]_vars
            => (IInv /\ ReportsInv /\ HoldsInv)'
    BY NextTyped, ReportsNext, HoldsNext
  <1> QED
    BY <1>1, <1>2, PTL DEF Spec

\* At every moment each file of the reports directory is missing, broken, or a
\* whole report of the kind and of the planner its name says, and so is all
\* that is on its way there; every outcome is that of the case at its place.
THEOREM EvaluationTypeCorrect ==
    ASSUME EvaluationAssumption
    PROVE  Spec => []TypeOK
  <1>1. IInv /\ ReportsInv /\ HoldsInv => TypeOK
    <2> SUFFICES ASSUME IInv, ReportsInv, HoldsInv
                 PROVE  TypeOK
      OBVIOUS
    <2>1. ASSUME NEW r \in Runners, NEW i \in DOMAIN run[r].outcomes
          PROVE  run[r].outcomes[i].case = run[r].cases[i]
      <3> DEFINE o == run[r].outcomes[i].seen
      <3>1. run[r].outcomes[i] = evaluate_case(run[r].cases[i], o)
        BY DEF ReportsInv, ScoredOK, Scored
      <3> HIDE DEF o
      <3> QED
        BY <3>1 DEF evaluate_case
    <2>2. run \in [Runners -> RunState] /\ OpenOK
      BY DEF IInv, RunsOK
    <2>3. \A p \in Programs : \A i \in DOMAIN todo[p] : todo[p][i].path \in Paths
      BY DEF IInv, TodoOK
    <2>4. /\ \A path \in Paths :
                files[path] \in {Absent, Garbled} \/ Fits(path, files[path])
          /\ \A p \in Programs : \A i \in DOMAIN todo[p] :
                Fits(todo[p][i].path, todo[p][i].report)
          /\ rule = Absent \/ Fits(<<"rule", "baseline">>, rule)
      BY DEF HoldsInv, Sound
    <2> QED
      BY <2>1, <2>2, <2>3, <2>4 DEF IInv, TypeOK, OpenOK
  <1> QED
    BY <1>1, HoldsInvariant, PTL

\* However the runners and the comparison interleave, are killed, write over
\* each other and find files half written: a published comparison is of a rule
\* run and an LLM run that name the same dataset.
THEOREM ComparisonsAreAlike ==
    ASSUME EvaluationAssumption
    PROVE  Spec => []ComparesLikeWithLike
  <1>1. HoldsInv => ComparesLikeWithLike
    BY HoldsSuffices
  <1> QED
    BY <1>1, HoldsInvariant, PTL

=============================================================================
