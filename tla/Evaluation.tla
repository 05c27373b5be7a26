----------------------------- MODULE Evaluation -----------------------------
(***************************************************************************)
(* The evaluation harness: runners, each of which puts every case of a     *)
(* dataset through a planner, scores what it saw and writes two reports,   *)
(* and the comparison, which reads two baselines and writes a third.  They *)
(* are separate programs that take no lock and meet in the reports         *)
(* directory; the dataset is a file that may be edited at any time.        *)
(*                                                                         *)
(* A report is written by truncating its file and then filling it: a       *)
(* reader in between, or after a crash in between, finds no JSON.  Two     *)
(* programs that have one file open write over each other.                 *)
(***************************************************************************)
EXTENDS Integers, Sequences, FiniteSets, SequencesExt

CONSTANTS
    Runners,        \* processes of the runner
    Names,          \* names of tools, in answer keys and in plans
    Tools,          \* the names in the registry
    Intents,        \* Intent, the vocabulary of the parser
    CaseIds,        \* identifiers of cases
    None,           \* None
    Datasets,       \* contents the dataset file may have
    Plans,          \* plans of each planner: intent, and tools in order
    Options,        \* bound: the planners run, and whether tools are executed
    RunLimit,       \* bound: runs of the runner and of the comparison
    EditLimit       \* bound: edits of the dataset

Planners == {"rule", "llm", "auto"}

\* A case of the answer key; declared: the tools with expected arguments.
Case ==
    [id : CaseIds, ood : BOOLEAN, intent : Intents \cup {None},
     tools : Seq(Names), declared : SUBSET Names]

\* What the runner saw of one case; deviating: the tools planned with an
\* argument other than the answer key declares.
Observation ==
    [intent : Intents \cup {None}, tools : Seq(Names),
     deviating : SUBSET Names, planner_used : {"rule", "llm", None},
     planning_error : BOOLEAN, executed : BOOLEAN,
     execution_errors : BOOLEAN]

ASSUME EvaluationAssumption ==
    /\ "comparison" \notin Runners
    /\ Tools \subseteq Names
    /\ None \notin Intents \cup Planners /\ None \notin Nat \X Nat
    /\ Datasets \subseteq Seq(Case)
    /\ DOMAIN Plans = Planners
    /\ \A planner \in Planners :
        Plans[planner] \subseteq [intent : Intents, tools : Seq(Tools)]
    /\ Options \subseteq Planners \X BOOLEAN
    /\ RunLimit \in Nat /\ EditLimit \in Nat

VARIABLES
    dataset,        \* the cases in the dataset file
    files,          \* the reports directory: what is at each path
    todo,           \* reports each program has yet to write, in order
    opened,         \* programs that have the file they write open
    shared,         \* of those, the ones that had it open with another
    run,            \* each runner: where it stands, options, cases, outcomes
    alone,          \* runners no other runner interfered with (see Deliver)
    rule,           \* the rule baseline, once the comparison has read it
    runs,           \* runs so far
    edits           \* edits so far

vars ==
    <<dataset, files, todo, opened, shared, run, alone, rule, runs, edits>>

-----------------------------------------------------------------------------
(* The answer key                                                          *)

ValidCase(c) ==
    /\ c.declared \subseteq ToSet(c.tools)
    /\ c.ood => c.tools = <<>> /\ c.intent = None
    /\ ~c.ood => c.intent # None

\* Mutant of ValidDataset: the same id may be given twice.
ValidDataset_RepeatedIds(d) ==
    /\ d # <<>>
    /\ \A i \in DOMAIN d : ValidCase(d[i])

ValidDataset(d) ==
    /\ d # <<>>
    /\ \A i \in DOMAIN d : ValidCase(d[i])
    /\ \A i, j \in DOMAIN d : d[i].id = d[j].id => i = j

-----------------------------------------------------------------------------
(* Scoring one case                                                        *)

FailureTypes ==
    {"planning_error", "invalid_tool", "unexpected_tool_call_on_ood",
     "missing_tool", "unnecessary_tool", "intent_mismatch",
     "argument_mismatch", "execution_error"}

missing_tools(expected, predicted) == ToSet(expected) \ ToSet(predicted)

unnecessary_tools(expected, predicted) == ToSet(predicted) \ ToSet(expected)

invalid_tools(predicted) == ToSet(predicted) \ Tools

true_positives(expected, predicted) == ToSet(expected) \cap ToSet(predicted)

\* The tools whose arguments are compared, and those that compare equal.
Checked(c, o) == c.declared \cap ToSet(o.tools)

Passed(c, o) == Checked(c, o) \ o.deviating

IntentCorrect(c, o) == o.intent = c.intent /\ ~o.planning_error

\* Mutant of FailuresOf: an out-of-domain case fails on a plan only when the
\* plan was run.
FailuresOf_OnlyExecutedOod(c, o) ==
    {f \in FailureTypes :
        \/ f = "planning_error" /\ o.planning_error
        \/ f = "invalid_tool" /\ invalid_tools(o.tools) # {}
        \/ c.ood /\ f = "unexpected_tool_call_on_ood"
            /\ o.tools # <<>> /\ o.executed
        \/ ~c.ood /\ f = "intent_mismatch" /\ ~IntentCorrect(c, o)
        \/ ~c.ood /\ f = "missing_tool" /\ missing_tools(c.tools, o.tools) # {}
        \/ ~c.ood /\ f = "unnecessary_tool"
            /\ unnecessary_tools(c.tools, o.tools) # {}
        \/ ~c.ood /\ f = "argument_mismatch" /\ Passed(c, o) # Checked(c, o)
        \/ f = "execution_error" /\ o.execution_errors}

FailuresOf(c, o) ==
    {f \in FailureTypes :
        \/ f = "planning_error" /\ o.planning_error
        \/ f = "invalid_tool" /\ invalid_tools(o.tools) # {}
        \/ c.ood /\ f = "unexpected_tool_call_on_ood" /\ o.tools # <<>>
        \/ ~c.ood /\ f = "intent_mismatch" /\ ~IntentCorrect(c, o)
        \/ ~c.ood /\ f = "missing_tool" /\ missing_tools(c.tools, o.tools) # {}
        \/ ~c.ood /\ f = "unnecessary_tool"
            /\ unnecessary_tools(c.tools, o.tools) # {}
        \/ ~c.ood /\ f = "argument_mismatch" /\ Passed(c, o) # Checked(c, o)
        \/ f = "execution_error" /\ o.execution_errors}

\* The verdict is not derived from the failures: it is computed beside them.
TaskSuccess(c, o) ==
    /\ ~o.planning_error
    /\ invalid_tools(o.tools) = {}
    /\ IF c.ood
         THEN o.tools = <<>>
         ELSE /\ IntentCorrect(c, o)
              /\ ToSet(o.tools) = ToSet(c.tools)
              /\ Passed(c, o) = Checked(c, o)

\* evaluate_case: what is kept of a case.
evaluate_case(c, o) ==
    [case |-> c, seen |-> o, task_success |-> TaskSuccess(c, o),
     failure_types |-> FailuresOf(c, o)]

Outcome ==
    [case : Case, seen : Observation, task_success : BOOLEAN,
     failure_types : SUBSET FailureTypes]

-----------------------------------------------------------------------------
(* Scoring a run                                                           *)

\* A ratio is kept as numerator and denominator.
\* Mutant of ratio: nothing measured reads as perfect.
ratio_EmptyIsPerfect(n, d) == IF d = 0 THEN <<1, 1>> ELSE <<n, d>>

ratio(n, d) == IF d = 0 THEN None ELSE <<n, d>>

CountOf(outcomes, Holds(_)) ==
    Cardinality({i \in DOMAIN outcomes : Holds(outcomes[i])})

Total(outcomes, Size(_)) ==
    SumFunctionOnSet([i \in DOMAIN outcomes |-> Size(outcomes[i])], DOMAIN outcomes)

\* The denominators of aggregate.
Counts(outcomes) ==
    [total |-> Len(outcomes),
     ood |-> CountOf(outcomes, LAMBDA x : x.case.ood),
     intent_correct |-> CountOf(outcomes, LAMBDA x :
        ~x.case.ood /\ IntentCorrect(x.case, x.seen)),
     exact |-> CountOf(outcomes, LAMBDA x :
        ToSet(x.case.tools) = ToSet(x.seen.tools)),
     expected |-> Total(outcomes, LAMBDA x : Len(x.case.tools)),
     selected |-> Total(outcomes, LAMBDA x : Len(x.seen.tools)),
     true_positive |-> Total(outcomes, LAMBDA x :
        Cardinality(true_positives(x.case.tools, x.seen.tools))),
     false_positive |-> Total(outcomes, LAMBDA x :
        Cardinality(unnecessary_tools(x.case.tools, x.seen.tools))),
     false_negative |-> Total(outcomes, LAMBDA x :
        Cardinality(missing_tools(x.case.tools, x.seen.tools))),
     invalid |-> Total(outcomes, LAMBDA x :
        Cardinality(invalid_tools(x.seen.tools))),
     checks |-> Total(outcomes, LAMBDA x : Cardinality(Checked(x.case, x.seen))),
     passed |-> Total(outcomes, LAMBDA x : Cardinality(Passed(x.case, x.seen))),
     success |-> CountOf(outcomes, LAMBDA x : x.task_success),
     planner_failures |-> CountOf(outcomes, LAMBDA x : x.seen.planning_error),
     execution_errors |-> CountOf(outcomes, LAMBDA x : x.seen.execution_errors),
     executed |-> CountOf(outcomes, LAMBDA x : x.seen.executed)]

MetricsOf(n, executed) ==
    [intent_accuracy |-> ratio(n.intent_correct, n.total - n.ood),
     tool_selection_exact_match |-> ratio(n.exact, n.total),
     tool_precision |->
        ratio(n.true_positive, n.true_positive + n.false_positive),
     tool_recall |-> ratio(n.true_positive, n.true_positive + n.false_negative),
     argument_accuracy |-> ratio(n.passed, n.checks),
     invalid_tool_rate |-> ratio(n.invalid, n.selected),
     unnecessary_tool_call_rate |-> ratio(n.false_positive, n.selected),
     task_success_rate |-> ratio(n.success, n.total),
     planner_failure_rate |-> ratio(n.planner_failures, n.total),
     execution_error_rate |->
        IF executed THEN ratio(n.execution_errors, n.executed) ELSE None]

\* FAILURE_PRIORITY: the type a failing case is listed under.
FailurePriority ==
    <<"planning_error", "invalid_tool", "unexpected_tool_call_on_ood",
      "missing_tool", "unnecessary_tool", "intent_mismatch",
      "argument_mismatch", "execution_error">>

PrimaryFailure(types) ==
    FailurePriority[CHOOSE i \in DOMAIN FailurePriority :
        /\ FailurePriority[i] \in types
        /\ \A j \in 1..(i - 1) : FailurePriority[j] \notin types]

\* case_by_id: the first case with this id.
CaseById(cases, id) ==
    cases[CHOOSE i \in DOMAIN cases :
        cases[i].id = id /\ \A j \in 1..(i - 1) : cases[j].id # id]

\* What the dictionary of observations holds: the last one under this id.
ObservationOf(outcomes, id) ==
    outcomes[CHOOSE i \in DOMAIN outcomes :
        /\ outcomes[i].case.id = id
        /\ \A j \in (i + 1)..Len(outcomes) : outcomes[j].case.id # id].seen

FailureRecord(x, cases, outcomes) ==
    LET seen == ObservationOf(outcomes, x.case.id)
    IN  [id |-> x.case.id,
         failure_type |-> PrimaryFailure(x.failure_types),
         failure_types |-> x.failure_types,
         expected |-> [tools |-> x.case.tools,
                       declared |-> CaseById(cases, x.case.id).declared],
         actual |-> [tools |-> seen.tools, deviating |-> seen.deviating]]

\* Mutant of FailureRecords: out-of-domain cases are left to ood_safety.
FailureRecords_InScopeOnly(cases, outcomes) ==
    LET failing == {i \in DOMAIN outcomes :
            outcomes[i].failure_types # {} /\ ~outcomes[i].case.ood}
    IN  [i \in failing |-> FailureRecord(outcomes[i], cases, outcomes)]

\* The records of the failing cases, each at the place of its case.
FailureRecords(cases, outcomes) ==
    LET failing == {i \in DOMAIN outcomes : outcomes[i].failure_types # {}}
    IN  [i \in failing |-> FailureRecord(outcomes[i], cases, outcomes)]

-----------------------------------------------------------------------------
(* The reports                                                             *)

Absent == [status |-> "absent"]

\* A file that was truncated and not filled yet.
Garbled == [status |-> "garbled"]

\* RunMetadata.  The digest of a file is the file: SHA-256 tells contents
\* apart.
Metadata(r, digest) ==
    [dataset_sha256 |-> digest, case_count |-> Len(r.cases),
     planner_mode |-> r.planner, execute_tools |-> r.execute]

EvaluationReport(r, digest) ==
    LET n == Counts(r.outcomes)
    IN  [status |-> "OK", run |-> Metadata(r, digest), denominators |-> n,
         metrics |-> MetricsOf(n, r.execute),
         offenders |-> CountOf(r.outcomes, LAMBDA x :
            x.case.ood /\ x.seen.tools # <<>>),
         planner_used |->
            {r.outcomes[i].seen.planner_used : i \in DOMAIN r.outcomes}]

FailureReport(r, digest) ==
    [status |-> "OK", run |-> Metadata(r, digest),
     failures |-> FailureRecords(r.cases, r.outcomes)]

GateReport(r, digest) ==
    [status |-> "LLM_EVALUATION_NOT_RUN", run |-> Metadata(r, digest)]

Refusal(status) == [status |-> status]

\* Metrics for which less is better, of those the comparison lists.
LowerIsBetter ==
    {"invalid_tool_rate", "unnecessary_tool_call_rate", "planner_failure_rate"}

ComparedMetrics ==
    {"intent_accuracy", "tool_selection_exact_match", "tool_precision",
     "tool_recall", "argument_accuracy", "task_success_rate"} \cup LowerIsBetter

\* llm - rule, times the two denominators.
Difference(r, l) == l[1] * r[2] - r[1] * l[2]

Verdict(r, l, lower_is_better) ==
    IF r = None \/ l = None THEN "not_comparable"
    ELSE IF Difference(r, l) = 0 THEN "unchanged"
    ELSE IF (Difference(r, l) < 0) = lower_is_better THEN "better" ELSE "worse"

ComparisonReport(r, l) ==
    [status |-> "OK", rule_run |-> r.run, llm_run |-> l.run,
     verdicts |-> [name \in ComparedMetrics |->
        Verdict(r.metrics[name], l.metrics[name], name \in LowerIsBetter)]]

-----------------------------------------------------------------------------
(* The reports directory                                                   *)

Programs == Runners \cup {"comparison"}

Paths ==
    (Planners \X {"baseline", "failures", "evaluation_status"})
        \cup ({"planner"} \X {"comparison", "comparison_status"})

\* What is kept of a run: the arguments, the cases loaded, those evaluated.
RunState ==
    [pc : {"idle", "loaded", "cases"}, planner : Planners \cup {None},
     execute : BOOLEAN, cases : Datasets \cup {<<>>}, outcomes : Seq(Outcome)]

Idle ==
    [pc |-> "idle", planner |-> None, execute |-> FALSE, cases |-> <<>>,
     outcomes |-> <<>>]

Init ==
    /\ dataset \in Datasets
    /\ files = [p \in Paths |-> Absent]
    /\ todo = [p \in Programs |-> <<>>]
    /\ opened = {} /\ shared = {}
    /\ run = [r \in Runners |-> Idle]
    /\ alone = {}
    /\ rule = Absent
    /\ runs = 0 /\ edits = 0

\* The answer key is edited and saved.
EditDataset ==
    /\ edits < EditLimit /\ edits' = edits + 1
    /\ dataset' \in Datasets \ {dataset}
    /\ UNCHANGED <<files, todo, opened, shared, run, alone, rule, runs>>

\* The file the program writes next.
Target(p) == Head(todo[p]).path

\* Programs other than p that have p's file open.
Sharers(p) == {q \in opened \ {p} : Target(q) = Target(p)}

\* _write, first half: the file is opened for writing, and thereby emptied.
Truncate(p) ==
    /\ todo[p] # <<>> /\ p \notin opened
    /\ files' = [files EXCEPT ![Target(p)] = Garbled]
    /\ opened' = opened \cup {p}
    /\ shared' = IF Sharers(p) = {} THEN shared
                 ELSE shared \cup Sharers(p) \cup {p}
    /\ UNCHANGED <<dataset, todo, run, alone, rule, runs, edits>>

\* _write, second half: the text goes to the file.  Over or under the text of
\* another program it may not be what the file then holds.
Fill(p) ==
    /\ p \in opened
    /\ \/ files' = [files EXCEPT ![Target(p)] = Head(todo[p]).report]
       \/ p \in shared /\ files' = [files EXCEPT ![Target(p)] = Garbled]
    /\ todo' = [todo EXCEPT ![p] = Tail(@)]
    /\ opened' = opened \ {p} /\ shared' = shared \ {p}
    /\ UNCHANGED <<dataset, run, alone, rule, runs, edits>>

\* A part of the text goes over what another program has written.
Mix(p) ==
    /\ p \in shared /\ files[Target(p)] # Garbled
    /\ files' = [files EXCEPT ![Target(p)] = Garbled]
    /\ UNCHANGED <<dataset, todo, opened, shared, run, alone, rule, runs, edits>>

\* A program is killed while it writes; before that it leaves nothing behind.
Kill(p) ==
    /\ todo[p] # <<>>
    /\ todo' = [todo EXCEPT ![p] = <<>>]
    /\ opened' = opened \ {p} /\ shared' = shared \ {p}
    /\ UNCHANGED <<dataset, files, run, alone, rule, runs, edits>>

-----------------------------------------------------------------------------
(* The runners                                                             *)

\* main: the dataset is loaded and validated; an invalid one ends the run.
Load(r, planner, execute) ==
    /\ run[r].pc = "idle" /\ todo[r] = <<>> /\ runs < RunLimit
    /\ ValidDataset(dataset)
    /\ run' = [run EXCEPT ![r] =
        [Idle EXCEPT !.pc = "loaded", !.planner = planner,
                     !.execute = execute, !.cases = dataset]]
    /\ runs' = runs + 1
    /\ UNCHANGED <<dataset, files, todo, opened, shared, alone, rule, edits>>

Write(r, kind, report) ==
    [path |-> <<run[r].planner, kind>>, report |-> report]

\* Runners other than r that have reports for the same files left to write.
Rivals(r) ==
    {q \in Runners \ {r} :
        todo[q] # <<>> /\ Target(q)[1] = run[r].planner}

\* The run is over but for its writes.  alone is history: a runner is in it
\* from here on unless a rival has been writing since.
Deliver(r, writes) ==
    /\ todo' = [todo EXCEPT ![r] = writes]
    /\ run' = [run EXCEPT ![r] = Idle]
    /\ alone' = IF Rivals(r) = {} THEN alone \cup {r}
                ELSE alone \ (Rivals(r) \cup {r})
    /\ UNCHANGED <<dataset, files, opened, shared, rule, runs, edits>>

\* The gate: the provider is not configured, or the planner is not built.
Gate(r) ==
    /\ run[r].pc = "loaded" /\ run[r].planner # "rule"
    /\ Deliver(r, <<Write(r, "evaluation_status", GateReport(run[r], dataset))>>)

\* run_case, where planning raises.
PlanningError ==
    [intent |-> None, tools |-> <<>>, deviating |-> {}, planner_used |-> None,
     planning_error |-> TRUE, executed |-> FALSE, execution_errors |-> FALSE]

PlannerUsed(planner) == IF planner = "auto" THEN {"llm", "rule"} ELSE {planner}

Observations(c, planner, execute) ==
    {PlanningError} \cup
    UNION {{[intent |-> plan.intent, tools |-> plan.tools, deviating |-> d,
             planner_used |-> u, planning_error |-> FALSE,
             executed |-> execute, execution_errors |-> e] :
                d \in SUBSET (c.declared \cap ToSet(plan.tools)),
                u \in PlannerUsed(planner), e \in {FALSE, execute}} :
           plan \in Plans[planner]}

\* The next case, once there is one left to run.
HasCase(r) ==
    run[r].pc # "idle" /\ Len(run[r].outcomes) < Len(run[r].cases)

NextCase(r) == run[r].cases[Len(run[r].outcomes) + 1]

\* The loop over the cases; with the first one the gate is behind the run.
RunCase(r) ==
    /\ HasCase(r)
    /\ \E o \in Observations(NextCase(r), run[r].planner, run[r].execute) :
        run' = [run EXCEPT
            ![r].pc = "cases",
            ![r].outcomes = Append(@, evaluate_case(NextCase(r), o))]
    /\ UNCHANGED <<dataset, files, todo, opened, shared, alone, rule, runs, edits>>

\* An exception of execute_tools is not caught: the run ends without reports.
CaseRaises(r) ==
    /\ HasCase(r) /\ run[r].execute
    /\ run' = [run EXCEPT ![r] = Idle]
    /\ UNCHANGED <<dataset, files, todo, opened, shared, alone, rule, runs, edits>>

\* build_reports: the digest is that of the file as it is now.
BuildReports(r) ==
    /\ run[r].pc = "cases" /\ Len(run[r].outcomes) = Len(run[r].cases)
    /\ Deliver(r, <<Write(r, "baseline", EvaluationReport(run[r], dataset)),
                    Write(r, "failures", FailureReport(run[r], dataset))>>)

-----------------------------------------------------------------------------
(* The comparison                                                          *)

Refuse(status) ==
    /\ todo' = [todo EXCEPT !["comparison"] =
        <<[path |-> <<"planner", "comparison_status">>,
           report |-> Refusal(status)]>>]
    /\ rule' = Absent

\* Mutant of Readable: whatever is at the path is taken for a baseline.
Readable_IfPresent(found) == found # Absent

\* _read_baseline: JSON of a successful run.
Readable(found) == found.status = "OK"

ReadRule ==
    /\ rule = Absent /\ todo["comparison"] = <<>> /\ runs < RunLimit
    /\ runs' = runs + 1
    /\ LET found == files[<<"rule", "baseline">>]
       IN  \/ Readable(found) /\ rule' = found /\ UNCHANGED todo
           \/ ~Readable(found) /\ Refuse("INPUT_UNREADABLE")
    /\ UNCHANGED <<dataset, files, opened, shared, run, alone, edits>>

\* Mutant of Comparable: the digests are not compared.
Comparable_AnyDataset(r, l) == TRUE

Comparable(r, l) == r.run.dataset_sha256 = l.run.dataset_sha256

\* The LLM baseline is read in its turn; then the refusals and the comparison.
ReadLLM ==
    /\ rule # Absent /\ todo["comparison"] = <<>>
    /\ LET found == files[<<"llm", "baseline">>]
       IN  \/ ~Readable(found) /\ Refuse("LLM_EVALUATION_NOT_RUN")
           \/ /\ Readable(found) /\ ~Comparable(rule, found)
              /\ Refuse("DATASET_MISMATCH")
           \/ /\ Readable(found) /\ Comparable(rule, found)
              /\ todo' = [todo EXCEPT !["comparison"] =
                    <<[path |-> <<"planner", "comparison">>,
                       report |-> ComparisonReport(rule, found)]>>]
              /\ rule' = Absent
    /\ UNCHANGED <<dataset, files, opened, shared, run, alone, runs, edits>>

Next ==
    \/ EditDataset
    \/ \E p \in Programs : Truncate(p) \/ Fill(p) \/ Mix(p) \/ Kill(p)
    \/ \E r \in Runners :
        \/ \E option \in Options : Load(r, option[1], option[2])
        \/ Gate(r) \/ RunCase(r) \/ CaseRaises(r) \/ BuildReports(r)
    \/ ReadRule \/ ReadLLM

Spec == Init /\ [][Next]_vars

-----------------------------------------------------------------------------
(* Properties                                                              *)

Metrics == ComparedMetrics \cup {"execution_error_rate"}

RunMetadata ==
    [dataset_sha256 : Datasets, case_count : Nat, planner_mode : Planners,
     execute_tools : BOOLEAN]

\* A report is of the kind its path names, and of a run of that path's planner.
Fits(path, report) ==
    CASE path[2] = "baseline" ->
            /\ report.status = "OK"
            /\ report.run \in RunMetadata /\ report.run.planner_mode = path[1]
            /\ \A name \in Metrics :
                report.metrics[name] \in {None} \cup (Nat \X Nat)
            /\ report.offenders \in Nat
            /\ report.planner_used \subseteq {"rule", "llm", None}
      [] path[2] = "failures" ->
            /\ report.status = "OK"
            /\ report.run \in RunMetadata /\ report.run.planner_mode = path[1]
            /\ \A i \in DOMAIN report.failures :
                /\ report.failures[i].id \in CaseIds
                /\ report.failures[i].failure_types \in SUBSET FailureTypes
                /\ report.failures[i].failure_type
                    \in report.failures[i].failure_types
      [] path[2] = "evaluation_status" ->
            /\ report.status = "LLM_EVALUATION_NOT_RUN"
            /\ report.run \in RunMetadata /\ report.run.planner_mode = path[1]
      [] path[2] = "comparison" ->
            /\ report.status = "OK"
            /\ report.rule_run \in RunMetadata
            /\ report.llm_run \in RunMetadata
            /\ report.verdicts \in [ComparedMetrics ->
                {"better", "worse", "unchanged", "not_comparable"}]
      [] path[2] = "comparison_status" ->
            report.status \in {"INPUT_UNREADABLE", "LLM_EVALUATION_NOT_RUN",
                               "DATASET_MISMATCH"}

\* A runner is between loading and its reports, or neither; its outcomes are
\* those of a prefix of its cases; only what is being written is open; a file
\* is missing, broken or a report of its kind, and so is what waits to be
\* written and what the comparison has read, but for missing and broken.
TypeOK ==
    /\ dataset \in Datasets
    /\ runs \in 0..RunLimit /\ edits \in 0..EditLimit
    /\ run \in [Runners -> RunState]
    /\ \A r \in Runners : \A i \in DOMAIN run[r].outcomes :
        run[r].outcomes[i].case = run[r].cases[i]
    /\ opened \subseteq {p \in Programs : todo[p] # <<>>}
    /\ shared \subseteq opened /\ alone \subseteq Runners
    /\ DOMAIN files = Paths
    /\ \A path \in Paths :
        files[path] \in {Absent, Garbled} \/ Fits(path, files[path])
    /\ \A p \in Programs : \A i \in DOMAIN todo[p] :
        todo[p][i].path \in Paths /\ Fits(todo[p][i].path, todo[p][i].report)
    /\ rule = Absent \/ Fits(<<"rule", "baseline">>, rule)

Baselines ==
    {files[<<t, "baseline">>] : t \in Planners} \ {Absent, Garbled}

\* The verdict on a case and the list of its failures are computed apart in
\* evaluate_case: a case succeeds exactly when nothing but an execution error
\* is held against it.
SuccessMeansNoFailure ==
    \A r \in Runners : \A i \in DOMAIN run[r].outcomes :
        run[r].outcomes[i].task_success
            <=> run[r].outcomes[i].failure_types \subseteq {"execution_error"}

\* A published metric is a proportion of what was measured, or null when
\* nothing was: precision, counted on sets, is null exactly when the rates
\* counted on lists are; every loaded case is counted once (aggregate).
MetricsAreProportions ==
    \A b \in Baselines :
        /\ \A name \in Metrics : b.metrics[name] # None =>
            LET n == b.metrics[name][1]
                d == b.metrics[name][2]
            IN  0 <= n /\ n <= d /\ d > 0
        /\ b.metrics.tool_precision = None <=> b.denominators.selected = 0
        /\ b.metrics.unnecessary_tool_call_rate = None
            <=> b.denominators.selected = 0
        /\ b.metrics.tool_recall = None <=> b.denominators.expected = 0
        /\ b.denominators.total = b.run.case_count
        /\ b.denominators.success + b.offenders <= b.denominators.total

\* Each failure record tells one case, and its own: what it says was expected
\* and done shows the failures it lists (_failure_record, which looks the
\* observation and the case up by id).
FailuresTellTheirCase ==
    \A t \in Planners : files[<<t, "failures">>].status = "OK" =>
        LET listed == files[<<t, "failures">>].failures
        IN  /\ \A i, j \in DOMAIN listed : listed[i].id = listed[j].id => i = j
            /\ \A i \in DOMAIN listed :
                LET r == listed[i]
                    predicted == ToSet(r.actual.tools)
                IN  /\ r.failure_type \in r.failure_types
                    /\ "missing_tool" \in r.failure_types
                        <=> ~(ToSet(r.expected.tools) \subseteq predicted)
                    /\ "argument_mismatch" \in r.failure_types
                        <=> r.expected.declared \cap predicted
                                \cap r.actual.deviating # {}

\* When a runner has written its last report, and no other runner had reports
\* for the same files to write in the meantime, the two reports it leaves are
\* of one run, and the successes of the baseline are the cases the failure
\* report does not hold against the plan.  Runners that do overlap may leave
\* reports of different runs.
FinishedReportsAgree ==
    [][\A r \in Runners, t \in Planners :
        r \in alone /\ todo[r] # <<>> /\ todo'[r] = <<>>
            /\ files' # files /\ Target(r) = <<t, "failures">>
        => LET b == files'[<<t, "baseline">>]
               f == files'[<<t, "failures">>]
           IN  /\ b.run = f.run
               /\ b.denominators.total - b.denominators.success
                    = Cardinality({i \in DOMAIN f.failures :
                        f.failures[i].failure_types # {"execution_error"}})]_vars

\* The comparison compares like with like: the reports it was made of were
\* complete, of a rule run and of an LLM run, and name the same dataset
\* (main of comparison.py), although the two files are read one after the
\* other while runners may be writing them.
ComparesLikeWithLike ==
    LET c == files[<<"planner", "comparison">>]
    IN  c.status = "OK" =>
            /\ c.rule_run.dataset_sha256 = c.llm_run.dataset_sha256
            /\ c.rule_run.planner_mode = "rule"
            /\ c.llm_run.planner_mode = "llm"

\* dataset.py: the digest is taken "so a report names its exact input".
\* Violated: the file is read again for the digest, after the cases were run.
DigestNamesTheInput ==
    \A b \in Baselines : b.run.case_count = Len(b.run.dataset_sha256)

=============================================================================
