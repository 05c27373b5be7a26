-------------------------- MODULE TelemetryProofs --------------------------
(***************************************************************************)
(* Proofs about Telemetry: a thread creates at most one registry, every    *)
(* series is a declared one, and a registry that is in place while nobody  *)
(* creates one stays in place.  What is logged is counted, a histogram     *)
(* follows its counter, and the pages of one registry grow.                *)
(***************************************************************************)
EXTENDS Telemetry, FiniteSums, TLAPS

\* A registry in the making is nobody's yet, and while there is none nobody
\* holds one or has written to one.
Fresh ==
    /\ \A p \in Procs : pc[p] = "create" =>
          /\ values[p] = NoSamples
          /\ \A q \in Procs : held[q] # p
    /\ current = None => \A p \in Procs : values[p] = NoSamples /\ held[p] = None
    /\ pc[Loop] = "render" => cursor < Len(MetricSpecs)

\* The inductive invariant.
TelemetryIInv == TypeOK /\ Fresh

----------------------------------------------------------------------------

\* Every helper logs one of the named events, or nothing.
LEMMA ReportsLog ==
    ASSUME NEW call \in Reports
    PROVE  call.event \in EventNames \cup {None}
  <1> USE DEF EventNames, Recorded, Outcome
  <1>1. \A p, i, s : RequestCompleted(p, i, s).event \in EventNames
    BY DEF RequestCompleted
  <1>2. \A p, r : /\ PlannerCompleted(p).event \in EventNames
                  /\ PlannerFailed(p, r).event \in EventNames
    BY DEF PlannerCompleted, PlannerFailed
  <1>3. \A n, s : /\ ToolCompleted(n, s).event \in EventNames
                  /\ ToolFailed(n).event \in EventNames
    BY DEF ToolCompleted, ToolFailed
  <1>4. \A n, s : /\ RagCompleted(n, s).event \in EventNames
                  /\ RagUnavailable(n).event \in EventNames
    BY DEF RagCompleted, RagUnavailable
  <1>5. \A n : LlmCompleted(n).event \in EventNames /\ LlmFailed(n).event \in EventNames
    BY DEF LlmCompleted, LlmFailed
  <1>6. \A n, u : LlmTokens(n, u).event = None
    BY DEF LlmTokens
  <1> QED
    BY <1>1, <1>2, <1>3, <1>4, <1>5, <1>6 DEF Reports

\* There are eleven collectors.
LEMMA SpecsCount == Len(MetricSpecs) = 11
  <1> QED
    BY DEF MetricSpecs

LEMMA TelemetryInit ==
    ASSUME Init
    PROVE  TelemetryIInv
  <1> QED
    BY TelemetryAssumption DEF Init, TelemetryIInv, TypeOK, Fresh, MetricSpecs, Procs

----------------------------------------------------------------------------

LEMMA ReportStep ==
    ASSUME TelemetryIInv, NEW t \in Threads, NEW call \in Reports, Report(t, call)
    PROVE  TelemetryIInv'
  <1> USE TelemetryAssumption DEF TelemetryIInv, Report, scrape
  <1>1. t \in Procs
    BY DEF Procs
  <1>2. logged' \in [EventNames -> Nat]
    BY ReportsLog DEF TypeOK
  <1>3. records' \in [Threads -> 0 .. RecordLimit]
    BY DEF TypeOK
  <1>4. DOMAIN work' = Threads
    BY DEF TypeOK
  <1>5. \A p \in Procs : pc'[p] = pc[p] \/ (p = t /\ pc'[p] = "check")
    BY <1>1 DEF TypeOK
  <1>6. pc' \in [Procs -> {"idle", "check", "create", "fetch", "write", "render"}]
    BY <1>1 DEF TypeOK
  <1>7. TypeOK'
    BY <1>2, <1>3, <1>4, <1>5, <1>6 DEF TypeOK
  <1> QED
    BY <1>5, <1>7 DEF Fresh, Procs

LEMMA CheckStep ==
    ASSUME TelemetryIInv, NEW p \in Procs, Check(p)
    PROVE  TelemetryIInv'
  <1> USE TelemetryAssumption DEF TelemetryIInv, Check, scrape
  <1>1. TypeOK'
    BY DEF TypeOK, Fresh
  <1> QED
    BY <1>1 DEF TypeOK, Fresh

LEMMA CreateStep ==
    ASSUME TelemetryIInv, NEW p \in Procs, Create(p)
    PROVE  TelemetryIInv'
  <1> USE TelemetryAssumption DEF TelemetryIInv, Create, scrape
  <1>1. TypeOK'
    BY DEF TypeOK, Fresh
  <1> QED
    BY <1>1 DEF TypeOK, Fresh

LEMMA FetchStep ==
    ASSUME TelemetryIInv, NEW p \in Procs, Fetch(p)
    PROVE  TelemetryIInv'
  <1> USE TelemetryAssumption DEF TelemetryIInv, Fetch
  <1>1. held' = [held EXCEPT ![p] = current] /\ current # None
    BY DEF TypeOK
  <1>2. cursor' \in 0 .. Len(MetricSpecs)
    BY DEF TypeOK, MetricSpecs
  <1>3. /\ pc' \in [Procs -> {"idle", "check", "create", "fetch", "write", "render"}]
        /\ \A q \in Procs : q # p => pc'[q] = pc[q]
        /\ pc'[p] \in {"idle", "write", "render"}
    BY DEF TypeOK
  <1>4. TypeOK'
    BY <1>1, <1>2, <1>3 DEF TypeOK
  <1> QED
    <2>1. pc'[Loop] = "render" => cursor' < Len(MetricSpecs)
      <3>1. Loop \in Procs
        BY DEF Procs
      <3> QED
        BY <1>3, <3>1, SpecsCount DEF Fresh
    <2> QED
      BY <1>1, <1>3, <1>4, <2>1 DEF TypeOK, Fresh

LEMMA WriteStep ==
    ASSUME TelemetryIInv, NEW t \in Threads, Write(t)
    PROVE  TelemetryIInv'
  <1> USE TelemetryAssumption DEF TelemetryIInv, Write, scrape
  <1>1. t \in Procs /\ held[t] \in Procs
    BY DEF TypeOK, Procs
  <1>2. current # None
    BY <1>1 DEF Fresh
  <1>3. /\ pc' \in [Procs -> {"idle", "check", "create", "fetch", "write", "render"}]
        /\ \A q \in Procs : q # t => pc'[q] = pc[q]
        /\ pc'[t] \in {"idle", "write"}
    BY <1>1 DEF TypeOK
  <1>4. DOMAIN values' = Procs /\ \A q \in Procs : q # held[t] => values'[q] = values[q]
    BY <1>1 DEF TypeOK
  <1>5. DOMAIN work' = Threads
    BY DEF TypeOK
  <1>6. \A q \in Procs : pc'[q] = "create" => pc[q] = "create" /\ q # held[t]
    BY <1>1, <1>3 DEF Fresh
  <1>7. TypeOK'
    BY <1>1, <1>3, <1>4, <1>5, <1>6 DEF TypeOK
  <1> QED
    BY <1>2, <1>4, <1>6, <1>7 DEF Fresh

LEMMA ScrapeSteps ==
    ASSUME TelemetryIInv, Scrape \/ Render
    PROVE  TelemetryIInv'
  <1> USE TelemetryAssumption DEF TelemetryIInv
  <1>1. Loop \in Procs
    BY DEF Procs
  <1>2. CASE Scrape
    <2>1. TypeOK'
      BY <1>1, <1>2 DEF Scrape, TypeOK
    <2> QED
      BY <1>1, <1>2, <2>1 DEF Scrape, TypeOK, Fresh
  <1>3. CASE Render
    <2>1. /\ pc' \in [Procs -> {"idle", "check", "create", "fetch", "write", "render"}]
          /\ \A q \in Procs : pc'[q] = pc[q] \/ pc'[q] = "idle"
      BY <1>1, <1>3 DEF Render, TypeOK
    <2>2. /\ cursor' = cursor + 1
          /\ cursor \in 0 .. 10
          /\ pc'[Loop] = "render" => cursor' < 11
      BY <1>1, <1>3, SpecsCount DEF Render, TypeOK, Fresh
    <2>3. cursor' \in 0 .. Len(MetricSpecs)
      BY <2>2, SpecsCount
    <2>4. TypeOK'
      BY <1>1, <1>3, <2>1, <2>3 DEF Render, TypeOK
    <2> QED
      BY <1>3, <2>1, <2>2, <2>4, SpecsCount DEF Render, Fresh
  <1> QED
    BY <1>2, <1>3

----------------------------------------------------------------------------

LEMMA TelemetryInvariant == Spec => []TelemetryIInv
  <1>1. Init => TelemetryIInv
    BY TelemetryInit
  <1>2. TelemetryIInv /\ [Next]_vars => TelemetryIInv'
    <2> SUFFICES ASSUME TelemetryIInv, [Next]_vars
                 PROVE  TelemetryIInv'
      OBVIOUS
    <2>1. CASE UNCHANGED vars
      BY <2>1 DEF TelemetryIInv, TypeOK, Fresh, vars
    <2>2. CASE Next
      BY <2>2, ReportStep, WriteStep, CheckStep, CreateStep, FetchStep, ScrapeSteps DEF Next
    <2> QED
      BY <2>1, <2>2
  <1> QED
    BY <1>1, <1>2, PTL DEF Spec

\* Every variable keeps its type in every reachable state, and a thread that
\* creates a registry has not created one before (metrics.py, get_metrics).
THEOREM TelemetryTypeCorrect == Spec => []TypeOK
  <1>1. TelemetryIInv => TypeOK
    BY DEF TelemetryIInv
  <1> QED
    BY <1>1, TelemetryInvariant, PTL

\* For any number of threads: once a registry is in place and nobody stands
\* between the test and the assignment of get_metrics, no step replaces it.
THEOREM SettledRegistryIsKept == Spec => SettledRegistryStays
  <1>1. TelemetryIInv /\ Settled /\ [Next]_vars => Settled' /\ current' = current
    <2> SUFFICES ASSUME TypeOK, Settled, [Next]_vars
                 PROVE  Settled' /\ current' = current
      BY DEF TelemetryIInv
    <2> USE DEF Settled, TypeOK
    <2>1. CASE UNCHANGED vars
      BY <2>1 DEF vars
    <2>2. ASSUME NEW t \in Threads, NEW call \in Reports, Report(t, call)
          PROVE  Settled' /\ current' = current
      BY <2>2 DEF Report
    <2>3. ASSUME NEW t \in Threads, Write(t)
          PROVE  Settled' /\ current' = current
      BY <2>3 DEF Write
    <2>4. ASSUME NEW p \in Procs, Check(p) \/ Create(p) \/ Fetch(p)
          PROVE  Settled' /\ current' = current
      BY <2>4 DEF Check, Create, Fetch
    <2>5. ASSUME Scrape \/ Render
          PROVE  Settled' /\ current' = current
      BY <2>5 DEF Scrape, Render
    <2> QED
      BY <2>1, <2>2, <2>3, <2>4, <2>5 DEF Next
  <1> QED
    BY <1>1, TelemetryInvariant, PTL DEF Spec, SettledRegistryStays

----------------------------------------------------------------------------
(* The series a helper writes. *)

\* What the writes of a call may be: none, one or two of declared series.
Sound(writes) ==
    \/ writes = <<>>
    \/ \E a : writes = <<a>> /\ Declared(a.series)
    \/ \E a, b : /\ writes = <<a, b>> \/ writes = <<a>> \o <<b>>
                 /\ Declared(a.series) /\ Declared(b.series)

LEMMA BoundedInVocabulary ==
    /\ \A v : Bounded(v, PlannerLabels) \in PlannerLabels
    /\ \A v : Bounded(v, IntentLabels) \in IntentLabels
    /\ \A v : Bounded(v, StatusLabels) \in StatusLabels
    /\ \A v : Bounded(v, ToolLabels) \in ToolLabels
    /\ \A v : Bounded(v, ProviderLabels) \in ProviderLabels
    /\ \A v : Bounded(v, ReasonLabels) \in ReasonLabels
  <1> QED
    BY DEF Bounded, PlannerLabels, IntentLabels, StatusLabels, ToolLabels,
           ProviderLabels, ReasonLabels

LEMMA DeclaredByEntry ==
    ASSUME NEW i \in 1 .. 11, NEW metric, NEW amount, NEW labels,
           metric = MetricSpecs[i].name,
           DOMAIN labels = DOMAIN MetricSpecs[i].labels,
           \A l \in DOMAIN labels : labels[l] \in MetricSpecs[i].labels[l]
    PROVE  Declared(Add(metric, labels, amount).series)
  <1>1. i \in 1 .. Len(MetricSpecs)
    BY SpecsCount
  <1>2. /\ Add(metric, labels, amount).series.metric = metric
        /\ Add(metric, labels, amount).series.labels = labels
    BY DEF Add
  <1> QED
    BY <1>1, <1>2 DEF Declared

LEMMA RequestSound ==
    ASSUME NEW planner, NEW intent, NEW status
    PROVE  Sound(RequestCompleted(planner, intent, status).writes)
  <1> DEFINE p == Bounded(planner, PlannerLabels)
             i == Bounded(intent, IntentLabels)
             s == Bounded(status, StatusLabels)
             count == Add("requests", [planner |-> p, intent |-> i, status |-> s], 1)
             time == Add("request_duration", [planner |-> p, status |-> s], 1)
  <1>1. p \in PlannerLabels /\ i \in IntentLabels /\ s \in StatusLabels
    BY BoundedInVocabulary
  <1>2. RequestCompleted(planner, intent, status).writes = <<count, time>>
    BY DEF RequestCompleted, Recorded, CountAndObserve
  <1> HIDE DEF p, i, s
  <1>3. Declared(count.series)
    <2>1. MetricSpecs[1] = Spec1("requests", "counter",
              [planner |-> PlannerLabels, intent |-> IntentLabels, status |-> StatusLabels])
      BY DEF MetricSpecs
    <2> QED
      BY <1>1, <2>1, DeclaredByEntry DEF Spec1
  <1>4. Declared(time.series)
    <2>1. MetricSpecs[2] = Spec1("request_duration", "histogram", PlannerOutcome)
      BY DEF MetricSpecs
    <2> QED
      BY <1>1, <2>1, DeclaredByEntry DEF Spec1, PlannerOutcome
  <1> QED
    BY <1>2, <1>3, <1>4 DEF Sound

LEMMA PlannerSound ==
    ASSUME NEW planner, NEW reason
    PROVE  /\ Sound(PlannerCompleted(planner).writes)
           /\ Sound(PlannerFailed(planner, reason).writes)
  <1> DEFINE p == Bounded(planner, PlannerLabels)
             r == Bounded(reason, ReasonLabels)
             time(s) == Add("planner_duration", [planner |-> p, status |-> s], 1)
             count == Add("planner_failures", [planner |-> p, reason |-> r], 1)
  <1>1. p \in PlannerLabels /\ r \in ReasonLabels
    BY BoundedInVocabulary
  <1>2. /\ PlannerCompleted(planner).writes = <<time("success")>>
        /\ PlannerFailed(planner, reason).writes = <<count, time("error")>>
    BY DEF PlannerCompleted, PlannerFailed, Recorded, CountAndObserve
  <1> HIDE DEF p, r
  <1>3. ASSUME NEW s \in {"success", "error"}
        PROVE  Declared(time(s).series)
    <2>1. MetricSpecs[3] = Spec1("planner_duration", "histogram", PlannerOutcome)
      BY DEF MetricSpecs
    <2>2. s \in StatusLabels
      BY DEF StatusLabels
    <2> QED
      BY <1>1, <2>1, <2>2, DeclaredByEntry DEF Spec1, PlannerOutcome
  <1>4. Declared(count.series)
    <2>1. MetricSpecs[4] = Spec1("planner_failures", "counter",
              [planner |-> PlannerLabels, reason |-> ReasonLabels])
      BY DEF MetricSpecs
    <2> QED
      BY <1>1, <2>1, DeclaredByEntry DEF Spec1
  <1> QED
    BY <1>2, <1>3, <1>4 DEF Sound

\* The helpers of tools, retrievals and completions.
LEMMA OutcomeSound ==
    ASSUME NEW i \in {5, 7, 9}, NEW key, NEW vocabulary, NEW event, NEW value, NEW status,
           key # "status",
           \A v : Bounded(v, vocabulary) \in vocabulary,
           \A j \in {i, i + 1} :
              /\ DOMAIN MetricSpecs[j].labels = {key, "status"}
              /\ MetricSpecs[j].labels[key] = vocabulary
              /\ MetricSpecs[j].labels["status"] = StatusLabels
    PROVE  Sound(Outcome(event, key, value, vocabulary, status,
                         MetricSpecs[i].name, MetricSpecs[i + 1].name).writes)
  <1> DEFINE labels == [l \in {key, "status"} |->
                          IF l = "status" THEN Bounded(status, StatusLabels)
                          ELSE Bounded(value, vocabulary)]
             count == Add(MetricSpecs[i].name, labels, 1)
             time == Add(MetricSpecs[i + 1].name, labels, 1)
  <1>1. Outcome(event, key, value, vocabulary, status,
                MetricSpecs[i].name, MetricSpecs[i + 1].name).writes = <<count, time>>
    BY DEF Outcome, Recorded, CountAndObserve
  <1>2. /\ DOMAIN labels = {key, "status"}
        /\ labels[key] \in vocabulary
        /\ labels["status"] \in StatusLabels
    BY BoundedInVocabulary
  <1> HIDE DEF labels
  <1>3. \A j \in {i, i + 1} : j \in 1 .. 11
    OBVIOUS
  <1>4. ASSUME NEW j \in {i, i + 1}
        PROVE  Declared(Add(MetricSpecs[j].name, labels, 1).series)
    <2>1. /\ DOMAIN labels = DOMAIN MetricSpecs[j].labels
          /\ \A l \in DOMAIN labels : labels[l] \in MetricSpecs[j].labels[l]
      BY <1>2
    <2>2. j \in 1 .. 11
      BY <1>3
    <2> QED
      BY <2>1, <2>2, DeclaredByEntry
  <1> QED
    BY <1>1, <1>4 DEF Sound

LEMMA OperationsSound ==
    ASSUME NEW name, NEW status
    PROVE  /\ Sound(ToolCompleted(name, status).writes)
           /\ Sound(ToolFailed(name).writes)
           /\ Sound(RagCompleted(name, status).writes)
           /\ Sound(RagUnavailable(name).writes)
           /\ Sound(LlmCompleted(name).writes)
           /\ Sound(LlmFailed(name).writes)
  <1>1. /\ MetricSpecs[5] = Spec1("tool_calls", "counter", ToolOutcome)
        /\ MetricSpecs[6] = Spec1("tool_duration", "histogram", ToolOutcome)
        /\ MetricSpecs[7] = Spec1("rag_requests", "counter", ProviderOutcome)
        /\ MetricSpecs[8] = Spec1("rag_duration", "histogram", ProviderOutcome)
        /\ MetricSpecs[9] = Spec1("llm_requests", "counter", ProviderOutcome)
        /\ MetricSpecs[10] = Spec1("llm_duration", "histogram", ProviderOutcome)
    BY DEF MetricSpecs
  <1>2. \A event, s : Sound(Outcome(event, "tool", name, ToolLabels, s,
                                    "tool_calls", "tool_duration").writes)
    <2>1. MetricSpecs[5].name = "tool_calls" /\ MetricSpecs[5 + 1].name = "tool_duration"
      BY <1>1 DEF Spec1
    <2>2. \A j \in {5, 5 + 1} :
              /\ DOMAIN MetricSpecs[j].labels = {"tool", "status"}
              /\ MetricSpecs[j].labels["tool"] = ToolLabels
              /\ MetricSpecs[j].labels["status"] = StatusLabels
      BY <1>1 DEF Spec1, ToolOutcome
    <2> QED
      BY <2>1, <2>2, BoundedInVocabulary, OutcomeSound
  <1>3. \A event, s : Sound(Outcome(event, "provider", name, ProviderLabels, s,
                                    "rag_requests", "rag_duration").writes)
    <2>1. MetricSpecs[7].name = "rag_requests" /\ MetricSpecs[7 + 1].name = "rag_duration"
      BY <1>1 DEF Spec1
    <2>2. \A j \in {7, 7 + 1} :
              /\ DOMAIN MetricSpecs[j].labels = {"provider", "status"}
              /\ MetricSpecs[j].labels["provider"] = ProviderLabels
              /\ MetricSpecs[j].labels["status"] = StatusLabels
      BY <1>1 DEF Spec1, ProviderOutcome
    <2> QED
      BY <2>1, <2>2, BoundedInVocabulary, OutcomeSound
  <1>4. \A event, s : Sound(Outcome(event, "provider", name, ProviderLabels, s,
                                    "llm_requests", "llm_duration").writes)
    <2>1. MetricSpecs[9].name = "llm_requests" /\ MetricSpecs[9 + 1].name = "llm_duration"
      BY <1>1 DEF Spec1
    <2>2. \A j \in {9, 9 + 1} :
              /\ DOMAIN MetricSpecs[j].labels = {"provider", "status"}
              /\ MetricSpecs[j].labels["provider"] = ProviderLabels
              /\ MetricSpecs[j].labels["status"] = StatusLabels
      BY <1>1 DEF Spec1, ProviderOutcome
    <2> QED
      BY <2>1, <2>2, BoundedInVocabulary, OutcomeSound
  <1> QED
    BY <1>2, <1>3, <1>4
       DEF ToolCompleted, ToolFailed, RagCompleted, RagUnavailable, LlmCompleted, LlmFailed

LEMMA TokensSound ==
    ASSUME NEW provider, NEW usage
    PROVE  Sound(LlmTokens(provider, usage).writes)
  <1> DEFINE p == Bounded(provider, ProviderLabels)
             add(type) == Add("llm_tokens", [provider |-> p, type |-> type], usage[type])
             of(type) == IF usage[type] = None \/ usage[type] < 0 THEN <<>> ELSE <<add(type)>>
  <1>1. LlmTokens(provider, usage).writes = of("prompt") \o of("completion")
    BY DEF LlmTokens, Recorded
  <1>2. p \in ProviderLabels
    BY BoundedInVocabulary
  <1> HIDE DEF p
  <1>3. ASSUME NEW type \in {"prompt", "completion"}
        PROVE  Declared(add(type).series)
    <2>1. MetricSpecs[11] = Spec1("llm_tokens", "counter",
              [provider |-> ProviderLabels, type |-> TokenLabels])
      BY DEF MetricSpecs
    <2>2. type \in TokenLabels
      BY DEF TokenLabels
    <2> QED
      BY <1>2, <2>1, <2>2, DeclaredByEntry DEF Spec1
  <1>4. \A type : of(type) = <<>> \/ of(type) = <<add(type)>>
    OBVIOUS
  <1>5. ASSUME NEW a, NEW b
        PROVE  /\ <<>> \o <<>> = <<>>
               /\ <<a>> \o <<>> = <<a>>
               /\ <<>> \o <<b>> = <<b>>
    OBVIOUS
  <1> HIDE DEF of, add
  <1> QED
    BY <1>1, <1>3, <1>4, <1>5 DEF Sound

LEMMA ReportsSound ==
    ASSUME NEW call \in Reports
    PROVE  Sound(call.writes)
  <1> QED
    BY RequestSound, PlannerSound, OperationsSound, TokensSound DEF Reports

----------------------------------------------------------------------------
(* The series of the registries. *)

\* Writes of the helpers, all of a declared series.
DeclaredWrites ==
    {w \in UNION {{call.writes[i] : i \in 1 .. Len(call.writes)} : call \in Reports} :
        Declared(w.series)}

AllDeclared(samples) == \A s \in DOMAIN samples : Declared(s)

\* The inductive invariant for the series.
SeriesIInv ==
    /\ TelemetryIInv
    /\ work \in [Threads -> Seq(DeclaredWrites)]
    /\ \A t \in Threads : pc[t] = "write" => work[t] # <<>>
    /\ \A p \in Procs : AllDeclared(values[p])
    /\ AllDeclared(page)
    /\ AllDeclared(published.samples)

LEMMA WritesDeclared ==
    ASSUME NEW call \in Reports
    PROVE  call.writes \in Seq(DeclaredWrites)
  <1>1. CASE call.writes = <<>>
    BY <1>1
  <1>2. ASSUME NEW a, call.writes = <<a>>, Declared(a.series)
        PROVE  call.writes \in Seq(DeclaredWrites)
    <2>1. 1 \in 1 .. Len(call.writes) /\ call.writes[1] = a
      BY <1>2
    <2>2. a \in DeclaredWrites
      BY <1>2, <2>1 DEF DeclaredWrites
    <2> QED
      BY <1>2, <2>2
  <1>3. ASSUME NEW a, NEW b, call.writes = <<a, b>> \/ call.writes = <<a>> \o <<b>>,
               Declared(a.series), Declared(b.series)
        PROVE  call.writes \in Seq(DeclaredWrites)
    <2>1. <<a>> \in Seq({a, b}) /\ <<b>> \in Seq({a, b})
      OBVIOUS
    <2>2. /\ 1 \in 1 .. Len(call.writes) /\ call.writes[1] = a
          /\ 2 \in 1 .. Len(call.writes) /\ call.writes[2] = b
      <3>1. CASE call.writes = <<a, b>>
        BY <3>1
      <3>2. CASE call.writes = <<a>> \o <<b>>
        <4> DEFINE ab == <<a>> \o <<b>>
        <4>1. Len(<<a>>) = 1 /\ <<a>>[1] = a /\ Len(<<b>>) = 1 /\ <<b>>[1] = b
          OBVIOUS
        <4>2. Len(ab) = 2 /\ ab[1] = a /\ ab[2] = b
          BY <2>1, <4>1
        <4> HIDE DEF ab
        <4> QED
          BY <3>2, <4>2 DEF ab
      <3> QED
        BY <1>3, <3>1, <3>2
    <2>3. a \in DeclaredWrites /\ b \in DeclaredWrites
      BY <1>3, <2>2 DEF DeclaredWrites
    <2>4. <<a, b>> \in Seq(DeclaredWrites) /\ <<a>> \o <<b>> \in Seq(DeclaredWrites)
      BY <2>3
    <2> QED
      BY <1>3, <2>4
  <1> QED
    BY <1>1, <1>2, <1>3, ReportsSound DEF Sound

LEMMA SeriesInit ==
    ASSUME Init
    PROVE  SeriesIInv
  <1>1. TelemetryIInv
    BY TelemetryInit
  <1>2. \A t \in Threads : work[t] = <<>>
    BY DEF Init
  <1> QED
    BY <1>1, <1>2 DEF Init, SeriesIInv, AllDeclared, NoSamples, Procs

LEMMA SeriesWrite ==
    ASSUME SeriesIInv, TelemetryIInv', NEW t \in Threads, Write(t)
    PROVE  SeriesIInv'
  <1> DEFINE write == Head(work[t])
  <1>1. /\ work[t] \in Seq(DeclaredWrites) /\ work[t] # <<>>
        /\ t \in Procs /\ held[t] \in Procs
    BY DEF Write, SeriesIInv, TelemetryIInv, TypeOK, Procs
  <1>2. write \in DeclaredWrites /\ Tail(work[t]) \in Seq(DeclaredWrites)
    BY <1>1
  <1>3. Declared(write.series)
    BY <1>2 DEF DeclaredWrites
  <1> HIDE DEF write
  <1>4. work' \in [Threads -> Seq(DeclaredWrites)]
    BY <1>2 DEF Write, SeriesIInv
  <1>5. \A u \in Threads : pc'[u] = "write" => work'[u] # <<>>
    <2>1. SUFFICES ASSUME NEW u \in Threads, pc'[u] = "write"
                   PROVE  work'[u] # <<>>
      OBVIOUS
    <2>2. CASE u = t
      <3>1. Len(work[t]) # 1
        BY <1>1, <2>1, <2>2 DEF Write, SeriesIInv, TelemetryIInv, TypeOK
      <3>2. work'[t] = Tail(work[t])
        BY DEF Write, SeriesIInv
      <3>3. Tail(work[t]) # <<>>
        <4>1. Len(work[t]) \in Nat \ {0, 1}
          BY <1>1, <3>1
        <4>2. Len(Tail(work[t])) = Len(work[t]) - 1
          BY <1>1
        <4>3. Len(Tail(work[t])) # 0 /\ Len(<<>>) = 0
          BY <4>1, <4>2
        <4> QED
          BY <4>3
      <3> QED
        BY <2>2, <3>2, <3>3
    <2>3. CASE u # t
      BY <2>1, <2>3 DEF Write, SeriesIInv, TelemetryIInv, TypeOK, Procs
    <2> QED
      BY <2>2, <2>3
  <1>6. ASSUME NEW p \in Procs
        PROVE  AllDeclared(values'[p])
    <2>1. CASE p = held[t]
      <3>1. values'[p] = Incremented(values[p], write)
        BY <1>1, <2>1 DEF Write, write, SeriesIInv, TelemetryIInv, TypeOK
      <3>2. DOMAIN values'[p] = DOMAIN values[p] \cup {write.series}
        BY <3>1 DEF Incremented
      <3> QED
        BY <1>3, <3>2 DEF AllDeclared, SeriesIInv
    <2>2. CASE p # held[t]
      BY <1>1, <2>2 DEF Write, SeriesIInv, TelemetryIInv, TypeOK
    <2> QED
      BY <2>1, <2>2
  <1> QED
    BY <1>4, <1>5, <1>6 DEF SeriesIInv, Write, scrape

LEMMA SeriesRender ==
    ASSUME SeriesIInv, TelemetryIInv', Render
    PROVE  SeriesIInv'
  <1>1. Loop \in Procs /\ held[Loop] \in Procs /\ Loop \notin Threads
    BY TelemetryAssumption DEF Render, SeriesIInv, TelemetryIInv, TypeOK, Procs
  <1>2. AllDeclared(page')
    <2>1. \A s \in DOMAIN page' : s \in DOMAIN page \/ s \in DOMAIN values[held[Loop]]
      BY DEF Render, Rendered
    <2> QED
      BY <1>1, <2>1 DEF SeriesIInv, AllDeclared
  <1>3. AllDeclared(published'.samples)
    BY <1>2 DEF Render, SeriesIInv
  <1>4. \A t \in Threads : pc'[t] = pc[t]
    BY <1>1 DEF Render, SeriesIInv, TelemetryIInv, TypeOK, Procs
  <1> QED
    BY <1>2, <1>3, <1>4 DEF Render, SeriesIInv

LEMMA SeriesOther ==
    ASSUME SeriesIInv, TelemetryIInv', NEW p \in Procs,
           Check(p) \/ Create(p) \/ Fetch(p)
    PROVE  SeriesIInv'
  <1>1. CASE Check(p)
    BY <1>1 DEF Check, scrape, SeriesIInv, TelemetryIInv, TypeOK, Procs
  <1>2. CASE Create(p)
    <2>1. \A q \in Procs : values'[q] = values[q] \/ values'[q] = NoSamples
      BY <1>2 DEF Create, SeriesIInv, TelemetryIInv, TypeOK
    <2>2. AllDeclared(NoSamples)
      BY DEF AllDeclared, NoSamples
    <2>3. \A q \in Procs : AllDeclared(values'[q])
      BY <2>1, <2>2 DEF SeriesIInv
    <2> QED
      BY <1>2, <2>3 DEF Create, scrape, SeriesIInv, TelemetryIInv, TypeOK, Procs
  <1>3. CASE Fetch(p)
    <2>1. AllDeclared(page')
      BY <1>3 DEF Fetch, AllDeclared, NoSamples, SeriesIInv
    <2>2. \A t \in Threads : pc'[t] = "write" => work[t] # <<>>
      BY <1>3, TelemetryAssumption DEF Fetch, SeriesIInv, TelemetryIInv, TypeOK, Procs
    <2> QED
      BY <1>3, <2>1, <2>2 DEF Fetch, SeriesIInv
  <1> QED
    BY <1>1, <1>2, <1>3

LEMMA SeriesInvariant == Spec => []SeriesIInv
  <1>1. SeriesIInv /\ TelemetryIInv' /\ [Next]_vars => SeriesIInv'
    <2> SUFFICES ASSUME SeriesIInv, TelemetryIInv', [Next]_vars
                 PROVE  SeriesIInv'
      OBVIOUS
    <2>1. CASE UNCHANGED vars
      BY <2>1 DEF SeriesIInv, vars
    <2>2. ASSUME NEW t \in Threads, NEW call \in Reports, Report(t, call)
          PROVE  SeriesIInv'
      <3>1. work' \in [Threads -> Seq(DeclaredWrites)]
        BY <2>2, WritesDeclared DEF Report, SeriesIInv
      <3>2. \A u \in Threads : pc'[u] = "write" => work'[u] # <<>>
        BY <2>2 DEF Report, SeriesIInv, TelemetryIInv, TypeOK, Procs
      <3> QED
        BY <2>2, <3>1, <3>2 DEF Report, scrape, SeriesIInv
    <2>3. CASE Scrape
      BY <2>3, TelemetryAssumption DEF Scrape, SeriesIInv, TelemetryIInv, TypeOK, Procs
    <2> QED
      BY <2>1, <2>2, <2>3, SeriesWrite, SeriesRender, SeriesOther DEF Next
  <1> QED
    BY <1>1, SeriesInit, TelemetryInvariant, PTL DEF Spec

\* For any number of threads and whatever the helpers are called with: every
\* series of every registry and of every scrape is one METRIC_SPECS declares.
THEOREM SeriesAreAlwaysDeclared == Spec => []SeriesAreDeclared
  <1>1. SeriesIInv => SeriesAreDeclared
    BY DEF SeriesIInv, SeriesAreDeclared, AllDeclared
  <1> QED
    BY <1>1, SeriesInvariant, PTL

----------------------------------------------------------------------------
(* What a helper writes for the event it logs. *)

Unit(write, metric) == write.series.metric = metric /\ write.amount = 1

\* The helpers that count and then observe: the events they log, the counter
\* and the histogram.
Families ==
    {<<{"request.completed"}, "requests", "request_duration">>,
     <<{"planner.failed"}, "planner_failures", "planner_duration">>,
     <<{"tool.completed", "tool.failed"}, "tool_calls", "tool_duration">>,
     <<{"rag.completed", "rag.unavailable"}, "rag_requests", "rag_duration">>,
     <<{"llm.completed", "llm.failed"}, "llm_requests", "llm_duration">>}

PairOf(call) ==
    \E family \in Families : \E a, b :
        /\ call.event \in family[1]
        /\ call.writes = <<a, b>>
        /\ Unit(a, family[2]) /\ Unit(b, family[3])

TimeOf(call) ==
    /\ call.event = "planner.completed"
    /\ \E a : call.writes = <<a>> /\ Unit(a, "planner_duration")

Tokens(write) == write.series.metric = "llm_tokens" /\ write.amount \in Nat

TokensOf(call) ==
    /\ call.event = None
    /\ \/ call.writes = <<>>
       \/ \E a : call.writes = <<a>> /\ Tokens(a)
       \/ \E a, b : /\ call.writes = <<a>> \o <<b>>
                   /\ Tokens(a) /\ Tokens(b)

LEMMA CountAndObserveUnits ==
    ASSUME NEW counter, NEW labels, NEW histogram, NEW hlabels
    PROVE  \E a, b : /\ CountAndObserve(counter, labels, histogram, hlabels) = <<a, b>>
                     /\ Unit(a, counter) /\ Unit(b, histogram)
  <1>1. /\ Unit(Add(counter, labels, 1), counter)
        /\ Unit(Add(histogram, hlabels, 1), histogram)
    BY DEF Unit, Add
  <1> QED
    BY <1>1 DEF CountAndObserve

LEMMA HelpersWritePairs ==
    /\ \A p, i, s : PairOf(RequestCompleted(p, i, s))
    /\ \A p, r : PairOf(PlannerFailed(p, r))
    /\ \A n, s : PairOf(ToolCompleted(n, s)) /\ PairOf(ToolFailed(n))
    /\ \A n, s : PairOf(RagCompleted(n, s)) /\ PairOf(RagUnavailable(n))
    /\ \A n : PairOf(LlmCompleted(n)) /\ PairOf(LlmFailed(n))
  <1>1. \A event, counter, labels, histogram, hlabels, events :
            <<events, counter, histogram>> \in Families /\ event \in events =>
                PairOf(Recorded(event,
                         CountAndObserve(counter, labels, histogram, hlabels)))
    <2> SUFFICES ASSUME NEW event, NEW counter, NEW labels, NEW histogram, NEW hlabels,
                        NEW events, <<events, counter, histogram>> \in Families,
                        event \in events
                 PROVE  PairOf(Recorded(event,
                                 CountAndObserve(counter, labels, histogram, hlabels)))
      OBVIOUS
    <2>1. PICK a, b : /\ CountAndObserve(counter, labels, histogram, hlabels) = <<a, b>>
                      /\ Unit(a, counter) /\ Unit(b, histogram)
      BY CountAndObserveUnits
    <2> DEFINE family == <<events, counter, histogram>>
    <2>2. family[1] = events /\ family[2] = counter /\ family[3] = histogram
      OBVIOUS
    <2> HIDE DEF family
    <2> QED
      BY <2>1, <2>2 DEF PairOf, Recorded, family
  <1>2. /\ <<{"request.completed"}, "requests", "request_duration">> \in Families
        /\ <<{"planner.failed"}, "planner_failures", "planner_duration">> \in Families
        /\ <<{"tool.completed", "tool.failed"}, "tool_calls", "tool_duration">> \in Families
        /\ <<{"rag.completed", "rag.unavailable"}, "rag_requests", "rag_duration">> \in Families
        /\ <<{"llm.completed", "llm.failed"}, "llm_requests", "llm_duration">> \in Families
    BY DEF Families
  <1>3. /\ \A p, i, s : PairOf(RequestCompleted(p, i, s))
        /\ \A p, r : PairOf(PlannerFailed(p, r))
    BY <1>1, <1>2 DEF RequestCompleted, PlannerFailed
  <1>4. \A n, s : PairOf(ToolCompleted(n, s)) /\ PairOf(ToolFailed(n))
    BY <1>1, <1>2 DEF ToolCompleted, ToolFailed, Outcome
  <1>5. \A n, s : PairOf(RagCompleted(n, s)) /\ PairOf(RagUnavailable(n))
    BY <1>1, <1>2 DEF RagCompleted, RagUnavailable, Outcome
  <1>6. \A n : PairOf(LlmCompleted(n)) /\ PairOf(LlmFailed(n))
    BY <1>1, <1>2 DEF LlmCompleted, LlmFailed, Outcome
  <1> QED
    BY <1>3, <1>4, <1>5, <1>6

LEMMA TokensAreWritten ==
    ASSUME NEW provider, NEW usage,
           \A type \in {"prompt", "completion"} : usage[type] = None \/ usage[type] \in Int
    PROVE  TokensOf(LlmTokens(provider, usage))
  <1> DEFINE add(type) == Add("llm_tokens",
                              [provider |-> Bounded(provider, ProviderLabels), type |-> type],
                              usage[type])
             of(type) == IF usage[type] = None \/ usage[type] < 0 THEN <<>> ELSE <<add(type)>>
  <1>1. /\ LlmTokens(provider, usage).writes = of("prompt") \o of("completion")
        /\ LlmTokens(provider, usage).event = None
    BY DEF LlmTokens, Recorded
  <1>2. ASSUME NEW type \in {"prompt", "completion"}
        PROVE  of(type) = <<>> \/ (of(type) = <<add(type)>> /\ Tokens(add(type)))
    <2>1. CASE usage[type] = None \/ usage[type] < 0
      BY <2>1
    <2>2. CASE ~(usage[type] = None \/ usage[type] < 0)
      <3>1. usage[type] \in Nat
        BY <2>2
      <3> QED
        BY <2>2, <3>1 DEF Tokens, Add
    <2> QED
      BY <2>1, <2>2
  <1>3. ASSUME NEW a, NEW b
        PROVE  /\ <<>> \o <<>> = <<>>
               /\ <<a>> \o <<>> = <<a>>
               /\ <<>> \o <<b>> = <<b>>
    OBVIOUS
  <1> HIDE DEF of, add
  <1> QED
    BY <1>1, <1>2, <1>3 DEF TokensOf

\* Every report is a pair, a lone observation or token counts.
LEMMA ReportsAreOfAKind ==
    ASSUME NEW call \in Reports
    PROVE  PairOf(call) \/ TimeOf(call) \/ TokensOf(call)
  <1>1. \A p : TimeOf(PlannerCompleted(p))
    BY DEF TimeOf, PlannerCompleted, Recorded, Unit, Add
  <1>2. \A p : \A c \in {None, -1} : TokensOf(LlmTokens(p, [prompt |-> 2, completion |-> c]))
    <2> SUFFICES ASSUME NEW p, NEW c \in {None, -1}
                 PROVE  TokensOf(LlmTokens(p, [prompt |-> 2, completion |-> c]))
      OBVIOUS
    <2> DEFINE usage == [prompt |-> 2, completion |-> c]
    <2>1. \A type \in {"prompt", "completion"} : usage[type] = None \/ usage[type] \in Int
      OBVIOUS
    <2> HIDE DEF usage
    <2>2. TokensOf(LlmTokens(p, usage))
      BY <2>1, TokensAreWritten
    <2> QED
      BY <2>2 DEF usage
  <1> QED
    BY <1>1, <1>2, HelpersWritePairs DEF Reports

----------------------------------------------------------------------------
(* The writes a worker has yet to make. *)

Owes(writes, metric) == \E i \in 1 .. Len(writes) : writes[i].series.metric = metric

Natural(writes) ==
    \A i \in 1 .. Len(writes) :
        /\ writes[i].amount \in Nat
        /\ writes[i].series.metric # "llm_tokens" => writes[i].amount = 1

\* Only token counts go to the same collector twice.
Single(writes) ==
    \A i, j \in 1 .. Len(writes) :
        writes[i].series.metric = writes[j].series.metric
        /\ writes[i].series.metric # "llm_tokens" => i = j

\* A counter is followed by its histogram.
Followed(writes) ==
    \A pair \in Pairs : \A i \in 1 .. Len(writes) :
        writes[i].series.metric = pair[1] =>
            \E j \in 1 .. Len(writes) : i < j /\ writes[j].series.metric = pair[2]

Orderly(writes) == Natural(writes) /\ Single(writes) /\ Followed(writes)

\* None of the pairs of a helper's writes has lost its counter yet.
Whole(writes) == \A pair \in Pairs : Owes(writes, pair[2]) => Owes(writes, pair[1])

LEMMA TailOf ==
    ASSUME NEW S, NEW writes \in Seq(S), writes # <<>>
    PROVE  /\ Len(writes) \in Nat \ {0}
           /\ Tail(writes) \in Seq(S)
           /\ Len(Tail(writes)) = Len(writes) - 1
           /\ \A i \in 1 .. Len(Tail(writes)) :
                 i + 1 \in 1 .. Len(writes) /\ Tail(writes)[i] = writes[i + 1]
           /\ Head(writes) = writes[1]
           /\ 1 \in 1 .. Len(writes)
  <1> QED
    OBVIOUS

LEMMA OwesHeadOrTail ==
    ASSUME NEW S, NEW writes \in Seq(S), writes # <<>>, NEW metric
    PROVE  Owes(writes, metric) <=>
               Head(writes).series.metric = metric \/ Owes(Tail(writes), metric)
  <1>1. ASSUME Owes(writes, metric)
        PROVE  Head(writes).series.metric = metric \/ Owes(Tail(writes), metric)
    <2>1. PICK i \in 1 .. Len(writes) : writes[i].series.metric = metric
      BY <1>1 DEF Owes
    <2>2. CASE i = 1
      BY <2>1, <2>2, TailOf
    <2>3. CASE i # 1
      <3>1. /\ i - 1 \in 1 .. Len(Tail(writes))
            /\ Tail(writes)[i - 1] = writes[(i - 1) + 1]
            /\ (i - 1) + 1 = i
        BY <2>3, TailOf
      <3> QED
        BY <2>1, <3>1 DEF Owes
    <2> QED
      BY <2>2, <2>3
  <1>2. ASSUME Owes(Tail(writes), metric)
        PROVE  Owes(writes, metric)
    BY <1>2, TailOf DEF Owes
  <1>3. ASSUME Head(writes).series.metric = metric
        PROVE  Owes(writes, metric)
    BY <1>3, TailOf DEF Owes
  <1> QED
    BY <1>1, <1>2, <1>3

LEMMA OrderlyTail ==
    ASSUME NEW S, NEW writes \in Seq(S), writes # <<>>, Orderly(writes)
    PROVE  Orderly(Tail(writes))
  <1> DEFINE rest == Tail(writes)
  <1>1. /\ Len(writes) \in Nat
        /\ Len(rest) = Len(writes) - 1
        /\ \A i \in 1 .. Len(rest) : i + 1 \in 1 .. Len(writes) /\ rest[i] = writes[i + 1]
    BY TailOf
  <1> HIDE DEF rest
  <1>2. Natural(rest)
    BY <1>1 DEF Orderly, Natural
  <1>3. Single(rest)
    BY <1>1 DEF Orderly, Single
  <1>4. Followed(rest)
    <2> SUFFICES ASSUME NEW pair \in Pairs, NEW i \in 1 .. Len(rest),
                        rest[i].series.metric = pair[1]
                 PROVE  \E j \in 1 .. Len(rest) : i < j /\ rest[j].series.metric = pair[2]
      BY DEF Followed
    <2>1. i + 1 \in 1 .. Len(writes) /\ writes[i + 1].series.metric = pair[1]
      BY <1>1
    <2>2. PICK j \in 1 .. Len(writes) : i + 1 < j /\ writes[j].series.metric = pair[2]
      BY <2>1 DEF Orderly, Followed
    <2>3. /\ j - 1 \in 1 .. Len(rest) /\ i < j - 1
          /\ rest[j - 1] = writes[(j - 1) + 1]
          /\ (j - 1) + 1 = j
      BY <1>1, <2>2
    <2> QED
      BY <2>2, <2>3
  <1> QED
    BY <1>2, <1>3, <1>4 DEF Orderly, rest

\* The first write takes what it writes off the list: with a counter the
\* histogram is still to come, with a histogram the counter is behind.
LEMMA HeadOf ==
    ASSUME NEW S, NEW writes \in Seq(S), writes # <<>>, Orderly(writes)
    PROVE  /\ Head(writes).amount \in Nat
           /\ Head(writes).series.metric # "llm_tokens" =>
                 /\ Head(writes).amount = 1
                 /\ ~ Owes(Tail(writes), Head(writes).series.metric)
           /\ \A pair \in Pairs :
                 /\ Head(writes).series.metric = pair[1] => Owes(Tail(writes), pair[2])
                 /\ Head(writes).series.metric = pair[2] => ~ Owes(Tail(writes), pair[1])
  <1> DEFINE rest == Tail(writes)
             first == Head(writes)
  <1>1. /\ Len(writes) \in Nat
        /\ Len(rest) = Len(writes) - 1
        /\ \A i \in 1 .. Len(rest) : i + 1 \in 1 .. Len(writes) /\ rest[i] = writes[i + 1]
        /\ first = writes[1]
        /\ 1 \in 1 .. Len(writes)
    BY TailOf
  <1> HIDE DEF rest, first
  <1>2. /\ first.amount \in Nat
        /\ first.series.metric # "llm_tokens" => first.amount = 1
    BY <1>1 DEF Orderly, Natural
  <1>3. ASSUME first.series.metric # "llm_tokens", Owes(rest, first.series.metric)
        PROVE  FALSE
    <2>1. PICK i \in 1 .. Len(rest) : rest[i].series.metric = first.series.metric
      BY <1>3 DEF Owes
    <2>2. i + 1 \in 1 .. Len(writes) /\ i + 1 # 1
          /\ writes[i + 1].series.metric = writes[1].series.metric
      BY <1>1, <2>1
    <2> QED
      BY <1>1, <1>3, <2>2 DEF Orderly, Single
  <1>4. ASSUME NEW pair \in Pairs, first.series.metric = pair[1]
        PROVE  Owes(rest, pair[2])
    <2>1. PICK j \in 1 .. Len(writes) : 1 < j /\ writes[j].series.metric = pair[2]
      BY <1>1, <1>4 DEF Orderly, Followed
    <2>2. /\ j - 1 \in 1 .. Len(rest)
          /\ rest[j - 1] = writes[(j - 1) + 1]
          /\ (j - 1) + 1 = j
      BY <1>1, <2>1
    <2> QED
      BY <2>1, <2>2 DEF Owes
  <1>5. ASSUME NEW pair \in Pairs, first.series.metric = pair[2], Owes(rest, pair[1])
        PROVE  FALSE
    <2>1. PICK i \in 1 .. Len(rest) : rest[i].series.metric = pair[1]
      BY <1>5 DEF Owes
    <2>2. i + 1 \in 1 .. Len(writes) /\ writes[i + 1].series.metric = pair[1]
      BY <1>1, <2>1
    <2>3. PICK j \in 1 .. Len(writes) : i + 1 < j /\ writes[j].series.metric = pair[2]
      BY <2>2 DEF Orderly, Followed
    <2>4. pair[2] # "llm_tokens"
      BY DEF Pairs
    <2> QED
      BY <1>1, <1>5, <2>2, <2>3, <2>4 DEF Orderly, Single
  <1> QED
    BY <1>2, <1>3, <1>4, <1>5 DEF rest, first

\* What a call has to write, counted against the event it logs.
Counts(call) ==
    \A metric \in DOMAIN Counted :
        Owes(call.writes, metric) <=> call.event \in Counted[metric]

LEMMA PairOrderly ==
    ASSUME NEW call, PairOf(call)
    PROVE  Orderly(call.writes) /\ Whole(call.writes) /\ Counts(call)
  <1>1. PICK family \in Families : \E a, b :
            /\ call.event \in family[1]
            /\ call.writes = <<a, b>>
            /\ Unit(a, family[2]) /\ Unit(b, family[3])
    BY DEF PairOf
  <1>2. PICK a, b : /\ call.event \in family[1]
                    /\ call.writes = <<a, b>>
                    /\ Unit(a, family[2]) /\ Unit(b, family[3])
    BY <1>1
  <1> DEFINE w == call.writes
             count == family[2]
             time == family[3]
  <1>3. /\ Len(w) = 2 /\ 1 .. Len(w) = {1, 2} /\ w[1] = a /\ w[2] = b
    BY <1>2
  <1>4. /\ a.series.metric = count /\ a.amount = 1
        /\ b.series.metric = time /\ b.amount = 1
    BY <1>2 DEF Unit
  <1>5. /\ count # time
        /\ \A pair \in Pairs : pair[1] = count <=> pair[2] = time
        /\ \A pair \in Pairs : pair[1] # time /\ pair[2] # count
        /\ \A metric \in DOMAIN Counted :
              metric = count \/ metric = time <=> call.event \in Counted[metric]
    BY <1>2 DEF Families, Pairs, Counted
  <1>6. \A metric : Owes(w, metric) <=> metric = count \/ metric = time
    BY <1>3, <1>4 DEF Owes
  <1> HIDE DEF w, count, time
  <1>7. Natural(w) /\ Single(w) /\ Followed(w)
    BY <1>3, <1>4, <1>5 DEF Natural, Single, Followed
  <1> QED
    BY <1>5, <1>6, <1>7 DEF Orderly, Whole, Counts, w

LEMMA TimeOrderly ==
    ASSUME NEW call, TimeOf(call)
    PROVE  Orderly(call.writes) /\ Whole(call.writes) /\ Counts(call)
  <1>1. PICK a : call.writes = <<a>> /\ Unit(a, "planner_duration")
    BY DEF TimeOf
  <1> DEFINE w == call.writes
  <1>2. Len(w) = 1 /\ 1 .. Len(w) = {1} /\ w[1] = a
    BY <1>1
  <1>3. a.series.metric = "planner_duration" /\ a.amount = 1
    BY <1>1 DEF Unit
  <1>4. \A metric : Owes(w, metric) <=> metric = "planner_duration"
    BY <1>2, <1>3 DEF Owes
  <1>5. /\ \A pair \in Pairs : pair[1] # "planner_duration" /\ pair[2] # "planner_duration"
        /\ \A metric \in DOMAIN Counted :
              metric = "planner_duration" <=> call.event \in Counted[metric]
    BY DEF TimeOf, Pairs, Counted
  <1> HIDE DEF w
  <1>6. Natural(w) /\ Single(w) /\ Followed(w)
    BY <1>2, <1>3, <1>5 DEF Natural, Single, Followed
  <1> QED
    BY <1>4, <1>5, <1>6 DEF Orderly, Whole, Counts, w

LEMMA TokensOrderly ==
    ASSUME NEW call, TokensOf(call)
    PROVE  Orderly(call.writes) /\ Whole(call.writes) /\ Counts(call)
  <1> DEFINE w == call.writes
  <1>1. \A i \in 1 .. Len(w) : Tokens(w[i])
    <2>1. ASSUME NEW a, NEW b, w = <<a>> \o <<b>>, Tokens(a), Tokens(b)
          PROVE  \A i \in 1 .. Len(w) : Tokens(w[i])
      <3>1. <<a>> \in Seq({a, b}) /\ <<b>> \in Seq({a, b})
        OBVIOUS
      <3>2. Len(<<a>>) = 1 /\ <<a>>[1] = a /\ Len(<<b>>) = 1 /\ <<b>>[1] = b
        OBVIOUS
      <3> DEFINE ab == <<a>> \o <<b>>
      <3>3. Len(ab) = 2 /\ ab[1] = a /\ ab[2] = b
        BY <3>1, <3>2
      <3> HIDE DEF ab
      <3>4. w = ab
        BY <2>1 DEF ab
      <3> QED
        BY <2>1, <3>3, <3>4
    <2>2. ASSUME NEW a, w = <<a>>, Tokens(a)
          PROVE  \A i \in 1 .. Len(w) : Tokens(w[i])
      BY <2>2
    <2>3. CASE w = <<>>
      BY <2>3
    <2> QED
      BY <2>1, <2>2, <2>3 DEF TokensOf
  <1>2. /\ \A pair \in Pairs : pair[1] # "llm_tokens" /\ pair[2] # "llm_tokens"
        /\ "llm_tokens" \notin DOMAIN Counted
        /\ \A metric \in DOMAIN Counted : call.event \notin Counted[metric]
    <2>1. \A metric \in DOMAIN Counted : Counted[metric] \subseteq EventNames
      BY DEF Counted, EventNames
    <2>2. "llm_tokens" \notin DOMAIN Counted
      BY DEF Counted
    <2> QED
      BY <2>1, <2>2, NoneIsNoEvent DEF TokensOf, Pairs
  <1> HIDE DEF w
  <1>3. \A metric : Owes(w, metric) => metric = "llm_tokens"
    BY <1>1 DEF Owes, Tokens
  <1>4. Natural(w) /\ Single(w) /\ Followed(w)
    BY <1>1, <1>2 DEF Natural, Single, Followed, Tokens
  <1> QED
    BY <1>2, <1>3, <1>4 DEF Orderly, Whole, Counts, w

LEMMA ReportsAreOrderly ==
    ASSUME NEW call \in Reports
    PROVE  Orderly(call.writes) /\ Whole(call.writes) /\ Counts(call)
  <1> QED
    BY ReportsAreOfAKind, PairOrderly, TimeOrderly, TokensOrderly

----------------------------------------------------------------------------
(* The samples add up. *)

\* A registry holds finitely many samples, each a natural number.
Sampled(samples) ==
    /\ IsFiniteSet(DOMAIN samples)
    /\ \A s \in DOMAIN samples : samples[s] \in Nat

LEMMA NothingSampled ==
    /\ Sampled(NoSamples)
    /\ \A metric : Total(NoSamples, metric) = 0
  <1>1. DOMAIN NoSamples = {}
    BY DEF NoSamples
  <1>2. \A metric : InMetric(NoSamples, metric) = {}
    BY <1>1 DEF InMetric
  <1> QED
    BY <1>1, <1>2, FS_EmptySet, SumEmpty DEF Sampled, Total

\* A write adds its amount to its own collector and to no other.
LEMMA TotalIncremented ==
    ASSUME NEW samples, Sampled(samples), NEW write, write.amount \in Nat, NEW metric
    PROVE  /\ Sampled(Incremented(samples, write))
           /\ Total(samples, metric) \in Nat
           /\ Total(Incremented(samples, write), metric)
                  = Total(samples, metric)
                    + (IF write.series.metric = metric THEN write.amount ELSE 0)
  <1> DEFINE new == Incremented(samples, write)
             x == write.series
             old == InMetric(samples, metric)
             base == [s \in DOMAIN samples \cup {x} |-> Sample(samples, s)]
  <1>1. /\ DOMAIN new = DOMAIN samples \cup {x}
        /\ \A s \in DOMAIN samples : s # x => new[s] = samples[s]
        /\ new[x] = Sample(samples, x) + write.amount
    BY DEF Incremented
  <1>2. Sample(samples, x) \in Nat
    BY DEF Sample, Sampled
  <1>3. Sampled(new)
    <2>1. IsFiniteSet(DOMAIN new)
      BY <1>1, FS_AddElement DEF Sampled
    <2> HIDE DEF new
    <2>2. \A s \in DOMAIN new : new[s] \in Nat
      BY <1>1, <1>2 DEF Sampled
    <2> QED
      BY <2>1, <2>2 DEF Sampled
  <1>4. IsFiniteSet(old) /\ \A s \in old : samples[s] \in Nat
    <2>1. old \subseteq DOMAIN samples
      BY DEF InMetric
    <2> QED
      BY <2>1, FS_Subset DEF Sampled
  <1>5. Total(samples, metric) \in Nat
    BY <1>4, SumIsNatural DEF Total
  <1> HIDE DEF new
  <1>6. CASE x.metric # metric
    <2>1. InMetric(new, metric) = old
      BY <1>1, <1>6 DEF InMetric
    <2>2. \A s \in old : new[s] = samples[s]
      BY <1>1, <1>6 DEF InMetric
    <2>3. Total(new, metric) = Total(samples, metric)
      BY <1>4, <2>1, <2>2, SumSame DEF Total
    <2> QED
      BY <1>3, <1>5, <1>6, <2>3 DEF new
  <1>7. CASE x.metric = metric /\ x \in DOMAIN samples
    <2>1. InMetric(new, metric) = old /\ x \in old
      BY <1>1, <1>7 DEF InMetric
    <2>2. /\ \A s \in old : s # x => samples[s] = new[s]
          /\ \A s \in old : samples[s] \in Nat /\ new[s] \in Nat
      BY <1>1, <1>3, <1>4, <2>1 DEF Sampled, InMetric
    <2>3. new[x] = samples[x] + write.amount /\ samples[x] \in Nat
      BY <1>1, <1>2, <1>7 DEF Sample
    <2>4. SumFunctionOnSet(new, old)
              = SumFunctionOnSet(samples, old) - samples[x] + new[x]
      BY <1>4, <2>1, <2>2, SumChange
    <2>5. Total(new, metric) = Total(samples, metric) + write.amount
      BY <1>5, <2>1, <2>3, <2>4 DEF Total
    <2> QED
      BY <1>3, <1>5, <1>7, <2>5 DEF new
  <1>8. CASE x.metric = metric /\ x \notin DOMAIN samples
    <2>1. InMetric(new, metric) = old \cup {x} /\ x \notin old
      BY <1>1, <1>8 DEF InMetric
    <2>2. \A s \in old : new[s] = samples[s] /\ new[s] \in Nat
      BY <1>1, <1>4, <1>8 DEF InMetric
    <2>3. new[x] = write.amount
      BY <1>1, <1>8 DEF Sample
    <2>4. SumFunctionOnSet(new, old \cup {x}) = new[x] + SumFunctionOnSet(new, old)
      BY <1>4, <2>1, <2>2, <2>3, SumAdd
    <2>5. SumFunctionOnSet(new, old) = SumFunctionOnSet(samples, old)
      BY <1>4, <2>2, SumSame
    <2>6. Total(new, metric) = Total(samples, metric) + write.amount
      BY <1>5, <2>1, <2>3, <2>4, <2>5 DEF Total
    <2> QED
      BY <1>3, <1>5, <1>8, <2>6 DEF new
  <1> QED
    BY <1>6, <1>7, <1>8

\* The inductive invariant for the counts: what a worker has yet to write is
\* in order, all of it until it holds a registry and none of it when it is
\* done.
WorkOf(t) ==
    /\ Orderly(work[t])
    /\ pc[t] = "idle" => work[t] = <<>>
    /\ pc[t] \in {"check", "create", "fetch"} => Whole(work[t])
    /\ pc[t] # "render"

CountIInv ==
    /\ SeriesIInv
    /\ \A t \in Threads : WorkOf(t)
    /\ \A p \in Procs : Sampled(values[p])

LEMMA EmptyIsOrderly == Orderly(<<>>) /\ Whole(<<>>) /\ \A m : ~ Owes(<<>>, m)
  <1> QED
    BY DEF Orderly, Natural, Single, Followed, Whole, Owes

LEMMA CountInit ==
    ASSUME Init
    PROVE  CountIInv
  <1>1. SeriesIInv
    BY SeriesInit
  <1>2. \A t \in Threads : work[t] = <<>> /\ pc[t] = "idle"
    BY DEF Init, Procs
  <1>3. \A p \in Procs : values[p] = NoSamples
    BY DEF Init
  <1> QED
    BY <1>1, <1>2, <1>3, EmptyIsOrderly, NothingSampled DEF CountIInv, WorkOf

\* What a write does to the registry that is held and to the list.
LEMMA WriteEffect ==
    ASSUME CountIInv, NEW t \in Threads, Write(t)
    PROVE  /\ work[t] \in Seq(DeclaredWrites) /\ work[t] # <<>> /\ Orderly(work[t])
           /\ Head(work[t]).amount \in Nat
           /\ t \in Procs /\ pc[t] = "write" /\ held[t] \in Procs
           /\ values'[held[t]] = Incremented(values[held[t]], Head(work[t]))
           /\ \A p \in Procs : p # held[t] => values'[p] = values[p]
           /\ work'[t] = Tail(work[t])
           /\ \A u \in Threads : u # t => work'[u] = work[u]
           /\ \A p \in Procs : p # t => pc'[p] = pc[p]
           /\ pc'[t] = "write" \/ (pc'[t] = "idle" /\ Tail(work[t]) = <<>>)
  <1> USE DEF CountIInv, SeriesIInv, TelemetryIInv, TypeOK, Write
  <1>1. t \in Procs /\ pc[t] = "write" /\ held[t] \in Procs
    BY DEF Procs
  <1>2. work[t] \in Seq(DeclaredWrites) /\ work[t] # <<>>
    OBVIOUS
  <1>3. Orderly(work[t])
    BY DEF WorkOf
  <1>4. Head(work[t]).amount \in Nat
    BY <1>2, <1>3, HeadOf
  <1>5. Len(work[t]) = 1 => Tail(work[t]) = <<>>
    BY <1>2
  <1>6. pc'[t] = "write" \/ (pc'[t] = "idle" /\ Tail(work[t]) = <<>>)
    BY <1>1, <1>5
  <1>7. /\ values'[held[t]] = Incremented(values[held[t]], Head(work[t]))
        /\ \A p \in Procs : p # held[t] => values'[p] = values[p]
    BY <1>1
  <1>8. /\ work'[t] = Tail(work[t])
        /\ \A u \in Threads : u # t => work'[u] = work[u]
    OBVIOUS
  <1>9. \A p \in Procs : p # t => pc'[p] = pc[p]
    BY <1>1
  <1> QED
    BY <1>1, <1>2, <1>3, <1>4, <1>6, <1>7, <1>8, <1>9

LEMMA CountWrite ==
    ASSUME CountIInv, SeriesIInv', NEW t \in Threads, Write(t)
    PROVE  CountIInv'
  <1>1. \A p \in Procs : Sampled(values'[p])
    BY WriteEffect, TotalIncremented DEF CountIInv
  <1>2. ASSUME NEW u \in Threads
        PROVE  WorkOf(u)'
    <2>1. CASE u # t
      BY <2>1, WriteEffect DEF CountIInv, WorkOf, Procs
    <2>2. CASE u = t
      <3>1. Orderly(work'[t])
        BY WriteEffect, OrderlyTail
      <3> QED
        BY <2>2, <3>1, WriteEffect DEF WorkOf
    <2> QED
      BY <2>1, <2>2
  <1> QED
    BY <1>1, <1>2 DEF CountIInv

LEMMA CountReport ==
    ASSUME CountIInv, SeriesIInv', NEW t \in Threads, NEW call \in Reports, Report(t, call)
    PROVE  CountIInv'
  <1>1. \A u \in Threads : u \in Procs
    BY DEF Procs
  <1>2. ASSUME NEW u \in Threads
        PROVE  WorkOf(u)'
    <2>1. CASE enabled /\ u = t
      <3>1. work'[t] = call.writes /\ pc'[t] = "check"
        BY <1>1, <2>1 DEF Report, CountIInv, SeriesIInv, TelemetryIInv, TypeOK
      <3> QED
        BY <2>1, <3>1, ReportsAreOrderly DEF WorkOf
    <2>2. CASE ~(enabled /\ u = t)
      <3>1. work'[u] = work[u] /\ pc'[u] = pc[u]
        BY <1>1, <2>2 DEF Report, CountIInv, SeriesIInv, TelemetryIInv, TypeOK
      <3> QED
        BY <3>1 DEF WorkOf, CountIInv
    <2> QED
      BY <2>1, <2>2
  <1> QED
    BY <1>2 DEF CountIInv, Report

LEMMA CountOther ==
    ASSUME CountIInv, SeriesIInv',
           Scrape \/ Render \/ \E p \in Procs : Check(p) \/ Create(p) \/ Fetch(p)
    PROVE  CountIInv'
  <1> USE DEF CountIInv, SeriesIInv, TelemetryIInv, TypeOK
  <1>1. work' = work
    BY DEF Scrape, Render, Check, Create, Fetch
  <1>2. \A p \in Procs : Sampled(values'[p])
    <2>1. \A p \in Procs : values'[p] = values[p] \/ values'[p] = NoSamples
      BY DEF Scrape, Render, Check, Create, Fetch
    <2> QED
      BY <2>1, NothingSampled
  <1>3. ASSUME NEW t \in Threads
        PROVE  WorkOf(t)'
    <2>1. t \in Procs /\ t # Loop /\ WorkOf(t)
      BY TelemetryAssumption DEF Procs
    <2>2. CASE pc'[t] = pc[t]
      BY <1>1, <2>1, <2>2 DEF WorkOf
    <2>3. CASE pc'[t] # pc[t]
      <3>1. PICK p \in Procs : Check(p) \/ Create(p) \/ Fetch(p)
        BY <2>1, <2>3 DEF Scrape, Render
      <3>2. p = t
        BY <2>1, <2>3, <3>1 DEF Check, Create, Fetch
      <3>3. pc[t] \in {"check", "create", "fetch"} /\ Whole(work[t])
        BY <2>1, <3>1, <3>2 DEF WorkOf, Check, Create, Fetch
      <3>4. \/ pc'[t] \in {"create", "fetch", "write"}
            \/ pc'[t] = "idle" /\ work[t] = <<>>
        BY <2>1, <3>1, <3>2 DEF Check, Create, Fetch
      <3> QED
        BY <1>1, <2>1, <3>3, <3>4 DEF WorkOf
    <2> QED
      BY <2>2, <2>3
  <1> QED
    BY <1>2, <1>3

LEMMA CountInvariant == Spec => []CountIInv
  <1>1. CountIInv /\ SeriesIInv' /\ [Next]_vars => CountIInv'
    <2> SUFFICES ASSUME CountIInv, SeriesIInv', [Next]_vars
                 PROVE  CountIInv'
      OBVIOUS
    <2>1. CASE UNCHANGED vars
      BY <2>1 DEF CountIInv, WorkOf, vars
    <2> QED
      BY <2>1, CountReport, CountWrite, CountOther DEF Next
  <1> QED
    BY <1>1, CountInit, SeriesInvariant, PTL DEF Spec

----------------------------------------------------------------------------
(* Every event is counted. *)

LEMMA ThreadsFinite ==
    /\ IsFiniteSet(Procs)
    /\ \A S \in SUBSET Threads : IsFiniteSet(S) /\ Cardinality(S) \in Nat
  <1> QED
    BY TelemetryAssumption, FS_AddElement, FS_Subset, FS_CardinalityType DEF Procs

Waiting(metric) == {t \in Threads : Pending(t, metric)}

LEMMA WaitingForWork ==
    ASSUME NEW metric
    PROVE  Waiting(metric) = {t \in Threads : Owes(work[t], metric)}
  <1> QED
    BY DEF Waiting, Pending, Owes

TotalOf(metric) == [p \in Procs |-> Total(values[p], metric)]

\* What the registries hold and the threads have yet to count.
InHand(metric) == SumFunctionOnSet(TotalOf(metric), Procs) + Cardinality(Waiting(metric))

\* What was logged of the events a metric counts.
LoggedFor(metric) == SumFunctionOnSet(logged, Counted[metric])

Balanced == enabled => \A metric \in DOMAIN Counted : LoggedFor(metric) = InHand(metric)

LEMMA CountsInHand == Balanced <=> EveryEventIsCounted
  <1>1. \A metric : DOMAIN TotalOf(metric) = Procs
    BY DEF TotalOf
  <1>2. \A metric :
            SumFunction([p \in Procs |-> Total(values[p], metric)])
                = SumFunctionOnSet(TotalOf(metric), Procs)
    BY <1>1 DEF TotalOf, SumFunction
  <1> QED
    BY <1>2 DEF Balanced, EveryEventIsCounted, LoggedFor, InHand, Waiting

LEMMA InHandIsNatural ==
    ASSUME CountIInv, NEW metric
    PROVE  /\ \A p \in Procs : TotalOf(metric)[p] \in Nat
           /\ SumFunctionOnSet(TotalOf(metric), Procs) \in Nat
           /\ IsFiniteSet(Waiting(metric))
           /\ Cardinality(Waiting(metric)) \in Nat
  <1>1. \A p \in Procs : TotalOf(metric)[p] \in Nat
    <2>1. ASSUME NEW p \in Procs
          PROVE  TotalOf(metric)[p] \in Nat
      <3>1. \A s \in InMetric(values[p], metric) : values[p][s] \in Nat
        BY DEF InMetric, CountIInv, Sampled
      <3>2. IsFiniteSet(InMetric(values[p], metric))
        BY FS_Subset DEF InMetric, CountIInv, Sampled
      <3> QED
        BY <3>1, <3>2, SumIsNatural DEF TotalOf, Total
    <2> QED
      BY <2>1
  <1>2. Waiting(metric) \in SUBSET Threads
    BY DEF Waiting
  <1> QED
    BY <1>1, <1>2, ThreadsFinite, SumIsNatural

\* The events of a metric are events, and few.
LEMMA CountedEvents ==
    ASSUME NEW metric \in DOMAIN Counted
    PROVE  Counted[metric] \subseteq EventNames /\ IsFiniteSet(Counted[metric])
  <1>1. Counted[metric] \subseteq EventNames
    BY DEF Counted, EventNames
  <1>2. \A e : IsFiniteSet({e})
    BY FS_Singleton
  <1>3. ASSUME NEW e, NEW f
        PROVE  IsFiniteSet({e, f})
    <2> DEFINE S == {e}
    <2>1. IsFiniteSet(S) /\ {e, f} = S \cup {f}
      BY <1>2
    <2> HIDE DEF S
    <2>2. IsFiniteSet(S \cup {f})
      BY <2>1, FS_AddElement
    <2> QED
      BY <2>1, <2>2
  <1>4. \/ Counted[metric] \in {{"request.completed"}, {"planner.failed"}}
        \/ Counted[metric] \in {{"planner.completed", "planner.failed"},
                                {"tool.completed", "tool.failed"},
                                {"rag.completed", "rag.unavailable"},
                                {"llm.completed", "llm.failed"}}
    BY DEF Counted
  <1> QED
    BY <1>1, <1>2, <1>3, <1>4

\* An event that is logged goes on the books of its thread.
LEMMA ReportBalances ==
    ASSUME CountIInv, NEW t \in Threads, NEW call \in Reports, Report(t, call), enabled,
           NEW metric \in DOMAIN Counted, LoggedFor(metric) = InHand(metric)
    PROVE  LoggedFor(metric)' = InHand(metric)'
  <1> DEFINE counted == Counted[metric]
  <1>1. /\ work[t] = <<>>
        /\ work'[t] = call.writes
        /\ \A u \in Threads : u # t => work'[u] = work[u]
    BY DEF Report, CountIInv, WorkOf, SeriesIInv
  <1>2. Owes(call.writes, metric) <=> call.event \in counted
    BY ReportsAreOrderly DEF Counts
  <1>3. t \notin Waiting(metric)
    BY <1>1, WaitingForWork, EmptyIsOrderly
  <1>4. Waiting(metric)' = {u \in Threads : Owes(work'[u], metric)}
    BY DEF Waiting, Pending, Owes
  <1>5. Waiting(metric)' =
            Waiting(metric) \cup (IF call.event \in counted THEN {t} ELSE {})
    BY <1>1, <1>2, <1>3, <1>4, WaitingForWork
  <1>6. SumFunctionOnSet(TotalOf(metric)', Procs) = SumFunctionOnSet(TotalOf(metric), Procs)
    BY DEF TotalOf, Report
  <1>7. logged \in [EventNames -> Nat]
    BY DEF CountIInv, SeriesIInv, TelemetryIInv, TypeOK
  <1>8. counted \subseteq EventNames /\ IsFiniteSet(counted)
    BY CountedEvents
  <1>9. LoggedFor(metric)' =
            LoggedFor(metric) + (IF call.event \in counted THEN 1 ELSE 0)
    <2> HIDE DEF counted
    <2>1. CASE call.event \in counted
      <3>1. /\ \A e \in counted : logged[e] \in Nat /\ logged'[e] \in Nat
            /\ \A e \in counted : e # call.event => logged[e] = logged'[e]
            /\ logged'[call.event] = logged[call.event] + 1
            /\ logged[call.event] \in Nat
        BY <1>7, <1>8, <2>1, NoneIsNoEvent DEF Report
      <3>2. SumFunctionOnSet(logged', counted)
                = SumFunctionOnSet(logged, counted) - logged[call.event] + logged'[call.event]
        <4> DEFINE f == logged
                   g == logged'
                   x == call.event
        <4>1. x \in counted /\ IsFiniteSet(counted)
          BY <1>8, <2>1
        <4>2. /\ \A e \in counted : f[e] \in Nat /\ g[e] \in Nat
              /\ \A e \in counted : e # x => f[e] = g[e]
          BY <3>1
        <4> HIDE DEF f, g, x
        <4>3. SumFunctionOnSet(g, counted) = SumFunctionOnSet(f, counted) - f[x] + g[x]
          BY <4>1, <4>2, SumChange
        <4> QED
          BY <4>3 DEF f, g, x
      <3>3. SumFunctionOnSet(logged, counted) \in Nat
        BY <1>8, <3>1, SumIsNatural
      <3> QED
        BY <2>1, <3>1, <3>2, <3>3 DEF LoggedFor, counted
    <2>2. CASE call.event \notin counted
      <3>1. /\ \A e \in counted : logged[e] = logged'[e]
            /\ \A e \in counted : logged[e] \in Nat
        BY <1>7, <1>8, <2>2 DEF Report
      <3>2. SumFunctionOnSet(logged', counted) = SumFunctionOnSet(logged, counted)
        BY <1>8, <3>1, SumSame
      <3>3. SumFunctionOnSet(logged, counted) \in Nat
        BY <1>8, <3>1, SumIsNatural
      <3> QED
        BY <2>2, <3>2, <3>3 DEF LoggedFor, counted
    <2> QED
      BY <2>1, <2>2
  <1>10. Cardinality(Waiting(metric)') =
             Cardinality(Waiting(metric)) + (IF call.event \in counted THEN 1 ELSE 0)
    <2>1. IsFiniteSet(Waiting(metric)) /\ Cardinality(Waiting(metric)) \in Nat
      BY InHandIsNatural
    <2> DEFINE S == Waiting(metric)
               T == Waiting(metric)'
    <2> HIDE DEF counted, S, T
    <2>2. CASE call.event \in counted
      <3>1. T = S \cup {t} /\ t \notin S
        BY <1>3, <1>5, <2>2 DEF S, T
      <3>2. Cardinality(T) = Cardinality(S) + 1
        BY <2>1, <3>1, FS_AddElement DEF S
      <3> QED
        BY <2>2, <3>2 DEF S, T
    <2>3. CASE call.event \notin counted
      <3>1. T = S
        BY <1>5, <2>3 DEF S, T
      <3> QED
        BY <2>1, <2>3, <3>1 DEF S, T
    <2> QED
      BY <2>2, <2>3
  <1> HIDE DEF counted
  <1> QED
    BY <1>6, <1>9, <1>10, InHandIsNatural DEF InHand

\* A write moves one from the books of its thread to a registry.
LEMMA WriteBalances ==
    ASSUME CountIInv, CountIInv', NEW t \in Threads, Write(t),
           NEW metric \in DOMAIN Counted
    PROVE  InHand(metric)' = InHand(metric)
  <1> DEFINE write == Head(work[t])
             hit == write.series.metric = metric
             one == IF hit THEN 1 ELSE 0
             before == TotalOf(metric)
             after == TotalOf(metric)'
  <1>1. metric # "llm_tokens"
    BY DEF Counted
  <1>2. /\ work[t] \in Seq(DeclaredWrites) /\ work[t] # <<>> /\ Orderly(work[t])
        /\ write.amount \in Nat
        /\ held[t] \in Procs
        /\ values'[held[t]] = Incremented(values[held[t]], write)
        /\ \A p \in Procs : p # held[t] => values'[p] = values[p]
        /\ work'[t] = Tail(work[t])
        /\ \A u \in Threads : u # t => work'[u] = work[u]
    BY WriteEffect
  <1>3. hit => write.amount = 1 /\ ~ Owes(work'[t], metric)
    BY <1>1, <1>2, HeadOf
  <1>4. Owes(work[t], metric) <=> hit \/ Owes(work'[t], metric)
    BY <1>2, OwesHeadOrTail
  <1>5. Waiting(metric)' = {u \in Threads : Owes(work'[u], metric)}
    BY DEF Waiting, Pending, Owes
  <1>6. /\ hit => t \in Waiting(metric)
        /\ Waiting(metric)' = Waiting(metric) \ (IF hit THEN {t} ELSE {})
    BY <1>2, <1>3, <1>4, <1>5, WaitingForWork
  <1>7. Cardinality(Waiting(metric)') = Cardinality(Waiting(metric)) - one
    <2>1. IsFiniteSet(Waiting(metric)) /\ Cardinality(Waiting(metric)) \in Nat
      BY InHandIsNatural
    <2> DEFINE S == Waiting(metric)
               T == Waiting(metric)'
    <2> HIDE DEF hit, S, T
    <2>2. CASE hit
      <3>1. T = S \ {t} /\ t \in S
        BY <1>6, <2>2 DEF S, T
      <3>2. Cardinality(T) = Cardinality(S) - 1
        BY <2>1, <3>1, FS_RemoveElement DEF S
      <3> QED
        BY <2>2, <3>2 DEF S, T
    <2>3. CASE ~ hit
      <3>1. T = S
        BY <1>6, <2>3 DEF S, T
      <3> QED
        BY <2>1, <2>3, <3>1 DEF S, T
    <2> QED
      BY <2>2, <2>3
  <1>8. /\ \A p \in Procs : before[p] \in Nat
        /\ SumFunctionOnSet(before, Procs) \in Nat
        /\ Cardinality(Waiting(metric)) \in Nat
    BY InHandIsNatural
  <1>9. \A p \in Procs : after[p] = Total(values'[p], metric)
    BY DEF TotalOf
  <1>10. \A p \in Procs : before[p] = Total(values[p], metric)
    BY DEF TotalOf
  <1>11. Total(values'[held[t]], metric) = Total(values[held[t]], metric) + one
    <2>1. Sampled(values[held[t]])
      BY <1>2 DEF CountIInv
    <2> HIDE DEF write
    <2> QED
      BY <1>2, <1>3, <2>1, TotalIncremented
  <1> HIDE DEF before, after, write, hit
  <1>12. SumFunctionOnSet(after, Procs) = SumFunctionOnSet(before, Procs) + one
    <2>1. /\ \A p \in Procs : after[p] \in Nat
          /\ after[held[t]] = before[held[t]] + one
          /\ \A p \in Procs : p # held[t] => before[p] = after[p]
      BY <1>2, <1>8, <1>9, <1>10, <1>11
    <2>2. SumFunctionOnSet(after, Procs)
              = SumFunctionOnSet(before, Procs) - before[held[t]] + after[held[t]]
      <3> DEFINE x == held[t]
      <3>1. x \in Procs /\ IsFiniteSet(Procs)
        BY <1>2, ThreadsFinite
      <3>2. /\ \A p \in Procs : before[p] \in Nat /\ after[p] \in Nat
            /\ \A p \in Procs : p # x => before[p] = after[p]
        BY <1>8, <2>1
      <3> HIDE DEF x
      <3>3. SumFunctionOnSet(after, Procs)
                = SumFunctionOnSet(before, Procs) - before[x] + after[x]
        <4>1. \A f, g : /\ \A p \in Procs : f[p] \in Nat /\ g[p] \in Nat
                        /\ \A p \in Procs : p # x => f[p] = g[p]
                        => SumFunctionOnSet(g, Procs)
                               = SumFunctionOnSet(f, Procs) - f[x] + g[x]
          BY <3>1, SumChange
        <4> QED
          BY <3>2, <4>1
      <3> QED
        BY <3>3 DEF x
    <2> QED
      BY <1>2, <1>8, <2>1, <2>2
  <1> QED
    BY <1>7, <1>8, <1>12 DEF InHand, before, after

\* The metrics and the audit trail agree for any number of threads and
\* however they interleave: each logged event is in one registry, once, or
\* its thread is about to count it (metrics.py, instrumentation.py _record).
THEOREM EventsAreCounted == Spec => []EveryEventIsCounted
  <1>1. Init => Balanced
    <2> SUFFICES ASSUME Init, NEW metric \in DOMAIN Counted
                 PROVE  LoggedFor(metric) = InHand(metric)
      BY DEF Balanced
    <2>1. LoggedFor(metric) = 0
      <3>1. \A e \in Counted[metric] : logged[e] = 0
        BY CountedEvents DEF Init
      <3> QED
        BY <3>1, CountedEvents, SumOfZeros DEF LoggedFor
    <2>2. SumFunctionOnSet(TotalOf(metric), Procs) = 0
      <3>1. \A p \in Procs : TotalOf(metric)[p] = 0
        BY NothingSampled DEF Init, TotalOf
      <3> QED
        BY <3>1, ThreadsFinite, SumOfZeros
    <2>3. Waiting(metric) = {}
      BY WaitingForWork, EmptyIsOrderly DEF Init
    <2> QED
      BY <2>1, <2>2, <2>3, FS_EmptySet DEF InHand
  <1>2. CountIInv /\ CountIInv' /\ Balanced /\ [Next]_vars => Balanced'
    <2> SUFFICES ASSUME CountIInv, CountIInv', [Next]_vars, enabled, enabled',
                        NEW metric \in DOMAIN Counted, LoggedFor(metric) = InHand(metric)
                 PROVE  LoggedFor(metric)' = InHand(metric)'
      <3>1. [Next]_vars => enabled' = enabled
        BY DEF Next, vars, Report, Write, Check, Create, Fetch, Scrape, Render
      <3> QED
        BY <3>1 DEF Balanced
    <2>1. ASSUME logged' = logged, work' = work, \A p \in Procs : values'[p] = values[p]
          PROVE  LoggedFor(metric)' = InHand(metric)'
      BY <2>1 DEF LoggedFor, InHand, TotalOf, Waiting, Pending
    <2>2. ASSUME NEW t \in Threads, NEW call \in Reports, Report(t, call)
          PROVE  LoggedFor(metric)' = InHand(metric)'
      BY <2>2, ReportBalances
    <2>3. ASSUME NEW t \in Threads, Write(t)
          PROVE  LoggedFor(metric)' = InHand(metric)'
      BY <2>3, WriteBalances DEF Write, LoggedFor
    <2>4. ASSUME NEW p \in Procs, Create(p)
          PROVE  \A q \in Procs : values'[q] = values[q]
      BY <2>4 DEF Create, CountIInv, SeriesIInv, TelemetryIInv, TypeOK, Fresh
    <2>5. ASSUME NEW p \in Procs, Check(p) \/ Create(p) \/ Fetch(p)
          PROVE  LoggedFor(metric)' = InHand(metric)'
      BY <2>1, <2>4, <2>5 DEF Check, Create, Fetch
    <2>6. CASE Scrape \/ Render \/ UNCHANGED vars
      BY <2>1, <2>6 DEF Scrape, Render, vars
    <2> QED
      BY <2>2, <2>3, <2>5, <2>6 DEF Next
  <1>3. Balanced => EveryEventIsCounted
    BY CountsInHand
  <1> QED
    BY <1>1, <1>2, <1>3, CountInvariant, PTL DEF Spec

----------------------------------------------------------------------------
(* A histogram is behind its counter by the threads between the two writes. *)

\* The threads that stand between the two writes to a registry.
Between(p, pair) ==
    {t \in Threads : /\ pc[t] = "write" /\ held[t] = p
                     /\ Owes(work[t], pair[2]) /\ ~ Owes(work[t], pair[1])}

Behind ==
    \A p \in Procs : \A pair \in Pairs :
        Total(values[p], pair[1]) = Total(values[p], pair[2]) + Cardinality(Between(p, pair))

LEMMA TotalIsNatural ==
    ASSUME CountIInv, NEW p \in Procs, NEW metric
    PROVE  Total(values[p], metric) \in Nat
  <1>1. Sampled(values[p])
    BY DEF CountIInv
  <1>2. \A w : w.amount \in Nat => Total(values[p], metric) \in Nat
    BY <1>1, TotalIncremented
  <1>3. [amount |-> 0].amount \in Nat
    OBVIOUS
  <1> QED
    BY <1>2, <1>3

LEMMA BetweenIsFinite ==
    ASSUME NEW p, NEW pair
    PROVE  IsFiniteSet(Between(p, pair)) /\ Cardinality(Between(p, pair)) \in Nat
  <1>1. Between(p, pair) \in SUBSET Threads
    BY DEF Between
  <1> QED
    BY <1>1, ThreadsFinite

\* Threads that are not writing, before or after, are between no two writes;
\* those that begin to write have both writes to make.
LEMMA BetweenStays ==
    ASSUME CountIInv, NEW p, NEW pair \in Pairs,
           \A t \in Threads :
              \/ pc'[t] = pc[t] /\ held'[t] = held[t] /\ work'[t] = work[t]
              \/ /\ pc[t] # "write"
                 /\ pc'[t] = "write" => Whole(work'[t])
    PROVE  Between(p, pair)' = Between(p, pair)
  <1>1. Between(p, pair)' =
            {t \in Threads : /\ pc'[t] = "write" /\ held'[t] = p
                             /\ Owes(work'[t], pair[2]) /\ ~ Owes(work'[t], pair[1])}
    BY DEF Between, Owes
  <1> QED
    BY <1>1 DEF Between, Whole

LEMMA BehindWrite ==
    ASSUME CountIInv, NEW t \in Threads, Write(t), NEW p \in Procs, NEW pair \in Pairs,
           Total(values[p], pair[1]) = Total(values[p], pair[2]) + Cardinality(Between(p, pair))
    PROVE  Total(values'[p], pair[1])
               = Total(values'[p], pair[2]) + Cardinality(Between(p, pair)')
  <1> DEFINE write == Head(work[t])
             metric == write.series.metric
             S == Between(p, pair)
             T == Between(p, pair)'
  <1>1. /\ work[t] \in Seq(DeclaredWrites) /\ work[t] # <<>> /\ Orderly(work[t])
        /\ write.amount \in Nat
        /\ t \in Procs /\ pc[t] = "write" /\ held[t] \in Procs
        /\ values'[held[t]] = Incremented(values[held[t]], write)
        /\ \A q \in Procs : q # held[t] => values'[q] = values[q]
        /\ work'[t] = Tail(work[t])
        /\ \A u \in Threads : u # t => work'[u] = work[u]
        /\ \A q \in Procs : q # t => pc'[q] = pc[q]
        /\ pc'[t] = "write" \/ (pc'[t] = "idle" /\ work'[t] = <<>>)
        /\ held' = held
    BY WriteEffect DEF Write
  <1>2. /\ pair[1] # pair[2] /\ pair[1] # "llm_tokens" /\ pair[2] # "llm_tokens"
    BY DEF Pairs
  <1>3. /\ metric \in {pair[1], pair[2]} => write.amount = 1 /\ ~ Owes(work'[t], metric)
        /\ metric = pair[1] => Owes(work'[t], pair[2])
        /\ metric = pair[2] => ~ Owes(work'[t], pair[1])
    BY <1>1, <1>2, HeadOf
  <1>4. \A m : Owes(work[t], m) <=> metric = m \/ Owes(work'[t], m)
    BY <1>1, OwesHeadOrTail
  <1>5. T = {u \in Threads : /\ pc'[u] = "write" /\ held[u] = p
                             /\ Owes(work'[u], pair[2]) /\ ~ Owes(work'[u], pair[1])}
    BY <1>1 DEF Between, Owes
  <1>6. \A u \in Threads : u # t => (u \in T <=> u \in S)
    BY <1>1, <1>5 DEF Between, Procs
  <1>7. /\ \A u \in S : u \in Threads
        /\ \A u \in T : u \in Threads
        /\ t \in S <=> held[t] = p /\ Owes(work[t], pair[2]) /\ ~ Owes(work[t], pair[1])
        /\ t \in T <=> held[t] = p /\ Owes(work'[t], pair[2]) /\ ~ Owes(work'[t], pair[1])
    BY <1>1, <1>5, EmptyIsOrderly DEF Between
  <1>8. /\ Total(values[p], pair[1]) \in Nat
        /\ Total(values[p], pair[2]) \in Nat
        /\ IsFiniteSet(S) /\ Cardinality(S) \in Nat
    BY TotalIsNatural, BetweenIsFinite
  <1>9. ASSUME held[t] = p, NEW m
        PROVE  Total(values'[p], m)
                   = Total(values[p], m) + (IF metric = m THEN write.amount ELSE 0)
    <2>1. Sampled(values[p]) /\ values'[p] = Incremented(values[p], write)
      BY <1>1, <1>9 DEF CountIInv
    <2> HIDE DEF write
    <2> QED
      BY <1>1, <2>1, TotalIncremented
  <1> HIDE DEF write, metric, S, T
  <1>10. CASE held[t] # p
    <2>1. values'[p] = values[p]
      BY <1>1, <1>10
    <2>2. t \notin S /\ t \notin T
      BY <1>7, <1>10
    <2>3. T = S
      BY <1>6, <1>7, <2>2
    <2> QED
      BY <2>1, <2>3 DEF S, T
  <1>11. CASE held[t] = p /\ metric = pair[1]
    <2>1. t \notin S /\ t \in T
      BY <1>3, <1>4, <1>7, <1>11
    <2>2. T = S \cup {t}
      BY <1>6, <1>7, <2>1
    <2>3. Cardinality(T) = Cardinality(S) + 1
      BY <1>8, <2>1, <2>2, FS_AddElement
    <2>4. /\ Total(values'[p], pair[1]) = Total(values[p], pair[1]) + 1
          /\ Total(values'[p], pair[2]) = Total(values[p], pair[2])
      BY <1>2, <1>3, <1>8, <1>9, <1>11
    <2> QED
      BY <1>8, <2>3, <2>4 DEF S, T
  <1>12. CASE held[t] = p /\ metric = pair[2]
    <2>1. t \in S /\ t \notin T
      BY <1>2, <1>3, <1>4, <1>7, <1>12
    <2>2. T = S \ {t}
      BY <1>6, <1>7, <2>1
    <2>3. Cardinality(T) = Cardinality(S) - 1
      BY <1>8, <2>1, <2>2, FS_RemoveElement
    <2>4. /\ Total(values'[p], pair[1]) = Total(values[p], pair[1])
          /\ Total(values'[p], pair[2]) = Total(values[p], pair[2]) + 1
      BY <1>2, <1>3, <1>8, <1>9, <1>12
    <2> QED
      BY <1>8, <2>3, <2>4 DEF S, T
  <1>13. CASE held[t] = p /\ metric # pair[1] /\ metric # pair[2]
    <2>1. T = S
      BY <1>4, <1>6, <1>7, <1>13
    <2>2. /\ Total(values'[p], pair[1]) = Total(values[p], pair[1])
          /\ Total(values'[p], pair[2]) = Total(values[p], pair[2])
      BY <1>8, <1>9, <1>13
    <2> QED
      BY <2>1, <2>2 DEF S, T
  <1> QED
    BY <1>10, <1>11, <1>12, <1>13

\* For any number of threads and in whichever registry: a histogram never
\* runs ahead of its counter, and is behind by the threads that stand between
\* the two writes of a helper (metrics.py record_*: inc, then observe).
THEOREM DurationsNeverLead == Spec => []DurationsFollowCounts
  <1>1. Init => Behind
    <2> SUFFICES ASSUME Init, NEW p \in Procs, NEW pair \in Pairs
                 PROVE  Total(values[p], pair[1])
                            = Total(values[p], pair[2]) + Cardinality(Between(p, pair))
      BY DEF Behind
    <2>1. Between(p, pair) = {}
      BY DEF Init, Between, Procs
    <2> QED
      BY <2>1, NothingSampled, FS_EmptySet DEF Init
  <1>2. CountIInv /\ CountIInv' /\ Behind /\ [Next]_vars => Behind'
    <2> SUFFICES ASSUME CountIInv, CountIInv', Behind, [Next]_vars,
                        NEW p \in Procs, NEW pair \in Pairs
                 PROVE  Total(values'[p], pair[1])
                            = Total(values'[p], pair[2]) + Cardinality(Between(p, pair)')
      BY DEF Behind
    <2> DEFINE Goal == Total(values'[p], pair[1])
                           = Total(values'[p], pair[2]) + Cardinality(Between(p, pair)')
    <2>1. Total(values[p], pair[1])
              = Total(values[p], pair[2]) + Cardinality(Between(p, pair))
      BY DEF Behind
    <2>2. ASSUME values'[p] = values[p],
                 \A t \in Threads :
                    \/ pc'[t] = pc[t] /\ held'[t] = held[t] /\ work'[t] = work[t]
                    \/ /\ pc[t] # "write"
                       /\ pc'[t] = "write" => Whole(work'[t])
          PROVE  Goal
      BY <2>1, <2>2, BetweenStays
    <2> HIDE DEF Goal
    <2>3. ASSUME NEW t \in Threads, Write(t)
          PROVE  Goal
      BY <2>1, <2>3, BehindWrite DEF Goal
    <2>4. ASSUME NEW t \in Threads, NEW call \in Reports, Report(t, call)
          PROVE  Goal
      BY <2>2, <2>4 DEF Report, CountIInv, SeriesIInv, TelemetryIInv, TypeOK, Procs
    <2>5. ASSUME NEW q \in Procs, Check(q) \/ Create(q) \/ Fetch(q)
          PROVE  Goal
      <3>1. values'[p] = values[p]
        BY <2>5 DEF Check, Create, Fetch, CountIInv, SeriesIInv, TelemetryIInv, TypeOK, Fresh
      <3>2. ASSUME NEW t \in Threads
            PROVE  \/ pc'[t] = pc[t] /\ held'[t] = held[t] /\ work'[t] = work[t]
                   \/ /\ pc[t] # "write"
                      /\ pc'[t] = "write" => Whole(work'[t])
        <4>1. work' = work /\ t \in Procs
          BY <2>5 DEF Check, Create, Fetch, Procs
        <4>2. CASE q # t
          BY <2>5, <4>1, <4>2
             DEF Check, Create, Fetch, CountIInv, SeriesIInv, TelemetryIInv, TypeOK
        <4>3. CASE q = t
          BY <2>5, <4>1, <4>3 DEF Check, Create, Fetch, CountIInv, WorkOf
        <4> QED
          BY <4>2, <4>3
      <3> QED
        BY <2>2, <3>1, <3>2
    <2>6. CASE Scrape \/ Render \/ UNCHANGED vars
      <3>1. values' = values /\ work' = work /\ held' = held
        BY <2>6 DEF Scrape, Render, vars
      <3>2. \A t \in Threads : pc'[t] = pc[t]
        BY <2>6, TelemetryAssumption
           DEF Scrape, Render, vars, Procs, CountIInv, SeriesIInv, TelemetryIInv, TypeOK
      <3> QED
        <4>1. values'[p] = values[p]
          BY <3>1
        <4>2. \A t \in Threads :
                 pc'[t] = pc[t] /\ held'[t] = held[t] /\ work'[t] = work[t]
          BY <3>1, <3>2
        <4> QED
          BY <2>2, <4>1, <4>2 DEF Goal
    <2> QED
      BY <2>3, <2>4, <2>5, <2>6 DEF Next, Goal
  <1>3. CountIInv /\ Behind => DurationsFollowCounts
    <2> SUFFICES ASSUME CountIInv, Behind, NEW p \in Procs, NEW pair \in Pairs
                 PROVE  Total(values[p], pair[1]) - Total(values[p], pair[2])
                            = Cardinality({t \in Threads :
                                  /\ pc[t] = "write"
                                  /\ held[t] = p
                                  /\ Pending(t, pair[2])
                                  /\ ~ Pending(t, pair[1])})
      BY DEF DurationsFollowCounts
    <2>1. {t \in Threads : /\ pc[t] = "write"
                           /\ held[t] = p
                           /\ Pending(t, pair[2])
                           /\ ~ Pending(t, pair[1])} = Between(p, pair)
      BY DEF Between, Pending, Owes
    <2>2. /\ Total(values[p], pair[1])
                 = Total(values[p], pair[2]) + Cardinality(Between(p, pair))
          /\ Total(values[p], pair[1]) \in Nat
          /\ Total(values[p], pair[2]) \in Nat
          /\ Cardinality(Between(p, pair)) \in Nat
      BY TotalIsNatural, BetweenIsFinite DEF Behind
    <2> DEFINE left == Total(values[p], pair[1])
               right == Total(values[p], pair[2])
               size == Cardinality(Between(p, pair))
    <2>3. left - right = size
      <3>1. left = right + size /\ left \in Nat /\ right \in Nat /\ size \in Nat
        BY <2>2
      <3> HIDE DEF left, right, size
      <3> QED
        BY <3>1
    <2> QED
      BY <2>1, <2>3, Zenon
  <1> QED
    BY <1>1, <1>2, <1>3, CountInvariant, PTL DEF Spec

----------------------------------------------------------------------------
(* A page never shows less than the page before it. *)

Numbers(samples) == \A s \in DOMAIN samples : samples[s] \in Nat

OfMetric(series, i) == series.metric = MetricSpecs[i].name

\* The inductive invariant for the pages.  What was published is still in the
\* registry it came from, and so is what is on the page; of the collectors the
\* scrape has passed, the page shows whatever was published of that registry.
PageIInv ==
    /\ CountIInv
    /\ Numbers(page) /\ Numbers(published.samples)
    /\ published.from # None =>
          /\ published.from \in Procs
          /\ Grows(published.samples, values[published.from])
    /\ pc[Loop] = "render" =>
          /\ Grows(page, values[held[Loop]])
          /\ held[Loop] = published.from =>
                \A s \in DOMAIN published.samples : \A i \in 1 .. cursor :
                    OfMetric(s, i) => /\ s \in DOMAIN page
                                      /\ published.samples[s] <= page[s]

LEMMA GrowsOn ==
    ASSUME NEW a, NEW b, NEW c, Numbers(a), Numbers(b), Numbers(c),
           Grows(a, b), Grows(b, c)
    PROVE  Grows(a, c)
  <1> QED
    BY DEF Grows, Numbers

LEMMA ValuesAreNumbers ==
    ASSUME CountIInv
    PROVE  \A p \in Procs : Numbers(values[p])
  <1> QED
    BY DEF CountIInv, Sampled, Numbers

\* No step takes anything away from a registry.
LEMMA RegistriesGrow ==
    ASSUME CountIInv, [Next]_vars, NEW p \in Procs
    PROVE  Grows(values[p], values'[p])
  <1>1. CASE values'[p] = values[p]
    BY <1>1, ValuesAreNumbers DEF Grows, Numbers
  <1>2. ASSUME NEW t \in Threads, Write(t)
        PROVE  Grows(values[p], values'[p])
    <2> DEFINE write == Head(work[t])
    <2>1. CASE p = held[t]
      <3>1. values'[p] = Incremented(values[p], write) /\ write.amount \in Nat
        BY <1>2, <2>1, WriteEffect
      <3> HIDE DEF write
      <3>2. \A s \in DOMAIN values[p] : values[p][s] \in Nat
        BY ValuesAreNumbers DEF Numbers
      <3> QED
        BY <3>1, <3>2 DEF Grows, Incremented, Sample
    <2>2. CASE p # held[t]
      BY <1>1, <1>2, <2>2, WriteEffect
    <2> QED
      BY <2>1, <2>2
  <1>3. ASSUME NEW q \in Procs, Check(q) \/ Create(q) \/ Fetch(q)
        PROVE  values'[p] = values[p]
    BY <1>3 DEF Check, Create, Fetch, CountIInv, SeriesIInv, TelemetryIInv, TypeOK, Fresh
  <1>4. ASSUME Scrape \/ Render \/ UNCHANGED vars
               \/ \E t \in Threads : \E call \in Reports : Report(t, call)
        PROVE  values'[p] = values[p]
    BY <1>4 DEF Scrape, Render, vars, Report
  <1> QED
    BY <1>1, <1>2, <1>3, <1>4 DEF Next

\* Steps that leave the pages alone.
LEMMA PageKept ==
    ASSUME PageIInv, CountIInv', [Next]_vars,
           UNCHANGED <<page, cursor, published>>,
           pc'[Loop] = "render" => pc[Loop] = "render" /\ held'[Loop] = held[Loop]
    PROVE  PageIInv'
  <1>1. ASSUME NEW samples, Numbers(samples), NEW p \in Procs, Grows(samples, values[p])
        PROVE  Grows(samples, values'[p])
    <2>1. /\ Numbers(values[p]) /\ Numbers(values'[p])
          /\ Grows(values[p], values'[p])
      BY RegistriesGrow, ValuesAreNumbers DEF PageIInv, CountIInv, Sampled, Numbers
    <2> QED
      BY <1>1, <2>1, GrowsOn
  <1>2. pc[Loop] = "render" => held[Loop] \in Procs
    BY DEF PageIInv, CountIInv, SeriesIInv, TelemetryIInv, TypeOK, Procs
  <1> QED
    BY <1>1, <1>2 DEF PageIInv

LEMMA PageFetched ==
    ASSUME PageIInv, CountIInv', Fetch(Loop)
    PROVE  PageIInv'
  <1>1. page' = NoSamples /\ cursor' = 0 /\ UNCHANGED <<values, published>>
    BY DEF Fetch
  <1>2. \A samples : Grows(NoSamples, samples)
    BY DEF Grows, NoSamples
  <1>3. Numbers(NoSamples)
    BY DEF Numbers, NoSamples
  <1>4. 1 .. 0 = {}
    OBVIOUS
  <1> QED
    BY <1>1, <1>2, <1>3, <1>4 DEF PageIInv

\* The page after one more collector.
LEMMA PageRendered ==
    ASSUME PageIInv, Render
    PROVE  /\ held[Loop] \in Procs
           /\ cursor' \in 1 .. 11
           /\ Numbers(page')
           /\ Grows(page', values[held[Loop]])
           /\ held[Loop] = published.from =>
                 \A s \in DOMAIN published.samples : \A i \in 1 .. cursor' :
                     OfMetric(s, i) => /\ s \in DOMAIN page'
                                       /\ published.samples[s] <= page'[s]
  <1> DEFINE samples == values[held[Loop]]
             own == {s \in DOMAIN samples : OfMetric(s, cursor')}
  <1>1. /\ held[Loop] \in Procs
        /\ cursor \in 0 .. 10 /\ cursor' = cursor + 1
        /\ Grows(page, samples)
    <2>1. Loop \in Procs /\ pc[Loop] = "render"
      BY DEF Render, Procs
    <2>2. held[Loop] \in Procs
      BY <2>1 DEF PageIInv, CountIInv, SeriesIInv, TelemetryIInv, TypeOK
    <2>3. cursor \in 0 .. 11 /\ cursor < 11
      BY <2>1, SpecsCount DEF PageIInv, CountIInv, SeriesIInv, TelemetryIInv, TypeOK, Fresh
    <2> QED
      BY <2>1, <2>2, <2>3 DEF Render, PageIInv
  <1>2. Numbers(samples) /\ Numbers(page)
    BY <1>1, ValuesAreNumbers DEF PageIInv
  <1>3. /\ DOMAIN page' = DOMAIN page \cup own
        /\ \A s \in own : page'[s] = samples[s]
        /\ \A s \in DOMAIN page : s \notin own => page'[s] = page[s]
    BY DEF Render, Rendered, OfMetric
  <1>4. \A s \in own : s \in DOMAIN samples
    OBVIOUS
  <1>5. ASSUME held[Loop] = published.from,
               NEW s \in DOMAIN published.samples, NEW i \in 1 .. cursor', OfMetric(s, i)
        PROVE  s \in DOMAIN page' /\ published.samples[s] <= page'[s]
    <2>1. /\ s \in DOMAIN samples
          /\ published.samples[s] <= samples[s]
      <3>1. published.from # None
        BY <1>1, <1>5, TelemetryAssumption
      <3> QED
        BY <1>5, <3>1 DEF PageIInv, Grows
    <2>2. CASE i = cursor'
      <3>1. s \in own
        BY <1>5, <2>1, <2>2
      <3> HIDE DEF own
      <3> QED
        BY <1>3, <2>1, <3>1
    <2>3. CASE i # cursor'
      <3>1. i \in 1 .. cursor /\ pc[Loop] = "render"
        BY <1>1, <2>3 DEF Render
      <3>2. s \in DOMAIN page /\ published.samples[s] <= page[s]
        BY <1>5, <3>1 DEF PageIInv
      <3>3. page'[s] = page[s] \/ page'[s] = samples[s]
        BY <1>3, <3>2
      <3> HIDE DEF own
      <3> QED
        BY <1>3, <2>1, <3>2, <3>3
    <2> QED
      BY <2>2, <2>3
  <1> HIDE DEF own
  <1>6. Numbers(page')
    BY <1>2, <1>3, <1>4 DEF Numbers
  <1>7. Grows(page', samples)
    BY <1>1, <1>2, <1>3, <1>4 DEF Numbers, Grows
  <1>8. cursor' \in 1 .. 11
    BY <1>1
  <1> QED
    BY <1>1, <1>5, <1>6, <1>7, <1>8

\* With the last collector, everything that was published is on the page.
LEMMA LastPageGrows ==
    ASSUME PageIInv, Render, cursor' = 11, held[Loop] = published.from
    PROVE  Grows(published.samples, page')
  <1>1. \A s \in DOMAIN published.samples : \E i \in 1 .. 11 : OfMetric(s, i)
    BY SpecsCount DEF PageIInv, CountIInv, SeriesIInv, AllDeclared, Declared, OfMetric
  <1> QED
    BY <1>1, PageRendered DEF Grows

LEMMA PageRender ==
    ASSUME PageIInv, CountIInv', Render
    PROVE  PageIInv'
  <1>1. UNCHANGED <<values, held>>
    BY DEF Render
  <1>2. CASE cursor' = 11
    <2>1. published' = [from |-> held[Loop], samples |-> page']
      BY <1>2, SpecsCount DEF Render
    <2>2. pc'[Loop] = "idle"
      BY <1>2, SpecsCount DEF Render, PageIInv, CountIInv, SeriesIInv, TelemetryIInv,
                              TypeOK, Procs
    <2> QED
      BY <1>1, <2>1, <2>2, PageRendered DEF PageIInv
  <1>3. CASE cursor' # 11
    <2>1. published' = published /\ pc' = pc
      BY <1>3, SpecsCount DEF Render
    <2> QED
      BY <1>1, <2>1, PageRendered DEF PageIInv, Render
  <1> QED
    BY <1>2, <1>3

LEMMA PageInvariant == Spec => []PageIInv
  <1>1. Init => PageIInv
    BY CountInit DEF Init, PageIInv, Numbers, NoSamples, Procs
  <1>2. PageIInv /\ CountIInv' /\ [Next]_vars => PageIInv'
    <2> SUFFICES ASSUME PageIInv, CountIInv', [Next]_vars
                 PROVE  PageIInv'
      OBVIOUS
    <2> DEFINE Kept == /\ UNCHANGED <<page, cursor, published>>
                       /\ pc'[Loop] = "render" =>
                              pc[Loop] = "render" /\ held'[Loop] = held[Loop]
    <2>1. TypeOK /\ Loop \in Procs /\ Loop \notin Threads
      BY TelemetryAssumption DEF PageIInv, CountIInv, SeriesIInv, TelemetryIInv, Procs
    <2>2. CASE Kept
      BY <2>2, PageKept
    <2>3. ASSUME NEW t \in Threads, Write(t) \/ \E call \in Reports : Report(t, call)
          PROVE  Kept
      BY <2>1, <2>3 DEF Write, Report, scrape, TypeOK
    <2>4. ASSUME NEW p \in Procs, Check(p) \/ Create(p)
          PROVE  Kept
      BY <2>1, <2>4 DEF Check, Create, scrape, TypeOK
    <2>5. ASSUME NEW p \in Procs, p # Loop, Fetch(p)
          PROVE  Kept
      BY <2>1, <2>5 DEF Fetch, TypeOK
    <2>6. ASSUME Scrape \/ UNCHANGED vars
          PROVE  Kept
      BY <2>1, <2>6 DEF Scrape, vars, TypeOK
    <2> HIDE DEF Kept
    <2> QED
      BY <2>2, <2>3, <2>4, <2>5, <2>6, PageFetched, PageRender DEF Next
  <1> QED
    BY <1>1, <1>2, CountInvariant, PTL DEF Spec

\* However many threads write while a scrape reads collector after
\* collector: two scrapes of one registry never show a sample go back or
\* disappear (metrics.py, Metrics.render).
THEOREM PagesOfARegistryGrow == Spec => OneRegistryGrows
  <1>1. PageIInv /\ [Next]_vars =>
            [published'.from = published.from
                 => Grows(published.samples, published'.samples)]_published
    <2> SUFFICES ASSUME PageIInv, [Next]_vars, published'.from = published.from,
                        published' # published
                 PROVE  Grows(published.samples, published'.samples)
      OBVIOUS
    <2>1. Render
      BY DEF Next, vars, Report, Write, Check, Create, Fetch, Scrape, scrape
    <2>2. cursor' = 11 /\ published' = [from |-> held[Loop], samples |-> page']
      BY <2>1, SpecsCount DEF Render
    <2> QED
      BY <2>1, <2>2, LastPageGrows
  <1> QED
    BY <1>1, PageInvariant, PTL DEF Spec, OneRegistryGrows

=============================================================================
