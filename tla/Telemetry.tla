----------------------------- MODULE Telemetry -----------------------------
(***************************************************************************)
(* The metrics of the agent process: worker threads record what they did,  *)
(* the event loop renders the registry for a scrape.                       *)
(*                                                                         *)
(* The registry is a module global that whoever needs it first creates,    *)
(* without a lock.  A record is logged, then the registry is fetched, then *)
(* the counter and the histogram are written one after the other.  A       *)
(* scrape reads the collectors one after the other as well.                *)
(***************************************************************************)
EXTENDS Integers, Sequences, FiniteSets, FiniteSetsExt

CONSTANTS
    Threads,        \* worker threads that record
    Loop,           \* the event loop, which serves GET /metrics
    None,           \* Python's None, as a label candidate and as a registry
    Planners,       \* planner_used of finished requests, None when they failed
    Tools,          \* names of executed tools
    RagNames,       \* settings.rag_provider
    LlmNames,       \* provider_id of the LLM provider
    RecordLimit,    \* bound: records of each thread
    ScrapeLimit     \* bound: scrapes

Procs == Threads \cup {Loop}

ASSUME TelemetryAssumption ==
    /\ IsFiniteSet(Threads)
    /\ Loop \notin Threads
    /\ None \notin Procs
    /\ RecordLimit \in Nat
    /\ ScrapeLimit \in Nat

----------------------------------------------------------------------------
(* Labels and collectors. *)

PlannerLabels == {"rule", "llm", "none", "other"}
IntentLabels == {"alarm_diagnosis", "maintenance_advice", "device_status",
                 "unknown", "none", "other"}
StatusLabels == {"success", "not_found", "unavailable", "error", "other"}
ToolLabels == {"get_device_status", "query_alarm_code",
               "search_maintenance_manual", "none", "other"}
ProviderLabels == {"local", "http", "openai_compatible", "none", "unknown", "other"}
ReasonLabels == {"invalid_output", "provider_error", "timeout", "configuration",
                 "unknown", "other"}
TokenLabels == {"prompt", "completion"}

\* Mutant of Bounded: label values are taken as they come.
Bounded_AsIs(value, vocabulary) == value

Bounded(value, vocabulary) == IF value \in vocabulary THEN value ELSE "other"

\* METRIC_SPECS in registration order, which is the order of a scrape: each
\* collector, its kind and its labels with the vocabulary of each.
Spec1(name, kind, labels) == [name |-> name, kind |-> kind, labels |-> labels]

PlannerOutcome == [planner |-> PlannerLabels, status |-> StatusLabels]
ToolOutcome == [tool |-> ToolLabels, status |-> StatusLabels]
ProviderOutcome == [provider |-> ProviderLabels, status |-> StatusLabels]

MetricSpecs ==
    <<Spec1("requests", "counter",
            [planner |-> PlannerLabels, intent |-> IntentLabels, status |-> StatusLabels]),
      Spec1("request_duration", "histogram", PlannerOutcome),
      Spec1("planner_duration", "histogram", PlannerOutcome),
      Spec1("planner_failures", "counter",
            [planner |-> PlannerLabels, reason |-> ReasonLabels]),
      Spec1("tool_calls", "counter", ToolOutcome),
      Spec1("tool_duration", "histogram", ToolOutcome),
      Spec1("rag_requests", "counter", ProviderOutcome),
      Spec1("rag_duration", "histogram", ProviderOutcome),
      Spec1("llm_requests", "counter", ProviderOutcome),
      Spec1("llm_duration", "histogram", ProviderOutcome),
      Spec1("llm_tokens", "counter", [provider |-> ProviderLabels, type |-> TokenLabels])>>

\* A series is one collector with one value for each of its labels.
Declared(series) ==
    \E i \in 1..Len(MetricSpecs) :
        LET spec == MetricSpecs[i]
        IN  /\ series.metric = spec.name
            /\ DOMAIN series.labels = DOMAIN spec.labels
            /\ \A l \in DOMAIN series.labels : series.labels[l] \in spec.labels[l]

----------------------------------------------------------------------------
(* The recording helpers.  What a helper does is the event it logs, None   *)
(* for a helper that logs nothing, and the writes it makes, in order.      *)

Add(metric, labels, amount) ==
    [series |-> [metric |-> metric, labels |-> labels], amount |-> amount]

Recorded(event, writes) == [event |-> event, writes |-> writes]

\* Mutant of CountAndObserve: the histogram is written first.
CountAndObserve_Swapped(counter, labels, histogram, hlabels) ==
    <<Add(histogram, hlabels, 1), Add(counter, labels, 1)>>

\* _record with both a counter and a histogram: count, then observe.
CountAndObserve(counter, labels, histogram, hlabels) ==
    <<Add(counter, labels, 1), Add(histogram, hlabels, 1)>>

RequestCompleted(planner, intent, status) ==
    LET p == Bounded(planner, PlannerLabels)
        s == Bounded(status, StatusLabels)
    IN  Recorded("request.completed",
            CountAndObserve(
                "requests",
                [planner |-> p, intent |-> Bounded(intent, IntentLabels), status |-> s],
                "request_duration", [planner |-> p, status |-> s]))

PlannerCompleted(planner) ==
    Recorded("planner.completed",
        <<Add("planner_duration",
              [planner |-> Bounded(planner, PlannerLabels), status |-> "success"], 1)>>)

PlannerFailed(planner, reason) ==
    LET p == Bounded(planner, PlannerLabels)
    IN  Recorded("planner.failed",
            CountAndObserve(
                "planner_failures",
                [planner |-> p, reason |-> Bounded(reason, ReasonLabels)],
                "planner_duration", [planner |-> p, status |-> "error"]))

Outcome(event, key, value, vocabulary, status, counter, histogram) ==
    LET labels == [l \in {key, "status"} |->
                      IF l = "status" THEN Bounded(status, StatusLabels)
                      ELSE Bounded(value, vocabulary)]
    IN  Recorded(event, CountAndObserve(counter, labels, histogram, labels))

ToolCompleted(tool, status) ==
    Outcome("tool.completed", "tool", tool, ToolLabels, status,
            "tool_calls", "tool_duration")

ToolFailed(tool) ==
    Outcome("tool.failed", "tool", tool, ToolLabels, "error",
            "tool_calls", "tool_duration")

RagCompleted(provider, status) ==
    Outcome("rag.completed", "provider", provider, ProviderLabels, status,
            "rag_requests", "rag_duration")

\* Mutant of RagUnavailable: an outage is timed and not counted.
RagUnavailable_Uncounted(provider) ==
    Recorded("rag.unavailable",
        <<Add("rag_duration",
              [provider |-> Bounded(provider, ProviderLabels), status |-> "unavailable"], 1)>>)

RagUnavailable(provider) ==
    Outcome("rag.unavailable", "provider", provider, ProviderLabels, "unavailable",
            "rag_requests", "rag_duration")

LlmCompleted(provider) ==
    Outcome("llm.completed", "provider", provider, ProviderLabels, "success",
            "llm_requests", "llm_duration")

LlmFailed(provider) ==
    Outcome("llm.failed", "provider", provider, ProviderLabels, "unavailable",
            "llm_requests", "llm_duration")

\* usage: the token counts the provider reported, None where it did not.
LlmTokens(provider, usage) ==
    LET of(type) ==
            IF usage[type] = None \/ usage[type] < 0 THEN <<>>
            ELSE <<Add("llm_tokens",
                       [provider |-> Bounded(provider, ProviderLabels), type |-> type],
                       usage[type])>>
    IN  Recorded(None, of("prompt") \o of("completion"))

EventNames == {"request.completed", "planner.completed", "planner.failed",
               "tool.completed", "tool.failed", "rag.completed", "rag.unavailable",
               "llm.completed", "llm.failed"}

ASSUME NoneIsNoEvent == None \notin EventNames

\* Every call a worker makes of a helper that writes metrics.
Reports ==
    {RequestCompleted(p, "unknown", "success") : p \in Planners \ {None}}
        \cup {RequestCompleted(None, None, "error") : p \in Planners \cap {None}}
        \cup {PlannerCompleted(p) : p \in Planners \ {None}}
        \cup {PlannerFailed("llm", "timeout")}
        \cup {ToolCompleted(t, "not_found") : t \in Tools}
        \cup {ToolFailed(t) : t \in Tools}
        \cup {RagCompleted(p, "not_found") : p \in RagNames}
        \cup {RagUnavailable(p) : p \in RagNames}
        \cup {LlmCompleted(p) : p \in LlmNames} \cup {LlmFailed(p) : p \in LlmNames}
        \cup {LlmTokens(p, [prompt |-> 2, completion |-> c]) :
                  p \in LlmNames, c \in {None, -1}}

----------------------------------------------------------------------------
VARIABLES
    enabled,        \* settings.metrics_enabled
    current,        \* the global _metrics: who created it, or None
    values,         \* the samples of each registry, by series
    pc,             \* where each thread stands
    held,           \* the registry a thread has fetched
    work,           \* the writes a worker has yet to make
    records,        \* calls of each worker so far
    logged,         \* how often each event was logged
    page,           \* samples the running scrape has rendered
    cursor,         \* collectors the running scrape has rendered
    scrapes,        \* scrapes so far
    published       \* the last rendered page and the registry it shows

vars == <<enabled, current, values, pc, held, work, records, logged,
          page, cursor, scrapes, published>>

scrape == <<page, cursor, scrapes, published>>

NoSamples == [s \in {} |-> 0]

Init ==
    /\ enabled \in BOOLEAN
    /\ current = None
    /\ values = [p \in Procs |-> NoSamples]
    /\ pc = [p \in Procs |-> "idle"]
    /\ held = [p \in Procs |-> None]
    /\ work = [t \in Threads |-> <<>>]
    /\ records = [t \in Threads |-> 0]
    /\ logged = [e \in EventNames |-> 0]
    /\ page = NoSamples
    /\ cursor = 0
    /\ scrapes = 0
    /\ published = [from |-> None, samples |-> NoSamples]

\* _record: the event is logged in any case, metrics only when enabled.
Report(t, call) ==
    /\ pc[t] = "idle"
    /\ records[t] < RecordLimit
    /\ records' = [records EXCEPT ![t] = @ + 1]
    /\ logged' = IF call.event = None THEN logged
                 ELSE [logged EXCEPT ![call.event] = @ + 1]
    /\ IF enabled
       THEN /\ pc' = [pc EXCEPT ![t] = "check"]
            /\ work' = [work EXCEPT ![t] = call.writes]
       ELSE UNCHANGED <<pc, work>>
    /\ UNCHANGED <<enabled, current, values, held, scrape>>

\* GET /metrics; without metrics it answers 404 and touches nothing.
Scrape ==
    /\ enabled
    /\ pc[Loop] = "idle"
    /\ scrapes < ScrapeLimit
    /\ scrapes' = scrapes + 1
    /\ pc' = [pc EXCEPT ![Loop] = "check"]
    /\ UNCHANGED <<enabled, current, values, held, work, records, logged,
                   page, cursor, published>>

\* Mutant of Check: a registry is made whether there is one or not.
Check_Always(p) ==
    /\ pc[p] = "check"
    /\ pc' = [pc EXCEPT ![p] = "create"]
    /\ UNCHANGED <<enabled, current, values, held, work, records, logged, scrape>>

\* get_metrics: if _metrics is None ...
Check(p) ==
    /\ pc[p] = "check"
    /\ pc' = [pc EXCEPT ![p] = IF current = None THEN "create" ELSE "fetch"]
    /\ UNCHANGED <<enabled, current, values, held, work, records, logged, scrape>>

\* Mutant of Create: the global declaration is missing, a local is assigned.
Create_KeepsItLocal(p) ==
    /\ pc[p] = "create"
    /\ values' = [values EXCEPT ![p] = NoSamples]
    /\ pc' = [pc EXCEPT ![p] = "fetch"]
    /\ UNCHANGED <<enabled, current, held, work, records, logged, scrape>>

\* ... _metrics = Metrics() ...
Create(p) ==
    /\ pc[p] = "create"
    /\ current' = p
    /\ values' = [values EXCEPT ![p] = NoSamples]
    /\ pc' = [pc EXCEPT ![p] = "fetch"]
    /\ UNCHANGED <<enabled, held, work, records, logged, scrape>>

\* ... return _metrics, which reads the global once more.
Fetch(p) ==
    /\ pc[p] = "fetch"
    /\ held' = [held EXCEPT ![p] = current]
    /\ pc' = [pc EXCEPT ![p] = IF p = Loop THEN "render"
                               ELSE IF work[p] = <<>> THEN "idle" ELSE "write"]
    /\ IF p = Loop THEN page' = NoSamples /\ cursor' = 0 ELSE UNCHANGED <<page, cursor>>
    /\ UNCHANGED <<enabled, current, values, work, records, logged, scrapes, published>>

Sample(samples, series) == IF series \in DOMAIN samples THEN samples[series] ELSE 0

\* labels(...).inc(amount) or labels(...).observe(seconds), each under the
\* lock of its own sample; the series comes into being with its first write.
Incremented(samples, write) ==
    [s \in DOMAIN samples \cup {write.series} |->
        IF s = write.series THEN Sample(samples, s) + write.amount ELSE samples[s]]

Write(t) ==
    /\ pc[t] = "write"
    /\ values' = [values EXCEPT ![held[t]] = Incremented(@, Head(work[t]))]
    /\ work' = [work EXCEPT ![t] = Tail(@)]
    /\ pc' = [pc EXCEPT ![t] = IF Len(work[t]) = 1 THEN "idle" ELSE "write"]
    /\ UNCHANGED <<enabled, current, held, records, logged, scrape>>

\* A page with what the i-th collector of a registry has on it as well.
Rendered(shown, samples, i) ==
    LET own == {s \in DOMAIN samples : s.metric = MetricSpecs[i].name}
    IN  [s \in DOMAIN shown \cup own |-> IF s \in own THEN samples[s] ELSE shown[s]]

\* render: the next collector of the registry is copied onto the page, which
\* goes out with the last one.
Render ==
    /\ pc[Loop] = "render"
    /\ cursor' = cursor + 1
    /\ page' = Rendered(page, values[held[Loop]], cursor')
    /\ IF cursor' = Len(MetricSpecs)
       THEN /\ published' = [from |-> held[Loop], samples |-> page']
            /\ pc' = [pc EXCEPT ![Loop] = "idle"]
       ELSE UNCHANGED <<published, pc>>
    /\ UNCHANGED <<enabled, current, values, held, work, records, logged, scrapes>>

Next ==
    \/ \E t \in Threads : \E call \in Reports : Report(t, call)
    \/ \E t \in Threads : Write(t)
    \/ \E p \in Procs : Check(p) \/ Create(p) \/ Fetch(p)
    \/ Scrape
    \/ Render

Spec == Init /\ [][Next]_vars

----------------------------------------------------------------------------
(* Properties. *)

\* Types of the variables.  A registry is named by the thread that created
\* it: a thread creates at most one, for afterwards it always finds one.
TypeOK ==
    /\ enabled \in BOOLEAN
    /\ current \in Procs \cup {None}
    /\ DOMAIN values = Procs
    /\ pc \in [Procs -> {"idle", "check", "create", "fetch", "write", "render"}]
    /\ held \in [Procs -> Procs \cup {None}]
    /\ DOMAIN work = Threads
    /\ records \in [Threads -> 0..RecordLimit]
    /\ logged \in [EventNames -> Nat]
    /\ cursor \in 0..Len(MetricSpecs)
    /\ scrapes \in 0..ScrapeLimit
    /\ \A p \in Procs :
          /\ pc[p] = "create" => p # current /\ values[p] = NoSamples
          /\ pc[p] = "fetch" => current # None
          /\ pc[p] \in {"write", "render"} => held[p] # None

\* Whatever a helper is called with, every series of every registry, those a
\* scrape publishes included, is one METRIC_SPECS declares: the label names
\* prometheus_client insists on, and values of the frozen vocabularies.
SeriesAreDeclared ==
    /\ \A p \in Procs : \A s \in DOMAIN values[p] : Declared(s)
    /\ \A s \in DOMAIN published.samples : Declared(s)

InMetric(samples, metric) == {s \in DOMAIN samples : s.metric = metric}

Total(samples, metric) == SumFunctionOnSet(samples, InMetric(samples, metric))

Pending(t, metric) == \E i \in 1..Len(work[t]) : work[t][i].series.metric = metric

\* What each counter, or lone histogram, counts.
Counted ==
    [requests |-> {"request.completed"},
     planner_duration |-> {"planner.completed", "planner.failed"},
     planner_failures |-> {"planner.failed"},
     tool_calls |-> {"tool.completed", "tool.failed"},
     rag_requests |-> {"rag.completed", "rag.unavailable"},
     llm_requests |-> {"llm.completed", "llm.failed"}]

\* The metrics and the audit trail agree: every event that was logged has
\* been counted once, in one registry, or its thread is about to.
EveryEventIsCounted ==
    enabled =>
        \A metric \in DOMAIN Counted :
            SumFunctionOnSet(logged, Counted[metric])
                = SumFunction([p \in Procs |-> Total(values[p], metric)])
                  + Cardinality({t \in Threads : Pending(t, metric)})

Pairs == {<<"requests", "request_duration">>, <<"tool_calls", "tool_duration">>,
          <<"rag_requests", "rag_duration">>, <<"llm_requests", "llm_duration">>}

\* In one registry a latency histogram never runs ahead of its counter and
\* is behind by exactly the threads that stand between the two writes.
DurationsFollowCounts ==
    \A p \in Procs : \A pair \in Pairs :
        Total(values[p], pair[1]) - Total(values[p], pair[2])
            = Cardinality({t \in Threads :
                  /\ pc[t] = "write"
                  /\ held[t] = p
                  /\ Pending(t, pair[2])
                  /\ ~ Pending(t, pair[1])})

Settled ==
    /\ current # None
    /\ \A p \in Procs : pc[p] # "create"

\* Once a registry is there and no thread is still creating one, it stays:
\* what is recorded from then on is not lost.
SettledRegistryStays == [][Settled => Settled' /\ current' = current]_vars

Grows(old, new) ==
    /\ DOMAIN old \subseteq DOMAIN new
    /\ \A s \in DOMAIN old : old[s] <= new[s]

\* Two scrapes of one registry never show a sample go back or disappear,
\* although a scrape reads the collectors while threads write them.
OneRegistryGrows ==
    [][published'.from = published.from
           => Grows(published.samples, published'.samples)]_published

\* "a Prometheus counter is meant to be monotonic for the life of the
\* process": no scrape shows less than an earlier one.
CountersAreMonotone ==
    [][Grows(published.samples, published'.samples)]_published

=============================================================================
