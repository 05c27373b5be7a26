# A verification of the industrial maintenance agent

The repository is a FastAPI service that answers a maintenance question by
running five LangGraph nodes: it parses the question, plans which tools to call
(with fixed rules or with an LLM), calls them, collects evidence and renders an
answer. This directory holds TLA+ models of it, TLC runs that check them on
small instances, and theorems checked by TLAPS.

Paths are relative to the repository root. `PROJECT.json` gives, for every
definition of a model, the lines of code it stands for, and lists the hazards of
the code and the properties that cover them.

## 1. Inventory

| Component | State | Operations | Interacts with |
|---|---|---|---|
| Endpoint and service: `app/api`, `app/services/agent_service.py`, `app/main.py` | invocations in flight, `request_id` in a context variable | `invoke_agent` runs `AgentService.invoke` on a worker thread; every exception becomes an `AgentInvocationError` and a 500 body with a code | graph, logging |
| Agent graph: `app/agent/graph.py`, `state.py` | `MaintenanceState`, one per invocation; a lazily compiled graph per process | `route_query`, planner node, `execute_tools`, `retrieve_context`, `synthesize`, in that order | parser, planners, tools |
| Query parser: `app/agent/parser.py` | none | `parse_query`: entities and an intent, by precedence | graph, device catalog |
| Planner dispatch: `app/agent/planners/dispatch.py` | none | `dispatch_plan` on `PLANNER_MODE` in {rule, llm, auto}; `_fallback` | rule planner, LLM planner |
| LLM planner: `app/agent/planners/llm.py`, `schema.py` | none | `plan`: call the provider, read a JSON object, validate the plan and each call | LLM provider, argument gate |
| Tool registry and argument gate: `app/tools/registry.py`, `arguments.py` | the registry, filled at import | `register`, `get`, `validate_tool_arguments` | planner and executor |
| Device tool: `app/tools/device_tool.py` | none | `get_device_status`: external source first, then the database | adapters, database |
| Alarm tool: `app/tools/alarm_tool.py` | cached index of a file | `query_alarm_code` | - |
| Manual tool: `app/tools/maintenance_manual_tool.py` | none | `search_maintenance_manual` | RAG provider |
| LLM provider: `app/integrations/llm` | one cached provider with one HTTP client, created on first use | `complete`, `close` | remote endpoint |
| RAG providers: `app/integrations/rag` | one cached provider; the local one caches an imported module | `search`, over HTTP with a timeout or in-process without | remote or in-process engine |
| MetroPT-3 source: `app/integrations/device_data` | cached adapters, an LRU cache of snapshots keyed by file revision | `get_latest_snapshot`: the last line of a growing CSV | a file others append to |
| Device database: `app/database` | SQLite tables | `init_db` (create, drop, seed), reads by the device tool | seed file |
| Device catalog: `app/services/device_catalog.py` | the catalog file, cached once it has been read | `resolve_device_alias` | parser |
| Logging and context: `app/observability/logging.py`, `instrumentation.py`, `context.py` | a context variable per thread | one structured event at the start and end of each operation | everything on the request path |
| Metrics: `app/observability/metrics.py`, `labels.py`, `app/api/routes/meta.py` | a process-wide registry, created on first use | `count`, `observe`, `render`, `reset_metrics` | everything on the request path |
| Tracing: `app/observability/tracing.py` | none of its own | spans of an optional library | - |
| Configuration: `app/config.py`, `app/logging_config.py` | settings, read once | - | everything |
| Evaluation: `evaluation/` | the answer key, report files in one directory | `evaluation.runner` scores a planner case by case and writes two reports; `evaluation.comparison` reads two baselines and writes a third | graph, planners |
| Scripts: `scripts/` | none | probes and data preparation | - |

**What is hard here.** Invocations run concurrently on a bounded pool of
threads and share lazily created objects. An LLM planner may fail at five
places, and what happens then depends on the mode. A plan is checked when it is
accepted and again when it is executed. A tool may report that its source
cannot be read, or raise after others have completed. A retrieval that could not
run, one that found nothing and one that found fragments without text all look
alike to careless code. The device file grows while it is read. The metrics are
scraped while threads write them. Nothing is persisted between requests; what is
persisted, the device table and the report files, is written by commands that
may be killed half way and run again.

**What makes each component correct.**

- Dispatch: the mode decides which planner an answer may come from; a fallback
  is marked, has a reason, and equals what rule mode would have done.
- LLM planner: a plan is accepted whole or not at all.
- Executor: exactly the accepted plan runs, in order; nothing is skipped.
- Synthesis: an answer neither hides an outage nor cites what has no text.
- Service: each accepted request gets one reply; each operation logged as
  started is logged as ended.
- Shared objects: once the first callers are through, every thread uses the same one.
- Metrics: every event logged is counted once, in a declared series, and shown.
- MetroPT-3 source: a snapshot is the last complete record; what the cache holds
  for a revision is what reading it gives; an unreadable file is reported as one.
- Database: seeding is an upsert of the whole file or nothing, by a device's identifier.
- Evaluation: rates are proportions of what was measured, a report tells of its
  own run, and a comparison is of two complete runs on one dataset.

## 2. Modules

| Module | Role |
|---|---|
| `AgentPipeline` | the request path in detail: pool, service, planners, executor, answer |
| `AgentContract` | what the endpoint promises a caller |
| `MCAgentPipeline` | finite queries and plans for TLC |
| `AgentPipelineProofs` | theorems about `AgentPipeline`: types, the planner mode, plans |
| `AgentReplyProofs` | theorems about `AgentPipeline`: what the caller is told, and the refinement of `AgentContract` |
| `DeviceSource` | the MetroPT-3 reader and its cache beside a writer of the file |
| `DeviceRegister` | what a reader of a growing source is promised |
| `MCDeviceSource` | finite files for TLC |
| `DeviceSourceProofs` | theorems about `DeviceSource` |
| `Telemetry` | the metric registry: its creation, the recording helpers, the scrape |
| `Providers` | the objects the worker threads share, and the LLM and RAG providers |
| `DeviceDatabase` | the device table: seeding, reset, start of the service, reads |
| `Evaluation` | the evaluation runner, its reports and their comparison |
| `MCTelemetry`, `MCProviders`, `MCDeviceDatabase`, `MCEvaluation` | their finite instances |
| `TelemetryProofs`, `ProvidersProofs`, `DeviceDatabaseProofs`, `EvaluationProofs` | theorems about them |
| `FiniteSums` | lemmas for the proofs that count: induction over numbers and finite sets, sums of a function over a set |

They meet where one's result is the other's input. The device tool's outcomes in
`AgentPipeline` come from `DeviceSource` and `DeviceDatabase`; the ways a provider
call or a retrieval ends come from `Providers`; an event it counts is a `Report`
of `Telemetry`; a plan it makes is an observation of `Evaluation`.

### AgentPipeline

`pc[r]` is where invocation `r` stands, from a queue of accepted requests
through the five nodes to a reply. Each action is what one thread does between
two points where another may interleave or an external call may end.

| Variable | Code |
|---|---|
| `mode`, `configured` | `settings.planner_mode`; whether `build_llm_planner` succeeds. Fixed for the process, since settings are read once |
| `catalog` | the device catalog has been read and is in the cache of `_load_catalog`, where it stays |
| `backlog` | invocations waiting for a worker thread. The queue of the thread limiter is first in, first out; it belongs to the server library and is modelled from how the endpoint uses it |
| `query` | the request's text, as what the parser finds in it: a device, an alarm code, keyword groups |
| `state` | `MaintenanceState`. It exists from the call of the graph to the reply; outside it is `FreshState` |
| `run` | the locals `results` and `errors` of `execute_tools` |
| `tally` | how many log events of each kind carry this request's `request_id` |
| `reply` | the response body, its debug block included, or the error code |

| Action | Code |
|---|---|
| `Submit`, `Admit` | `invoke_agent` is called; a worker thread enters `AgentService.invoke` |
| `RouteQuery`, `CatalogFails` | `route_query`; the parser finds the catalog missing or malformed, which is not cached: the next request tries again |
| `PlanByRule` | `_run_rule_planner` |
| `PlannerNotBuilt`, `AskLLM` | `dispatch_plan` up to the provider call |
| `ProviderRaises` | `complete` raises one of the two exceptions `plan` translates, or another one |
| `CompletionUnreadable`, `CompletionIsPlan` | the text is no plan; it is one, and its calls are validated |
| `TakeCall`, `DeviceReturns`, `AlarmReturns`, `ManualReturns`, `ToolRaises`, `FinishTools` | one turn of the executor's loop, the ways a tool ends, the end of the loop |
| `RetrieveContext`, `Synthesize`, `Respond` | the last two nodes and the translation of the final state |

`PlannerFails` (the two `except` branches), `Planned` and `Abort` are the tails
these actions share. `Abort` is how an exception leaves the graph: from the
parser (`CatalogFails`), from the planner node (`PlannerFails`, and what `plan`
does not translate) and from a tool (`ToolRaises`). The other nodes work on
values of the request and have nothing to raise.

Data are reduced to what the control flow tells apart. A planned call has a tool
and valid or invalid arguments. A tool result is its outcome: `found`,
`not_found`, `unavailable`, `hits` or, for the manual, `blank_hits` (fragments
without text). A section of the answer is the outcome it shows. Evidence is the
set of positions of the results that are cited.

### AgentContract

An invocation is idle, accepted, answered or failed. The contract says which
planner an answer may report and which code an error may carry, given the mode
and whether an LLM planner can be built; and that an accepted invocation ends.
`agent_invocation_failed` is possible in every mode, since a request may fail
before it is planned; the planner's own codes only in `llm` mode.
`AgentPipeline` implements it under the mapping `Contract`, which reads the stage
off `pc` and `reply` and the verdict off `reply`.

### DeviceSource

In `AgentPipeline` the device tool's result is one of four outcomes; this module
is where three of them come from. A thread stats the path, looks the stamp up in
`_cached_snapshot`, and on a miss opens the path, measures it with a second
`stat`, and reads header and tail. Each look at the file system is an action, and
a writer may act between any two.

| Variable | Code |
|---|---|
| `files`, `newest`, `path` | the files that were ever at the configured path, and the one that is there now |
| `cache` | the entries of `lru_cache(maxsize=8)`, least recently used first; shared by the process |
| `pc`, `stamp`, `handle`, `total`, `reply` | one call of `get_latest_snapshot` for each thread: its `stat`, its open file, `total`, its outcome |

| Action | Code |
|---|---|
| `Grow`, `Replace`, `Remove` | the writer, which is outside the repository |
| `Ask` | `path.stat()` in `get_latest_snapshot` |
| `Hit`, `Open` | `_cached_snapshot` has the stamp, or calls `_read_snapshot`, which opens the path |
| `Measure` | `path.stat().st_size` |
| `Read` | `_read_columns`, `_read_last_record`, `_snapshot_from_record`, and the cache keeps the result |

A file is measured in pieces: one for the header and three for a record, so that
a line may end before its last field, within it, or at its newline. The
snapshot's fields are reduced to the record they come from. Two assumptions:
`(size, mtime_ns)` identifies a revision, which fails for a file replaced by one
of the same size and time stamp; and a file is appended to, never rewritten in
place. The second `stat` may see another file than the one that is open; its size
is then any size, since lengths of different files do not compare piece by piece.

`DeviceRegister` says that an answer is a record that was the last one at some
moment between question and answer. `DeviceSource` implements it while the file
is well formed and grows by whole lines; without that it does not, as
`doc_complete_lines` shows.

### Telemetry

A record is one call of a helper of `instrumentation.py`: the event is logged,
the registry is fetched, and the counter and the histogram are written. Each of
these is a step, and so are the test, the assignment and the second reading in
`get_metrics`, and each collector that a scrape renders.

| Variable | Code |
|---|---|
| `enabled` | `settings.metrics_enabled` |
| `current`, `values` | the global `_metrics`, named after the thread that created it, and the samples of every registry created |
| `pc`, `held`, `work` | where each thread stands, the registry it has in hand, the writes it has yet to make |
| `logged` | how often each event was logged |
| `page`, `cursor`, `published` | the scrape under way and the last one published |
| `records`, `scrapes` | bounds |

| Action | Code |
|---|---|
| `Report` | a helper is called: `_record` logs, and goes on if metrics are enabled |
| `Check`, `Create`, `Fetch` | the three steps of `get_metrics` |
| `Write` | `Metrics.count` or `Metrics.observe`, each atomic under its sample's lock |
| `Scrape`, `Render` | `GET /metrics`; one collector of `generate_latest` |

Labels pass `Bounded`, and the helpers' labels are those of `METRIC_SPECS` with
their vocabularies. An observation counts one; durations and buckets are left
out. `reset_metrics`, `close` and the `reset_*` functions of the factories are
called by tests only and appear in no module.

### Providers

Each shared object is a cell. Where `lru_cache` guards it, a caller looks,
builds without a lock, and what it built is kept unless another result was kept
first; the caller goes on with its own. Where an attribute is tested, the caller
assigns and reads the attribute again, so the last one wins. An object is named
after the worker that built it.

| Variable | Code |
|---|---|
| `config` | which providers the settings describe, and the score backend |
| `cells` | `get_llm_provider`, `get_rag_provider`, `get_device_adapters` (`lru_cache`); the compiled graph, `_client` and `_module` (attributes) |
| `job`, `stage`, `pc`, `held` | one call of each worker: what it needs, which object it is at, where in the laziness it stands, what it has taken |
| `seen` | history: the objects that had settled when the call began |
| `result` | how the call ended, with hits or token counts |

| Action | Code |
|---|---|
| `Found`, `Missing` | the look |
| `Build`, `BuildFails` | the constructor, or the import of the retrieval module |
| `Keep`, `Assign`, `Return` | the two ways of keeping; the attribute read again |
| `Post`, `Retrieve`, `Request`, `Read` | `complete`, the two `search` methods, an adapter's reading |

Every reply an endpoint can give is an element of `ModelReplies`,
`EngineReplies` or `ServiceReplies`. `EngineReplies` has a result that is no list
of pairs, which raises out of `search` because only the call of the engine is
guarded, and a document without a candidate beside it. `ServiceReplies` has
objects whose `sources` are missing or null, hold nothing that is an object, or
cannot be iterated: the first two become an empty result (`NoSource`), the last
a `TypeError`.

Fragments carry the side their score came from, which the program is not told:
it has to infer it (`describe_score`). What a fragment has to tell it by, its
`retrieval_source` and a rank on the vector side, may be missing
(`FragmentShape`). The HTTP provider then gives no label. The in-process one
knows the mode of the whole retrieval and needs the fragment in hybrid mode
only; there a missing candidate, source and rank count as the lexical side. So
`LabelsTellTheSide` claims the label of the side where something tells it
(`Told`).

### DeviceDatabase

The seeding command, starting services and the device tool's reads are processes
on one SQLite file. Looking for the table and creating or dropping it are two
steps, and creating it is two more, since `create_all` emits `CREATE TABLE` and
`CREATE UNIQUE INDEX` and the driver commits each at once; each record of the
seed is looked up in what is committed at that moment; the session goes to the
table in one transaction.

| Variable | Code |
|---|---|
| `exists`, `indexed`, `rows` | the table; its unique index of `device_id`; a row's place is its primary key |
| `pc`, `opts`, `todo`, `session`, `committed` | one run of `init_db` |
| `serving`, `answer` | services that have started; the last read |
| `before`, `file`, `seeded` | history for the properties |

| Action | Code |
|---|---|
| `Start`, `FindTable`, `DropTable`, `CheckTable`, `CreateTable`, `CreateIndex` | `init_db` up to the schema. `CreateIndex` fails where the table is gone, the index is there or a device has two rows |
| `LoadSeed`, `Lookup`, `Commit`, `Count` | `load_seed_records`, one turn of `seed_devices`, its commit, `count_devices` |
| `Crash` | the process is killed |
| `ReadDevice` | `get_device_status` on the database |

`session` is the ORM session in two parts: `added`, the new objects in the order
they will be inserted, and `known`, its identity map, from primary keys to
objects as they were loaded and as they are now. `Lookup` notes a record in one
of them: a row that was loaded once is the same object the second time, and an
object that was added is not found, since the session does not flush by itself.
`Commit` updates the columns that changed and appends what was added, or fails on
`Conflict`. A lookup takes the first row of a device, should there be several.

Three columns stand for the ten: `device_name`, which must not be null, `status`,
which must not and has a default, and `temperature`, which may. The default goes
into a row that is inserted without a status or with a null one (`Inserted`); an
update has none, and setting `status` to null fails. So what a commit stores is
the last value given, with the default in a new row (`CommitStoresTheFile`), and
a file with a null status is stored once and refused from then on
(`SeedingAgainChangesNothing`).

A run killed between the two statements that create the table leaves it without
its index, and `CheckTable` never asks for the index of a table that is there.
From then on a device may get two rows. The properties about single rows are
therefore claimed while `indexed` holds; a reset, which drops the table, brings
the index back.

### Evaluation

| Variable | Code |
|---|---|
| `dataset` | the answer key as it is on disk now |
| `run` | of each runner, its run of `evaluation.runner`: its planner, the cases as loaded, the outcomes so far |
| `files`, `todo` | the reports directory; what each program has yet to write |
| `opened`, `shared` | programs that have the file they write open; those of them that had it open with another |
| `alone` | history: runners beside which no other had reports for the same files to write |
| `rule` | the rule baseline `evaluation.comparison` has read |

| Action | Code |
|---|---|
| `Load`, `Gate`, `RunCase`, `CaseRaises`, `BuildReports` | `main` of the runner |
| `ReadRule`, `ReadLLM` | `main` of the comparison, with its refusals |
| `Truncate`, `Fill`, `Mix`, `Kill` | `_write`, which empties the file first; the texts of two programs in one file; a program killed while it writes |
| `EditDataset` | whoever maintains the answer key |

Neither program takes a lock. There may be any number of runners, and two that
run the same planner write the same two files in any order or at the same time:
`Fill` of a program that has shared its file may leave text of both, which is no
JSON, and so may a part of its text at any time before (`Mix`). There is one
comparison at a time.

A report is under the default tag, which is the name of its planner; other tags
are other files. A ratio is its
numerator and denominator. Failure records keep the place of their case in the
dataset, so a report's failures are a function on the places that failed. A
digest is the file it is the digest of. Latencies, categories and the provenance
other than digest, counts and modes are left out.

## 3. Runs

| Run | Instance | What it shows |
|---|---|---|
| `plans` | 1 request, every query, all plans of up to two calls over three valid and two bad calls, three longer ones, three modes | `TypeOK`, `PlansRunWhole`, `ModeHonoured`, `FallbackIsBaseline`, `RefusedPlanRunsNothing`, `OperationsAreClosed`, `AnswerTellsOutcomes` |
| `contract` | 2 requests on 1 thread, three modes | `ImplementsContract`: refinement of `AgentContract`, liveness included; `EveryRequestEnds` |
| `cache` | 2 threads, a cache of 1 entry, 2 files of any of three kinds and up to 6 pieces, every write a piece | `TypeOK`, `CacheIsCoherent`, `AnswersMoveForward` |
| `register` | 2 threads, a cache of 1 entry, one file of up to 3 records that grows line by line | `ImplementsRegister`: refinement of `DeviceRegister`, liveness included |
| `telemetry` | 2 threads with one record each, 2 scrapes, metrics on and off | `TypeOK`, `SeriesAreDeclared`, `EveryEventIsCounted`, `DurationsFollowCounts`, `SettledRegistryStays`, `OneRegistryGrows` |
| `providers` | 2 workers, 3 calls, every setting and every reply over four fragments | `TypeOK`, `LateCallersShare`, `LabelsTellTheSide`, `EmptyIsUpstreams`, `SharedObjectsSettle` |
| `database` | 1 seeder, 1 service, 2 devices, 8 seed files, 5 runs | `TypeOK`, `FailedRunsAreWhole`, `CommitStoresTheFile`, `SeedingAgainChangesNothing`, `ReadsFindTheSchema` |
| `evaluation` | 2 runners and the comparison, 3 datasets of one or two cases, one of them invalid, rule runs that execute and LLM runs that plan, 3 runs, 1 edit; `LongRunsAreAlone` | `TypeOK`, `SuccessMeansNoFailure`, `MetricsAreProportions`, `FailuresTellTheirCase`, `ComparesLikeWithLike`, `FinishedReportsAgree` |
| `doc_outage_reported`, `doc_complete_lines`, `doc_counters_monotone`, `doc_dataset_digest` | as the run of their module, or smaller | four statements of the repository the code does not live up to |

**Bounds.** The safety properties of `plans` speak of one request
at a time and requests share only the pool, so one request is enough for TLC; the
theorems remove the bound. A request may be followed by another of the same
caller, so state left over from an earlier one would show. Two calls are enough
for a plan to be bad only at its second entry and for a tool to run before
another raises; three let a tool run twice with another between. In `contract`
two requests on one thread make one wait for the other, and since callers submit
again and again, a queue served out of order starves a request. There is no bound
on counters: event counts restart with each request.

In `cache` two files are enough for one to replace another of the same size, and
six pieces for a second record to be cut at either place. With one cache entry
the second revision already evicts the first, and two threads can hold a stale
stamp and a fresh one at once; the theorems hold for any of these numbers.

In `telemetry` three threads (the event loop is the third) race for the registry,
which lets one be created over another that has been written to; one scrape may
fall in the race and one after it. In `providers` two workers race and a third
call comes after them; which one is late is left open. The four fragments have
each label and none, and with none a rank and none, so that in hybrid mode the
side is told by the source, by the rank, and not at all; a candidate may be
missing for any. The other four members of `FragmentShape` are covered by the
theorems. In `database`
five runs allow a seed, a reset that fails or a kill between the table and its
index, and a repetition with the same file after either; the files give a device
twice, leave out and null required values, null the status, and have a bad date
behind a good record.

In `evaluation` two runners and three runs let two runs write the same files
while a third program reads them, or two runs of different planners end in
different states of the dataset before the comparison; one edit can fall between
any two steps. To keep that finite in reasonable time a run of two cases is
explored only by itself and before an edit (`LongRunsAreAlone`, a state
constraint): one is enough for sums over cases and for records that are looked up
by identifier, and the runs of one case are enough for runs that meet. Runs can
meet in more ways than two at once, and be long when they do: that a file then
still holds a whole report or none, that its metrics are sound, and that a
comparison is of two that name one dataset, the theorems say for any number of
runners, runs and cases.

**Fairness.** `Spec` assumes weak fairness of `Serve(r)`, everything but the
caller's own submission. Worker threads are scheduled by the operating system and
the limiter hands its tokens out in order. Fairness of a step that ends an
external call says that the call ends. For the LLM and the HTTP retrieval a
timeout enforces that; SQLite, the catalogs and the CSV are local; the
in-process retrieval has no timeout, and for it the assumption is not enforced by
the code. Safety runs use `SafeSpec`, which assumes nothing. In `DeviceSource` only
the steps of a call that has begun are fair, never the writer's. The other four
modules state no liveness: their programs do not wait for each other.
Deadlock checking is off in their runs because the bounds end them.

**The four divergences.**

- `EveryOutageIsReported`: `app/api/schemas/agent.py:102` says an unavailable
  knowledge base is reported in the answer. Only a tool's first result is
  rendered, so an outage met by its second call is not.
- `OnlyCompleteLines`: `metropt3.py:171` returns "the last complete line". The last
  line that is not blank is taken, ended or not, and one cut within its last field
  is served as a record.
- `CountersAreMonotone`: `metrics.py:299` says a counter is monotonic for the life
  of the process. Two threads that both find no registry each create one; what was
  counted and scraped on the first is gone from the next page.
  `SettledRegistryStays` says how far it goes: only while the race lasts.
- `DigestNamesTheInput`: `evaluation/dataset.py:143` says the digest names a
  report's exact input. The file is read again for the digest when the cases have
  run; saved in between, the report names an input it did not have.

Further ones are paths of the models without a run of their own: a fallback plan
emits no `planner.completed` (`docs/observability.md:114`); an exception that the
LLM planner does not translate leaves `llm.started` alone (`:124`); a file
replaced by a smaller one between `open` and `stat` has a record before its last
one served (`metropt3.py:275`); a field that is no number raises `ValueError`
instead of `DeviceDataSourceError` (`metropt3.py:196`). Five more:

- Every comparison says of itself that "both sides are planner-only runs"
  (`evaluation/comparison.py:301`). `Comparable` looks at the digests only, so a
  run made with `--execute-tools` passes.
- "Repeated runs are idempotent", says the repository's `README.md:696` of
  seeding. A null status is inserted as the default and refused by the update of
  the next run; `SeedingAgainChangesNothing` names this case.
- `models.py:21` declares `device_id` unique. A kill between the table and its
  index leaves a table that does not enforce it.
- `rag/base.py:12` says an error is raised "instead of reporting a fabricated
  empty result". A reply without sources is an empty result
  (`http_provider.py:173`); `EmptyIsUpstreams` lists it.
- `rag/models.py:27` says the label tells what the score means. In hybrid mode a
  document of which nothing tells the side is labelled lexical, a vector distance
  included (`local_provider.py:181`).

Each property of a passing run has a mutant, an operator named after the
definition it replaces (`PlanDefect_FirstCallOnly`), with which TLC finds the
property violated.

## 4. Proofs

`AgentPipelineProofs` and `AgentReplyProofs` hold for every set of requests, queries and plans and
every number of threads that satisfy `PipelineAssumption`: the thread limit is
positive, modes are among the three, and queries and plans have the shapes the
parser and the plan schema give them. Plans have any length.

| Theorem | Argument |
|---|---|
| `TypeCorrect`: `Spec => []TypeOK` | `TypeOK` is inductive. The substance is in the operators: the rule planner's list, the update of an accepted plan (its tools are registered because no call is defective) and the section renderer (the first result of a tool exists when some result is of that tool) |
| `ModeIsHonoured`: `Spec => []ModeHonoured` | `ModeHonoured` speaks of replies and is not inductive. `ModeInv` adds the same of a plan under way, that only a process which may ask an LLM waits for one, and that an unfinished request has no reply |
| `PlansAreRunWhole`: `Spec => []PlansRunWhole` | `PlanInv` adds that the planner node hands over a `Sound` plan, every entry of which can run, and that the executor's results are at all times those of a prefix of it. `Sound` rests on two lemmas: the rule planner schedules only tools whose arguments the state provides, and an accepted LLM plan has no defective call |
| `RefusalRunsNothing`: `Spec => []RefusedPlanRunsNothing` | `RefusedInv`: until a plan is accepted nothing ran. Which needs every code of the taxonomy to come from the planner node: a tool that raises has another one |
| `FallbackIsTheBaseline`: `Spec => []FallbackIsBaseline` | `BaselineInv`: a query is parsed into a fresh state, and what the planner node finds there is what parsing left, also after a failed LLM attempt |
| `EveryOperationIsClosed`: `Spec => []OperationsAreClosed` | `ClosedInv`: at all times what is started and not ended is the one operation the invocation is in (`RequestCounted`, `PlannerCounted`, `ToolsCounted`), and completed tool calls are the results held so far. Uses `PlanInv`: no call is skipped |
| `AnswerTellsTheOutcomes`: `Spec => []AnswerTellsOutcomes` | `RenderedInv`: evidence and sections are `Cited` and `SectionOf` of the results. With `PlanInv` the results' tools are the plan's; `SectionShows` says what a section shows of a tool that ran once |
| `ContractIsKept`: `Spec => Contract!SafeSpec` | step simulation: `ContractCases` sorts the steps into accepting, answering, refusing and stuttering; a catalog that cannot be read is a refusal. That the planner and the code are ones the contract allows comes from `ModeInv` |

The invariants are per request. `Frame` says a step of one request leaves every
other request's variables alone and `SettingsFixed` that no step changes the
settings, so each step theorem looks at the acting request only. `ModeIInv` and
`PlanIInv` are inductive, and `ReplyIInv`, the last four rows' invariants
together, is so relative to `PlanIInv`; `StepCases` tells once what each step
does to its request, and the later proofs split on it. TLC agrees with the
three on the instance of run `plans`.

`DeviceSourceProofs` holds for any number of threads, files, pieces and cache
entries (`SourceAssumption`: the cache and the path hold at least one).

| Theorem | Argument |
|---|---|
| `SourceTypeCorrect`: `SafeSpec => []TypeOK` | `lru_cache` keeps its bound: `StoredAddsOneEntry` |
| `CacheCoherent`: `SafeSpec => []CacheIsCoherent` | a thread may store what it read from a later revision, or from another file, under an earlier stamp. That is harmless because such a stamp never returns: the invariant `Asked` says that, while the revision a thread asked for is still the one at the path, the thread has that file open and measured it right |
| `AnswersForward`: `SafeSpec => []AnswersMoveForward` | files reach the path in order, stamps are never ahead of the disk, and what is cached under a stamp is of its file or a later one (`Sound`) |
| `RegisterIsKept`: `WholeLines` implies `SafeSpec => Register!SafeSpec` | step simulation of `DeviceRegister`: `Ask` asks, a step that ends a call tells, a line written is a record more, everything else stutters. `RegisterIInv`: nothing is ever cut, so the size measured and the record cached lie between those of the question and of now (`Follows`, `Between`). `WholeLines` says what the register is claimed for: a file of the dataset without a flawed field, never replaced, that holds whole lines and grows by them |

`SourceIInv` joins the first three; `WriterStep` shows that a writer's step makes
a revision nobody has seen, `AnswerStep` does every step that ends a call, and
one lemma each the others. TLC agrees with `SourceIInv` on the instance of
`cache` and with `RegisterIInv` on that of `register`.

The proofs about the other four modules hold for every value of their constants
that satisfies the module's assumption; those marked with one seeder also assume
`OneSeeder`, with any number of services.

| Theorem | Argument |
|---|---|
| `TelemetryTypeCorrect`: `Spec => []TypeOK` | a thread about to create a registry has not created one before and holds none. `Fresh` says so: a registry in the making is empty and nobody's, and while there is none nobody holds one |
| `SettledRegistryIsKept`: `Spec => SettledRegistryStays` | only `Create` assigns, and nobody gets there who finds a registry |
| `SeriesAreAlwaysDeclared`: `Spec => []SeriesAreDeclared` | each helper writes declared series whatever it is called with (`RequestSound` to `TokensSound`, from `BoundedInVocabulary`); `SeriesIInv` carries that through the pending writes, the registries and the page |
| `EventsAreCounted`: `Spec => []EveryEventIsCounted` | `CountIInv`: the writes a thread has before it are `Orderly`: each counter and each histogram at most once, the histogram after its counter; all of a record's writes before a registry is fetched, none when the thread is done (`ReportsAreOrderly`, one helper at a time). Then each step keeps the balance of what is logged, counted and pending: a report adds one on both sides (`ReportBalances`), a write moves one from the thread to a registry (`WriteBalances`) |
| `DurationsNeverLead`: `Spec => []DurationsFollowCounts` | the same invariant; a write of the counter puts the thread between the two writes, that of the histogram takes it away (`BehindWrite`) |
| `PagesOfARegistryGrow`: `Spec => OneRegistryGrows` | `PageIInv`: what was published is still in the registry it came from, so is what is on the page, and the collectors the scrape has passed already show whatever was published of that registry |
| `LateCallersAreServed`: `Spec => []LateCallersShare` | not inductive. `Kept`: what a call saw settled is still in its cell and nobody is left who could replace it. `Ordered`: a call takes a provider before what belongs to it, so the cell an object came from is still the one `CellOf` names |
| `SharedObjectsAreKept`: `Spec => SharedObjectsSettle` | `Keep` replaces nothing, `Assign` only in its own cell while the worker fills it |
| `ProvidersTypeCorrect`: `Spec => []TypeOK` | the functions come from the same invariant; the token counts from `CompletionCounts` |
| `LabelsNameTheSide`: `Spec => []LabelsTellTheSide` | `TruthIInv`: every result of a search is `Truthful`, case by case over the replies of the engine and the service (`LocalSearchIsTruthful` and its counterpart for HTTP), malformed ones included. `SideIsInferred` is the heart: what `describe_score` infers from mode, source and rank is the side of the fragment wherever one of them tells it |
| `EmptyAnswersAreUpstreams`: `Spec => []EmptyIsUpstreams` | from the same invariant. That an object without sources is such an answer is part of the statement |
| `DatabaseTypeCorrect`: `Spec => []TypeOK`, any number of seeders | no required column is null and, where the index is, no device has two rows: the index is only created over rows that are one for each device, and from then on `Conflict` refuses what would break that; what passes it only changes columns of rows that are there or appends new devices |
| `FailedRunsLeaveNoParts`: with one seeder, `Spec => []FailedRunsAreWhole` | `Whole` claims it of every step of a run before its commit, not only of its end; servers neither drop nor seed (`ServersOnlyCreate`) |
| `SchemaIsFound`: with one seeder, `Spec => ReadsFindTheSchema` | `Schema`: from the creation on the table exists, because only a reset drops it and only the seeder resets |
| `SeedingStoresTheFile`: with one seeder, `Spec => CommitStoresTheFile` | `Progress`: the session is what the records looked up so far make of the rows (`LookedUp`): an object known for a row has the last value given of each field, and every device without a row was added as its record says, with the default for a status that is null or left out; a device added twice conflicts with the index, so the one record of it that is left gives every value |
| `SeedingAgainIsHarmless`: with one seeder, `Spec => SeedingAgainChangesNothing` | `Stored`: the rows of the last successful run hold what its file says, but for the default where the file's last status is null. A second look finds a row for each device, so nothing is added; the values given are the ones loaded, so nothing is changed, except a status to null, on which the commit fails |
| `EvaluationTypeCorrect`: `Spec => []TypeOK` | for any number of runners. `HoldsInv`: each file, each report that waits to be written and the baseline the comparison has read is missing, broken or `Sound`, which is to `Fit` its path and, of a comparison, to be of two runs on one dataset. `ReportsInv` has that a runner reports complete runs, whose metrics are ratios and whose failures are of the list (`BaselineSound`, `FailuresSound`); a write puts a sound report at its path or leaves it broken (`HoldsWrites`) |
| `SuccessIsFailureFree`: `Spec => []SuccessMeansNoFailure` | `VerdictAgrees`, a lemma about the two computations of `evaluate_case` for any case and observation |
| `ComparisonsAreAlike`: `Spec => []ComparesLikeWithLike` | also from `HoldsInv`, for any number of runners: a baseline at the path of a planner is a whole one of that planner, also where two runners have written it at once, so `ReadRule` and `ReadLLM` hold two such and compare their digests (`ComparisonSound`) |
| `MetricsAreSound`: `Spec => []MetricsAreProportions` | `ReportsInv`: a baseline found whole is the `EvaluationReport` of a complete run. `BaselineProportional` does the rest for any such run: per case a part is no more than its whole (`CountsBounded`), so are the sums (`SumsBounded`), and an offender is no success (`OffendersFail`) |
| `FailureRecordsAreTrue`: `Spec => []FailuresTellTheirCase` | in a validated dataset identifiers differ, so the two lookups by id find the case and the observation the failure is of (`LookupsFindTheCase`, `FailuresTelling`) |
| `ReportsOfARunAgree`: `Spec => FinishedReportsAgree` | for any number of runners. While the second report of a runner that is `alone` waits, the first is at its path: no other runner has had a report for these files to write since, the comparison writes elsewhere and a kill empties the queue. That a run's two reports agree is `ReportsAgree`, a count of the cases that are no success. Without `alone` it is false: TLC finds two runs of one planner, the one's first report written over by the other's, in twelve steps |

The counting proofs rest on `FiniteSums`. The library's theorems about induction
and folds take an operator as a parameter, which no prover here can instantiate;
`FiniteSums` takes a set or a function instead (`NaturalInduction`: a set of
numbers that holds 0 and every successor holds all; `SubsetInduction` likewise for
the subsets of a finite set) and derives how a sum changes when one summand does,
when it is bounded, and when it is zero. That is why totals in the models are
written with `SumFunctionOnSet` and why `TelemetryAssumption` has finitely many
threads. `EvaluationAssumption` says that `None` is no ratio and `NoneIsNoEvent`
that it is no event's name, as Python's `None` is neither.

TLC agrees with the invariants `TelemetryIInv`, `SeriesIInv`, `CountIInv`,
`PageIInv`, `TruthIInv` and `SeedIInv` on the instances of their runs; `ReportsInv`
quantifies over all runs and is beyond TLC.

Model-checked only: `EveryRequestEnds` and the liveness halves of
`ImplementsContract` and `ImplementsRegister`, since liveness under fairness and
ENABLED are outside the prover. Every other property of a passing run is a
theorem. No module uses RECURSIVE.

## 5. Not modelled

Tracing, configuration and the scripts: they keep no state of their own, or hand
everything to an external library or tool. Of the device catalog, reading the file
is modelled and looking names up is not. Within what is
modelled: the wording of answers and log lines, latencies and buckets,
redaction, the request id's context variable, the validation of the request
body, the prompt and the scan for a JSON object in a completion, the regular
expressions of the parser, contents and page numbers of fragments, the report
categories. Two seeders at once are outside the claims of `DeviceDatabase`: the
one's reset can give the other's primary keys to other devices. `PROJECT.json`
gives the reason for each component and the hazards no property covers.

## 6. Plan

Done: the request path, the device source, the metrics, the shared objects and
providers, the device database and the evaluation harness, with their proofs.
Left, in this order:

1. `PlanParsing`: fence, direct parse and first balanced object over short
   strings of brace, quote, backslash and other, against a reference definition.
2. The parser's precedence of device mentions over the device catalog.
