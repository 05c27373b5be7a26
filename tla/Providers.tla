----------------------------- MODULE Providers ------------------------------
(***************************************************************************)
(* The objects the worker threads share and what they do with them: the    *)
(* compiled graph, the LLM provider and its HTTP client, the device        *)
(* adapters, the retrieval provider and the module it imports.  Each is    *)
(* built by the first call that needs it, and no lock is held meanwhile.   *)
(*                                                                         *)
(* Two kinds of laziness: lru_cache looks, calls the function and, under   *)
(* its own lock, keeps the result unless another call was faster (each     *)
(* caller returns its own); an attribute is tested, assigned and read      *)
(* again, so that the last assignment wins.                                *)
(***************************************************************************)
EXTENDS Integers, Sequences, FiniteSets, TLC

CONSTANTS
    Workers,        \* threads that run requests
    None,           \* None: an empty cell, no label, no count
    Engine,         \* the retrieval module; sys.modules holds one of it
    Odd,            \* a value of usage that is no integer, True among them
    RawCounts,      \* values an endpoint may report as a token count
    Fragments,      \* fragments under study, see FragmentShape
    CallLimit       \* bound: calls

\* A fragment as the retrieval has it; side: where its score is from.  What it
\* carries of that, its source and a rank on the vector side, may be missing.
FragmentShape ==
    {f \in [side : {"lexical", "vector"},
            source : {"lexical", "vector", "hybrid", "unlabelled"},
            ranked : BOOLEAN] :
        /\ f.source = "lexical" => f.side = "lexical"
        /\ f.source \in {"vector", "hybrid"} \/ f.ranked => f.side = "vector"}

ASSUME ProvidersAssumption ==
    /\ None \notin Workers \cup {Engine} \cup Int
    /\ Engine \notin Workers
    /\ Odd \in RawCounts /\ Odd \notin Int
    /\ RawCounts \subseteq Int \cup {Odd, None}
    /\ Fragments \subseteq FragmentShape
    /\ CallLimit \in Nat

\* Which stages of a call take an object from a cell, and by which laziness.
Cached == {"llm", "rag", "adapters"}

Attributes == {"graph", "client", "module"}

\* A client belongs to a provider, and so does a reference to the module: a
\* cell of theirs is named after it.  Every other object is named after the
\* worker that built it.
Cells ==
    ((Cached \cup {"graph"}) \X {None}) \cup ({"client", "module"} \X Workers)

VARIABLES
    config,         \* the settings of the process
    cells,          \* the object in each cell, or None
    job,            \* what each worker's call needs beyond the graph
    stage,          \* the stage its call is in
    pc,             \* where it stands in that stage
    held,           \* the objects its call has taken, by stage
    seen,           \* history: the settled objects when its call began
    result,         \* how its last call ended
    calls           \* calls begun

vars == <<config, cells, job, stage, pc, held, seen, result, calls>>

-----------------------------------------------------------------------------
(* Score semantics                                                         *)

Modes == {"lexical", "vector", "hybrid"}

\* vector_distance_name
VectorDistance(backend) ==
    IF backend = "full" THEN "vector_store_distance" ELSE "vector_cosine_distance"

has_vector_component(source, ranked) == ranked \/ source \in {"vector", "hybrid"}

\* Mutant of describe_score: in hybrid mode the side is not looked at.
describe_score_HybridIsLexical(mode, vector, backend) ==
    IF backend \notin {"light", "full"} \/ mode \notin Modes THEN None
    ELSE IF mode = "vector" THEN VectorDistance(backend)
    ELSE "lexical_relevance_flag"

describe_score(mode, vector, backend) ==
    IF backend \notin {"light", "full"} \/ mode \notin Modes THEN None
    ELSE IF mode = "vector" \/ (mode = "hybrid" /\ vector)
      THEN VectorDistance(backend)
      ELSE "lexical_relevance_flag"

FragmentsIn(mode) ==
    IF mode \in {"lexical", "vector"}
      THEN {f \in Fragments : f.side = mode /\ f.source # "hybrid"} ELSE Fragments

\* A hit, with the fragment it was made of; scored: its score is a number.
Hit(f, scored, label) ==
    [of |-> f, scored |-> scored, label |-> IF scored THEN label ELSE None]

\* LocalRAGProvider, with the mode the engine reports for all of its result and
\* the candidate beside the document, if there is one.
LocalHit(mode, f, candidate, scored) ==
    Hit(f, scored, describe_score(mode,
        candidate /\ has_vector_component(f.source, f.ranked), config.backend))

_mode_from_retrieval_source(source) ==
    IF source \in Modes THEN source ELSE "unknown"

\* HttpRAGProvider._to_hit: the mode is read off the source of each fragment.
HttpHit(f, scored) ==
    Hit(f, scored, describe_score(_mode_from_retrieval_source(f.source),
        has_vector_component(f.source, f.ranked), config.backend))

-----------------------------------------------------------------------------
(* What the endpoints reply, and what is made of it                        *)

\* retrieve_docs raises, returns what is no list of pairs, or fragments, here
\* one or none, with its mode and perhaps with a candidate for each.
EngineReplies ==
    {[kind |-> k] : k \in {"raises", "malformed", "nothing"}} \cup
    UNION {{[kind |-> "fragment", mode |-> m, of |-> f, candidate |-> c, scored |-> s] :
                f \in FragmentsIn(m), c \in BOOLEAN, s \in BOOLEAN} :
            m \in Modes \cup {"unknown"}}

\* The retrieval service: how a request ends.  The last four are JSON objects
\* that do not refuse: sources is an empty list, missing or null, a collection
\* without an object in it, or nothing that can be iterated.
ServiceReplies ==
    {[kind |-> k] : k \in {"http_error", "other_error", "bad_status", "no_json",
                           "no_object", "refused",
                           "empty", "no_sources", "no_dicts", "no_list"}} \cup
    {[kind |-> "source", of |-> f, scored |-> s] :
        f \in Fragments, s \in BOOLEAN}

\* How a search ends: hits (none or one), an outage, or an exception.
Search(kind, reply, hits) == [kind |-> kind, reply |-> reply, hits |-> hits]

Outage(reply) == Search("outage", reply, {})

\* Only the call of the engine is guarded: a result that cannot be taken apart
\* raises out of search.
LocalSearch(r) ==
    CASE r.kind = "raises" -> Outage(r)
      [] r.kind = "malformed" -> Search("raised", r, {})
      [] r.kind = "nothing" -> Search("answered", r, {})
      [] OTHER ->
            Search("answered", r, {LocalHit(r.mode, r.of, r.candidate, r.scored)})

\* Objects of the service that leave no source to make a hit of.
NoSource == {"empty", "no_sources", "no_dicts"}

\* Mutant of HttpSearch: an error status is taken for an empty answer.
HttpSearch_StatusIgnored(r) ==
    CASE r.kind \in {"other_error", "no_list"} -> Search("raised", r, {})
      [] r.kind \in {"http_error", "no_json", "no_object"} -> Outage(r)
      [] r.kind \in {"bad_status", "refused"} \cup NoSource ->
            Search("answered", r, {})
      [] OTHER -> Search("answered", r, {HttpHit(r.of, r.scored)})

\* "other_error" stands for what is not an httpx.HTTPError: it passes search,
\* as the TypeError over sources does.  Items that are no objects are skipped.
HttpSearch(r) ==
    CASE r.kind \in {"other_error", "no_list"} -> Search("raised", r, {})
      [] r.kind \in {"http_error", "bad_status", "no_json", "no_object"} ->
            Outage(r)
      [] r.kind \in {"refused"} \cup NoSource -> Search("answered", r, {})
      [] OTHER -> Search("answered", r, {HttpHit(r.of, r.scored)})

\* Mutant of _token_count: any integer counts.
_token_count_AnyInteger(value) == IF value \in {Odd, None} THEN None ELSE value

_token_count(value) ==
    IF value \in {Odd, None} THEN None
    ELSE IF value >= 0 THEN value ELSE None

\* The completions endpoint: how a request ends, a usage block or none.
ModelReplies ==
    {[kind |-> k] : k \in {"timeout", "http_error", "other_error", "bad_status",
                           "no_json", "no_object", "no_choices", "no_text"}} \cup
    {[kind |-> "text", usage |-> u, prompt |-> p, completion |-> c] :
        u \in BOOLEAN, p \in RawCounts, c \in RawCounts}

\* complete: a result with the counts reported, or which exception.
Completion(r) ==
    CASE r.kind = "text" ->
            [kind |-> "completed",
             prompt_tokens |-> IF r.usage THEN _token_count(r.prompt) ELSE None,
             completion_tokens |->
                IF r.usage THEN _token_count(r.completion) ELSE None]
      [] r.kind = "timeout" -> [kind |-> "LLMTimeoutError"]
      [] r.kind = "other_error" -> [kind |-> "escaped"]
      [] OTHER -> [kind |-> "LLMProviderError"]

-----------------------------------------------------------------------------
(* Cells                                                                   *)

\* The cell a worker at stage s of its call looks into.
CellOf(w, s) ==
    CASE s = "client" -> <<"client", held[w]["llm"]>>
      [] s = "module" -> <<"module", held[w]["rag"]>>
      [] OTHER -> <<s, None>>

Cell(w) == CellOf(w, stage[w])

\* The worker found the cell empty and has yet to put its object there.
Filling(w, c) == pc[w] \in {"build", "store"} /\ Cell(w) = c

\* What a call that begins now can rely on finding in a cell.
Settled(c) ==
    IF c[1] \in Cached \/ \A w \in Workers : ~Filling(w, c)
      THEN cells[c] ELSE None

Nothing == [s \in Cached \cup Attributes |-> None]

Config ==
    [rag : {"local", "http", "invalid"}, backend : {"light", "full", "other"},
     llm : BOOLEAN]

Init ==
    /\ config \in Config
    /\ config.rag = "local" => config.backend # "other"
    /\ cells = [c \in Cells |-> None]
    /\ job = [w \in Workers |-> "llm"]
    /\ stage = [w \in Workers |-> "graph"]
    /\ pc = [w \in Workers |-> "idle"]
    /\ held = [w \in Workers |-> Nothing]
    /\ seen = [w \in Workers |-> [c \in Cells |-> None]]
    /\ result = [w \in Workers |-> None]
    /\ calls = 0

\* A request runs on the graph, and then needs a plan, a device or a manual.
Begin(w, j) ==
    /\ pc[w] = "idle"
    /\ calls < CallLimit
    /\ job' = [job EXCEPT ![w] = j]
    /\ stage' = [stage EXCEPT ![w] = "graph"]
    /\ pc' = [pc EXCEPT ![w] = "look"]
    /\ held' = [held EXCEPT ![w] = Nothing]
    /\ seen' = [seen EXCEPT ![w] = [c \in Cells |-> Settled(c)]]
    /\ result' = [result EXCEPT ![w] = None]
    /\ calls' = calls + 1
    /\ UNCHANGED <<config, cells>>

After(w) ==
    CASE stage[w] = "graph" -> job[w]
      [] stage[w] = "llm" -> "client"
      [] stage[w] = "client" -> "post"
      [] stage[w] = "adapters" -> "read"
      [] stage[w] = "rag" ->
            IF config.rag = "local" THEN "module" ELSE "request"
      [] OTHER -> "retrieve"

\* The stage hands out an object, and the call goes on to the next one.
Take(w, object) ==
    /\ held' = [held EXCEPT ![w][stage[w]] = object]
    /\ stage' = [stage EXCEPT ![w] = After(w)]
    /\ pc' = [pc EXCEPT ![w] = "look"]
    /\ UNCHANGED <<config, job, seen, result, calls>>

End(w, r) ==
    /\ result' = [result EXCEPT ![w] = r]
    /\ pc' = [pc EXCEPT ![w] = "idle"]
    /\ UNCHANGED <<config, cells, job, stage, held, seen, calls>>

\* Mutant of Vacant: the retrieval provider is built by every call.
Vacant_RagUncached(c) == cells[c] = None \/ c[1] = "rag"

Vacant(c) == cells[c] = None

Found(w) ==
    /\ pc[w] = "look" /\ stage[w] \in Cached \cup Attributes
    /\ ~Vacant(Cell(w))
    /\ IF stage[w] \in Cached
         THEN Take(w, cells[Cell(w)]) /\ UNCHANGED cells
         ELSE /\ pc' = [pc EXCEPT ![w] = "return"]
              /\ UNCHANGED <<config, cells, job, stage, held, seen, result,
                             calls>>

Missing(w) ==
    /\ pc[w] = "look" /\ stage[w] \in Cached \cup Attributes
    /\ Vacant(Cell(w))
    /\ pc' = [pc EXCEPT ![w] = "build"]
    /\ UNCHANGED <<config, cells, job, stage, held, seen, result, calls>>

\* The settings do not describe a provider: its constructor raises.
Unusable(s) ==
    \/ s = "llm" /\ ~config.llm
    \/ s = "rag" /\ config.rag = "invalid"

Build(w) ==
    /\ pc[w] = "build" /\ ~Unusable(stage[w])
    /\ pc' = [pc EXCEPT ![w] = "store"]
    /\ UNCHANGED <<config, cells, job, stage, held, seen, result, calls>>

BuildFails(w) ==
    /\ pc[w] = "build"
    /\ \/ stage[w] = "llm" /\ Unusable("llm")
          /\ End(w, [kind |-> "LLMProviderError"])
       \/ stage[w] = "rag" /\ Unusable("rag")
          /\ End(w, Outage([kind |-> "unusable"]))
       \/ stage[w] = "module"     \* no directory, or the import raises
          /\ End(w, Outage([kind |-> "no_module"]))

\* Mutant of Keep: a result that comes late replaces the one that is kept.
Keep_LastWins(w) ==
    /\ pc[w] = "store" /\ stage[w] \in Cached
    /\ cells' = [cells EXCEPT ![Cell(w)] = w]
    /\ Take(w, w)

\* lru_cache: what another call has kept meanwhile stays, and each call
\* returns what it computed.
Keep(w) ==
    /\ pc[w] = "store" /\ stage[w] \in Cached
    /\ cells' = [cells EXCEPT ![Cell(w)] = IF @ = None THEN w ELSE @]
    /\ Take(w, w)

Assign(w) ==
    /\ pc[w] = "store" /\ stage[w] \in Attributes
    /\ cells' = [cells EXCEPT ![Cell(w)] =
                    IF stage[w] = "module" THEN Engine ELSE w]
    /\ pc' = [pc EXCEPT ![w] = "return"]
    /\ UNCHANGED <<config, job, stage, held, seen, result, calls>>

\* The attribute is read once more: another call may have assigned it.
Return(w) == pc[w] = "return" /\ Take(w, cells[Cell(w)]) /\ UNCHANGED cells

Ready(w, s) == pc[w] = "look" /\ stage[w] = s

Post(w) ==
    /\ Ready(w, "post")
    /\ \E r \in ModelReplies : End(w, Completion(r))

Retrieve(w) ==
    /\ Ready(w, "retrieve")
    /\ \E r \in EngineReplies : End(w, LocalSearch(r))

Request(w) ==
    /\ Ready(w, "request")
    /\ \E r \in ServiceReplies : End(w, HttpSearch(r))

\* DeviceSource models what an adapter does with a reading.
Read(w) == Ready(w, "read") /\ End(w, [kind |-> "read"])

Next ==
    \E w \in Workers :
        \/ \E j \in Cached : Begin(w, j)
        \/ Found(w) \/ Missing(w) \/ Build(w) \/ BuildFails(w)
        \/ Keep(w) \/ Assign(w) \/ Return(w)
        \/ Post(w) \/ Retrieve(w) \/ Request(w) \/ Read(w)

Spec == Init /\ [][Next]_vars

-----------------------------------------------------------------------------
(* What must hold                                                          *)

Searched(w) == result[w] # None /\ result[w].kind \in {"answered", "outage", "raised"}

\* State and results are of their types; a token count that is reported is a
\* natural number or nothing at all, whatever the endpoint sent as its usage
\* (_token_count: "Only a non-negative integer counts").
TypeOK ==
    /\ config \in Config
    /\ cells \in [Cells -> Workers \cup {None, Engine}]
    /\ job \in [Workers -> Cached]
    /\ stage \in [Workers -> Cached \cup Attributes
                            \cup {"post", "read", "retrieve", "request"}]
    /\ pc \in [Workers -> {"idle", "look", "build", "store", "return"}]
    /\ held \in [Workers -> [Cached \cup Attributes -> Workers \cup {None, Engine}]]
    /\ seen \in [Workers -> [Cells -> Workers \cup {None, Engine}]]
    /\ calls \in 0..CallLimit
    /\ \A w \in Workers :
        (result[w] # None /\ result[w].kind = "completed") =>
            /\ result[w].prompt_tokens \in Nat \cup {None}
            /\ result[w].completion_tokens \in Nat \cup {None}

\* An object the process shares is not exchanged once it has settled.  What
\* lru_cache keeps never changes again; the graph, a client and a module
\* reference can only change while a racing first caller has yet to assign
\* its own (get_graph: "a lazily compiled singleton graph instance";
\* get_rag_provider: "constructing it once per process").
SharedObjectsSettle ==
    [][\A c \in Cells :
        (cells[c] # None
         /\ (c[1] \in Cached \/ \A w \in Workers : ~Filling(w, c)))
            => cells'[c] = cells[c]]_vars

\* A call that begins when an object has settled works with that object, at
\* whatever later time it comes to need it.
LateCallersShare ==
    \A w \in Workers, s \in Cached \cup Attributes :
        (held[w][s] # None /\ CellOf(w, s) \in Cells /\ seen[w][CellOf(w, s)] # None)
            => held[w][s] = seen[w][CellOf(w, s)]

SideLabel(f) ==
    IF f.side = "vector" THEN VectorDistance(config.backend)
    ELSE "lexical_relevance_flag"

\* The retrieval mode a hit of this reply is labelled by.
ModeOf(r, h) ==
    IF config.rag = "local" THEN r.mode ELSE _mode_from_retrieval_source(h.of.source)

\* A mode other than hybrid tells the side; in hybrid mode the fragment has to.
Told(r, h) ==
    \/ ModeOf(r, h) # "hybrid"
    \/ /\ h.of.source # "unlabelled" \/ h.of.ranked
       /\ config.rag = "local" => r.candidate

\* The label of a score names the side of the retrieval the score came from,
\* by both providers, although one is told the mode of the whole retrieval and
\* the other infers it from each fragment, wherever mode or fragment tell the
\* side; and a score of unknown mode or backend has no label (describe_score:
\* "UNKNOWN rather than a guessed label").
LabelsTellTheSide ==
    \A w \in Workers : Searched(w) => \A h \in result[w].hits :
        LET r     == result[w].reply
            known == /\ h.scored /\ config.backend \in {"light", "full"}
                     /\ ModeOf(r, h) \in Modes
        IN  /\ ~known => h.label = None
            /\ known /\ Told(r, h) => h.label = SideLabel(h.of)

\* An outage is never an empty result that looks like "no evidence found"
\* (build_provider, RAGProviderError): an empty answer comes from an engine that
\* found nothing, a service that refused, or an object of the service without
\* a source in it; not from a wrong configuration, a missing module, an error
\* status or a body that is no JSON object.
EmptyIsUpstreams ==
    \A w \in Workers :
        (Searched(w) /\ result[w].kind = "answered" /\ result[w].hits = {}) =>
            result[w].reply.kind \in {"refused", "nothing"} \cup NoSource

=============================================================================
