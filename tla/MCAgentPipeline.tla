-------------------------- MODULE MCAgentPipeline --------------------------
(* Finite instances of AgentPipeline. *)
EXTENDS AgentPipeline

\* Every combination of entities and keyword groups.
EveryQuery == QueryShape

\* Queries that make the rule planner choose no, one, two and three tools.
SomeQueries ==
    {[equipment |-> e, alarm |-> a, words |-> w] :
        e \in BOOLEAN, a \in BOOLEAN, w \in {{}, {"maintenance"}}}

\* The rule planner asks for the device only.
OneQuery == {[equipment |-> TRUE, alarm |-> FALSE, words |-> {"status"}]}

Valid(t) == [tool |-> t, args |-> "valid"]

ValidCalls == {Valid(t) : t \in ToolNames}

BadCalls == {[tool |-> "unregistered", args |-> "valid"],
             [tool |-> "manual", args |-> "invalid"]}

UpTo2(C) == {<<>>} \cup {<<c>> : c \in C} \cup {<<c, d>> : c, d \in C}

\* Up to two calls, bad ones and repeated tools included, with and without an
\* intent that differs from the parser's.
ShortPlans == [intent : {"none", "unknown"}, calls : UpTo2(ValidCalls \cup BadCalls)]

\* Full-length plans without a repeated tool, and plans that repeat the manual.
LongPlans ==
    [intent : {"none"},
     calls : {<<Valid("manual"), Valid("device"), Valid("alarm")>>,
              <<Valid("device"), Valid("alarm")>>,
              <<Valid("manual"), Valid("device"), Valid("manual")>>}]

\* All of them.
MostPlans == ShortPlans \cup LongPlans

\* The smallest choice in which plans are accepted and refused.
FewPlans ==
    {[intent |-> "none", calls |-> <<Valid("alarm")>>],
     [intent |-> "none", calls |-> <<[tool |-> "unregistered", args |-> "valid"]>>]}
=============================================================================
