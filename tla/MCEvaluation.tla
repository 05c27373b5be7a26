---------------------------- MODULE MCEvaluation ----------------------------
(* A small instance of Evaluation. *)
EXTENDS Evaluation

InScope ==
    [id |-> "a", ood |-> FALSE, intent |-> "diagnosis",
     tools |-> <<"device", "manual">>, declared |-> {"manual"}]

OutOfDomain ==
    [id |-> "b", ood |-> TRUE, intent |-> None, tools |-> <<>>, declared |-> {}]

\* The same id once more, with another answer key.
Repeated ==
    [id |-> "a", ood |-> FALSE, intent |-> "status", tools |-> <<"device">>,
     declared |-> {}]

SomeDatasets ==
    {<<InScope>>, <<InScope, OutOfDomain>>, <<InScope, Repeated>>}

\* One tool too few, and the right ones, of which one is named twice and may
\* have a wrong argument.
SomePlans ==
    [rule |-> {[intent |-> "diagnosis", tools |-> <<"device">>]},
     llm |-> {[intent |-> "diagnosis", tools |-> <<"device", "manual", "manual">>]},
     auto |-> {}]

SomeOptions == {<<"rule", TRUE>>, <<"llm", FALSE>>}

\* Bound: a run of several cases has no other run beside it, and no edit
\* before its end.
LongRunsAreAlone ==
    \A r \in Runners : Len(run[r].cases) > 1 =>
        /\ edits = 0
        /\ \A q \in Runners \ {r} : run[q].pc = "idle" /\ todo[q] = <<>>

\* No runner is told from another.
Interchangeable == Permutations(Runners)

=============================================================================
