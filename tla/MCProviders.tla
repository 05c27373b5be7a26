---------------------------- MODULE MCProviders -----------------------------
(* Instances of Providers for TLC.                                          *)
EXTENDS Providers

SomeCounts == {Odd, -1, 0}

\* One fragment per label, and vector ones without a label.
SomeFragments ==
    {f \in FragmentShape :
        IF f.source = "unlabelled" THEN f.side = "vector"
        ELSE f.source \in {"lexical", "hybrid"} /\ ~f.ranked}

Symmetry == Permutations(Workers)
=============================================================================
