--------------------------- MODULE MCDeviceSource ---------------------------
(* Finite instances of DeviceSource. *)
EXTENDS DeviceSource

Holding(lengths, flaws) ==
    [length : lengths, metropt3 : {TRUE}, flaw : flaws]

\* A file with one record; one that is not of the dataset, and one with a field
\* that is no number.
AnyContents ==
    Holding({4}, {0, 1}) \cup {[length |-> 4, metropt3 |-> FALSE, flaw |-> 0]}

\* Well-formed files.
GoodContents == Holding({0, 1, 4}, {0})
=============================================================================
