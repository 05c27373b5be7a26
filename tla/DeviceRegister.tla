--------------------------- MODULE DeviceRegister ---------------------------
(***************************************************************************)
(* What a reader of a growing data source is promised: the record it is    *)
(* told was the latest one at some moment between its question and the     *)
(* answer.  Records are numbered; 0 means there is none yet.               *)
(***************************************************************************)
EXTENDS Naturals

CONSTANT Readers

VARIABLES
    latest,         \* the last record of the source
    phase,          \* idle, asked or done
    oldest,         \* the latest record when a reader asked
    told            \* the record a reader was told

vars == <<latest, phase, oldest, told>>

Init ==
    /\ latest \in Nat
    /\ phase = [r \in Readers |-> "idle"]
    /\ oldest = [r \in Readers |-> 0]
    /\ told = [r \in Readers |-> 0]

Grow ==
    /\ latest' = latest + 1
    /\ UNCHANGED <<phase, oldest, told>>

Ask(r) ==
    /\ phase[r] # "asked"
    /\ phase' = [phase EXCEPT ![r] = "asked"]
    /\ oldest' = [oldest EXCEPT ![r] = latest]
    /\ told' = [told EXCEPT ![r] = 0]
    /\ UNCHANGED latest

Tell(r) ==
    /\ phase[r] = "asked"
    /\ phase' = [phase EXCEPT ![r] = "done"]
    /\ \E record \in oldest[r] .. latest : told' = [told EXCEPT ![r] = record]
    /\ UNCHANGED <<latest, oldest>>

Next == Grow \/ \E r \in Readers : Ask(r) \/ Tell(r)

SafeSpec == Init /\ [][Next]_vars

Spec == SafeSpec /\ \A r \in Readers : WF_vars(Tell(r))
=============================================================================
