---------------------------- MODULE ParallelFor ----------------------------
(***************************************************************************)
(* What row_store_lookup promises its callers, whatever threads serve it:  *)
(* a call over n rows handles each of the rows 0..n-1 exactly once, and    *)
(* returns only when all of them have been handled.                        *)
(***************************************************************************)
EXTENDS Naturals

CONSTANTS Callers, Counts

VARIABLES
    busy,    \* the callers that are inside row_store_lookup
    times    \* times[c][i]: how often row i of c's latest call was handled

vars == <<busy, times>>

Init ==
    /\ busy = {}
    /\ times = [c \in Callers |-> [i \in {} |-> 0]]

Begin(c, n) ==
    /\ c \notin busy
    /\ busy' = busy \cup {c}
    /\ times' = [times EXCEPT ![c] = [i \in 0..(n - 1) |-> 0]]

HandleRow(c, i) ==
    /\ c \in busy
    /\ times[c][i] = 0
    /\ times' = [times EXCEPT ![c][i] = 1]
    /\ UNCHANGED busy

Return(c) ==
    /\ c \in busy
    /\ \A i \in DOMAIN times[c] : times[c][i] = 1
    /\ busy' = busy \ {c}
    /\ UNCHANGED times

Next == \E c \in Callers :
    \/ \E n \in Counts : Begin(c, n)
    \/ \E i \in DOMAIN times[c] : HandleRow(c, i)
    \/ Return(c)

Spec == Init /\ [][Next]_vars
=============================================================================
