---------------------------- MODULE WindowLayout ----------------------------
(***************************************************************************)
(* window_layout (sglang-overlay/dsv41_request_window.py): where each      *)
(* query of a batch finds the positions of its sliding window.  The        *)
(* workspace of a forward holds Window history rows per group of queries   *)
(* of one request, then one row per query.  A layout is the sequence of    *)
(* queries [req, pos, floor]; the tensors of the code are operators on it. *)
(* Queries of one request are consecutive and at consecutive positions.    *)
(***************************************************************************)
EXTENDS Integers, Sequences, FiniteSetsExt

CONSTANT Window

ASSUME WindowAssumption == Window \in Nat \ {0}

Starts(q, i) == i = 1 \/ q[i].req # q[i - 1].req
group_first(q, i) == Max({j \in 1..i : Starts(q, j)})
group_last(q, i) == Min({j \in i..Len(q) : j = Len(q) \/ Starts(q, j + 1)})
group(q, i) == Cardinality({j \in 1..i : Starts(q, j)}) - 1
first_pos(q, i) == q[i].pos - (i - group_first(q, i))

\* Workspace rows.
num_groups(q) == Cardinality({i \in DOMAIN q : Starts(q, i)})
history_rows(q) == num_groups(q) * Window
write_loc(q, i) == history_rows(q) + i - 1
size(q) == history_rows(q) + Len(q)

old_loc(q, i, p) == group(q, i) * Window + p - (first_pos(q, i) - Window)
new_loc(q, i, p) == history_rows(q) + group_first(q, i) - 1 + p - first_pos(q, i)

valid(q, i, p) == p >= 0 /\ p >= q[i].floor
indicesShifted(q, i, p) ==  \* mutant: history rows off by one
    IF ~valid(q, i, p) THEN -1
    ELSE IF p <= first_pos(q, i) THEN old_loc(q, i, p) ELSE new_loc(q, i, p)

\* The workspace row of position p for query i, or -1.
indices(q, i, p) ==
    IF ~valid(q, i, p) THEN -1
    ELSE IF p < first_pos(q, i) THEN old_loc(q, i, p) ELSE new_loc(q, i, p)

\* The positions the window of query i shows (seen_pos, valid).
Seen(q, i) == {p \in (q[i].pos - Window + 1)..q[i].pos : valid(q, i, p)}

\* History rows to fill: [loc, req, pos], the valid ones only.
history(q) ==
    UNION { {[loc |-> group(q, i) * Window + p - (first_pos(q, i) - Window), req |-> q[i].req, pos |-> p] :
                p \in {x \in (first_pos(q, i) - Window)..(first_pos(q, i) - 1) : valid(q, i, x)}} :
            i \in {j \in DOMAIN q : Starts(q, j)} }

commit_maskAll(q, i, cap) == TRUE  \* mutant

\* Only the last queries of a group that fit the ring are committed.
commit_mask(q, i, cap) == group_last(q, i) - i < cap
=============================================================================
