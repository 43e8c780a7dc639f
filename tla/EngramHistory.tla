---------------------------- MODULE EngramHistory ----------------------------
(***************************************************************************)
(* EngramHasher (engram.py) and its kernels (engram_hash.py): every token  *)
(* of a forward is hashed with its N - 1 predecessors.  The predecessors   *)
(* that precede the request's run in this forward come from a history row  *)
(* kept per request slot (extend: from rows the scheduler supplies), and   *)
(* each mode keeps the row up to date in its own way: extend and decode    *)
(* inside the forward, verify after acceptance (dspark_accept.py).         *)
(*                                                                         *)
(* A hash is a fixed function of the token's context, the tuple of itself  *)
(* and its unblocked predecessors, so the model hashes to that tuple.  The *)
(* text of a request is determined: position p of request r holds the      *)
(* token <<r, p>>, or an image.  A draft is right or Wrong.                *)
(***************************************************************************)
EXTENDS Integers, Sequences, SequencesExt

CONSTANTS
    Slots,      \* rows of the request pool
    N,          \* max_ngram_size
    Block,      \* draft_token_num: anchor + drafts of a verify block
    ChunkSize,  \* bound on the tokens of one request in one extend
    MaxLen,     \* bound on the length of a text
    MaxReqs,    \* bound on the number of requests
    MaxRetracts, \* bound on the retractions
    Prompts,    \* the lengths of prompts
    ImageSets   \* the sets of prompt positions that hold an image

ASSUME SizesAssumption == N \in Nat \ {0, 1} /\ Block \in Nat \ {0} /\ ChunkSize \in Nat \ {0}
ASSUME PoolAssumption == IsFiniteSet(Slots) /\ Prompts \subseteq Nat /\ MaxReqs \in Nat /\ MaxRetracts \in Nat

VARIABLES
    req,        \* slot -> the request in it, or Free
    waiting,    \* requests not admitted, or retracted
    history,    \* slot -> N - 1 tokens, oldest first
    astray,     \* the contexts the last forward hashed that are not those of its text
    verify,     \* the block that was verified and is not committed, or Free
    created,    \* number of requests created
    retracts    \* number of retractions

vars == <<req, waiting, history, astray, verify, created, retracts>>

Free  == [id |-> 0]
Image == <<0, 1>>  \* image_token_id
MmPad == <<0, 2>>  \* an id past MM_PAD_SHIFT_VALUE, what the scheduler keeps for an image
Wrong == <<0, 3>>  \* a draft that is not the request's next token
Zero  == <<0, 4>>  \* the id 0 of a row never written
Pad   == <<0, 5>>  \* pad_id, what a blocked look-back hashes to

(* The id the scheduler keeps for position p of r. *)
Token(r, p) == IF p \in r.images THEN MmPad ELSE <<r.id, p>>

Live == {s \in Slots : req[s] # Free}

(* The batches: distinct slots in some order. *)
Batches(S) == {b \in UNION {[1..k -> S] : k \in 1..Cardinality(S)} : IsInjective(b)}

-----------------------------------------------------------------------------

(* masked_fill of the multimodal pad ids. *)
Masked(t) == IF t = MmPad THEN Image ELSE t

(* hist_col: where the predecessor at shift s of the token at offset off of *)
(* its run is in the history row.                                           *)
HistCol(s, off) == N - 2 - (s - off - 1)

(* The predecessors of flat token t (from 1), at offset off of its run: the *)
(* token itself, then ever older ones.                                      *)
Predecessors(ids, t, off, row) ==
    [s \in 0..N-1 |-> Masked(IF s <= off THEN ids[t - s] ELSE row[HistCol(s, off)])]

(* blocked: the look-back ran off the start of the text or met an image, at *)
(* this or a younger shift.                                                 *)
Blocked(tok, pos, s) == \E j \in 0..s : pos < j \/ tok[j] = Image

(* The context the token is hashed to. *)
Context(tok, pos) == [s \in 0..N-1 |-> IF Blocked(tok, pos, s) THEN Pad ELSE tok[s]]

(* What a forward commits: the token and its N - 2 newest predecessors. *)
NewRow(tok) == [c \in 0..N-2 |-> tok[N - 2 - c]]

-----------------------------------------------------------------------------

(* forward() over a batch b: runs[i] are the ids of the request in slot b[i] *)
(* and rows[i] is the history row it reads.  The runs lie end to end in      *)
(* input_ids; this is row i's token at offset off with its predecessors.     *)
TokensOf(runs, rows, i, off) ==
    LET start == Len(FlattenSeq(SubSeq(runs, 1, i - 1)))
    IN  Predecessors(FlattenSeq(runs), start + off + 1, off, rows[i])

(* Every context of the forward, with the request and the position it is for. *)
Contexts(b, runs, rows) ==
    UNION {{[r |-> req[b[i]], p |-> req[b[i]].num + off,
             got |-> Context(TokensOf(runs, rows, i, off), req[b[i]].num + off)]
            : off \in 0..Len(runs[i])-1} : i \in DOMAIN b}

(* The definition of the hash: position p's own text, back to the start of *)
(* the text or the nearest image.                                          *)
Expected(r, p) ==
    [s \in 0..N-1 |-> IF \E j \in 0..s : p < j \/ p - j \in r.images THEN Pad ELSE <<r.id, p - s>>]

(* The contexts that are not the defined ones. *)
Astray(contexts) == {u \in contexts : u.got # Expected(u.r, u.p)}

(* Give each slot of the batch its new value. *)
Update(f, b, new) ==
    [s \in Slots |-> IF \E i \in DOMAIN b : b[i] = s
                     THEN new[CHOOSE i \in DOMAIN b : b[i] = s] ELSE f[s]]

(* Mutant: the sampled token is not counted. *)
AdvancedUncounted(r, num) ==
    [r EXCEPT !.num = num, !.own = TRUE, !.filling = num < r.len, !.len = IF num < @ THEN @ ELSE num]

(* The request after num tokens of it are computed: past the last known one *)
(* a token was sampled.                                                     *)
Advanced(r, num) ==
    [r EXCEPT !.num = num, !.own = TRUE, !.filling = num < r.len, !.len = IF num < @ THEN @ ELSE num + 1]

-----------------------------------------------------------------------------

Init ==
    /\ req = [s \in Slots |-> Free]
    /\ waiting = {}
    /\ history = [s \in Slots |-> [c \in 0..N-2 |-> Zero]]
    /\ astray = {}
    /\ verify = Free
    /\ created = 0
    /\ retracts = 0

(* A client's request: a prompt of some length with images in it. *)
Arrive ==
    /\ created < MaxReqs
    /\ \E len \in Prompts, images \in ImageSets :
         /\ images \subseteq 0..len-1
         /\ waiting' = waiting \cup
              {[id |-> created + 1, images |-> images, len |-> len, num |-> 0, filling |-> TRUE, own |-> FALSE]}
    /\ created' = created + 1
    /\ astray' = {}
    /\ UNCHANGED <<req, history, verify, retracts>>

(* The scheduler gives the request a slot and the prefix the cache holds. *)
Admit ==
    /\ verify = Free
    /\ \E s \in Slots \ Live, r \in waiting : \E hit \in 0..r.len-1 :
         /\ req' = [req EXCEPT ![s] = [r EXCEPT !.num = hit]]
         /\ waiting' = waiting \ {r}
    /\ astray' = {}
    /\ UNCHANGED <<history, verify, created, retracts>>

(* NgramEmbeddingManager: the predecessors of the first extend token. *)
SchedulerHistory(r) ==
    [c \in 0..N-2 |-> IF r.num - (N - 1 - c) < 0 THEN Zero ELSE Token(r, r.num - (N - 1 - c))]

(* ngram_history may be None only where the slot's row continues the text. *)
MustSupply(b) == \E i \in DOMAIN b : ~req[b[i]].own /\ req[b[i]].num > 0

(* The rows an extend reads. *)
ExtendRows(b, supplied) ==
    [i \in DOMAIN b |-> IF supplied THEN SchedulerHistory(req[b[i]]) ELSE history[b[i]]]

(* MODE_EXTEND: a chunk of each request. *)
Extend ==
    /\ verify = Free
    /\ \E b \in Batches({s \in Live : req[s].filling}) :
       \E lens \in [DOMAIN b -> 1..ChunkSize], supplied \in {TRUE, MustSupply(b)} :
         /\ \A i \in DOMAIN b : req[b[i]].num + lens[i] <= req[b[i]].len
         /\ LET runs == [i \in DOMAIN b |-> [o \in 1..lens[i] |-> Token(req[b[i]], req[b[i]].num + o - 1)]]
                rows == ExtendRows(b, supplied)
            IN  /\ astray' = Astray(Contexts(b, runs, rows))
                /\ history' = Update(history, b, [i \in DOMAIN b |-> NewRow(TokensOf(runs, rows, i, lens[i] - 1))])
         /\ req' = Update(req, b, [i \in DOMAIN b |-> Advanced(req[b[i]], req[b[i]].num + lens[i])])
    /\ UNCHANGED <<waiting, verify, created, retracts>>

(* The requests that can compute one more token. *)
Decoding == {s \in Live : ~req[s].filling /\ req[s].len < MaxLen}

(* Mutant: padded rows commit too. *)
DecodeCommitsPadding(b, new, padding) ==
    [Update(history, b, new) EXCEPT ![padding] = new[1]]

(* COMMIT of the decode kernel: rows of graph padding (out_cache_loc 0), which *)
(* carry the slot an earlier batch left there, write nothing.                  *)
DecodeCommits(b, new, padding) == Update(history, b, new)

(* MODE_DECODE: one token of each request, and possibly a padded row. *)
Decode ==
    /\ verify = Free
    /\ \E b \in Batches(Decoding), padding \in Slots :
         LET runs == [i \in DOMAIN b |-> <<Token(req[b[i]], req[b[i]].num)>>]
             rows == [i \in DOMAIN b |-> history[b[i]]]
         IN  /\ astray' = Astray(Contexts(b, runs, rows))
             /\ history' = DecodeCommits(b, [i \in DOMAIN b |-> NewRow(TokensOf(runs, rows, i, 0))], padding)
             /\ req' = Update(req, b, [i \in DOMAIN b |-> Advanced(req[b[i]], req[b[i]].num + 1)])
    /\ UNCHANGED <<waiting, verify, created, retracts>>

(* MODE_VERIFY: a block per request, the anchor and then drafts, of which the *)
(* first good[i] are right.  Reads history and writes nothing.                *)
Verify ==
    /\ verify = Free
    /\ \E b \in Batches(Decoding) : \E good \in [DOMAIN b -> 0..Block-1] :
         LET runs == [i \in DOMAIN b |-> [o \in 1..Block |->
                         IF o <= good[i] + 1 THEN Token(req[b[i]], req[b[i]].num + o - 1) ELSE Wrong]]
             rows == [i \in DOMAIN b |-> history[b[i]]]
         IN  /\ astray' = Astray({u \in Contexts(b, runs, rows) :
                            \E i \in DOMAIN b : u.r = req[b[i]] /\ u.p <= u.r.num + good[i]})
             /\ verify' = [id |-> 1, b |-> b, good |-> good, ids |-> runs]
    /\ UNCHANGED <<req, waiting, history, created, retracts>>

(* cap_correct_len: no more right drafts than were verified. *)
CapCorrectLen(correct_len, verify_len) == IF correct_len < verify_len - 1 THEN correct_len ELSE verify_len - 1

(* finalize_accept_lens: the anchor and the right drafts, not the bonus. *)
CommitLen(correct_len) == correct_len + 1

(* Mutant: the anchor is not counted. *)
ShiftedDraftsOnly(row, ids, commit) ==
    [c \in 0..N-2 |-> IF commit - 1 + c < N - 1 THEN row[commit - 1 + c] ELSE ids[commit - 1 + c - (N - 1) + 1]]

(* commit_after_verify: the row shifted left over the committed ids. *)
Shifted(row, ids, commit) ==
    [c \in 0..N-2 |-> IF commit + c < N - 1 THEN row[commit + c] ELSE ids[commit + c - (N - 1) + 1]]

(* Acceptance of the verified block, possibly cut off. *)
CommitAfterVerify ==
    /\ verify # Free
    /\ \E verify_lens \in [DOMAIN verify.b -> 1..Block] :
         LET b == verify.b
             commit == [i \in DOMAIN b |-> CommitLen(CapCorrectLen(verify.good[i], verify_lens[i]))]
         IN  /\ history' = Update(history, b, [i \in DOMAIN b |-> Shifted(history[b[i]], verify.ids[i], commit[i])])
             /\ req' = Update(req, b, [i \in DOMAIN b |-> Advanced(req[b[i]], req[b[i]].num + commit[i])])
    /\ verify' = Free
    /\ astray' = {}
    /\ UNCHANGED <<waiting, created, retracts>>

(* The request is done and leaves its slot. *)
Finish ==
    /\ verify = Free
    /\ \E s \in Live : req' = [req EXCEPT ![s] = Free]
    /\ astray' = {}
    /\ UNCHANGED <<waiting, history, verify, created, retracts>>

(* The request leaves its slot and comes back with its text. *)
Retract ==
    /\ verify = Free
    /\ retracts < MaxRetracts
    /\ \E s \in Live :
         /\ req' = [req EXCEPT ![s] = Free]
         /\ waiting' = waiting \cup {[req[s] EXCEPT !.num = 0, !.own = FALSE, !.filling = TRUE]}
    /\ retracts' = retracts + 1
    /\ astray' = {}
    /\ UNCHANGED <<history, verify, created>>

Next == Arrive \/ Admit \/ Extend \/ Decode \/ Verify \/ CommitAfterVerify \/ Finish \/ Retract

Spec == Init /\ [][Next]_vars

-----------------------------------------------------------------------------

(* The state has its types; what is computed is at most what is known, and *)
(* exactly one token short of it while the request decodes.                *)
TypeOK ==
    /\ created \in 0..MaxReqs /\ retracts \in 0..MaxRetracts
    /\ \A s \in Live :
         /\ req[s].num \in 0..req[s].len-1 /\ req[s].id \in 1..created
         /\ ~req[s].filling => req[s].own /\ req[s].num = req[s].len - 1
    /\ \A s \in Slots : DOMAIN history[s] = 0..N-2
    /\ \A r \in waiting : r.num = 0 /\ r.filling

(* Every token whose value is used is hashed with its own text, whatever    *)
(* the chunking, batching, prefix hits, rejected drafts, cut-off            *)
(* acceptances, retractions and earlier tenants of its slot (forward, the   *)
(* kernels and commit_after_verify together).                               *)
ContextExact == astray = {}

(* Between forwards the row of a request that has been through one holds    *)
(* the last N - 1 computed tokens, whichever mode wrote it; verify's        *)
(* rejected drafts and the bonus token are not in it.                       *)
HistoryCurrent ==
    \A s \in Live : req[s].own =>
        \A c \in 0..N-2 :
            LET p == req[s].num - (N - 1 - c)
            IN  p >= 0 => history[s][c] = Masked(Token(req[s], p))
=============================================================================
