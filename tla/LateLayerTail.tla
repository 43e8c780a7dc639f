--------------------------- MODULE LateLayerTail ---------------------------
(***************************************************************************)
(* Decoder SWA bounded replay (sglang-overlay/deepseek_v4_backend.py and   *)
(* deepseek_v4_model.py): a chunk of a prefill runs the layers after the   *)
(* last kv_source layer over each request's last Window tokens only, so at *)
(* those late layers only these positions get window KV.  Decode and       *)
(* verify then read the last Window positions, whoever wrote them.         *)
(* maybe_evict_swa (schedule_batch.py) gives slots back as they leave the  *)
(* window.  The scheduler runs ahead: a batch is prepared and launched     *)
(* before the result of the batch before it is processed.                  *)
(*                                                                         *)
(* SkipNonfinal is DSV41_SKIP_NONFINAL_DECODER ("opt1").                   *)
(***************************************************************************)
EXTENDS Integers, FiniteSets

CONSTANTS
    Requests,
    Window,        \* SWA_WINDOW
    ChunkedPrefillSize,
    Draft,         \* tokens of one verify step; 1 is plain decoding
    Interval,      \* SGLANG_SWA_EVICTION_INTERVAL
    SkipNonfinal,
    MaxTokens      \* bound: tokens of a request

ASSUME TailAssumption ==
    /\ Window \in Nat \ {0}
    /\ ChunkedPrefillSize \in Nat \ {0}
    /\ Draft \in Nat \ {0}
    /\ Interval \in Nat \ {0}
    /\ SkipNonfinal \in BOOLEAN
    /\ MaxTokens \in Nat

VARIABLES
    phase,    \* per request: "idle", "prefill" or "decode"
    seqlen,   \* tokens the scheduler knows of
    len,      \* positions computed by the forwards launched so far
    late,     \* positions whose window KV at the late layers is the request's
    evicted,  \* swa_evicted_seqlen
    steps,    \* decode_batch_idx, up to 1
    reading   \* lowest position read by the forward in flight; len if there is none

tailVars == <<phase, seqlen, len, late, evicted, steps, reading>>

TailInit ==
    /\ phase = [r \in Requests |-> "idle"]
    /\ seqlen = [r \in Requests |-> 0]
    /\ len = [r \in Requests |-> 0]
    /\ late = [r \in Requests |-> {}]
    /\ evicted = [r \in Requests |-> 0]
    /\ steps = [r \in Requests |-> 0]
    /\ reading = [r \in Requests |-> 0]

\* The last k positions before position e.
LastPositions(e, k) == {p \in 0..(e - 1) : p >= e - k}

\* The lowest position that the token at position e attends to.
WindowStart(e) == IF e < Window THEN 0 ELSE e - (Window - 1)

\* A request of n tokens is admitted.  The radix cache may supply its first c
\* positions: it reuses a prefix while the last Window positions of it hold
\* their window KV.
TailAdmit(r, n, c) ==
    /\ phase[r] = "idle" /\ c < n
    /\ phase' = [phase EXCEPT ![r] = "prefill"]
    /\ seqlen' = [seqlen EXCEPT ![r] = n]
    /\ len' = [len EXCEPT ![r] = c]
    /\ reading' = [reading EXCEPT ![r] = c]
    /\ late' = [late EXCEPT ![r] = LastPositions(c, Window)]
    /\ evicted' = [evicted EXCEPT ![r] = 0]
    /\ steps' = [steps EXCEPT ![r] = 0]

----------------------------------------------------------------------------
(* One extend batch: chunk[r] tokens of each request of the batch. *)

Final(r, n) == len[r] + n >= seqlen[r]

\* Mutant: the switch is read the wrong way round.
TailRequestsInverted(B, chunk) ==
    IF ~SkipNonfinal THEN {r \in B : Final(r, chunk[r])} ELSE B

\* The requests the late layers run for (final_req_mask).
TailRequests(B, chunk) ==
    IF SkipNonfinal THEN {r \in B : Final(r, chunk[r])} ELSE B

TailExtend(B, chunk) ==
    /\ \A r \in B : phase[r] = "prefill" /\ len[r] + chunk[r] <= seqlen[r]
    /\ late' = [r \in Requests |->
                  IF r \in TailRequests(B, chunk)
                  THEN late[r] \cup LastPositions(len[r] + chunk[r], IF chunk[r] < Window THEN chunk[r] ELSE Window)
                  ELSE late[r]]
    /\ phase' = [r \in Requests |->
                  IF r \in B THEN IF Final(r, chunk[r]) THEN "decode" ELSE "prefill" ELSE phase[r]]
    /\ len' = [r \in Requests |-> IF r \in B THEN len[r] + chunk[r] ELSE len[r]]
    /\ reading' = [r \in Requests |-> IF r \in B THEN WindowStart(len[r]) ELSE reading[r]]
    /\ UNCHANGED <<seqlen, evicted, steps>>

----------------------------------------------------------------------------
(* Decoding. *)

\* Mutant: the first decode step evicts, too.
EvictCursorsEager(r) ==
    IF seqlen[r] - 1 - Window >= evicted[r] + Interval
    THEN evicted[r]..(seqlen[r] - 1 - Window)
    ELSE {evicted[r]}

\* maybe_evict_swa: the cursors it may leave.  free_swa_out_of_window_slots gives
\* back whole pages up to caps of its own (retain_floor, swa_evict_floor): all
\* that is assumed of it is that it stays behind the window it is told.
EvictCursors(r) ==
    IF steps[r] >= 1 /\ seqlen[r] - 1 - Window >= evicted[r] + Interval
    THEN evicted[r]..(seqlen[r] - 1 - Window)
    ELSE {evicted[r]}

\* One decode or verify step: evict up to e, launch the forward, which writes k
\* new positions and keeps a of them, and process the result of the one before.
TailDecode(r, k, a, e) ==
    /\ phase[r] = "decode" /\ a <= k /\ len[r] + k <= MaxTokens
    /\ e \in EvictCursors(r)
    /\ evicted' = [evicted EXCEPT ![r] = e]
    /\ len' = [len EXCEPT ![r] = len[r] + a]
    /\ late' = [late EXCEPT ![r] = {p \in @ : p >= e} \cup (len[r]..(len[r] + a - 1))]
    /\ steps' = [steps EXCEPT ![r] = 1]
    /\ reading' = [reading EXCEPT ![r] = WindowStart(len[r])]
    /\ seqlen' = [seqlen EXCEPT ![r] = len[r] + 1]
    /\ UNCHANGED phase

\* The result of the forward in flight is processed before the next launch: the
\* loop does not overlap, or another batch came between.
TailResult(r) ==
    /\ phase[r] # "idle" /\ reading[r] < len[r]
    /\ reading' = [reading EXCEPT ![r] = len[r]]
    /\ seqlen' = [seqlen EXCEPT ![r] = IF phase[r] = "decode" THEN len[r] + 1 ELSE @]
    /\ UNCHANGED <<phase, len, late, evicted, steps>>

\* The request is retracted, gives up its KV, and is prefilled again.
TailRetract(r) ==
    /\ phase[r] = "decode" /\ seqlen[r] <= MaxTokens
    /\ phase' = [phase EXCEPT ![r] = "prefill"]
    /\ len' = [len EXCEPT ![r] = 0]
    /\ late' = [late EXCEPT ![r] = {}]
    /\ evicted' = [evicted EXCEPT ![r] = 0]
    /\ steps' = [steps EXCEPT ![r] = 0]
    /\ reading' = [reading EXCEPT ![r] = 0]
    /\ UNCHANGED seqlen

TailFinish(r) ==
    /\ phase[r] = "decode"
    /\ phase' = [phase EXCEPT ![r] = "idle"]
    /\ UNCHANGED <<seqlen, len, late, evicted, steps, reading>>

----------------------------------------------------------------------------
TailNext ==
    \/ \E r \in Requests, n \in 1..MaxTokens, c \in 0..MaxTokens : TailAdmit(r, n, c)
    \/ \E B \in (SUBSET Requests) \ {{}} : \E chunk \in [B -> 1..ChunkedPrefillSize] : TailExtend(B, chunk)
    \/ \E r \in Requests : \/ \E k, a \in 1..Draft, e \in 0..MaxTokens : TailDecode(r, k, a, e)
                           \/ TailResult(r) \/ TailRetract(r) \/ TailFinish(r)

TailSpec == TailInit /\ [][TailNext]_tailVars

----------------------------------------------------------------------------
(* Properties. *)

(* A token attends to itself and the Window - 1 positions before it: when  *)
(* a request decodes, each of these has late-layer window KV of its own    *)
(* ("decode reaches back at most SWA_WINDOW positions"; "window KV is      *)
(* overwritten by later chunks").                                          *)
WindowWritten ==
    \A r \in Requests : phase[r] = "decode" => LastPositions(len[r], Window - 1) \subseteq late[r]

(* "In overlap scheduler, we cannot evict swa when req.decode_batch_idx ==  *)
(* 0 since the prev extend batch is still running": no slot is given back  *)
(* at a position that a forward still in flight reads, although lengths    *)
(* are known to the scheduler one step late.                               *)
NothingInUseEvicted ==
    [][\A r \in Requests : evicted'[r] > evicted[r] => evicted'[r] <= reading[r]]_tailVars
=============================================================================
