------------------------- MODULE DecodePlanStaging -------------------------
(***************************************************************************)
(* DecodePlanStaging (sglang-overlay/dflash_info_v2.py): the page-aligned  *)
(* KV bounds of each decode step go to the device through a ring of pinned *)
(* host slots and one device buffer.  The copy to the device is            *)
(* asynchronous and is skipped on rounds that do not consume it, while the *)
(* overlap scheduler prepares step N + 1 before step N has run.            *)
(*                                                                         *)
(* The rows of a step are represented by the step's number; 0 is the       *)
(* content of a new buffer.  A growth replaces all buffers: gen counts the *)
(* growths, and copies and views keep the buffers they were made with.     *)
(***************************************************************************)
EXTENDS Integers, Sequences

CONSTANTS
    RING_DEPTH,
    MinCapacity,   \* 32 in the code
    MaxBatch,      \* bound: requests of a batch
    Checking,      \* SGLANG_INVARIANT_CHECK
    MaxSteps       \* bound: decode steps

ASSUME StagingAssumption ==
    /\ RING_DEPTH \in Nat \ {0}
    /\ MinCapacity \in Nat \ {0}
    /\ MaxBatch \in Nat \ {0}
    /\ Checking \in BOOLEAN
    /\ MaxSteps \in Nat

Steps == 1..MaxSteps

VARIABLES
    pc,         \* of the scheduler: "idle", "acquired" or "shipped"
    plan,       \* [bs, needed, ids] of the step in preparation
    capacity,
    gen,
    slot,
    stale,      \* _device_stale
    shippedIds, \* _shipped_req_ids; 0 is None
    host,       \* host[g][s]: rows in slot s of growth g
    gpu,        \* gpu[g]: rows in the device buffer of growth g
    view,       \* view[n]: the slot behind the host views of step n
    sched,      \* copies and allocations enqueued on the schedule stream
    launched, forwarded, processed   \* last step to get there

vars == <<pc, plan, capacity, gen, slot, stale, shippedIds, host, gpu, view,
          sched, launched, forwarded, processed>>

Gens == 0..MaxBatch
Slots == 0..(RING_DEPTH - 1)
Plans == [bs : 1..MaxBatch, needed : BOOLEAN, ids : 1..2]
NoPlan == [bs |-> 1, needed |-> FALSE, ids |-> 1]
Copy(n, g, s) == [op |-> "copy", step |-> n, gen |-> g, slot |-> s]
Alloc(n, g) == [op |-> "alloc", step |-> n, gen |-> g, slot |-> 0]

Init ==
    /\ pc = "idle" /\ plan = NoPlan
    /\ capacity = 0 /\ gen = 0 /\ slot = 0
    /\ stale = TRUE /\ shippedIds = 0
    /\ host = [g \in Gens |-> [s \in Slots |-> 0]]
    /\ gpu = [g \in Gens |-> 0]
    /\ view = [n \in Steps |-> [gen |-> 0, slot |-> 0]]
    /\ sched = <<>>
    /\ launched = 0 /\ forwarded = 0 /\ processed = 0

----------------------------------------------------------------------------
(* The scheduler. *)

Grown(bs) == CHOOSE c \in {bs, MinCapacity, 2 * capacity} :
                 \A d \in {bs, MinCapacity, 2 * capacity} : d <= c

NextSlotSame(s) == s  \* mutant
NextSlot(s) == (s + 1) % RING_DEPTH

\* acquire() for a step with plan p, and the copies of its rows into the slot.
\* The overlap loop prepares step N + 1 once the result of N - 1 is processed.
Acquire(p) ==
    /\ pc = "idle" /\ launched < MaxSteps /\ processed >= launched - 1
    /\ pc' = "acquired" /\ plan' = p
    /\ IF p.bs > capacity
       THEN capacity' = Grown(p.bs) /\ gen' = gen + 1 /\ stale' = TRUE
       ELSE UNCHANGED <<capacity, gen, stale>>
    /\ slot' = NextSlot(slot)
    /\ host' = [host EXCEPT ![gen'][slot'] = launched + 1]
    /\ view' = [view EXCEPT ![launched + 1] = [gen |-> gen', slot |-> slot']]
    /\ UNCHANGED <<shippedIds, gpu, sched, launched, forwarded, processed>>

DirtyOnNewIds == stale \/ plan.ids # shippedIds  \* mutant: allocations forgotten
Dirty == stale \/ plan.needed \/ plan.ids # shippedIds

\* ship() and alloc_for_spec_decode, which reads the device rows only if
\* tokens are needed.
Ship ==
    /\ pc = "acquired"
    /\ LET copy == IF Dirty \/ Checking THEN <<Copy(launched + 1, gen, slot)>> ELSE <<>>
           alloc == IF plan.needed THEN <<Alloc(launched + 1, gen)>> ELSE <<>>
       IN  /\ sched' = sched \o copy \o alloc
           /\ IF copy # <<>> THEN stale' = FALSE /\ shippedIds' = plan.ids
                             ELSE UNCHANGED <<stale, shippedIds>>
    /\ pc' = "shipped"
    /\ UNCHANGED <<plan, capacity, gen, slot, host, gpu, view, launched, forwarded, processed>>

\* run_batch enqueues the forward of the step on the forward stream.
Launch ==
    /\ pc = "shipped"
    /\ pc' = "idle" /\ launched' = launched + 1
    /\ UNCHANGED <<plan, capacity, gen, slot, stale, shippedIds, host, gpu, view, sched, forwarded, processed>>

ProcessUnsynced ==  \* mutant: copy_done is not waited for
    /\ pc = "idle" /\ processed < launched
    /\ processed' = processed + 1
    /\ UNCHANGED <<pc, plan, capacity, gen, slot, stale, shippedIds, host, gpu, view, sched, launched, forwarded>>

\* The scheduler waits for copy_done of the oldest step, which follows its
\* forward, and processes the result, reading the step's host views.
Process ==
    /\ pc = "idle" /\ processed < forwarded
    /\ processed' = processed + 1
    /\ UNCHANGED <<pc, plan, capacity, gen, slot, stale, shippedIds, host, gpu, view, sched, launched, forwarded>>

----------------------------------------------------------------------------
(* The device: the schedule stream in order, and the forward stream, where *)
(* a forward waits for what was enqueued for its step.                     *)

DeviceOp ==
    /\ sched # <<>>
    /\ LET o == Head(sched) IN
       gpu' = IF o.op = "copy" THEN [gpu EXCEPT ![o.gen] = host[o.gen][o.slot]] ELSE gpu
    /\ sched' = Tail(sched)
    /\ UNCHANGED <<pc, plan, capacity, gen, slot, stale, shippedIds, host, view, launched, forwarded, processed>>

Forward ==
    /\ forwarded < launched
    /\ \A i \in DOMAIN sched : sched[i].step > forwarded + 1
    /\ forwarded' = forwarded + 1
    /\ UNCHANGED <<pc, plan, capacity, gen, slot, stale, shippedIds, host, gpu, view, sched, launched, processed>>

----------------------------------------------------------------------------
Next == (\E p \in Plans : Acquire(p)) \/ Ship \/ Launch \/ Process \/ DeviceOp \/ Forward

Spec == Init /\ [][Next]_vars

----------------------------------------------------------------------------
(* Properties. *)

(* An allocation that reads the device rows finds those of its own step,   *)
(* although copies are skipped, slots are reused and the host runs ahead.  *)
AllocReadsOwnPlan ==
    sched # <<>> /\ Head(sched).op = "alloc" => gpu[Head(sched).gen] = Head(sched).step

(* "The ring also keeps the host views handed out for step N intact while  *)
(* N's result is processed."                                               *)
HostViewsIntact ==
    \A n \in Steps : processed < n /\ n <= launched => host[view[n].gen][view[n].slot] = n

(* acquire()'s assertion, made without the event the default build leaves  *)
(* out: a slot is taken again only when its copy has drained.              *)
SlotDrained ==
    [][slot' # slot => \A i \in DOMAIN sched :
         ~(sched[i].op = "copy" /\ sched[i].gen = gen' /\ sched[i].slot = slot')]_vars
=============================================================================
