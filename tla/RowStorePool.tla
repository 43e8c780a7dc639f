---------------------------- MODULE RowStorePool ----------------------------
(***************************************************************************)
(* The thread pool of adapter/row_store.cpp and row_store_lookup, its only *)
(* user.  A caller publishes a job (its Work) under mutex_, drains it      *)
(* together with the workers it wakes, and returns once every ticket is    *)
(* finished and every worker has left drain().                             *)
(*                                                                         *)
(* A thread is a worker of the pool or a caller (a CUDA host-callback      *)
(* thread).  The bytes of a row are RowStore's subject: here serving a     *)
(* ticket records which rows of which call were written.                   *)
(***************************************************************************)
EXTENDS Integers, FiniteSets

CONSTANTS
    Workers,      \* the pool's threads; {} stands for pool() = nullptr
    Callers,      \* threads that call row_store_lookup
    None,         \* a null pointer, or no owner
    Counts,       \* the Work.count values a caller may ask for
    SerialBelow,  \* kSerialBelow
    MaxLookups    \* bound: how many lookups a behaviour makes in all

ASSUME PoolAssumption ==
    /\ IsFiniteSet(Workers)
    /\ Workers \cap Callers = {}
    /\ None \notin Workers \cup Callers
    /\ Counts \subseteq Nat
    /\ SerialBelow \in Nat
    /\ MaxLookups \in Nat

kChunk == 1

Threads == Workers \cup Callers

VARIABLES
    caller_, mutex_,                    \* owners of the two mutexes
    job_, next_, chunks_, remaining_,   \* the published job and its tickets
    active_, generation_,
    pc,        \* where each thread is
    seen,      \* seen[w]: the generation worker w took its last job from
    work,      \* work[t]: the Work that t passed to drain(), named by its caller
    ticket,    \* ticket[t]: t's last ticket; in the serial path, serve's index
    count,     \* count[c]: Work.count of c's call
    served,    \* served[c][i]: how often row i of c's call was written
    lookups    \* number of lookups begun

pool  == <<caller_, mutex_, job_, next_, chunks_, remaining_, active_, generation_>>
calls == <<count, served, lookups>>
vars  == <<pool, pc, seen, work, ticket, calls>>

\* pcs between the claim of a ticket and the end of drain().
InDrain == {"claim", "check", "serve", "finish", "signal", "leave"}

Init ==
    /\ caller_ = None /\ mutex_ = None /\ job_ = None
    /\ next_ = 0 /\ chunks_ = 0 /\ remaining_ = 0
    /\ active_ = 0 /\ generation_ = 0
    /\ pc = [t \in Threads |-> IF t \in Workers THEN "top" ELSE "idle"]
    /\ seen = [w \in Workers |-> 0]
    /\ work = [t \in Threads |-> None]
    /\ ticket = [t \in Threads |-> 0]
    /\ count = [c \in Callers |-> 0]
    /\ served = [c \in Callers |-> [i \in {} |-> 0]]
    /\ lookups = 0

Goto(t, from, to) == pc[t] = from /\ pc' = [pc EXCEPT ![t] = to]

----------------------------------------------------------------------------
(* The caller. *)

\* row_store_lookup: few rows, or no pool, are served by the caller itself.
Lookup(c, n) ==
    /\ Goto(c, "idle", IF Workers = {} \/ n < SerialBelow THEN "serial" ELSE "enter")
    /\ lookups < MaxLookups
    /\ lookups' = lookups + 1
    /\ count' = [count EXCEPT ![c] = n]
    /\ served' = [served EXCEPT ![c] = [i \in 0..(n - 1) |-> 0]]
    /\ ticket' = [ticket EXCEPT ![c] = 0]
    /\ UNCHANGED <<pool, seen, work>>

\* One iteration of serve(work, 0, count) in the caller, or its end.
SerialServe(c) ==
    /\ pc[c] = "serial"
    /\ IF ticket[c] < count[c]
       THEN /\ served' = [served EXCEPT ![c][ticket[c]] = @ + 1]
            /\ ticket' = [ticket EXCEPT ![c] = @ + 1]
            /\ UNCHANGED pc
       ELSE /\ pc' = [pc EXCEPT ![c] = "idle"]
            /\ UNCHANGED <<served, ticket>>
    /\ UNCHANGED <<pool, seen, work, count, lookups>>

\* run(): std::lock_guard serialize(caller_).
Enter(c) ==
    /\ Goto(c, "enter", "publish")
    /\ caller_ = None
    /\ caller_' = c
    /\ UNCHANGED <<mutex_, job_, next_, chunks_, remaining_, active_, generation_,
                   seen, work, ticket, calls>>

\* Variant of Publish: the ticket counter is not reset.
PublishNoReset(c) ==
    /\ Goto(c, "publish", "notify")
    /\ mutex_ = None
    /\ chunks_' = count[c] /\ remaining_' = count[c]
    /\ job_' = c
    /\ generation_' = generation_ + 1
    /\ work' = [work EXCEPT ![c] = c]
    /\ UNCHANGED <<caller_, mutex_, next_, active_, seen, ticket, calls>>

\* Variant of Publish: the last, partial chunk is rounded away.
PublishRoundedDown(c) ==
    /\ Goto(c, "publish", "notify")
    /\ mutex_ = None
    /\ chunks_' = (count[c] - 1) \div kChunk /\ remaining_' = (count[c] - 1) \div kChunk
    /\ job_' = c
    /\ next_' = 0
    /\ generation_' = generation_ + 1
    /\ work' = [work EXCEPT ![c] = c]
    /\ UNCHANGED <<caller_, mutex_, active_, seen, ticket, calls>>

\* run(): the block under mutex_ that installs the job.
Publish(c) ==
    /\ Goto(c, "publish", "notify")
    /\ mutex_ = None
    /\ LET chunks == (count[c] + kChunk - 1) \div kChunk IN
         /\ chunks_' = chunks
         /\ remaining_' = chunks
    /\ job_' = c
    /\ next_' = 0
    /\ generation_' = generation_ + 1
    /\ work' = [work EXCEPT ![c] = c]
    /\ UNCHANGED <<caller_, mutex_, active_, seen, ticket, calls>>

\* run(): ready_.notify_all(), outside the mutex.
NotifyReady(c) ==
    /\ pc[c] = "notify"
    /\ pc' = [t \in Threads |->
                IF t = c THEN "claim"
                ELSE IF t \in Workers /\ pc[t] = "asleep" THEN "top" ELSE pc[t]]
    /\ UNCHANGED <<pool, seen, work, ticket, calls>>

\* Variant of RunDone: the workers still in drain() are forgotten.
RunDoneIgnoringWorkers == remaining_ = 0

RunDone == remaining_ = 0 /\ active_ = 0

\* run(): done_.wait tests its predicate under mutex_.  When it holds, run()
\* clears job_ and releases both mutexes; otherwise it goes on to block.
WaitDone(c) ==
    /\ mutex_ = None
    /\ IF RunDone
       THEN /\ job_' = None
            /\ caller_' = None
            /\ Goto(c, "leave", "idle")
            /\ UNCHANGED mutex_
       ELSE /\ mutex_' = c
            /\ Goto(c, "leave", "block")
            /\ UNCHANGED <<job_, caller_>>
    /\ UNCHANGED <<next_, chunks_, remaining_, active_, generation_,
                   seen, work, ticket, calls>>

----------------------------------------------------------------------------
(* The workers: loop(). *)

\* ready_.wait tests its predicate under mutex_; a new generation's job is
\* taken, and counted in active_, in the same critical section.
WaitReady(w) ==
    /\ mutex_ = None
    /\ IF generation_ # seen[w]
       THEN /\ seen' = [seen EXCEPT ![w] = generation_]
            /\ work' = [work EXCEPT ![w] = job_]
            /\ active_' = IF job_ = None THEN active_ ELSE active_ + 1
            /\ Goto(w, "top", IF job_ = None THEN "top" ELSE "claim")
            /\ UNCHANGED mutex_
       ELSE /\ mutex_' = w
            /\ Goto(w, "top", "block")
            /\ UNCHANGED <<seen, work, active_>>
    /\ UNCHANGED <<caller_, job_, next_, chunks_, remaining_, generation_, ticket, calls>>

\* done_.notify_one(): a caller asleep on done_, if there is one, wakes, and
\* thread t moves to pc "to".
NotifyDone(t, to) ==
    LET waiters == {c \in Callers : pc[c] = "asleep"} IN
    \/ /\ waiters = {}
       /\ pc' = [pc EXCEPT ![t] = to]
    \/ \E c \in waiters : pc' = [pc EXCEPT ![t] = to, ![c] = "leave"]

\* Variant of Leave: active_ and done_ are touched without mutex_.
LeaveUnlocked(w) ==
    /\ pc[w] = "leave"
    /\ active_' = active_ - 1
    /\ NotifyDone(w, "top")
    /\ UNCHANGED <<caller_, mutex_, job_, next_, chunks_, remaining_, generation_,
                   seen, work, ticket, calls>>

\* loop(), after drain(): active_ is decremented and done_ notified under mutex_.
Leave(w) ==
    /\ mutex_ = None
    /\ pc[w] = "leave"
    /\ active_' = active_ - 1
    /\ NotifyDone(w, "top")
    /\ UNCHANGED <<caller_, mutex_, job_, next_, chunks_, remaining_, generation_,
                   seen, work, ticket, calls>>

----------------------------------------------------------------------------
(* drain(), by workers and callers alike. *)

\* Variant of Claim: a load and a store, whose update may be lost.
ClaimNotAtomic(t) ==
    /\ Goto(t, "claim", "check")
    /\ ticket' = [ticket EXCEPT ![t] = next_]
    /\ next_' \in {next_, next_ + 1}
    /\ UNCHANGED <<caller_, mutex_, job_, chunks_, remaining_, active_, generation_,
                   seen, work, calls>>

\* next_.fetch_add(1)
Claim(t) ==
    /\ Goto(t, "claim", "check")
    /\ ticket' = [ticket EXCEPT ![t] = next_]
    /\ next_' = next_ + 1
    /\ UNCHANGED <<caller_, mutex_, job_, chunks_, remaining_, active_, generation_,
                   seen, work, calls>>

\* Variant of Check: off by one.
CheckOffByOne(t) ==
    /\ Goto(t, "check", IF ticket[t] > chunks_ THEN "leave" ELSE "serve")
    /\ UNCHANGED <<pool, seen, work, ticket, calls>>

\* if (ticket >= chunks_) return;
Check(t) ==
    /\ Goto(t, "check", IF ticket[t] >= chunks_ THEN "leave" ELSE "serve")
    /\ UNCHANGED <<pool, seen, work, ticket, calls>>

\* The rows of a call of n rows that ticket k stands for.
RowsOf(k, n) == {i \in 0..(n - 1) : k * kChunk <= i /\ i < (k + 1) * kChunk}

\* serve(work, begin, min(begin + kChunk, work->count))
Serve(t) ==
    /\ Goto(t, "serve", "finish")
    /\ LET c == work[t] IN
       served' = [served EXCEPT ![c] = [i \in DOMAIN served[c] |->
                    IF i \in RowsOf(ticket[t], count[c]) THEN served[c][i] + 1
                                                         ELSE served[c][i]]]
    /\ UNCHANGED <<pool, seen, work, ticket, count, lookups>>

\* remaining_.fetch_sub(1) == 1
Finish(t) ==
    /\ Goto(t, "finish", IF remaining_ = 1 THEN "signal" ELSE "claim")
    /\ remaining_' = remaining_ - 1
    /\ UNCHANGED <<caller_, mutex_, job_, next_, chunks_, active_, generation_,
                   seen, work, ticket, calls>>

\* The last ticket's thread notifies done_ under mutex_.
Signal(t) ==
    /\ mutex_ = None
    /\ pc[t] = "signal"
    /\ NotifyDone(t, "claim")
    /\ UNCHANGED <<pool, seen, work, ticket, calls>>

----------------------------------------------------------------------------
(* Condition variables (external: libstdc++). *)

\* The second half of wait(): mutex_ is released and the thread sleeps.
Block(t) ==
    /\ Goto(t, "block", "asleep")
    /\ mutex_ = t
    /\ mutex_' = None
    /\ UNCHANGED <<caller_, job_, next_, chunks_, remaining_, active_, generation_,
                   seen, work, ticket, calls>>

\* A waiter may wake without a notification and test its predicate again.
SpuriousWake(t) ==
    /\ Goto(t, "asleep", IF t \in Workers THEN "top" ELSE "leave")
    /\ UNCHANGED <<pool, seen, work, ticket, calls>>

----------------------------------------------------------------------------
Drain(t) == Claim(t) \/ Check(t) \/ Serve(t) \/ Finish(t) \/ Signal(t)

Run(c) == SerialServe(c) \/ Enter(c) \/ Publish(c) \/ NotifyReady(c) \/ WaitDone(c)

Next ==
    \/ \E c \in Callers : (\E n \in Counts : Lookup(c, n)) \/ Run(c)
    \/ \E w \in Workers : WaitReady(w) \/ Leave(w)
    \/ \E t \in Threads : Drain(t) \/ Block(t) \/ SpuriousWake(t)

Spec == Init /\ [][Next]_vars

(***************************************************************************)
(* Fairness.  A thread that is inside a call, or holds a job, is scheduled *)
(* and eventually gets a mutex that keeps becoming free.  Nothing is       *)
(* assumed of a worker that waits for a job: it may sleep for ever.        *)
(***************************************************************************)
FairSpec ==
    /\ Spec
    /\ \A c \in Callers : SF_vars(Run(c) \/ Drain(c) \/ Block(c))
    /\ \A w \in Workers : SF_vars(Drain(w) \/ Leave(w) \/ Block(w))

----------------------------------------------------------------------------
(* Properties. *)

Draining == {w \in Workers : pc[w] \in InDrain}

PcValues == InDrain \cup
    {"idle", "serial", "enter", "publish", "notify", "top", "block", "asleep"}

TypeOK ==
    /\ caller_ \in Callers \cup {None}
    /\ mutex_ \in Threads \cup {None}
    /\ job_ \in Callers \cup {None}
    /\ next_ \in Nat /\ chunks_ \in Nat /\ remaining_ \in Nat
    /\ active_ \in Nat /\ generation_ \in Nat
    /\ pc \in [Threads -> PcValues]
    /\ seen \in [Workers -> Nat]
    /\ work \in [Threads -> Callers \cup {None}]
    /\ ticket \in [Threads -> Nat]
    /\ count \in [Callers -> Nat]
    /\ DOMAIN served = Callers
    /\ \A c \in Callers : served[c] \in [0..(count[c] - 1) -> Nat]
    /\ lookups \in Nat

(* Whenever a caller is outside row_store_lookup, every row of its latest   *)
(* call has been written exactly once (run()'s wait on remaining_ and the  *)
(* ticket counter of drain()).                                             *)
LookupComplete ==
    \A c \in Callers : pc[c] = "idle" =>
        \A i \in 0..(count[c] - 1) : served[c][i] = 1

(* A worker inside drain() works for the job that is still published: its  *)
(* Work, which the caller may free once run() returns, is never used late. *)
NoDanglingWork ==
    \A w \in Draining :
        /\ job_ # None
        /\ work[w] = job_
        /\ caller_ = job_
        /\ pc[job_] \in InDrain \cup {"notify", "block", "asleep"}

(* remaining_ is the number of the job's tickets not finished yet, active_ *)
(* the number of workers inside drain(); no two threads hold one ticket,   *)
(* and the rows written are those of the tickets past serve().             *)
HoldsTicket(t) == pc[t] \in {"check", "serve", "finish"}

Unfinished == {k \in 0..(chunks_ - 1) :
                  k >= next_ \/ \E t \in Threads : HoldsTicket(t) /\ ticket[t] = k}

Unserved == {k \in 0..(chunks_ - 1) :
                k >= next_ \/ \E t \in Threads : pc[t] \in {"check", "serve"} /\ ticket[t] = k}

ActiveCounted == active_ = Cardinality(Draining)

TicketsDistinct ==
    /\ \A t \in Threads : HoldsTicket(t) => ticket[t] < next_
    /\ \A t, u \in Threads : HoldsTicket(t) /\ HoldsTicket(u) /\ t # u => ticket[t] # ticket[u]
    /\ \A t \in Threads : pc[t] \in {"serve", "finish"} => ticket[t] < chunks_

JobAccounted == job_ # None =>
    /\ chunks_ = count[job_]
    /\ remaining_ = Cardinality(Unfinished)
    /\ \A k \in 0..(chunks_ - 1) : served[job_][k] = IF k \in Unserved THEN 0 ELSE 1

DrainAccounting == ActiveCounted /\ TicketsDistinct /\ JobAccounted

(* The comment in run(): the next job resets the ticket counter only when  *)
(* no worker is between the entry and the exit of drain().                 *)
TicketResetSafe == [][next_' < next_ => Draining = {}]_vars

(* The rest of the inductive invariant: each thread's program counter is   *)
(* one of its role, the pcs inside run() belong to caller_'s owner, job_   *)
(* is published exactly while its caller is past Publish, and a call that  *)
(* is not draining has written none, all, or a prefix of its rows.         *)
InRun == InDrain \cup {"notify", "block", "asleep"}

Roles ==
    /\ \A c \in Callers : pc[c] \in InRun \cup {"idle", "serial", "enter", "publish"}
    /\ \A w \in Workers : pc[w] \in InDrain \cup {"top", "block", "asleep"}

RunOwnsPool ==
    /\ \A c \in Callers : pc[c] \in InRun \cup {"publish"} <=> caller_ = c
    /\ \A c \in Callers : pc[c] \in InRun => job_ = c /\ work[c] = c
    /\ job_ # None => caller_ = job_ /\ pc[job_] \in InRun

Progressed(c) ==
    /\ pc[c] \in {"enter", "publish"} => \A i \in 0..(count[c] - 1) : served[c][i] = 0
    /\ pc[c] = "serial" =>
         /\ ticket[c] <= count[c]
         /\ \A i \in 0..(count[c] - 1) : served[c][i] = IF i < ticket[c] THEN 1 ELSE 0
    /\ pc[c] = "idle" => \A i \in 0..(count[c] - 1) : served[c][i] = 1

CallProgress == \A c \in Callers : Progressed(c)

IInv ==
    /\ TypeOK
    /\ Roles
    /\ RunOwnsPool
    /\ NoDanglingWork
    /\ DrainAccounting
    /\ CallProgress

(* Under FairSpec every lookup returns, even if no sleeping worker ever    *)
(* wakes ("progress never depends on a wakeup") and whatever notification  *)
(* of done_ races with the caller's wait.                                  *)
LookupReturns == \A c \in Callers : pc[c] # "idle" ~> pc[c] = "idle"

(* The pool implements ParallelFor: each row handled once, return at end.  *)
Abstract == INSTANCE ParallelFor WITH
    busy <- {c \in Callers : pc[c] # "idle"}, times <- served

ImplementsParallelFor == Abstract!Spec
=============================================================================
