------------------------- MODULE RowStorePoolProofs -------------------------
(***************************************************************************)
(* RowStorePool for any number of workers, callers and lookups: IInv is    *)
(* inductive, and with it every lookup writes each of its rows exactly     *)
(* once before it returns, no worker outlives the job it works for, and    *)
(* the pool implements ParallelFor.                                        *)
(***************************************************************************)
EXTENDS RowStorePool, FiniteSetTheorems, TLAPS

(* A step that moves no thread into or out of the ticket-holding pcs and    *)
(* leaves the job's counters and rows alone, except that it may retire it. *)
KeepsTickets ==
    /\ \A t \in Threads : pc'[t] = pc[t] \/ (~HoldsTicket(t) /\ ~HoldsTicket(t)')
    /\ \A t \in Threads : HoldsTicket(t) => ticket'[t] = ticket[t]
    /\ UNCHANGED <<next_, chunks_, remaining_>>
    /\ job_' = None \/ (job_' = job_ /\ count'[job_] = count[job_] /\ served'[job_] = served[job_])

LEMMA TicketFrame ==
    ASSUME TicketsDistinct, JobAccounted, KeepsTickets
    PROVE  TicketsDistinct' /\ JobAccounted'
<1>1. TicketsDistinct'
  BY DEF TicketsDistinct, KeepsTickets, HoldsTicket
<1>2. Unfinished' = Unfinished
  BY DEF Unfinished, KeepsTickets, HoldsTicket
<1>3. Unserved' = Unserved
  BY DEF Unserved, KeepsTickets, HoldsTicket
<1>4. JobAccounted'
  BY <1>2, <1>3 DEF JobAccounted, KeepsTickets
<1> QED BY <1>1, <1>4

LEMMA DrainingFinite == IsFiniteSet(Draining) /\ Cardinality(Draining) \in Nat
BY PoolAssumption, FS_Subset, FS_CardinalityType DEF Draining

LEMMA UnfinishedFinite ==
    ASSUME chunks_ \in Nat
    PROVE  IsFiniteSet(Unfinished) /\ Cardinality(Unfinished) \in Nat
<1>1. IsFiniteSet(0..(chunks_ - 1))
  BY FS_Interval
<1> QED BY <1>1, FS_Subset, FS_CardinalityType DEF Unfinished

LEMMA IntervalSize == ASSUME NEW n \in Nat PROVE Cardinality(0..(n - 1)) = n
<1>1. 0 \in Int /\ n - 1 \in Int /\ (0 > n - 1 <=> n = 0)
  OBVIOUS
<1>2. Cardinality(0..(n - 1)) = IF 0 > n - 1 THEN 0 ELSE (n - 1) - 0 + 1
  BY <1>1, FS_Interval
<1> QED BY <1>1, <1>2

(* A step that keeps every worker's place relative to drain(). *)
LEMMA ActiveFrame ==
    ASSUME ActiveCounted, UNCHANGED active_,
           \A w \in Workers : pc'[w] \in InDrain <=> pc[w] \in InDrain
    PROVE  ActiveCounted'
<1>1. Draining' = Draining
  BY DEF Draining
<1> QED BY <1>1 DEF ActiveCounted

(* A call that a step leaves alone, or that is draining after it, needs no *)
(* argument.                                                               *)
KeepsCall(d) ==
    \/ pc'[d] \in InRun
    \/ /\ pc'[d] = pc[d] /\ ticket'[d] = ticket[d]
       /\ count'[d] = count[d] /\ served'[d] = served[d]

LEMMA CallFrame ==
    ASSUME CallProgress, \A d \in Callers : KeepsCall(d) \/ Progressed(d)'
    PROVE  CallProgress'
<1> SUFFICES ASSUME NEW d \in Callers, KeepsCall(d) PROVE Progressed(d)'
  BY DEF CallProgress
<1>1. CASE pc'[d] \in InRun
  BY <1>1 DEF Progressed, InRun, InDrain
<1>2. CASE pc'[d] = pc[d] /\ ticket'[d] = ticket[d] /\ count'[d] = count[d] /\ served'[d] = served[d]
  BY <1>2 DEF CallProgress, Progressed
<1> QED BY <1>1, <1>2 DEF KeepsCall

----------------------------------------------------------------------------
(* One lemma per action: it preserves IInv. *)

LEMMA LookupStep ==
    ASSUME IInv, NEW c \in Callers, NEW n \in Counts, Lookup(c, n)
    PROVE  IInv'
<1> USE PoolAssumption DEF Threads, InDrain, InRun
<1>0. /\ TypeOK /\ Roles /\ RunOwnsPool /\ NoDanglingWork /\ DrainAccounting /\ CallProgress
      /\ n \in Nat
  BY DEF IInv
<1>1. TypeOK' /\ Roles'
  BY <1>0 DEF Lookup, Goto, pool, TypeOK, Roles, PcValues
<1>2. /\ pc[c] = "idle" /\ pc'[c] \in {"serial", "enter"}
      /\ \A t \in Threads \ {c} : pc'[t] = pc[t] /\ ticket'[t] = ticket[t]
      /\ count'[c] = n /\ ticket'[c] = 0 /\ served'[c] = [i \in 0..(n - 1) |-> 0]
      /\ \A d \in Callers \ {c} : count'[d] = count[d] /\ served'[d] = served[d]
      /\ UNCHANGED <<caller_, job_, next_, chunks_, remaining_, active_, work>>
  BY <1>0 DEF Lookup, Goto, pool, TypeOK
<1>3. RunOwnsPool' /\ NoDanglingWork'
  BY <1>0, <1>2 DEF RunOwnsPool, NoDanglingWork, Draining, TypeOK
<1>4. KeepsTickets
  BY <1>0, <1>2 DEF KeepsTickets, HoldsTicket, RunOwnsPool, TypeOK
<1>5. DrainAccounting'
  BY <1>0, <1>2, <1>4, TicketFrame, ActiveFrame DEF DrainAccounting
<1>6. Progressed(c)'
  BY <1>0, <1>2 DEF Progressed
<1>7. CallProgress'
  BY <1>0, <1>2, <1>6, CallFrame DEF KeepsCall
<1> QED BY <1>1, <1>3, <1>5, <1>7 DEF IInv

LEMMA SerialServeStep ==
    ASSUME IInv, NEW c \in Callers, SerialServe(c)
    PROVE  IInv'
<1> USE PoolAssumption DEF Threads, InDrain, InRun
<1>0. /\ TypeOK /\ Roles /\ RunOwnsPool /\ NoDanglingWork /\ DrainAccounting /\ CallProgress
      /\ pc[c] = "serial"
      /\ UNCHANGED <<caller_, mutex_, job_, next_, chunks_, remaining_, active_, generation_,
                     seen, work, count, lookups>>
  BY DEF IInv, SerialServe, pool
<1>1. /\ c \in Threads /\ ticket[c] \in Nat /\ count[c] \in Nat
      /\ served[c] \in [0..(count[c] - 1) -> Nat]
      /\ ticket[c] <= count[c]
      /\ \A i \in 0..(count[c] - 1) : served[c][i] = IF i < ticket[c] THEN 1 ELSE 0
  BY <1>0 DEF TypeOK, CallProgress, Progressed
<1>2. CASE ticket[c] < count[c]
  <2>0. /\ served' = [served EXCEPT ![c][ticket[c]] = @ + 1]
        /\ ticket' = [ticket EXCEPT ![c] = @ + 1]
        /\ pc' = pc
    BY <1>2 DEF SerialServe
  <2>1. ticket[c] \in 0..(count[c] - 1)
    BY <1>1, <1>2
  <2>2. /\ ticket'[c] = ticket[c] + 1
        /\ \A t \in Threads \ {c} : ticket'[t] = ticket[t]
        /\ ticket' \in [Threads -> Nat]
    BY <1>0, <1>1, <2>0 DEF TypeOK
  <2>3. /\ DOMAIN served' = Callers
        /\ served'[c] = [served[c] EXCEPT ![ticket[c]] = @ + 1]
        /\ \A d \in Callers \ {c} : served'[d] = served[d]
    BY <1>0, <2>0 DEF TypeOK
  <2>4. served'[c] \in [0..(count[c] - 1) -> Nat]
    BY <1>1, <2>1, <2>3
  <2>5. TypeOK' /\ Roles'
    BY <1>0, <2>0, <2>2, <2>3, <2>4 DEF TypeOK, Roles
  <2>6. RunOwnsPool' /\ NoDanglingWork'
    BY <1>0, <2>0 DEF RunOwnsPool, NoDanglingWork, Draining
  <2>7. KeepsTickets
    BY <1>0, <2>0, <2>2, <2>3 DEF KeepsTickets, HoldsTicket, RunOwnsPool, TypeOK
  <2>8. DrainAccounting'
    BY <1>0, <2>0, <2>7, TicketFrame, ActiveFrame DEF DrainAccounting
  <2>9. \A i \in 0..(count[c] - 1) : served'[c][i] = IF i < ticket'[c] THEN 1 ELSE 0
    <3> TAKE i \in 0..(count[c] - 1)
    <3>1. served'[c][i] = IF i = ticket[c] THEN served[c][i] + 1 ELSE served[c][i]
      BY <1>1, <2>1, <2>3
    <3> QED BY <1>1, <2>2, <3>1
  <2>10. Progressed(c)'
    BY <1>0, <1>1, <1>2, <2>0, <2>2, <2>9 DEF Progressed
  <2>11. CallProgress'
    BY <1>0, <2>0, <2>2, <2>3, <2>10, CallFrame DEF KeepsCall
  <2> QED BY <2>5, <2>6, <2>8, <2>11 DEF IInv
<1>3. CASE ~(ticket[c] < count[c])
  <2>0. UNCHANGED <<served, ticket>> /\ pc' = [pc EXCEPT ![c] = "idle"]
    BY <1>3 DEF SerialServe
  <2>1. TypeOK' /\ Roles'
    BY <1>0, <2>0 DEF TypeOK, Roles, PcValues
  <2>2. RunOwnsPool' /\ NoDanglingWork'
    BY <1>0, <2>0 DEF RunOwnsPool, NoDanglingWork, Draining, TypeOK
  <2>3. KeepsTickets
    BY <1>0, <2>0 DEF KeepsTickets, HoldsTicket, TypeOK
  <2>4. DrainAccounting'
    BY <1>0, <2>0, <2>3, TicketFrame, ActiveFrame DEF DrainAccounting, TypeOK
  <2>5. pc'[c] = "idle" /\ \A d \in Callers \ {c} : pc'[d] = pc[d]
    BY <1>0, <2>0 DEF TypeOK
  <2>6. \A i \in 0..(count[c] - 1) : served[c][i] = 1
    BY <1>1, <1>3
  <2>7. Progressed(c)'
    BY <1>0, <2>0, <2>5, <2>6 DEF Progressed
  <2>8. CallProgress'
    BY <1>0, <2>0, <2>5, <2>7, CallFrame DEF KeepsCall
  <2> QED BY <2>1, <2>2, <2>4, <2>8 DEF IInv
<1> QED BY <1>2, <1>3

LEMMA EnterStep ==
    ASSUME IInv, NEW c \in Callers, Enter(c)
    PROVE  IInv'
<1> USE PoolAssumption DEF Threads, InDrain, InRun
<1>0. /\ TypeOK /\ Roles /\ RunOwnsPool /\ NoDanglingWork /\ DrainAccounting /\ CallProgress
      /\ pc[c] = "enter" /\ pc' = [pc EXCEPT ![c] = "publish"]
      /\ caller_ = None /\ caller_' = c
      /\ UNCHANGED <<mutex_, job_, next_, chunks_, remaining_, active_, generation_,
                     seen, work, ticket, count, served, lookups>>
  BY DEF IInv, Enter, Goto, calls
<1>1. TypeOK' /\ Roles'
  BY <1>0 DEF TypeOK, Roles, PcValues
<1>2. RunOwnsPool' /\ NoDanglingWork'
  BY <1>0 DEF RunOwnsPool, NoDanglingWork, Draining, TypeOK
<1>3. KeepsTickets
  BY <1>0 DEF KeepsTickets, HoldsTicket, TypeOK
<1>4. DrainAccounting'
  BY <1>0, <1>3, TicketFrame, ActiveFrame DEF DrainAccounting, TypeOK
<1>5. pc'[c] = "publish" /\ \A d \in Callers \ {c} : pc'[d] = pc[d]
  BY <1>0 DEF TypeOK
<1>6. Progressed(c)'
  BY <1>0, <1>5 DEF CallProgress, Progressed
<1>7. CallProgress'
  BY <1>0, <1>5, <1>6, CallFrame DEF KeepsCall
<1> QED BY <1>1, <1>2, <1>4, <1>7 DEF IInv

(* The job is installed while no thread holds a ticket, so its accounting  *)
(* starts afresh.                                                          *)
LEMMA PublishStep ==
    ASSUME IInv, NEW c \in Callers, Publish(c)
    PROVE  IInv' /\ Draining = {}
<1> USE PoolAssumption DEF Threads, InDrain, InRun
<1>0. /\ TypeOK /\ Roles /\ RunOwnsPool /\ NoDanglingWork /\ DrainAccounting /\ CallProgress
      /\ pc[c] = "publish" /\ pc' = [pc EXCEPT ![c] = "notify"]
      /\ job_' = c /\ next_' = 0 /\ generation_' = generation_ + 1
      /\ work' = [work EXCEPT ![c] = c]
      /\ UNCHANGED <<caller_, mutex_, active_, seen, ticket, count, served, lookups>>
  BY DEF IInv, Publish, Goto, calls
<1>1. count[c] \in Nat /\ chunks_' = count[c] /\ remaining_' = count[c]
  BY <1>0 DEF Publish, kChunk, TypeOK
<1>2. TypeOK' /\ Roles'
  BY <1>0, <1>1 DEF TypeOK, Roles, PcValues
<1>3. job_ = None /\ Draining = {}
  BY <1>0 DEF RunOwnsPool, NoDanglingWork, Draining
<1>4. \A t \in Threads : ~HoldsTicket(t)
  BY <1>0, <1>3 DEF HoldsTicket, RunOwnsPool, Draining
<1>5. \A t \in Threads : ~HoldsTicket(t)'
  BY <1>0, <1>4 DEF HoldsTicket, TypeOK
<1>6. RunOwnsPool'
  BY <1>0, <1>3 DEF RunOwnsPool, TypeOK
<1>7. Draining' = {}
  BY <1>0, <1>3 DEF Draining, TypeOK
<1>8. NoDanglingWork' /\ ActiveCounted' /\ TicketsDistinct'
  BY <1>0, <1>3, <1>5, <1>7 DEF NoDanglingWork, DrainAccounting, ActiveCounted, TicketsDistinct, HoldsTicket
<1>9. Unfinished' = 0..(count[c] - 1) /\ Unserved' = 0..(count[c] - 1)
  BY <1>0, <1>1 DEF Unfinished, Unserved
<1>10. \A i \in 0..(count[c] - 1) : served[c][i] = 0
  BY <1>0 DEF CallProgress, Progressed
<1>11. JobAccounted'
  BY <1>0, <1>1, <1>9, <1>10, IntervalSize DEF JobAccounted
<1>12. CallProgress'
  BY <1>0, CallFrame DEF KeepsCall, TypeOK
<1> QED BY <1>2, <1>3, <1>6, <1>8, <1>11, <1>12 DEF IInv, DrainAccounting

LEMMA NotifyReadyStep ==
    ASSUME IInv, NEW c \in Callers, NotifyReady(c)
    PROVE  IInv'
<1> USE PoolAssumption DEF Threads, InDrain, InRun
<1>0. /\ TypeOK /\ Roles /\ RunOwnsPool /\ NoDanglingWork /\ DrainAccounting /\ CallProgress
      /\ UNCHANGED <<caller_, mutex_, job_, next_, chunks_, remaining_, active_, generation_,
                     seen, work, ticket, count, served, lookups>>
  BY DEF IInv, NotifyReady, pool, calls
<1>1. /\ pc' \in [Threads -> PcValues]
      /\ pc[c] = "notify" /\ pc'[c] = "claim"
      /\ \A d \in Callers \ {c} : pc'[d] = pc[d]
      /\ \A w \in Workers : pc'[w] = pc[w] \/ (pc[w] = "asleep" /\ pc'[w] = "top")
  BY <1>0 DEF NotifyReady, TypeOK, PcValues
<1>2. TypeOK' /\ Roles'
  BY <1>0, <1>1 DEF TypeOK, Roles
<1>3. RunOwnsPool' /\ NoDanglingWork'
  BY <1>0, <1>1 DEF RunOwnsPool, NoDanglingWork, Draining
<1>4. KeepsTickets
  BY <1>0, <1>1 DEF KeepsTickets, HoldsTicket
<1>5. DrainAccounting'
  BY <1>0, <1>1, <1>4, TicketFrame, ActiveFrame DEF DrainAccounting
<1>6. CallProgress'
  BY <1>0, <1>1, CallFrame DEF KeepsCall
<1> QED BY <1>2, <1>3, <1>5, <1>6 DEF IInv

(* run() returns: no ticket is unfinished and no worker is in drain().     *)
LEMMA WaitDoneStep ==
    ASSUME IInv, NEW c \in Callers, WaitDone(c)
    PROVE  IInv'
<1> USE PoolAssumption DEF Threads, InDrain, InRun
<1>0. /\ TypeOK /\ Roles /\ RunOwnsPool /\ NoDanglingWork /\ DrainAccounting /\ CallProgress
      /\ pc[c] = "leave"
      /\ UNCHANGED <<next_, chunks_, remaining_, active_, generation_,
                     seen, work, ticket, count, served, lookups>>
  BY DEF IInv, WaitDone, Goto, calls
<1>1. /\ pc' = [pc EXCEPT ![c] = "idle"] \/ pc' = [pc EXCEPT ![c] = "block"]
      /\ job_' = job_ \/ job_' = None
      /\ caller_' = caller_ \/ caller_' = None
      /\ mutex_' = mutex_ \/ mutex_' = c
  BY DEF WaitDone, Goto
<1>2. TypeOK' /\ Roles'
  BY <1>0, <1>1 DEF TypeOK, Roles, PcValues
<1>3. KeepsTickets
  BY <1>0, <1>1 DEF KeepsTickets, HoldsTicket, TypeOK
<1>4. DrainAccounting'
  BY <1>0, <1>1, <1>3, TicketFrame, ActiveFrame DEF DrainAccounting, TypeOK
<1>5. CASE RunDone
  <2>1. job_' = None /\ caller_' = None /\ pc' = [pc EXCEPT ![c] = "idle"]
    BY <1>5 DEF WaitDone, Goto
  <2>2. job_ = c /\ caller_ = c
    BY <1>0 DEF RunOwnsPool
  <2>3. Draining = {}
    BY <1>0, <1>5, DrainingFinite, FS_EmptySet DEF RunDone, DrainAccounting, ActiveCounted
  <2>4. RunOwnsPool' /\ NoDanglingWork'
    BY <1>0, <2>1, <2>2, <2>3 DEF RunOwnsPool, NoDanglingWork, Draining, TypeOK
  <2>5. chunks_ \in Nat /\ Cardinality(Unfinished) = 0
    BY <1>0, <1>5, <2>2 DEF RunDone, DrainAccounting, JobAccounted, TypeOK
  <2>6. Unfinished = {}
    BY <2>5, UnfinishedFinite, FS_EmptySet
  <2>7. Unserved = {}
    BY <2>6 DEF Unfinished, Unserved, HoldsTicket
  <2>8. \A i \in 0..(count[c] - 1) : served[c][i] = 1
    BY <1>0, <2>2, <2>7 DEF DrainAccounting, JobAccounted
  <2>9. pc'[c] = "idle" /\ \A d \in Callers \ {c} : pc'[d] = pc[d]
    BY <1>0, <2>1 DEF TypeOK
  <2>10. Progressed(c)'
    BY <1>0, <2>8, <2>9 DEF Progressed
  <2>11. CallProgress'
    BY <1>0, <2>9, <2>10, CallFrame DEF KeepsCall
  <2> QED BY <1>2, <1>4, <2>4, <2>11 DEF IInv
<1>6. CASE ~RunDone
  <2>1. UNCHANGED <<job_, caller_>> /\ pc' = [pc EXCEPT ![c] = "block"]
    BY <1>6 DEF WaitDone, Goto
  <2>2. RunOwnsPool' /\ NoDanglingWork'
    BY <1>0, <2>1 DEF RunOwnsPool, NoDanglingWork, Draining, TypeOK
  <2>3. CallProgress'
    BY <1>0, <2>1, CallFrame DEF KeepsCall, TypeOK
  <2> QED BY <1>2, <1>4, <2>2, <2>3 DEF IInv
<1> QED BY <1>5, <1>6

(* A worker takes the job: it joins Draining as active_ grows by one. *)
LEMMA WaitReadyStep ==
    ASSUME IInv, NEW w \in Workers, WaitReady(w)
    PROVE  IInv'
<1> USE PoolAssumption DEF Threads, InDrain, InRun
<1>0. /\ TypeOK /\ Roles /\ RunOwnsPool /\ NoDanglingWork /\ DrainAccounting /\ CallProgress
      /\ pc[w] = "top"
      /\ UNCHANGED <<caller_, job_, next_, chunks_, remaining_, generation_, ticket,
                     count, served, lookups>>
  BY DEF IInv, WaitReady, Goto, calls
<1>1. CASE generation_ # seen[w] /\ job_ # None
  <2>1. /\ pc' = [pc EXCEPT ![w] = "claim"] /\ active_' = active_ + 1
        /\ work' = [work EXCEPT ![w] = job_] /\ seen' = [seen EXCEPT ![w] = generation_]
        /\ UNCHANGED mutex_
    BY <1>1 DEF WaitReady, Goto
  <2>2. TypeOK' /\ Roles'
    BY <1>0, <2>1 DEF TypeOK, Roles, PcValues
  <2>3. RunOwnsPool' /\ NoDanglingWork'
    BY <1>0, <1>1, <2>1 DEF RunOwnsPool, NoDanglingWork, Draining, TypeOK
  <2>4. KeepsTickets
    BY <1>0, <2>1 DEF KeepsTickets, HoldsTicket, TypeOK
  <2>5. Draining' = Draining \cup {w} /\ w \notin Draining
    BY <1>0, <2>1 DEF Draining, TypeOK
  <2>6. ActiveCounted'
    BY <1>0, <2>1, <2>5, DrainingFinite, FS_AddElement DEF DrainAccounting, ActiveCounted
  <2>7. DrainAccounting'
    BY <1>0, <2>4, <2>6, TicketFrame DEF DrainAccounting
  <2>8. CallProgress'
    BY <1>0, <2>1, CallFrame DEF KeepsCall, TypeOK
  <2> QED BY <2>2, <2>3, <2>7, <2>8 DEF IInv
<1>2. CASE ~(generation_ # seen[w] /\ job_ # None)
  <2>1. /\ pc' = [pc EXCEPT ![w] = "top"] \/ pc' = [pc EXCEPT ![w] = "block"]
        /\ mutex_' = mutex_ \/ mutex_' = w
        /\ UNCHANGED active_
        /\ UNCHANGED <<seen, work>> \/ (/\ seen' = [seen EXCEPT ![w] = generation_]
                                        /\ work' = [work EXCEPT ![w] = job_])
    BY <1>2 DEF WaitReady, Goto
  <2>2. TypeOK' /\ Roles'
    <3>1. seen' \in [Workers -> Nat] /\ work' \in [Threads -> Callers \cup {None}]
      BY <1>0, <2>1 DEF TypeOK
    <3>2. pc' \in [Threads -> PcValues] /\ Roles'
      BY <1>0, <2>1 DEF TypeOK, Roles, PcValues
    <3>3. mutex_' \in Threads \cup {None}
      BY <1>0, <2>1 DEF TypeOK
    <3> QED BY <1>0, <2>1, <3>1, <3>2, <3>3 DEF TypeOK
  <2>3. /\ \A c \in Callers : pc'[c] = pc[c] /\ work'[c] = work[c]
        /\ pc'[w] \notin InDrain
        /\ \A v \in Workers \ {w} : pc'[v] = pc[v] /\ work'[v] = work[v]
    BY <1>0, <2>1 DEF TypeOK
  <2>4. RunOwnsPool' /\ NoDanglingWork'
    BY <1>0, <2>3 DEF RunOwnsPool, NoDanglingWork, Draining, TypeOK
  <2>5. KeepsTickets
    BY <1>0, <2>1 DEF KeepsTickets, HoldsTicket, TypeOK
  <2>6. DrainAccounting'
    BY <1>0, <2>1, <2>3, <2>5, TicketFrame, ActiveFrame DEF DrainAccounting
  <2>7. CallProgress'
    BY <1>0, <2>3, CallFrame DEF KeepsCall
  <2> QED BY <2>2, <2>4, <2>6, <2>7 DEF IInv
<1> QED BY <1>1, <1>2

(* What notify_one on done_ does to the program counters. *)
LEMMA NotifyDoneMoves ==
    ASSUME pc \in [Threads -> PcValues], NEW t \in Threads, NEW to \in PcValues,
           pc[t] # "asleep", NotifyDone(t, to)
    PROVE  /\ pc' \in [Threads -> PcValues]
           /\ pc'[t] = to
           /\ \A u \in Threads \ {t} :
                \/ pc'[u] = pc[u]
                \/ u \in Callers /\ pc[u] = "asleep" /\ pc'[u] = "leave"
<1>1. CASE pc' = [pc EXCEPT ![t] = to]
  BY <1>1
<1>2. CASE \E c \in Callers : pc[c] = "asleep" /\ pc' = [pc EXCEPT ![t] = to, ![c] = "leave"]
  <2>1. PICK c \in Callers : pc[c] = "asleep" /\ pc' = [pc EXCEPT ![t] = to, ![c] = "leave"]
    BY <1>2
  <2>2. c # t /\ c \in Threads /\ "leave" \in PcValues
    BY <2>1 DEF Threads, PcValues, InDrain
  <2> QED BY <2>1, <2>2
<1> QED BY <1>1, <1>2 DEF NotifyDone

LEMMA LeaveStep ==
    ASSUME IInv, NEW w \in Workers, Leave(w)
    PROVE  IInv'
<1> USE PoolAssumption DEF Threads, InDrain, InRun
<1>0. /\ TypeOK /\ Roles /\ RunOwnsPool /\ NoDanglingWork /\ DrainAccounting /\ CallProgress
      /\ pc[w] = "leave" /\ active_' = active_ - 1 /\ NotifyDone(w, "top")
      /\ UNCHANGED <<caller_, mutex_, job_, next_, chunks_, remaining_, generation_,
                     seen, work, ticket, count, served, lookups>>
  BY DEF IInv, Leave, calls
<1>1. /\ pc' \in [Threads -> PcValues]
      /\ pc'[w] = "top"
      /\ \A u \in Threads \ {w} :
           \/ pc'[u] = pc[u]
           \/ u \in Callers /\ pc[u] = "asleep" /\ pc'[u] = "leave"
  BY <1>0, NotifyDoneMoves DEF TypeOK, PcValues
<1>2. Draining' = Draining \ {w} /\ w \in Draining
  BY <1>0, <1>1 DEF Draining
<1>3. /\ ActiveCounted' /\ active_' \in Nat
  <2>1. Cardinality(Draining \ {w}) = Cardinality(Draining) - 1 /\ IsFiniteSet(Draining \ {w})
    BY <1>2, DrainingFinite, FS_RemoveElement
  <2>2. Cardinality(Draining \ {w}) \in Nat
    BY <2>1, FS_CardinalityType
  <2> QED BY <1>0, <1>2, <2>1, <2>2 DEF DrainAccounting, ActiveCounted
<1>4. TypeOK' /\ Roles'
  BY <1>0, <1>1, <1>3 DEF TypeOK, Roles
<1>5. RunOwnsPool' /\ NoDanglingWork'
  <2>1. /\ job_ \in Callers \cup {None}
        /\ \A c \in Callers : pc'[c] = pc[c] \/ (pc[c] \in InRun /\ pc'[c] \in InRun)
        /\ \A v \in Workers : pc'[v] \in InDrain => pc[v] \in InDrain
    BY <1>0, <1>1 DEF TypeOK, Roles
  <2>2. RunOwnsPool'
    BY <1>0, <2>1 DEF RunOwnsPool
  <2> QED BY <1>0, <2>1, <2>2 DEF RunOwnsPool, NoDanglingWork, Draining
<1>6. KeepsTickets
  BY <1>0, <1>1 DEF KeepsTickets, HoldsTicket
<1>7. DrainAccounting'
  BY <1>0, <1>3, <1>6, TicketFrame DEF DrainAccounting
<1>8. CallProgress'
  BY <1>0, <1>1, CallFrame DEF KeepsCall
<1> QED BY <1>4, <1>5, <1>7, <1>8 DEF IInv

LEMMA SignalStep ==
    ASSUME IInv, NEW t \in Threads, Signal(t)
    PROVE  IInv'
<1> USE PoolAssumption DEF Threads, InDrain, InRun
<1>0. /\ TypeOK /\ Roles /\ RunOwnsPool /\ NoDanglingWork /\ DrainAccounting /\ CallProgress
      /\ pc[t] = "signal" /\ NotifyDone(t, "claim")
      /\ UNCHANGED <<caller_, mutex_, job_, next_, chunks_, remaining_, active_, generation_,
                     seen, work, ticket, count, served, lookups>>
  BY DEF IInv, Signal, pool, calls
<1>1. /\ pc' \in [Threads -> PcValues]
      /\ pc'[t] = "claim"
      /\ \A u \in Threads \ {t} :
           \/ pc'[u] = pc[u]
           \/ u \in Callers /\ pc[u] = "asleep" /\ pc'[u] = "leave"
  BY <1>0, NotifyDoneMoves DEF TypeOK, PcValues
<1>2. TypeOK' /\ Roles'
  BY <1>0, <1>1 DEF TypeOK, Roles
<1>3. RunOwnsPool' /\ NoDanglingWork'
  <2>1. /\ job_ \in Callers \cup {None}
        /\ \A c \in Callers : pc'[c] = pc[c] \/ (pc[c] \in InRun /\ pc'[c] \in InRun)
        /\ \A v \in Workers : pc'[v] \in InDrain => pc[v] \in InDrain
    BY <1>0, <1>1 DEF TypeOK, Roles
  <2>2. RunOwnsPool'
    BY <1>0, <2>1 DEF RunOwnsPool
  <2> QED BY <1>0, <2>1, <2>2 DEF RunOwnsPool, NoDanglingWork, Draining
<1>4. KeepsTickets
  BY <1>0, <1>1 DEF KeepsTickets, HoldsTicket
<1>5. DrainAccounting'
  BY <1>0, <1>1, <1>4, TicketFrame, ActiveFrame DEF DrainAccounting
<1>6. CallProgress'
  BY <1>0, <1>1, CallFrame DEF KeepsCall, Roles
<1> QED BY <1>2, <1>3, <1>5, <1>6 DEF IInv

LEMMA BlockStep ==
    ASSUME IInv, NEW t \in Threads, Block(t)
    PROVE  IInv'
<1> USE PoolAssumption DEF Threads, InDrain, InRun
<1>0. /\ TypeOK /\ Roles /\ RunOwnsPool /\ NoDanglingWork /\ DrainAccounting /\ CallProgress
      /\ pc[t] = "block" /\ pc' = [pc EXCEPT ![t] = "asleep"] /\ mutex_' = None
      /\ UNCHANGED <<caller_, job_, next_, chunks_, remaining_, active_, generation_,
                     seen, work, ticket, count, served, lookups>>
  BY DEF IInv, Block, Goto, calls
<1>1. TypeOK' /\ Roles'
  BY <1>0 DEF TypeOK, Roles, PcValues
<1>2. RunOwnsPool' /\ NoDanglingWork'
  BY <1>0 DEF RunOwnsPool, NoDanglingWork, Draining, TypeOK
<1>3. KeepsTickets
  BY <1>0 DEF KeepsTickets, HoldsTicket, TypeOK
<1>4. DrainAccounting'
  BY <1>0, <1>3, TicketFrame, ActiveFrame DEF DrainAccounting, TypeOK
<1>5. CallProgress'
  BY <1>0, CallFrame DEF KeepsCall, TypeOK
<1> QED BY <1>1, <1>2, <1>4, <1>5 DEF IInv

LEMMA SpuriousWakeStep ==
    ASSUME IInv, NEW t \in Threads, SpuriousWake(t)
    PROVE  IInv'
<1> USE PoolAssumption DEF Threads, InDrain, InRun
<1>0. /\ TypeOK /\ Roles /\ RunOwnsPool /\ NoDanglingWork /\ DrainAccounting /\ CallProgress
      /\ pc[t] = "asleep"
      /\ UNCHANGED <<caller_, mutex_, job_, next_, chunks_, remaining_, active_, generation_,
                     seen, work, ticket, count, served, lookups>>
  BY DEF IInv, SpuriousWake, Goto, pool, calls
<1>1. /\ pc' \in [Threads -> PcValues]
      /\ t \in Workers => pc'[t] = "top"
      /\ t \in Callers => pc'[t] = "leave"
      /\ \A u \in Threads \ {t} : pc'[u] = pc[u]
  BY <1>0 DEF SpuriousWake, Goto, TypeOK, PcValues
<1>2. TypeOK' /\ Roles'
  BY <1>0, <1>1 DEF TypeOK, Roles
<1>3. RunOwnsPool' /\ NoDanglingWork'
  <2>1. /\ job_ \in Callers \cup {None}
        /\ \A c \in Callers : pc'[c] = pc[c] \/ (pc[c] \in InRun /\ pc'[c] \in InRun)
        /\ \A v \in Workers : pc'[v] \in InDrain => pc[v] \in InDrain
    BY <1>0, <1>1 DEF TypeOK, Roles
  <2>2. RunOwnsPool'
    BY <1>0, <2>1 DEF RunOwnsPool
  <2> QED BY <1>0, <2>1, <2>2 DEF RunOwnsPool, NoDanglingWork, Draining
<1>4. KeepsTickets
  BY <1>0, <1>1 DEF KeepsTickets, HoldsTicket
<1>5. DrainAccounting'
  BY <1>0, <1>1, <1>4, TicketFrame, ActiveFrame DEF DrainAccounting
<1>6. CallProgress'
  BY <1>0, <1>1, CallFrame DEF KeepsCall
<1> QED BY <1>2, <1>3, <1>5, <1>6 DEF IInv

(* A thread inside drain() works for the published job. *)
LEMMA DrainersShareJob ==
    ASSUME IInv, NEW t \in Threads, pc[t] \in InDrain
    PROVE  job_ \in Callers /\ work[t] = job_
BY PoolAssumption DEF IInv, TypeOK, RunOwnsPool, NoDanglingWork, Draining, Threads, InRun

(* A step of drain() that moves only t, and t only within drain(), keeps   *)
(* everything but the tickets.                                             *)
LEMMA DrainFrame ==
    ASSUME IInv, NEW t \in Threads, NEW to \in InDrain, pc[t] \in InDrain,
           pc' = [pc EXCEPT ![t] = to],
           UNCHANGED <<caller_, job_, active_, work>>
    PROVE  Roles' /\ RunOwnsPool' /\ NoDanglingWork' /\ ActiveCounted'
<1> USE PoolAssumption DEF Threads, InDrain, InRun
<1>1. /\ TypeOK /\ Roles /\ RunOwnsPool /\ NoDanglingWork /\ ActiveCounted
      /\ job_ \in Callers \cup {None}
  BY DEF IInv, DrainAccounting, TypeOK
<1>2. /\ pc'[t] \in InDrain
      /\ \A u \in Threads \ {t} : pc'[u] = pc[u]
  BY <1>1 DEF TypeOK
<1>3. Roles'
  BY <1>1, <1>2 DEF Roles
<1>4. RunOwnsPool'
  BY <1>1, <1>2 DEF RunOwnsPool
<1>5. NoDanglingWork'
  BY <1>1, <1>2, <1>4 DEF NoDanglingWork, RunOwnsPool, Draining
<1>6. ActiveCounted'
  BY <1>1, <1>2, ActiveFrame
<1> QED BY <1>3, <1>4, <1>5, <1>6

LEMMA ClaimStep ==
    ASSUME IInv, NEW t \in Threads, Claim(t)
    PROVE  IInv'
<1> USE PoolAssumption DEF Threads, InDrain, InRun
<1>0. /\ TypeOK /\ Roles /\ RunOwnsPool /\ DrainAccounting /\ CallProgress
      /\ pc[t] = "claim" /\ pc' = [pc EXCEPT ![t] = "check"]
      /\ ticket' = [ticket EXCEPT ![t] = next_] /\ next_' = next_ + 1
      /\ UNCHANGED <<caller_, mutex_, job_, chunks_, remaining_, active_, generation_,
                     seen, work, count, served, lookups>>
  BY DEF IInv, Claim, Goto, calls
<1>1. Roles' /\ RunOwnsPool' /\ NoDanglingWork' /\ ActiveCounted'
  BY <1>0, DrainFrame
<1>2. TypeOK'
  BY <1>0 DEF TypeOK, PcValues
<1>3. /\ next_ \in Nat /\ pc'[t] = "check" /\ ticket'[t] = next_
      /\ \A u \in Threads \ {t} : pc'[u] = pc[u] /\ ticket'[u] = ticket[u]
      /\ \A u \in Threads : ticket[u] \in Nat
  BY <1>0 DEF TypeOK
<1>4. TicketsDistinct'
  BY <1>0, <1>3 DEF DrainAccounting, TicketsDistinct, HoldsTicket
<1>5. Unfinished' = Unfinished
  BY <1>0, <1>3 DEF Unfinished, HoldsTicket
<1>6. Unserved' = Unserved
  BY <1>0, <1>3 DEF Unserved
<1>7. JobAccounted'
  BY <1>0, <1>5, <1>6 DEF DrainAccounting, JobAccounted
<1>8. CallProgress'
  BY <1>0, <1>3, CallFrame DEF KeepsCall, Roles
<1> QED BY <1>1, <1>2, <1>4, <1>7, <1>8 DEF IInv, DrainAccounting

LEMMA CheckStep ==
    ASSUME IInv, NEW t \in Threads, Check(t)
    PROVE  IInv'
<1> USE PoolAssumption DEF Threads, InDrain, InRun
<1>0. /\ TypeOK /\ Roles /\ RunOwnsPool /\ DrainAccounting /\ CallProgress
      /\ pc[t] = "check"
      /\ \/ pc' = [pc EXCEPT ![t] = "leave"] /\ ticket[t] >= chunks_
         \/ pc' = [pc EXCEPT ![t] = "serve"] /\ ~(ticket[t] >= chunks_)
      /\ UNCHANGED <<caller_, mutex_, job_, next_, chunks_, remaining_, active_, generation_,
                     seen, work, ticket, count, served, lookups>>
  BY DEF IInv, Check, Goto, pool, calls
<1>1. Roles' /\ RunOwnsPool' /\ NoDanglingWork' /\ ActiveCounted'
  BY <1>0, DrainFrame
<1>2. TypeOK'
  BY <1>0 DEF TypeOK, PcValues
<1>3. /\ chunks_ \in Nat /\ \A u \in Threads : ticket[u] \in Nat
      /\ \/ pc'[t] = "leave" /\ ticket[t] >= chunks_
         \/ pc'[t] = "serve" /\ ticket[t] < chunks_
      /\ \A u \in Threads \ {t} : pc'[u] = pc[u]
  BY <1>0 DEF TypeOK
<1>4. TicketsDistinct'
  BY <1>0, <1>3 DEF DrainAccounting, TicketsDistinct, HoldsTicket
<1>5. Unfinished' = Unfinished
  BY <1>0, <1>3 DEF Unfinished, HoldsTicket
<1>6. Unserved' = Unserved
  BY <1>0, <1>3 DEF Unserved
<1>7. JobAccounted'
  BY <1>0, <1>5, <1>6 DEF DrainAccounting, JobAccounted
<1>8. CallProgress'
  BY <1>0, <1>3, CallFrame DEF KeepsCall, Roles
<1> QED BY <1>1, <1>2, <1>4, <1>7, <1>8 DEF IInv, DrainAccounting

(* serve() of a held ticket writes one row, not written before. *)
LEMMA ServeWrites ==
    ASSUME IInv, NEW t \in Threads, Serve(t)
    PROVE  /\ job_ \in Callers
           /\ ticket[t] \in 0..(count[job_] - 1)
           /\ served[job_][ticket[t]] = 0
           /\ served' = [served EXCEPT ![job_][ticket[t]] = 1]
<1> USE PoolAssumption DEF Threads, InDrain
<1>0. TypeOK /\ DrainAccounting /\ pc[t] = "serve"
  BY DEF IInv, Serve, Goto
<1>1. job_ \in Callers /\ work[t] = job_ /\ job_ # None
  BY <1>0, DrainersShareJob
<1>2. /\ ticket[t] \in Nat /\ chunks_ \in Nat /\ chunks_ = count[job_]
      /\ ticket[t] < chunks_
  BY <1>0, <1>1 DEF TypeOK, DrainAccounting, TicketsDistinct, JobAccounted
<1>3. ticket[t] \in Unserved /\ ticket[t] \in 0..(count[job_] - 1)
  BY <1>0, <1>2 DEF Unserved
<1>4. served[job_][ticket[t]] = 0
  BY <1>0, <1>1, <1>2, <1>3 DEF DrainAccounting, JobAccounted
<1>5. RowsOf(ticket[t], count[job_]) = {ticket[t]}
  BY <1>2, <1>3 DEF RowsOf, kChunk
<1>6. served[job_] \in [0..(count[job_] - 1) -> Nat] /\ DOMAIN served = Callers
  BY <1>0, <1>1 DEF TypeOK
<1>7. served' = [served EXCEPT ![job_] = [i \in DOMAIN served[job_] |->
                    IF i \in {ticket[t]} THEN served[job_][i] + 1 ELSE served[job_][i]]]
  BY <1>1, <1>5 DEF Serve
<1>8. [i \in DOMAIN served[job_] |-> IF i \in {ticket[t]} THEN served[job_][i] + 1 ELSE served[job_][i]]
        = [served[job_] EXCEPT ![ticket[t]] = 1]
  BY <1>3, <1>4, <1>6
<1> QED BY <1>1, <1>3, <1>4, <1>7, <1>8

LEMMA ServeStep ==
    ASSUME IInv, NEW t \in Threads, Serve(t)
    PROVE  IInv'
<1> USE PoolAssumption DEF Threads, InDrain, InRun
<1>0. /\ TypeOK /\ Roles /\ RunOwnsPool /\ DrainAccounting /\ CallProgress
      /\ pc[t] = "serve" /\ pc' = [pc EXCEPT ![t] = "finish"]
      /\ UNCHANGED <<caller_, mutex_, job_, next_, chunks_, remaining_, active_, generation_,
                     seen, work, ticket, count, lookups>>
  BY DEF IInv, Serve, Goto, pool
<1>1. Roles' /\ RunOwnsPool' /\ NoDanglingWork' /\ ActiveCounted'
  BY <1>0, DrainFrame
<1>2. /\ job_ \in Callers
      /\ ticket[t] \in 0..(count[job_] - 1)
      /\ served' = [served EXCEPT ![job_][ticket[t]] = 1]
  BY ServeWrites
<1>3. /\ DOMAIN served' = Callers
      /\ served'[job_] = [served[job_] EXCEPT ![ticket[t]] = 1]
      /\ \A c \in Callers \ {job_} : served'[c] = served[c]
      /\ served[job_] \in [0..(count[job_] - 1) -> Nat]
  BY <1>0, <1>2 DEF TypeOK
<1>4. TypeOK'
  <2>1. served'[job_] \in [0..(count[job_] - 1) -> Nat]
    BY <1>2, <1>3
  <2>2. \A c \in Callers : served'[c] \in [0..(count'[c] - 1) -> Nat]
    BY <1>0, <1>3, <2>1 DEF TypeOK
  <2> QED BY <1>0, <1>3, <2>2 DEF TypeOK, PcValues
<1>5. /\ pc'[t] = "finish"
      /\ \A u \in Threads \ {t} : pc'[u] = pc[u]
      /\ \A u \in Threads : HoldsTicket(u) => ticket[u] # ticket[t] \/ u = t
      /\ ticket[t] < next_ /\ next_ \in Nat
  BY <1>0 DEF TypeOK, DrainAccounting, TicketsDistinct, HoldsTicket
<1>6. TicketsDistinct'
  BY <1>0, <1>5 DEF DrainAccounting, TicketsDistinct, HoldsTicket
<1>7. Unfinished' = Unfinished
  BY <1>0, <1>5 DEF Unfinished, HoldsTicket
<1>8. Unserved' = Unserved \ {ticket[t]}
  <2>1. \A u \in Threads : pc'[u] \in {"check", "serve"} <=> pc[u] \in {"check", "serve"} /\ u # t
    BY <1>0, <1>5
  <2>2. \A u \in Threads : pc[u] \in {"check", "serve"} /\ u # t => ticket[u] # ticket[t]
    BY <1>5 DEF HoldsTicket
  <2>3. \A k \in 0..(chunks_ - 1) :
           (k >= next_ \/ \E u \in Threads : pc'[u] \in {"check", "serve"} /\ ticket[u] = k)
           <=> k # ticket[t] /\ (k >= next_ \/ \E u \in Threads : pc[u] \in {"check", "serve"} /\ ticket[u] = k)
    <3> TAKE k \in 0..(chunks_ - 1)
    <3>1. ticket[t] \in Int /\ ~(ticket[t] >= next_)
      BY <1>2, <1>5
    <3> QED BY <2>1, <2>2, <3>1
  <2> QED BY <1>0, <2>3 DEF Unserved
<1>9. JobAccounted'
  <2>1. chunks_ = count[job_] /\ job_ # None
    BY <1>0, <1>2 DEF DrainAccounting, JobAccounted
  <2>2. \A k \in 0..(chunks_ - 1) : served'[job_][k] = IF k \in Unserved \ {ticket[t]} THEN 0 ELSE 1
    BY <1>0, <1>2, <1>3, <2>1 DEF DrainAccounting, JobAccounted
  <2> QED BY <1>0, <1>7, <1>8, <2>1, <2>2 DEF DrainAccounting, JobAccounted
<1>10. CallProgress'
  <2>1. pc'[job_] \in InRun
    BY <1>0, <1>1, <1>2 DEF RunOwnsPool
  <2>2. \A c \in Callers : c # job_ => pc'[c] = pc[c] \/ pc'[c] \in InRun
    BY <1>5
  <2> QED BY <1>0, <1>3, <2>1, <2>2, CallFrame DEF KeepsCall
<1> QED BY <1>1, <1>4, <1>6, <1>9, <1>10 DEF IInv, DrainAccounting

LEMMA FinishStep ==
    ASSUME IInv, NEW t \in Threads, Finish(t)
    PROVE  IInv'
<1> USE PoolAssumption DEF Threads, InDrain, InRun
<1>0. /\ TypeOK /\ Roles /\ RunOwnsPool /\ DrainAccounting /\ CallProgress
      /\ pc[t] = "finish" /\ remaining_' = remaining_ - 1
      /\ pc' = [pc EXCEPT ![t] = "signal"] \/ pc' = [pc EXCEPT ![t] = "claim"]
      /\ UNCHANGED <<caller_, mutex_, job_, next_, chunks_, active_, generation_,
                     seen, work, ticket, count, served, lookups>>
  BY DEF IInv, Finish, Goto, calls
<1>1. Roles' /\ RunOwnsPool' /\ NoDanglingWork' /\ ActiveCounted'
  BY <1>0, DrainFrame
<1>2. job_ \in Callers /\ job_ # None
  BY <1>0, DrainersShareJob
<1>3. /\ pc'[t] \in {"signal", "claim"}
      /\ \A u \in Threads \ {t} : pc'[u] = pc[u]
      /\ \A u \in Threads : HoldsTicket(u) => ticket[u] # ticket[t] \/ u = t
      /\ ticket[t] \in Nat /\ next_ \in Nat /\ chunks_ \in Nat
      /\ ticket[t] < next_ /\ ticket[t] < chunks_
  BY <1>0 DEF TypeOK, DrainAccounting, TicketsDistinct, HoldsTicket
<1>4. TicketsDistinct'
  BY <1>0, <1>3 DEF DrainAccounting, TicketsDistinct, HoldsTicket
<1>5. Unfinished' = Unfinished \ {ticket[t]} /\ ticket[t] \in Unfinished
  <2>1. \A u \in Threads : HoldsTicket(u)' <=> HoldsTicket(u) /\ u # t
    BY <1>0, <1>3 DEF HoldsTicket
  <2> QED BY <1>0, <1>3, <2>1 DEF Unfinished, HoldsTicket
<1>6. /\ Cardinality(Unfinished \ {ticket[t]}) = Cardinality(Unfinished) - 1
      /\ Cardinality(Unfinished \ {ticket[t]}) \in Nat
  BY <1>3, <1>5, UnfinishedFinite, FS_RemoveElement, FS_CardinalityType
<1>7. remaining_' = Cardinality(Unfinished') /\ remaining_' \in Nat
  BY <1>0, <1>2, <1>5, <1>6 DEF DrainAccounting, JobAccounted
<1>8. TypeOK'
  BY <1>0, <1>7 DEF TypeOK, PcValues
<1>9. Unserved' = Unserved
  BY <1>0, <1>3 DEF Unserved
<1>10. JobAccounted'
  BY <1>0, <1>2, <1>7, <1>9 DEF DrainAccounting, JobAccounted
<1>11. CallProgress'
  BY <1>0, <1>3, CallFrame DEF KeepsCall, Roles
<1> QED BY <1>1, <1>4, <1>8, <1>10, <1>11 DEF IInv, DrainAccounting

----------------------------------------------------------------------------
LEMMA InitIInv == Init => IInv
<1> SUFFICES ASSUME Init PROVE IInv
  OBVIOUS
<1> USE PoolAssumption DEF Init, Threads, InDrain, InRun
<1>1. TypeOK
  BY DEF TypeOK, PcValues
<1>2. Roles /\ RunOwnsPool /\ NoDanglingWork
  BY DEF Roles, RunOwnsPool, NoDanglingWork, Draining
<1>3. Draining = {}
  BY DEF Draining
<1>4. DrainAccounting
  BY <1>3, FS_EmptySet DEF DrainAccounting, ActiveCounted, TicketsDistinct, HoldsTicket, JobAccounted
<1>5. CallProgress
  BY DEF CallProgress, Progressed
<1> QED BY <1>1, <1>2, <1>4, <1>5 DEF IInv

LEMMA NextIInv == IInv /\ [Next]_vars => IInv'
<1> SUFFICES ASSUME IInv, [Next]_vars PROVE IInv'
  OBVIOUS
<1>1. ASSUME NEW c \in Callers, \E n \in Counts : Lookup(c, n) PROVE IInv'
  BY <1>1, LookupStep
<1>2. ASSUME NEW c \in Callers, Run(c) PROVE IInv'
  BY <1>2, SerialServeStep, EnterStep, PublishStep, NotifyReadyStep, WaitDoneStep DEF Run
<1>3. ASSUME NEW w \in Workers, WaitReady(w) \/ Leave(w) PROVE IInv'
  BY <1>3, WaitReadyStep, LeaveStep
<1>4. ASSUME NEW t \in Threads, Drain(t) PROVE IInv'
  BY <1>4, ClaimStep, CheckStep, ServeStep, FinishStep, SignalStep DEF Drain
<1>5. ASSUME NEW t \in Threads, Block(t) \/ SpuriousWake(t) PROVE IInv'
  BY <1>5, BlockStep, SpuriousWakeStep
<1>6. CASE UNCHANGED vars
  BY <1>6 DEF vars, pool, calls, IInv, TypeOK, Roles, RunOwnsPool, NoDanglingWork, Draining,
     DrainAccounting, ActiveCounted, TicketsDistinct, HoldsTicket, JobAccounted, Unfinished,
     Unserved, CallProgress, Progressed
<1> QED BY <1>1, <1>2, <1>3, <1>4, <1>5, <1>6 DEF Next

(* IInv holds throughout every behaviour of the pool. *)
THEOREM PoolInvariant == Spec => []IInv
BY InitIInv, NextIInv, PTL DEF Spec

(* The pool's variables keep their types; in particular the unsigned       *)
(* remaining_ and active_ never wrap below zero.                           *)
THEOREM PoolTypes == Spec => []TypeOK
<1>1. IInv => TypeOK
  BY DEF IInv
<1> QED BY <1>1, PoolInvariant, PTL

(* A lookup returns only after each of its rows was written exactly once.  *)
THEOREM LookupsComplete == Spec => []LookupComplete
<1>1. IInv => LookupComplete
  BY DEF IInv, CallProgress, Progressed, LookupComplete
<1> QED BY <1>1, PoolInvariant, PTL

(* No worker in drain() refers to a job whose run() has returned.          *)
THEOREM WorkNeverDangles == Spec => []NoDanglingWork
<1>1. IInv => NoDanglingWork
  BY DEF IInv
<1> QED BY <1>1, PoolInvariant, PTL

(* Tickets, active workers and written rows stay in step.                  *)
THEOREM DrainAccounted == Spec => []DrainAccounting
<1>1. IInv => DrainAccounting
  BY DEF IInv
<1> QED BY <1>1, PoolInvariant, PTL

LEMMA ResetStep ==
    ASSUME IInv, [Next]_vars, next_' < next_
    PROVE  Draining = {}
<1>0. next_ \in Nat
  BY DEF IInv, TypeOK
<1>1. ASSUME NEW c \in Callers, NEW n \in Counts, Lookup(c, n) PROVE next_' = next_
  BY <1>1 DEF Lookup, pool
<1>2. ASSUME NEW c \in Callers, Run(c), ~Publish(c) PROVE next_' = next_
  BY <1>2 DEF Run, SerialServe, Enter, NotifyReady, WaitDone, pool
<1>3. ASSUME NEW w \in Workers, WaitReady(w) \/ Leave(w) PROVE next_' = next_
  BY <1>3 DEF WaitReady, Leave
<1>4. ASSUME NEW t \in Threads, Drain(t) PROVE next_' = next_ \/ next_' = next_ + 1
  BY <1>4 DEF Drain, Claim, Check, Serve, Finish, Signal, pool
<1>5. ASSUME NEW t \in Threads, Block(t) \/ SpuriousWake(t) PROVE next_' = next_
  BY <1>5 DEF Block, SpuriousWake, pool
<1>6. ASSUME UNCHANGED vars PROVE next_' = next_
  BY <1>6 DEF vars, pool
<1>7. next_' # next_ /\ next_' # next_ + 1
  BY <1>0
<1>8. PICK c \in Callers : Publish(c)
  BY <1>1, <1>2, <1>3, <1>4, <1>5, <1>6, <1>7, Zenon DEF Next
<1> QED BY <1>8, PublishStep

(* The ticket counter goes back to 0 only when no worker is in drain().    *)
THEOREM TicketResetsSafe == Spec => TicketResetSafe
<1>1. IInv /\ [Next]_vars => [next_' < next_ => Draining = {}]_vars
  BY ResetStep
<1> QED BY <1>1, PoolInvariant, PTL DEF Spec, TicketResetSafe

----------------------------------------------------------------------------
(* Refinement: each step of the pool is a step of ParallelFor or none. *)

Busy == {c \in Callers : pc[c] # "idle"}

LEMMA StutterStep ==
    ASSUME UNCHANGED served, \A c \in Callers : pc'[c] = "idle" <=> pc[c] = "idle"
    PROVE  [Abstract!Next]_Abstract!vars
BY DEF Abstract!vars

LEMMA RefineLookup ==
    ASSUME IInv, NEW c \in Callers, NEW n \in Counts, Lookup(c, n)
    PROVE  Abstract!Next
<1>1. c \notin Busy /\ Busy' = Busy \cup {c}
  BY DEF IInv, TypeOK, Lookup, Goto, Busy, Threads
<1>2. served' = [served EXCEPT ![c] = [i \in 0..(n - 1) |-> 0]]
  BY DEF Lookup
<1>3. Abstract!Begin(c, n)
  BY <1>1, <1>2 DEF Abstract!Begin, Busy
<1> QED BY <1>3 DEF Abstract!Next

LEMMA RefineSerialServe ==
    ASSUME IInv, NEW c \in Callers, SerialServe(c)
    PROVE  Abstract!Next
<1> USE DEF Busy, Threads
<1>0. /\ TypeOK /\ pc[c] = "serial" /\ c \in Busy
      /\ ticket[c] \in Nat /\ count[c] \in Nat /\ ticket[c] <= count[c]
      /\ served[c] \in [0..(count[c] - 1) -> Nat]
      /\ \A i \in 0..(count[c] - 1) : served[c][i] = IF i < ticket[c] THEN 1 ELSE 0
  BY DEF IInv, TypeOK, SerialServe, CallProgress, Progressed
<1>1. CASE ticket[c] < count[c]
  <2>1. ticket[c] \in DOMAIN served[c] /\ served[c][ticket[c]] = 0
    BY <1>0, <1>1
  <2>2. served' = [served EXCEPT ![c][ticket[c]] = 1] /\ Busy' = Busy
    BY <1>0, <1>1, <2>1 DEF SerialServe
  <2>3. Abstract!HandleRow(c, ticket[c])
    BY <1>0, <2>1, <2>2 DEF Abstract!HandleRow
  <2> QED BY <2>1, <2>3 DEF Abstract!Next
<1>2. CASE ~(ticket[c] < count[c])
  <2>1. served' = served /\ Busy' = Busy \ {c}
    BY <1>0, <1>2 DEF SerialServe, TypeOK
  <2>2. \A i \in DOMAIN served[c] : served[c][i] = 1
    BY <1>0, <1>2
  <2>3. Abstract!Return(c)
    BY <1>0, <2>1, <2>2 DEF Abstract!Return
  <2> QED BY <2>3 DEF Abstract!Next
<1> QED BY <1>1, <1>2

LEMMA RefineServe ==
    ASSUME IInv, NEW t \in Threads, Serve(t)
    PROVE  Abstract!Next
<1>1. /\ job_ \in Callers /\ ticket[t] \in 0..(count[job_] - 1)
      /\ served[job_][ticket[t]] = 0
      /\ served' = [served EXCEPT ![job_][ticket[t]] = 1]
  BY ServeWrites
<1>2. job_ # None /\ ticket[t] \in DOMAIN served[job_]
  BY <1>1, PoolAssumption DEF IInv, TypeOK
<1>3. job_ \in Busy
  BY <1>1, <1>2 DEF IInv, RunOwnsPool, InRun, InDrain, Busy
<1>4. Busy' = Busy
  BY DEF IInv, TypeOK, Serve, Goto, Busy, Threads
<1>5. Abstract!HandleRow(job_, ticket[t])
  BY <1>1, <1>3, <1>4 DEF Abstract!HandleRow, Busy
<1> QED BY <1>1, <1>2, <1>5 DEF Abstract!Next

LEMMA RefineWaitDone ==
    ASSUME IInv, NEW c \in Callers, WaitDone(c)
    PROVE  [Abstract!Next]_Abstract!vars
<1>0. TypeOK /\ pc[c] = "leave" /\ UNCHANGED <<served, count>>
  BY DEF IInv, WaitDone, Goto, calls
<1>1. CASE RunDone
  <2>1. pc' = [pc EXCEPT ![c] = "idle"]
    BY <1>1 DEF WaitDone, Goto
  <2>2. c \in Busy /\ Busy' = Busy \ {c}
    BY <1>0, <2>1 DEF Busy, TypeOK, Threads
  <2>3. pc'[c] = "idle"
    BY <1>0, <2>1 DEF TypeOK, Threads
  <2>4. IInv'
    BY WaitDoneStep
  <2>5. \A i \in DOMAIN served[c] : served[c][i] = 1
    BY <1>0, <2>3, <2>4 DEF IInv, CallProgress, Progressed, TypeOK
  <2>6. Abstract!Return(c)
    BY <1>0, <2>2, <2>5 DEF Abstract!Return, Busy
  <2> QED BY <2>6 DEF Abstract!Next
<1>2. CASE ~RunDone
  <2>1. pc' = [pc EXCEPT ![c] = "block"]
    BY <1>2 DEF WaitDone, Goto
  <2> QED BY <1>0, <2>1, StutterStep DEF TypeOK, Threads
<1> QED BY <1>1, <1>2

LEMMA RefineNext == IInv /\ [Next]_vars => [Abstract!Next]_Abstract!vars
<1> SUFFICES ASSUME IInv, [Next]_vars PROVE [Abstract!Next]_Abstract!vars
  OBVIOUS
<1> USE PoolAssumption DEF Threads
<1>0. TypeOK /\ Roles
  BY DEF IInv
<1>1. ASSUME NEW c \in Callers, \E n \in Counts : Lookup(c, n) PROVE [Abstract!Next]_Abstract!vars
  BY <1>1, RefineLookup
<1>2. ASSUME NEW c \in Callers, Enter(c) \/ Publish(c) PROVE [Abstract!Next]_Abstract!vars
  BY <1>0, <1>2, StutterStep DEF Enter, Publish, Goto, calls, TypeOK
<1>3. ASSUME NEW c \in Callers, NotifyReady(c) PROVE [Abstract!Next]_Abstract!vars
  BY <1>0, <1>3, StutterStep DEF NotifyReady, calls, TypeOK
<1>4. ASSUME NEW c \in Callers, Run(c) PROVE [Abstract!Next]_Abstract!vars
  BY <1>2, <1>3, <1>4, RefineSerialServe, RefineWaitDone DEF Run
<1>5. ASSUME NEW w \in Workers, WaitReady(w) PROVE [Abstract!Next]_Abstract!vars
  <2>1. served' = served /\ \A c \in Callers : pc'[c] = pc[c]
    BY <1>0, <1>5 DEF WaitReady, Goto, calls, TypeOK
  <2> QED BY <2>1, StutterStep
<1>6. ASSUME NEW t \in Threads, NEW to \in {"top", "claim"}, NotifyDone(t, to),
             pc[t] \in {"leave", "signal"}, served' = served
      PROVE  [Abstract!Next]_Abstract!vars
  <2>1. pc \in [Threads -> PcValues] /\ to \in PcValues /\ pc[t] # "asleep" /\ pc[t] # "idle"
    BY <1>0, <1>6 DEF TypeOK, PcValues, InDrain
  <2>2. /\ pc'[t] = to
        /\ \A u \in Threads \ {t} :
             \/ pc'[u] = pc[u]
             \/ u \in Callers /\ pc[u] = "asleep" /\ pc'[u] = "leave"
    BY <1>6, <2>1, NotifyDoneMoves
  <2>3. \A c \in Callers : pc'[c] = "idle" <=> pc[c] = "idle"
    BY <2>1, <2>2
  <2> QED BY <1>6, <2>3, StutterStep
<1>a. ASSUME NEW w \in Workers, Leave(w) PROVE [Abstract!Next]_Abstract!vars
  BY <1>6, <1>a DEF Leave, calls
<1>b. ASSUME NEW t \in Threads, Signal(t) PROVE [Abstract!Next]_Abstract!vars
  BY <1>6, <1>b DEF Signal, calls
<1>7. ASSUME NEW t \in Threads, Claim(t) \/ Check(t) \/ Finish(t) \/ Block(t) \/ SpuriousWake(t)
      PROVE  [Abstract!Next]_Abstract!vars
  <2>1. /\ served' = served
        /\ \E to \in PcValues \ {"idle"} : pc' = [pc EXCEPT ![t] = to] /\ pc[t] # "idle"
    BY <1>7 DEF Claim, Check, Finish, Block, SpuriousWake, Goto, calls, PcValues, InDrain
  <2> QED BY <1>0, <2>1, StutterStep DEF TypeOK
<1>8. CASE UNCHANGED vars
  BY <1>8, StutterStep DEF vars, calls
<1> QED
  BY <1>1, <1>4, <1>5, <1>a, <1>b, <1>7, <1>8, RefineServe DEF Next, Drain

(* The pool implements ParallelFor: whatever the interleaving of workers   *)
(* and callers, a lookup handles each row once and returns at the end.     *)
THEOREM PoolImplementsParallelFor == Spec => ImplementsParallelFor
<1>1. Init => Abstract!Init
  BY PoolAssumption DEF Init, Abstract!Init, Threads
<1> QED BY <1>1, RefineNext, PoolInvariant, PTL DEF Spec, ImplementsParallelFor, Abstract!Spec

=============================================================================
