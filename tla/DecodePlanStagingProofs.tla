---------------------- MODULE DecodePlanStagingProofs ----------------------
(***************************************************************************)
(* With a ring of two slots or more, every allocation reads the rows of    *)
(* its own step, the host views of a step stay intact until its result is  *)
(* processed, and a slot is taken again only when its copy has drained.    *)
(*                                                                         *)
(* The scheduler is at most one step ahead of the result it last           *)
(* processed, so that only the last two steps prepared are alive; these    *)
(* have different slots.                                                   *)
(***************************************************************************)
EXTENDS DecodePlanStaging, SequenceTheorems, TLAPS

Operations == [op : {"copy", "alloc"}, step : Steps, gen : Gens, slot : Slots]

TypeInv ==
    /\ pc \in {"idle", "acquired", "shipped"} /\ plan \in Plans
    /\ capacity \in Nat /\ gen \in Gens /\ gen <= capacity
    /\ slot \in Slots /\ stale \in BOOLEAN
    /\ host \in [Gens -> [Slots -> Nat]] /\ gpu \in [Gens -> Nat]
    /\ view \in [Steps -> [gen : Gens, slot : Slots]]
    /\ sched \in Seq(Operations)
    /\ launched \in 0..MaxSteps /\ forwarded \in Nat /\ processed \in Nat

\* The last step whose rows are in the ring.
top == IF pc = "idle" THEN launched ELSE launched + 1

\* How far the scheduler is ahead.
Ahead ==
    /\ processed <= forwarded /\ forwarded <= launched
    /\ top <= MaxSteps /\ top - 2 <= processed

Intact(n) == host[view[n].gen][view[n].slot] = n

\* The last two steps lie in different slots of the ring, with their rows.
LastTwo ==
    /\ top >= 1 => view[top] = [gen |-> gen, slot |-> slot] /\ Intact(top)
    /\ top >= 2 => view[top - 1].slot # slot /\ Intact(top - 1)

\* An operation in the stream belongs to a step that has not run and uses that
\* step's buffers; an allocation comes right after its own step's copy.
Enqueued(i) ==
    /\ forwarded < sched[i].step
    /\ sched[i].step <= IF pc = "shipped" THEN launched + 1 ELSE launched
    /\ sched[i].gen = view[sched[i].step].gen
    /\ sched[i].op = "copy" => sched[i].slot = view[sched[i].step].slot

CopyFirst(i) ==
    sched[i].op = "alloc" =>
        IF i = 1 THEN gpu[sched[1].gen] = sched[1].step
        ELSE sched[i - 1].op = "copy" /\ sched[i - 1].step = sched[i].step

Stream == \A i \in 1..Len(sched) : Enqueued(i) /\ CopyFirst(i)

IInv == TypeInv /\ Ahead /\ LastTwo /\ Stream

----------------------------------------------------------------------------
LEMMA InitIInv == Init => IInv
  <1> SUFFICES ASSUME Init  PROVE IInv
    OBVIOUS
  <1> USE StagingAssumption
  <1>1. 0 \in Gens /\ 0 \in Slots /\ NoPlan \in Plans  BY DEF Gens, Slots, NoPlan, Plans
  <1>2. sched \in Seq(Operations) /\ Len(sched) = 0  BY EmptySeq DEF Init
  <1>3. TypeInv  BY <1>1, <1>2 DEF Init, TypeInv
  <1> QED BY <1>2, <1>3 DEF Init, IInv, Ahead, LastTwo, Stream, top

\* The next slot is another one.
LEMMA NextSlotDiffers ==
  ASSUME RING_DEPTH >= 2, NEW s \in Slots
  PROVE  NextSlot(s) \in Slots /\ NextSlot(s) # s
  <1>1. RING_DEPTH \in Nat /\ s \in Nat /\ s < RING_DEPTH  BY StagingAssumption DEF Slots
  <1>2. CASE s + 1 < RING_DEPTH
    <2>1. (s + 1) % RING_DEPTH = s + 1  BY <1>1, <1>2
    <2> QED BY <1>1, <1>2, <2>1 DEF NextSlot, Slots
  <1>3. CASE s + 1 = RING_DEPTH
    <2>1. (s + 1) % RING_DEPTH = 0  BY <1>1, <1>3
    <2> QED BY <1>1, <1>3, <2>1 DEF NextSlot, Slots
  <1> QED BY <1>1, <1>2, <1>3

\* A growth gives at least the capacity asked for.
LEMMA GrownEnough ==
  ASSUME NEW bs \in Nat, capacity \in Nat
  PROVE  Grown(bs) \in Nat /\ bs <= Grown(bs)
  <1> DEFINE C == {bs, MinCapacity, 2 * capacity}
  <1>1. C \subseteq Nat  BY StagingAssumption
  <1>2. \E c \in C : \A d \in C : d <= c
    <2>1. MinCapacity \in Nat /\ 2 * capacity \in Nat  BY StagingAssumption
    <2> QED BY <2>1
  <1>3. Grown(bs) \in C /\ \A d \in C : d <= Grown(bs)  BY <1>2 DEF Grown
  <1> QED BY <1>1, <1>3

LEMMA AcquireKeeps ==
  ASSUME RING_DEPTH >= 2, IInv, NEW p \in Plans, Acquire(p)
  PROVE  IInv'
  <1> USE StagingAssumption
  <1> TypeInv /\ Ahead /\ LastTwo /\ Stream  BY DEF IInv
  <1>1. /\ pc = "idle" /\ pc' = "acquired" /\ plan' = p /\ launched < MaxSteps /\ processed >= launched - 1
        /\ slot' = NextSlot(slot)
        /\ host' = [host EXCEPT ![gen'][slot'] = launched + 1]
        /\ view' = [view EXCEPT ![launched + 1] = [gen |-> gen', slot |-> slot']]
        /\ UNCHANGED <<gpu, sched, launched, forwarded, processed>>
    BY DEF Acquire
  <1>2. top = launched /\ top' = launched + 1  BY <1>1 DEF top
  <1>3. launched \in Nat /\ launched + 1 \in Steps /\ slot' \in Slots /\ slot' # slot
    BY <1>1, NextSlotDiffers DEF TypeInv, Steps
  <1>4. capacity' \in Nat /\ gen' \in Gens /\ gen' <= capacity' /\ stale' \in BOOLEAN
    <2>1. p.bs \in Nat /\ p.bs <= MaxBatch  BY DEF Plans
    <2>2. CASE p.bs > capacity
      <3>1. capacity' = Grown(p.bs) /\ gen' = gen + 1 /\ stale' = TRUE  BY <2>2 DEF Acquire
      <3>2. Grown(p.bs) \in Nat /\ p.bs <= Grown(p.bs)  BY <2>1, GrownEnough DEF TypeInv
      <3> QED BY <2>1, <2>2, <3>1, <3>2 DEF TypeInv, Gens
    <2>3. CASE ~(p.bs > capacity)  BY <2>3 DEF Acquire, TypeInv
    <2> QED BY <2>2, <2>3
  <1>5. /\ \A g \in Gens, s \in Slots : host'[g][s] = IF g = gen' /\ s = slot' THEN launched + 1 ELSE host[g][s]
        /\ host' \in [Gens -> [Slots -> Nat]]
    <2> DEFINE row == [host[gen'] EXCEPT ![slot'] = launched + 1]
    <2>1. host' = [host EXCEPT ![gen'] = row]  BY <1>1
    <2>2. /\ row \in [Slots -> Nat]
          /\ \A s \in Slots : row[s] = IF s = slot' THEN launched + 1 ELSE host[gen'][s]
      BY <1>3, <1>4 DEF TypeInv
    <2> HIDE DEF row
    <2>3. \A g \in Gens : host'[g] = IF g = gen' THEN row ELSE host[g]  BY <1>4, <2>1 DEF TypeInv
    <2>4. host' \in [Gens -> [Slots -> Nat]]  BY <1>4, <2>1, <2>2 DEF TypeInv
    <2> QED BY <2>2, <2>3, <2>4
  <1>6. /\ \A n \in Steps : view'[n] = IF n = launched + 1 THEN [gen |-> gen', slot |-> slot'] ELSE view[n]
        /\ view' \in [Steps -> [gen : Gens, slot : Slots]]
    BY <1>1, <1>3, <1>4 DEF TypeInv
  <1>7. TypeInv'  BY <1>1, <1>3, <1>4, <1>5, <1>6 DEF TypeInv
  <1>8. Ahead'  BY <1>1, <1>2, <1>3 DEF Ahead, TypeInv
  <1>9. LastTwo'
    <2>1. view'[launched + 1] = [gen |-> gen', slot |-> slot'] /\ host'[gen'][slot'] = launched + 1
      BY <1>3, <1>4, <1>5, <1>6
    <2>2. launched >= 1 => /\ view'[launched] = [gen |-> gen, slot |-> slot]
                           /\ host'[gen][slot] = launched
      <3> SUFFICES ASSUME launched >= 1
                   PROVE  view'[launched] = [gen |-> gen, slot |-> slot] /\ host'[gen][slot] = launched
        OBVIOUS
      <3>1. launched \in Steps /\ launched # launched + 1  BY <1>3 DEF Steps
      <3>2. view[launched] = [gen |-> gen, slot |-> slot] /\ host[gen][slot] = launched
        BY <1>2 DEF LastTwo, Intact
      <3>3. gen \in Gens /\ slot \in Slots  BY DEF TypeInv
      <3> QED BY <1>3, <1>5, <1>6, <3>1, <3>2, <3>3
    <2>3. launched + 1 >= 2 => launched >= 1 /\ (launched + 1) - 1 = launched  BY <1>3
    <2> QED BY <1>2, <1>3, <2>1, <2>2, <2>3 DEF LastTwo, Intact
  <1>10. Stream'
    <2> SUFFICES ASSUME NEW i \in 1..Len(sched)  PROVE (Enqueued(i) /\ CopyFirst(i))'
      BY <1>1 DEF Stream
    <2>1. Enqueued(i) /\ CopyFirst(i)  BY DEF Stream
    <2>2. sched[i] \in Operations  BY ElementOfSeq DEF TypeInv
    <2>3. sched[i].step \in Steps /\ sched[i].step <= launched /\ view'[sched[i].step] = view[sched[i].step]
      BY <1>1, <1>3, <1>6, <2>1, <2>2 DEF Enqueued, Operations, Steps
    <2>4. Enqueued(i)'  BY <1>1, <2>1, <2>3 DEF Enqueued
    <2>5. CopyFirst(i)'  BY <1>1, <2>1 DEF CopyFirst
    <2> QED BY <2>4, <2>5
  <1> QED BY <1>7, <1>8, <1>9, <1>10 DEF IInv

\* What a step enqueues: nothing, its copy, or its copy and its allocation.
LEMMA ShipEnqueues ==
  ASSUME TypeInv, Ship, launched + 1 \in Steps
  PROVE  LET c == Copy(launched + 1, gen, slot)
             a == Alloc(launched + 1, gen)
         IN  sched' = sched \/ sched' = Append(sched, c) \/ sched' = Append(Append(sched, c), a)
  <1> DEFINE c == Copy(launched + 1, gen, slot)
             a == Alloc(launched + 1, gen)
             copy == IF Dirty \/ Checking THEN <<c>> ELSE <<>>
             alloc == IF plan.needed THEN <<a>> ELSE <<>>
  <1>1. c \in Operations /\ a \in Operations /\ sched \in Seq(Operations)
    BY StagingAssumption DEF TypeInv, Operations, Copy, Alloc, Slots
  <1>2. sched' = sched \o copy \o alloc  BY DEF Ship
  <1>3. plan.needed => Dirty  BY DEF Dirty
  <1>4. \A s \in Seq(Operations) : s \o <<>> = s /\ s \o <<c>> = Append(s, c) /\ s \o <<a>> = Append(s, a)
    <2> HIDE DEF c, a
    <2> QED BY <1>1, ConcatEmptySeq
  <1>5. Append(sched, c) \in Seq(Operations)
    <2> HIDE DEF c
    <2> QED BY <1>1, AppendProperties
  <1>6. CASE plan.needed
    <2>1. copy = <<c>> /\ alloc = <<a>>  BY <1>3, <1>6
    <2>2. sched' = (sched \o <<c>>) \o <<a>>  BY <1>2, <2>1
    <2> QED BY <1>1, <1>4, <1>5, <2>2
  <1>7. CASE ~plan.needed
    <2>1. alloc = <<>> /\ (copy = <<c>> \/ copy = <<>>)  BY <1>7
    <2>2. sched' = (sched \o <<c>>) \o <<>> \/ sched' = (sched \o <<>>) \o <<>>  BY <1>2, <2>1
    <2> QED BY <1>1, <1>4, <1>5, <2>2
  <1> QED BY <1>6, <1>7

LEMMA ShipKeeps ==
  ASSUME IInv, Ship
  PROVE  IInv'
  <1> USE StagingAssumption
  <1> TypeInv /\ Ahead /\ LastTwo /\ Stream  BY DEF IInv
  <1>1. /\ pc = "acquired" /\ pc' = "shipped" /\ stale' \in BOOLEAN
        /\ UNCHANGED <<plan, capacity, gen, slot, host, gpu, view, launched, forwarded, processed>>
    BY DEF Ship, TypeInv
  <1>2. top = launched + 1 /\ top' = launched + 1 /\ launched \in Nat /\ forwarded \in Nat
    BY <1>1 DEF top, TypeInv
  <1>3. launched + 1 \in Steps  BY <1>2 DEF Ahead, Steps
  <1> DEFINE c == Copy(launched + 1, gen, slot)
             a == Alloc(launched + 1, gen)
  <1>4. /\ c \in Operations /\ c.op = "copy" /\ c.step = launched + 1 /\ c.gen = gen /\ c.slot = slot
        /\ a \in Operations /\ a.op = "alloc" /\ a.step = launched + 1 /\ a.gen = gen
    BY <1>3 DEF TypeInv, Operations, Copy, Alloc, Slots
  <1>5. sched' = sched \/ sched' = Append(sched, c) \/ sched' = Append(Append(sched, c), a)
    BY <1>3, ShipEnqueues
  <1> HIDE DEF c, a
  <1>6. /\ Len(sched) \in Nat
        /\ Append(sched, c) \in Seq(Operations) /\ Len(Append(sched, c)) = Len(sched) + 1
        /\ \A i \in 1..Len(sched) : Append(sched, c)[i] = sched[i]
        /\ Append(sched, c)[Len(sched) + 1] = c
    BY <1>4, AppendProperties, LenProperties DEF TypeInv
  <1>7. /\ Append(Append(sched, c), a) \in Seq(Operations)
        /\ Len(Append(Append(sched, c), a)) = Len(sched) + 2
        /\ \A i \in 1..Len(sched) : Append(Append(sched, c), a)[i] = sched[i]
        /\ Append(Append(sched, c), a)[Len(sched) + 1] = c
        /\ Append(Append(sched, c), a)[Len(sched) + 2] = a
    <2> DEFINE t == Append(sched, c)
    <2> HIDE DEF t
    <2>1. /\ Append(t, a) \in Seq(Operations) /\ Len(Append(t, a)) = Len(t) + 1
          /\ \A i \in 1..Len(t) : Append(t, a)[i] = t[i]
          /\ Append(t, a)[Len(t) + 1] = a
      BY <1>4, <1>6, AppendProperties DEF t
    <2>2. Len(t) = Len(sched) + 1 /\ \A i \in 1..Len(sched) : t[i] = sched[i]  BY <1>6 DEF t
    <2>3. t[Len(sched) + 1] = c  BY <1>6 DEF t
    <2>4. /\ Append(t, a) \in Seq(Operations) /\ Len(Append(t, a)) = Len(sched) + 2
          /\ \A i \in 1..Len(sched) : Append(t, a)[i] = sched[i]
          /\ Append(t, a)[Len(sched) + 1] = c /\ Append(t, a)[Len(sched) + 2] = a
      BY <1>6, <2>1, <2>2, <2>3
    <2> QED BY <2>4 DEF t
  <1>8. /\ sched' \in Seq(Operations) /\ Len(sched') \in Nat
        /\ \A i \in 1..Len(sched) : sched'[i] = sched[i]
        /\ Len(sched') \in Len(sched)..(Len(sched) + 2)
        /\ Len(sched') > Len(sched) => sched'[Len(sched) + 1] = c
        /\ Len(sched') > Len(sched) + 1 => sched'[Len(sched) + 2] = a
    <2>1. CASE sched' = sched  BY <1>6, <2>1 DEF TypeInv
    <2>2. CASE sched' = Append(sched, c)  BY <1>6, <2>2
    <2>3. CASE sched' = Append(Append(sched, c), a)  BY <1>6, <1>7, <2>3
    <2> QED BY <1>5, <2>1, <2>2, <2>3
  <1>9. TypeInv'  BY <1>1, <1>8 DEF TypeInv
  <1>10. Ahead' /\ LastTwo'  BY <1>1, <1>2 DEF Ahead, LastTwo, Intact
  <1>11. Stream'
    <2> SUFFICES ASSUME NEW i \in 1..Len(sched')  PROVE (Enqueued(i) /\ CopyFirst(i))'
      BY DEF Stream
    <2>1. view[launched + 1] = [gen |-> gen, slot |-> slot]  BY <1>2 DEF LastTwo
    <2>2. CASE i <= Len(sched)
      <3>1. i \in 1..Len(sched) /\ sched'[i] = sched[i] /\ (i # 1 => sched'[i - 1] = sched[i - 1])
            /\ sched'[1] = sched[1]
        BY <1>6, <1>8, <2>2
      <3>2. Enqueued(i) /\ CopyFirst(i) /\ sched[i].step \in Nat
        <4>1. sched[i] \in Operations  BY <3>1, ElementOfSeq DEF TypeInv
        <4> QED BY <3>1, <4>1 DEF Stream, Operations, Steps
      <3>3. Enqueued(i)'  BY <1>1, <1>2, <3>1, <3>2 DEF Enqueued
      <3>4. CopyFirst(i)'  BY <1>1, <3>1, <3>2 DEF CopyFirst
      <3> QED BY <3>3, <3>4
    <2>3. CASE i = Len(sched) + 1
      <3>1. sched'[i] = c  BY <1>6, <1>8, <2>3
      <3>2. Enqueued(i)'  BY <1>1, <1>2, <1>4, <2>1, <3>1 DEF Enqueued, Ahead
      <3>3. CopyFirst(i)'  BY <1>4, <3>1 DEF CopyFirst
      <3> QED BY <3>2, <3>3
    <2>4. CASE i = Len(sched) + 2
      <3>1. sched'[i] = a /\ sched'[i - 1] = c /\ i # 1  BY <1>6, <1>8, <2>4
      <3>2. Enqueued(i)'  BY <1>1, <1>2, <1>4, <2>1, <3>1 DEF Enqueued, Ahead
      <3>3. CopyFirst(i)'  BY <1>4, <3>1 DEF CopyFirst
      <3> QED BY <3>2, <3>3
    <2> QED BY <1>6, <1>8, <2>2, <2>3, <2>4
  <1> QED BY <1>9, <1>10, <1>11 DEF IInv

LEMMA LaunchKeeps ==
  ASSUME IInv, Launch
  PROVE  IInv'
  <1> TypeInv /\ Ahead /\ LastTwo /\ Stream  BY DEF IInv
  <1>1. /\ pc = "shipped" /\ pc' = "idle" /\ launched' = launched + 1
        /\ UNCHANGED <<plan, capacity, gen, slot, stale, host, gpu, view, sched, forwarded, processed>>
    BY DEF Launch
  <1>2. top = launched + 1 /\ top' = launched + 1 /\ launched \in Nat /\ MaxSteps \in Nat
    BY <1>1, StagingAssumption DEF top, TypeInv
  <1>3. TypeInv'  BY <1>1, <1>2 DEF TypeInv, Ahead
  <1>4. Ahead'  BY <1>1, <1>2 DEF Ahead, TypeInv
  <1>5. LastTwo'  BY <1>1, <1>2 DEF LastTwo, Intact
  <1>6. Stream'
    <2> SUFFICES ASSUME NEW i \in 1..Len(sched)  PROVE (Enqueued(i) /\ CopyFirst(i))'
      BY <1>1 DEF Stream
    <2>1. Enqueued(i) /\ CopyFirst(i)  BY DEF Stream
    <2> QED BY <1>1, <2>1 DEF Enqueued, CopyFirst
  <1> QED BY <1>3, <1>4, <1>5, <1>6 DEF IInv

LEMMA ProcessKeeps ==
  ASSUME IInv, Process
  PROVE  IInv'
  <1> TypeInv /\ Ahead /\ LastTwo /\ Stream  BY DEF IInv
  <1>1. /\ processed < forwarded /\ processed' = processed + 1
        /\ UNCHANGED <<pc, plan, capacity, gen, slot, stale, host, gpu, view, sched, launched, forwarded>>
    BY DEF Process
  <1>2. TypeInv'  BY <1>1 DEF TypeInv
  <1>3. Ahead'  BY <1>1 DEF Ahead, top, TypeInv
  <1>4. LastTwo'  BY <1>1 DEF LastTwo, Intact, top
  <1>5. Stream'  BY <1>1 DEF Stream, Enqueued, CopyFirst
  <1> QED BY <1>2, <1>3, <1>4, <1>5 DEF IInv

\* An operation in the stream is of one of the last two steps, whose rows are
\* in the ring.
LEMMA EnqueuedIntact ==
  ASSUME IInv, NEW i \in 1..Len(sched)
  PROVE  sched[i].step \in Steps /\ Intact(sched[i].step)
  <1> TypeInv /\ Ahead /\ LastTwo /\ Stream  BY DEF IInv
  <1>1. sched[i] \in Operations  BY ElementOfSeq DEF TypeInv
  <1>2. Enqueued(i)  BY DEF Stream
  <1>3. sched[i].step \in Steps  BY <1>1 DEF Operations
  <1>4. /\ sched[i].step \in Nat /\ sched[i].step >= 1
        /\ launched \in Nat /\ processed \in Nat /\ forwarded \in Nat
    BY <1>3, StagingAssumption DEF Steps, TypeInv
  <1>5. sched[i].step = top \/ sched[i].step = top - 1
    BY <1>2, <1>4 DEF Enqueued, Ahead, top
  <1>6. top \in Nat  BY <1>4 DEF top
  <1> QED BY <1>3, <1>4, <1>5, <1>6 DEF LastTwo

LEMMA DeviceKeeps ==
  ASSUME IInv, DeviceOp
  PROVE  IInv'
  <1> TypeInv /\ Ahead /\ LastTwo /\ Stream  BY DEF IInv
  <1> DEFINE o == Head(sched)
  <1>1. /\ sched # <<>> /\ sched' = Tail(sched)
        /\ gpu' = IF o.op = "copy" THEN [gpu EXCEPT ![o.gen] = host[o.gen][o.slot]] ELSE gpu
        /\ UNCHANGED <<pc, plan, capacity, gen, slot, stale, host, view, launched, forwarded, processed>>
    BY DEF DeviceOp
  <1>2. /\ Len(sched) \in Nat /\ Len(sched) > 0 /\ o = sched[1] /\ o \in Operations
        /\ sched' \in Seq(Operations) /\ Len(sched') = Len(sched) - 1
        /\ \A i \in 1..Len(sched') : sched'[i] = sched[i + 1]
    BY <1>1, HeadTailProperties, LenProperties, EmptySeq DEF TypeInv
  <1> HIDE DEF o
  <1>3. o.op \in {"copy", "alloc"} /\ o.gen \in Gens /\ o.slot \in Slots /\ o.step \in Steps
    BY <1>2 DEF Operations
  <1>4. gpu' \in [Gens -> Nat]  BY <1>1, <1>3 DEF TypeInv
  <1>5. TypeInv'  BY <1>1, <1>2, <1>4 DEF TypeInv
  <1>6. Ahead' /\ LastTwo'  BY <1>1 DEF Ahead, LastTwo, Intact, top
  <1>7. o.op = "copy" => gpu'[o.gen] = o.step
    <2>1. 1 \in 1..Len(sched)  BY <1>2
    <2>2. Enqueued(1) /\ Intact(o.step)  BY <1>2, <2>1, EnqueuedIntact DEF Stream
    <2> QED BY <1>1, <1>2, <1>3, <2>2 DEF Enqueued, Intact, TypeInv
  <1>8. Stream'
    <2> SUFFICES ASSUME NEW i \in 1..Len(sched')  PROVE (Enqueued(i) /\ CopyFirst(i))'
      BY DEF Stream
    <2>1. /\ i + 1 \in 1..Len(sched) /\ i + 1 # 1 /\ (i + 1) - 1 = i
          /\ sched'[i] = sched[i + 1] /\ (i # 1 => sched'[i - 1] = sched[i])
      BY <1>2
    <2>2. Enqueued(i + 1) /\ CopyFirst(i + 1)  BY <2>1 DEF Stream
    <2>3. sched[i + 1].op = "alloc" => sched[i].op = "copy" /\ sched[i].step = sched[i + 1].step
      BY <2>1, <2>2 DEF CopyFirst
    <2>4. Enqueued(i)'  BY <1>1, <2>1, <2>2 DEF Enqueued
    <2>5. CASE i # 1
      <3>1. CopyFirst(i)'  BY <2>1, <2>3, <2>5 DEF CopyFirst
      <3> QED BY <2>4, <3>1
    <2>6. CASE i = 1
      <3>1. sched[2].op = "alloc" => o.op = "copy" /\ o.step = sched[2].step  BY <1>2, <2>3, <2>6
      <3>2. sched[2].gen = view[sched[2].step].gen  BY <2>2, <2>6 DEF Enqueued
      <3>3. o.gen = view[o.step].gen
        <4>1. 1 \in 1..Len(sched)  BY <1>2
        <4> QED BY <1>2, <4>1 DEF Stream, Enqueued
      <3>4. sched'[1] = sched[2]  BY <2>1, <2>6
      <3>5. CopyFirst(1)'  BY <1>7, <3>1, <3>2, <3>3, <3>4 DEF CopyFirst
      <3> QED BY <2>4, <2>6, <3>5
    <2> QED BY <2>5, <2>6
  <1> QED BY <1>5, <1>6, <1>8 DEF IInv

LEMMA ForwardKeeps ==
  ASSUME IInv, Forward
  PROVE  IInv'
  <1> TypeInv /\ Ahead /\ LastTwo /\ Stream  BY DEF IInv
  <1>1. /\ forwarded < launched /\ forwarded' = forwarded + 1
        /\ \A i \in DOMAIN sched : sched[i].step > forwarded + 1
        /\ UNCHANGED <<pc, plan, capacity, gen, slot, stale, host, gpu, view, sched, launched, processed>>
    BY DEF Forward
  <1>2. TypeInv'  BY <1>1 DEF TypeInv
  <1>3. Ahead' /\ LastTwo'  BY <1>1 DEF Ahead, LastTwo, Intact, top, TypeInv
  <1>4. Stream'
    <2> SUFFICES ASSUME NEW i \in 1..Len(sched)  PROVE (Enqueued(i) /\ CopyFirst(i))'
      BY <1>1 DEF Stream
    <2>1. Enqueued(i) /\ CopyFirst(i)  BY DEF Stream
    <2>2. i \in DOMAIN sched  BY LenProperties DEF TypeInv
    <2> QED BY <1>1, <2>1, <2>2 DEF Enqueued, CopyFirst
  <1> QED BY <1>2, <1>3, <1>4 DEF IInv

LEMMA NextIInv ==
  ASSUME RING_DEPTH >= 2, IInv, [Next]_vars
  PROVE  IInv'
  <1>1. CASE UNCHANGED vars
    BY <1>1 DEF vars, IInv, TypeInv, Ahead, top, LastTwo, Intact, Stream, Enqueued, CopyFirst
  <1> QED BY <1>1, AcquireKeeps, ShipKeeps, LaunchKeeps, ProcessKeeps, DeviceKeeps, ForwardKeeps DEF Next

----------------------------------------------------------------------------
(* AllocReadsOwnPlan for every ring of two slots or more, every batch and  *)
(* capacity: the copies that ship() leaves out are never missed            *)
(* (dflash_info_v2.py DecodePlanStaging).                                  *)
THEOREM AllocsReadOwnPlan ==
  ASSUME RING_DEPTH >= 2
  PROVE  Spec => []AllocReadsOwnPlan
  <1>1. IInv => AllocReadsOwnPlan
    <2> SUFFICES ASSUME IInv, sched # <<>>, Head(sched).op = "alloc"
                 PROVE  gpu[Head(sched).gen] = Head(sched).step
      BY DEF AllocReadsOwnPlan
    <2>1. Len(sched) \in Nat /\ Len(sched) > 0 /\ Head(sched) = sched[1]
      BY LenProperties, EmptySeq DEF IInv, TypeInv
    <2>2. CopyFirst(1)  BY <2>1 DEF IInv, Stream
    <2> QED BY <2>1, <2>2 DEF CopyFirst
  <1>2. IInv /\ [Next]_vars => IInv'  BY NextIInv
  <1> QED BY <1>1, <1>2, InitIInv, PTL DEF Spec

(* HostViewsIntact for the same rings: the views handed out for a step     *)
(* keep its rows until its result is processed.                            *)
THEOREM HostViewsStayIntact ==
  ASSUME RING_DEPTH >= 2
  PROVE  Spec => []HostViewsIntact
  <1>1. IInv => HostViewsIntact
    <2> SUFFICES ASSUME IInv, NEW n \in Steps, processed < n, n <= launched  PROVE Intact(n)
      BY DEF HostViewsIntact, Intact
    <2>1. n = top \/ n = top - 1
      BY StagingAssumption DEF IInv, Ahead, top, TypeInv, Steps
    <2>2. n >= 1 /\ top \in Nat  BY StagingAssumption DEF IInv, top, TypeInv, Steps
    <2> QED BY <2>1, <2>2 DEF IInv, LastTwo
  <1>2. IInv /\ [Next]_vars => IInv'  BY NextIInv
  <1> QED BY <1>1, <1>2, InitIInv, PTL DEF Spec

(* SlotDrained for the same rings: acquire() takes a slot again only when  *)
(* no copy from it is waiting in the stream.                               *)
THEOREM SlotsDrained ==
  ASSUME RING_DEPTH >= 2
  PROVE  Spec => SlotDrained
  <1> DEFINE Drained == slot' # slot => \A i \in DOMAIN sched :
                           ~(sched[i].op = "copy" /\ sched[i].gen = gen' /\ sched[i].slot = slot')
  <1>1. IInv /\ [Next]_vars => [Drained]_vars
    <2> SUFFICES ASSUME IInv, Next, slot' # slot, NEW i \in DOMAIN sched,
                        sched[i].op = "copy", sched[i].slot = slot'
                 PROVE  FALSE
      OBVIOUS
    <2>1. PICK p \in Plans : Acquire(p)
      BY DEF Next, Ship, Launch, Process, DeviceOp, Forward
    <2>2. pc = "idle" /\ processed >= launched - 1 /\ slot' = NextSlot(slot)  BY <2>1 DEF Acquire
    <2>3. i \in 1..Len(sched)  BY LenProperties DEF IInv, TypeInv
    <2>4. Enqueued(i) /\ sched[i].step \in Steps  BY <2>3, EnqueuedIntact DEF IInv, Stream
    <2>5. sched[i].step = top /\ top >= 1
      <3>1. /\ sched[i].step \in Nat /\ sched[i].step >= 1
            /\ launched \in Nat /\ processed \in Nat /\ forwarded \in Nat
        BY <2>4, StagingAssumption DEF Steps, IInv, TypeInv
      <3> QED BY <2>2, <2>4, <3>1 DEF Enqueued, IInv, Ahead, top
    <2>6. sched[i].slot = slot  BY <2>4, <2>5 DEF Enqueued, IInv, LastTwo
    <2>7. slot' # slot  BY <2>2, NextSlotDiffers DEF IInv, TypeInv
    <2> QED BY <2>6, <2>7
  <1>2. IInv /\ [Next]_vars => IInv'  BY NextIInv
  <1> QED BY <1>1, <1>2, InitIInv, PTL DEF Spec, SlotDrained
=============================================================================
