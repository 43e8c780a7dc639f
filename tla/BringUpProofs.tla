--------------------------- MODULE BringUpProofs ---------------------------
(***************************************************************************)
(* What boot.py and start.sh promise while the stack comes up.  First the  *)
(* preparation: for any number of files, blocks, revisions and writes,     *)
(* verify() returns only for a whole file, and the receipt is honest.      *)
(* Then the cluster: for any number of workers, faults and commands, no    *)
(* serve starts the head without the workers.                              *)
(***************************************************************************)
EXTENDS Prepare, Cluster, TLAPS

(* The block the hash reads next exists. *)
LEMMA NextBlock ==
    ASSUME TypeOK, NEW f \in Files, pc[f] = "read"
    PROVE  /\ sum[f] \in Seq(Revisions) /\ Len(sum[f]) \in Nat
           /\ Len(sum[f]) + 1 \in 1..Blocks
           /\ content[f] \in [1..Blocks -> Revisions]
           /\ content[f][Len(sum[f]) + 1] \in Revisions
<1>1. sum[f] \in Seq(Revisions) /\ Len(sum[f]) < Blocks BY DEF TypeOK
<1>2. content[f] \in [1..Blocks -> Revisions] BY DEF TypeOK
<1>3. Len(sum[f]) \in Nat BY <1>1
<1>4. Len(sum[f]) + 1 \in 1..Blocks BY <1>1, <1>3, SizesAssumption
<1> QED BY <1>1, <1>2, <1>3, <1>4

(* What a boot that goes down leaves. *)
LEMMA DownStep ==
    ASSUME IInv, Down, UNCHANGED <<content, stamp, clock, receipt, revision>>
    PROVE  IInv'
<1>1. TypeOK'
  BY SizesAssumption DEF IInv, TypeOK, Down, None
<1>2. PhaseInv' /\ HashInv' /\ OkInv'
  BY DEF PhaseInv, HashInv, OkInv, Down
<1>3. ReceiptHonest'
  BY DEF IInv, ReceiptHonest
<1> QED BY <1>1, <1>2, <1>3 DEF IInv

(* A write gives the file an identity no entry has. *)
LEMMA WriteStep ==
    ASSUME IInv, NEW f \in Files, Stamped(f), clock < MaxStamp,
           NEW c \in [1..Blocks -> Revisions], content' = [content EXCEPT ![f] = c],
           touched' \in {touched, touched \cup {f}}, pc[f] = "ok" => f \in touched',
           UNCHANGED <<receipt, revision, phase, pc, before, sum>>
    PROVE  IInv'
<1>0. TypeOK /\ PhaseInv /\ HashInv /\ OkInv /\ ReceiptHonest BY DEF IInv
<1>1. /\ clock \in 1..MaxStamp /\ stamp \in [Files -> 1..clock] /\ before \in [Files -> 0..clock]
      /\ receipt.files \in [Files -> 0..clock] /\ content \in [Files -> [1..Blocks -> Revisions]]
  BY <1>0 DEF TypeOK
<1>2. clock' = clock + 1 /\ stamp' = [stamp EXCEPT ![f] = clock + 1] BY DEF Stamped
<1>3. clock' \in 1..MaxStamp BY <1>1, <1>2, SizesAssumption
<1>4. stamp' \in [Files -> 1..clock'] /\ before' \in [Files -> 0..clock'] /\ (receipt.files)' \in [Files -> 0..clock']
  BY <1>1, <1>2
<1>5. content' \in [Files -> [1..Blocks -> Revisions]] BY <1>1
<1>6. TypeOK'
  BY <1>0, <1>3, <1>4, <1>5 DEF TypeOK
<1>7. stamp'[f] # before[f] /\ stamp'[f] # receipt.files[f]
  BY <1>1, <1>2
<1>8. \A g \in Files : g # f => stamp'[g] = stamp[g] /\ content'[g] = content[g]
  BY <1>1, <1>2
<1>9. PhaseInv' BY <1>0 DEF PhaseInv
<1>10. HashInv' BY <1>0, <1>7, <1>8 DEF HashInv
<1>11. OkInv' BY <1>0, <1>7, <1>8 DEF OkInv
<1>12. ReceiptHonest' BY <1>0, <1>7, <1>8 DEF ReceiptHonest
<1> QED BY <1>6, <1>9, <1>10, <1>11, <1>12 DEF IInv

(* IInv is inductive. *)
THEOREM PrepareInvariant == Spec => []IInv
<1>1. Init => IInv
  <2> SUFFICES ASSUME Init PROVE IInv OBVIOUS
  <2>1. TypeOK BY SizesAssumption DEF Init, TypeOK, None
  <2>2. PhaseInv /\ HashInv /\ OkInv BY DEF Init, PhaseInv, HashInv, OkInv
  <2>3. ReceiptHonest BY DEF Init, ReceiptHonest, None
  <2> QED BY <2>1, <2>2, <2>3 DEF IInv
<1>2. IInv /\ [Next]_vars => IInv'
  <2> SUFFICES ASSUME IInv, [Next]_vars PROVE IInv' OBVIOUS
  <2>0. TypeOK /\ PhaseInv /\ HashInv /\ OkInv /\ ReceiptHonest BY DEF IInv
  <2>1. CASE Start
    <3>1. TypeOK' BY <2>0, <2>1 DEF TypeOK, Start
    <3>2. \A f \in Files : pc'[f] = "idle" BY <2>0, <2>1 DEF PhaseInv, Start
    <3>3. PhaseInv' /\ HashInv' /\ OkInv' BY <3>2 DEF PhaseInv, HashInv, OkInv
    <3>4. ReceiptHonest' BY <2>0, <2>1 DEF ReceiptHonest, Start
    <3> QED BY <3>1, <3>3, <3>4 DEF IInv
  <2>2. CASE Downloaded
    <3>1. TypeOK' BY <2>0, <2>2 DEF TypeOK, Downloaded
    <3>2. \A f \in Files : pc'[f] = "stat" BY <2>2 DEF Downloaded
    <3>3. PhaseInv' BY <2>2 DEF PhaseInv, Downloaded
    <3>4. HashInv' /\ OkInv' BY <3>2 DEF HashInv, OkInv
    <3>5. ReceiptHonest' BY <2>0, <2>2 DEF ReceiptHonest, Downloaded
    <3> QED BY <3>1, <3>3, <3>4, <3>5 DEF IInv
  <2>3. CASE Save
    <3>1. TypeOK' BY <2>0, <2>3 DEF TypeOK, Save
    <3>2. PhaseInv' /\ HashInv' /\ OkInv' BY <2>0, <2>3 DEF PhaseInv, HashInv, OkInv, Save
    <3>3. receipt'.files = before /\ receipt'.revision = revision BY <2>3 DEF Save
    <3>4. \A f \in Files : pc[f] = "ok" BY <2>3 DEF Save, AllVerified
    <3>5. stamp' = stamp /\ content' = content BY <2>3 DEF Save
    <3>6. ReceiptHonest' BY <2>0, <3>3, <3>4, <3>5 DEF ReceiptHonest, OkInv
    <3> QED BY <3>1, <3>2, <3>6 DEF IInv
  <2>4. CASE SkipVerify
    <3>1. TypeOK' BY <2>0, <2>4 DEF TypeOK, SkipVerify
    <3>2. PhaseInv' /\ HashInv' /\ OkInv' BY <2>0, <2>4 DEF PhaseInv, HashInv, OkInv, SkipVerify
    <3>3. ReceiptHonest' BY <2>0, <2>4 DEF ReceiptHonest, SkipVerify
    <3> QED BY <3>1, <3>2, <3>3 DEF IInv
  <2>5. CASE Killed BY <2>5, DownStep DEF Killed
  <2>6. ASSUME NEW f \in Files, Fetch(f) PROVE IInv'
    <3>1. [b \in 1..Blocks |-> revision] \in [1..Blocks -> Revisions] BY <2>0 DEF TypeOK
    <3>2. pc[f] # "ok" BY <2>0, <2>6 DEF PhaseInv, Fetch
    <3> QED BY <3>1, <3>2, <2>6, WriteStep DEF Fetch
  <2>7. ASSUME NEW f \in Files, ForeignWrite(f) PROVE IInv'
    <3>1. PICK b \in 1..Blocks, r \in Revisions : content' = [content EXCEPT ![f][b] = r]
      BY <2>7 DEF ForeignWrite
    <3>2. [content[f] EXCEPT ![b] = r] \in [1..Blocks -> Revisions] BY <2>0 DEF TypeOK
    <3>3. content' = [content EXCEPT ![f] = [content[f] EXCEPT ![b] = r]] BY <3>1
    <3>4. touched' \in {touched, touched \cup {f}} /\ (pc[f] = "ok" => f \in touched')
      BY <2>7 DEF ForeignWrite
    <3>5. Stamped(f) /\ clock < MaxStamp /\ UNCHANGED <<receipt, revision, phase, pc, before, sum>>
      BY <2>7 DEF ForeignWrite
    <3> HIDE <3>1
    <3> QED BY <3>2, <3>3, <3>4, <3>5, WriteStep
  <2>8. ASSUME NEW f \in Files, Stat(f) PROVE IInv'
    <3>0. /\ before' = [before EXCEPT ![f] = stamp[f]] /\ sum' = [sum EXCEPT ![f] = <<>>]
          /\ pc' = [pc EXCEPT ![f] = IF Cached(f) THEN "ok" ELSE "read"] /\ phase = "verify"
          /\ UNCHANGED <<content, stamp, clock, receipt, revision, phase, touched>>
      BY <2>8 DEF Stat
    <3>1. TypeOK'
      <4>1. before' \in [Files -> 0..clock'] BY <2>0, <3>0 DEF TypeOK
      <4>2. sum' \in [Files -> Seq(Revisions)] /\ sum'[f] = <<>> BY <2>0, <3>0 DEF TypeOK
      <4>3. pc' \in [Files -> {"idle", "stat", "read", "compare", "ok"}] BY <2>0, <3>0 DEF TypeOK
      <4>4. \A g \in Files : pc'[g] = "read" => Len(sum'[g]) < Blocks
        BY <2>0, <3>0, <4>2, SizesAssumption DEF TypeOK
      <4> QED BY <2>0, <3>0, <4>1, <4>2, <4>3, <4>4 DEF TypeOK
    <3>2. pc \in [Files -> {"idle", "stat", "read", "compare", "ok"}] /\ sum \in [Files -> Seq(Revisions)] /\ before \in [Files -> 0..clock]
      BY <2>0 DEF TypeOK
    <3>3. PhaseInv' BY <3>0 DEF PhaseInv
    <3>4. HashInv' BY <2>0, <3>0, <3>2 DEF HashInv
    <3>5. Cached(f) => \A b \in 1..Blocks : content[f][b] = revision
      BY <2>0 DEF Cached, ReceiptHonest
    <3>6. OkInv' BY <2>0, <3>0, <3>2, <3>5 DEF OkInv
    <3>7. ReceiptHonest' BY <2>0, <3>0 DEF ReceiptHonest
    <3> QED BY <3>1, <3>3, <3>4, <3>6, <3>7 DEF IInv
  <2>9. ASSUME NEW f \in Files, Read(f) PROVE IInv'
    <3>0. /\ pc[f] = "read" /\ phase = "verify"
          /\ sum' = [sum EXCEPT ![f] = Append(sum[f], content[f][Len(sum[f]) + 1])]
          /\ pc' = [pc EXCEPT ![f] = IF Len(sum[f]) + 1 = Blocks THEN "compare" ELSE "read"]
          /\ UNCHANGED <<content, stamp, clock, receipt, revision, phase, before, touched>>
      BY <2>9 DEF Read
    <3>1. /\ sum[f] \in Seq(Revisions) /\ Len(sum[f]) \in Nat /\ Len(sum[f]) + 1 \in 1..Blocks
          /\ content[f][Len(sum[f]) + 1] \in Revisions
      BY <2>0, <3>0, NextBlock
    <3>2. pc \in [Files -> {"idle", "stat", "read", "compare", "ok"}] /\ sum \in [Files -> Seq(Revisions)]
      BY <2>0 DEF TypeOK
    <3>3. /\ sum'[f] = Append(sum[f], content[f][Len(sum[f]) + 1])
          /\ pc'[f] = (IF Len(sum[f]) + 1 = Blocks THEN "compare" ELSE "read")
          /\ \A g \in Files : g # f => sum'[g] = sum[g] /\ pc'[g] = pc[g]
      BY <3>0, <3>2
    <3>4. sum'[f] \in Seq(Revisions) /\ Len(sum'[f]) = Len(sum[f]) + 1 BY <3>1, <3>3
    <3>5. TypeOK'
      <4>1. sum' \in [Files -> Seq(Revisions)] BY <3>0, <3>2, <3>3, <3>4
      <4>2. pc' \in [Files -> {"idle", "stat", "read", "compare", "ok"}] BY <3>0, <3>2
      <4>3. pc'[f] = "read" => Len(sum'[f]) < Blocks BY <3>1, <3>3, <3>4, SizesAssumption
      <4>4. \A g \in Files : pc'[g] = "read" => Len(sum'[g]) < Blocks BY <2>0, <3>3, <4>3 DEF TypeOK
      <4> QED BY <2>0, <3>0, <4>1, <4>2, <4>4 DEF TypeOK
    <3>6. PhaseInv' BY <3>0 DEF PhaseInv
    <3>7. HashInv'
      <4>1. ASSUME stamp[f] = before[f], NEW b \in 1..Len(sum'[f]) PROVE sum'[f][b] = content[f][b]
        <5>1. \A i \in 1..Len(sum[f]) : sum[f][i] = content[f][i] BY <2>0, <3>0, <4>1 DEF HashInv
        <5>2. CASE b \in 1..Len(sum[f]) BY <3>1, <3>3, <5>1, <5>2
        <5>3. CASE b = Len(sum[f]) + 1 BY <3>1, <3>3, <5>3
        <5> QED BY <3>1, <3>4, <5>2, <5>3
      <4>2. pc'[f] = "compare" => Len(sum'[f]) = Blocks BY <3>3, <3>4
      <4> QED BY <2>0, <3>0, <3>3, <4>1, <4>2 DEF HashInv
    <3>8. OkInv' BY <2>0, <3>0, <3>3 DEF OkInv
    <3>9. ReceiptHonest' BY <2>0, <3>0 DEF ReceiptHonest
    <3> QED BY <3>5, <3>6, <3>7, <3>8, <3>9 DEF IInv
  <2>10. ASSUME NEW f \in Files, Compare(f) PROVE IInv'
    <3>1. CASE DigestOK(f) /\ SameFile(f)
      <4>0. /\ pc[f] = "compare" /\ phase = "verify" /\ pc' = [pc EXCEPT ![f] = "ok"] /\ sum' = [sum EXCEPT ![f] = <<>>]
            /\ UNCHANGED <<content, stamp, clock, receipt, revision, phase, before, touched>>
        BY <2>10, <3>1 DEF Compare
      <4>1. pc \in [Files -> {"idle", "stat", "read", "compare", "ok"}] /\ sum \in [Files -> Seq(Revisions)]
        BY <2>0 DEF TypeOK
      <4>2. TypeOK'
        <5>1. sum' \in [Files -> Seq(Revisions)] BY <4>0, <4>1
        <5>2. pc' \in [Files -> {"idle", "stat", "read", "compare", "ok"}] BY <4>0, <4>1
        <5>3. \A g \in Files : pc'[g] = "read" => Len(sum'[g]) < Blocks BY <2>0, <4>0, <4>1 DEF TypeOK
        <5> QED BY <2>0, <4>0, <5>1, <5>2, <5>3 DEF TypeOK
      <4>3. before[f] = stamp[f] /\ \A b \in 1..Blocks : content[f][b] = revision
        BY <2>0, <3>1, <4>0 DEF HashInv, DigestOK, SameFile
      <4>4. PhaseInv' BY <4>0 DEF PhaseInv
      <4>5. HashInv' BY <2>0, <4>0, <4>1 DEF HashInv
      <4>6. OkInv' BY <2>0, <4>0, <4>1, <4>3 DEF OkInv
      <4>7. ReceiptHonest' BY <2>0, <4>0 DEF ReceiptHonest
      <4> QED BY <4>2, <4>4, <4>5, <4>6, <4>7 DEF IInv
    <3>2. CASE ~(DigestOK(f) /\ SameFile(f))
      BY <2>10, <3>2, DownStep DEF Compare
    <3> QED BY <3>1, <3>2
  <2>11. CASE UNCHANGED vars
    BY <2>0, <2>11 DEF IInv, TypeOK, PhaseInv, HashInv, OkInv, ReceiptHonest, vars
  <2> QED BY <2>1, <2>2, <2>3, <2>4, <2>5, <2>6, <2>7, <2>8, <2>9, <2>10, <2>11 DEF Next
<1> QED BY <1>1, <1>2, PTL DEF Spec

(* Type correctness of a boot, its receipt and the verifications under way. *)
THEOREM PrepareTypes == Spec => []TypeOK
<1>1. IInv => TypeOK BY DEF IInv
<1> QED BY <1>1, PrepareInvariant, PTL

(* verify() returns only for a file that is the revision's at that moment. *)
THEOREM PrepareVerified == Spec => []VerifiedIntact
<1>1. IInv => VerifiedIntact BY DEF IInv, OkInv, VerifiedIntact
<1> QED BY <1>1, PrepareInvariant, PTL

(* The receipt vouches only for content it was issued for. *)
THEOREM PrepareReceipt == Spec => []ReceiptHonest
<1>1. IInv => ReceiptHonest BY DEF IInv
<1> QED BY <1>1, PrepareInvariant, PTL

----------------------------------------------------------------------------
(* The cluster. *)

Places == {"top", "none", "serve", "rm head", "rm workers", "run workers", "run head", "wait", "probe",
           "stop head", "stop workers", "rebuild head", "rebuild workers"}

\* A serve that is at worker idx[p] has itself started those before it.
Started(p) ==
    /\ step[p] = "run workers" => \A w \in Workers : w < idx[p] => w \in ranks[p]
    /\ step[p] = "run head" => ranks[p] = Workers

ClusterInv ==
    /\ step \in [Flows -> Places] /\ idx \in [Flows -> Nat \ {0}]
    /\ ranks \in [Flows -> SUBSET Workers]
    /\ \A p \in Flows : Started(p)

LEMMA ClusterBegins == ClusterInit => ClusterInv
  BY DEF ClusterInit, ClusterInv, Started, Flows, Workers, Places

\* A step of p is a matter of p.
LEMMA Moved ==
  ASSUME ClusterInv, NEW p \in Flows, NEW to \in Places, step' = [step EXCEPT ![p] = to],
         NEW n \in Nat \ {0}, idx' = [idx EXCEPT ![p] = n],
         NEW R \in SUBSET Workers, ranks' = [ranks EXCEPT ![p] = R],
         to = "run workers" => \A w \in Workers : w < n => w \in R,
         to = "run head" => R = Workers
  PROVE  ClusterInv'
  <1>1. /\ step' \in [Flows -> Places] /\ idx' \in [Flows -> Nat \ {0}]
        /\ ranks' \in [Flows -> SUBSET Workers]
    BY DEF ClusterInv
  <1>2. \A q \in Flows : q # p => step'[q] = step[q] /\ idx'[q] = idx[q] /\ ranks'[q] = ranks[q]
    BY DEF ClusterInv
  <1>3. step'[p] = to /\ idx'[p] = n /\ ranks'[p] = R
    BY DEF ClusterInv
  <1>4. Workers' = Workers
    BY DEF Workers
  <1>5. ASSUME NEW q \in Flows  PROVE Started(q)'
    <2>1. CASE q = p  BY <1>3, <1>4, <2>1 DEF Started
    <2>2. CASE q # p  BY <1>2, <1>4, <2>2 DEF Started, ClusterInv
    <2> QED BY <2>1, <2>2
  <1> QED BY <1>1, <1>4, <1>5 DEF ClusterInv, Flows

\* The steps that leave both counts of a serve alone and do not bring a flow to
\* where they matter.
LEMMA Elsewhere ==
  ASSUME ClusterInv, NEW p \in Flows, NEW to \in Places, to # "run workers", to # "run head",
         step' = [step EXCEPT ![p] = to], UNCHANGED <<idx, ranks>>
  PROVE  ClusterInv'
  <1>1. idx' = [idx EXCEPT ![p] = idx[p]] /\ idx[p] \in Nat \ {0}  BY DEF ClusterInv
  <1>2. ranks' = [ranks EXCEPT ![p] = ranks[p]] /\ ranks[p] \in SUBSET Workers  BY DEF ClusterInv
  <1> QED BY <1>1, <1>2, Moved

LEMMA Unmoved ==
  ASSUME ClusterInv, UNCHANGED <<step, idx, ranks>>
  PROVE  ClusterInv'
  BY DEF ClusterInv, Started, Workers

LEMMA LeaveStep ==
  ASSUME ClusterInv, NEW p \in Flows, Leave(p), UNCHANGED <<idx, ranks>>
  PROVE  ClusterInv'
  <1> DEFINE to == IF p = "monitor" THEN "top" ELSE "none"
  <1>1. to \in Places /\ to # "run workers" /\ to # "run head"  BY DEF Places
  <1>2. step' = [step EXCEPT ![p] = to]  BY DEF Leave, Goto
  <1> HIDE DEF to
  <1> QED BY <1>1, <1>2, Elsewhere

\* The steps of serve, stop and rebuild.
LEMMA ScriptStep ==
  ASSUME ClusterInv, NEW p \in Flows, Step(p)
  PROVE  ClusterInv'
  <1>1. idx = [idx EXCEPT ![p] = idx[p]] /\ idx[p] \in Nat \ {0}  BY DEF ClusterInv
  <1>2. ranks = [ranks EXCEPT ![p] = ranks[p]] /\ ranks[p] \in SUBSET Workers  BY DEF ClusterInv
  <1>3. step = [step EXCEPT ![p] = step[p]] /\ step[p] \in Places /\ Started(p)  BY DEF ClusterInv
  <1>4. CASE ServeCheck(p)
    <2>1. PICK to \in Places : to # "run workers" /\ to # "run head" /\ step' = [step EXCEPT ![p] = to]
      BY <1>4 DEF ServeCheck, Leave, Goto, Places
    <2>2. idx' = [idx EXCEPT ![p] = 1] /\ ranks' = [ranks EXCEPT ![p] = {}]  BY <1>4 DEF ServeCheck
    <2>3. 1 \in Nat \ {0} /\ {} \in SUBSET Workers  OBVIOUS
    <2> QED BY <2>1, <2>2, <2>3, Moved
  <1>5. CASE RemoveHead(p)
    <2>1. PICK to \in Places : to # "run workers" /\ to # "run head" /\ step' = [step EXCEPT ![p] = to]
      BY <1>5 DEF RemoveHead, Goto, Places
    <2>2. idx' = [idx EXCEPT ![p] = 1] /\ ranks' = ranks  BY <1>5 DEF RemoveHead
    <2>3. 1 \in Nat \ {0}  OBVIOUS
    <2> QED BY <1>2, <2>1, <2>2, <2>3, Moved
  <1>6. CASE RemoveWorker(p)
    <2>1. step[p] \notin {"run workers", "run head"} /\ ranks' = ranks  BY <1>6 DEF RemoveWorker
    <2>2. CASE idx[p] \in Workers
      <3>1. step' = step /\ idx' = [idx EXCEPT ![p] = idx[p] + 1]  BY <1>6, <2>2 DEF RemoveWorker
      <3>2. idx[p] + 1 \in Nat \ {0}  BY <1>1
      <3> QED BY <1>2, <1>3, <2>1, <3>1, <3>2, Moved
    <2>3. CASE idx[p] \notin Workers
      <3>1. PICK to \in Places : to # "run head" /\ step' = [step EXCEPT ![p] = to]
        BY <1>6, <2>3 DEF RemoveWorker, Leave, Goto, Places
      <3>2. idx' = [idx EXCEPT ![p] = 1]  BY <1>6, <2>3 DEF RemoveWorker
      <3>3. \A w \in Workers : ~(w < 1)  BY DEF Workers
      <3>4. 1 \in Nat \ {0}  OBVIOUS
      <3> QED BY <1>2, <2>1, <3>1, <3>2, <3>3, <3>4, Moved
    <2> QED BY <2>2, <2>3
  <1>7. CASE RunWorker(p)
    <2>1. step[p] = "run workers"  BY <1>7 DEF RunWorker
    <2>2. \A w \in Workers : w < idx[p] => w \in ranks[p]  BY <1>3, <2>1 DEF Started
    <2>3. CASE idx[p] \notin Workers
      <3>1. \A w \in Workers : w < idx[p]
        BY <1>1, <2>3, ClusterAssumption DEF Workers
      <3>2. ranks[p] = Workers  BY <1>2, <2>2, <3>1
      <3>3. step' = [step EXCEPT ![p] = "run head"] /\ UNCHANGED <<idx, ranks>>
        BY <1>7, <2>3 DEF RunWorker, Goto
      <3>4. "run head" \in Places  BY DEF Places
      <3> QED BY <1>1, <1>2, <3>2, <3>3, <3>4, Moved
    <2>4. CASE idx[p] \in Workers /\ reach[idx[p]] /\ worker[idx[p]] = "none"
      <3>1. /\ idx' = [idx EXCEPT ![p] = idx[p] + 1] /\ step' = step
            /\ ranks' = [ranks EXCEPT ![p] = ranks[p] \cup {idx[p]}]
        BY <1>7, <2>4 DEF RunWorker
      <3>2. ranks[p] \cup {idx[p]} \in SUBSET Workers /\ idx[p] + 1 \in Nat \ {0}
        BY <1>1, <1>2, <2>4
      <3>3. \A w \in Workers : w < idx[p] + 1 => w \in ranks[p] \cup {idx[p]}
        BY <1>1, <2>2 DEF Workers
      <3>4. step' = [step EXCEPT ![p] = "run workers"] /\ "run workers" \in Places
        BY <1>3, <2>1, <3>1
      <3> QED BY <3>1, <3>2, <3>3, <3>4, Moved
    <2>5. CASE idx[p] \in Workers /\ ~(reach[idx[p]] /\ worker[idx[p]] = "none")
      <3>1. Leave(p) /\ UNCHANGED <<idx, ranks>>  BY <1>7, <2>5 DEF RunWorker
      <3> QED BY <3>1, LeaveStep
    <2> QED BY <2>3, <2>4, <2>5
  <1>8. CASE RunHead(p)
    <2>1. CASE head = "none"
      <3>1. step' = [step EXCEPT ![p] = "wait"] /\ UNCHANGED <<idx, ranks>>
        BY <1>8, <2>1 DEF RunHead, Goto
      <3>2. "wait" \in Places  BY DEF Places
      <3> QED BY <3>1, <3>2, Elsewhere
    <2>2. CASE head # "none"
      <3>1. Leave(p) /\ UNCHANGED <<idx, ranks>>  BY <1>8, <2>2 DEF RunHead
      <3> QED BY <3>1, LeaveStep
    <2> QED BY <2>1, <2>2
  <1>9. CASE Wait(p)
    BY <1>9, LeaveStep DEF Wait
  <1> QED BY <1>4, <1>5, <1>6, <1>7, <1>8, <1>9 DEF Step

LEMMA ClusterStep ==
  ASSUME ClusterInv, [ClusterNext]_clusterVars
  PROVE  ClusterInv'
  <1>1. ASSUME NEW p \in Flows, Step(p)  PROVE ClusterInv'
    BY <1>1, ScriptStep
  <1>2. CASE Probe
    BY <1>2, Elsewhere DEF Probe, Goto, Flows, Places
  <1>3. CASE ProbeResult
    BY <1>3, Elsewhere DEF ProbeResult, Goto, Flows, Places
  <1>4. CASE Command
    BY <1>4, Elsewhere, Unmoved DEF Command, Goto, Flows, Places
  <1>5. CASE BootReady \/ HeadGivesUp \/ LinkRepaired \/ UNCHANGED clusterVars
    BY <1>5, Unmoved DEF BootReady, HeadGivesUp, LinkRepaired, clusterVars
  <1>6. CASE Fault
    BY <1>6, LeaveStep, Unmoved DEF Fault
  <1> QED BY <1>1, <1>2, <1>3, <1>4, <1>5, <1>6 DEF ClusterNext

(* However many workers there are, however often operator and monitor run  *)
(* their scripts at once and whatever fails on the way: the head is        *)
(* started by a serve that has itself started every worker (start.sh       *)
(* cmd_serve; scripts/dsv41-monitor-head.sh).                              *)
THEOREM WorkersAlwaysFirst == ClusterSpec => WorkersFirst
  <1>1. ClusterInv /\ [ClusterNext]_clusterVars =>
          [\A p \in Flows : step[p] = "run head" /\ head = "none" /\ head' = "starting" => ranks[p] = Workers]_clusterVars
    BY DEF ClusterInv, Started
  <1>2. ClusterInv /\ [ClusterNext]_clusterVars => ClusterInv'
    BY ClusterStep
  <1> QED BY <1>1, <1>2, ClusterBegins, PTL DEF ClusterSpec, WorkersFirst
============================================================================
