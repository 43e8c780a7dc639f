------------------------- MODULE RequestRingsProofs -------------------------
(***************************************************************************)
(* The two rings of a request, for every window, page, draft and chunk     *)
(* size.  In the first part, the pending-pair ring: a request of odd       *)
(* length finds its pending token, and every pair of accepted positions    *)
(* has the latent of its own two tokens.  In the second, the window rings: *)
(* the history a forward needs is there, each query reads its own window,  *)
(* commits are distinct, tags are owned and the workspace is large enough. *)
(*                                                                         *)
(* The argument is about one batch.  The rows of slot s are consecutive,   *)
(* first[s] onwards, at positions from[s] onwards; a row of a draft that   *)
(* is rejected is at most Draft - 1 positions after the last accepted one. *)
(* A ring wider than the drafts (for the windows: than Window + Draft)     *)
(* therefore separates, within one batch, every two rows that are written, *)
(* and the rows that are carried over.                                     *)
(***************************************************************************)
EXTENDS RequestRings, SequenceTheorems, FiniteSetTheorems, TLAPS

\* What the formula of get_compress_state_ring_size is there to deliver.
RingWide == ring_size \in Nat /\ ring_size > 1 /\ ring_size > Draft

\* Every set of naturals has a least element.
LEMMA LeastNat ==
  ASSUME NEW T \in SUBSET Nat, T # {}
  PROVE  \E m \in T : \A x \in T : m <= x
  <1>1. IsWellFoundedOn(OpToRel(<, Nat), Nat)  BY NatLessThanWellFounded
  <1>2. PICK m \in T : \A x \in T : ~(<<x, m>> \in OpToRel(<, Nat))  BY <1>1, WFMin, Zenon
  <1>3. \A x \in T : ~(x < m)  BY <1>2 DEF OpToRel
  <1> QED BY <1>3

\* The least element is what Min is.
LEMMA MinOfNats ==
  ASSUME NEW T \in SUBSET Nat, T # {}
  PROVE  Min(T) \in T /\ \A x \in T : Min(T) <= x
  BY LeastNat DEF Min

\* A power of two exceeds its exponent: 1..n has 2^n subsets, n of them singletons.
LEMMA PowerLarge ==
  ASSUME NEW n \in Nat
  PROVE  2^n \in Nat /\ n <= 2^n
  <1>1. IsFiniteSet(1..n) /\ Cardinality(1..n) = n  BY FS_Interval
  <1>2. IsFiniteSet(SUBSET (1..n)) /\ Cardinality(SUBSET (1..n)) = 2^n  BY <1>1, FS_SUBSET
  <1>3. 2^n \in Nat  BY <1>2, FS_CardinalityType
  <1> DEFINE single == [i \in 1..n |-> {i}]
  <1>4. single \in Injection(1..n, SUBSET (1..n))  BY DEF Injection, IsInjective
  <1>5. Cardinality(1..n) <= Cardinality(SUBSET (1..n))  BY <1>2, <1>4, FS_Injection
  <1> QED BY <1>1, <1>2, <1>3, <1>5

\* 2^bit_length(n) exceeds n.
LEMMA BitLength ==
  ASSUME NEW n \in Nat
  PROVE  2^bit_length(n) \in Nat /\ n < 2^bit_length(n)
  <1> DEFINE B == {b \in 0..(n + 1) : n < 2^b}
  <1>1. n + 1 \in B  BY PowerLarge
  <1>2. B \in SUBSET Nat /\ B # {}
    <2>1. 0..(n + 1) \subseteq Nat  OBVIOUS
    <2>2. B \subseteq 0..(n + 1)  OBVIOUS
    <2> QED BY <1>1, <2>1, <2>2
  <1>3. Min(B) \in B  BY <1>2, MinOfNats
  <1>4. bit_length(n) \in B  BY <1>3 DEF bit_length
  <1> QED BY <1>2, <1>4, PowerLarge

\* The ring is always wider than the drafts.
LEMMA RingIsWide == RingWide
  <1>1. CASE Draft = 0  BY <1>1 DEF RingWide, ring_size
  <1>2. CASE Draft # 0
    <2>1. Draft + 1 \in Nat /\ Draft \in Nat /\ Draft > 0  BY <1>2, RingAssumption
    <2>2. ring_size = 2^bit_length(Draft + 1)  BY <1>2 DEF ring_size
    <2> QED BY <2>1, <2>2, BitLength DEF RingWide
  <1> QED BY <1>1, <1>2

----------------------------------------------------------------------------
(* Two positions closer than the ring is wide have different rows. *)

LEMMA ModDistinct ==
  ASSUME NEW R \in Nat, R > 0, NEW a \in Nat, NEW b \in Nat, a < b, b - a < R
  PROVE  a % R # b % R
  <1> DEFINE qa == a \div R
             qb == b \div R
  <1>1. qa \in Int /\ qb \in Int /\ a % R \in Int /\ b % R \in Int  OBVIOUS
  <1>2. a = R * qa + (a % R) /\ b = R * qb + (b % R)  OBVIOUS
  <1> HIDE DEF qa, qb
  <1>3. SUFFICES ASSUME a % R = b % R  PROVE FALSE
    OBVIOUS
  <1>4. b - a = R * qb - R * qa  BY <1>1, <1>2, <1>3
  <1>5. b - a = R * (qb - qa)  BY <1>1, <1>4
  <1>6. CASE qb - qa <= 0
    <2>1. R * (qb - qa) <= 0  BY <1>1, <1>6
    <2> QED BY <1>5, <2>1
  <1>7. CASE qb - qa >= 1
    <2>1. R * (qb - qa) >= R  BY <1>1, <1>7
    <2> QED BY <1>5, <2>1
  <1> QED BY <1>1, <1>6, <1>7

LEMMA SameRow ==
  ASSUME RingWide, NEW a \in Nat, NEW b \in Nat, a - b < ring_size, b - a < ring_size,
         a % ring_size = b % ring_size
  PROVE  a = b
  <1>1. ring_size \in Nat /\ ring_size > 0  BY DEF RingWide
  <1>2. ~(a < b)  BY <1>1, ModDistinct
  <1>3. ~(b < a)  BY <1>1, ModDistinct
  <1> QED BY <1>2, <1>3

LEMMA ModRange ==
  ASSUME NEW R \in Nat, R > 0, NEW a \in Int
  PROVE  a % R \in 0..(R - 1)
  OBVIOUS

----------------------------------------------------------------------------
(* The rows of a batch, padding included. *)

Rectangle(r, first, cnt) ==
    /\ first \in [Slots -> Nat] /\ cnt \in [Slots -> Nat]
    /\ Len(r) \in Nat /\ DOMAIN r = 1..Len(r)
    /\ \A s \in Slots : cnt[s] > 0 => first[s] >= 1 /\ first[s] + cnt[s] - 1 <= Len(r)
    /\ \A i \in DOMAIN r : \A s \in Slots :
          (~r[i].pad /\ r[i].req = s) <=> (first[s] <= i /\ i < first[s] + cnt[s])
    /\ \A i \in DOMAIN r : ~r[i].pad =>
          /\ r[i].req \in Slots /\ r[i].floor = 0
          /\ r[i].pos = len[r[i].req] + i - first[r[i].req]

\* What the forward leaves done, and how far its rows reach past that.
Reach(cnt, kept) ==
    /\ kept \in [Slots -> Nat]
    /\ \A s \in Slots : IF cnt[s] = 0 THEN kept[s] = len[s]
                        ELSE /\ len[s] < kept[s] /\ kept[s] <= len[s] + cnt[s]
                             /\ len[s] + cnt[s] - kept[s] < ring_size

\* Blocks of k rows.
Blocks(first, cnt, k) ==
    /\ k \in Nat \ {0} /\ k < ring_size
    /\ \A s \in Slots : cnt[s] > 0 => cnt[s] = k /\ (first[s] - 1) % k = 0

LEMMA Member ==
  ASSUME NEW r, NEW first, NEW cnt, Rectangle(r, first, cnt),
         NEW i \in Nat, i >= 1, i <= Len(r), NEW s \in Slots
  PROVE  i \in DOMAIN r /\ ((~r[i].pad /\ r[i].req = s) <=> (first[s] <= i /\ i < first[s] + cnt[s]))
  BY DEF Rectangle

LEMMA RowAt ==
  ASSUME NEW r, NEW first, NEW cnt, Rectangle(r, first, cnt), len \in [Slots -> Nat],
         NEW s \in Slots, NEW p \in Nat, len[s] <= p, p < len[s] + cnt[s]
  PROVE  LET i == first[s] + p - len[s] IN
         /\ i \in DOMAIN r /\ ~r[i].pad /\ r[i].req = s /\ r[i].pos = p /\ r[i].floor = 0
         /\ \A j \in DOMAIN r : ~r[j].pad /\ r[j].req = s /\ r[j].pos = p => j = i
  <1> DEFINE i == first[s] + p - len[s]
  <1>1. first[s] \in Nat /\ cnt[s] \in Nat /\ len[s] \in Nat /\ cnt[s] > 0  BY DEF Rectangle
  <1>2. i \in DOMAIN r /\ first[s] <= i /\ i < first[s] + cnt[s]  BY <1>1 DEF Rectangle
  <1>3. ~r[i].pad /\ r[i].req = s  BY <1>2 DEF Rectangle
  <1>4. r[i].pos = p /\ r[i].floor = 0  BY <1>1, <1>2, <1>3 DEF Rectangle
  <1>5. ASSUME NEW j \in DOMAIN r, ~r[j].pad, r[j].req = s, r[j].pos = p  PROVE j = i
    <2>1. j \in Int /\ r[j].pos = len[s] + j - first[s]  BY <1>5 DEF Rectangle
    <2> QED BY <1>1, <1>5, <2>1
  <1> QED BY <1>2, <1>3, <1>4, <1>5

\* The positions of the rows of one slot.
LEMMA RowPos ==
  ASSUME NEW r, NEW first, NEW cnt, Rectangle(r, first, cnt), len \in [Slots -> Nat],
         NEW i \in DOMAIN r, ~r[i].pad
  PROVE  LET s == r[i].req IN
         /\ s \in Slots /\ r[i].pos \in Nat /\ i \in Nat
         /\ len[s] <= r[i].pos /\ r[i].pos < len[s] + cnt[s]
         /\ i = first[s] + r[i].pos - len[s]
  <1>1. r[i].req \in Slots  BY DEF Rectangle
  <1>2. first[r[i].req] <= i /\ i < first[r[i].req] + cnt[r[i].req]  BY <1>1 DEF Rectangle
  <1>3. r[i].pos = len[r[i].req] + i - first[r[i].req]  BY DEF Rectangle
  <1>4. i \in Nat /\ first[r[i].req] \in Nat /\ cnt[r[i].req] \in Nat /\ len[r[i].req] \in Nat
    BY <1>1 DEF Rectangle
  <1> QED BY <1>1, <1>2, <1>3, <1>4

LEMMA TokenOwn ==
  ASSUME NEW x, x.pos \in Nat, x.floor = 0, x.pos < fwd.kept[x.req]
  PROVE  Token(x) = Own(x.req, x.pos)
  BY DEF Token, Own, Accepted
----------------------------------------------------------------------------
(* What Store and Park leave at one place. *)

LEMMA StoreRow ==
  ASSUME NEW r, NEW first, NEW cnt, Rectangle(r, first, cnt), len \in [Slots -> Nat],
         NEW partner, NEW s \in Slots, NEW j \in Pairs,
         len[s] <= 2 * j + 1, 2 * j + 1 < len[s] + cnt[s]
  PROVE  LET i == first[s] + 2 * j + 1 - len[s] IN
         Store(r, partner)[s][j] = <<partner[i], Token(r[i])>>
  <1> DEFINE p == 2 * j + 1
             i == first[s] + p - len[s]
             At(k) == k \in DOMAIN r /\ ~r[k].pad /\ r[k].req = s /\ r[k].pos = 2 * j + 1
  <1>1. j \in Nat /\ p \in Nat  BY RingAssumption DEF Pairs
  <1>2. At(i) /\ \A k : At(k) => k = i  BY <1>1, RowAt
  <1>3. (CHOOSE k \in DOMAIN r : ~r[k].pad /\ r[k].req = s /\ r[k].pos = 2 * j + 1) = i
    BY <1>2
  <1>4. \E k \in DOMAIN r : ~r[k].pad /\ r[k].req = s /\ r[k].pos = 2 * j + 1
    BY <1>2
  <1>5. Store(r, partner)[s][j] = <<partner[i], Token(r[i])>>
    BY <1>3, <1>4 DEF Store
  <1>6. first[s] \in Nat /\ len[s] \in Nat  BY DEF Rectangle
  <1>7. i = first[s] + 2 * j + 1 - len[s]  BY <1>1, <1>6
  <1> QED BY <1>5, <1>7

LEMMA StoreOld ==
  ASSUME NEW r, NEW first, NEW cnt, Rectangle(r, first, cnt), len \in [Slots -> Nat],
         NEW partner, NEW s \in Slots, NEW j \in Pairs, 2 * j + 1 < len[s]
  PROVE  Store(r, partner)[s][j] = pairs[s][j]
  <1>1. j \in Nat /\ len[s] \in Nat  BY RingAssumption DEF Pairs
  <1>2. ASSUME NEW k \in DOMAIN r, ~r[k].pad, r[k].req = s  PROVE r[k].pos # 2 * j + 1
    BY <1>1, <1>2, RowPos
  <1> QED BY <1>2 DEF Store

LEMMA ParkRow ==
  ASSUME NEW r, NEW W, NEW last \in BOOLEAN, NEW s \in Slots, NEW p \in Nat, NEW i \in W,
         i \in Nat, r[i].req = s, r[i].pos = p, RingWide,
         \A k \in W : Parked(r[k]) = <<s, p % ring_size>> => k = i
  PROVE  Park(r, W, last)[<<s, p % ring_size>>] = Token(r[i])
  <1> DEFINE x == <<s, p % ring_size>>
             w == {k \in W : Parked(r[k]) = x}
  <1>1. x \in PendingRows  BY ModRange DEF PendingRows, RingWide
  <1>2. w = {i}  BY DEF Parked
  <1>3. Max(w) = i /\ Min(w) = i  BY <1>2 DEF Max, Min
  <1>4. Park(r, W, last)[x] = IF w = {} THEN pending[x] ELSE Token(r[IF last THEN Max(w) ELSE Min(w)])
    BY <1>1 DEF Park
  <1> QED BY <1>2, <1>3, <1>4

LEMMA ParkNone ==
  ASSUME NEW r, NEW W, NEW last \in BOOLEAN, NEW x \in PendingRows,
         \A k \in W : Parked(r[k]) # x
  PROVE  Park(r, W, last)[x] = pending[x]
  <1>1. {k \in W : Parked(r[k]) = x} = {}  OBVIOUS
  <1> QED BY <1>1 DEF Park
----------------------------------------------------------------------------
(* The two promises when n[s] positions of slot s are done. *)

HeldAs(n, ring) ==
    \A s \in Slots : epoch[s] > 0 /\ n[s] % 2 = 1 =>
        ring[<<s, (n[s] - 1) % ring_size>>] = Own(s, n[s] - 1)

ExactAs(n, latents) ==
    \A s \in Slots : epoch[s] > 0 => \A j \in Pairs :
        2 * j + 1 < n[s] => latents[s][j] = <<Own(s, 2 * j), Own(s, 2 * j + 1)>>

\* The ring after a batch that writes the last accepted row of each slot, and
\* no two rows of a slot as far apart as the ring is wide.
LEMMA HeldByWriters ==
  ASSUME NEW r, NEW first, NEW cnt, Rectangle(r, first, cnt), len \in [Slots -> Nat],
         RingWide, Reach(cnt, fwd.kept), HeldAs(len, pending),
         NEW last \in BOOLEAN, NEW W \in SUBSET DOMAIN r, \A k \in W : ~r[k].pad,
         \A s \in Slots : cnt[s] > 0 /\ fwd.kept[s] % 2 = 1 => first[s] + fwd.kept[s] - 1 - len[s] \in W,
         \A k, l \in W : r[k].req = r[l].req => r[k].pos - r[l].pos < ring_size
  PROVE  HeldAs(fwd.kept, Park(r, W, last))
  <1> SUFFICES ASSUME NEW s \in Slots, epoch[s] > 0, fwd.kept[s] % 2 = 1
               PROVE  Park(r, W, last)[<<s, (fwd.kept[s] - 1) % ring_size>>] = Own(s, fwd.kept[s] - 1)
    BY DEF HeldAs
  <1> DEFINE p == fwd.kept[s] - 1
             x == <<s, p % ring_size>>
  <1>1. fwd.kept[s] \in Nat /\ len[s] \in Nat /\ cnt[s] \in Nat /\ first[s] \in Nat
    BY DEF Reach, Rectangle
  <1>2. p \in Nat  BY <1>1
  <1>3. CASE cnt[s] = 0
    <2>1. fwd.kept[s] = len[s]  BY <1>3 DEF Reach
    <2>2. ASSUME NEW k \in W  PROVE Parked(r[k]) # x
      <3>1. r[k].req # s  BY <1>1, <1>3, <2>2, RowPos
      <3> QED BY <3>1 DEF Parked
    <2>3. x \in PendingRows  BY <1>2, ModRange DEF PendingRows, RingWide
    <2>4. Park(r, W, last)[x] = pending[x]  BY <2>2, <2>3, ParkNone
    <2> QED BY <2>1, <2>4 DEF HeldAs
  <1>4. CASE cnt[s] > 0
    <2> DEFINE i == first[s] + p - len[s]
    <2>1. len[s] <= p /\ p < len[s] + cnt[s]  BY <1>1, <1>4 DEF Reach
    <2>2. /\ i \in DOMAIN r /\ ~r[i].pad /\ r[i].req = s /\ r[i].pos = p /\ r[i].floor = 0
          /\ \A k \in DOMAIN r : ~r[k].pad /\ r[k].req = s /\ r[k].pos = p => k = i
      BY <1>2, <2>1, RowAt
    <2>3. i \in W  BY <1>1, <1>4
    <2>4. ASSUME NEW k \in W, Parked(r[k]) = x  PROVE k = i
      <3>1. r[k].req = s /\ r[k].pos % ring_size = p % ring_size  BY <2>4 DEF Parked
      <3>2. r[k].pos \in Nat  BY RowPos
      <3>3. r[k].pos - p < ring_size /\ p - r[k].pos < ring_size  BY <2>2, <2>3, <3>1
      <3> HIDE DEF p
      <3>4. r[k].pos = p  BY <1>2, <3>1, <3>2, <3>3, SameRow
      <3> QED BY <2>2, <3>1, <3>4
    <2>5. i \in Nat  BY <2>2, RowPos
    <2>6. Park(r, W, last)[x] = Token(r[i])  BY <1>2, <2>2, <2>3, <2>4, <2>5, ParkRow
    <2>7. Token(r[i]) = Own(s, p)  BY <1>1, <1>2, <2>2, TokenOwn
    <2> QED BY <2>6, <2>7
  <1> QED BY <1>1, <1>3, <1>4

\* The latents after a batch whose rows all have the right partner.
LEMMA ExactByPartners ==
  ASSUME NEW r, NEW first, NEW cnt, Rectangle(r, first, cnt), len \in [Slots -> Nat],
         Reach(cnt, fwd.kept), ExactAs(len, pairs), NEW partner,
         \A s \in Slots, j \in Pairs :
            epoch[s] > 0 /\ len[s] <= 2 * j + 1 /\ 2 * j + 1 < fwd.kept[s] =>
                partner[first[s] + 2 * j + 1 - len[s]] = Own(s, 2 * j)
  PROVE  ExactAs(fwd.kept, Store(r, partner))
  <1> SUFFICES ASSUME NEW s \in Slots, epoch[s] > 0, NEW j \in Pairs, 2 * j + 1 < fwd.kept[s]
               PROVE  Store(r, partner)[s][j] = <<Own(s, 2 * j), Own(s, 2 * j + 1)>>
    BY DEF ExactAs
  <1>1. j \in Nat  BY RingAssumption DEF Pairs
  <1>2. fwd.kept[s] \in Nat /\ len[s] \in Nat /\ cnt[s] \in Nat /\ first[s] \in Nat
    BY DEF Reach, Rectangle
  <1>3. CASE 2 * j + 1 < len[s]
    <2>1. Store(r, partner)[s][j] = pairs[s][j]  BY <1>3, StoreOld
    <2> QED BY <1>3, <2>1 DEF ExactAs
  <1>4. CASE len[s] <= 2 * j + 1
    <2> DEFINE i == first[s] + (2 * j + 1) - len[s]
    <2>1. 2 * j + 1 < len[s] + cnt[s]  BY <1>1, <1>2, <1>4 DEF Reach
    <2>2. first[s] + 2 * j + 1 - len[s] = i  BY <1>1, <1>2
    <2>3. Store(r, partner)[s][j] = <<partner[i], Token(r[i])>>
      BY <1>4, <2>1, <2>2, StoreRow
    <2>4. r[i].req = s /\ r[i].pos = 2 * j + 1 /\ r[i].floor = 0
      BY <1>1, <1>4, <2>1, RowAt
    <2>5. Token(r[i]) = Own(s, 2 * j + 1)  BY <1>1, <2>4, TokenOwn
    <2>6. partner[i] = Own(s, 2 * j)  BY <1>4, <2>2
    <2> QED BY <2>3, <2>5, <2>6
  <1> QED BY <1>1, <1>2, <1>3, <1>4
----------------------------------------------------------------------------
(* The compressor. *)

LEMMA TorchStep ==
  ASSUME NEW r, NEW first, NEW cnt, Rectangle(r, first, cnt), len \in [Slots -> Nat],
         RingWide, Reach(cnt, fwd.kept), HeldAs(len, pending), ExactAs(len, pairs),
         CompressTorch(r)
  PROVE  HeldAs(fwd.kept, pending') /\ ExactAs(fwd.kept, pairs')
  <1> DEFINE W == {i \in DOMAIN r : keep(r, i)}
             partner == [i \in DOMAIN r |-> IF in_batch(r, i) THEN Token(r[i - 1]) ELSE pending[Partner(r[i])]]
  <1>1. PICK last \in BOOLEAN : pending' = Park(r, W, last)  BY DEF CompressTorch
  <1>2. pairs' = Store(r, partner)  BY DEF CompressTorch
  <1>3. ring_size \in Nat /\ ring_size > 1  BY DEF RingWide
  <1>4. W \in SUBSET DOMAIN r /\ \A k \in W : ~r[k].pad  BY DEF keep
  <1>5. ASSUME NEW s \in Slots, cnt[s] > 0, fwd.kept[s] % 2 = 1
        PROVE  first[s] + fwd.kept[s] - 1 - len[s] \in W
    <2> DEFINE i == first[s] + (fwd.kept[s] - 1) - len[s]
    <2>1. fwd.kept[s] \in Nat /\ len[s] \in Nat /\ cnt[s] \in Nat /\ first[s] \in Nat
      BY DEF Reach, Rectangle
    <2>2. /\ fwd.kept[s] - 1 \in Nat /\ len[s] <= fwd.kept[s] - 1
          /\ fwd.kept[s] - 1 < len[s] + cnt[s] /\ len[s] + cnt[s] - fwd.kept[s] < ring_size
      BY <1>5, <2>1 DEF Reach
    <2>3. i \in DOMAIN r /\ ~r[i].pad /\ r[i].req = s  BY <2>2, RowAt
    <2>4. i + ring_size >= first[s] + cnt[s]  BY <1>3, <2>1, <2>2
    <2>5. i + ring_size <= Len(r) => i + ring_size \in DOMAIN r
      BY <1>3, <2>3 DEF Rectangle
    <2>6. i + ring_size <= Len(r) => r[i + ring_size].pad \/ r[i + ring_size].req # s
      BY <1>3, <2>1, <2>4, <2>5 DEF Rectangle
    <2>7. keep(r, i)  BY <2>3, <2>6 DEF keep
    <2>8. i = first[s] + fwd.kept[s] - 1 - len[s]  BY <2>1
    <2> QED BY <2>3, <2>7, <2>8
  <1>6. ASSUME NEW k \in W, NEW l \in W, r[k].req = r[l].req  PROVE r[k].pos - r[l].pos < ring_size
    <2> DEFINE s == r[k].req
    <2>0. r[k].req = s /\ r[l].req = s  BY <1>6
    <2>1. k \in DOMAIN r /\ l \in DOMAIN r /\ ~r[k].pad /\ ~r[l].pad /\ keep(r, l)  BY DEF keep
    <2>2. /\ s \in Slots /\ r[k].pos \in Nat /\ r[l].pos \in Nat /\ k \in Nat /\ l \in Nat
          /\ k = first[s] + r[k].pos - len[s] /\ l = first[s] + r[l].pos - len[s]
      BY <1>6, <2>1, RowPos
    <2>3. first[s] \in Nat /\ len[s] \in Nat /\ cnt[s] \in Nat  BY <2>2 DEF Rectangle
    <2>4. SUFFICES ASSUME k - l >= ring_size  PROVE FALSE
      BY <1>3, <2>2, <2>3
    <2> HIDE DEF s
    <2>5. /\ first[s] <= k /\ k < first[s] + cnt[s] /\ first[s] <= l
          /\ k >= 1 /\ k <= Len(r) /\ Len(r) \in Nat
      BY <2>0, <2>1, <2>2 DEF Rectangle
    <2> DEFINE t == l + ring_size
    <2> HIDE DEF W, partner
    <2>6. t \in Nat /\ l <= t /\ t <= k /\ t >= 1  BY <1>3, <2>2, <2>4
    <2>7. /\ t \in Nat /\ t >= 1 /\ t <= Len(r)
          /\ first[s] <= t /\ t < first[s] + cnt[s]
      BY <2>2, <2>3, <2>5, <2>6
    <2> HIDE DEF t
    <2>8. ~r[t].pad /\ r[t].req = s  BY <2>2, <2>7, Member
    <2> USE DEF t, W
    <2> QED BY <2>0, <2>1, <2>7, <2>8 DEF keep
  <1>7. ASSUME NEW s \in Slots, NEW j \in Pairs, epoch[s] > 0,
               len[s] <= 2 * j + 1, 2 * j + 1 < fwd.kept[s]
        PROVE  partner[first[s] + 2 * j + 1 - len[s]] = Own(s, 2 * j)
    <2> DEFINE i == first[s] + (2 * j + 1) - len[s]
    <2>1. j \in Nat  BY RingAssumption DEF Pairs
    <2>2. fwd.kept[s] \in Nat /\ len[s] \in Nat /\ cnt[s] \in Nat /\ first[s] \in Nat
      BY DEF Reach, Rectangle
    <2>3. 2 * j + 1 < len[s] + cnt[s] /\ cnt[s] > 0 /\ first[s] >= 1
      BY <1>7, <2>1, <2>2 DEF Reach, Rectangle
    <2>4. i \in DOMAIN r /\ ~r[i].pad /\ r[i].req = s /\ r[i].pos = 2 * j + 1
      BY <1>7, <2>1, <2>3, RowAt
    <2>5. i = first[s] + 2 * j + 1 - len[s] /\ i \in Nat  BY <2>1, <2>2, <2>4 DEF Rectangle
    <2>6. CASE len[s] <= 2 * j
      <3> DEFINE h == first[s] + 2 * j - len[s]
      <3>1. h \in DOMAIN r /\ ~r[h].pad /\ r[h].req = s /\ r[h].pos = 2 * j /\ r[h].floor = 0
        BY <2>1, <2>2, <2>3, <2>6, RowAt
      <3>2. h = i - 1 /\ i > 1  BY <2>1, <2>2, <2>3, <2>6
      <3>3. in_batch(r, i)  BY <2>1, <2>4, <3>1, <3>2 DEF in_batch
      <3>4. Token(r[h]) = Own(s, 2 * j)  BY <1>7, <2>1, <2>2, <3>1, TokenOwn
      <3>5. partner[i] = Token(r[h])  BY <2>4, <3>2, <3>3
      <3> QED BY <2>5, <3>4, <3>5
    <2>7. CASE len[s] = 2 * j + 1
      <3>1. i = first[s]  BY <2>1, <2>2, <2>7
      <3>2. ~in_batch(r, i)
        <4>1. SUFFICES ASSUME i > 1, ~r[i - 1].pad, r[i - 1].req = s  PROVE FALSE
          BY <2>4 DEF in_batch
        <4>2. i - 1 \in DOMAIN r  BY <2>4, <2>5, <4>1 DEF Rectangle
        <4>3. first[s] <= i - 1  BY <4>1, <4>2 DEF Rectangle
        <4> QED BY <2>2, <3>1, <4>3
      <3>3. partner[i] = pending[Partner(r[i])]  BY <2>4, <3>2
      <3>4. Partner(r[i]) = <<s, (len[s] - 1) % ring_size>>  BY <2>4, <2>7 DEF Partner
      <3>5. len[s] % 2 = 1 /\ len[s] - 1 = 2 * j  BY <2>1, <2>7
      <3>6. pending[<<s, (len[s] - 1) % ring_size>>] = Own(s, len[s] - 1)
        BY <1>7, <3>5 DEF HeldAs
      <3> QED BY <2>5, <3>3, <3>4, <3>5, <3>6
    <2> QED BY <1>7, <2>1, <2>2, <2>6, <2>7
  <1> HIDE DEF W, partner
  <1>8. HeldAs(fwd.kept, Park(r, W, last))  BY <1>4, <1>5, <1>6, HeldByWriters
  <1>9. ExactAs(fwd.kept, Store(r, partner))  BY <1>7, ExactByPartners
  <1> QED BY <1>1, <1>2, <1>8, <1>9

\* The kernel: the first row of a block reads the ring, and no row of the
\* launch writes what it reads.
LEMMA FusedStep ==
  ASSUME NEW r, NEW first, NEW cnt, Rectangle(r, first, cnt), len \in [Slots -> Nat],
         RingWide, Reach(cnt, fwd.kept), HeldAs(len, pending), ExactAs(len, pairs),
         NEW b, Blocks(first, cnt, b), CompressFused(r, b)
  PROVE  HeldAs(fwd.kept, pending') /\ ExactAs(fwd.kept, pairs')
  <1> DEFINE W == {i \in DOMAIN r : Parks(r[i])}
             carried(late) == IF late THEN Park(r, W, late) ELSE pending
             partner(late) == [i \in DOMAIN r |->
                IF (i - 1) % b # 0 THEN Token(r[i - 1]) ELSE carried(late)[Partner(r[i])]]
  <1>1. PICK late \in BOOLEAN : pairs' = Store(r, partner(late)) /\ pending' = Park(r, W, late)
    BY DEF CompressFused
  <1>2. ring_size \in Nat /\ ring_size > 1 /\ b \in Nat /\ b > 0 /\ b < ring_size
    BY DEF RingWide, Blocks
  <1>3. W \in SUBSET DOMAIN r /\ \A k \in W : ~r[k].pad  BY DEF Parks
  <1>4. ASSUME NEW s \in Slots, cnt[s] > 0, fwd.kept[s] % 2 = 1
        PROVE  first[s] + fwd.kept[s] - 1 - len[s] \in W
    <2> DEFINE i == first[s] + (fwd.kept[s] - 1) - len[s]
    <2>1. fwd.kept[s] \in Nat /\ len[s] \in Nat /\ cnt[s] \in Nat /\ first[s] \in Nat
      BY DEF Reach, Rectangle
    <2>2. /\ fwd.kept[s] - 1 \in Nat /\ len[s] <= fwd.kept[s] - 1
          /\ fwd.kept[s] - 1 < len[s] + cnt[s]
      BY <1>4, <2>1 DEF Reach
    <2>3. i \in DOMAIN r /\ ~r[i].pad /\ r[i].pos = fwd.kept[s] - 1  BY <2>2, RowAt
    <2>4. (fwd.kept[s] - 1) % 2 = 0  BY <1>4, <2>1
    <2>5. Parks(r[i])  BY <2>3, <2>4 DEF Parks
    <2>6. i = first[s] + fwd.kept[s] - 1 - len[s]  BY <2>1
    <2> QED BY <2>3, <2>5, <2>6
  <1>5. ASSUME NEW k \in W, NEW l \in W, r[k].req = r[l].req  PROVE r[k].pos - r[l].pos < ring_size
    <2>1. k \in DOMAIN r /\ l \in DOMAIN r /\ ~r[k].pad /\ ~r[l].pad  BY <1>3
    <2> DEFINE s == r[k].req
    <2>2. /\ s \in Slots /\ r[k].pos \in Nat /\ r[l].pos \in Nat
          /\ r[k].pos < len[s] + cnt[s] /\ len[s] <= r[l].pos
      BY <1>5, <2>1, RowPos
    <2>3. len[s] \in Nat /\ cnt[s] \in Nat  BY <2>2 DEF Rectangle
    <2>4. cnt[s] < ring_size  BY <1>2, <2>2, <2>3 DEF Blocks
    <2> HIDE DEF s, W
    <2> QED BY <1>2, <2>2, <2>3, <2>4
  <1>6. ASSUME NEW s \in Slots, cnt[s] > 0, epoch[s] > 0, len[s] % 2 = 1
        PROVE  carried(late)[<<s, (len[s] - 1) % ring_size>>] = Own(s, len[s] - 1)
    <2> DEFINE x == <<s, (len[s] - 1) % ring_size>>
    <2>1. len[s] \in Nat /\ len[s] - 1 \in Nat /\ cnt[s] = b  BY <1>6 DEF Blocks
    <2>2. ASSUME NEW k \in W  PROVE Parked(r[k]) # x
      <3>1. SUFFICES ASSUME r[k].req = s, r[k].pos % ring_size = (len[s] - 1) % ring_size  PROVE FALSE
        BY DEF Parked
      <3>2. r[k].pos \in Nat /\ len[s] <= r[k].pos /\ r[k].pos < len[s] + b
        BY <1>3, <2>1, <3>1, RowPos
      <3>3. len[s] - 1 < r[k].pos /\ r[k].pos - (len[s] - 1) < ring_size
        BY <1>2, <2>1, <3>2
      <3> QED BY <1>2, <2>1, <3>1, <3>2, <3>3, ModDistinct
    <2>3. x \in PendingRows  BY <1>2, <2>1, ModRange DEF PendingRows
    <2>4. Park(r, W, late)[x] = pending[x]  BY <2>2, <2>3, ParkNone
    <2>5. pending[x] = Own(s, len[s] - 1)  BY <1>6 DEF HeldAs
    <2> QED BY <2>4, <2>5
  <1>7. ASSUME NEW s \in Slots, NEW j \in Pairs, epoch[s] > 0,
               len[s] <= 2 * j + 1, 2 * j + 1 < fwd.kept[s]
        PROVE  partner(late)[first[s] + 2 * j + 1 - len[s]] = Own(s, 2 * j)
    <2> DEFINE i == first[s] + (2 * j + 1) - len[s]
    <2>1. j \in Nat  BY RingAssumption DEF Pairs
    <2>2. fwd.kept[s] \in Nat /\ len[s] \in Nat /\ cnt[s] \in Nat /\ first[s] \in Nat
      BY DEF Reach, Rectangle
    <2>3. 2 * j + 1 < len[s] + cnt[s] /\ cnt[s] > 0 /\ first[s] >= 1
      BY <1>7, <2>1, <2>2 DEF Reach, Rectangle
    <2>4. cnt[s] = b /\ (first[s] - 1) % b = 0  BY <2>3 DEF Blocks
    <2>5. i \in DOMAIN r /\ r[i].req = s /\ r[i].pos = 2 * j + 1
      BY <1>7, <2>1, <2>3, RowAt
    <2>6. i = first[s] + 2 * j + 1 - len[s]  BY <2>1, <2>2
    <2>7. CASE len[s] <= 2 * j
      <3> DEFINE h == first[s] + 2 * j - len[s]
      <3>1. r[h].req = s /\ r[h].pos = 2 * j /\ r[h].floor = 0
        BY <2>1, <2>2, <2>3, <2>7, RowAt
      <3>2. h = i - 1 /\ first[s] - 1 < i - 1 /\ (i - 1) - (first[s] - 1) < b /\ i - 1 \in Nat
        BY <2>1, <2>2, <2>3, <2>4, <2>7
      <3>3. first[s] - 1 \in Nat  BY <2>2, <2>3
      <3> HIDE DEF i
      <3>4. (i - 1) % b # 0  BY <1>2, <2>4, <3>2, <3>3, ModDistinct
      <3>5. Token(r[h]) = Own(s, 2 * j)  BY <1>7, <2>1, <2>2, <3>1, TokenOwn
      <3>6. partner(late)[i] = Token(r[h])  BY <2>5, <3>2, <3>4
      <3> QED BY <2>6, <3>5, <3>6
    <2>8. CASE len[s] = 2 * j + 1
      <3>1. i - 1 = first[s] - 1  BY <2>1, <2>2, <2>8
      <3>2. partner(late)[i] = carried(late)[Partner(r[i])]  BY <2>4, <2>5, <3>1
      <3>3. Partner(r[i]) = <<s, (len[s] - 1) % ring_size>>  BY <2>5, <2>8 DEF Partner
      <3>4. len[s] % 2 = 1 /\ len[s] - 1 = 2 * j  BY <2>1, <2>8
      <3> HIDE DEF carried, partner
      <3>5. carried(late)[<<s, (len[s] - 1) % ring_size>>] = Own(s, len[s] - 1)
        BY <1>6, <1>7, <2>3, <3>4
      <3> QED BY <2>6, <3>2, <3>3, <3>4, <3>5
    <2> QED BY <1>7, <2>1, <2>2, <2>7, <2>8
  <1> HIDE DEF W, partner
  <1>8. HeldAs(fwd.kept, Park(r, W, late))  BY <1>3, <1>4, <1>5, HeldByWriters
  <1>9. ExactAs(fwd.kept, Store(r, partner(late)))  BY <1>7, ExactByPartners
  <1> QED BY <1>1, <1>8, <1>9
----------------------------------------------------------------------------
(* The rows of a batch as the scheduler lays them out. *)

Query == [req : Slots, pos : Nat, floor : Nat]
PaddedRow == [req : Slots, pos : Nat, floor : Nat, pad : BOOLEAN]

Batch(q, first, cnt) ==
    /\ q \in Seq(Query) /\ first \in [Slots -> Nat] /\ cnt \in [Slots -> Nat]
    /\ \A s \in Slots : cnt[s] > 0 => first[s] >= 1 /\ first[s] + cnt[s] - 1 <= Len(q)
    /\ \A i \in 1..Len(q) : \A s \in Slots : q[i].req = s <=> (first[s] <= i /\ i < first[s] + cnt[s])
    /\ \A i \in 1..Len(q) : q[i].floor = 0 /\ q[i].pos = len[q[i].req] + i - first[q[i].req]

LEMMA SameInterval ==
  ASSUME NEW a \in Nat, NEW b \in Nat, 1..a = 1..b
  PROVE  a = b
  <1>1. a > b => a \in 1..a /\ a \notin 1..b  OBVIOUS
  <1>2. b > a => b \in 1..b /\ b \notin 1..a  OBVIOUS
  <1> QED BY <1>1, <1>2

\* A padded batch is a batch: its padded rows come last.
LEMMA PaddedBatch ==
  ASSUME NEW q, NEW first, NEW cnt, Batch(q, first, cnt), NEW n \in Nat,
         NEW pads \in {<<>>} \cup Padding(n)
  PROVE  Rectangle(Live(q) \o pads, first, cnt)
  <1> DEFINE l == Live(q)
             r == l \o pads
  <1>1. Len(q) \in Nat /\ DOMAIN q = 1..Len(q) /\ \A i \in 1..Len(q) : q[i] \in Query
    BY ElementOfSeq, LenProperties DEF Batch
  <1>2. /\ l \in [1..Len(q) -> PaddedRow]
        /\ \A i \in 1..Len(q) : l[i].req = q[i].req /\ l[i].pos = q[i].pos /\ l[i].floor = q[i].floor /\ ~l[i].pad
    BY <1>1 DEF Live, Query, PaddedRow
  <1>3. l \in Seq(PaddedRow)  BY <1>1, <1>2, SeqDef
  <1>4. Len(l) = Len(q)
    <2>1. DOMAIN l = 1..Len(q) /\ DOMAIN l = 1..Len(l) /\ Len(l) \in Nat  BY <1>2, <1>3, LenProperties
    <2> HIDE DEF l
    <2> QED BY <1>1, <2>1, SameInterval
  <1>5. pads \in Seq(PaddedRow) /\ \A i \in 1..Len(pads) : pads[i].pad
    <2>1. CASE pads = <<>>
      BY <2>1, EmptySeq
    <2>2. CASE pads \in Padding(n)
      <3>1. PICK s \in Slots, p \in 0..1 :
               pads = [i \in 1..n |-> [req |-> s, pos |-> p + i - 1, floor |-> 0, pad |-> TRUE]]
        BY <2>2 DEF Padding
      <3>2. pads \in [1..n -> PaddedRow] /\ \A i \in 1..n : pads[i].pad
        BY <3>1 DEF PaddedRow
      <3>3. pads \in Seq(PaddedRow)  BY <3>2, SeqDef
      <3>4. DOMAIN pads = 1..n /\ DOMAIN pads = 1..Len(pads)  BY <3>2, <3>3, LenProperties
      <3> QED BY <3>2, <3>3, <3>4
    <2> QED BY <2>1, <2>2
  <1>6. /\ r \in Seq(PaddedRow) /\ Len(r) = Len(q) + Len(pads) /\ Len(pads) \in Nat
        /\ \A i \in 1..Len(r) : r[i] = IF i <= Len(q) THEN l[i] ELSE pads[i - Len(q)]
    <2> HIDE DEF l
    <2>1. Len(pads) \in Nat  BY <1>5, LenProperties
    <2>2. r \in Seq(PaddedRow) /\ Len(r) = Len(l) + Len(pads)  BY <1>3, <1>5, ConcatProperties
    <2>3. \A i \in 1..Len(l) + Len(pads) : r[i] = IF i <= Len(l) THEN l[i] ELSE pads[i - Len(l)]
      BY <1>3, <1>5, ConcatProperties
    <2> HIDE DEF r
    <2> QED BY <1>4, <2>1, <2>2, <2>3
  <1>7. Len(r) \in Nat /\ DOMAIN r = 1..Len(r)  BY <1>6, LenProperties
  <1> HIDE DEF l, r
  <1>8. ASSUME NEW i \in 1..Len(r)
        PROVE  \/ i \in 1..Len(q) /\ r[i] = l[i]
               \/ i > Len(q) /\ r[i].pad
    <2>1. CASE i <= Len(q)  BY <1>1, <1>6, <1>7, <2>1
    <2>2. CASE i > Len(q)
      <3>1. i - Len(q) \in 1..Len(pads)  BY <1>1, <1>6, <1>7, <2>2
      <3>2. r[i] = pads[i - Len(q)]  BY <1>1, <1>6, <1>7, <2>2
      <3> QED BY <1>5, <2>2, <3>1, <3>2
    <2> QED BY <1>1, <1>7, <2>1, <2>2
  <1>9. first \in [Slots -> Nat] /\ cnt \in [Slots -> Nat]  BY DEF Batch
  <1>10. \A s \in Slots : cnt[s] > 0 => first[s] >= 1 /\ first[s] + cnt[s] - 1 <= Len(r)
    BY <1>1, <1>6, <1>9 DEF Batch
  <1>11. ASSUME NEW i \in 1..Len(r), NEW s \in Slots
         PROVE  (~r[i].pad /\ r[i].req = s) <=> (first[s] <= i /\ i < first[s] + cnt[s])
    <2>1. CASE i \in 1..Len(q) /\ r[i] = l[i]  BY <1>2, <2>1 DEF Batch
    <2>2. CASE i > Len(q) /\ r[i].pad
      <3>1. first[s] \in Nat /\ cnt[s] \in Nat /\ (cnt[s] > 0 => first[s] + cnt[s] - 1 <= Len(q))
        BY <1>9 DEF Batch
      <3> QED BY <1>1, <1>7, <2>2, <3>1
    <2> QED BY <1>8, <2>1, <2>2
  <1>12. ASSUME NEW i \in 1..Len(r), ~r[i].pad
         PROVE  r[i].req \in Slots /\ r[i].floor = 0 /\ r[i].pos = len[r[i].req] + i - first[r[i].req]
    <2>1. i \in 1..Len(q) /\ r[i] = l[i]  BY <1>8, <1>12
    <2>2. q[i].req \in Slots  BY <1>1, <2>1 DEF Query
    <2>3. r[i].req = q[i].req /\ r[i].pos = q[i].pos /\ r[i].floor = q[i].floor  BY <1>2, <2>1
    <2>4. q[i].floor = 0 /\ q[i].pos = len[q[i].req] + i - first[q[i].req]  BY <2>1 DEF Batch
    <2> QED BY <2>2, <2>3, <2>4
  <1> USE DEF r, l
  <1>13. Rectangle(r, first, cnt)  BY <1>7, <1>9, <1>10, <1>11, <1>12 DEF Rectangle
  <1> QED BY <1>13

\* c queries of slot s from position from on.
IsPart(part, s, from, c, f) ==
    /\ part \in Seq(Query) /\ Len(part) = c
    /\ \A i \in 1..c : part[i].req = s /\ part[i].pos = from + i - 1 /\ part[i].floor = f

LEMMA QueriesSeq ==
  ASSUME NEW s \in Slots, NEW from \in Nat, NEW c \in Nat, NEW f \in Nat
  PROVE  IsPart(Queries(s, from, from + c, f), s, from, c, f)
  <1> DEFINE part == Queries(s, from, from + c, f)
  <1>1. part = [i \in 1..c |-> [req |-> s, pos |-> from + i - 1, floor |-> f]]
    <2>1. from + c - from = c  OBVIOUS
    <2> QED BY <2>1 DEF Queries
  <1>2. part \in [1..c -> Query]  BY <1>1 DEF Query
  <1>3. part \in Seq(Query)  BY <1>2, SeqDef
  <1>4. Len(part) \in Nat /\ DOMAIN part = 1..Len(part) /\ DOMAIN part = 1..c
    BY <1>2, <1>3, LenProperties
  <1> HIDE DEF part
  <1>5. Len(part) = c  BY <1>4, SameInterval
  <1>6. \A i \in 1..c : part[i].req = s /\ part[i].pos = from + i - 1 /\ part[i].floor = f  BY <1>1
  <1>7. IsPart(part, s, from, c, f)  BY <1>3, <1>5, <1>6 DEF IsPart
  <1> QED BY <1>7 DEF part

LEMMA QueriesNone ==
  ASSUME NEW s \in Slots, NEW from \in Nat, NEW c \in Nat, NEW f \in Nat
  PROVE  c = 0 => Queries(s, from, from + c, f) = <<>>
  <1> DEFINE part == Queries(s, from, from + c, f)
  <1>1. part \in Seq(Query) /\ Len(part) = c  BY QueriesSeq DEF IsPart
  <1> HIDE DEF part
  <1>2. c = 0 => part = <<>>  BY <1>1, EmptySeq
  <1> QED BY <1>2 DEF part

\* cnt[s] queries of each slot, one slot after the other, from position from[s] on.
Spread(cnt, from, floor) == InOrder([s \in Slots |-> Queries(s, from[s], from[s] + cnt[s], floor[s])])
Firsts(cnt) == [s \in Slots |-> IF s = 1 THEN 1 ELSE 1 + cnt[1]]
Total(cnt) == IF NumSlots = 1 THEN cnt[1] ELSE cnt[1] + cnt[2]
NoFloor == [s \in Slots |-> 0]

LaidOut(q, cnt, from, floor) ==
    LET first == Firsts(cnt) IN
    /\ q \in Seq(Query) /\ first \in [Slots -> Nat] /\ Len(q) = Total(cnt)
    /\ \A s \in Slots : cnt[s] > 0 => first[s] >= 1 /\ first[s] + cnt[s] - 1 <= Len(q)
    /\ \A i \in 1..Len(q) : \A s \in Slots : q[i].req = s <=> (first[s] <= i /\ i < first[s] + cnt[s])
    /\ \A i \in 1..Len(q) : q[i].floor = floor[q[i].req] /\ q[i].pos = from[q[i].req] + i - first[q[i].req]

LEMMA SpreadLaid ==
  ASSUME NEW cnt \in [Slots -> Nat], NEW from \in [Slots -> Nat], NEW floor \in [Slots -> Nat]
  PROVE  LaidOut(Spread(cnt, from, floor), cnt, from, floor)
  <1> DEFINE q == Spread(cnt, from, floor)
             f == Firsts(cnt)
  <1>1. 1 \in Slots /\ (NumSlots = 1 => Slots = {1}) /\ (NumSlots # 1 => Slots = {1, 2})
    BY RingAssumption DEF Slots
  <1>2. f \in [Slots -> Nat] /\ f[1] = 1 /\ (2 \in Slots => f[2] = 1 + cnt[1])  BY <1>1 DEF Firsts
  <1> DEFINE P1 == Queries(1, from[1], from[1] + cnt[1], floor[1])
             P2 == Queries(2, from[2], from[2] + cnt[2], floor[2])
  <1>3. /\ P1 \in Seq(Query) /\ Len(P1) = cnt[1]
        /\ \A i \in 1..cnt[1] : P1[i].req = 1 /\ P1[i].pos = from[1] + i - 1 /\ P1[i].floor = floor[1]
    <2>1. from[1] \in Nat /\ cnt[1] \in Nat /\ floor[1] \in Nat  BY <1>1
    <2>2. IsPart(P1, 1, from[1], cnt[1], floor[1])  BY <1>1, <2>1, QueriesSeq
    <2> HIDE DEF P1
    <2> QED BY <2>2 DEF IsPart
  <1>4. CASE NumSlots = 1
    <2>1. q = P1  BY <1>1, <1>4 DEF Spread, InOrder
    <2>2. Len(q) = cnt[1] /\ q \in Seq(Query)  BY <1>3, <2>1
    <2> HIDE DEF q, f, P1, P2
    <2>3. \A i \in 1..Len(q) : q[i].req = 1 /\ q[i].pos = from[1] + i - 1 /\ q[i].floor = floor[1]
      BY <1>3, <2>1, <2>2
    <2>4. cnt[1] \in Nat /\ from[1] \in Nat /\ Slots = {1}  BY <1>1, <1>4
    <2>5. \A s \in Slots : cnt[s] > 0 => f[s] >= 1 /\ f[s] + cnt[s] - 1 <= Len(q)
      BY <1>2, <2>2, <2>4
    <2>6. \A i \in 1..Len(q) : \A s \in Slots : q[i].req = s <=> (f[s] <= i /\ i < f[s] + cnt[s])
      BY <1>2, <2>2, <2>3, <2>4
    <2>7. \A i \in 1..Len(q) : q[i].floor = floor[q[i].req] /\ q[i].pos = from[q[i].req] + i - f[q[i].req]
      BY <1>2, <2>2, <2>3, <2>4
    <2>8. LaidOut(q, cnt, from, floor)  BY <1>2, <1>4, <2>2, <2>5, <2>6, <2>7 DEF LaidOut, Total, f
    <2> QED BY <2>8 DEF q, f
  <1>5. CASE NumSlots # 1
    <2>0. 2 \in Slots  BY <1>1, <1>5
    <2>1. /\ P2 \in Seq(Query) /\ Len(P2) = cnt[2]
          /\ \A i \in 1..cnt[2] : P2[i].req = 2 /\ P2[i].pos = from[2] + i - 1 /\ P2[i].floor = floor[2]
      <3>1. from[2] \in Nat /\ cnt[2] \in Nat /\ floor[2] \in Nat  BY <2>0
      <3>2. IsPart(P2, 2, from[2], cnt[2], floor[2])  BY <2>0, <3>1, QueriesSeq
      <3> HIDE DEF P2
      <3> QED BY <3>2 DEF IsPart
    <2>2. q = P1 \o P2  BY <1>1, <1>5 DEF Spread, InOrder
    <2> HIDE DEF q, f, P1, P2
    <2>3. /\ q \in Seq(Query) /\ Len(q) = cnt[1] + cnt[2]
          /\ \A i \in 1..Len(q) : q[i] = IF i <= cnt[1] THEN P1[i] ELSE P2[i - cnt[1]]
      <3>1. q \in Seq(Query) /\ Len(q) = Len(P1) + Len(P2)
        BY <1>3, <2>1, <2>2, ConcatProperties
      <3>2. \A i \in 1..Len(P1) + Len(P2) : q[i] = IF i <= Len(P1) THEN P1[i] ELSE P2[i - Len(P1)]
        BY <1>3, <2>1, <2>2, ConcatProperties
      <3> QED BY <1>3, <2>1, <3>1, <3>2
    <2>4. cnt[1] \in Nat /\ cnt[2] \in Nat /\ from[1] \in Nat /\ from[2] \in Nat  BY <1>1, <2>0
    <2>5. ASSUME NEW i \in 1..Len(q)
          PROVE  \/ i <= cnt[1] /\ q[i].req = 1 /\ q[i].pos = from[1] + i - 1 /\ q[i].floor = floor[1]
                 \/ i > cnt[1] /\ q[i].req = 2 /\ q[i].pos = from[2] + (i - cnt[1]) - 1 /\ q[i].floor = floor[2]
      <3>1. CASE i <= cnt[1]
        <4>1. i \in 1..cnt[1]  BY <2>3, <2>4, <3>1
        <4>2. q[i] = P1[i]  BY <2>3, <3>1
        <4> QED BY <1>3, <3>1, <4>1, <4>2
      <3>2. CASE i > cnt[1]
        <4>1. i - cnt[1] \in 1..cnt[2] /\ ~(i <= cnt[1])  BY <2>3, <2>4, <3>2
        <4>2. q[i] = P2[i - cnt[1]]  BY <2>3, <4>1
        <4> QED BY <2>1, <3>2, <4>1, <4>2
      <3> QED BY <2>4, <3>1, <3>2
    <2>6. \A s \in Slots : cnt[s] > 0 => f[s] >= 1 /\ f[s] + cnt[s] - 1 <= Len(q)
      <3>1. Slots = {1, 2} /\ f[1] = 1 /\ f[2] = 1 + cnt[1] /\ Len(q) = cnt[1] + cnt[2]
        BY <1>1, <1>2, <1>5, <2>0, <2>3
      <3> QED BY <2>4, <3>1
    <2>7. ASSUME NEW i \in 1..Len(q), NEW s \in Slots
          PROVE  q[i].req = s <=> (f[s] <= i /\ i < f[s] + cnt[s])
      <3>1. s = 1 \/ s = 2  BY <1>1, <1>5
      <3>2. i \in Nat /\ i >= 1 /\ i <= cnt[1] + cnt[2]  BY <2>3, <2>4
      <3>3. CASE s = 1  BY <1>2, <2>0, <2>4, <2>5, <3>2, <3>3
      <3>4. CASE s = 2
        <4>1. f[s] = 1 + cnt[1] /\ cnt[s] = cnt[2]  BY <1>2, <2>0, <3>4
        <4>2. (i <= cnt[1] /\ q[i].req = 1) \/ (i > cnt[1] /\ q[i].req = 2)  BY <2>5
        <4> QED BY <2>4, <3>2, <3>4, <4>1, <4>2
      <3> QED BY <3>1, <3>3, <3>4
    <2>8. ASSUME NEW i \in 1..Len(q)
          PROVE  q[i].floor = floor[q[i].req] /\ q[i].pos = from[q[i].req] + i - f[q[i].req]
      <3>1. f[1] = 1 /\ f[2] = 1 + cnt[1] /\ i \in Int  BY <1>2, <2>0, <2>3, <2>4
      <3>2. CASE q[i].req = 1  BY <2>4, <2>5, <3>1, <3>2
      <3>3. CASE q[i].req = 2  BY <2>4, <2>5, <3>1, <3>3
      <3> QED BY <2>5, <3>2, <3>3
    <2>9. LaidOut(q, cnt, from, floor)  BY <1>2, <1>5, <2>3, <2>6, <2>7, <2>8 DEF LaidOut, Total, f
    <2> QED BY <2>9 DEF q, f
  <1> QED BY <1>4, <1>5

LEMMA SpreadBatch ==
  ASSUME len \in [Slots -> Nat], NEW cnt \in [Slots -> Nat]
  PROVE  Batch(Spread(cnt, len, NoFloor), Firsts(cnt), cnt)
  <1> DEFINE q == Spread(cnt, len, NoFloor)
  <1>1. NoFloor \in [Slots -> Nat]  BY DEF NoFloor
  <1>2. LaidOut(q, cnt, len, NoFloor)  BY <1>1, SpreadLaid
  <1> HIDE DEF q
  <1>3. ASSUME NEW i \in 1..Len(q)  PROVE q[i].req \in Slots
    <2>1. q[i] \in Query  BY <1>2, ElementOfSeq DEF LaidOut
    <2> QED BY <2>1 DEF Query
  <1>4. Batch(q, Firsts(cnt), cnt)  BY <1>2, <1>3 DEF LaidOut, Batch, NoFloor
  <1> QED BY <1>4 DEF q
----------------------------------------------------------------------------
(* The inductive invariant: between forwards both promises hold of the     *)
(* lengths; while a forward runs they hold of its outcome, fwd.kept, from  *)
(* the moment its compressor has run.                                      *)

TypeInv ==
    /\ epoch \in [Slots -> Nat] /\ len \in [Slots -> Nat]
    /\ fwd \in [kind : {"none", "replay", "extend", "verify"}, layer : {0, 1, 2},
                step : {"", "buffer", "attend", "missing"}, block : Nat, kept : [Slots -> Nat]]

Settled(n) == HeldAs(n, pending) /\ ExactAs(n, pairs)

\* The rows of the forward that is about to be compressed.
Laid ==
    \E cnt \in [Slots -> Nat] :
        /\ layout = Spread(cnt, len, NoFloor) /\ Reach(cnt, fwd.kept)
        /\ fwd.kind = "verify" => Blocks(Firsts(cnt), cnt, fwd.block)

Compressing == fwd.layer = 1 /\ fwd.step = "buffer"

IInv ==
    /\ TypeInv
    /\ fwd.kind = "none" => fwd.step = "" /\ Settled(len)
    /\ fwd.kind # "none" /\ Compressing =>
        Settled(len) /\ (IF fwd.kind = "replay" THEN fwd.kept = len ELSE Laid)
    /\ fwd.kind # "none" /\ ~Compressing => Settled(fwd.kept)

LEMMA MaxOfTwo ==
  ASSUME NEW a \in Int, NEW b \in Int
  PROVE  Max({a, b}) \in {a, b} /\ Max({a, b}) >= a /\ Max({a, b}) >= b
  <1>1. \E x \in {a, b} : \A y \in {a, b} : x >= y  OBVIOUS
  <1> QED BY <1>1 DEF Max

LEMMA MaxOne ==
  ASSUME NEW n \in Nat
  PROVE  Max({1, n}) \in {1, n} /\ Max({1, n}) >= 1 /\ Max({1, n}) >= n
  BY MaxOfTwo

LEMMA MaxDraft ==
  ASSUME RingWide
  PROVE  Max({1, Draft}) \in Nat /\ Max({1, Draft}) >= 1 /\ Max({1, Draft}) < ring_size
  <1>1. Draft \in Nat  BY RingAssumption
  <1>2. Max({1, Draft}) \in {1, Draft} /\ Max({1, Draft}) >= 1  BY <1>1, MaxOne
  <1> QED BY <1>1, <1>2 DEF RingWide

LEMMA LastAdmitted ==
  ASSUME epoch \in [Slots -> Nat]
  PROVE  admitted \in Nat /\ \A s \in Slots : epoch[s] <= admitted
  <1> DEFINE E == {epoch[s] : s \in Slots}
  <1>1. Slots = {1} \/ Slots = {1, 2}  BY RingAssumption DEF Slots
  <1>2. \E x \in E : \A y \in E : x >= y
    <2>1. CASE Slots = {1}  BY <2>1
    <2>2. CASE Slots = {1, 2}
      <3>1. epoch[1] \in Nat /\ epoch[2] \in Nat /\ E = {epoch[1], epoch[2]}  BY <2>2
      <3> QED BY <3>1
    <2> QED BY <1>1, <2>1, <2>2
  <1>3. Max(E) \in E /\ \A y \in E : Max(E) >= y
    <2> HIDE DEF E
    <2> QED BY <1>2 DEF Max
  <1>4. admitted = Max(E)  BY DEF admitted
  <1>5. E \subseteq Nat  OBVIOUS
  <1>6. ASSUME NEW s \in Slots  PROVE epoch[s] \in E
    OBVIOUS
  <1> HIDE DEF E
  <1> QED BY <1>3, <1>4, <1>5, <1>6

LEMMA EvenPrefix ==
  ASSUME NEW c \in Nat, c % page_size = 0
  PROVE  c % 2 = 0
  <1>1. page_size \in Nat /\ page_size > 0 /\ page_size % 2 = 0  BY RingAssumption, EvenPages
  <1> DEFINE k == c \div page_size
             h == page_size \div 2
  <1>2. k \in Int /\ h \in Int  BY <1>1
  <1>3. c = page_size * k /\ page_size = 2 * h  BY <1>1
  <1> HIDE DEF k, h
  <1>4. c = 2 * (h * k) /\ h * k \in Int  BY <1>2, <1>3
  <1> DEFINE m == h * k
  <1> HIDE DEF m
  <1>5. c = 2 * m /\ m \in Int  BY <1>4 DEF m
  <1> QED BY <1>5

LEMMA CompressStep ==
  ASSUME TypeInv, RingWide, Settled(len), Laid, fwd.kind # "none", fwd.kind # "replay", Compress(layout)
  PROVE  HeldAs(fwd.kept, pending') /\ ExactAs(fwd.kept, pairs')
  <1>1. PICK cnt \in [Slots -> Nat] :
           /\ layout = Spread(cnt, len, NoFloor) /\ Reach(cnt, fwd.kept)
           /\ fwd.kind = "verify" => Blocks(Firsts(cnt), cnt, fwd.block)
    BY DEF Laid
  <1>2. len \in [Slots -> Nat] /\ fwd.block \in Nat  BY DEF TypeInv
  <1>3. Batch(layout, Firsts(cnt), cnt)  BY <1>1, <1>2, SpreadBatch
  <1>4. Max({1, fwd.block}) \in Nat  BY <1>2, MaxOne
  <1>5. PICK pads \in {<<>>} \cup Padding(Max({1, fwd.block})) :
           \/ CompressTorch(Live(layout) \o pads)
           \/ fused /\ CompressFused(Live(layout) \o pads, fwd.block)
    BY DEF Compress
  <1>6. Rectangle(Live(layout) \o pads, Firsts(cnt), cnt)  BY <1>3, <1>4, PaddedBatch
  <1>7. HeldAs(len, pending) /\ ExactAs(len, pairs)  BY DEF Settled
  <1>8. CASE CompressTorch(Live(layout) \o pads)
    BY <1>1, <1>2, <1>6, <1>7, <1>8, TorchStep
  <1>9. CASE fused /\ CompressFused(Live(layout) \o pads, fwd.block)
    <2>1. Blocks(Firsts(cnt), cnt, fwd.block)  BY <1>1, <1>9 DEF fused
    <2> QED BY <1>1, <1>2, <1>6, <1>7, <1>9, <2>1, FusedStep
  <1> QED BY <1>5, <1>8, <1>9

\* A forward that starts keeps both promises; its rows are laid out.
LEMMA StartStep ==
  ASSUME IInv, NEW kind \in {"replay", "extend", "verify"}, NEW q, NEW kept \in [Slots -> Nat], NEW b \in Nat,
         Start(kind, q, kept, b), UNCHANGED <<pending, pairs>>,
         IF kind = "replay" THEN kept = len
         ELSE \E cnt \in [Slots -> Nat] : /\ q = Spread(cnt, len, NoFloor) /\ Reach(cnt, kept)
                                          /\ kind = "verify" => Blocks(Firsts(cnt), cnt, b)
  PROVE  IInv'
  <1>1. /\ fwd' = [kind |-> kind, layer |-> 1, step |-> "buffer", block |-> b, kept |-> kept]
        /\ layout' = q /\ epoch' = epoch /\ len' = len /\ fwd.kind = "none"
    BY DEF Start
  <1>2. /\ fwd'.kind = kind /\ fwd'.layer = 1 /\ fwd'.step = "buffer" /\ fwd'.block = b /\ fwd'.kept = kept
    BY <1>1
  <1>3. TypeInv'  BY <1>1 DEF IInv, TypeInv
  <1>4. Settled(len)'
    BY <1>1 DEF IInv, Settled, HeldAs, ExactAs, Own
  <1>5. CASE kind = "replay"
    BY <1>1, <1>2, <1>3, <1>4, <1>5 DEF IInv, Compressing
  <1>6. CASE kind # "replay"
    <2>1. PICK cnt \in [Slots -> Nat] : /\ q = Spread(cnt, len, NoFloor) /\ Reach(cnt, kept)
                                        /\ kind = "verify" => Blocks(Firsts(cnt), cnt, b)
      BY <1>6
    <2>2. Spread(cnt, len, NoFloor)' = Spread(cnt, len, NoFloor)  BY <1>1 DEF Spread
    <2>3. Reach(cnt, fwd.kept)'  BY <1>1, <1>2, <2>1 DEF Reach
    <2>4. Laid'  BY <1>1, <1>2, <2>1, <2>2, <2>3 DEF Laid, Firsts, Blocks
    <2> QED BY <1>1, <1>2, <1>3, <1>4, <1>6, <2>4 DEF IInv, Compressing
  <1> QED BY <1>5, <1>6

LEMMA ExtendStep ==
  ASSUME IInv, RingWide, NEW n \in [Slots -> 0..ChunkSize], Extend(n), UNCHANGED <<pending, pairs>>
  PROVE  IInv'
  <1>1. len \in [Slots -> Nat] /\ ChunkSize \in Nat  BY RingAssumption DEF IInv, TypeInv
  <1>2. n \in [Slots -> Nat]  BY <1>1
  <1> DEFINE kept == [s \in Slots |-> len[s] + n[s]]
  <1>3. kept \in [Slots -> Nat]  BY <1>1, <1>2
  <1>4. Start("extend", Spread(n, len, NoFloor), kept, 0)  BY DEF Extend, Spread, NoFloor
  <1>5. Reach(n, kept)  BY <1>1, <1>2, <1>3 DEF Reach, RingWide
  <1> HIDE DEF kept
  <1> QED BY <1>2, <1>3, <1>4, <1>5, StartStep

LEMMA VerifyStep ==
  ASSUME IInv, RingWide, NEW B \in SUBSET Slots, NEW k \in 1..Max({1, Draft}), NEW a \in [B -> 1..k],
         Verify(B, k, a), UNCHANGED <<pending, pairs>>
  PROVE  IInv'
  <1>1. len \in [Slots -> Nat]  BY DEF IInv, TypeInv
  <1>2. k \in Nat /\ k >= 1 /\ k < ring_size /\ ring_size \in Nat  BY MaxDraft DEF RingWide
  <1> DEFINE kept == [s \in Slots |-> IF s \in B THEN len[s] + a[s] ELSE len[s]]
             cnt == [s \in Slots |-> IF s \in B THEN k ELSE 0]
             part == [s \in Slots |-> IF s \in B THEN Queries(s, len[s], len[s] + k, 0) ELSE <<>>]
  <1>3. kept \in [Slots -> Nat] /\ cnt \in [Slots -> Nat]  BY <1>1, <1>2
  <1>4. ASSUME NEW s \in Slots  PROVE part[s] = Queries(s, len[s], len[s] + cnt[s], 0)
    <2>1. CASE s \in B  BY <2>1
    <2>2. CASE s \notin B
      <3>1. cnt[s] = 0 /\ len[s] \in Nat  BY <1>1, <2>2
      <3> QED BY <2>2, <3>1, QueriesNone
    <2> QED BY <2>1, <2>2
  <1>5. 1 \in Slots /\ (NumSlots # 1 => 2 \in Slots)  BY RingAssumption DEF Slots
  <1>6. Start("verify", InOrder(part), kept, k)  BY DEF Verify
  <1> HIDE DEF part, kept
  <1>7. Start("verify", Spread(cnt, len, NoFloor), kept, k)  BY <1>4, <1>5, <1>6 DEF Spread, InOrder, NoFloor
  <1>8. Reach(cnt, kept)
    <2> USE DEF kept
    <2>1. ASSUME NEW s \in Slots
          PROVE  IF cnt[s] = 0 THEN kept[s] = len[s]
                 ELSE /\ len[s] < kept[s] /\ kept[s] <= len[s] + cnt[s]
                      /\ len[s] + cnt[s] - kept[s] < ring_size
      <3>1. CASE s \in B
        <4>1. a[s] \in 1..k /\ len[s] \in Nat /\ kept[s] = len[s] + a[s] /\ cnt[s] = k  BY <1>1, <3>1
        <4> QED BY <1>2, <4>1
      <3>2. CASE s \notin B  BY <1>1, <3>2
      <3> QED BY <3>1, <3>2
    <2> QED BY <1>3, <2>1 DEF Reach
  <1>9. Blocks(Firsts(cnt), cnt, k)
    <2>1. ASSUME NEW s \in Slots, cnt[s] > 0  PROVE cnt[s] = k /\ (Firsts(cnt)[s] - 1) % k = 0
      <3>1. cnt[s] = k  BY <2>1
      <3>2. Firsts(cnt)[s] - 1 = 0 \/ Firsts(cnt)[s] - 1 = k
        <4>1. cnt[1] = k \/ cnt[1] = 0  BY <1>5
        <4> HIDE DEF cnt
        <4>2. Firsts(cnt)[s] = 1 \/ Firsts(cnt)[s] = 1 + cnt[1]  BY DEF Firsts
        <4> QED BY <1>2, <4>1, <4>2
      <3>3. 0 % k = 0 /\ k % k = 0
        <4>1. k = k * 1 + 0  BY <1>2
        <4> QED BY <1>2, <4>1
      <3> QED BY <3>1, <3>2, <3>3
    <2> QED BY <1>2, <2>1 DEF Blocks
  <1> HIDE DEF cnt
  <1> QED BY <1>2, <1>3, <1>7, <1>8, <1>9, StartStep

LEMMA ReplayStep ==
  ASSUME IInv, NEW s \in Slots, Replay(s), UNCHANGED <<pending, pairs>>
  PROVE  IInv'
  <1>1. len \in [Slots -> Nat]  BY DEF IInv, TypeInv
  <1>2. PICK q : Start("replay", q, len, 0)  BY DEF Replay
  <1> QED BY <1>1, <1>2, StartStep

\* The prefix of an admitted request is even, so that it leaves no token
\* pending; its latents come with it.
LEMMA AdmitStep ==
  ASSUME IInv, NEW s \in Slots, NEW n \in 1..MaxLen, NEW c \in 0..MaxLen, RingsAdmit(s, n, c)
  PROVE  IInv'
  <1>1. MaxLen \in Nat /\ c \in Nat  BY RingAssumption
  <1>2. c % 2 = 0  BY <1>1, EvenPrefix DEF RingsAdmit
  <1>3. /\ fwd.kind = "none" /\ fwd' = fwd /\ pending' = pending
        /\ epoch' = [epoch EXCEPT ![s] = admitted + 1] /\ len' = [len EXCEPT ![s] = c]
    BY DEF RingsAdmit, Admit
  <1>4. epoch \in [Slots -> Nat] /\ len \in [Slots -> Nat] /\ admitted \in Nat
    BY LastAdmitted DEF IInv, TypeInv
  <1>5. /\ epoch'[s] = admitted + 1 /\ len'[s] = c
        /\ \A t \in Slots \ {s} : epoch'[t] = epoch[t] /\ len'[t] = len[t]
    BY <1>3, <1>4
  <1>6. TypeInv'
    <2>1. admitted + 1 \in Nat  BY <1>4
    <2>2. epoch' \in [Slots -> Nat] /\ len' \in [Slots -> Nat]
      <3> DEFINE e == admitted + 1
      <3> HIDE DEF e
      <3>1. e \in Nat /\ epoch' = [epoch EXCEPT ![s] = e]  BY <1>3, <2>1 DEF e
      <3> QED BY <1>1, <1>3, <1>4, <3>1
    <2> QED BY <1>3, <2>2 DEF IInv, TypeInv
  <1>7. HeldAs(len, pending) /\ ExactAs(len, pairs) /\ fwd.step = ""  BY <1>3 DEF IInv, Settled
  <1>8. HeldAs(len, pending)'
    <2>1. SUFFICES ASSUME NEW t \in Slots, epoch'[t] > 0, len'[t] % 2 = 1
                   PROVE  pending'[<<t, (len'[t] - 1) % ring_size>>] = Own(t, len[t] - 1)'
      BY DEF HeldAs
    <2>2. t # s  BY <1>2, <1>5, <2>1
    <2> QED BY <1>3, <1>5, <1>7, <2>1, <2>2 DEF HeldAs, Own
  <1>9. ExactAs(len, pairs)'
    <2>1. SUFFICES ASSUME NEW t \in Slots, epoch'[t] > 0, NEW j \in Pairs, 2 * j + 1 < len'[t]
                   PROVE  pairs'[t][j] = <<Own(t, 2 * j)', Own(t, 2 * j + 1)'>>
      BY DEF ExactAs
    <2>2. CASE t = s
      <3>1. pairs'[t][j] = <<Accepted(admitted + 1, 2 * j), Accepted(admitted + 1, 2 * j + 1)>>
        BY <1>5, <2>1, <2>2 DEF RingsAdmit
      <3>2. Own(t, 2 * j)' = Accepted(admitted + 1, 2 * j) /\ Own(t, 2 * j + 1)' = Accepted(admitted + 1, 2 * j + 1)
        BY <1>5, <2>2 DEF Own, Accepted
      <3> QED BY <3>1, <3>2
    <2>3. CASE t # s
      <3>1. pairs'[t] = pairs[t]  BY <2>3 DEF RingsAdmit
      <3>2. epoch'[t] = epoch[t] /\ len'[t] = len[t]  BY <1>5, <2>3
      <3>3. pairs[t][j] = <<Own(t, 2 * j), Own(t, 2 * j + 1)>>  BY <1>7, <2>1, <3>2 DEF ExactAs
      <3> QED BY <3>1, <3>2, <3>3 DEF Own, Accepted
    <2> QED BY <2>2, <2>3
  <1> QED BY <1>3, <1>6, <1>7, <1>8, <1>9 DEF IInv, Settled

LEMMA BufferStep ==
  ASSUME IInv, RingWide, RingsBuffer
  PROVE  IInv'
  <1>1. PICK step \in {"missing", "attend"} :
          /\ fwd.step = "buffer" /\ fwd' = [fwd EXCEPT !.step = step]
          /\ epoch' = epoch /\ len' = len /\ layout' = layout
    BY DEF RingsBuffer, Buffer
  <1>2. /\ fwd'.kind = fwd.kind /\ fwd'.layer = fwd.layer /\ fwd'.step = step /\ fwd'.kept = fwd.kept
        /\ fwd.kind # "none" /\ ~Compressing'
    BY <1>1 DEF IInv, TypeInv, Compressing
  <1>3. TypeInv'  BY <1>1, <1>2 DEF IInv, TypeInv
  <1>4. HeldAs(fwd.kept, pending') /\ ExactAs(fwd.kept, pairs')
    <2>1. CASE run_compressor
      <3>1. fwd.kind # "replay" /\ Compressing  BY <1>1, <2>1 DEF run_compressor, Compressing
      <3>2. TypeInv /\ Settled(len) /\ Laid  BY <1>2, <3>1 DEF IInv
      <3>3. Compress(layout)  BY <2>1 DEF RingsBuffer
      <3> QED BY <1>2, <3>1, <3>2, <3>3, CompressStep
    <2>2. CASE ~run_compressor
      <3>1. pending' = pending /\ pairs' = pairs  BY <2>2 DEF RingsBuffer
      <3>2. Settled(fwd.kept)
        <4>1. CASE Compressing
          <5>1. fwd.kind = "replay"  BY <2>2, <4>1 DEF run_compressor, Compressing
          <5> QED BY <1>2, <4>1, <5>1 DEF IInv
        <4>2. CASE ~Compressing  BY <1>2, <4>2 DEF IInv
        <4> QED BY <4>1, <4>2
      <3> QED BY <3>1, <3>2 DEF Settled
    <2> QED BY <2>1, <2>2
  <1>5. Settled(fwd.kept)'
    BY <1>1, <1>2, <1>4 DEF Settled, HeldAs, ExactAs, Own
  <1> QED BY <1>2, <1>3, <1>5 DEF IInv

LEMMA CommitStep ==
  ASSUME IInv, Commit, UNCHANGED <<pending, pairs>>
  PROVE  IInv'
  <1>1. fwd.step = "attend" /\ epoch' = epoch  BY DEF Commit
  <1>2. \/ /\ fwd.layer = 1 /\ fwd' = [fwd EXCEPT !.layer = 2, !.step = "buffer"] /\ len' = len
        \/ fwd' = Idle /\ len' = fwd.kept
    BY Zenon DEF Commit
  <1>3. fwd.kind # "none" /\ Settled(fwd.kept) /\ fwd.kept \in [Slots -> Nat]
    BY <1>1 DEF IInv, TypeInv, Compressing
  <1>4. CASE fwd.layer = 1 /\ fwd' = [fwd EXCEPT !.layer = 2, !.step = "buffer"] /\ len' = len
    <2>1. fwd'.kind = fwd.kind /\ fwd'.layer = 2 /\ fwd'.kept = fwd.kept  BY <1>4 DEF IInv, TypeInv
    <2>2. TypeInv'  BY <1>1, <1>4 DEF IInv, TypeInv
    <2>3. Settled(fwd.kept)'  BY <1>1, <1>3, <2>1 DEF Settled, HeldAs, ExactAs, Own
    <2>4. fwd'.kind # "none" /\ ~Compressing'  BY <1>3, <2>1 DEF Compressing
    <2> QED BY <2>2, <2>3, <2>4 DEF IInv
  <1>5. CASE fwd' = Idle /\ len' = fwd.kept
    <2>1. fwd'.kind = "none" /\ fwd'.step = ""  BY <1>5 DEF Idle
    <2>2. TypeInv'  BY <1>1, <1>3, <1>5 DEF IInv, TypeInv, Idle
    <2>3. Settled(len)'  BY <1>1, <1>3, <1>5 DEF Settled, HeldAs, ExactAs, Own
    <2> QED BY <2>1, <2>2, <2>3 DEF IInv
  <1> QED BY <1>2, <1>4, <1>5

LEMMA InitIInv == RingsInit => IInv
  <1> SUFFICES ASSUME RingsInit  PROVE IInv
    OBVIOUS
  <1>1. /\ epoch = [s \in Slots |-> 0] /\ len = [s \in Slots |-> 0] /\ fwd = Idle
    BY DEF RingsInit, Init
  <1>2. TypeInv  BY <1>1 DEF TypeInv, Idle
  <1>3. Settled(len)  BY <1>1 DEF Settled, HeldAs, ExactAs
  <1> QED BY <1>1, <1>2, <1>3 DEF IInv, Idle

LEMMA NextIInv ==
  ASSUME IInv, RingWide, [RingsNext]_ringVars
  PROVE  IInv'
  <1>1. ASSUME NEW s \in Slots, NEW n \in 1..MaxLen, NEW c \in 0..MaxLen, RingsAdmit(s, n, c)  PROVE IInv'
    BY <1>1, AdmitStep
  <1>2. CASE RingsBuffer  BY <1>2, BufferStep
  <1>3. CASE Forward /\ UNCHANGED <<pending, pairs>>
    <2>1. ASSUME NEW s \in Slots, Replay(s)  PROVE IInv'
      BY <1>3, <2>1, ReplayStep
    <2>2. ASSUME NEW n \in [Slots -> 0..ChunkSize], Extend(n)  PROVE IInv'
      BY <1>3, <2>2, ExtendStep
    <2>3. ASSUME NEW B \in (SUBSET Slots) \ {{}}, NEW k \in 1..Max({1, Draft}), NEW a \in [B -> 1..k], Verify(B, k, a)
          PROVE  IInv'
      BY <1>3, <2>3, VerifyStep
    <2> QED BY <1>3, <2>1, <2>2, <2>3 DEF Forward
  <1>4. CASE Commit /\ UNCHANGED <<pending, pairs>>  BY <1>4, CommitStep
  <1>5. CASE UNCHANGED ringVars
    <2>1. /\ epoch' = epoch /\ len' = len /\ fwd' = fwd /\ layout' = layout /\ pending' = pending /\ pairs' = pairs
      BY <1>5 DEF ringVars, vars
    <2>2. TypeInv' /\ (Settled(len)' <=> Settled(len)) /\ (Settled(fwd.kept)' <=> Settled(fwd.kept))
      BY <2>1 DEF IInv, TypeInv, Settled, HeldAs, ExactAs, Own
    <2>3. Laid' <=> Laid
      BY <2>1 DEF Laid, Spread, Reach, Blocks, Firsts
    <2> QED BY <2>1, <2>2, <2>3 DEF IInv, Compressing
  <1> QED BY <1>1, <1>2, <1>3, <1>4, <1>5 DEF RingsNext

\* A compressor writes no pair that was complete before the forward.
LEMMA CompressFinal ==
  ASSUME TypeInv, RingWide, Laid, Compress(layout),
         NEW s \in Slots, NEW j \in Pairs, 2 * j + 1 < len[s]
  PROVE  pairs'[s][j] = pairs[s][j]
  <1>1. PICK cnt \in [Slots -> Nat] : layout = Spread(cnt, len, NoFloor)  BY DEF Laid
  <1>2. len \in [Slots -> Nat] /\ fwd.block \in Nat  BY DEF TypeInv
  <1>3. Batch(layout, Firsts(cnt), cnt)  BY <1>1, <1>2, SpreadBatch
  <1>4. Max({1, fwd.block}) \in Nat  BY <1>2, MaxOne
  <1>5. PICK pads \in {<<>>} \cup Padding(Max({1, fwd.block})) :
           \/ CompressTorch(Live(layout) \o pads)
           \/ fused /\ CompressFused(Live(layout) \o pads, fwd.block)
    BY DEF Compress
  <1> DEFINE r == Live(layout) \o pads
  <1>6. Rectangle(r, Firsts(cnt), cnt)  BY <1>3, <1>4, PaddedBatch
  <1> HIDE DEF r
  <1>7. PICK partner : pairs' = Store(r, partner)
    <2>1. CASE CompressTorch(r)  BY <2>1 DEF CompressTorch
    <2>2. CASE CompressFused(r, fwd.block)  BY <2>2 DEF CompressFused
    <2> QED BY <1>5, <2>1, <2>2 DEF r
  <1> QED BY <1>2, <1>6, <1>7, StoreOld

(* PendingHeld for every window, page, draft and chunk size: the token a   *)
(* request of odd length waits with survives every chunking, rejected      *)
(* draft, padded row and wrap of the ring.                                 *)
THEOREM PendingAlwaysHeld == RingsSpec => []PendingHeld
  <1>1. RingsInit => IInv  BY InitIInv
  <1>2. IInv /\ [RingsNext]_ringVars => IInv'  BY RingIsWide, NextIInv
  <1>3. IInv => PendingHeld  BY DEF IInv, Settled, HeldAs, PendingHeld
  <1> QED BY <1>1, <1>2, <1>3, PTL DEF RingsSpec

(* PairsExact for the same instances: each pair of accepted positions has  *)
(* the latent of its own two tokens, by either compressor.                 *)
THEOREM PairsAlwaysExact == RingsSpec => []PairsExact
  <1>1. RingsInit => IInv  BY InitIInv
  <1>2. IInv /\ [RingsNext]_ringVars => IInv'  BY RingIsWide, NextIInv
  <1>3. IInv => PairsExact  BY DEF IInv, Settled, ExactAs, PairsExact
  <1> QED BY <1>1, <1>2, <1>3, PTL DEF RingsSpec

(* PairsFinal for the same instances: no step of a request writes a pair   *)
(* of its accepted positions again, a replay of its prefix included.       *)
THEOREM PairsStayFinal == RingsSpec => PairsFinal
  <1> DEFINE Kept == \A s \in Slots : epoch'[s] = epoch[s] =>
                        \A j \in Pairs : 2 * j + 1 < len[s] => pairs'[s][j] = pairs[s][j]
  <1>1. RingsInit => IInv  BY InitIInv
  <1>2. IInv /\ [RingsNext]_ringVars => IInv'  BY RingIsWide, NextIInv
  <1>3. IInv /\ [RingsNext]_ringVars => [Kept]_ringVars
    <2> SUFFICES ASSUME IInv, RingsNext  PROVE Kept
      OBVIOUS
    <2>1. ASSUME NEW t \in Slots, NEW n \in 1..MaxLen, NEW c \in 0..MaxLen, RingsAdmit(t, n, c)  PROVE Kept
      <3>1. epoch \in [Slots -> Nat]  BY DEF IInv, TypeInv
      <3>2. epoch' = [epoch EXCEPT ![t] = admitted + 1]  BY <2>1 DEF RingsAdmit, Admit
      <3>3. admitted \in Nat /\ epoch[t] <= admitted /\ epoch[t] \in Nat /\ epoch'[t] = admitted + 1
        BY <3>1, <3>2, LastAdmitted
      <3>4. epoch'[t] # epoch[t]  BY <3>3
      <3>5. \A s \in Slots : s # t => pairs'[s] = pairs[s]  BY <2>1 DEF RingsAdmit
      <3> QED BY <3>4, <3>5
    <2>2. CASE RingsBuffer
      <3>1. CASE run_compressor
        <4>1. fwd.kind # "none" /\ fwd.kind # "replay" /\ Compressing
          BY <2>2, <3>1 DEF RingsBuffer, Buffer, run_compressor, Compressing, IInv
        <4>2. TypeInv /\ Laid  BY <4>1 DEF IInv
        <4>3. Compress(layout)  BY <2>2, <3>1 DEF RingsBuffer
        <4> QED BY <4>2, <4>3, RingIsWide, CompressFinal
      <3>2. CASE ~run_compressor  BY <2>2, <3>2 DEF RingsBuffer
      <3> QED BY <3>1, <3>2
    <2>3. CASE (Forward \/ Commit) /\ UNCHANGED <<pending, pairs>>  BY <2>3
    <2> QED BY <2>1, <2>2, <2>3 DEF RingsNext
  <1> QED BY <1>1, <1>2, <1>3, PTL DEF RingsSpec, PairsFinal

----------------------------------------------------------------------------
(* The tensors of window_layout for queries laid out slot after slot. *)

Counts == [Slots -> Nat]

\* Query i is one of slot s.
RowIn(q, cnt, from, floor, i, s) ==
    /\ s \in Slots /\ q[i].req = s /\ cnt[s] > 0
    /\ Firsts(cnt)[s] <= i /\ i < Firsts(cnt)[s] + cnt[s]
    /\ q[i].pos = from[s] + i - Firsts(cnt)[s] /\ q[i].floor = floor[s]

LEMMA LaidType ==
  ASSUME NEW cnt \in Counts, NEW from, NEW floor, NEW q, LaidOut(q, cnt, from, floor)
  PROVE  /\ Len(q) \in Nat /\ DOMAIN q = 1..Len(q)
         /\ Firsts(cnt) \in [Slots -> Nat]
         /\ \A s \in Slots : cnt[s] > 0 => Firsts(cnt)[s] >= 1 /\ Firsts(cnt)[s] + cnt[s] - 1 <= Len(q)
  <1>1. q \in Seq(Query) /\ Firsts(cnt) \in [Slots -> Nat]  BY DEF LaidOut
  <1>2. Len(q) \in Nat /\ DOMAIN q = 1..Len(q)  BY <1>1, LenProperties
  <1> QED BY <1>1, <1>2 DEF LaidOut

LEMMA LaidRow ==
  ASSUME NEW cnt \in Counts, NEW from, NEW floor, NEW q, LaidOut(q, cnt, from, floor),
         NEW i \in 1..Len(q)
  PROVE  RowIn(q, cnt, from, floor, i, q[i].req)
  <1>1. q[i] \in Query  BY ElementOfSeq DEF LaidOut
  <1>2. q[i].req \in Slots  BY <1>1 DEF Query
  <1>3. Firsts(cnt)[q[i].req] <= i /\ i < Firsts(cnt)[q[i].req] + cnt[q[i].req]  BY <1>2 DEF LaidOut
  <1>4. cnt[q[i].req] > 0
    <2>1. Firsts(cnt)[q[i].req] \in Nat /\ cnt[q[i].req] \in Nat /\ i \in Int  BY <1>2, LaidType DEF Counts
    <2> QED BY <1>3, <2>1
  <1>5. q[i].pos = from[q[i].req] + i - Firsts(cnt)[q[i].req] /\ q[i].floor = floor[q[i].req]  BY DEF LaidOut
  <1> QED BY <1>2, <1>3, <1>4, <1>5 DEF RowIn

\* The rows from first[s] on are those of slot s.
LEMMA LaidAt ==
  ASSUME NEW cnt \in Counts, NEW from, NEW floor, NEW q, LaidOut(q, cnt, from, floor),
         NEW s \in Slots, NEW i \in Int, Firsts(cnt)[s] <= i, i < Firsts(cnt)[s] + cnt[s]
  PROVE  i \in 1..Len(q) /\ RowIn(q, cnt, from, floor, i, s)
  <1>1. Firsts(cnt)[s] \in Nat /\ cnt[s] \in Nat  BY LaidType DEF Counts
  <1>2. cnt[s] > 0  BY <1>1
  <1>3. Firsts(cnt)[s] >= 1 /\ Firsts(cnt)[s] + cnt[s] - 1 <= Len(q) /\ Len(q) \in Nat  BY <1>2, LaidType
  <1>4. i \in 1..Len(q)  BY <1>1, <1>3
  <1>5. q[i].req = s  BY <1>4 DEF LaidOut
  <1> QED BY <1>4, <1>5, LaidRow

LEMMA LaidStarts ==
  ASSUME NEW cnt \in Counts, NEW from, NEW floor, NEW q, LaidOut(q, cnt, from, floor),
         NEW i \in 1..Len(q)
  PROVE  Starts(q, i) <=> i = Firsts(cnt)[q[i].req]
  <1> DEFINE s == q[i].req
             f == Firsts(cnt)[s]
  <1>1. s \in Slots /\ cnt[s] > 0 /\ f <= i /\ i < f + cnt[s]  BY LaidRow DEF RowIn
  <1>2. f \in Nat /\ cnt[s] \in Nat /\ f >= 1 /\ i \in Nat  BY <1>1, LaidType DEF Counts
  <1> HIDE DEF s, f
  <1>3. CASE i = 1  BY <1>1, <1>2, <1>3 DEF Starts, s, f
  <1>4. CASE i # 1
    <2>1. i - 1 \in 1..Len(q)  BY <1>2, <1>4, LaidType
    <2>2. q[i - 1].req = s <=> (f <= i - 1 /\ i - 1 < f + cnt[s])  BY <1>1, <2>1 DEF LaidOut, f
    <2>3. q[i - 1].req = s <=> i # f  BY <1>1, <1>2, <2>2
    <2> QED BY <1>4, <2>3 DEF Starts, s, f
  <1> QED BY <1>3, <1>4

LEMMA MaxIs ==
  ASSUME NEW S \in SUBSET Int, NEW m \in S, \A x \in S : x <= m
  PROVE  Max(S) = m
  <1>1. Max(S) \in S /\ \A x \in S : Max(S) >= x
    <2>1. \E x \in S : \A y \in S : x >= y  OBVIOUS
    <2> QED BY <2>1 DEF Max
  <1>2. Max(S) \in Int /\ m \in Int /\ Max(S) <= m /\ m <= Max(S)  BY <1>1
  <1> QED BY <1>2

LEMMA MinIs ==
  ASSUME NEW S \in SUBSET Int, NEW m \in S, \A x \in S : m <= x
  PROVE  Min(S) = m
  <1>1. Min(S) \in S /\ \A x \in S : Min(S) <= x
    <2>1. \E x \in S : \A y \in S : x <= y  OBVIOUS
    <2> QED BY <2>1 DEF Min
  <1>2. Min(S) \in Int /\ m \in Int /\ Min(S) <= m /\ m <= Min(S)  BY <1>1
  <1> QED BY <1>2

\* Where the group of query i begins and ends, and the position it begins with.
LEMMA LaidGroup ==
  ASSUME NEW cnt \in Counts, NEW from \in Counts, NEW floor, NEW q, LaidOut(q, cnt, from, floor),
         NEW i \in 1..Len(q), NEW s, RowIn(q, cnt, from, floor, i, s)
  PROVE  /\ group_first(q, i) = Firsts(cnt)[s]
         /\ group_last(q, i) = Firsts(cnt)[s] + cnt[s] - 1
         /\ first_pos(q, i) = from[s]
  <1> DEFINE f == Firsts(cnt)[s]
             g == f + cnt[s] - 1
             A == {j \in 1..i : Starts(q, j)}
             B == {j \in i..Len(q) : j = Len(q) \/ Starts(q, j + 1)}
  <1>1. s \in Slots /\ q[i].req = s /\ cnt[s] > 0 /\ f <= i /\ i < f + cnt[s] /\ q[i].pos = from[s] + i - f
    BY DEF RowIn
  <1>2. f \in Nat /\ cnt[s] \in Nat /\ from[s] \in Nat /\ f >= 1 /\ i \in Nat /\ Len(q) \in Nat /\ g <= Len(q) /\ g \in Nat
    BY <1>1, LaidType DEF Counts
  <1> HIDE DEF f, g
  <1>3. \A j \in 1..Len(q) : f <= j /\ j < f + cnt[s] => q[j].req = s  BY <1>1 DEF LaidOut, f
  <1>4. f \in A
    <2>1. f \in 1..Len(q) /\ f \in 1..i  BY <1>1, <1>2
    <2>2. q[f].req = s  BY <1>1, <1>2, <1>3, <2>1
    <2>3. Starts(q, f)  BY <2>1, <2>2, LaidStarts DEF f
    <2> QED BY <2>1, <2>3
  <1>5. ASSUME NEW j \in A  PROVE j <= f
    <2>1. j \in 1..Len(q) /\ j \in Int /\ j <= i /\ Starts(q, j)  BY <1>2
    <2>2. j = Firsts(cnt)[q[j].req]  BY <2>1, LaidStarts
    <2>3. CASE j > f
      <3>1. q[j].req = s  BY <1>1, <1>2, <1>3, <2>1, <2>3
      <3> QED BY <2>2, <2>3, <3>1, <1>2 DEF f
    <2> QED BY <1>2, <2>1, <2>3
  <1>6. group_first(q, i) = f
    <2>1. A \in SUBSET Int  OBVIOUS
    <2> HIDE DEF A
    <2>2. Max(A) = f  BY <1>4, <1>5, <2>1, MaxIs
    <2> QED BY <2>2 DEF group_first, A
  <1>7. g \in B
    <2>1. g \in i..Len(q)  BY <1>1, <1>2 DEF g
    <2>2. CASE g # Len(q)
      <3>1. g + 1 \in 1..Len(q)  BY <1>2, <2>2
      <3>2. q[g + 1].req # s
        <4>1. q[g + 1].req = s <=> (f <= g + 1 /\ g + 1 < f + cnt[s])  BY <1>1, <3>1 DEF LaidOut, f
        <4> QED BY <1>2, <4>1 DEF g
      <3>3. g \in 1..Len(q) /\ q[g].req = s  BY <1>1, <1>2, <1>3 DEF g
      <3>4. Starts(q, g + 1)
        <4>1. (g + 1) - 1 = g  BY <1>2
        <4> QED BY <3>2, <3>3, <4>1 DEF Starts
      <3> QED BY <2>1, <3>4
    <2> QED BY <2>1, <2>2
  <1>8. ASSUME NEW j \in B  PROVE g <= j
    <2>1. j \in Int /\ i <= j /\ j <= Len(q)  BY <1>2
    <2>2. CASE j < g
      <3>1. j + 1 \in 1..Len(q) /\ f <= j + 1 /\ j + 1 < f + cnt[s] /\ j + 1 # f  BY <1>1, <1>2, <2>1, <2>2 DEF g
      <3>2. q[j + 1].req = s  BY <1>3, <3>1
      <3>3. ~Starts(q, j + 1)  BY <3>1, <3>2, LaidStarts DEF f
      <3>4. j # Len(q)  BY <1>2, <2>1, <2>2
      <3> QED BY <3>3, <3>4
    <2> QED BY <1>2, <2>1, <2>2
  <1>9. group_last(q, i) = g
    <2>1. B \in SUBSET Int  BY <1>2
    <2> HIDE DEF B
    <2>2. Min(B) = g  BY <1>7, <1>8, <2>1, MinIs
    <2> QED BY <2>2 DEF group_last, B
  <1>10. first_pos(q, i) = from[s]  BY <1>1, <1>2, <1>6 DEF first_pos
  <1> QED BY <1>6, <1>9, <1>10 DEF f, g

\* The number of the group of slot s, and how many there are.
GroupOf(cnt, s) == IF s = 2 /\ cnt[1] > 0 THEN 1 ELSE 0
Groups(cnt) ==
    IF NumSlots = 1 THEN (IF cnt[1] > 0 THEN 1 ELSE 0)
    ELSE IF cnt[1] > 0 /\ cnt[2] > 0 THEN 2 ELSE IF cnt[1] > 0 \/ cnt[2] > 0 THEN 1 ELSE 0

LEMMA TwoSlots ==
  ASSUME NEW cnt \in Counts
  PROVE  /\ 1 \in Slots /\ cnt[1] \in Nat /\ Firsts(cnt)[1] = 1
         /\ NumSlots = 1 => Slots = {1}
         /\ NumSlots # 1 => Slots = {1, 2} /\ cnt[2] \in Nat /\ Firsts(cnt)[2] = 1 + cnt[1]
  <1>1. 1 \in Slots /\ (NumSlots = 1 => Slots = {1}) /\ (NumSlots # 1 => Slots = {1, 2})
    BY RingAssumption DEF Slots
  <1> QED BY <1>1 DEF Firsts, Counts

LEMMA StartRows ==
  ASSUME NEW cnt \in Counts, NEW from, NEW floor, NEW q, LaidOut(q, cnt, from, floor), NEW j
  PROVE  (j \in 1..Len(q) /\ Starts(q, j)) <=> \E t \in Slots : cnt[t] > 0 /\ j = Firsts(cnt)[t]
  <1>1. ASSUME j \in 1..Len(q), Starts(q, j)  PROVE \E t \in Slots : cnt[t] > 0 /\ j = Firsts(cnt)[t]
    <2>1. j = Firsts(cnt)[q[j].req]  BY <1>1, LaidStarts
    <2>2. q[j].req \in Slots /\ cnt[q[j].req] > 0  BY <1>1, LaidRow DEF RowIn
    <2> QED BY <2>1, <2>2
  <1>2. ASSUME NEW t \in Slots, cnt[t] > 0, j = Firsts(cnt)[t]  PROVE j \in 1..Len(q) /\ Starts(q, j)
    <2>1. j \in Int /\ cnt[t] \in Nat  BY <1>2, LaidType DEF Counts
    <2>2. Firsts(cnt)[t] <= j /\ j < Firsts(cnt)[t] + cnt[t]  BY <1>2, <2>1
    <2>3. j \in 1..Len(q) /\ q[j].req = t  BY <2>1, <2>2, LaidAt DEF RowIn
    <2> QED BY <1>2, <2>3, LaidStarts
  <1> QED BY <1>1, <1>2

LEMMA CardTwo ==
  ASSUME NEW a, NEW b, a # b
  PROVE  Cardinality({a}) = 1 /\ Cardinality({a, b}) = 2
  <1>1. IsFiniteSet({a}) /\ Cardinality({a}) = 1  BY FS_Singleton
  <1>2. Cardinality({a} \cup {b}) = 2  BY <1>1, FS_AddElement
  <1>3. {a} \cup {b} = {a, b}  OBVIOUS
  <1> QED BY <1>1, <1>2, <1>3

LEMMA LaidNumber ==
  ASSUME NEW cnt \in Counts, NEW from, NEW floor, NEW q, LaidOut(q, cnt, from, floor),
         NEW i \in 1..Len(q), NEW s, RowIn(q, cnt, from, floor, i, s)
  PROVE  group(q, i) = GroupOf(cnt, s)
  <1> DEFINE A == {j \in 1..i : Starts(q, j)}
  <1>1. s \in Slots /\ cnt[s] > 0 /\ Firsts(cnt)[s] <= i /\ i < Firsts(cnt)[s] + cnt[s]  BY DEF RowIn
  <1>2. Len(q) \in Nat /\ i \in Nat /\ i <= Len(q) /\ i >= 1  BY LaidType
  <1>3. \A j : j \in A <=> \E t \in Slots : cnt[t] > 0 /\ j = Firsts(cnt)[t] /\ j \in 1..i
    <2>1. \A j : j \in 1..i => j \in 1..Len(q)  BY <1>2
    <2> QED BY <2>1, StartRows
  <1>4. /\ 1 \in Slots /\ cnt[1] \in Nat /\ Firsts(cnt)[1] = 1
        /\ NumSlots = 1 => Slots = {1}
        /\ NumSlots # 1 => Slots = {1, 2} /\ cnt[2] \in Nat /\ Firsts(cnt)[2] = 1 + cnt[1]
    BY TwoSlots
  <1> HIDE DEF A
  <1>5. CASE s = 1
    <2>1. \A j : j \in A <=> j = 1
      <3>1. 1 \in A  BY <1>1, <1>2, <1>3, <1>4, <1>5
      <3>2. ASSUME NEW j \in A, j # 1  PROVE FALSE
        <4>1. NumSlots # 1 /\ j = 1 + cnt[1] /\ j \in 1..i  BY <1>3, <1>4, <3>2
        <4> QED BY <1>1, <1>2, <1>4, <1>5, <4>1
      <3> QED BY <3>1, <3>2
    <2>2. A = {1}  BY <2>1
    <2>3. Cardinality(A) = 1  BY <2>2, CardTwo
    <2> QED BY <1>5, <2>3 DEF group, A, GroupOf
  <1>6. CASE s = 2 /\ cnt[1] = 0
    <2>0. NumSlots # 1  BY <1>1, <1>4, <1>6
    <2>1. \A j : j \in A <=> j = 1
      BY <1>1, <1>2, <1>3, <1>4, <1>6, <2>0
    <2>2. A = {1}  BY <2>1
    <2>3. Cardinality(A) = 1  BY <2>2, CardTwo
    <2> QED BY <1>6, <2>3 DEF group, A, GroupOf
  <1>7. CASE s = 2 /\ cnt[1] > 0
    <2>0. NumSlots # 1  BY <1>1, <1>4, <1>7
    <2> DEFINE b == 1 + cnt[1]
    <2>1. b \in 1..i /\ b # 1 /\ 1 \in 1..i  BY <1>1, <1>2, <1>4, <1>7, <2>0
    <2>2. \A j : j \in A <=> j = 1 \/ j = b
      BY <1>1, <1>3, <1>4, <1>7, <2>0, <2>1
    <2> HIDE DEF b
    <2>3. A = {1, b}  BY <2>2
    <2>4. Cardinality(A) = 2  BY <2>1, <2>3, CardTwo
    <2> QED BY <1>7, <2>4 DEF group, A, GroupOf
  <1> QED BY <1>1, <1>4, <1>5, <1>6, <1>7

LEMMA LaidNumbers ==
  ASSUME NEW cnt \in Counts, NEW from, NEW floor, NEW q, LaidOut(q, cnt, from, floor)
  PROVE  num_groups(q) = Groups(cnt)
  <1> DEFINE A == {i \in DOMAIN q : Starts(q, i)}
  <1>1. \A j : j \in A <=> \E t \in Slots : cnt[t] > 0 /\ j = Firsts(cnt)[t]
    BY LaidType, StartRows
  <1>2. /\ 1 \in Slots /\ cnt[1] \in Nat /\ Firsts(cnt)[1] = 1
        /\ NumSlots = 1 => Slots = {1}
        /\ NumSlots # 1 => Slots = {1, 2} /\ cnt[2] \in Nat /\ Firsts(cnt)[2] = 1 + cnt[1]
    BY TwoSlots
  <1> HIDE DEF A
  <1>3. num_groups(q) = Cardinality(A)  BY DEF num_groups, A
  <1> DEFINE both == NumSlots # 1 /\ cnt[1] > 0 /\ cnt[2] > 0
             none == cnt[1] = 0 /\ (NumSlots # 1 => cnt[2] = 0)
             b == 1 + cnt[1]
  <1>4. b # 1 <=> cnt[1] # 0  BY <1>2
  <1>5. CASE none
    <2>1. \A j : j \notin A  BY <1>1, <1>2, <1>5
    <2>2. A = {}  BY <2>1
    <2>3. Cardinality(A) = 0  BY <2>2, FS_EmptySet
    <2> QED BY <1>2, <1>3, <1>5, <2>3 DEF Groups
  <1>6. CASE both
    <2>1. \A j : j \in A <=> j = 1 \/ j = b  BY <1>1, <1>2, <1>6
    <2>2. b # 1  BY <1>2, <1>6
    <2> HIDE DEF b
    <2>3. A = {1, b}  BY <2>1
    <2>4. Cardinality(A) = 2  BY <2>2, <2>3, CardTwo
    <2> QED BY <1>3, <1>6, <2>4 DEF Groups
  <1>7. CASE ~none /\ ~both
    <2>1. \A j : j \in A <=> j = 1  BY <1>1, <1>2, <1>7
    <2>2. A = {1}  BY <2>1
    <2>3. Cardinality(A) = 1  BY <2>2, CardTwo
    <2>4. Groups(cnt) = 1  BY <1>2, <1>7 DEF Groups
    <2> QED BY <1>3, <2>3, <2>4
  <1> QED BY <1>5, <1>6, <1>7

----------------------------------------------------------------------------
(* The rows of the workspace. *)

HistoryRow(cnt, from, s, p) == [loc |-> GroupOf(cnt, s) * Window + p - (from[s] - Window), req |-> s, pos |-> p]

\* Position p of slot s is in the history.
Old(cnt, from, floor, s, p) == cnt[s] > 0 /\ from[s] - Window <= p /\ p < from[s] /\ p >= floor[s]

LEMMA GroupTimes ==
  ASSUME NEW cnt \in Counts, NEW s \in Slots, cnt[s] > 0
  PROVE  /\ GroupOf(cnt, s) \in {0, 1} /\ Groups(cnt) \in {0, 1, 2} /\ GroupOf(cnt, s) < Groups(cnt)
         /\ \A t \in Slots : cnt[t] > 0 /\ GroupOf(cnt, t) = GroupOf(cnt, s) => t = s
  <1>1. /\ 1 \in Slots /\ cnt[1] \in Nat
        /\ NumSlots = 1 => Slots = {1}
        /\ NumSlots # 1 => Slots = {1, 2} /\ cnt[2] \in Nat
    BY TwoSlots
  <1> QED BY <1>1 DEF GroupOf, Groups

\* The history rows of the groups are disjoint, and before those of the queries.
LEMMA RowsApart ==
  ASSUME NEW cnt \in Counts, NEW s \in Slots, cnt[s] > 0, NEW d \in 0..(Window - 1)
  PROVE  /\ GroupOf(cnt, s) * Window + d \in Nat
         /\ Groups(cnt) * Window \in Nat
         /\ GroupOf(cnt, s) * Window + d < Groups(cnt) * Window
         /\ \A t \in Slots, e \in 0..(Window - 1) :
              cnt[t] > 0 /\ GroupOf(cnt, t) * Window + e = GroupOf(cnt, s) * Window + d => t = s /\ e = d
  <1>1. /\ GroupOf(cnt, s) \in {0, 1} /\ Groups(cnt) \in {0, 1, 2} /\ GroupOf(cnt, s) < Groups(cnt)
        /\ \A t \in Slots : cnt[t] > 0 /\ GroupOf(cnt, t) = GroupOf(cnt, s) => t = s
    BY GroupTimes
  <1>2. Window \in Nat /\ Window > 0 /\ d \in Nat /\ d < Window  BY WindowAssumption
  <1>3. 0 * Window = 0 /\ 1 * Window = Window /\ 2 * Window = Window + Window  BY <1>2
  <1>4. GroupOf(cnt, s) * Window + d \in Nat /\ Groups(cnt) * Window \in Nat  BY <1>1, <1>2, <1>3
  <1>5. GroupOf(cnt, s) * Window + d < Groups(cnt) * Window
    <2>1. CASE GroupOf(cnt, s) = 0 /\ Groups(cnt) = 1  BY <1>2, <1>3, <2>1
    <2>2. CASE GroupOf(cnt, s) = 0 /\ Groups(cnt) = 2  BY <1>2, <1>3, <2>2
    <2>3. CASE GroupOf(cnt, s) = 1 /\ Groups(cnt) = 2  BY <1>2, <1>3, <2>3
    <2> QED BY <1>1, <2>1, <2>2, <2>3
  <1>6. ASSUME NEW t \in Slots, NEW e \in 0..(Window - 1), cnt[t] > 0,
               GroupOf(cnt, t) * Window + e = GroupOf(cnt, s) * Window + d
        PROVE  t = s /\ e = d
    <2>1. GroupOf(cnt, t) \in {0, 1}  BY <1>6, GroupTimes
    <2>2. e \in Nat /\ e < Window  BY <1>2
    <2>3. GroupOf(cnt, t) = GroupOf(cnt, s)
      <3>1. CASE GroupOf(cnt, t) = 0 /\ GroupOf(cnt, s) = 1  BY <1>2, <1>3, <1>6, <2>2, <3>1
      <3>2. CASE GroupOf(cnt, t) = 1 /\ GroupOf(cnt, s) = 0  BY <1>2, <1>3, <1>6, <2>2, <3>2
      <3> QED BY <1>1, <2>1, <3>1, <3>2
    <2>4. t = s  BY <1>1, <1>6, <2>3
    <2>5. CASE GroupOf(cnt, s) = 0  BY <1>2, <1>3, <1>6, <2>2, <2>3, <2>4, <2>5
    <2>6. CASE GroupOf(cnt, s) = 1  BY <1>2, <1>3, <1>6, <2>2, <2>3, <2>4, <2>6
    <2> QED BY <1>1, <2>4, <2>5, <2>6
  <1> QED BY <1>4, <1>5, <1>6

LEMMA LaidHistory ==
  ASSUME NEW cnt \in Counts, NEW from \in Counts, NEW floor \in Counts, NEW q, LaidOut(q, cnt, from, floor), NEW h
  PROVE  h \in history(q) <=> \E s \in Slots, p \in Nat : Old(cnt, from, floor, s, p) /\ h = HistoryRow(cnt, from, s, p)
  <1> DEFINE fp(i) == first_pos(q, i)
             at(i, p) == [loc |-> group(q, i) * Window + p - (first_pos(q, i) - Window), req |-> q[i].req, pos |-> p]
             ps(i) == {x \in (first_pos(q, i) - Window)..(first_pos(q, i) - 1) : valid(q, i, x)}
  <1>1. h \in history(q) <=> \E i \in DOMAIN q : Starts(q, i) /\ \E p \in ps(i) : h = at(i, p)
    BY DEF history
  <1>2. DOMAIN q = 1..Len(q)  BY LaidType
  <1>3. ASSUME NEW i \in 1..Len(q), NEW s, RowIn(q, cnt, from, floor, i, s)
        PROVE  /\ s \in Slots /\ cnt[s] > 0 /\ \A p : at(i, p) = HistoryRow(cnt, from, s, p)
               /\ \A p : p \in ps(i) <=> p \in Nat /\ Old(cnt, from, floor, s, p)
    <2>1. first_pos(q, i) = from[s]  BY <1>3, LaidGroup
    <2>2. group(q, i) = GroupOf(cnt, s)  BY <1>3, LaidNumber
    <2>3. q[i].req = s /\ s \in Slots /\ cnt[s] > 0 /\ q[i].floor = floor[s]  BY <1>3 DEF RowIn
    <2>4. \A p : at(i, p) = HistoryRow(cnt, from, s, p)  BY <2>1, <2>2, <2>3 DEF HistoryRow
    <2>5. from[s] \in Nat /\ floor[s] \in Nat /\ Window \in Nat  BY <2>3, WindowAssumption DEF Counts
    <2>6. \A p : p \in ps(i) <=> p \in (from[s] - Window)..(from[s] - 1) /\ p >= 0 /\ p >= floor[s]
      BY <2>1, <2>3 DEF valid
    <2> HIDE DEF ps
    <2>7. \A p : p \in ps(i) <=> p \in Nat /\ Old(cnt, from, floor, s, p)  BY <2>3, <2>5, <2>6 DEF Old
    <2> QED BY <2>3, <2>4, <2>7
  <1> HIDE DEF ps, at
  <1>4. ASSUME NEW i \in DOMAIN q, Starts(q, i), NEW p \in ps(i), h = at(i, p)
        PROVE  \E s \in Slots, x \in Nat : Old(cnt, from, floor, s, x) /\ h = HistoryRow(cnt, from, s, x)
    <2>1. RowIn(q, cnt, from, floor, i, q[i].req)  BY <1>2, LaidRow
    <2> QED BY <1>2, <1>3, <1>4, <2>1
  <1>5. ASSUME NEW s \in Slots, NEW p \in Nat, Old(cnt, from, floor, s, p), h = HistoryRow(cnt, from, s, p)
        PROVE  \E i \in DOMAIN q : Starts(q, i) /\ \E x \in ps(i) : h = at(i, x)
    <2>1. cnt[s] > 0  BY <1>5 DEF Old
    <2> DEFINE i == Firsts(cnt)[s]
    <2>2. i \in Int /\ cnt[s] \in Nat  BY LaidType DEF Counts
    <2>3. i < i + cnt[s] /\ i <= i  BY <2>1, <2>2
    <2>4. i \in 1..Len(q) /\ RowIn(q, cnt, from, floor, i, s)  BY <2>2, <2>3, LaidAt
    <2>5. Starts(q, i)  BY <2>1, StartRows
    <2> HIDE DEF i
    <2> QED BY <1>2, <1>3, <1>5, <2>4, <2>5
  <1> QED BY <1>1, <1>4, <1>5

\* Where the queries and the history of the layout are in the workspace.
LEMMA LaidPlaces ==
  ASSUME NEW cnt \in Counts, NEW from \in Counts, NEW floor \in Counts, NEW q, LaidOut(q, cnt, from, floor)
  PROVE  /\ history_rows(q) = Groups(cnt) * Window /\ Groups(cnt) * Window \in Nat /\ size(q) = Groups(cnt) * Window + Len(q)
         /\ \A i \in 1..Len(q) : write_loc(q, i) = Groups(cnt) * Window + i - 1
         /\ \A s \in Slots, p \in Nat : Old(cnt, from, floor, s, p) =>
                /\ HistoryRow(cnt, from, s, p).loc \in Nat
                /\ HistoryRow(cnt, from, s, p).loc < Groups(cnt) * Window
                /\ \A t \in Slots, r \in Nat : Old(cnt, from, floor, t, r) =>
                     (HistoryRow(cnt, from, t, r).loc = HistoryRow(cnt, from, s, p).loc => t = s /\ r = p)
  <1>1. history_rows(q) = Groups(cnt) * Window  BY LaidNumbers DEF history_rows
  <1>2. Groups(cnt) * Window \in Nat
    <2>1. Groups(cnt) \in {0, 1, 2} /\ Window \in Nat  BY WindowAssumption DEF Groups
    <2> QED BY <2>1
  <1>3. ASSUME NEW s \in Slots, NEW p \in Nat, Old(cnt, from, floor, s, p)
        PROVE  /\ p - (from[s] - Window) \in 0..(Window - 1) /\ cnt[s] > 0
               /\ HistoryRow(cnt, from, s, p).loc = GroupOf(cnt, s) * Window + (p - (from[s] - Window))
    <2>1. from[s] \in Nat /\ Window \in Nat  BY WindowAssumption DEF Counts
    <2>2. GroupOf(cnt, s) * Window \in Nat
      <3>1. GroupOf(cnt, s) \in {0, 1}  BY DEF GroupOf
      <3> QED BY <2>1, <3>1
    <2> DEFINE g == GroupOf(cnt, s) * Window
    <2> HIDE DEF g
    <2>3. HistoryRow(cnt, from, s, p).loc = g + p - (from[s] - Window)  BY DEF HistoryRow, g
    <2>4. g + p - (from[s] - Window) = g + (p - (from[s] - Window))  BY <2>1, <2>2 DEF g
    <2> QED BY <1>3, <2>1, <2>3, <2>4 DEF Old, g
  <1>4. ASSUME NEW s \in Slots, NEW p \in Nat, Old(cnt, from, floor, s, p)
        PROVE  /\ HistoryRow(cnt, from, s, p).loc \in Nat
               /\ HistoryRow(cnt, from, s, p).loc < Groups(cnt) * Window
    BY <1>3, <1>4, RowsApart
  <1>5. ASSUME NEW s \in Slots, NEW p \in Nat, Old(cnt, from, floor, s, p),
               NEW t \in Slots, NEW r \in Nat, Old(cnt, from, floor, t, r),
               HistoryRow(cnt, from, t, r).loc = HistoryRow(cnt, from, s, p).loc
        PROVE  t = s /\ r = p
    <2> DEFINE d == p - (from[s] - Window)
               e == r - (from[t] - Window)
    <2>1. d \in 0..(Window - 1) /\ cnt[s] > 0 /\ HistoryRow(cnt, from, s, p).loc = GroupOf(cnt, s) * Window + d
      BY <1>3, <1>5
    <2>2. e \in 0..(Window - 1) /\ cnt[t] > 0 /\ HistoryRow(cnt, from, t, r).loc = GroupOf(cnt, t) * Window + e
      BY <1>3, <1>5
    <2> HIDE DEF d, e
    <2>3. GroupOf(cnt, t) * Window + e = GroupOf(cnt, s) * Window + d  BY <1>5, <2>1, <2>2
    <2>4. t = s /\ e = d  BY <2>1, <2>2, <2>3, RowsApart
    <2>5. from[s] \in Nat /\ Window \in Nat  BY WindowAssumption DEF Counts
    <2> QED BY <2>4, <2>5 DEF d, e
  <1> QED BY <1>1, <1>2, <1>4, <1>5 DEF size, write_loc

\* buffer() and the writes behind it fill both kinds of rows.
LEMMA BufferFills ==
  ASSUME NEW cnt \in Counts, NEW from \in Counts, NEW floor \in Counts, LaidOut(layout, cnt, from, floor),
         Buffer, prepared # fwd.layer
  PROVE  /\ \A i \in 1..Len(layout) : workspace'[write_loc(layout, i)] = KV(layout[i])
         /\ \A s \in Slots, p \in Nat : Old(cnt, from, floor, s, p) =>
                workspace'[HistoryRow(cnt, from, s, p).loc] = state[fwd.layer][Row(s, p)]
  <1> DEFINE q == layout
             l == fwd.layer
             base == Groups(cnt) * Window
             wr(r) == \E i \in DOMAIN q : write_loc(q, i) = r
             hs(r) == \E h \in history(q) : h.loc = r
             ih(r) == CHOOSE h \in history(q) : h.loc = r
  <1>1. workspace' = [r \in 0..(size(q) - 1) |->
                        IF wr(r) THEN KV(q[CHOOSE i \in DOMAIN q : write_loc(q, i) = r])
                        ELSE IF hs(r) THEN state[l][Row(ih(r).req, ih(r).pos)] ELSE NoKV]
    BY DEF Buffer
  <1>2. Len(q) \in Nat /\ DOMAIN q = 1..Len(q)  BY LaidType
  <1>3. /\ base \in Nat /\ size(q) = base + Len(q)
        /\ \A i \in 1..Len(q) : write_loc(q, i) = base + i - 1
    BY LaidPlaces
  <1> HIDE DEF base, q, l
  <1>4. ASSUME NEW i \in 1..Len(q)  PROVE workspace'[write_loc(q, i)] = KV(q[i])
    <2>1. write_loc(q, i) = base + i - 1 /\ base + i - 1 \in 0..(size(q) - 1)  BY <1>2, <1>3
    <2>2. ASSUME NEW j \in DOMAIN q, write_loc(q, j) = write_loc(q, i)  PROVE j = i
      BY <1>2, <1>3, <2>2
    <2>3. (CHOOSE j \in DOMAIN q : write_loc(q, j) = write_loc(q, i)) = i  BY <1>2, <2>2
    <2>4. wr(write_loc(q, i))  BY <1>2
    <2> QED BY <1>1, <2>1, <2>3, <2>4
  <1>5. ASSUME NEW s \in Slots, NEW p \in Nat, Old(cnt, from, floor, s, p)
        PROVE  workspace'[HistoryRow(cnt, from, s, p).loc] = state[l][Row(s, p)]
    <2> DEFINE h == HistoryRow(cnt, from, s, p)
    <2>1. h.loc \in Nat /\ h.loc < base /\ h.req = s /\ h.pos = p
      BY <1>5, LaidPlaces DEF HistoryRow, base, q
    <2>2. h \in history(q)  BY <1>5, LaidHistory DEF q
    <2>3. ASSUME NEW g \in history(q), g.loc = h.loc  PROVE g = h
      <3>1. PICK t \in Slots, r \in Nat : Old(cnt, from, floor, t, r) /\ g = HistoryRow(cnt, from, t, r)
        BY LaidHistory DEF q
      <3>2. t = s /\ r = p  BY <1>5, <2>3, <3>1, LaidPlaces DEF q
      <3> QED BY <3>1, <3>2
    <2> HIDE DEF h
    <2>4. ih(h.loc) = h /\ hs(h.loc)  BY <2>2, <2>3
    <2>5. ~wr(h.loc)
      <3>1. ASSUME NEW i \in 1..Len(q)  PROVE write_loc(q, i) # h.loc
        BY <1>2, <1>3, <2>1
      <3> QED BY <1>2, <3>1
    <2>6. h.loc \in 0..(size(q) - 1)  BY <1>2, <1>3, <2>1
    <2>7. workspace'[h.loc] = state[l][Row(h.req, h.pos)]  BY <1>1, <2>4, <2>5, <2>6
    <2> QED BY <2>1, <2>7 DEF h
  <1> QED BY <1>4, <1>5 DEF q, l

----------------------------------------------------------------------------
(* The invariant of the window rings: a request that is ready finds the    *)
(* last Window positions of its length in each layer's ring; while a       *)
(* forward runs, those of its outcome in the layers that have committed.   *)

Final(s, p) == [epoch |-> epoch[s], pos |-> p, ok |-> TRUE]

Held(l, s, n) ==
    \A p \in Nat : p < n /\ n <= p + Window =>
        tags[l][Row(s, p)] = p /\ state[l][Row(s, p)] = Final(s, p)

WindowTypes ==
    /\ TypeInv /\ replayed \in [Slots -> BOOLEAN]
    /\ state = [l \in Layers |-> state[l]] /\ tags = [l \in Layers |-> tags[l]]

\* The prefix that is to be replayed is not empty.
PrefixLeft == \A s \in Slots : epoch[s] > 0 /\ ~replayed[s] => len[s] > 0

\* What the workspace is sized for.
Small(cnt) ==
    \/ Total(cnt) <= ChunkSize
    \/ \A s \in Slots : cnt[s] <= 1 + Draft
    \/ \E s \in Slots : cnt[s] <= Window /\ \A t \in Slots \ {s} : cnt[t] = 0

\* The slots whose windows are held once a forward over q is over.
CurrentIn(kind, q, s) == epoch[s] > 0 /\ (replayed[s] \/ (kind = "replay" /\ q[1].req = s))
Current(s) == CurrentIn(fwd.kind, layout, s)

\* The queries of slot s continue its window, or begin it anew.
PlanIn(kind, q, kept, cnt, from, floor, s) ==
    IF cnt[s] = 0 THEN kept[s] = len[s] /\ (CurrentIn(kind, q, s) => replayed[s])
    ELSE /\ CurrentIn(kind, q, s) /\ len[s] <= kept[s] /\ from[s] < kept[s]
         /\ kept[s] <= from[s] + cnt[s] /\ from[s] + cnt[s] <= kept[s] + Draft
         /\ \/ replayed[s] /\ from[s] = len[s]
            \/ floor[s] = from[s] /\ (from[s] = 0 \/ from[s] + Window <= kept[s])
PlanOf(cnt, from, floor, s) == PlanIn(fwd.kind, layout, fwd.kept, cnt, from, floor, s)

Plan(cnt, from, floor) ==
    LaidOut(layout, cnt, from, floor) /\ Small(cnt) /\ \A s \in Slots : PlanOf(cnt, from, floor, s)

\* A chunk adds at most ChunkSize positions.
ChunkFits == fwd.kind = "extend" => Total([s \in Slots |-> fwd.kept[s] - len[s]]) <= ChunkSize

Progress ==
    \A s \in Slots, l \in Layers :
        IF l < fwd.layer THEN Current(s) => Held(l, s, fwd.kept[s]) ELSE Ready(s) => Held(l, s, len[s])

Filled ==
    /\ \A i \in 1..Len(layout) : workspace[write_loc(layout, i)] = KV(layout[i])
    /\ \A h \in history(layout) : workspace[h.loc] = Final(h.req, h.pos)

Resting ==
    fwd.step = "" /\ layout = <<>> /\ \A s \in Slots, l \in Layers : Ready(s) => Held(l, s, len[s])

Running ==
    /\ fwd.layer \in Layers /\ fwd.step \in {"buffer", "attend"} /\ ChunkFits /\ Progress
    /\ \E cnt, from, floor \in Counts : Plan(cnt, from, floor)
    /\ fwd.step = "buffer" => prepared # fwd.layer
    /\ fwd.step = "attend" => prepared = fwd.layer /\ Filled

WInv ==
    /\ WindowTypes /\ TagsOwn /\ PrefixLeft
    /\ IF fwd.kind = "none" THEN Resting ELSE Running

----------------------------------------------------------------------------
(* What the invariant gives. *)

LEMMA Aligned ==
  ASSUME NEW n \in Nat
  PROVE  PageAlign(n) \in Nat /\ PageAlign(n) >= n
  <1>1. page_size \in Nat /\ page_size > 0  BY RingAssumption
  <1> DEFINE m == n + page_size - 1
             k == m \div page_size
  <1>2. m \in Nat /\ m = n + page_size - 1  BY <1>1
  <1> HIDE DEF m
  <1> DEFINE r == m % page_size
             z == page_size * k
  <1>3. k \in Nat /\ r \in 0..(page_size - 1) /\ m = z + r  BY <1>1, <1>2
  <1> HIDE DEF k, r
  <1>4. k * page_size = z /\ z \in Nat  BY <1>1, <1>3
  <1> HIDE DEF z
  <1>5. z = n + page_size - 1 - r  BY <1>1, <1>2, <1>3, <1>4
  <1>6. PageAlign(n) = z  BY <1>4 DEF PageAlign, k, m
  <1> QED BY <1>1, <1>3, <1>4, <1>5, <1>6

LEMMA Capacity == capacity \in Nat /\ capacity >= Window + Draft /\ capacity > 0
  <1>1. Window \in Nat /\ Window > 0 /\ Draft \in Nat  BY WindowAssumption, RingAssumption
  <1>2. Window + Draft \in Nat  BY <1>1
  <1>3. PageAlign(Window + Draft) \in Nat /\ PageAlign(Window + Draft) >= Window + Draft  BY <1>2, Aligned
  <1> QED BY <1>1, <1>3 DEF capacity

\* Positions closer than the ring is wide have rows of their own.
LEMMA RowDistinct ==
  ASSUME NEW s \in Slots, NEW t \in Slots, NEW a \in Nat, NEW b \in Nat,
         s = t => a - b < capacity /\ b - a < capacity, Row(s, a) = Row(t, b)
  PROVE  s = t /\ a = b
  <1>1. s = t /\ a % capacity = b % capacity  BY DEF Row
  <1>2. ~(a < b)  BY <1>1, Capacity, ModDistinct
  <1>3. ~(b < a)  BY <1>1, Capacity, ModDistinct
  <1> QED BY <1>1, <1>2, <1>3

LEMMA RowInRing ==
  ASSUME NEW s \in Slots, NEW p \in Nat
  PROVE  Row(s, p) \in Rows /\ Row(s, p)[1] = s
  BY Capacity, ModRange DEF Row, Rows

\* The committed queries are the last capacity ones of each slot.
LEMMA CommittedRows ==
  ASSUME NEW cnt \in Counts, NEW from \in Counts, NEW floor \in Counts, NEW q, LaidOut(q, cnt, from, floor)
  PROVE  /\ Committed(q) \subseteq 1..Len(q)
         /\ \A i \in 1..Len(q) : LET s == q[i].req IN
              i \in Committed(q) <=> Firsts(cnt)[s] + cnt[s] - 1 - i < capacity
  <1>1. DOMAIN q = 1..Len(q)  BY LaidType
  <1>2. ASSUME NEW i \in 1..Len(q)
        PROVE  group_last(q, i) = Firsts(cnt)[q[i].req] + cnt[q[i].req] - 1
    <2>1. RowIn(q, cnt, from, floor, i, q[i].req)  BY LaidRow
    <2> QED BY <2>1, LaidGroup
  <1>3. Committed(q) = {i \in 1..Len(q) : group_last(q, i) - i < capacity}  BY <1>1 DEF Committed, commit_mask
  <1>4. ASSUME NEW i \in 1..Len(q)
        PROVE  i \in Committed(q) <=> Firsts(cnt)[q[i].req] + cnt[q[i].req] - 1 - i < capacity
    <2> DEFINE g == group_last(q, i)
    <2> HIDE DEF g
    <2>1. g = Firsts(cnt)[q[i].req] + cnt[q[i].req] - 1  BY <1>2 DEF g
    <2>2. i \in Committed(q) <=> g - i < capacity  BY <1>3 DEF g
    <2>3. q[i].req \in Slots  BY LaidRow DEF RowIn
    <2>4. Firsts(cnt)[q[i].req] \in Nat /\ cnt[q[i].req] \in Nat /\ i \in Int  BY <2>3, LaidType DEF Counts
    <2> QED BY <2>1, <2>2, <2>4
  <1> QED BY <1>3, <1>4

\* No two committed queries share a ring row.
LEMMA CommitsApart ==
  ASSUME NEW cnt \in Counts, NEW from \in Counts, NEW floor \in Counts, NEW q, LaidOut(q, cnt, from, floor),
         NEW i \in Committed(q), NEW j \in Committed(q), Row(q[i].req, q[i].pos) = Row(q[j].req, q[j].pos)
  PROVE  i = j
  <1>1. i \in 1..Len(q) /\ j \in 1..Len(q)  BY CommittedRows
  <1>2. RowIn(q, cnt, from, floor, i, q[i].req) /\ RowIn(q, cnt, from, floor, j, q[j].req)  BY <1>1, LaidRow
  <1>3. q[i].req = q[j].req  BY DEF Row
  <1> DEFINE s == q[i].req
             f == Firsts(cnt)[s]
  <1>4. /\ s \in Slots /\ f <= i /\ f <= j /\ i < f + cnt[s] /\ j < f + cnt[s]
        /\ q[i].pos = from[s] + i - f /\ q[j].pos = from[s] + j - f
    BY <1>2, <1>3 DEF RowIn
  <1>5. f + cnt[s] - 1 - i < capacity /\ f + cnt[s] - 1 - j < capacity  BY <1>1, <1>3, CommittedRows
  <1>6. f \in Nat /\ cnt[s] \in Nat /\ from[s] \in Nat /\ i \in Nat /\ j \in Nat /\ capacity \in Nat
    BY <1>1, <1>4, LaidType, Capacity DEF Counts
  <1> HIDE DEF s, f
  <1>7. q[i].pos \in Nat /\ q[j].pos \in Nat  BY <1>4, <1>6
  <1>8. q[i].pos - q[j].pos < capacity /\ q[j].pos - q[i].pos < capacity  BY <1>4, <1>5, <1>6
  <1>9. q[i].pos = q[j].pos  BY <1>3, <1>4, <1>7, <1>8, RowDistinct DEF s
  <1> QED BY <1>4, <1>6, <1>9

LEMMA DistinctCommits == WInv => CommitsDistinct
  <1> SUFFICES ASSUME WInv, fwd.step = "attend"
               PROVE  \A i, j \in Committed(layout) :
                        Row(layout[i].req, layout[i].pos) = Row(layout[j].req, layout[j].pos) => i = j
    BY DEF CommitsDistinct
  <1>1. PICK cnt, from, floor \in Counts : Plan(cnt, from, floor)  BY DEF WInv, Resting, Running
  <1>2. LaidOut(layout, cnt, from, floor)  BY <1>1 DEF Plan
  <1> QED BY <1>2, CommitsApart

LEMMA ExactQueries == WInv => QueriesExact
  <1> SUFFICES ASSUME WInv, fwd.step = "attend", NEW i \in DOMAIN layout, NEW p \in Seen(layout, i)
               PROVE  LET kv == workspace[indices(layout, i, p)] IN
                      /\ kv.epoch = epoch[layout[i].req] /\ kv.pos = p
                      /\ p < first_pos(layout, i) => kv.ok
    BY DEF QueriesExact
  <1> DEFINE q == layout
             s == q[i].req
  <1>1. Running  BY DEF WInv, Resting
  <1>2. PICK cnt, from, floor \in Counts : Plan(cnt, from, floor)  BY <1>1 DEF Running
  <1>3. LaidOut(q, cnt, from, floor) /\ Filled  BY <1>1, <1>2 DEF Plan, Running
  <1>4. DOMAIN q = 1..Len(q) /\ Len(q) \in Nat  BY <1>3, LaidType
  <1>5. RowIn(q, cnt, from, floor, i, s)  BY <1>3, <1>4, LaidRow
  <1> DEFINE f == Firsts(cnt)[s]
  <1>6. /\ s \in Slots /\ cnt[s] > 0 /\ f <= i /\ i < f + cnt[s]
        /\ q[i].pos = from[s] + i - f /\ q[i].floor = floor[s]
    BY <1>5 DEF RowIn
  <1>7. /\ f \in Nat /\ cnt[s] \in Nat /\ from[s] \in Nat /\ floor[s] \in Nat /\ i \in Nat /\ Window \in Nat
    BY <1>3, <1>4, <1>6, LaidType, WindowAssumption DEF Counts
  <1>8. first_pos(q, i) = from[s] /\ group_first(q, i) = f  BY <1>3, <1>4, <1>5, LaidGroup
  <1>9. group(q, i) = GroupOf(cnt, s)  BY <1>3, <1>4, <1>5, LaidNumber
  <1>10. /\ valid(q, i, p) /\ p \in Nat /\ p >= floor[s] /\ p <= q[i].pos /\ p >= q[i].pos - Window + 1
    <2>1. p \in (q[i].pos - Window + 1)..q[i].pos /\ valid(q, i, p)  BY DEF Seen
    <2>2. q[i].pos \in Int  BY <1>6, <1>7
    <2> QED BY <1>6, <1>7, <2>1, <2>2 DEF valid
  <1> HIDE DEF q, s, f
  <1>11. CASE p < from[s]
    <2>1. Old(cnt, from, floor, s, p)  BY <1>6, <1>7, <1>10, <1>11 DEF Old
    <2>2. HistoryRow(cnt, from, s, p) \in history(q)  BY <1>3, <1>6, <1>10, <2>1, LaidHistory
    <2>3. indices(q, i, p) = HistoryRow(cnt, from, s, p).loc
      BY <1>8, <1>9, <1>10, <1>11 DEF indices, old_loc, HistoryRow
    <2>4. workspace[HistoryRow(cnt, from, s, p).loc] = Final(s, p)
      BY <1>3, <2>2 DEF Filled, HistoryRow, q
    <2>5. workspace[indices(q, i, p)] = Final(s, p)  BY <2>3, <2>4
    <2> QED BY <2>5 DEF Final, q, s
  <1>12. CASE from[s] <= p
    <2> DEFINE j == f + p - from[s]
    <2>1. j \in Int /\ f <= j /\ j < f + cnt[s]  BY <1>6, <1>7, <1>10, <1>12
    <2>2. j \in 1..Len(q) /\ RowIn(q, cnt, from, floor, j, s)  BY <1>3, <1>6, <2>1, LaidAt DEF f
    <2>3. q[j].req = s /\ q[j].pos = p  BY <1>7, <1>10, <2>2 DEF RowIn, f
    <2>4. write_loc(q, j) = Groups(cnt) * Window + j - 1 /\ history_rows(q) = Groups(cnt) * Window
          /\ Groups(cnt) * Window \in Nat
      BY <1>3, <2>2, LaidPlaces
    <2>5. indices(q, i, p) = history_rows(q) + f - 1 + p - from[s]
      BY <1>7, <1>8, <1>10, <1>12 DEF indices, new_loc
    <2> DEFINE b == Groups(cnt) * Window
    <2> HIDE DEF b
    <2>6. indices(q, i, p) = b + j - 1
      <3>1. b \in Nat /\ indices(q, i, p) = b + f - 1 + p - from[s]  BY <2>4, <2>5 DEF b
      <3> QED BY <1>7, <1>10, <3>1
    <2>7. indices(q, i, p) = write_loc(q, j)  BY <2>4, <2>6 DEF b
    <2>8. workspace[write_loc(q, j)] = KV(q[j])  BY <1>3, <2>2 DEF Filled, q
    <2>9. workspace[indices(q, i, p)] = KV(q[j])  BY <2>7, <2>8
    <2>10. ~(p < first_pos(q, i))  BY <1>7, <1>8, <1>10, <1>12
    <2> QED BY <2>3, <2>9, <2>10 DEF KV, q, s
  <1> QED BY <1>7, <1>10, <1>11, <1>12

LEMMA FittingWorkspace == WInv => WorkspaceFits
  <1> SUFFICES ASSUME WInv  PROVE size(layout) <= PageAlign(workspace_rows)
    BY DEF WorkspaceFits
  <1>1. Window \in Nat /\ Window > 0 /\ Draft \in Nat /\ ChunkSize \in Nat /\ NumSlots \in {1, 2}
    BY WindowAssumption, RingAssumption
  <1> DEFINE w == (NumSlots + 1) * Window
             d == (NumSlots + 1) * (1 + Draft)
             m == Max({ChunkSize, d})
  <1>2. /\ NumSlots = 1 => w = 2 * Window /\ d = 2 * (1 + Draft)
        /\ NumSlots = 2 => w = 3 * Window /\ d = 3 * (1 + Draft)
    BY <1>1
  <1>3. w \in Nat /\ d \in Nat  BY <1>1, <1>2
  <1> HIDE DEF w, d
  <1>4. m \in Nat /\ m >= ChunkSize /\ m >= d  BY <1>1, <1>3, MaxOfTwo
  <1> HIDE DEF m
  <1>5. workspace_rows = w + m  BY DEF workspace_rows, w, d, m
  <1>6. PageAlign(w + m) \in Nat /\ PageAlign(w + m) >= w + m  BY <1>3, <1>4, Aligned
  <1>7. size(layout) \in Int /\ size(layout) <= w + m
    <2>1. CASE fwd.kind = "none"
      <3>1. layout = <<>>  BY <2>1 DEF WInv, Resting
      <3>2. {i \in DOMAIN <<>> : Starts(<<>>, i)} = {}  OBVIOUS
      <3>3. num_groups(<<>>) = 0  BY <3>2, FS_EmptySet DEF num_groups
      <3>4. size(<<>>) = 0  BY <1>1, <3>3 DEF size, history_rows
      <3> QED BY <1>3, <1>4, <3>1, <3>4
    <2>2. CASE fwd.kind # "none"
      <3>1. PICK cnt, from, floor \in Counts : Plan(cnt, from, floor)  BY <2>2 DEF WInv, Running
      <3>2. LaidOut(layout, cnt, from, floor) /\ Small(cnt)  BY <3>1 DEF Plan
      <3>3. size(layout) = Groups(cnt) * Window + Len(layout) /\ Len(layout) = Total(cnt)
        <4>1. size(layout) = Groups(cnt) * Window + Len(layout)  BY <3>2, LaidPlaces
        <4>2. Len(layout) = Total(cnt)  BY <3>2 DEF LaidOut
        <4> QED BY <4>1, <4>2
      <3>4. /\ 1 \in Slots /\ cnt[1] \in Nat /\ (NumSlots = 1 => Slots = {1})
            /\ NumSlots # 1 => Slots = {1, 2} /\ cnt[2] \in Nat
        BY TwoSlots
      <3>5. 0 * Window = 0 /\ 1 * Window = Window /\ 2 * Window = Window + Window  BY <1>1
      <3>6. CASE NumSlots = 1
        <4>1. Groups(cnt) \in {0, 1} /\ Total(cnt) = cnt[1]  BY <3>6 DEF Groups, Total
        <4>2. Groups(cnt) * Window \in Nat /\ Groups(cnt) * Window <= Window  BY <1>1, <3>5, <4>1
        <4>3. cnt[1] <= ChunkSize \/ cnt[1] <= 1 + Draft \/ cnt[1] <= Window  BY <3>2, <3>4, <3>6, <4>1 DEF Small
        <4> DEFINE g == Groups(cnt) * Window
        <4> HIDE DEF g
        <4>4. size(layout) = g + cnt[1] /\ g \in Nat /\ g <= Window  BY <3>3, <4>1, <4>2 DEF g
        <4> QED BY <1>1, <1>2, <1>3, <1>4, <3>4, <3>6, <4>3, <4>4
      <3>7. CASE NumSlots = 2
        <4>1. Total(cnt) = cnt[1] + cnt[2] /\ Slots = {1, 2} /\ cnt[2] \in Nat  BY <3>4, <3>7 DEF Total
        <4>2. Groups(cnt) \in {0, 1, 2}  BY DEF Groups
        <4> DEFINE g == Groups(cnt) * Window
        <4>3. g \in Nat /\ g <= Window + Window  BY <1>1, <3>5, <4>2
        <4>4. cnt[1] = 0 \/ cnt[2] = 0 => g <= Window
          <5>1. cnt[1] = 0 \/ cnt[2] = 0 => Groups(cnt) \in {0, 1}  BY <3>4, <4>1 DEF Groups
          <5> QED BY <1>1, <3>5, <5>1
        <4> HIDE DEF g
        <4>5. size(layout) = g + (cnt[1] + cnt[2])  BY <3>3, <4>1 DEF g
        <4>6. \/ cnt[1] + cnt[2] <= ChunkSize
              \/ cnt[1] <= 1 + Draft /\ cnt[2] <= 1 + Draft
              \/ cnt[1] <= Window /\ cnt[2] = 0
              \/ cnt[2] <= Window /\ cnt[1] = 0
          BY <3>2, <4>1 DEF Small
        <4>7. w = 3 * Window /\ d = 3 * (1 + Draft)  BY <1>2, <3>7
        <4> QED BY <1>1, <1>3, <1>4, <3>4, <4>1, <4>3, <4>4, <4>5, <4>6, <4>7
      <3> QED BY <1>1, <3>6, <3>7
    <2> QED BY <2>1, <2>2
  <1> QED BY <1>3, <1>4, <1>5, <1>6, <1>7

----------------------------------------------------------------------------
(* The steps. *)

LEMMA WindowAdmit ==
  ASSUME WInv, NEW s \in Slots, NEW n \in 1..MaxLen, NEW c \in 0..MaxLen, Admit(s, n, c)
  PROVE  WInv'
  <1>1. MaxLen \in Nat /\ c \in Nat  BY RingAssumption
  <1>2. /\ fwd.kind = "none" /\ fwd' = fwd /\ state' = state /\ layout' = layout
        /\ epoch' = [epoch EXCEPT ![s] = admitted + 1] /\ len' = [len EXCEPT ![s] = c]
        /\ replayed' = [replayed EXCEPT ![s] = c = 0] /\ tags' = ResetTags(s)
    BY DEF Admit
  <1>3. epoch \in [Slots -> Nat] /\ len \in [Slots -> Nat] /\ replayed \in [Slots -> BOOLEAN] /\ admitted \in Nat
    BY LastAdmitted DEF WInv, WindowTypes, TypeInv
  <1>4. Resting  BY <1>2 DEF WInv
  <1>5. \A t \in Slots \ {s} : epoch'[t] = epoch[t] /\ len'[t] = len[t] /\ replayed'[t] = replayed[t]
    BY <1>2, <1>3
  <1>6. len'[s] = c /\ replayed'[s] = (c = 0)
    <2> DEFINE b == (c = 0)
    <2>1. b \in BOOLEAN  OBVIOUS
    <2> HIDE DEF b
    <2>2. replayed' = [replayed EXCEPT ![s] = b]  BY <1>2 DEF b
    <2>3. replayed'[s] = b  BY <1>3, <2>2
    <2> QED BY <1>2, <1>3, <2>3 DEF b
  <1>7. \A l \in Layers, x \in Rows : tags'[l][x] = IF x[1] = s THEN -1 ELSE tags[l][x]
    BY <1>2 DEF ResetTags
  <1>8. WindowTypes'
    <2>1. admitted + 1 \in Nat  BY <1>3
    <2> DEFINE e == admitted + 1
               b == (c = 0)
    <2>2. b \in BOOLEAN  OBVIOUS
    <2> HIDE DEF e, b
    <2>3. e \in Nat /\ epoch' = [epoch EXCEPT ![s] = e] /\ replayed' = [replayed EXCEPT ![s] = b]
      BY <1>2, <2>1 DEF e, b
    <2>4. epoch' \in [Slots -> Nat] /\ len' \in [Slots -> Nat] /\ replayed' \in [Slots -> BOOLEAN]
      BY <1>1, <1>2, <1>3, <2>2, <2>3
    <2>5. TypeInv'  BY <1>2, <2>4 DEF TypeInv, WInv, WindowTypes
    <2>6. tags' = [l \in Layers |-> tags'[l]]  BY <1>2 DEF ResetTags
    <2> QED BY <1>2, <2>4, <2>5, <2>6 DEF WInv, WindowTypes
  <1>9. TagsOwn'
    <2> SUFFICES ASSUME NEW l \in Layers, NEW x \in Rows, tags'[l][x] # -1
                 PROVE  state'[l][x].epoch = epoch'[x[1]] /\ state'[l][x].pos = tags'[l][x]
      BY DEF TagsOwn
    <2>1. x[1] # s /\ tags'[l][x] = tags[l][x]  BY <1>7
    <2>2. x[1] \in Slots  BY DEF Rows
    <2> QED BY <1>2, <1>5, <2>1, <2>2 DEF WInv, TagsOwn
  <1>10. PrefixLeft'
    <2> SUFFICES ASSUME NEW t \in Slots, epoch'[t] > 0, ~replayed'[t]  PROVE len'[t] > 0
      BY DEF PrefixLeft
    <2>1. CASE t = s
      <3>1. c # 0  BY <1>6, <2>1, Zenon
      <3> QED BY <1>1, <1>6, <2>1, <3>1
    <2>2. CASE t # s  BY <1>5, <2>2 DEF WInv, PrefixLeft
    <2> QED BY <2>1, <2>2
  <1>11. Resting'
    <2> SUFFICES ASSUME NEW t \in Slots, NEW l \in Layers, epoch'[t] > 0, replayed'[t]
                 PROVE  Held(l, t, len[t])'
      BY <1>2, <1>4 DEF Resting, Ready
    <2>1. CASE t = s
      <3>1. len'[t] = 0  BY <1>6, <2>1
      <3> QED BY <3>1 DEF Held
    <2>2. CASE t # s
      <3>1. epoch'[t] = epoch[t] /\ len'[t] = len[t] /\ Held(l, t, len[t])
        BY <1>4, <1>5, <2>2 DEF Resting, Ready
      <3>2. \A p \in Nat : tags'[l][Row(t, p)] = tags[l][Row(t, p)] /\ state'[l][Row(t, p)] = state[l][Row(t, p)]
        BY <1>2, <1>7, <2>2, RowInRing
      <3> QED BY <3>1, <3>2 DEF Held, Final
    <2> QED BY <2>1, <2>2
  <1> QED BY <1>2, <1>8, <1>9, <1>10, <1>11 DEF WInv

\* A forward starts: its queries are planned.
LEMMA WindowStart ==
  ASSUME WInv, NEW kind \in {"replay", "extend", "verify"}, NEW q, NEW kept \in Counts, NEW b \in Nat,
         Start(kind, q, kept, b), NEW cnt \in Counts, NEW from \in Counts, NEW floor \in Counts,
         LaidOut(q, cnt, from, floor), Small(cnt),
         kind = "extend" => Total([s \in Slots |-> kept[s] - len[s]]) <= ChunkSize,
         \A s \in Slots : PlanIn(kind, q, kept, cnt, from, floor, s)
  PROVE  WInv'
  <1>1. /\ fwd' = [kind |-> kind, layer |-> 1, step |-> "buffer", block |-> b, kept |-> kept]
        /\ layout' = q /\ prepared' = 0 /\ fwd.kind = "none"
        /\ epoch' = epoch /\ len' = len /\ replayed' = replayed /\ state' = state /\ tags' = tags
    BY DEF Start
  <1>2. fwd'.kind = kind /\ fwd'.layer = 1 /\ fwd'.step = "buffer" /\ fwd'.kept = kept  BY <1>1
  <1>3. WindowTypes' /\ TagsOwn' /\ PrefixLeft'
    <2>1. TypeInv'  BY <1>1 DEF WInv, WindowTypes, TypeInv, Counts
    <2> QED BY <1>1, <2>1 DEF WInv, WindowTypes, TagsOwn, PrefixLeft
  <1>4. Resting  BY <1>1 DEF WInv
  <1>5. Progress'
    <2>1. \A s \in Slots, l \in Layers : Ready(s) => Held(l, s, len[s])  BY <1>4 DEF Resting
    <2>2. \A l \in Layers : ~(l < 1)  BY DEF Layers
    <2> QED BY <1>1, <1>2, <2>1, <2>2 DEF Progress, Ready, Held, Final
  <1>6. ChunkFits'  BY <1>1, <1>2 DEF ChunkFits
  <1>7. Plan(cnt, from, floor)'
    <2>1. \A s \in Slots : PlanOf(cnt, from, floor, s)'
      BY <1>1, <1>2 DEF PlanOf, PlanIn, CurrentIn
    <2> QED BY <1>1, <2>1 DEF Plan
  <1>8. (\E c, f, o \in Counts : Plan(c, f, o))'  BY <1>7
  <1>9. Running'  BY <1>1, <1>2, <1>5, <1>6, <1>8 DEF Running, Layers
  <1> QED BY <1>2, <1>3, <1>9 DEF WInv

\* The queries of one slot are those of a layout in which the others have none.
LEMMA OneSlot ==
  ASSUME NEW s \in Slots, NEW f \in Nat, NEW c \in Nat
  PROVE  Queries(s, f, f + c, f) = Spread([t \in Slots |-> IF t = s THEN c ELSE 0],
                                          [t \in Slots |-> f], [t \in Slots |-> f])
  <1> DEFINE cnt == [t \in Slots |-> IF t = s THEN c ELSE 0]
             at == [t \in Slots |-> f]
             P(t) == Queries(t, f, f + cnt[t], f)
  <1>1. 1 \in Slots /\ (NumSlots = 1 => Slots = {1}) /\ (NumSlots # 1 => Slots = {1, 2})
    BY RingAssumption DEF Slots
  <1>2. Spread(cnt, at, at) = IF NumSlots = 1 THEN P(1) ELSE P(1) \o P(2)
    BY <1>1 DEF Spread, InOrder
  <1>3. cnt[s] = c /\ \A t \in Slots : t # s => cnt[t] = 0  OBVIOUS
  <1>4. ASSUME NEW t \in Slots, t # s  PROVE P(t) = <<>>
    <2>1. cnt[t] = 0  BY <1>4
    <2> HIDE DEF cnt
    <2>2. Queries(t, f, f + 0, f) = <<>>  BY QueriesNone
    <2> QED BY <2>1, <2>2
  <1>5. P(s) = Queries(s, f, f + c, f)  BY <1>3
  <1>6. P(s) \in Seq(Query)
    <2>1. IsPart(Queries(s, f, f + c, f), s, f, c, f)  BY QueriesSeq
    <2> QED BY <1>5, <2>1 DEF IsPart
  <1> HIDE DEF P, cnt, at
  <1>7. P(s) \o <<>> = P(s) /\ <<>> \o P(s) = P(s)  BY <1>6, ConcatEmptySeq
  <1>8. CASE NumSlots = 1  BY <1>1, <1>2, <1>5, <1>8 DEF cnt, at
  <1>9. CASE NumSlots # 1
    <2>1. s = 1 \/ s = 2  BY <1>1, <1>9
    <2>2. CASE s = 1
      <3>1. P(2) = <<>>  BY <1>1, <1>4, <1>9, <2>2
      <3> QED BY <1>2, <1>5, <1>7, <1>9, <2>2, <3>1 DEF cnt, at
    <2>3. CASE s = 2
      <3>1. P(1) = <<>>  BY <1>1, <1>4, <1>9, <2>3
      <3> QED BY <1>2, <1>5, <1>7, <1>9, <2>3, <3>1 DEF cnt, at
    <2> QED BY <2>1, <2>2, <2>3
  <1> QED BY <1>8, <1>9

LEMMA WindowReplay ==
  ASSUME WInv, NEW s \in Slots, Replay(s)
  PROVE  WInv'
  <1> DEFINE f == IF len[s] > Window THEN len[s] - Window ELSE 0
             c == len[s] - f
             q == Queries(s, f, len[s], f)
             cnt == [t \in Slots |-> IF t = s THEN c ELSE 0]
             at == [t \in Slots |-> f]
  <1>1. epoch[s] > 0 /\ ~replayed[s] /\ Start("replay", q, len, 0)  BY DEF Replay
  <1>2. len \in Counts /\ PrefixLeft
    BY DEF WInv, WindowTypes, TypeInv, Counts
  <1>3. len[s] \in Nat /\ len[s] > 0  BY <1>1, <1>2 DEF Counts, PrefixLeft
  <1>4. Window \in Nat /\ Window > 0 /\ Draft \in Nat  BY WindowAssumption, RingAssumption
  <1>5. f \in Nat /\ c \in Nat /\ c > 0 /\ c <= Window /\ f + c = len[s] /\ (f = 0 \/ f + Window <= len[s])
    BY <1>3, <1>4
  <1> HIDE DEF f, c
  <1>6. cnt \in Counts /\ at \in Counts  BY <1>5 DEF Counts
  <1>7. q = Spread(cnt, at, at)  BY <1>5, OneSlot
  <1>8. LaidOut(q, cnt, at, at)  BY <1>6, <1>7, SpreadLaid DEF Counts
  <1>9. Small(cnt)  BY <1>5 DEF Small
  <1>10. q[1].req = s
    <2>1. IsPart(Queries(s, f, f + c, f), s, f, c, f)  BY <1>5, QueriesSeq
    <2> QED BY <1>5, <2>1 DEF IsPart
  <1> HIDE DEF q
  <1>11. ASSUME NEW t \in Slots  PROVE PlanIn("replay", q, len, cnt, at, at, t)
    <2>1. CurrentIn("replay", q, t) <=> epoch[t] > 0 /\ (replayed[t] \/ s = t)  BY <1>10 DEF CurrentIn
    <2>2. CASE t = s
      <3>1. cnt[t] = c /\ at[t] = f /\ c # 0 /\ len[t] = len[s]  BY <1>5, <2>2
      <3>2. CurrentIn("replay", q, t)  BY <1>1, <2>1, <2>2
      <3>3. f < len[s] /\ len[s] <= len[s] /\ len[s] <= f + c /\ f + c <= len[s] + Draft  BY <1>3, <1>4, <1>5
      <3> HIDE DEF cnt, at
      <3> QED BY <1>5, <3>1, <3>2, <3>3 DEF PlanIn
    <2>3. CASE t # s
      <3>1. cnt[t] = 0  BY <2>3
      <3> HIDE DEF cnt, at
      <3> QED BY <2>1, <2>3, <3>1 DEF PlanIn
    <2> QED BY <2>2, <2>3
  <1> HIDE DEF cnt, at
  <1> QED BY <1>1, <1>2, <1>6, <1>8, <1>9, <1>11, WindowStart

LEMMA WindowExtend ==
  ASSUME WInv, NEW n \in [Slots -> 0..ChunkSize], Extend(n)
  PROVE  WInv'
  <1>1. len \in Counts /\ ChunkSize \in Nat /\ Draft \in Nat
    BY RingAssumption DEF WInv, WindowTypes, TypeInv, Counts
  <1>2. n \in Counts /\ NoFloor \in Counts  BY <1>1 DEF Counts, NoFloor
  <1> DEFINE kept == [s \in Slots |-> len[s] + n[s]]
             q == Spread(n, len, NoFloor)
  <1>3. kept \in Counts  BY <1>1, <1>2 DEF Counts
  <1>4. Start("extend", q, kept, 0)  BY DEF Extend, Spread, NoFloor
  <1>5. LaidOut(q, n, len, NoFloor)  BY <1>1, <1>2, SpreadLaid DEF Counts
  <1>6. Total(n) <= ChunkSize
    <2>1. (IF NumSlots = 1 THEN n[1] ELSE n[1] + n[2]) \in 1..ChunkSize  BY DEF Extend
    <2> QED BY <1>1, <2>1 DEF Total
  <1>7. Total([s \in Slots |-> kept[s] - len[s]]) <= ChunkSize
    <2>1. \A s \in Slots : kept[s] - len[s] = n[s]  BY <1>1, <1>2 DEF Counts
    <2>2. [s \in Slots |-> kept[s] - len[s]] = n  BY <1>2, <2>1 DEF Counts
    <2> QED BY <1>6, <2>2
  <1>8. ASSUME NEW s \in Slots  PROVE PlanIn("extend", q, kept, n, len, NoFloor, s)
    <2>1. CurrentIn("extend", q, s) <=> epoch[s] > 0 /\ replayed[s]  BY DEF CurrentIn
    <2>2. n[s] > 0 => CurrentIn("extend", q, s)  BY <2>1 DEF Extend, Ready
    <2>3. kept[s] = len[s] + n[s] /\ len[s] \in Nat /\ n[s] \in Nat  BY <1>1, <1>2 DEF Counts
    <2> HIDE DEF kept, q
    <2>4. CASE n[s] = 0  BY <2>1, <2>3, <2>4 DEF PlanIn
    <2>5. CASE n[s] # 0
      <3>1. n[s] > 0  BY <2>3, <2>5
      <3>2. len[s] <= kept[s] /\ len[s] < kept[s] /\ kept[s] <= len[s] + n[s] /\ len[s] + n[s] <= kept[s] + Draft
        BY <1>1, <2>3, <3>1
      <3> QED BY <2>1, <2>2, <2>5, <3>1, <3>2 DEF PlanIn
    <2> QED BY <2>4, <2>5
  <1>9. Small(n)  BY <1>6 DEF Small
  <1> HIDE DEF kept, q
  <1> QED BY <1>1, <1>2, <1>3, <1>4, <1>5, <1>7, <1>8, <1>9, WindowStart

LEMMA WindowVerify ==
  ASSUME WInv, NEW B \in SUBSET Slots, B # {}, NEW k \in 1..Max({1, Draft}), NEW a \in [B -> 1..k],
         Verify(B, k, a)
  PROVE  WInv'
  <1> DEFINE cnt == [s \in Slots |-> IF s \in B THEN k ELSE 0]
             kept == [s \in Slots |-> IF s \in B THEN len[s] + a[s] ELSE len[s]]
             q == Spread(cnt, len, NoFloor)
             part == [s \in Slots |-> IF s \in B THEN Queries(s, len[s], len[s] + k, 0) ELSE <<>>]
  <1>1. len \in Counts /\ Draft \in Nat  BY RingAssumption DEF WInv, WindowTypes, TypeInv, Counts
  <1>2. k \in Nat /\ k >= 1 /\ k <= 1 + Draft /\ (k = 1 \/ k <= Draft)
    <2>1. Max({1, Draft}) \in {1, Draft}  BY <1>1, MaxOne
    <2> QED BY <1>1, <2>1
  <1>3. cnt \in Counts /\ NoFloor \in Counts  BY <1>2 DEF Counts, NoFloor
  <1>4. \A s \in B : a[s] \in Nat /\ a[s] >= 1 /\ a[s] <= k  BY <1>2
  <1>5. kept \in Counts
    <2>1. \A s \in Slots : kept[s] \in Nat  BY <1>1, <1>4 DEF Counts
    <2> QED BY <2>1 DEF Counts
  <1>6. Start("verify", InOrder(part), kept, k)  BY DEF Verify
  <1>7. InOrder(part) = q
    <2>1. \A s \in Slots : part[s] = Queries(s, len[s], len[s] + cnt[s], NoFloor[s])
      <3> SUFFICES ASSUME NEW s \in Slots  PROVE part[s] = Queries(s, len[s], len[s] + cnt[s], NoFloor[s])
        OBVIOUS
      <3>1. NoFloor[s] = 0 /\ len[s] \in Nat  BY <1>1 DEF NoFloor, Counts
      <3>2. CASE s \in B  BY <3>1, <3>2
      <3>3. CASE s \notin B
        <4> DEFINE m == len[s]
        <4>1. m \in Nat  BY <3>1
        <4> HIDE DEF m
        <4>2. Queries(s, m, m + 0, 0) = <<>>  BY <4>1, QueriesNone
        <4>3. cnt[s] = 0 /\ part[s] = <<>>  BY <3>3
        <4> QED BY <3>1, <4>2, <4>3 DEF m
      <3> QED BY <3>2, <3>3
    <2> HIDE DEF cnt
    <2>2. part = [s \in Slots |-> Queries(s, len[s], len[s] + cnt[s], NoFloor[s])]  BY <2>1
    <2> QED BY <2>2 DEF Spread
  <1>8. LaidOut(q, cnt, len, NoFloor)  BY <1>1, <1>3, SpreadLaid DEF Counts
  <1>9. Small(cnt)
    <2>1. \A s \in Slots : cnt[s] <= 1 + Draft  BY <1>1, <1>2
    <2> QED BY <2>1 DEF Small
  <1>10. ASSUME NEW s \in Slots  PROVE PlanIn("verify", q, kept, cnt, len, NoFloor, s)
    <2>1. CurrentIn("verify", q, s) <=> epoch[s] > 0 /\ replayed[s]  BY DEF CurrentIn
    <2>2. len[s] \in Nat  BY <1>1 DEF Counts
    <2>3. CASE s \notin B
      <3>1. cnt[s] = 0 /\ kept[s] = len[s]  BY <2>3
      <3> HIDE DEF cnt, kept, q
      <3> QED BY <2>1, <3>1 DEF PlanIn
    <2>4. CASE s \in B
      <3>1. cnt[s] = k /\ kept[s] = len[s] + a[s] /\ Ready(s)  BY <2>4 DEF Verify
      <3>2. a[s] \in Nat /\ a[s] >= 1 /\ a[s] <= k  BY <1>4, <2>4
      <3> HIDE DEF cnt, kept, q
      <3>3. /\ k # 0 /\ len[s] <= kept[s] /\ len[s] < kept[s] /\ kept[s] <= len[s] + k
            /\ len[s] + k <= kept[s] + Draft
        BY <1>1, <1>2, <2>2, <3>1, <3>2
      <3> QED BY <2>1, <3>1, <3>3 DEF PlanIn, Ready
    <2> QED BY <2>3, <2>4
  <1> HIDE DEF cnt, kept, q, part
  <1>11. Start("verify", q, kept, k)  BY <1>6, <1>7
  <1> QED BY <1>1, <1>2, <1>3, <1>5, <1>8, <1>9, <1>10, <1>11, WindowStart

\* The history of a layer is in its ring when the layer comes to it.
LEMMA HistoryHeld ==
  ASSUME WInv, Running, fwd.step = "buffer", NEW cnt \in Counts, NEW from \in Counts, NEW floor \in Counts,
         Plan(cnt, from, floor), NEW s \in Slots, NEW p \in Nat, Old(cnt, from, floor, s, p)
  PROVE  tags[fwd.layer][Row(s, p)] = p /\ state[fwd.layer][Row(s, p)] = Final(s, p)
  <1>1. cnt[s] > 0 /\ from[s] - Window <= p /\ p < from[s] /\ p >= floor[s]  BY DEF Old
  <1>2. /\ cnt[s] \in Nat /\ from[s] \in Nat /\ floor[s] \in Nat /\ Window \in Nat
        /\ fwd.layer \in Layers /\ ~(fwd.layer < fwd.layer)
    BY WindowAssumption DEF Counts, Running, Layers
  <1>3. PlanOf(cnt, from, floor, s)  BY DEF Plan
  <1>4. cnt[s] # 0 /\ floor[s] # from[s]  BY <1>1, <1>2
  <1>5. replayed[s] /\ from[s] = len[s] /\ epoch[s] > 0  BY <1>3, <1>4 DEF PlanOf, PlanIn, CurrentIn
  <1>6. Held(fwd.layer, s, len[s])  BY <1>2, <1>5 DEF Running, Progress, Ready
  <1>7. p < len[s] /\ len[s] <= p + Window  BY <1>1, <1>2, <1>5
  <1> QED BY <1>6, <1>7 DEF Held

LEMMA WindowBuffer ==
  ASSUME WInv, Buffer
  PROVE  WInv'
  <1>1. fwd.step = "buffer" /\ layout' = layout /\ prepared' = fwd.layer
        /\ epoch' = epoch /\ len' = len /\ replayed' = replayed /\ state' = state /\ tags' = tags
        /\ fwd' = [fwd EXCEPT !.step = IF prepared # fwd.layer /\ Missing(layout, fwd.layer)
                                       THEN "missing" ELSE "attend"]
    BY DEF Buffer
  <1>2. fwd.kind # "none" /\ Running  BY <1>1 DEF WInv, Resting
  <1>3. PICK cnt, from, floor \in Counts : Plan(cnt, from, floor)  BY <1>2 DEF Running
  <1>4. LaidOut(layout, cnt, from, floor)  BY <1>3 DEF Plan
  <1>5. prepared # fwd.layer  BY <1>1, <1>2 DEF Running
  <1>6. \A s \in Slots, p \in Nat : Old(cnt, from, floor, s, p) =>
           tags[fwd.layer][Row(s, p)] = p /\ state[fwd.layer][Row(s, p)] = Final(s, p)
    BY <1>1, <1>2, <1>3, HistoryHeld
  <1>7. ASSUME NEW h \in history(layout)
        PROVE  \E s \in Slots, p \in Nat : Old(cnt, from, floor, s, p) /\ h = HistoryRow(cnt, from, s, p)
    BY <1>4, LaidHistory
  <1>8. ~Missing(layout, fwd.layer)
    <2>1. ASSUME NEW h \in history(layout)  PROVE tags[fwd.layer][Row(h.req, h.pos)] = h.pos
      <3>1. PICK s \in Slots, p \in Nat : Old(cnt, from, floor, s, p) /\ h = HistoryRow(cnt, from, s, p)  BY <1>7
      <3>2. h.req = s /\ h.pos = p  BY <3>1 DEF HistoryRow
      <3> QED BY <1>6, <3>1, <3>2
    <2> QED BY <2>1 DEF Missing
  <1>9. fwd \in [kind : {"none", "replay", "extend", "verify"}, layer : {0, 1, 2},
                 step : {"", "buffer", "attend", "missing"}, block : Nat, kept : [Slots -> Nat]]
    BY DEF WInv, WindowTypes, TypeInv
  <1>10. /\ fwd'.step = "attend" /\ fwd'.kind = fwd.kind /\ fwd'.layer = fwd.layer
         /\ fwd'.block = fwd.block /\ fwd'.kept = fwd.kept
    BY <1>1, <1>8, <1>9
  <1>11. WindowTypes' /\ TagsOwn' /\ PrefixLeft'
    <2>1. TypeInv'  BY <1>1, <1>8, <1>9 DEF WInv, WindowTypes, TypeInv
    <2> QED BY <1>1, <2>1 DEF WInv, WindowTypes, TagsOwn, PrefixLeft
  <1>12. Progress'
    <2>1. Progress  BY <1>2 DEF Running
    <2> QED BY <1>1, <1>10, <2>1 DEF Progress, Current, CurrentIn, Ready, Held, Final
  <1>13. Filled'
    <2>1. \A i \in 1..Len(layout) : workspace'[write_loc(layout, i)] = KV(layout[i])
      BY <1>4, <1>5, BufferFills
    <2>2. ASSUME NEW h \in history(layout)  PROVE workspace'[h.loc] = Final(h.req, h.pos)
      <3>1. PICK s \in Slots, p \in Nat : Old(cnt, from, floor, s, p) /\ h = HistoryRow(cnt, from, s, p)  BY <1>7
      <3>2. h.req = s /\ h.pos = p  BY <3>1 DEF HistoryRow
      <3>3. workspace'[HistoryRow(cnt, from, s, p).loc] = state[fwd.layer][Row(s, p)]
        BY <1>4, <1>5, <3>1, BufferFills
      <3> QED BY <1>6, <3>1, <3>2, <3>3
    <2>3. \A x : KV(x)' = KV(x)  BY <1>1, <1>10 DEF KV
    <2> QED BY <1>1, <2>1, <2>2, <2>3 DEF Filled, Final
  <1>14. (\E c, f, o \in Counts : Plan(c, f, o))'
    <2>1. \A t \in Slots : PlanOf(cnt, from, floor, t)  BY <1>3 DEF Plan
    <2>2. \A t \in Slots : PlanOf(cnt, from, floor, t)'
      BY <1>1, <1>10, <2>1 DEF PlanOf, PlanIn, CurrentIn
    <2>3. Plan(cnt, from, floor)'  BY <1>1, <1>3, <2>2 DEF Plan
    <2> QED BY <2>3
  <1>15. ChunkFits'  BY <1>1, <1>2, <1>10 DEF Running, ChunkFits
  <1>16. Running'  BY <1>1, <1>2, <1>10, <1>12, <1>13, <1>14, <1>15 DEF Running
  <1> QED BY <1>2, <1>10, <1>11, <1>16 DEF WInv

\* What commit() leaves in the rings.
CommitDone ==
    LET L == fwd.layer
        dst(i) == Row(layout[i].req, layout[i].pos) IN
    /\ \A l \in Layers \ {L} : state'[l] = state[l] /\ tags'[l] = tags[l]
    /\ \A i \in Committed(layout) :
          dst(i) \in Rows /\ state'[L][dst(i)] = workspace[write_loc(layout, i)] /\ tags'[L][dst(i)] = layout[i].pos
    /\ \A x \in Rows : (\A i \in Committed(layout) : dst(i) # x) => state'[L][x] = state[L][x] /\ tags'[L][x] = tags[L][x]

LEMMA CommitRing ==
  ASSUME WindowTypes, fwd.layer \in Layers, Commit,
         NEW cnt \in Counts, NEW from \in Counts, NEW floor \in Counts, LaidOut(layout, cnt, from, floor)
  PROVE  CommitDone
  <1> DEFINE q == layout
             L == fwd.layer
             dst(i) == Row(q[i].req, q[i].pos)
             C == Committed(q)
             at(x) == CHOOSE i \in C : dst(i) = x
             newState == [x \in Rows |-> IF \E i \in C : dst(i) = x
                                         THEN workspace[write_loc(q, at(x))] ELSE state[L][x]]
             newTags == [x \in Rows |-> IF \E i \in C : dst(i) = x THEN q[at(x)].pos ELSE tags[L][x]]
  <1>1. state = [l \in Layers |-> state[l]] /\ tags = [l \in Layers |-> tags[l]]  BY DEF WindowTypes
  <1>2. state' = [state EXCEPT ![L] = newState] /\ tags' = [tags EXCEPT ![L] = newTags]  BY DEF Commit
  <1>3. ASSUME NEW i \in C  PROVE dst(i) \in Rows /\ at(dst(i)) = i
    <2>1. i \in 1..Len(q)  BY <1>3, CommittedRows
    <2>2. q[i].req \in Slots /\ q[i].pos \in Nat
      <3>1. q[i] \in Query  BY <2>1, ElementOfSeq DEF LaidOut
      <3> QED BY <3>1 DEF Query
    <2>3. dst(i) \in Rows  BY <2>2, RowInRing
    <2>4. \A j \in C : dst(j) = dst(i) => j = i  BY <1>3, CommitsApart
    <2> HIDE DEF dst, C
    <2>5. at(dst(i)) = i  BY <1>3, <2>4
    <2> QED BY <2>3, <2>5
  <1>4. \A i \in C : newState[dst(i)] = workspace[write_loc(q, i)] /\ newTags[dst(i)] = q[i].pos
    <2> SUFFICES ASSUME NEW i \in C
                 PROVE  newState[dst(i)] = workspace[write_loc(q, i)] /\ newTags[dst(i)] = q[i].pos
      OBVIOUS
    <2> HIDE DEF dst, C, at
    <2> QED BY <1>3
  <1>5. \A x \in Rows : (\A i \in C : dst(i) # x) => newState[x] = state[L][x] /\ newTags[x] = tags[L][x]
    <2> HIDE DEF dst, C, at
    <2> QED OBVIOUS
  <1> HIDE DEF newState, newTags
  <1>6. state'[L] = newState /\ tags'[L] = newTags  BY <1>1, <1>2
  <1>7. \A l \in Layers \ {L} : state'[l] = state[l] /\ tags'[l] = tags[l]  BY <1>1, <1>2
  <1> QED BY <1>3, <1>4, <1>5, <1>6, <1>7 DEF CommitDone

\* The ring of the layer holds the windows as the forward leaves them.
LEMMA HeldAfter ==
  ASSUME WInv, fwd.kind # "none", fwd.step = "attend", CommitDone,
         NEW cnt \in Counts, NEW from \in Counts, NEW floor \in Counts, Plan(cnt, from, floor),
         NEW s \in Slots, Current(s), NEW p \in Nat, p < fwd.kept[s], fwd.kept[s] <= p + Window
  PROVE  tags'[fwd.layer][Row(s, p)] = p /\ state'[fwd.layer][Row(s, p)] = Final(s, p)
  <1> DEFINE L == fwd.layer
             n == fwd.kept[s]
             f == Firsts(cnt)[s]
             dst(i) == Row(layout[i].req, layout[i].pos)
  <1>1. LaidOut(layout, cnt, from, floor) /\ PlanOf(cnt, from, floor, s)  BY DEF Plan
  <1>2. L \in Layers /\ ~(L < L) /\ Progress /\ Filled  BY DEF WInv, Running, Layers
  <1>3. /\ cnt[s] \in Nat /\ from[s] \in Nat /\ len[s] \in Nat /\ n \in Nat
        /\ Window \in Nat /\ Draft \in Nat /\ capacity \in Nat /\ capacity >= Window + Draft
        /\ f \in Nat
    BY <1>1, WindowAssumption, RingAssumption, Capacity, LaidType DEF Counts, WInv, WindowTypes, TypeInv
  <1>4. Row(s, p) \in Rows  BY RowInRing
  <1>5. ASSUME NEW i \in Committed(layout)
        PROVE  i \in 1..Len(layout) /\ RowIn(layout, cnt, from, floor, i, layout[i].req)
    BY <1>1, CommittedRows, LaidRow
  <1>6. ASSUME Ready(s), p < len[s], len[s] <= p + Window, \A i \in Committed(layout) : dst(i) # Row(s, p)
        PROVE  tags'[L][Row(s, p)] = p /\ state'[L][Row(s, p)] = Final(s, p)
    <2>1. Held(L, s, len[s])  BY <1>2, <1>6 DEF Progress
    <2>2. tags[L][Row(s, p)] = p /\ state[L][Row(s, p)] = Final(s, p)  BY <1>6, <2>1 DEF Held
    <2>3. state'[L][Row(s, p)] = state[L][Row(s, p)] /\ tags'[L][Row(s, p)] = tags[L][Row(s, p)]
      BY <1>4, <1>6 DEF CommitDone
    <2> QED BY <2>2, <2>3
  <1> HIDE DEF L, n, f
  <1>7. CASE cnt[s] = 0
    <2>1. n = len[s] /\ Ready(s)
      BY <1>1, <1>7 DEF PlanOf, PlanIn, Ready, Current, CurrentIn, n
    <2>2. ASSUME NEW i \in Committed(layout)  PROVE dst(i) # Row(s, p)
      <3>1. cnt[layout[i].req] > 0  BY <1>5 DEF RowIn
      <3>2. layout[i].req # s  BY <1>3, <1>7, <3>1
      <3> QED BY <3>2 DEF Row
    <2> QED BY <1>6, <2>1, <2>2 DEF n, L
  <1>8. CASE cnt[s] # 0
    <2>1. /\ n <= from[s] + cnt[s] /\ from[s] + cnt[s] <= n + Draft /\ len[s] <= n
          /\ \/ replayed[s] /\ from[s] = len[s]
             \/ from[s] = 0 \/ from[s] + Window <= n
      BY <1>1, <1>8 DEF PlanOf, PlanIn, n
    <2>2. p < n /\ n <= p + Window  BY DEF n
    <2>3. CASE from[s] <= p
      <3> DEFINE i == f + p - from[s]
      <3>1. i \in Int /\ f <= i /\ i < f + cnt[s]  BY <1>3, <2>1, <2>2, <2>3
      <3>2. i \in 1..Len(layout) /\ RowIn(layout, cnt, from, floor, i, s)  BY <1>1, <3>1, LaidAt DEF f
      <3>3. layout[i].req = s /\ layout[i].pos = p  BY <1>3, <2>3, <3>2 DEF RowIn, f
      <3>4. f + cnt[s] - 1 - i < capacity  BY <1>3, <2>1, <2>2, <2>3
      <3> HIDE DEF i
      <3>5. i \in Committed(layout)  BY <1>1, <3>2, <3>3, <3>4, CommittedRows DEF f
      <3>6. tags'[L][Row(s, p)] = p /\ state'[L][Row(s, p)] = workspace[write_loc(layout, i)]
        BY <3>3, <3>5 DEF CommitDone, L
      <3>7. workspace[write_loc(layout, i)] = KV(layout[i])  BY <1>2, <3>2 DEF Filled
      <3>8. KV(layout[i]) = [epoch |-> epoch[s], pos |-> p, ok |-> p < n]  BY <3>3 DEF KV, n
      <3>9. (p < n) = TRUE  BY <2>2
      <3>10. KV(layout[i]) = Final(s, p)  BY <3>8, <3>9, Zenon DEF Final
      <3> QED BY <3>6, <3>7, <3>10 DEF L
    <2>4. CASE p < from[s]
      <3>1. replayed[s] /\ from[s] = len[s]
        <4>1. ~(from[s] = 0 \/ from[s] + Window <= n)  BY <1>3, <2>2, <2>4
        <4> QED BY <2>1, <4>1
      <3>2. Ready(s) /\ p < len[s] /\ len[s] <= p + Window
        <4>1. epoch[s] > 0  BY DEF Current, CurrentIn
        <4> QED BY <1>3, <2>1, <2>2, <2>4, <3>1, <4>1 DEF Ready
      <3>3. ASSUME NEW i \in Committed(layout), dst(i) = Row(s, p)  PROVE FALSE
        <4> DEFINE t == layout[i].req
                   r == layout[i].pos
        <4>1. t = s  BY <3>3 DEF Row
        <4>2. /\ Firsts(cnt)[s] <= i /\ i < Firsts(cnt)[s] + cnt[s] /\ r = from[s] + i - Firsts(cnt)[s]
          BY <1>5, <4>1 DEF RowIn
        <4>3. i \in Int  BY <1>5
        <4> HIDE DEF t, r
        <4>4. r \in Nat /\ p < r /\ r - p < capacity /\ p - r < capacity
          BY <1>3, <2>1, <2>2, <2>4, <4>2, <4>3 DEF f
        <4>5. Row(t, r) = Row(s, p)  BY <3>3 DEF t, r
        <4>6. r = p  BY <4>1, <4>4, <4>5, RowDistinct
        <4> QED BY <4>4, <4>6
      <3> QED BY <1>6, <3>2, <3>3 DEF L
    <2> QED BY <1>3, <2>3, <2>4
  <1> QED BY <1>7, <1>8

LEMMA CommitTags ==
  ASSUME WInv, fwd.kind # "none", fwd.step = "attend", CommitDone, epoch' = epoch
  PROVE  TagsOwn'
  <1> SUFFICES ASSUME NEW l \in Layers, NEW x \in Rows, tags'[l][x] # -1
               PROVE  state'[l][x].epoch = epoch'[x[1]] /\ state'[l][x].pos = tags'[l][x]
    BY DEF TagsOwn
  <1> DEFINE dst(i) == Row(layout[i].req, layout[i].pos)
  <1>1. PICK cnt, from, floor \in Counts : Plan(cnt, from, floor)  BY DEF WInv, Running
  <1>2. LaidOut(layout, cnt, from, floor) /\ Filled  BY <1>1 DEF Plan, WInv, Running
  <1>3. CASE l = fwd.layer /\ \E i \in Committed(layout) : dst(i) = x
    <2>1. PICK i \in Committed(layout) : dst(i) = x  BY <1>3
    <2>2. i \in 1..Len(layout)  BY <1>2, CommittedRows
    <2>3. workspace[write_loc(layout, i)] = KV(layout[i])  BY <1>2, <2>2 DEF Filled
    <2>4. state'[l][x] = KV(layout[i]) /\ tags'[l][x] = layout[i].pos  BY <1>3, <2>1, <2>3 DEF CommitDone
    <2>5. x[1] = layout[i].req  BY <2>1 DEF Row
    <2> QED BY <2>4, <2>5 DEF KV
  <1>4. CASE ~(l = fwd.layer /\ \E i \in Committed(layout) : dst(i) = x)
    <2>1. state'[l][x] = state[l][x] /\ tags'[l][x] = tags[l][x]  BY <1>4 DEF CommitDone
    <2>2. state[l][x].epoch = epoch[x[1]] /\ state[l][x].pos = tags[l][x]  BY <2>1 DEF WInv, TagsOwn
    <2> QED BY <2>1, <2>2
  <1> QED BY <1>3, <1>4

\* The late layers have a plan too.
LEMMA LatePlan ==
  ASSUME WInv, Running, fwd.kind = "extend"
  PROVE  \E cnt, from \in Counts :
           /\ LaidOut(LateQueries, cnt, from, from) /\ Small(cnt)
           /\ \A s \in Slots : PlanIn("extend", LateQueries, fwd.kept, cnt, from, from, s)
  <1> DEFINE kept == fwd.kept
             from == [s \in Slots |-> Max({len[s], kept[s] - Window})]
             cnt == [s \in Slots |-> kept[s] - from[s]]
             q == LateQueries
  <1>1. len \in Counts /\ kept \in Counts  BY DEF WInv, WindowTypes, TypeInv, Counts
  <1>2. Window \in Nat /\ Window > 0 /\ Draft \in Nat /\ ChunkSize \in Nat  BY WindowAssumption, RingAssumption
  <1>3. PICK c, f, o \in Counts : Plan(c, f, o)  BY DEF Running
  <1>4. ASSUME NEW s \in Slots
        PROVE  /\ len[s] \in Nat /\ kept[s] \in Nat /\ len[s] <= kept[s]
               /\ len[s] < kept[s] => epoch[s] > 0 /\ replayed[s]
    <2>1. len[s] \in Nat /\ kept[s] \in Nat  BY <1>1 DEF Counts
    <2>2. PlanOf(c, f, o, s)  BY <1>3 DEF Plan
    <2>3. CASE c[s] = 0
      <3>1. kept[s] = len[s]  BY <2>2, <2>3 DEF PlanOf, PlanIn
      <3> QED BY <2>1, <3>1
    <2>4. CASE c[s] # 0  BY <2>1, <2>2, <2>4 DEF PlanOf, PlanIn, CurrentIn
    <2> QED BY <2>3, <2>4
  <1>5. ASSUME NEW s \in Slots
        PROVE  /\ from[s] \in Nat /\ len[s] <= from[s] /\ from[s] <= kept[s]
               /\ from[s] = len[s] \/ from[s] + Window = kept[s]
    <2> DEFINE b == kept[s] - Window
    <2>1. len[s] \in Int /\ b \in Int  BY <1>2, <1>4
    <2>2. from[s] = Max({len[s], b})  OBVIOUS
    <2> HIDE DEF b
    <2>3. from[s] \in {len[s], b} /\ from[s] >= len[s]  BY <2>1, <2>2, MaxOfTwo
    <2>4. from[s] = len[s] \/ from[s] + Window = kept[s]  BY <1>2, <1>4, <2>3 DEF b
    <2> HIDE DEF from
    <2> QED BY <1>2, <1>4, <2>1, <2>3, <2>4
  <1>6. from \in Counts  BY <1>5 DEF Counts
  <1>7. ASSUME NEW s \in Slots
        PROVE  cnt[s] \in Nat /\ from[s] + cnt[s] = kept[s] /\ cnt[s] <= kept[s] - len[s]
    <2>1. cnt[s] = kept[s] - from[s]  OBVIOUS
    <2> HIDE DEF from, cnt
    <2> QED BY <1>4, <1>5, <2>1
  <1>8. cnt \in Counts  BY <1>7 DEF Counts
  <1>9. q = Spread(cnt, from, from)
    <2>1. q = InOrder([s \in Slots |-> Queries(s, from[s], kept[s], from[s])])  BY DEF LateQueries
    <2>2. Spread(cnt, from, from) = InOrder([s \in Slots |-> Queries(s, from[s], from[s] + cnt[s], from[s])])
      BY DEF Spread
    <2> HIDE DEF from, cnt, q, kept
    <2>3. [s \in Slots |-> Queries(s, from[s], kept[s], from[s])]
          = [s \in Slots |-> Queries(s, from[s], from[s] + cnt[s], from[s])]
      BY <1>7
    <2> QED BY <2>1, <2>2, <2>3
  <1>10. LaidOut(q, cnt, from, from)  BY <1>6, <1>8, <1>9, SpreadLaid DEF Counts
  <1>11. Small(cnt)
    <2> DEFINE new == [s \in Slots |-> kept[s] - len[s]]
    <2>1. Total(new) <= ChunkSize  BY DEF Running, ChunkFits
    <2>2. \A s \in Slots : cnt[s] \in Nat /\ new[s] \in Nat /\ cnt[s] <= new[s]
      <3> SUFFICES ASSUME NEW s \in Slots  PROVE cnt[s] \in Nat /\ new[s] \in Nat /\ cnt[s] <= new[s]
        OBVIOUS
      <3>1. new[s] = kept[s] - len[s]  OBVIOUS
      <3> HIDE DEF new, cnt, from
      <3> QED BY <1>4, <1>7, <3>1
    <2> HIDE DEF new, cnt, from
    <2>3. 1 \in Slots /\ (NumSlots # 1 => 2 \in Slots)  BY RingAssumption DEF Slots
    <2>4. Total(cnt) <= ChunkSize  BY <1>2, <2>1, <2>2, <2>3 DEF Total
    <2> QED BY <2>4 DEF Small
  <1>12. ASSUME NEW s \in Slots  PROVE PlanIn("extend", q, kept, cnt, from, from, s)
    <2>1. CurrentIn("extend", q, s) <=> epoch[s] > 0 /\ replayed[s]  BY DEF CurrentIn
    <2> HIDE DEF kept, cnt, from, q
    <2>2. CASE cnt[s] = 0
      <3>1. kept[s] = len[s]  BY <1>2, <1>4, <1>5, <1>7, <2>2
      <3> QED BY <2>1, <2>2, <3>1 DEF PlanIn
    <2>3. CASE cnt[s] # 0
      <3>1. /\ len[s] < kept[s] /\ from[s] < kept[s] /\ kept[s] <= from[s] + cnt[s]
            /\ from[s] + cnt[s] <= kept[s] + Draft
        BY <1>2, <1>4, <1>5, <1>7, <2>3
      <3>2. from[s] = len[s] \/ from[s] + Window <= kept[s]  BY <1>4, <1>5
      <3> QED BY <1>4, <2>1, <2>3, <3>1, <3>2 DEF PlanIn
    <2> QED BY <2>2, <2>3
  <1> HIDE DEF kept, cnt, from, q
  <1> QED BY <1>6, <1>8, <1>10, <1>11, <1>12 DEF q, kept

\* On to the late layers.
LEMMA CommitEarly ==
  ASSUME WInv, Commit, fwd.layer = 1
  PROVE  WInv'
  <1>1. /\ fwd.step = "attend" /\ epoch' = epoch /\ len' = len /\ replayed' = replayed
        /\ fwd' = [fwd EXCEPT !.layer = 2, !.step = "buffer"] /\ layout' = LateQueries
        /\ prepared' = IF LateQueries = layout THEN prepared ELSE 0
    BY DEF Commit
  <1>2. fwd.kind # "none" /\ Running  BY <1>1 DEF WInv, Resting
  <1>3. WindowTypes /\ 1 \in Layers /\ fwd.layer \in Layers  BY <1>2 DEF WInv, Running
  <1>4. fwd \in [kind : {"none", "replay", "extend", "verify"}, layer : {0, 1, 2},
                 step : {"", "buffer", "attend", "missing"}, block : Nat, kept : [Slots -> Nat]]
    BY DEF WInv, WindowTypes, TypeInv
  <1>5. /\ fwd'.step = "buffer" /\ fwd'.kind = fwd.kind /\ fwd'.layer = 2
        /\ fwd'.block = fwd.block /\ fwd'.kept = fwd.kept
    BY <1>1, <1>4
  <1>6. PICK cnt, from, floor \in Counts : Plan(cnt, from, floor)  BY <1>2 DEF Running
  <1>7. LaidOut(layout, cnt, from, floor)  BY <1>6 DEF Plan
  <1>8. CommitDone  BY <1>3, <1>7, CommitRing
  <1>9. TagsOwn'  BY <1>1, <1>2, <1>8, CommitTags
  <1>10. WindowTypes'
    <2>1. fwd' \in [kind : {"none", "replay", "extend", "verify"}, layer : {0, 1, 2},
                    step : {"", "buffer", "attend", "missing"}, block : Nat, kept : [Slots -> Nat]]
      BY <1>1, <1>4
    <2>2. TypeInv'  BY <1>1, <1>3, <2>1 DEF WindowTypes, TypeInv
    <2>3. state' = [l \in Layers |-> state'[l]] /\ tags' = [l \in Layers |-> tags'[l]]
      BY <1>3 DEF Commit, WindowTypes
    <2> QED BY <1>1, <1>3, <2>2, <2>3 DEF WindowTypes
  <1>11. PrefixLeft'  BY <1>1 DEF WInv, PrefixLeft
  <1>12. prepared' # 2  BY <1>1, <1>2 DEF Running
  <1>13. ASSUME NEW s \in Slots  PROVE Current(s)' <=> Current(s)
    BY <1>1, <1>5 DEF Current, CurrentIn, LateQueries
  <1>14. Progress'
    <2> SUFFICES ASSUME NEW s \in Slots, NEW l \in Layers
                 PROVE  (IF l < fwd'.layer THEN Current(s)' => Held(l, s, fwd.kept[s])'
                         ELSE Ready(s)' => Held(l, s, len[s])')
      BY DEF Progress
    <2>1. l = 1 \/ l = 2  BY DEF Layers
    <2>2. CASE l = 1
      <3>1. ASSUME Current(s)  PROVE Held(1, s, fwd.kept[s])'
        <4>1. \A p \in Nat : p < fwd.kept[s] /\ fwd.kept[s] <= p + Window =>
                 tags'[fwd.layer][Row(s, p)] = p /\ state'[fwd.layer][Row(s, p)] = Final(s, p)
          BY <1>1, <1>2, <1>6, <1>8, <3>1, HeldAfter
        <4> QED BY <1>1, <1>5, <4>1 DEF Held, Final
      <3> QED BY <1>5, <1>13, <2>2, <3>1
    <2>3. CASE l = 2
      <3>1. ~(l < fwd.layer) /\ ~(l < fwd'.layer)  BY <1>5, <2>3
      <3>2. Ready(s) => Held(l, s, len[s])  BY <1>2, <3>1 DEF Running, Progress
      <3>3. state'[l] = state[l] /\ tags'[l] = tags[l]  BY <1>8, <2>3 DEF CommitDone
      <3> QED BY <1>1, <3>1, <3>2, <3>3 DEF Ready, Held, Final
    <2> QED BY <2>1, <2>2, <2>3
  <1>15. ChunkFits'  BY <1>1, <1>2, <1>5 DEF Running, ChunkFits
  <1>16. (\E c, f, o \in Counts : Plan(c, f, o))'
    <2>1. CASE fwd.kind = "extend"
      <3>1. PICK c, f \in Counts :
               /\ LaidOut(LateQueries, c, f, f) /\ Small(c)
               /\ \A s \in Slots : PlanIn("extend", LateQueries, fwd.kept, c, f, f, s)
        BY <1>2, <2>1, LatePlan
      <3>2. \A s \in Slots : PlanOf(c, f, f, s)'
        BY <1>1, <1>5, <2>1, <3>1 DEF PlanOf, PlanIn, CurrentIn
      <3>3. Plan(c, f, f)'  BY <1>1, <3>1, <3>2 DEF Plan
      <3> QED BY <3>3
    <2>2. CASE fwd.kind # "extend"
      <3>1. layout' = layout  BY <1>1, <2>2 DEF LateQueries
      <3>2. \A s \in Slots : PlanOf(cnt, from, floor, s)  BY <1>6 DEF Plan
      <3>3. \A s \in Slots : PlanOf(cnt, from, floor, s)'
        BY <1>1, <1>5, <3>1, <3>2 DEF PlanOf, PlanIn, CurrentIn
      <3>4. Plan(cnt, from, floor)'  BY <1>6, <3>1, <3>3 DEF Plan
      <3> QED BY <3>4
    <2> QED BY <2>1, <2>2
  <1>17. Running'  BY <1>5, <1>12, <1>14, <1>15, <1>16 DEF Running, Layers
  <1> QED BY <1>2, <1>5, <1>9, <1>10, <1>11, <1>17 DEF WInv

\* The forward is over: its slots have their windows in both layers.
LEMMA CommitLate ==
  ASSUME WInv, Commit, fwd.layer # 1
  PROVE  WInv'
  <1>1. /\ fwd.step = "attend" /\ epoch' = epoch /\ len' = fwd.kept /\ fwd' = Idle /\ layout' = <<>>
        /\ replayed' = [s \in Slots |-> replayed[s] \/ (fwd.kind = "replay" /\ layout[1].req = s)]
    BY DEF Commit
  <1>2. fwd.kind # "none" /\ Running  BY <1>1 DEF WInv, Resting
  <1>3. WindowTypes /\ fwd.layer \in Layers /\ fwd.layer = 2  BY <1>2 DEF WInv, Running, Layers
  <1>4. PICK cnt, from, floor \in Counts : Plan(cnt, from, floor)  BY <1>2 DEF Running
  <1>5. LaidOut(layout, cnt, from, floor)  BY <1>4 DEF Plan
  <1>6. CommitDone  BY <1>3, <1>5, CommitRing
  <1>7. TagsOwn'  BY <1>1, <1>2, <1>6, CommitTags
  <1>8. fwd.kept \in [Slots -> Nat]  BY <1>3 DEF WindowTypes, TypeInv
  <1>9. fwd'.kind = "none" /\ fwd'.step = ""  BY <1>1 DEF Idle
  <1>10. ASSUME NEW s \in Slots  PROVE replayed'[s] <=> (replayed[s] \/ (fwd.kind = "replay" /\ layout[1].req = s))
    BY <1>1, Zenon
  <1>11. WindowTypes'
    <2>1. fwd' \in [kind : {"none", "replay", "extend", "verify"}, layer : {0, 1, 2},
                    step : {"", "buffer", "attend", "missing"}, block : Nat, kept : [Slots -> Nat]]
      BY <1>1 DEF Idle
    <2>2. TypeInv'  BY <1>1, <1>3, <1>8, <2>1 DEF WindowTypes, TypeInv
    <2>3. state' = [l \in Layers |-> state'[l]] /\ tags' = [l \in Layers |-> tags'[l]]
      BY <1>3 DEF Commit, WindowTypes
    <2>4. replayed' \in [Slots -> BOOLEAN]
      <3> DEFINE v(s) == replayed[s] \/ (fwd.kind = "replay" /\ layout[1].req = s)
      <3>1. \A s \in Slots : v(s) \in BOOLEAN  OBVIOUS
      <3>2. replayed' = [s \in Slots |-> v(s)]  BY <1>1
      <3> HIDE DEF v
      <3> QED BY <3>1, <3>2
    <2> QED BY <2>2, <2>3, <2>4 DEF WindowTypes
  <1>12. PrefixLeft'
    <2> SUFFICES ASSUME NEW s \in Slots, epoch'[s] > 0, ~replayed'[s]  PROVE len'[s] > 0
      BY DEF PrefixLeft
    <2>1. epoch[s] > 0 /\ ~replayed[s] /\ ~(fwd.kind = "replay" /\ layout[1].req = s)  BY <1>1, <1>10
    <2>2. ~CurrentIn(fwd.kind, layout, s)  BY <2>1 DEF CurrentIn
    <2>3. PlanOf(cnt, from, floor, s)  BY <1>4 DEF Plan
    <2>4. fwd.kept[s] = len[s]  BY <2>2, <2>3 DEF PlanOf, PlanIn
    <2> QED BY <1>1, <2>1, <2>4 DEF WInv, PrefixLeft
  <1>13. Resting'
    <2> SUFFICES ASSUME NEW s \in Slots, NEW l \in Layers, Ready(s)'  PROVE Held(l, s, len[s])'
      BY <1>1, <1>9 DEF Resting
    <2>1. Current(s)  BY <1>1, <1>10 DEF Ready, Current, CurrentIn
    <2>2. l = 1 \/ l = 2  BY DEF Layers
    <2>3. CASE l = 1
      <3>1. Held(l, s, fwd.kept[s])  BY <1>2, <1>3, <2>1, <2>3 DEF Running, Progress
      <3>2. state'[l] = state[l] /\ tags'[l] = tags[l]  BY <1>3, <1>6, <2>3 DEF CommitDone
      <3> QED BY <1>1, <3>1, <3>2 DEF Held, Final
    <2>4. CASE l = 2
      <3>1. \A p \in Nat : p < fwd.kept[s] /\ fwd.kept[s] <= p + Window =>
               tags'[fwd.layer][Row(s, p)] = p /\ state'[fwd.layer][Row(s, p)] = Final(s, p)
        BY <1>1, <1>2, <1>4, <1>6, <2>1, HeldAfter
      <3> QED BY <1>1, <1>3, <2>4, <3>1 DEF Held, Final
    <2> QED BY <2>2, <2>3, <2>4
  <1> QED BY <1>7, <1>9, <1>11, <1>12, <1>13 DEF WInv

LEMMA WindowInit == Init => WInv
  <1> SUFFICES ASSUME Init  PROVE WInv
    OBVIOUS
  <1>1. /\ epoch = [s \in Slots |-> 0] /\ len = [s \in Slots |-> 0] /\ replayed = [s \in Slots |-> FALSE]
        /\ state = [l \in Layers |-> [x \in Rows |-> NoKV]] /\ tags = [l \in Layers |-> [x \in Rows |-> -1]]
        /\ layout = <<>> /\ fwd = Idle
    BY DEF Init
  <1>2. fwd.kind = "none" /\ fwd.step = ""  BY <1>1 DEF Idle
  <1>3. WindowTypes
    <2>1. fwd \in [kind : {"none", "replay", "extend", "verify"}, layer : {0, 1, 2},
                   step : {"", "buffer", "attend", "missing"}, block : Nat, kept : [Slots -> Nat]]
      BY <1>1 DEF Idle
    <2>2. TypeInv  BY <1>1, <2>1 DEF TypeInv
    <2> QED BY <1>1, <2>2 DEF WindowTypes
  <1>4. TagsOwn  BY <1>1 DEF TagsOwn
  <1>5. PrefixLeft  BY <1>1 DEF PrefixLeft
  <1>6. Resting
    <2>1. \A s \in Slots : ~Ready(s)  BY <1>1 DEF Ready
    <2> QED BY <1>1, <1>2, <2>1 DEF Resting
  <1> QED BY <1>2, <1>3, <1>4, <1>5, <1>6 DEF WInv

LEMMA WindowNext == WInv /\ [Next]_vars => WInv'
  <1> SUFFICES ASSUME WInv, [Next]_vars  PROVE WInv'
    OBVIOUS
  <1>1. ASSUME NEW s \in Slots, NEW n \in 1..MaxLen, NEW c \in 0..MaxLen, Admit(s, n, c)  PROVE WInv'
    BY <1>1, WindowAdmit
  <1>2. CASE Forward
    <2>1. ASSUME NEW s \in Slots, Replay(s)  PROVE WInv'  BY <2>1, WindowReplay
    <2>2. ASSUME NEW n \in [Slots -> 0..ChunkSize], Extend(n)  PROVE WInv'  BY <2>2, WindowExtend
    <2>3. ASSUME NEW B \in (SUBSET Slots) \ {{}}, NEW k \in 1..Max({1, Draft}), NEW a \in [B -> 1..k], Verify(B, k, a)
          PROVE  WInv'
      <3>1. B \in SUBSET Slots /\ B # {}  OBVIOUS
      <3> QED BY <2>3, <3>1, WindowVerify
    <2> QED BY <1>2, <2>1, <2>2, <2>3 DEF Forward
  <1>3. CASE Buffer  BY <1>3, WindowBuffer
  <1>4. CASE Commit  BY <1>4, CommitEarly, CommitLate
  <1>5. CASE UNCHANGED vars
    <2>1. /\ epoch' = epoch /\ len' = len /\ replayed' = replayed /\ state' = state /\ tags' = tags
          /\ workspace' = workspace /\ layout' = layout /\ prepared' = prepared /\ fwd' = fwd
      BY <1>5 DEF vars
    <2>2. WindowTypes' /\ TagsOwn' /\ PrefixLeft'
      BY <2>1 DEF WInv, WindowTypes, TypeInv, TagsOwn, PrefixLeft
    <2>3. Resting' <=> Resting  BY <2>1 DEF Resting, Ready, Held, Final
    <2>4. Running' <=> Running
      <3>1. \A l, s, n : Held(l, s, n)' <=> Held(l, s, n)  BY <2>1 DEF Held, Final
      <3>2. Progress' <=> Progress  BY <2>1 DEF Progress, Current, CurrentIn, Ready, Held, Final
      <3>3. Filled' <=> Filled  BY <2>1 DEF Filled, KV, Final
      <3>4. ASSUME NEW c, NEW f, NEW o  PROVE Plan(c, f, o)' <=> Plan(c, f, o)
        BY <2>1 DEF Plan, PlanOf, PlanIn, CurrentIn
      <3>5. ChunkFits' <=> ChunkFits  BY <2>1 DEF ChunkFits
      <3> QED BY <2>1, <3>2, <3>3, <3>4, <3>5 DEF Running
    <2> QED BY <2>1, <2>2, <2>3, <2>4 DEF WInv
  <1> QED BY <1>1, <1>2, <1>3, <1>4, <1>5 DEF Next

LEMMA WindowHolds == Spec => []WInv
  <1> QED BY WindowInit, WindowNext, PTL DEF Spec

\* No history is missing, then: Running has no such step.
LEMMA NothingMissing == WInv => HistoryPresent
  BY DEF WInv, Resting, Running, HistoryPresent

----------------------------------------------------------------------------

(* The compressor rides on the window's forwards: each step of the two     *)
(* rings together is a step of the window ring, or leaves it alone, so     *)
(* that what follows holds of both specifications.                         *)
THEOREM RingsKeepTheWindow == RingsSpec => Spec
  <1>1. RingsInit => Init  BY DEF RingsInit
  <1>2. [RingsNext]_ringVars => [Next]_vars
    <2> SUFFICES ASSUME [RingsNext]_ringVars  PROVE [Next]_vars
      OBVIOUS
    <2>1. CASE \E s \in Slots, n \in 1..MaxLen, c \in 0..MaxLen : RingsAdmit(s, n, c)
      BY <2>1 DEF RingsAdmit, Next
    <2>2. CASE RingsBuffer  BY <2>2 DEF RingsBuffer, Next
    <2>3. CASE (Forward \/ Commit) /\ UNCHANGED <<pending, pairs>>  BY <2>3 DEF Next
    <2>4. CASE UNCHANGED ringVars  BY <2>4 DEF ringVars
    <2> QED BY <2>1, <2>2, <2>3, <2>4 DEF RingsNext
  <1> QED BY <1>1, <1>2, PTL DEF RingsSpec, Spec

(* HistoryPresent for every window, page, draft and chunk size: buffer()   *)
(* never raises, whatever the chunks, drafts, prefix hits and slot reuse.  *)
THEOREM HistoryAlwaysPresent == Spec => []HistoryPresent
  <1> QED BY WindowHolds, NothingMissing, PTL

(* QueriesExact for the same instances: the indices of window_layout lead  *)
(* every query to the KV of its own request at each position of its        *)
(* window, and to none of a rejected draft.                                *)
THEOREM QueriesAlwaysExact == Spec => []QueriesExact
  <1> QED BY WindowHolds, ExactQueries, PTL

(* CommitsDistinct for the same instances: commit() stores at most one row *)
(* of the batch into each ring row.                                        *)
THEOREM CommitsAlwaysDistinct == Spec => []CommitsDistinct
  <1> QED BY WindowHolds, DistinctCommits, PTL

(* TagsOwn for the same instances: a tag other than -1 is that of its      *)
(* slot's present request, after every reset, commit and replay.           *)
THEOREM TagsAlwaysOwn == Spec => []TagsOwn
  <1>1. WInv => TagsOwn  BY DEF WInv
  <1> QED BY <1>1, WindowHolds, PTL

(* WorkspaceFits for the same instances: the workspace that is allocated   *)
(* once has a row for all that a forward can ask of it.                    *)
THEOREM WorkspaceAlwaysFits == Spec => []WorkspaceFits
  <1> QED BY WindowHolds, FittingWorkspace, PTL
=============================================================================
