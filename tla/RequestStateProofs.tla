------------------------- MODULE RequestStateProofs -------------------------
(***************************************************************************)
(* What is kept per request between forwards.  First the n-gram history:   *)
(* whatever mixture of extends, decodes, verified blocks, retractions and  *)
(* new tenants, every token is hashed with its own text.  Then the window  *)
(* KV of the late layers: with the switch off, decode never reads a        *)
(* window position that the late layers did not write or whose slot was    *)
(* given back; and no slot that the forward in flight reads is given back, *)
(* whatever the switch.                                                    *)
(***************************************************************************)
EXTENDS EngramHistory, LateLayerTail, SequenceTheorems, FiniteSetTheorems, TLAPS

\* Every set of naturals has a least element.
LEMMA LeastNat ==
  ASSUME NEW T \in SUBSET Nat, T # {}
  PROVE  \E m \in T : \A x \in T : m <= x
  <1>1. IsWellFoundedOn(OpToRel(<, Nat), Nat)  BY NatLessThanWellFounded
  <1>2. PICK m \in T : \A x \in T : ~(<<x, m>> \in OpToRel(<, Nat))  BY <1>1, WFMin, Zenon
  <1>3. \A x \in T : ~(x < m)  BY <1>2 DEF OpToRel
  <1> QED BY <1>3

----------------------------------------------------------------------------
(* The runs of a batch laid end to end in input_ids. *)

\* f is what the runs up to each of the first n come to.
Flattens(f, runs, n) == f = [i \in 1..n |-> IF i = 1 THEN runs[i] ELSE f[i - 1] \o runs[i]]

LEMMA FlattensAt ==
  ASSUME NEW runs, NEW n, NEW f, Flattens(f, runs, n)
  PROVE  \A i \in 1..n : f[i] = IF i = 1 THEN runs[i] ELSE f[i - 1] \o runs[i]
  BY DEF Flattens

LEMMA FlattensExists ==
  ASSUME NEW runs, NEW n \in Nat
  PROVE  \E f : Flattens(f, runs, n)
  <1> DEFINE T == {m \in Nat : ~\E f : Flattens(f, runs, m)}
  <1> SUFFICES ASSUME T # {}  PROVE FALSE
    OBVIOUS
  <1>1. PICK m \in T : \A x \in T : m <= x  BY LeastNat
  <1>2. CASE m = 0
    <2> DEFINE e == [i \in 1..0 |-> runs[i]]
    <2>1. Flattens(e, runs, 0)  BY DEF Flattens
    <2> QED BY <1>1, <1>2, <2>1
  <1>3. CASE m # 0
    <2>1. m - 1 \in Nat /\ m - 1 \notin T  BY <1>1, <1>3
    <2>2. PICK f : Flattens(f, runs, m - 1)  BY <2>1
    <2> DEFINE g == [i \in 1..m |-> IF i = 1 THEN runs[i] ELSE f[i - 1] \o runs[i]]
    <2>3. \A i \in 1..(m - 1) : g[i] = f[i]
      <3>1. \A i \in 1..(m - 1) : f[i] = IF i = 1 THEN runs[i] ELSE f[i - 1] \o runs[i]  BY <2>2, FlattensAt
      <3>2. \A i \in 1..(m - 1) : i \in 1..m  BY <1>1
      <3> QED BY <3>1, <3>2
    <2>4. \A i \in 1..m : i # 1 => i - 1 \in 1..(m - 1)  BY <1>1
    <2>5. \A i \in 1..m : i # 1 => f[i - 1] = g[i - 1]  BY <2>3, <2>4
    <2> HIDE DEF T
    <2>6. g = [i \in 1..m |-> IF i = 1 THEN runs[i] ELSE g[i - 1] \o runs[i]]
      <3> DEFINE h == [i \in 1..m |-> IF i = 1 THEN runs[i] ELSE g[i - 1] \o runs[i]]
      <3>1. \A i \in 1..m : g[i] = h[i]  BY <2>5
      <3> QED BY <3>1
    <2> HIDE DEF g
    <2>7. Flattens(g, runs, m)  BY <2>6 DEF Flattens
    <2> QED BY <1>1, <2>7 DEF T
  <1> QED BY <1>2, <1>3

LEMMA FlattenIs ==
  ASSUME NEW runs, Len(runs) \in Nat \ {0}
  PROVE  \E f : Flattens(f, runs, Len(runs)) /\ FlattenSeq(runs) = f[Len(runs)]
  <1> DEFINE F == CHOOSE f : f = [i \in 1..Len(runs) |-> IF i = 1 THEN runs[i] ELSE f[i - 1] \o runs[i]]
  <1>1. \E f : Flattens(f, runs, Len(runs))  BY FlattensExists
  <1>2. Flattens(F, runs, Len(runs))  BY <1>1 DEF Flattens
  <1>3. Len(runs) # 0  OBVIOUS
  <1>4. FlattenSeq(runs) = F[Len(runs)]  BY <1>3, Zenon DEF FlattenSeq
  <1> QED BY <1>2, <1>4

\* It is built from what comes before, run by run.
LEMMA FlattensStep ==
  ASSUME NEW S, NEW n \in Nat, NEW runs \in [1..n -> Seq(S)], NEW f, Flattens(f, runs, n)
  PROVE  /\ n > 0 => f[1] = runs[1]
         /\ \A i \in 1..n : i # 1 => i - 1 \in 1..n /\ f[i] = f[i - 1] \o runs[i]
         /\ \A i \in 1..n : f[i] \in Seq(S)
  <1>1. \A i \in 1..n : f[i] = IF i = 1 THEN runs[i] ELSE f[i - 1] \o runs[i]
    BY FlattensAt
  <1>2. \A i \in 1..n : i # 1 => i - 1 \in 1..n  OBVIOUS
  <1>3. n > 0 => f[1] = runs[1]  BY <1>1
  <1>4. \A i \in 1..n : i # 1 => f[i] = f[i - 1] \o runs[i]  BY <1>1
  <1> DEFINE T == {i \in 1..n : f[i] \notin Seq(S)}
  <1>5. ASSUME T # {}  PROVE FALSE
    <2>1. T \in SUBSET Nat  OBVIOUS
    <2>2. PICK m \in T : \A x \in T : m <= x  BY <1>5, <2>1, LeastNat
    <2>3. m # 1  BY <1>3, <2>2
    <2>4. m - 1 \in 1..n /\ m - 1 \notin T  BY <1>2, <2>1, <2>2, <2>3
    <2>5. f[m - 1] \in Seq(S) /\ runs[m] \in Seq(S)  BY <2>4
    <2>6. f[m] = f[m - 1] \o runs[m]  BY <1>4, <2>2, <2>3
    <2>7. f[m] \in Seq(S)  BY <2>5, <2>6
    <2> QED BY <2>2, <2>7
  <1> QED BY <1>2, <1>3, <1>4, <1>5

LEMMA Joined ==
  ASSUME NEW S, NEW s \in Seq(S), NEW t \in Seq(S)
  PROVE  /\ Len(s) \in Nat /\ Len(t) \in Nat /\ Len(s \o t) = Len(s) + Len(t)
         /\ \A x \in 1..Len(s) : (s \o t)[x] = s[x]
  OBVIOUS

LEMMA FlattensGrow ==
  ASSUME NEW S, NEW n \in Nat, NEW runs \in [1..n -> Seq(S)], NEW f, Flattens(f, runs, n),
         NEW i \in 1..n, i # 1
  PROVE  /\ i - 1 \in 1..n /\ Len(f[i - 1]) \in Nat /\ Len(f[i]) \in Nat /\ Len(f[i - 1]) <= Len(f[i])
         /\ \A x \in 1..Len(f[i - 1]) : f[i][x] = f[i - 1][x]
  <1>1. /\ n > 0 => f[1] = runs[1]
        /\ \A k \in 1..n : k # 1 => k - 1 \in 1..n /\ f[k] = f[k - 1] \o runs[k]
        /\ \A k \in 1..n : f[k] \in Seq(S)
    BY FlattensStep, Zenon
  <1>2. i - 1 \in 1..n /\ f[i] = f[i - 1] \o runs[i] /\ f[i - 1] \in Seq(S) /\ runs[i] \in Seq(S)
    BY <1>1
  <1>3. /\ Len(f[i - 1]) \in Nat /\ Len(runs[i]) \in Nat /\ Len(f[i]) = Len(f[i - 1]) + Len(runs[i])
        /\ \A x \in 1..Len(f[i - 1]) : f[i][x] = f[i - 1][x]
    BY <1>2, Joined
  <1> QED BY <1>2, <1>3

\* What lies in the first j runs lies at the same place in all of them.
LEMMA FlattensPrefix ==
  ASSUME NEW S, NEW n \in Nat, NEW runs \in [1..n -> Seq(S)], NEW f, Flattens(f, runs, n),
         NEW j \in 1..n, NEW m \in 1..n, j <= m
  PROVE  Len(f[j]) <= Len(f[m]) /\ \A x \in 1..Len(f[j]) : f[m][x] = f[j][x]
  <1> DEFINE Keeps(i) == Len(f[j]) <= Len(f[i]) /\ \A x \in 1..Len(f[j]) : f[i][x] = f[j][x]
             T == {i \in j..n : ~Keeps(i)}
  <1>1. \A k \in 1..n : f[k] \in Seq(S)  BY FlattensStep, Zenon
  <1>2. Keeps(j)  BY <1>1
  <1>3. ASSUME T # {}  PROVE FALSE
    <2>1. T \in SUBSET Nat  OBVIOUS
    <2>2. \E i \in T : \A x \in T : i <= x  BY <1>3, <2>1, LeastNat
    <2>3. PICK i \in j..n : ~Keeps(i) /\ \A x \in j..n : ~Keeps(x) => i <= x  BY <2>2
    <2>4. i # j /\ i - 1 \in j..n /\ i \in 1..n /\ i # 1  BY <1>2, <2>3
    <2>5. Keeps(i - 1)  BY <2>3, <2>4
    <2>6. /\ Len(f[i - 1]) \in Nat /\ Len(f[i]) \in Nat /\ Len(f[i - 1]) <= Len(f[i])
          /\ \A x \in 1..Len(f[i - 1]) : f[i][x] = f[i - 1][x]
      BY <2>4, FlattensGrow
    <2>7. Len(f[j]) \in Nat  BY <1>1
    <2>8. Keeps(i)  BY <2>5, <2>6, <2>7
    <2> QED BY <2>3, <2>8
  <1>4. m \in j..n  OBVIOUS
  <1>5. ~(m \in T)  BY <1>3, Zenon
  <1> QED BY <1>4, <1>5

\* The first m runs of more come to the same.
LEMMA FlattensAgree ==
  ASSUME NEW n \in Nat, NEW m \in 1..n, NEW runs, NEW f, Flattens(f, runs, n),
         NEW part, NEW g, Flattens(g, part, m), \A i \in 1..m : part[i] = runs[i]
  PROVE  g[m] = f[m]
  <1> DEFINE T == {i \in 1..m : g[i] # f[i]}
  <1> SUFFICES ASSUME T # {}  PROVE FALSE
    <2>1. m \in 1..m  OBVIOUS
    <2> QED BY <2>1
  <1>1. PICK i \in T : \A x \in T : i <= x
    <2>1. T \in SUBSET Nat  OBVIOUS
    <2> QED BY <2>1, LeastNat
  <1>2. i \in 1..m /\ i \in 1..n /\ g[i] # f[i]  BY <1>1
  <1>3. /\ f[i] = IF i = 1 THEN runs[i] ELSE f[i - 1] \o runs[i]
        /\ g[i] = IF i = 1 THEN part[i] ELSE g[i - 1] \o part[i]
    BY <1>2, FlattensAt
  <1>4. i # 1 => i - 1 \in 1..m /\ i - 1 \notin T
    BY <1>1, <1>2
  <1> QED BY <1>2, <1>3, <1>4

\* Run i starts where the runs before it end.
LEMMA FlatAt ==
  ASSUME NEW S, NEW n \in Nat, NEW runs \in [1..n -> Seq(S)], NEW i \in 1..n, NEW o \in 1..Len(runs[i])
  PROVE  /\ Len(FlattenSeq(SubSeq(runs, 1, i - 1))) \in Nat
         /\ FlattenSeq(runs)[Len(FlattenSeq(SubSeq(runs, 1, i - 1))) + o] = runs[i][o]
  <1>1. Len(runs) = n /\ runs \in Seq(Seq(S)) /\ n > 0
    <2>1. runs \in Seq(Seq(S))  OBVIOUS
    <2>2. Len(runs) = n  BY <2>1
    <2> QED BY <2>1, <2>2
  <1>2. PICK f : Flattens(f, runs, n) /\ FlattenSeq(runs) = f[n]
    BY <1>1, FlattenIs
  <1>3. /\ n > 0 => f[1] = runs[1]
        /\ \A k \in 1..n : k # 1 => k - 1 \in 1..n /\ f[k] = f[k - 1] \o runs[k]
        /\ \A k \in 1..n : f[k] \in Seq(S)
    BY <1>2, FlattensStep, Zenon
  <1> DEFINE part == SubSeq(runs, 1, i - 1)
             start == Len(FlattenSeq(part))
  <1>4. n \in 1..n /\ runs[i] \in Seq(S) /\ f[i] \in Seq(S) /\ Len(f[i]) \in Nat
    BY <1>1, <1>3
  <1>5. \A x \in 1..Len(f[i]) : f[n][x] = f[i][x]
    <2>1. i <= n  OBVIOUS
    <2>2. Len(f[i]) <= Len(f[n]) /\ \A x \in 1..Len(f[i]) : f[n][x] = f[i][x]
      BY <1>2, <1>4, <2>1, FlattensPrefix
    <2> QED BY <2>2
  <1>6. part \in Seq(Seq(S)) /\ Len(part) = i - 1 /\ \A x \in 1..(i - 1) : part[x] = runs[x]
    BY <1>1, SubSeqProperties
  <1>7. CASE i = 1
    <2>1. Len(part) = 0  BY <1>6, <1>7
    <2>2. FlattenSeq(part) = part  BY <2>1, Zenon DEF FlattenSeq
    <2>3. start = 0  BY <2>1, <2>2
    <2>4. f[1] = runs[1]  BY <1>1, <1>3
    <2> HIDE DEF start
    <2>5. start + o = o /\ o \in 1..Len(f[i])  BY <1>4, <1>7, <2>3, <2>4
    <2>6. f[n][o] = runs[i][o]  BY <1>5, <1>7, <2>4, <2>5
    <2>7. start \in Nat /\ FlattenSeq(runs)[start + o] = runs[i][o]  BY <1>2, <2>3, <2>5, <2>6
    <2> QED BY <2>7 DEF start
  <1>8. CASE i # 1
    <2>1. i - 1 \in 1..n /\ i - 1 \in Nat \ {0}  BY <1>8
    <2>2. PICK g : Flattens(g, part, i - 1) /\ FlattenSeq(part) = g[i - 1]
      <3> HIDE DEF part
      <3>1. Len(part) \in Nat \ {0}  BY <1>6, <2>1
      <3> QED BY <1>6, <3>1, FlattenIs
    <2>3. g[i - 1] = f[i - 1]
      <3> HIDE DEF part
      <3> QED BY <1>2, <1>6, <2>1, <2>2, FlattensAgree
    <2>4. start = Len(f[i - 1])  BY <2>2, <2>3
    <2>5. f[i] = f[i - 1] \o runs[i] /\ f[i - 1] \in Seq(S)
      BY <1>8, <1>3, <2>1
    <2> HIDE DEF start, part
    <2>6. start \in Nat /\ Len(runs[i]) \in Nat /\ Len(f[i]) = start + Len(runs[i])
      BY <1>4, <2>4, <2>5
    <2>7. f[i][start + o] = runs[i][o]  BY <1>4, <2>4, <2>5, <2>6
    <2>8. start + o \in 1..Len(f[i])  BY <2>6
    <2>9. FlattenSeq(runs)[start + o] = runs[i][o]  BY <1>2, <1>5, <2>7, <2>8
    <2> QED BY <2>6, <2>9 DEF start, part
  <1> QED BY <1>7, <1>8

----------------------------------------------------------------------------
(* One token and its context. *)

Ids == Nat \X Nat

Texts == [id : Nat \ {0}, images : SUBSET Nat, len : Nat, num : Nat, filling : BOOLEAN, own : BOOLEAN]

\* The row continues the text of r, images aside.
RowFits(r, row) ==
    \A c \in 0..N-2 : r.num - (N - 1 - c) >= 0 => Masked(row[c]) = Masked(Token(r, r.num - (N - 1 - c)))

\* The row is what a forward would leave for r.
RowCurrent(r, row) ==
    \A c \in 0..N-2 : r.num - (N - 1 - c) >= 0 => row[c] = Masked(Token(r, r.num - (N - 1 - c)))

\* tok is position p of r and its predecessors.
TokFits(r, p, tok) == \A s \in 0..N-1 : p - s >= 0 => tok[s] = Masked(Token(r, p - s))

LEMMA SpecialIds ==
  /\ Image # MmPad /\ {Image, MmPad, Wrong, Zero, Pad} \subseteq Ids
  /\ \A i \in Nat \ {0}, p \in Nat : <<i, p>> \in Ids /\ <<i, p>> # Image /\ <<i, p>> # MmPad
  BY DEF Image, MmPad, Wrong, Zero, Pad, Ids

LEMMA MaskTwice == \A t : Masked(Masked(t)) = Masked(t)
  BY SpecialIds DEF Masked

LEMMA TokenMasked ==
  ASSUME NEW r \in Texts, NEW p \in Nat
  PROVE  /\ Token(r, p) \in Ids
         /\ Masked(Token(r, p)) = IF p \in r.images THEN Image ELSE <<r.id, p>>
         /\ p \notin r.images => Masked(Token(r, p)) = Token(r, p)
         /\ <<r.id, p>> # Image
  BY SpecialIds DEF Token, Masked, Texts

LEMMA CurrentFits ==
  ASSUME NEW r, NEW row, RowCurrent(r, row)
  PROVE  RowFits(r, row)
  BY MaskTwice DEF RowCurrent, RowFits

LEMMA HistColIn ==
  ASSUME NEW off \in Nat, NEW s \in 0..N-1, ~(s <= off), NEW num \in Nat
  PROVE  HistCol(s, off) \in 0..N-2 /\ num - (N - 1 - HistCol(s, off)) = (num + off) - s
  <1>1. N \in Nat /\ s \in Nat /\ s <= N - 1  BY SizesAssumption
  <1> QED BY <1>1 DEF HistCol

\* What TokensOf finds for a token whose run, up to it, is its text.
LEMMA TokensFit ==
  ASSUME NEW r \in Texts, NEW n \in Nat, NEW runs \in [1..n -> Seq(Ids)], NEW rows, NEW i \in 1..n,
         NEW off \in 0..(Len(runs[i]) - 1), \A o \in 1..(off + 1) : runs[i][o] = Token(r, r.num + o - 1),
         RowFits(r, rows[i])
  PROVE  TokFits(r, r.num + off, TokensOf(runs, rows, i, off))
  <1> DEFINE start == Len(FlattenSeq(SubSeq(runs, 1, i - 1)))
             flat == FlattenSeq(runs)
             tok == TokensOf(runs, rows, i, off)
  <1>1. N \in Nat \ {0, 1} /\ r.num \in Nat /\ runs[i] \in Seq(Ids) /\ Len(runs[i]) \in Nat /\ off \in Nat
    BY SizesAssumption DEF Texts
  <1>2. \A o \in 1..Len(runs[i]) : start \in Nat /\ flat[start + o] = runs[i][o]
    <2> SUFFICES ASSUME NEW o \in 1..Len(runs[i])  PROVE start \in Nat /\ flat[start + o] = runs[i][o]
      OBVIOUS
    <2> QED BY FlatAt
  <1>3. \A s \in 0..N-1 : tok[s] = Masked(IF s <= off THEN flat[start + off + 1 - s] ELSE rows[i][HistCol(s, off)])
    BY DEF TokensOf, Predecessors
  <1> HIDE DEF tok, start, flat
  <1>4. ASSUME NEW s \in 0..N-1, (r.num + off) - s >= 0  PROVE tok[s] = Masked(Token(r, (r.num + off) - s))
    <2>1. CASE s <= off
      <3>1. off + 1 - s \in 1..(off + 1) /\ off + 1 - s \in 1..Len(runs[i])
        BY <1>1, <2>1
      <3>2. start \in Nat /\ flat[start + (off + 1 - s)] = runs[i][off + 1 - s]  BY <1>2, <3>1
      <3>3. start + (off + 1 - s) = start + off + 1 - s  BY <1>1, <3>2
      <3>4. runs[i][off + 1 - s] = Token(r, r.num + (off + 1 - s) - 1)  BY <3>1
      <3>5. r.num + (off + 1 - s) - 1 = (r.num + off) - s  BY <1>1
      <3> QED BY <1>3, <2>1, <3>2, <3>3, <3>4, <3>5
    <2>2. CASE ~(s <= off)
      <3> DEFINE c == HistCol(s, off)
      <3>1. c \in 0..N-2 /\ r.num - (N - 1 - c) = (r.num + off) - s  BY <1>1, <2>2, HistColIn
      <3>2. Masked(rows[i][c]) = Masked(Token(r, (r.num + off) - s))  BY <1>4, <3>1 DEF RowFits
      <3> HIDE DEF c
      <3> QED BY <1>3, <2>2, <3>2 DEF c
    <2> QED BY <2>1, <2>2
  <1>5. \A s \in 0..N-1 : (r.num + off) - s >= 0 => tok[s] = Masked(Token(r, (r.num + off) - s))  BY <1>4, Zenon
  <1>6. TokFits(r, r.num + off, tok)  BY <1>5 DEF TokFits
  <1> QED BY <1>6 DEF tok

\* Such a token is hashed with its own text.
LEMMA ContextIs ==
  ASSUME NEW r \in Texts, NEW p \in Nat, NEW tok, TokFits(r, p, tok)
  PROVE  Context(tok, p) = Expected(r, p)
  <1>1. \A j \in 0..N-1 : p - j >= 0 => (tok[j] = Image <=> p - j \in r.images)
    <2> SUFFICES ASSUME NEW j \in 0..N-1, p - j >= 0  PROVE tok[j] = Image <=> p - j \in r.images
      OBVIOUS
    <2>1. p - j \in Nat /\ tok[j] = Masked(Token(r, p - j))  BY DEF TokFits
    <2> QED BY <2>1, TokenMasked
  <1>2. ASSUME NEW s \in 0..N-1
        PROVE  Blocked(tok, p, s) <=> \E j \in 0..s : p < j \/ p - j \in r.images
    <2>1. \A j \in 0..s : j \in 0..N-1 /\ (p - j >= 0 <=> ~(p < j))  BY SizesAssumption
    <2> QED BY <1>1, <2>1 DEF Blocked
  <1>3. ASSUME NEW s \in 0..N-1, ~Blocked(tok, p, s)  PROVE tok[s] = <<r.id, p - s>>
    <2>1. s \in 0..s  OBVIOUS
    <2>2. ~(p < s) /\ p - s \notin r.images  BY <1>2, <1>3, <2>1
    <2>3. p - s \in Nat /\ p - s >= 0  BY <2>2
    <2> QED BY <2>2, <2>3, TokenMasked DEF TokFits
  <1> QED BY <1>2, <1>3 DEF Context, Expected

\* The row it leaves is that of the text up to it.
LEMMA NewRowIs ==
  ASSUME NEW r \in Texts, NEW p \in Nat, NEW tok, TokFits(r, p, tok),
         NEW q \in Texts, q.id = r.id, q.images = r.images, q.num = p + 1
  PROVE  DOMAIN NewRow(tok) = 0..N-2 /\ RowCurrent(q, NewRow(tok))
  <1>1. \A x : Token(q, x) = Token(r, x)  BY DEF Token
  <1>2. \A c \in 0..N-2 : N - 2 - c \in 0..N-1 /\ p - (N - 2 - c) = q.num - (N - 1 - c) /\ NewRow(tok)[c] = tok[N - 2 - c]
    BY SizesAssumption DEF NewRow
  <1>3. RowCurrent(q, NewRow(tok))  BY <1>1, <1>2 DEF RowCurrent, TokFits
  <1> QED BY <1>3 DEF NewRow

\* Nothing of a run, up to limit[i] in it, is hashed astray.
LEMMA NothingAstray ==
  ASSUME NEW n \in Nat, NEW b \in [1..n -> Slots], \A i \in 1..n : req[b[i]] \in Texts,
         NEW runs \in [1..n -> Seq(Ids)], NEW rows, \A i \in 1..n : RowFits(req[b[i]], rows[i]),
         NEW i \in 1..n, NEW off \in 0..(Len(runs[i]) - 1),
         \A o \in 1..(off + 1) : runs[i][o] = Token(req[b[i]], req[b[i]].num + o - 1)
  PROVE  /\ req[b[i]].num + off \in Nat
         /\ Context(TokensOf(runs, rows, i, off), req[b[i]].num + off) = Expected(req[b[i]], req[b[i]].num + off)
  <1> DEFINE r == req[b[i]]
  <1>1. r \in Texts /\ RowFits(r, rows[i])  OBVIOUS
  <1> HIDE DEF r
  <1>2. r.num \in Nat /\ Len(runs[i]) \in Nat  BY <1>1 DEF Texts
  <1>3. r.num + off \in Nat  BY <1>2
  <1>4. TokFits(r, r.num + off, TokensOf(runs, rows, i, off))
    <2>1. \A o \in 1..(off + 1) : runs[i][o] = Token(r, r.num + o - 1)  BY DEF r
    <2> QED BY <1>1, <2>1, TokensFit
  <1>5. Context(TokensOf(runs, rows, i, off), r.num + off) = Expected(r, r.num + off)
    BY <1>1, <1>3, <1>4, ContextIs
  <1> QED BY <1>3, <1>5 DEF r

----------------------------------------------------------------------------
(* The invariant. *)

StateTypes ==
    /\ req \in [Slots -> Texts \cup {Free}] /\ waiting \in SUBSET Texts
    /\ history = [s \in Slots |-> history[s]] /\ \A s \in Slots : DOMAIN history[s] = 0..N-2
    /\ created \in 0..MaxReqs /\ retracts \in 0..MaxRetracts

\* A text in a slot; the images are in the prompt.
InSlot(r) ==
    /\ r.id <= created /\ r.num < r.len /\ r.images \subseteq 0..(r.len - 1)
    /\ ~r.filling => r.own /\ r.num = r.len - 1 /\ r.images \subseteq 0..(r.num - 1)

InQueue(r) ==
    r.id <= created /\ r.num = 0 /\ r.filling /\ ~r.own /\ r.images \subseteq 0..(r.len - 1)

\* No text is twice in the system.
Once ==
    /\ \A s \in Live, t \in Live : req[s].id = req[t].id => s = t
    /\ \A s \in Live, r \in waiting : req[s].id # r.id
    /\ \A q \in waiting, r \in waiting : q.id = r.id => q = r

\* A batch of k slots.
Batch(b, k) == k \in Nat /\ b \in [1..k -> Slots] /\ IsInjective(b)

\* The verified block: up to its last right draft it is the text.
BlockTrue ==
    verify # Free => \E k \in Nat :
        /\ Batch(verify.b, k) /\ \A i \in 1..k : verify.b[i] \in Decoding
        /\ verify.good \in [1..k -> 0..Block-1]
        /\ \A i \in 1..k : \A o \in 1..(verify.good[i] + 1) :
              verify.ids[i][o] = Token(req[verify.b[i]], req[verify.b[i]].num + o - 1)

IInv ==
    /\ StateTypes /\ (\A s \in Live : InSlot(req[s])) /\ (\A r \in waiting : InQueue(r))
    /\ Once /\ BlockTrue /\ HistoryCurrent /\ ContextExact

LEMMA InitIInv == Init => IInv
  <1> SUFFICES ASSUME Init  PROVE IInv
    OBVIOUS
  <1> USE SizesAssumption, PoolAssumption
  <1>1. Live = {} /\ waiting = {} /\ verify = Free  BY DEF Init, Live
  <1>2. StateTypes  BY DEF Init, StateTypes
  <1>3. Once /\ HistoryCurrent /\ ContextExact  BY <1>1 DEF Init, Once, HistoryCurrent, ContextExact
  <1> QED BY <1>1, <1>2, <1>3 DEF IInv, BlockTrue

LEMMA LiveTexts ==
  ASSUME StateTypes, NEW s \in Slots
  PROVE  /\ s \in Live => req[s] \in Texts
         /\ req[s] \in Texts => s \in Live
         /\ Free \notin Texts
  BY DEF StateTypes, Live, Free, Texts

LEMMA BatchOf ==
  ASSUME NEW S \in SUBSET Slots, NEW b \in Batches(S)
  PROVE  \E k \in Nat : Batch(b, k) /\ b \in [1..k -> S]
  <1>1. IsFiniteSet(S)  BY PoolAssumption, FS_Subset
  <1>2. Cardinality(S) \in Nat  BY <1>1, FS_CardinalityType
  <1>3. PICK k \in 1..Cardinality(S) : b \in [1..k -> S]  BY DEF Batches
  <1>4. IsInjective(b)  BY DEF Batches
  <1>5. k \in Nat  BY <1>2
  <1>6. b \in [1..k -> Slots]  BY <1>3
  <1> QED BY <1>3, <1>4, <1>5, <1>6 DEF Batch

\* Update gives each slot of the batch its own value.
LEMMA UpdateIn ==
  ASSUME NEW f, NEW b, NEW k, Batch(b, k), NEW new, NEW i \in 1..k
  PROVE  b[i] \in Slots /\ Update(f, b, new)[b[i]] = new[i]
  <1>1. DOMAIN b = 1..k /\ b[i] \in Slots  BY DEF Batch
  <1>2. \A j \in 1..k : b[j] = b[i] => j = i  BY <1>1 DEF Batch, IsInjective
  <1>3. (CHOOSE j \in 1..k : b[j] = b[i]) = i  BY <1>2
  <1> QED BY <1>1, <1>3 DEF Update

\* g is f with new values in the batch.
Given(g, f, b, k, new) ==
    /\ \A i \in 1..k : b[i] \in Slots /\ g[b[i]] = new[i]
    /\ \A s \in Slots : (\A i \in 1..k : b[i] # s) => g[s] = f[s]
    /\ g = [s \in Slots |-> g[s]]

LEMMA UpdateGives ==
  ASSUME NEW f, NEW b, NEW k, Batch(b, k), NEW new
  PROVE  Given(Update(f, b, new), f, b, k, new)
  <1> DEFINE g == Update(f, b, new)
  <1>1. \A i \in 1..k : b[i] \in Slots /\ g[b[i]] = new[i]  BY UpdateIn
  <1>2. \A s \in Slots : (\A i \in 1..k : b[i] # s) => g[s] = f[s]  BY DEF Update, Batch
  <1>3. g = [s \in Slots |-> g[s]]  BY DEF Update
  <1> HIDE DEF g
  <1>4. Given(g, f, b, k, new)  BY <1>1, <1>2, <1>3 DEF Given
  <1> QED BY <1>4 DEF g

----------------------------------------------------------------------------
(* The steps. *)

\* A text after num of its tokens.
LEMMA AdvancedIs ==
  ASSUME NEW r \in Texts, InSlot(r), NEW num \in Nat, r.num < num, r.filling => num <= r.len
  PROVE  LET q == Advanced(r, num) IN
         /\ q \in Texts /\ q.id = r.id /\ q.images = r.images /\ q.num = num
         /\ q.num < q.len /\ q.images \subseteq 0..(q.len - 1)
         /\ ~q.filling => q.own /\ q.num = q.len - 1 /\ q.images \subseteq 0..(q.num - 1)
  <1> DEFINE q == Advanced(r, num)
  <1>1. /\ r = [id |-> r.id, images |-> r.images, len |-> r.len, num |-> r.num, filling |-> r.filling, own |-> r.own]
        /\ r.id \in Nat \ {0} /\ r.images \in SUBSET Nat /\ r.len \in Nat /\ r.num \in Nat
        /\ r.filling \in BOOLEAN /\ r.own \in BOOLEAN
    BY DEF Texts
  <1>2. /\ q \in Texts /\ q.id = r.id /\ q.images = r.images /\ q.num = num
        /\ q.len = (IF num < r.len THEN r.len ELSE num + 1) /\ (q.filling <=> num < r.len) /\ q.own
    <2> DEFINE known == IF num < r.len THEN r.len ELSE num + 1
               filling == num < r.len
    <2>1. q = [r EXCEPT !.num = num, !.own = TRUE, !.filling = filling, !.len = known]
      BY Zenon DEF Advanced
    <2>2. known \in Nat /\ filling \in BOOLEAN  BY <1>1
    <2> HIDE DEF q, known, filling
    <2>3. q = [id |-> r.id, images |-> r.images, len |-> known, num |-> num, filling |-> filling, own |-> TRUE]
      BY <1>1, <2>1
    <2>4. q \in Texts  BY <1>1, <2>2, <2>3 DEF Texts
    <2>5. q.id = r.id /\ q.images = r.images /\ q.num = num /\ q.len = known /\ q.filling = filling /\ q.own = TRUE
      BY <2>3
    <2>6. q.filling <=> num < r.len  BY <2>5, Zenon DEF filling
    <2>7. q.len = IF num < r.len THEN r.len ELSE num + 1  BY <2>5, Zenon DEF known
    <2> QED BY <2>4, <2>5, <2>6, <2>7
  <1> HIDE DEF q
  <1>3. r.images \subseteq 0..(r.len - 1) /\ (~r.filling => r.num = r.len - 1)  BY DEF InSlot
  <1>4. q.num < q.len /\ r.len <= q.len  BY <1>1, <1>2
  <1>5. q.images \subseteq 0..(q.len - 1)  BY <1>1, <1>2, <1>3, <1>4
  <1>6. ASSUME ~q.filling  PROVE q.own /\ q.num = q.len - 1 /\ q.images \subseteq 0..(q.num - 1)
    <2>1. r.len <= num /\ q.len = num + 1  BY <1>1, <1>2, <1>6
    <2> QED BY <1>1, <1>2, <1>3, <2>1
  <1>7. /\ q \in Texts /\ q.id = r.id /\ q.images = r.images /\ q.num = num
        /\ q.num < q.len /\ q.images \subseteq 0..(q.len - 1)
        /\ ~q.filling => q.own /\ q.num = q.len - 1 /\ q.images \subseteq 0..(q.num - 1)
    BY <1>2, <1>4, <1>5, <1>6
  <1> QED BY <1>7 DEF q

\* Each text of a batch gains some tokens, up to num[i], and its row is brought
\* up to date.
Advances(b, k, num) ==
    /\ Batch(b, k) /\ \A i \in 1..k : b[i] \in Live
    /\ num \in [1..k -> Nat]
    /\ \A i \in 1..k : req[b[i]].num < num[i] /\ (req[b[i]].filling => num[i] <= req[b[i]].len)
    /\ req' = [s \in Slots |-> req'[s]] /\ history' = [s \in Slots |-> history'[s]]
    /\ \A i \in 1..k : req'[b[i]] = Advanced(req[b[i]], num[i])
    /\ \A i \in 1..k : DOMAIN history'[b[i]] = 0..N-2 /\ RowCurrent(req'[b[i]], history'[b[i]])
    /\ \A s \in Slots : (\A i \in 1..k : b[i] # s) => req'[s] = req[s] /\ history'[s] = history[s]
    /\ verify' = Free /\ astray' = {} /\ UNCHANGED <<waiting, created, retracts>>

\* Extend, Decode and the commit do no more.
LEMMA AdvanceStep ==
  ASSUME IInv, NEW b, NEW k, NEW num, Advances(b, k, num)
  PROVE  IInv'
  <1> USE DEF Advances
  <1>1. StateTypes /\ (\A s \in Live : InSlot(req[s])) /\ (\A r \in waiting : InQueue(r)) /\ Once /\ HistoryCurrent
    BY DEF IInv
  <1>2. k \in Nat /\ b \in [1..k -> Slots]  BY DEF Batch
  <1>3. ASSUME NEW i \in 1..k
        PROVE  req'[b[i]] \in Texts /\ req'[b[i]].id = req[b[i]].id /\ InSlot(req'[b[i]])
    <2>1. b[i] \in Slots  BY <1>2
    <2>2. req[b[i]] \in Texts /\ InSlot(req[b[i]])  BY <1>1, <2>1, LiveTexts
    <2>3. num[i] \in Nat  OBVIOUS
    <2> DEFINE q == Advanced(req[b[i]], num[i])
    <2>4. /\ q \in Texts /\ q.id = req[b[i]].id
          /\ q.num < q.len /\ q.images \subseteq 0..(q.len - 1)
          /\ ~q.filling => q.own /\ q.num = q.len - 1 /\ q.images \subseteq 0..(q.num - 1)
      BY <2>2, <2>3, AdvancedIs
    <2>5. req'[b[i]] = q  OBVIOUS
    <2> HIDE DEF q
    <2> QED BY <2>1, <2>2, <2>4, <2>5 DEF InSlot
  <1>4. ASSUME NEW s \in Slots
        PROVE  /\ s \in Live' <=> s \in Live
               /\ s \in Live => req'[s].id = req[s].id /\ InSlot(req'[s])
               /\ req'[s] \in Texts \cup {Free} /\ DOMAIN history'[s] = 0..N-2
    <2>1. CASE \E i \in 1..k : b[i] = s
      <3>1. PICK i \in 1..k : b[i] = s  BY <2>1
      <3>2. req'[s] \in Texts /\ req'[s].id = req[s].id /\ InSlot(req'[s]) /\ DOMAIN history'[s] = 0..N-2  BY <1>3, <3>1
      <3>3. s \in Live  BY <3>1
      <3>4. req'[s] # Free  BY <1>1, <3>2, LiveTexts
      <3> QED BY <3>1, <3>2, <3>3, <3>4 DEF Live
    <2>2. CASE ~\E i \in 1..k : b[i] = s
      <3>1. req'[s] = req[s] /\ history'[s] = history[s]  BY <2>2
      <3> QED BY <1>1, <3>1 DEF Live, StateTypes
    <2> QED BY <2>1, <2>2
  <1>5. Live' = Live  BY <1>4 DEF Live
  <1>6. StateTypes'
    <2>1. req' \in [Slots -> Texts \cup {Free}]  BY <1>4
    <2> QED BY <1>1, <1>4, <2>1 DEF StateTypes
  <1>7. \A s \in Live' : InSlot(req[s])'
    <2>1. \A s \in Live : s \in Slots  BY DEF Live
    <2> QED BY <1>4, <1>5, <2>1 DEF InSlot
  <1>8. \A r \in waiting' : InQueue(r)'  BY <1>1 DEF InQueue
  <1>9. Once'
    <2>1. \A s \in Live : req'[s].id = req[s].id  BY <1>4 DEF Live
    <2> QED BY <1>1, <1>5, <2>1 DEF Once
  <1>10. HistoryCurrent'
    <2> SUFFICES ASSUME NEW s \in Live, req'[s].own  PROVE RowCurrent(req'[s], history'[s])
      BY <1>5 DEF HistoryCurrent, RowCurrent
    <2>1. s \in Slots  BY DEF Live
    <2>2. CASE \E i \in 1..k : b[i] = s
      BY <2>2
    <2>3. CASE ~\E i \in 1..k : b[i] = s
      <3>1. req'[s] = req[s] /\ history'[s] = history[s]  BY <2>1, <2>3
      <3> QED BY <1>1, <3>1 DEF HistoryCurrent, RowCurrent
    <2> QED BY <2>2, <2>3
  <1>11. BlockTrue' /\ ContextExact'  BY DEF BlockTrue, ContextExact
  <1> QED BY <1>6, <1>7, <1>8, <1>9, <1>10, <1>11 DEF IInv

LEMMA LiveAt ==
  ASSUME IInv, NEW s \in Live
  PROVE  s \in Slots /\ req[s] \in Texts /\ InSlot(req[s]) /\ req[s].num \in Nat
  <1>1. s \in Slots  BY DEF Live
  <1>2. req[s] \in Texts /\ InSlot(req[s])  BY <1>1, LiveTexts DEF IInv
  <1> QED BY <1>1, <1>2 DEF Texts

\* The contexts of a forward, one by one.
LEMMA ContextsAre ==
  ASSUME NEW b, NEW k, Batch(b, k), NEW runs, NEW rows, NEW u \in Contexts(b, runs, rows)
  PROVE  \E i \in 1..k : \E off \in 0..(Len(runs[i]) - 1) :
            /\ u.r = req[b[i]] /\ u.p = req[b[i]].num + off
            /\ u.got = Context(TokensOf(runs, rows, i, off), req[b[i]].num + off)
  BY DEF Contexts, Batch

\* A batch in which each text is run over its next lens[i] tokens.
Forward(b, k, lens, runs, rows) ==
    /\ Batch(b, k) /\ \A i \in 1..k : b[i] \in Live
    /\ lens \in [1..k -> Nat \ {0}] /\ runs \in [1..k -> Seq(Ids)]
    /\ \A i \in 1..k :
         /\ req[b[i]].filling => req[b[i]].num + lens[i] <= req[b[i]].len
         /\ Len(runs[i]) = lens[i]
         /\ \A o \in 1..lens[i] : runs[i][o] = Token(req[b[i]], req[b[i]].num + o - 1)
         /\ RowFits(req[b[i]], rows[i])

LEMMA ForwardAt ==
  ASSUME IInv, NEW b, NEW k, NEW lens, NEW runs, NEW rows, Forward(b, k, lens, runs, rows), NEW i \in 1..k
  PROVE  /\ k \in Nat /\ b \in [1..k -> Slots] /\ runs \in [1..k -> Seq(Ids)]
         /\ b[i] \in Slots /\ req[b[i]] \in Texts /\ InSlot(req[b[i]]) /\ req[b[i]].num \in Nat
         /\ lens[i] \in Nat \ {0} /\ Len(runs[i]) = lens[i]
         /\ req[b[i]].filling => req[b[i]].num + lens[i] <= req[b[i]].len
         /\ \A o \in 1..lens[i] : runs[i][o] = Token(req[b[i]], req[b[i]].num + o - 1)
         /\ RowFits(req[b[i]], rows[i])
  <1>1. k \in Nat /\ b \in [1..k -> Slots] /\ runs \in [1..k -> Seq(Ids)]  BY DEF Forward, Batch
  <1>2. b[i] \in Live  BY DEF Forward
  <1>3. b[i] \in Slots /\ req[b[i]] \in Texts /\ InSlot(req[b[i]]) /\ req[b[i]].num \in Nat  BY <1>2, LiveAt
  <1>4. lens[i] \in Nat \ {0} /\ Len(runs[i]) = lens[i]  BY DEF Forward
  <1>5. /\ req[b[i]].filling => req[b[i]].num + lens[i] <= req[b[i]].len
        /\ \A o \in 1..lens[i] : runs[i][o] = Token(req[b[i]], req[b[i]].num + o - 1)
        /\ RowFits(req[b[i]], rows[i])
    BY DEF Forward
  <1> QED BY <1>1, <1>3, <1>4, <1>5

LEMMA ForwardFits ==
  ASSUME IInv, NEW b, NEW k, NEW lens, NEW runs, NEW rows, Forward(b, k, lens, runs, rows), NEW i \in 1..k,
         NEW off \in 0..(lens[i] - 1)
  PROVE  /\ req[b[i]].num + off \in Nat
         /\ TokFits(req[b[i]], req[b[i]].num + off, TokensOf(runs, rows, i, off))
  <1> DEFINE r == req[b[i]]
  <1>1. /\ k \in Nat /\ runs \in [1..k -> Seq(Ids)] /\ r \in Texts /\ r.num \in Nat /\ RowFits(r, rows[i])
        /\ lens[i] \in Nat /\ Len(runs[i]) = lens[i]
        /\ \A o \in 1..lens[i] : runs[i][o] = Token(r, r.num + o - 1)
    BY ForwardAt
  <1> HIDE DEF r
  <1>2. off \in 0..(Len(runs[i]) - 1) /\ off \in Nat /\ \A o \in 1..(off + 1) : o \in 1..lens[i]  BY <1>1
  <1>3. \A o \in 1..(off + 1) : runs[i][o] = Token(r, r.num + o - 1)  BY <1>1, <1>2
  <1>4. TokFits(r, r.num + off, TokensOf(runs, rows, i, off))  BY <1>1, <1>2, <1>3, TokensFit
  <1>5. r.num + off \in Nat  BY <1>1, <1>2
  <1> QED BY <1>4, <1>5 DEF r

\* Each token is hashed with its own text,
LEMMA ForwardClean ==
  ASSUME IInv, NEW b, NEW k, NEW lens, NEW runs, NEW rows, Forward(b, k, lens, runs, rows)
  PROVE  Astray(Contexts(b, runs, rows)) = {}
  <1> SUFFICES ASSUME NEW u \in Contexts(b, runs, rows)  PROVE u.got = Expected(u.r, u.p)
    BY DEF Astray
  <1>1. Batch(b, k)  BY DEF Forward
  <1>2. PICK i \in 1..k : \E off \in 0..(Len(runs[i]) - 1) :
            /\ u.r = req[b[i]] /\ u.p = req[b[i]].num + off
            /\ u.got = Context(TokensOf(runs, rows, i, off), req[b[i]].num + off)
    BY <1>1, ContextsAre
  <1>7. PICK off \in 0..(Len(runs[i]) - 1) :
            /\ u.r = req[b[i]] /\ u.p = req[b[i]].num + off
            /\ u.got = Context(TokensOf(runs, rows, i, off), req[b[i]].num + off)
    BY <1>2
  <1>3. Len(runs[i]) = lens[i] /\ req[b[i]] \in Texts  BY ForwardAt
  <1>4. off \in 0..(lens[i] - 1)  BY <1>3
  <1>5. req[b[i]].num + off \in Nat /\ TokFits(req[b[i]], req[b[i]].num + off, TokensOf(runs, rows, i, off))
    BY <1>4, ForwardFits
  <1>6. Context(TokensOf(runs, rows, i, off), req[b[i]].num + off) = Expected(req[b[i]], req[b[i]].num + off)
    BY <1>3, <1>5, ContextIs
  <1> QED BY <1>7, <1>6

\* and the row it leaves is current.
LEMMA ForwardRow ==
  ASSUME IInv, NEW b, NEW k, NEW lens, NEW runs, NEW rows, Forward(b, k, lens, runs, rows), NEW i \in 1..k
  PROVE  LET row == NewRow(TokensOf(runs, rows, i, lens[i] - 1))
         IN  DOMAIN row = 0..N-2 /\ RowCurrent(Advanced(req[b[i]], req[b[i]].num + lens[i]), row)
  <1> DEFINE r == req[b[i]]
             off == lens[i] - 1
             tok == TokensOf(runs, rows, i, off)
             q == Advanced(r, r.num + lens[i])
  <1>1. /\ r \in Texts /\ InSlot(r) /\ r.num \in Nat /\ lens[i] \in Nat \ {0}
        /\ r.filling => r.num + lens[i] <= r.len
    BY ForwardAt
  <1>2. off \in 0..(lens[i] - 1)  BY <1>1
  <1>3. r.num + off \in Nat /\ TokFits(r, r.num + off, tok)  BY <1>2, ForwardFits
  <1>4. r.num + lens[i] = (r.num + off) + 1 /\ r.num < r.num + lens[i] /\ r.num + lens[i] \in Nat  BY <1>1
  <1> HIDE DEF r, off, tok
  <1>5. q \in Texts /\ q.id = r.id /\ q.images = r.images /\ q.num = r.num + lens[i]
    BY <1>1, <1>4, AdvancedIs
  <1> HIDE DEF q
  <1>6. DOMAIN NewRow(tok) = 0..N-2 /\ RowCurrent(q, NewRow(tok))
    BY <1>1, <1>3, <1>4, <1>5, NewRowIs
  <1> QED BY <1>6 DEF q, tok, off, r

\* What Extend and Decode do to a batch.
LEMMA ForwardStep ==
  ASSUME IInv, NEW b, NEW k, NEW lens, NEW runs, NEW rows, Forward(b, k, lens, runs, rows),
         astray' = Astray(Contexts(b, runs, rows)),
         NEW new, \A i \in 1..k : new[i] = NewRow(TokensOf(runs, rows, i, lens[i] - 1)),
         history' = Update(history, b, new),
         NEW advanced, \A i \in 1..k : advanced[i] = Advanced(req[b[i]], req[b[i]].num + lens[i]),
         req' = Update(req, b, advanced),
         verify' = Free, UNCHANGED <<waiting, created, retracts>>
  PROVE  IInv'
  <1>1. Batch(b, k) /\ \A i \in 1..k : b[i] \in Live  BY DEF Forward
  <1>2. Given(req', req, b, k, advanced) /\ Given(history', history, b, k, new)
    <2>1. Given(Update(req, b, advanced), req, b, k, advanced)  BY <1>1, UpdateGives
    <2>2. Given(Update(history, b, new), history, b, k, new)  BY <1>1, UpdateGives
    <2> QED BY <2>1, <2>2
  <1>3. /\ \A i \in 1..k : b[i] \in Slots /\ req'[b[i]] = advanced[i] /\ history'[b[i]] = new[i]
        /\ \A s \in Slots : (\A i \in 1..k : b[i] # s) => req'[s] = req[s] /\ history'[s] = history[s]
        /\ req' = [s \in Slots |-> req'[s]] /\ history' = [s \in Slots |-> history'[s]]
    BY <1>2 DEF Given
  <1>4. \A i \in 1..k : DOMAIN history'[b[i]] = 0..N-2 /\ RowCurrent(req'[b[i]], history'[b[i]])
    BY <1>3, ForwardRow
  <1> DEFINE num == [i \in 1..k |-> req[b[i]].num + lens[i]]
  <1>5. \A i \in 1..k : num[i] \in Nat /\ req[b[i]].num < num[i] /\ (req[b[i]].filling => num[i] <= req[b[i]].len)
    <2> SUFFICES ASSUME NEW i \in 1..k
                 PROVE  num[i] \in Nat /\ req[b[i]].num < num[i] /\ (req[b[i]].filling => num[i] <= req[b[i]].len)
      OBVIOUS
    <2>1. /\ req[b[i]].num \in Nat /\ lens[i] \in Nat \ {0}
          /\ req[b[i]].filling => req[b[i]].num + lens[i] <= req[b[i]].len
      BY ForwardAt
    <2> QED BY <2>1
  <1>6. num \in [1..k -> Nat]  BY <1>5
  <1>7. \A i \in 1..k : req'[b[i]] = Advanced(req[b[i]], num[i])  BY <1>3
  <1> HIDE DEF num
  <1>8. astray' = {}  BY ForwardClean
  <1>9. Advances(b, k, num)  BY <1>1, <1>3, <1>4, <1>5, <1>6, <1>7, <1>8 DEF Advances
  <1> QED BY <1>9, AdvanceStep

\* A history row with what the scheduler knows, or the slot's own, will do.
LEMMA OwnRowFits ==
  ASSUME IInv, NEW s \in Live, req[s].own \/ ~(req[s].num > 0)
  PROVE  RowFits(req[s], history[s])
  <1>1. req[s].num \in Nat  BY LiveAt
  <1>2. CASE req[s].own
    <2>1. RowCurrent(req[s], history[s])  BY <1>2 DEF IInv, HistoryCurrent, RowCurrent
    <2> QED BY <2>1, CurrentFits
  <1>3. CASE ~(req[s].num > 0)
    <2>1. \A c \in 0..N-2 : ~(req[s].num - (N - 1 - c) >= 0)  BY <1>1, <1>3, SizesAssumption
    <2> QED BY <2>1 DEF RowFits
  <1> QED BY <1>2, <1>3

LEMMA SchedulerRowFits == \A r : RowFits(r, SchedulerHistory(r)) \/ r.num \notin Nat
  <1> SUFFICES ASSUME NEW r, r.num \in Nat  PROVE RowFits(r, SchedulerHistory(r))
    OBVIOUS
  <1>1. \A c \in 0..N-2 : r.num - (N - 1 - c) >= 0 => ~(r.num - (N - 1 - c) < 0)  BY SizesAssumption
  <1> QED BY <1>1 DEF RowFits, SchedulerHistory

LEMMA RunLength ==
  ASSUME NEW S, NEW n \in Nat, NEW f \in [1..n -> S]
  PROVE  f \in Seq(S) /\ Len(f) = n
  OBVIOUS

LEMMA ExtendStep ==
  ASSUME IInv, Extend
  PROVE  IInv'
  <1> DEFINE S == {s \in Live : req[s].filling}
  <1>1. PICK b \in Batches(S) :
          \E lens \in [DOMAIN b -> 1..ChunkSize], supplied \in {TRUE, MustSupply(b)} :
            /\ \A i \in DOMAIN b : req[b[i]].num + lens[i] <= req[b[i]].len
            /\ LET runs == [i \in DOMAIN b |-> [o \in 1..lens[i] |-> Token(req[b[i]], req[b[i]].num + o - 1)]]
                   rows == ExtendRows(b, supplied)
               IN  /\ astray' = Astray(Contexts(b, runs, rows))
                   /\ history' = Update(history, b, [i \in DOMAIN b |-> NewRow(TokensOf(runs, rows, i, lens[i] - 1))])
            /\ req' = Update(req, b, [i \in DOMAIN b |-> Advanced(req[b[i]], req[b[i]].num + lens[i])])
    BY DEF Extend
  <1>2. PICK lens \in [DOMAIN b -> 1..ChunkSize], supplied \in {TRUE, MustSupply(b)} :
            /\ \A i \in DOMAIN b : req[b[i]].num + lens[i] <= req[b[i]].len
            /\ LET runs == [i \in DOMAIN b |-> [o \in 1..lens[i] |-> Token(req[b[i]], req[b[i]].num + o - 1)]]
                   rows == ExtendRows(b, supplied)
               IN  /\ astray' = Astray(Contexts(b, runs, rows))
                   /\ history' = Update(history, b, [i \in DOMAIN b |-> NewRow(TokensOf(runs, rows, i, lens[i] - 1))])
            /\ req' = Update(req, b, [i \in DOMAIN b |-> Advanced(req[b[i]], req[b[i]].num + lens[i])])
    BY <1>1
  <1> DEFINE runs == [i \in DOMAIN b |-> [o \in 1..lens[i] |-> Token(req[b[i]], req[b[i]].num + o - 1)]]
             rows == ExtendRows(b, supplied)
             new == [i \in DOMAIN b |-> NewRow(TokensOf(runs, rows, i, lens[i] - 1))]
             advanced == [i \in DOMAIN b |-> Advanced(req[b[i]], req[b[i]].num + lens[i])]
  <1>3. S \in SUBSET Slots  BY DEF Live
  <1>4. PICK k \in Nat : Batch(b, k) /\ b \in [1..k -> S]  BY <1>3, BatchOf
  <1>5. DOMAIN b = 1..k /\ \A i \in 1..k : b[i] \in Live /\ req[b[i]].filling  BY <1>4
  <1>6. \A i \in 1..k : lens[i] \in Nat \ {0}  BY <1>5, SizesAssumption
  <1>7. lens \in [1..k -> Nat \ {0}]  BY <1>2, <1>5, <1>6
  <1>8. \A i \in 1..k : req[b[i]] \in Texts /\ req[b[i]].num \in Nat /\ b[i] \in Slots  BY <1>5, LiveAt
  <1>9. ASSUME NEW i \in 1..k
        PROVE  /\ runs[i] \in Seq(Ids) /\ Len(runs[i]) = lens[i]
               /\ \A o \in 1..lens[i] : runs[i][o] = Token(req[b[i]], req[b[i]].num + o - 1)
    <2>1. runs[i] = [o \in 1..lens[i] |-> Token(req[b[i]], req[b[i]].num + o - 1)]  BY <1>5
    <2>2. \A o \in 1..lens[i] : req[b[i]].num + o - 1 \in Nat  BY <1>6, <1>8
    <2>3. \A o \in 1..lens[i] : Token(req[b[i]], req[b[i]].num + o - 1) \in Ids  BY <1>8, <2>2, TokenMasked
    <2>4. runs[i] \in [1..lens[i] -> Ids]  BY <2>1, <2>3
    <2>5. \A o \in 1..lens[i] : runs[i][o] = Token(req[b[i]], req[b[i]].num + o - 1)  BY <2>1
    <2> HIDE DEF runs
    <2>6. runs[i] \in Seq(Ids) /\ Len(runs[i]) = lens[i]  BY <1>6, <2>4, RunLength
    <2> QED BY <2>5, <2>6
  <1>10. runs \in [1..k -> Seq(Ids)]  BY <1>5, <1>9
  <1>11. ASSUME NEW i \in 1..k  PROVE RowFits(req[b[i]], rows[i])
    <2>1. rows[i] = IF supplied THEN SchedulerHistory(req[b[i]]) ELSE history[b[i]]  BY <1>5 DEF ExtendRows
    <2>2. CASE supplied
      <3>1. rows[i] = SchedulerHistory(req[b[i]])  BY <2>1, <2>2
      <3> QED BY <1>8, <3>1, SchedulerRowFits
    <2>3. CASE ~supplied
      <3>1. ~MustSupply(b)  BY <2>3
      <3>2. req[b[i]].own \/ ~(req[b[i]].num > 0)  BY <1>5, <3>1 DEF MustSupply
      <3>3. rows[i] = history[b[i]]  BY <2>1, <2>3
      <3> QED BY <1>5, <3>2, <3>3, OwnRowFits
    <2> QED BY <2>2, <2>3
  <1> HIDE DEF runs, rows
  <1>12. Forward(b, k, lens, runs, rows)
    BY <1>2, <1>4, <1>5, <1>7, <1>9, <1>10, <1>11 DEF Forward
  <1>13. /\ astray' = Astray(Contexts(b, runs, rows)) /\ history' = Update(history, b, new)
         /\ req' = Update(req, b, advanced)
    BY <1>2 DEF runs, rows
  <1>14. verify' = Free /\ UNCHANGED <<waiting, created, retracts>>  BY DEF Extend
  <1>15. /\ \A i \in 1..k : new[i] = NewRow(TokensOf(runs, rows, i, lens[i] - 1))
         /\ \A i \in 1..k : advanced[i] = Advanced(req[b[i]], req[b[i]].num + lens[i])
    BY <1>5
  <1> HIDE DEF new, advanced
  <1> QED BY <1>12, <1>13, <1>14, <1>15, ForwardStep

LEMMA DecodingAt ==
  ASSUME IInv, NEW s \in Decoding
  PROVE  /\ s \in Live /\ s \in Slots /\ req[s] \in Texts /\ req[s].num \in Nat /\ InSlot(req[s])
         /\ ~req[s].filling /\ req[s].own /\ RowCurrent(req[s], history[s])
         /\ \A p \in Nat : p >= req[s].num => p \notin req[s].images
  <1>1. s \in Live /\ ~req[s].filling  BY DEF Decoding
  <1>2. s \in Slots /\ req[s] \in Texts /\ req[s].num \in Nat /\ InSlot(req[s])  BY <1>1, LiveAt
  <1>3. req[s].own /\ req[s].images \subseteq 0..(req[s].num - 1)  BY <1>1, <1>2 DEF InSlot
  <1>4. RowCurrent(req[s], history[s])  BY <1>1, <1>3 DEF IInv, HistoryCurrent, RowCurrent
  <1>5. \A p \in Nat : p >= req[s].num => p \notin req[s].images  BY <1>2, <1>3
  <1> QED BY <1>1, <1>2, <1>3, <1>4, <1>5

LEMMA DecodeStep ==
  ASSUME IInv, Decode
  PROVE  IInv'
  <1>1. PICK b \in Batches(Decoding), padding \in Slots :
         LET runs == [i \in DOMAIN b |-> <<Token(req[b[i]], req[b[i]].num)>>]
             rows == [i \in DOMAIN b |-> history[b[i]]]
         IN  /\ astray' = Astray(Contexts(b, runs, rows))
             /\ history' = DecodeCommits(b, [i \in DOMAIN b |-> NewRow(TokensOf(runs, rows, i, 0))], padding)
             /\ req' = Update(req, b, [i \in DOMAIN b |-> Advanced(req[b[i]], req[b[i]].num + 1)])
    BY DEF Decode
  <1> DEFINE runs == [i \in DOMAIN b |-> <<Token(req[b[i]], req[b[i]].num)>>]
             rows == [i \in DOMAIN b |-> history[b[i]]]
             new == [i \in DOMAIN b |-> NewRow(TokensOf(runs, rows, i, 0))]
             advanced == [i \in DOMAIN b |-> Advanced(req[b[i]], req[b[i]].num + 1)]
  <1>2. Decoding \in SUBSET Slots  BY DEF Decoding, Live
  <1>3. PICK k \in Nat : Batch(b, k) /\ b \in [1..k -> Decoding]  BY <1>2, BatchOf
  <1> DEFINE lens == [i \in 1..k |-> 1]
  <1>4. DOMAIN b = 1..k  BY <1>3
  <1>5. \A i \in 1..k : /\ b[i] \in Live /\ req[b[i]] \in Texts /\ req[b[i]].num \in Nat
                        /\ ~req[b[i]].filling /\ RowCurrent(req[b[i]], history[b[i]])
    BY <1>3, DecodingAt
  <1>6. ASSUME NEW i \in 1..k
        PROVE  /\ runs[i] \in Seq(Ids) /\ Len(runs[i]) = lens[i]
               /\ \A o \in 1..lens[i] : runs[i][o] = Token(req[b[i]], req[b[i]].num + o - 1)
    <2> DEFINE t == Token(req[b[i]], req[b[i]].num)
    <2>1. runs[i] = <<t>> /\ lens[i] = 1  BY <1>4
    <2>2. t \in Ids  BY <1>5, TokenMasked
    <2>3. <<t>> \in Seq(Ids) /\ Len(<<t>>) = 1 /\ <<t>>[1] = t
      <3> HIDE DEF t
      <3> QED BY <2>2
    <2>4. req[b[i]].num + 1 - 1 = req[b[i]].num  BY <1>5
    <2>5. \A o \in 1..1 : o = 1  OBVIOUS
    <2> HIDE DEF runs, lens
    <2> QED BY <2>1, <2>3, <2>4, <2>5
  <1>7. \A i \in 1..k : RowFits(req[b[i]], rows[i])
    <2>1. \A i \in 1..k : rows[i] = history[b[i]]  BY <1>4
    <2> HIDE DEF rows
    <2> QED BY <1>5, <2>1, CurrentFits
  <1>8. runs \in [1..k -> Seq(Ids)]  BY <1>4, <1>6
  <1>9. \A i \in 1..k : lens[i] = 1 /\ lens[i] - 1 = 0  OBVIOUS
  <1>10. lens \in [1..k -> Nat \ {0}]  OBVIOUS
  <1> HIDE DEF runs, rows, lens
  <1>11. Forward(b, k, lens, runs, rows)  BY <1>3, <1>5, <1>6, <1>7, <1>8, <1>10 DEF Forward
  <1>12. /\ astray' = Astray(Contexts(b, runs, rows)) /\ history' = Update(history, b, new)
         /\ req' = Update(req, b, advanced)
    BY <1>1 DEF runs, rows, DecodeCommits
  <1>13. verify' = Free /\ UNCHANGED <<waiting, created, retracts>>  BY DEF Decode
  <1>14. /\ \A i \in 1..k : new[i] = NewRow(TokensOf(runs, rows, i, lens[i] - 1))
         /\ \A i \in 1..k : advanced[i] = Advanced(req[b[i]], req[b[i]].num + lens[i])
    BY <1>4, <1>9
  <1> HIDE DEF new, advanced
  <1> QED BY <1>11, <1>12, <1>13, <1>14, ForwardStep

\* Two places of a batch never hold one text.
LEMMA BatchOnce ==
  ASSUME IInv, NEW b, NEW k, Batch(b, k), \A i \in 1..k : b[i] \in Live,
         NEW i \in 1..k, NEW j \in 1..k, req[b[i]] = req[b[j]]
  PROVE  i = j
  <1>1. b[i] = b[j]  BY DEF IInv, Once
  <1> QED BY <1>1 DEF Batch, IsInjective

LEMMA VerifyStep ==
  ASSUME IInv, Verify
  PROVE  IInv'
  <1>0. PICK b \in Batches(Decoding) : \E good \in [DOMAIN b -> 0..Block-1] :
         LET runs == [i \in DOMAIN b |-> [o \in 1..Block |->
                         IF o <= good[i] + 1 THEN Token(req[b[i]], req[b[i]].num + o - 1) ELSE Wrong]]
             rows == [i \in DOMAIN b |-> history[b[i]]]
         IN  /\ astray' = Astray({u \in Contexts(b, runs, rows) :
                            \E i \in DOMAIN b : u.r = req[b[i]] /\ u.p <= u.r.num + good[i]})
             /\ verify' = [id |-> 1, b |-> b, good |-> good, ids |-> runs]
    BY DEF Verify
  <1>1. PICK good \in [DOMAIN b -> 0..Block-1] :
         LET runs == [i \in DOMAIN b |-> [o \in 1..Block |->
                         IF o <= good[i] + 1 THEN Token(req[b[i]], req[b[i]].num + o - 1) ELSE Wrong]]
             rows == [i \in DOMAIN b |-> history[b[i]]]
         IN  /\ astray' = Astray({u \in Contexts(b, runs, rows) :
                            \E i \in DOMAIN b : u.r = req[b[i]] /\ u.p <= u.r.num + good[i]})
             /\ verify' = [id |-> 1, b |-> b, good |-> good, ids |-> runs]
    BY <1>0
  <1> DEFINE runs == [i \in DOMAIN b |-> [o \in 1..Block |->
                         IF o <= good[i] + 1 THEN Token(req[b[i]], req[b[i]].num + o - 1) ELSE Wrong]]
             rows == [i \in DOMAIN b |-> history[b[i]]]
  <1>2. Decoding \in SUBSET Slots  BY DEF Decoding, Live
  <1>3. PICK k \in Nat : Batch(b, k) /\ b \in [1..k -> Decoding]  BY <1>2, BatchOf
  <1>4. DOMAIN b = 1..k /\ Block \in Nat \ {0} /\ b \in [1..k -> Slots]  BY <1>2, <1>3, SizesAssumption
  <1>5. \A i \in 1..k : /\ b[i] \in Live /\ req[b[i]] \in Texts /\ req[b[i]].num \in Nat
                        /\ RowCurrent(req[b[i]], history[b[i]])
    BY <1>3, DecodingAt
  <1>6. good \in [1..k -> 0..Block-1] /\ \A i \in 1..k : good[i] \in Nat /\ good[i] + 1 <= Block
    <2>1. good \in [1..k -> 0..Block-1]  BY <1>4
    <2> QED BY <1>4, <2>1
  <1>7. ASSUME NEW i \in 1..k
        PROVE  /\ runs[i] \in Seq(Ids) /\ Len(runs[i]) = Block
               /\ \A o \in 1..(good[i] + 1) : runs[i][o] = Token(req[b[i]], req[b[i]].num + o - 1)
    <2>1. runs[i] = [o \in 1..Block |->
                         IF o <= good[i] + 1 THEN Token(req[b[i]], req[b[i]].num + o - 1) ELSE Wrong]
      BY <1>4
    <2>2. \A o \in 1..Block : req[b[i]].num + o - 1 \in Nat  BY <1>4, <1>5
    <2>3. \A o \in 1..Block : Token(req[b[i]], req[b[i]].num + o - 1) \in Ids  BY <1>5, <2>2, TokenMasked
    <2>4. \A o \in 1..Block : runs[i][o] = IF o <= good[i] + 1 THEN Token(req[b[i]], req[b[i]].num + o - 1) ELSE Wrong
      BY <2>1
    <2>5. Wrong \in Ids  BY SpecialIds
    <2>6. runs[i] \in [1..Block -> Ids]  BY <2>1, <2>3, <2>5
    <2>7. \A o \in 1..(good[i] + 1) : o \in 1..Block /\ o <= good[i] + 1  BY <1>4, <1>6
    <2> HIDE DEF runs
    <2>8. runs[i] \in Seq(Ids) /\ Len(runs[i]) = Block  BY <1>4, <2>6, RunLength
    <2> QED BY <2>4, <2>7, <2>8
  <1>8. runs \in [1..k -> Seq(Ids)]  BY <1>4, <1>7
  <1>9. \A i \in 1..k : RowFits(req[b[i]], rows[i])
    <2>1. \A i \in 1..k : rows[i] = history[b[i]]  BY <1>4
    <2> HIDE DEF rows
    <2> QED BY <1>5, <2>1, CurrentFits
  <1> DEFINE used == {u \in Contexts(b, runs, rows) : \E i \in DOMAIN b : u.r = req[b[i]] /\ u.p <= u.r.num + good[i]}
  <1>10. astray' = Astray(used) /\ verify' = [id |-> 1, b |-> b, good |-> good, ids |-> runs]  BY <1>1
  <1> HIDE DEF runs, rows
  <1>11. ASSUME NEW u \in used  PROVE u.got = Expected(u.r, u.p)
    <2>1. u \in Contexts(b, runs, rows)  OBVIOUS
    <2>2. PICK j \in 1..k : u.r = req[b[j]] /\ u.p <= u.r.num + good[j]  BY <1>4
    <2>3. PICK i \in 1..k : \E off \in 0..(Len(runs[i]) - 1) :
            /\ u.r = req[b[i]] /\ u.p = req[b[i]].num + off
            /\ u.got = Context(TokensOf(runs, rows, i, off), req[b[i]].num + off)
      BY <1>3, <2>1, ContextsAre
    <2>4. PICK off \in 0..(Len(runs[i]) - 1) :
            /\ u.r = req[b[i]] /\ u.p = req[b[i]].num + off
            /\ u.got = Context(TokensOf(runs, rows, i, off), req[b[i]].num + off)
      BY <2>3
    <2> HIDE DEF used
    <2>5. i = j  BY <1>3, <1>5, <2>2, <2>3, BatchOnce
    <2>6. off \in Nat /\ off <= good[i]
      <3> DEFINE x == req[b[i]].num
      <3>1. x \in Nat /\ good[i] \in Nat /\ Len(runs[i]) = Block /\ Block \in Nat  BY <1>4, <1>5, <1>6, <1>7
      <3>2. u.p <= x + good[i]  BY <2>2, <2>5
      <3>3. u.p = x + off  BY <2>4
      <3> HIDE DEF x
      <3> QED BY <3>1, <3>2, <3>3
    <2>7. \A o \in 1..(off + 1) : runs[i][o] = Token(req[b[i]], req[b[i]].num + o - 1)
      <3>1. \A o \in 1..(off + 1) : o \in 1..(good[i] + 1)  BY <1>6, <2>6
      <3> QED BY <1>7, <3>1
    <2>8. Context(TokensOf(runs, rows, i, off), req[b[i]].num + off) = Expected(req[b[i]], req[b[i]].num + off)
      <3>1. \A l \in 1..k : req[b[l]] \in Texts  BY <1>5
      <3>2. b \in [1..k -> Slots] /\ k \in Nat  BY <1>4
      <3> QED BY <1>8, <1>9, <2>7, <3>1, <3>2, NothingAstray
    <2> QED BY <2>4, <2>8
  <1>12. astray' = {}
    <2> HIDE DEF used
    <2> QED BY <1>10, <1>11 DEF Astray
  <1>13. UNCHANGED <<req, waiting, history, created, retracts>>  BY DEF Verify
  <1>14. Live' = Live /\ Decoding' = Decoding  BY <1>13 DEF Live, Decoding
  <1>15. BlockTrue'
    <2>1. verify'.b = b /\ verify'.good = good /\ verify'.ids = runs  BY <1>10
    <2>2. \A i \in 1..k : b[i] \in Decoding  BY <1>3
    <2>3. \A i \in 1..k : \A o \in 1..(good[i] + 1) : runs[i][o] = Token(req[b[i]], req[b[i]].num + o - 1)
      BY <1>7
    <2>4. req' = req  BY <1>13
    <2> QED BY <1>3, <1>6, <1>14, <2>1, <2>2, <2>3, <2>4 DEF BlockTrue
  <1> QED BY <1>12, <1>13, <1>14, <1>15
          DEF IInv, StateTypes, InSlot, InQueue, Once, HistoryCurrent, ContextExact

\* The row shifted over right tokens is that of the longer text.
LEMMA ShiftedIs ==
  ASSUME IInv, NEW s \in Decoding, NEW ids, NEW commit \in Nat \ {0},
         \A o \in 1..commit : ids[o] = Token(req[s], req[s].num + o - 1)
  PROVE  /\ DOMAIN Shifted(history[s], ids, commit) = 0..N-2
         /\ RowCurrent(Advanced(req[s], req[s].num + commit), Shifted(history[s], ids, commit))
  <1> DEFINE r == req[s]
             old == history[s]
             row == Shifted(old, ids, commit)
             q == Advanced(r, r.num + commit)
  <1>1. /\ r \in Texts /\ r.num \in Nat /\ InSlot(r) /\ ~r.filling /\ RowCurrent(r, old)
        /\ \A p \in Nat : p >= r.num => p \notin r.images
    BY DecodingAt
  <1>2. \A o \in 1..commit : ids[o] = Token(r, r.num + o - 1)  OBVIOUS
  <1> HIDE DEF r, old
  <1>3. r.num + commit \in Nat /\ r.num < r.num + commit  BY <1>1
  <1>4. q.id = r.id /\ q.images = r.images /\ q.num = r.num + commit  BY <1>1, <1>3, AdvancedIs
  <1> HIDE DEF q
  <1>5. \A x : Token(q, x) = Token(r, x)  BY <1>4 DEF Token
  <1>6. N \in Nat \ {0, 1}  BY SizesAssumption
  <1>7. ASSUME NEW c \in 0..N-2, q.num - (N - 1 - c) >= 0
        PROVE  row[c] = Masked(Token(q, q.num - (N - 1 - c)))
    <2>1. row[c] = IF commit + c < N - 1 THEN old[commit + c] ELSE ids[commit + c - (N - 1) + 1]  BY DEF Shifted
    <2> HIDE DEF row
    <2>2. CASE commit + c < N - 1
      <3>1. commit + c \in 0..N-2 /\ r.num - (N - 1 - (commit + c)) = q.num - (N - 1 - c)  BY <1>1, <1>4, <1>6, <2>2
      <3>2. old[commit + c] = Masked(Token(r, q.num - (N - 1 - c)))  BY <1>1, <1>7, <3>1 DEF RowCurrent
      <3> QED BY <1>5, <2>1, <2>2, <3>2
    <2>3. CASE ~(commit + c < N - 1)
      <3> DEFINE o == commit + c - (N - 1) + 1
      <3>1. o \in 1..commit /\ r.num + o - 1 = q.num - (N - 1 - c) /\ r.num + o - 1 \in Nat /\ r.num + o - 1 >= r.num
        BY <1>1, <1>4, <1>6, <2>3
      <3>2. row[c] = ids[o]  BY <2>1, <2>3
      <3> HIDE DEF o
      <3>3. ids[o] = Token(r, r.num + o - 1)  BY <1>2, <3>1
      <3>4. Masked(Token(r, r.num + o - 1)) = Token(r, r.num + o - 1)  BY <1>1, <3>1, TokenMasked
      <3> QED BY <1>5, <3>1, <3>2, <3>3, <3>4
    <2> QED BY <2>2, <2>3
  <1>8. DOMAIN row = 0..N-2  BY DEF Shifted
  <1> HIDE DEF row
  <1>9. RowCurrent(q, row)  BY <1>7 DEF RowCurrent
  <1> QED BY <1>8, <1>9 DEF row, q, old, r

\* No more is committed than was right.
LEMMA CommitIs ==
  ASSUME NEW good \in 0..Block-1, NEW verify_len \in 1..Block
  PROVE  CommitLen(CapCorrectLen(good, verify_len)) \in 1..(good + 1)
  BY SizesAssumption DEF CommitLen, CapCorrectLen

LEMMA CommitStep ==
  ASSUME IInv, CommitAfterVerify
  PROVE  IInv'
  <1>1. verify # Free /\ verify' = Free /\ astray' = {} /\ UNCHANGED <<waiting, created, retracts>>
    BY DEF CommitAfterVerify
  <1> DEFINE b == verify.b
             good == verify.good
             ids == verify.ids
  <1>2. PICK lens \in [DOMAIN b -> 1..Block] :
          LET commit == [i \in DOMAIN b |-> CommitLen(CapCorrectLen(good[i], lens[i]))]
          IN  /\ history' = Update(history, b, [i \in DOMAIN b |-> Shifted(history[b[i]], ids[i], commit[i])])
              /\ req' = Update(req, b, [i \in DOMAIN b |-> Advanced(req[b[i]], req[b[i]].num + commit[i])])
    BY DEF CommitAfterVerify
  <1>3. PICK k \in Nat : /\ Batch(b, k) /\ \A i \in 1..k : b[i] \in Decoding
                         /\ good \in [1..k -> 0..Block-1]
                         /\ \A i \in 1..k : \A o \in 1..(good[i] + 1) :
                              ids[i][o] = Token(req[b[i]], req[b[i]].num + o - 1)
    BY <1>1 DEF IInv, BlockTrue
  <1> DEFINE commit == [i \in DOMAIN b |-> CommitLen(CapCorrectLen(good[i], lens[i]))]
             new == [i \in DOMAIN b |-> Shifted(history[b[i]], ids[i], commit[i])]
             advanced == [i \in DOMAIN b |-> Advanced(req[b[i]], req[b[i]].num + commit[i])]
  <1>4. history' = Update(history, b, new) /\ req' = Update(req, b, advanced)  BY <1>2
  <1> HIDE DEF b, good, ids
  <1>5. DOMAIN b = 1..k  BY <1>3 DEF Batch
  <1>6. ASSUME NEW i \in 1..k  PROVE commit[i] \in 1..(good[i] + 1) /\ good[i] \in Nat /\ commit[i] \in Nat \ {0}
    <2>1. good[i] \in 0..Block-1 /\ lens[i] \in 1..Block  BY <1>3, <1>5
    <2>2. commit[i] = CommitLen(CapCorrectLen(good[i], lens[i]))  BY <1>5
    <2> HIDE DEF commit
    <2>3. commit[i] \in 1..(good[i] + 1)  BY <2>1, <2>2, CommitIs
    <2> QED BY <2>1, <2>3, SizesAssumption
  <1>7. /\ \A i \in 1..k : new[i] = Shifted(history[b[i]], ids[i], commit[i])
        /\ \A i \in 1..k : advanced[i] = Advanced(req[b[i]], req[b[i]].num + commit[i])
    BY <1>5
  <1> HIDE DEF commit, new, advanced
  <1>8. Given(req', req, b, k, advanced) /\ Given(history', history, b, k, new)
    <2>1. Given(Update(req, b, advanced), req, b, k, advanced)  BY <1>3, UpdateGives
    <2>2. Given(Update(history, b, new), history, b, k, new)  BY <1>3, UpdateGives
    <2> QED BY <1>4, <2>1, <2>2
  <1>9. /\ \A i \in 1..k : b[i] \in Slots /\ req'[b[i]] = advanced[i] /\ history'[b[i]] = new[i]
        /\ \A s \in Slots : (\A i \in 1..k : b[i] # s) => req'[s] = req[s] /\ history'[s] = history[s]
        /\ req' = [s \in Slots |-> req'[s]] /\ history' = [s \in Slots |-> history'[s]]
    BY <1>8 DEF Given
  <1>10. ASSUME NEW i \in 1..k
         PROVE  DOMAIN history'[b[i]] = 0..N-2 /\ RowCurrent(req'[b[i]], history'[b[i]])
    <2>1. b[i] \in Decoding  BY <1>3
    <2>2. \A o \in 1..commit[i] : ids[i][o] = Token(req[b[i]], req[b[i]].num + o - 1)
      <3>1. \A o \in 1..commit[i] : o \in 1..(good[i] + 1)  BY <1>6
      <3> QED BY <1>3, <3>1
    <2>3. /\ DOMAIN Shifted(history[b[i]], ids[i], commit[i]) = 0..N-2
          /\ RowCurrent(Advanced(req[b[i]], req[b[i]].num + commit[i]), Shifted(history[b[i]], ids[i], commit[i]))
      BY <1>6, <2>1, <2>2, ShiftedIs
    <2> QED BY <1>7, <1>9, <2>3
  <1> DEFINE num == [i \in 1..k |-> req[b[i]].num + commit[i]]
  <1>11. \A i \in 1..k : b[i] \in Live /\ ~req[b[i]].filling /\ req[b[i]].num \in Nat  BY <1>3, DecodingAt
  <1>12. \A i \in 1..k : num[i] \in Nat /\ req[b[i]].num < num[i]  BY <1>6, <1>11
  <1>13. num \in [1..k -> Nat]  BY <1>12
  <1>14. \A i \in 1..k : req'[b[i]] = Advanced(req[b[i]], num[i])  BY <1>7, <1>9
  <1> HIDE DEF num
  <1>15. Advances(b, k, num)  BY <1>1, <1>3, <1>9, <1>10, <1>11, <1>12, <1>13, <1>14 DEF Advances
  <1> QED BY <1>15, AdvanceStep

\* The steps that move no token.
LEMMA ArriveStep ==
  ASSUME IInv, Arrive
  PROVE  IInv'
  <1>1. PICK size \in Prompts, images \in ImageSets :
         /\ images \subseteq 0..size-1
         /\ waiting' = waiting \cup
              {[id |-> created + 1, images |-> images, len |-> size, num |-> 0, filling |-> TRUE, own |-> FALSE]}
    BY DEF Arrive
  <1>2. created < MaxReqs /\ created' = created + 1 /\ astray' = {} /\ UNCHANGED <<req, history, verify, retracts>>
    BY DEF Arrive
  <1>0. PICK r : r = [id |-> created + 1, images |-> images, len |-> size, num |-> 0, filling |-> TRUE, own |-> FALSE]
    OBVIOUS
  <1>3. created \in Nat /\ created' \in 0..MaxReqs  BY <1>2, PoolAssumption DEF IInv, StateTypes
  <1>4. /\ r \in Texts /\ r.id = created + 1 /\ r.num = 0 /\ r.filling = TRUE /\ r.own = FALSE
        /\ r.images = images /\ r.len = size
    <2>1. size \in Nat  BY PoolAssumption
    <2>2. images \in SUBSET Nat  BY <1>1, <2>1
    <2> QED BY <1>0, <1>3, <2>1, <2>2 DEF Texts
  <1>5. waiting' = waiting \cup {r}  BY <1>0, <1>1
  <1>6. Live' = Live /\ Decoding' = Decoding  BY <1>2 DEF Live, Decoding
  <1>7. StateTypes'  BY <1>2, <1>3, <1>4, <1>5 DEF IInv, StateTypes
  <1>8. ASSUME NEW s \in Live  PROVE req[s].id \in Nat /\ req[s].id <= created /\ InSlot(req[s])
    BY LiveAt DEF InSlot, Texts
  <1>9. ASSUME NEW q \in waiting  PROVE q.id \in Nat /\ q.id <= created /\ InQueue(q)
    BY DEF IInv, StateTypes, InQueue, Texts
  <1>10. ASSUME NEW s \in Live  PROVE InSlot(req[s])'
    <2>1. req[s].id <= created'  BY <1>2, <1>3, <1>8
    <2> QED BY <1>2, <1>8, <2>1 DEF InSlot
  <1>11. ASSUME NEW q \in waiting'  PROVE InQueue(q)'
    <2>1. CASE q \in waiting
      <3>1. q.id <= created'  BY <1>2, <1>3, <1>9, <2>1
      <3> QED BY <1>9, <2>1, <3>1 DEF InQueue
    <2>2. CASE q = r
      <3>1. r.id <= created' /\ r.images \subseteq 0..(r.len - 1)  BY <1>1, <1>2, <1>3, <1>4
      <3>2. InQueue(r)'  BY <1>4, <3>1 DEF InQueue
      <3> QED BY <2>2, <3>2
    <2> QED BY <1>5, <2>1, <2>2
  <1>12. Once'
    <2>1. \A s \in Live : req[s].id # r.id  BY <1>3, <1>4, <1>8
    <2>2. \A q \in waiting : q.id # r.id  BY <1>3, <1>4, <1>9
    <2> QED BY <1>2, <1>5, <1>6, <2>1, <2>2 DEF IInv, Once
  <1>13. BlockTrue'  BY <1>2, <1>6 DEF IInv, BlockTrue
  <1>14. HistoryCurrent' /\ ContextExact'  BY <1>2, <1>6 DEF IInv, HistoryCurrent, ContextExact
  <1> QED BY <1>6, <1>7, <1>10, <1>11, <1>12, <1>13, <1>14 DEF IInv

LEMMA AdmitStep ==
  ASSUME IInv, Admit
  PROVE  IInv'
  <1>1. PICK s \in Slots \ Live, r \in waiting : \E hit \in 0..r.len-1 :
         /\ req' = [req EXCEPT ![s] = [r EXCEPT !.num = hit]]
         /\ waiting' = waiting \ {r}
    BY DEF Admit
  <1>2. PICK hit \in 0..r.len-1 :
         /\ req' = [req EXCEPT ![s] = [r EXCEPT !.num = hit]]
         /\ waiting' = waiting \ {r}
    BY <1>1
  <1>3. verify = Free /\ verify' = Free /\ astray' = {} /\ UNCHANGED <<history, created, retracts>>
    BY DEF Admit
  <1> DEFINE q == [r EXCEPT !.num = hit]
  <1>4. r \in Texts /\ InQueue(r)  BY DEF IInv, StateTypes
  <1>5. /\ q \in Texts /\ q.id = r.id /\ q.images = r.images /\ q.len = r.len /\ q.num = hit
        /\ q.filling = r.filling /\ q.own = r.own
    BY <1>4 DEF Texts
  <1>6. req' = [req EXCEPT ![s] = q]  BY <1>2
  <1> HIDE DEF q
  <1>7. req \in [Slots -> Texts \cup {Free}]  BY DEF IInv, StateTypes
  <1>8. s \in Slots /\ req'[s] = q /\ \A t \in Slots : t # s => req'[t] = req[t]  BY <1>6, <1>7
  <1>9. q # Free  BY <1>5 DEF Texts, Free
  <1>10. Live' = Live \cup {s}  BY <1>8, <1>9 DEF Live
  <1>11. s \notin Live /\ \A t \in Live : t \in Slots /\ t # s /\ req'[t] = req[t]  BY <1>8 DEF Live
  <1>12. StateTypes'
    <2>1. req' \in [Slots -> Texts \cup {Free}]  BY <1>5, <1>6, <1>7
    <2> QED BY <1>2, <1>3, <2>1 DEF IInv, StateTypes
  <1>13. \A t \in Live' : InSlot(req[t])'
    <2>1. \A t \in Live : InSlot(req'[t])  BY <1>11 DEF IInv
    <2>2. hit < r.len
      <3>1. r.len \in Nat  BY <1>4 DEF Texts
      <3> QED BY <3>1
    <2>3. InSlot(q)  BY <1>4, <1>5, <2>2 DEF InSlot, InQueue
    <2>4. \A t \in Live' : InSlot(req'[t])  BY <1>8, <1>10, <2>1, <2>3
    <2> QED BY <1>3, <2>4 DEF InSlot
  <1>14. \A t \in waiting' : InQueue(t)'  BY <1>2, <1>3 DEF IInv, InQueue
  <1>15. Once'
    <2>1. \A t \in Live : req[t].id # r.id  BY DEF IInv, Once
    <2>2. \A t \in waiting' : t \in waiting /\ t.id # r.id  BY <1>2 DEF IInv, Once
    <2>3. \A t \in Live, v \in Live : req[t].id = req[v].id => t = v  BY DEF IInv, Once
    <2>4. \A t \in Live, v \in waiting : req[t].id # v.id  BY DEF IInv, Once
    <2>5. \A t \in waiting, v \in waiting : t.id = v.id => t = v  BY DEF IInv, Once
    <2>6. \A t \in Live', v \in Live' : req'[t].id = req'[v].id => t = v
      BY <1>5, <1>8, <1>10, <1>11, <2>1, <2>3
    <2>7. \A t \in Live', v \in waiting' : req'[t].id # v.id
      BY <1>5, <1>8, <1>10, <1>11, <2>2, <2>4
    <2>8. \A t \in waiting', v \in waiting' : t.id = v.id => t = v  BY <2>2, <2>5
    <2> QED BY <2>6, <2>7, <2>8 DEF Once
  <1>16. BlockTrue' /\ ContextExact'  BY <1>3 DEF BlockTrue, ContextExact
  <1>17. HistoryCurrent'
    <2> SUFFICES ASSUME NEW t \in Live', req'[t].own  PROVE RowCurrent(req'[t], history'[t])
      BY DEF HistoryCurrent, RowCurrent
    <2>1. t # s  BY <1>4, <1>5, <1>8 DEF InQueue
    <2>2. t \in Live /\ req'[t] = req[t] /\ history'[t] = history[t]  BY <1>3, <1>10, <1>11, <2>1
    <2> QED BY <2>2 DEF IInv, HistoryCurrent, RowCurrent
  <1> QED BY <1>12, <1>13, <1>14, <1>15, <1>16, <1>17 DEF IInv

\* A slot is emptied.
LEMMA LeaveSlot ==
  ASSUME IInv, NEW s \in Live, req' = [req EXCEPT ![s] = Free], verify' = Free, astray' = {},
         UNCHANGED <<history, created>>
  PROVE  /\ req' \in [Slots -> Texts \cup {Free}] /\ Live' = Live \ {s}
         /\ \A t \in Live' : t \in Live /\ req'[t] = req[t] /\ InSlot(req[t])'
         /\ \A t \in Live', v \in Live' : req'[t].id = req'[v].id => t = v
         /\ BlockTrue' /\ ContextExact' /\ HistoryCurrent'
  <1>1. req \in [Slots -> Texts \cup {Free}]  BY DEF IInv, StateTypes
  <1>2. s \in Slots  BY DEF Live
  <1>3. req'[s] = Free /\ \A t \in Slots : t # s => req'[t] = req[t]  BY <1>1, <1>2
  <1>4. Live' = Live \ {s}  BY <1>3 DEF Live
  <1>5. \A t \in Live' : t \in Live /\ req'[t] = req[t]  BY <1>3, <1>4 DEF Live
  <1>6. \A t \in Live' : InSlot(req[t])'  BY <1>5 DEF IInv, InSlot
  <1>7. \A t \in Live', v \in Live' : req'[t].id = req'[v].id => t = v
    <2>1. \A t \in Live, v \in Live : req[t].id = req[v].id => t = v  BY DEF IInv, Once
    <2> QED BY <1>5, <2>1
  <1>8. HistoryCurrent'
    <2> SUFFICES ASSUME NEW t \in Live', req'[t].own  PROVE RowCurrent(req'[t], history'[t])
      BY DEF HistoryCurrent, RowCurrent
    <2> QED BY <1>5 DEF IInv, HistoryCurrent, RowCurrent
  <1>9. BlockTrue' /\ ContextExact'  BY DEF BlockTrue, ContextExact
  <1>10. req' \in [Slots -> Texts \cup {Free}]  BY <1>1
  <1> QED BY <1>4, <1>5, <1>6, <1>7, <1>8, <1>9, <1>10

LEMMA FinishStep ==
  ASSUME IInv, Finish
  PROVE  IInv'
  <1>1. PICK s \in Live : req' = [req EXCEPT ![s] = Free]  BY DEF Finish
  <1>2. verify' = Free /\ astray' = {} /\ UNCHANGED <<waiting, history, created, retracts>>  BY DEF Finish
  <1>3. /\ req' \in [Slots -> Texts \cup {Free}] /\ Live' = Live \ {s}
        /\ \A t \in Live' : t \in Live /\ req'[t] = req[t] /\ InSlot(req[t])'
        /\ \A t \in Live', v \in Live' : req'[t].id = req'[v].id => t = v
        /\ BlockTrue' /\ ContextExact' /\ HistoryCurrent'
    BY <1>1, <1>2, LeaveSlot
  <1>4. StateTypes'  BY <1>2, <1>3 DEF IInv, StateTypes
  <1>5. \A r \in waiting' : InQueue(r)'  BY <1>2 DEF IInv, InQueue
  <1>6. Once'
    <2>1. \A t \in Live, v \in waiting : req[t].id # v.id  BY DEF IInv, Once
    <2>2. \A t \in waiting, v \in waiting : t.id = v.id => t = v  BY DEF IInv, Once
    <2> QED BY <1>2, <1>3, <2>1, <2>2 DEF Once
  <1> QED BY <1>3, <1>4, <1>5, <1>6 DEF IInv

LEMMA RetractStep ==
  ASSUME IInv, Retract
  PROVE  IInv'
  <1>1. PICK s \in Live :
         /\ req' = [req EXCEPT ![s] = Free]
         /\ waiting' = waiting \cup {[req[s] EXCEPT !.num = 0, !.own = FALSE, !.filling = TRUE]}
    BY DEF Retract
  <1>2. /\ verify' = Free /\ astray' = {} /\ UNCHANGED <<history, created>>
        /\ retracts < MaxRetracts /\ retracts' = retracts + 1
    BY DEF Retract
  <1> DEFINE r == req[s]
             q == [r EXCEPT !.num = 0, !.own = FALSE, !.filling = TRUE]
  <1>3. r \in Texts /\ InSlot(r)  BY LiveAt
  <1>4. waiting' = waiting \cup {q}  BY <1>1
  <1>5. /\ q \in Texts /\ q.id = r.id /\ q.images = r.images /\ q.len = r.len /\ q.num = 0
        /\ q.filling = TRUE /\ q.own = FALSE
    <2> HIDE DEF r
    <2> QED BY <1>3 DEF Texts
  <1> HIDE DEF q
  <1>6. /\ req' \in [Slots -> Texts \cup {Free}] /\ Live' = Live \ {s}
        /\ \A t \in Live' : t \in Live /\ req'[t] = req[t] /\ InSlot(req[t])'
        /\ \A t \in Live', v \in Live' : req'[t].id = req'[v].id => t = v
        /\ BlockTrue' /\ ContextExact' /\ HistoryCurrent'
    BY <1>1, <1>2, LeaveSlot
  <1>7. StateTypes'
    <2>1. retracts' \in 0..MaxRetracts  BY <1>2, PoolAssumption DEF IInv, StateTypes
    <2> QED BY <1>2, <1>4, <1>5, <1>6, <2>1 DEF IInv, StateTypes
  <1>8. \A t \in waiting' : InQueue(t)'
    <2>1. InQueue(q)  BY <1>3, <1>5 DEF InQueue, InSlot
    <2>2. \A t \in waiting' : InQueue(t)  BY <1>4, <2>1 DEF IInv
    <2> QED BY <1>2, <2>2 DEF InQueue
  <1>9. Once'
    <2>1. \A t \in Live, v \in waiting : req[t].id # v.id  BY DEF IInv, Once
    <2>2. \A t \in waiting, v \in waiting : t.id = v.id => t = v  BY DEF IInv, Once
    <2>3. \A t \in Live, v \in Live : req[t].id = req[v].id => t = v  BY DEF IInv, Once
    <2>4. \A v \in waiting : v.id # q.id  BY <1>5, <2>1
    <2>5. \A t \in Live' : req'[t].id # q.id  BY <1>5, <1>6, <2>3
    <2>6. \A t \in Live', v \in waiting' : req'[t].id # v.id  BY <1>4, <1>6, <2>1, <2>5
    <2>7. \A t \in waiting', v \in waiting' : t.id = v.id => t = v  BY <1>4, <2>2, <2>4
    <2> QED BY <1>6, <2>6, <2>7 DEF Once
  <1> QED BY <1>6, <1>7, <1>8, <1>9 DEF IInv

----------------------------------------------------------------------------
(* The theorems about the history. *)

LEMMA Inductive == IInv /\ [Next]_vars => IInv'
  <1> SUFFICES ASSUME IInv, [Next]_vars  PROVE IInv'
    OBVIOUS
  <1>1. CASE Arrive  BY <1>1, ArriveStep
  <1>2. CASE Admit  BY <1>2, AdmitStep
  <1>3. CASE Extend  BY <1>3, ExtendStep
  <1>4. CASE Decode  BY <1>4, DecodeStep
  <1>5. CASE Verify  BY <1>5, VerifyStep
  <1>6. CASE CommitAfterVerify  BY <1>6, CommitStep
  <1>7. CASE Finish  BY <1>7, FinishStep
  <1>8. CASE Retract  BY <1>8, RetractStep
  <1>9. CASE UNCHANGED vars
    <2>1. Live' = Live /\ Decoding' = Decoding  BY <1>9 DEF Live, Decoding, vars
    <2>2. StateTypes' /\ Once'  BY <1>9, <2>1 DEF vars, IInv, StateTypes, Once
    <2>3. (\A s \in Live' : InSlot(req[s])') /\ (\A r \in waiting' : InQueue(r)')
      BY <1>9, <2>1 DEF vars, IInv, InSlot, InQueue
    <2>4. BlockTrue'  BY <1>9, <2>1 DEF vars, IInv, BlockTrue
    <2>5. HistoryCurrent' /\ ContextExact'  BY <1>9, <2>1 DEF vars, IInv, HistoryCurrent, ContextExact
    <2> QED BY <2>2, <2>3, <2>4, <2>5 DEF IInv
  <1> QED BY <1>1, <1>2, <1>3, <1>4, <1>5, <1>6, <1>7, <1>8, <1>9 DEF Next

LEMMA TypesHold == IInv => TypeOK
  <1> SUFFICES ASSUME IInv  PROVE TypeOK
    OBVIOUS
  <1>1. created \in 0..MaxReqs /\ retracts \in 0..MaxRetracts /\ \A s \in Slots : DOMAIN history[s] = 0..N-2
    BY DEF IInv, StateTypes
  <1>2. \A r \in waiting : r.num = 0 /\ r.filling  BY DEF IInv, InQueue
  <1>3. ASSUME NEW s \in Live
        PROVE  /\ req[s].num \in 0..req[s].len-1 /\ req[s].id \in 1..created
               /\ ~req[s].filling => req[s].own /\ req[s].num = req[s].len - 1
    <2>1. req[s] \in Texts /\ InSlot(req[s])  BY LiveAt
    <2>2. req[s].num \in Nat /\ req[s].len \in Nat /\ req[s].id \in Nat \ {0} /\ created \in Nat
      BY <1>1, <2>1, PoolAssumption DEF Texts
    <2> QED BY <2>1, <2>2 DEF InSlot
  <1> QED BY <1>1, <1>2, <1>3 DEF TypeOK

(* The state has its types, and a request that decodes is computed up to    *)
(* the token it sampled last (the scheduler's num_computed and the rows of  *)
(* engram_history): TypeOK for every pool, order, block and chunk size.     *)
THEOREM HistoryTypes == Spec => []TypeOK
  <1>1. Spec => []IInv  BY InitIInv, Inductive, PTL DEF Spec
  <1> QED BY <1>1, TypesHold, PTL

(* Between forwards the row of a slot whose request has been through one    *)
(* holds its last N - 1 computed tokens, whichever of extend, decode and    *)
(* commit_after_verify wrote it.                                            *)
THEOREM HistoryAlwaysCurrent == Spec => []HistoryCurrent
  <1>1. IInv => HistoryCurrent  BY DEF IInv
  <1> QED BY <1>1, InitIInv, Inductive, PTL DEF Spec

(* Every token whose value is used is hashed with its own text: the ragged  *)
(* look-back of the kernels and the rows they read never mix two requests,  *)
(* a rejected draft or an earlier tenant of the slot into a context.        *)
THEOREM ContextsAlwaysExact == Spec => []ContextExact
  <1>1. IInv => ContextExact  BY DEF IInv
  <1> QED BY <1>1, InitIInv, Inductive, PTL DEF Spec

----------------------------------------------------------------------------
(* The window of the late layers. *)

TailTypes ==
    /\ phase \in [Requests -> {"idle", "prefill", "decode"}]
    /\ seqlen \in [Requests -> Nat]
    /\ len \in [Requests -> Nat]
    /\ late \in [Requests -> SUBSET Nat]
    /\ evicted \in [Requests -> Nat]
    /\ steps \in [Requests -> 0..1]
    /\ reading \in [Requests -> Nat]

\* The scheduler knows of at most one token more than was computed, and once a
\* request has decoded, the forward in flight reads nothing before the window of
\* the last token the scheduler knows of.  A request in prefill has not decoded.
Lagging == \A r \in Requests :
    /\ phase[r] = "prefill" => steps[r] = 0
    /\ phase[r] = "decode" => seqlen[r] - 1 <= len[r]
    /\ phase[r] = "decode" /\ steps[r] = 1 => seqlen[r] - Window <= reading[r]

\* While it is prefilled, too, the last positions of a request were written,
\* and only positions out of the window of the next step were given back.
TailCovers ==
    \A r \in Requests : phase[r] # "idle" =>
        /\ LastPositions(len[r], Window) \subseteq late[r] \cup 0..(evicted[r] - 1)
        /\ evicted[r] = 0 \/ evicted[r] <= len[r] - Window

----------------------------------------------------------------------------
LEMMA TailTypesInit == TailInit => TailTypes
  BY DEF TailInit, TailTypes

LEMMA TailTypesStep == TailTypes /\ [TailNext]_tailVars => TailTypes'
  <1> SUFFICES ASSUME TailTypes, [TailNext]_tailVars  PROVE TailTypes'
    OBVIOUS
  <1> USE TailAssumption
  <1>1. ASSUME NEW r \in Requests, NEW n \in 1..MaxTokens, NEW c \in 0..MaxTokens, TailAdmit(r, n, c)
        PROVE  TailTypes'
    <2>1. LastPositions(c, Window) \subseteq Nat  BY DEF LastPositions
    <2> QED BY <1>1, <2>1 DEF TailAdmit, TailTypes
  <1>2. ASSUME NEW B \in SUBSET Requests, NEW chunk \in [B -> 1..ChunkedPrefillSize], TailExtend(B, chunk)
        PROVE  TailTypes'
    <2>1. \A r \in B : chunk[r] \in Nat  OBVIOUS
    <2>2. TailRequests(B, chunk) \subseteq Requests /\ TailRequests(B, chunk) \subseteq B
      BY DEF TailRequests
    <2>3. late' \in [Requests -> SUBSET Nat]
      BY <1>2, <2>2 DEF TailExtend, TailTypes, LastPositions
    <2>4. len' \in [Requests -> Nat]  BY <1>2, <2>1 DEF TailExtend, TailTypes
    <2>5. reading' \in [Requests -> Nat]  BY <1>2 DEF TailExtend, TailTypes, WindowStart
    <2> QED BY <1>2, <2>3, <2>4, <2>5 DEF TailExtend, TailTypes
  <1>3. ASSUME NEW r \in Requests, NEW k \in 1..Draft, NEW a \in 1..Draft, NEW e \in 0..MaxTokens,
               TailDecode(r, k, a, e)
        PROVE  TailTypes'
    <2>1. len[r]..(len[r] + a - 1) \subseteq Nat  BY DEF TailTypes
    <2>2. WindowStart(len[r]) \in Nat  BY DEF TailTypes, WindowStart
    <2> QED BY <1>3, <2>1, <2>2 DEF TailDecode, TailTypes
  <1>4. ASSUME NEW r \in Requests, TailRetract(r)  PROVE TailTypes'
    BY <1>4 DEF TailRetract, TailTypes
  <1>5. ASSUME NEW r \in Requests, TailFinish(r)  PROVE TailTypes'
    BY <1>5 DEF TailFinish, TailTypes
  <1>6. ASSUME NEW r \in Requests, TailResult(r)  PROVE TailTypes'
    BY <1>6 DEF TailResult, TailTypes
  <1>7. CASE UNCHANGED tailVars  BY <1>7 DEF tailVars, TailTypes
  <1> QED BY <1>1, <1>2, <1>3, <1>4, <1>5, <1>6, <1>7 DEF TailNext

----------------------------------------------------------------------------
LEMMA LaggingInit == TailInit => Lagging
  BY DEF TailInit, Lagging

LEMMA LaggingStep == TailTypes /\ Lagging /\ [TailNext]_tailVars => Lagging'
  <1> SUFFICES ASSUME TailTypes, Lagging, [TailNext]_tailVars  PROVE Lagging'
    OBVIOUS
  <1> USE TailAssumption
  <1>1. ASSUME NEW r \in Requests, NEW n \in 1..MaxTokens, NEW c \in 0..MaxTokens, TailAdmit(r, n, c)
        PROVE  Lagging'
    BY <1>1 DEF TailAdmit, TailTypes, Lagging
  <1>2. ASSUME NEW B \in SUBSET Requests, NEW chunk \in [B -> 1..ChunkedPrefillSize], TailExtend(B, chunk)
        PROVE  Lagging'
    <2>1. /\ steps' = steps /\ seqlen' = seqlen
          /\ \A x \in Requests \ B : len'[x] = len[x] /\ phase'[x] = phase[x] /\ reading'[x] = reading[x]
      BY <1>2 DEF TailExtend
    <2>2. ASSUME NEW x \in B
          PROVE  /\ phase[x] = "prefill" /\ chunk[x] \in Nat /\ len'[x] = len[x] + chunk[x]
                 /\ phase'[x] = "decode" => len[x] + chunk[x] >= seqlen[x]
      BY <1>2, <2>2 DEF TailExtend, Final
    <2>3. \A x \in B : steps[x] = 0  BY <2>2 DEF Lagging
    <2>4. \A x \in Requests : seqlen[x] \in Nat /\ len[x] \in Nat  BY DEF TailTypes
    <2>5. \A x \in B : phase'[x] = "decode" => seqlen'[x] - 1 <= len'[x]  BY <2>1, <2>2, <2>4
    <2> QED BY <2>1, <2>3, <2>5 DEF Lagging
  <1>3. ASSUME NEW r \in Requests, NEW k \in 1..Draft, NEW a \in 1..Draft, NEW e \in 0..MaxTokens,
               TailDecode(r, k, a, e)
        PROVE  Lagging'
    <2>1. len[r] \in Nat /\ a \in Nat /\ a >= 1  BY DEF TailTypes
    <2>2. /\ len'[r] = len[r] + a /\ seqlen'[r] = len[r] + 1 /\ reading'[r] = WindowStart(len[r])
          /\ phase' = phase /\ phase[r] = "decode"
          /\ \A x \in Requests : x # r => /\ len'[x] = len[x] /\ seqlen'[x] = seqlen[x]
                                          /\ steps'[x] = steps[x] /\ reading'[x] = reading[x]
      BY <1>3 DEF TailDecode, TailTypes
    <2>3. len[r] + 1 - Window <= WindowStart(len[r])  BY <2>1 DEF WindowStart
    <2>4. seqlen'[r] - 1 <= len'[r] /\ seqlen'[r] - Window <= reading'[r]  BY <2>1, <2>2, <2>3
    <2> QED BY <2>2, <2>4 DEF Lagging
  <1>4. ASSUME NEW r \in Requests, TailRetract(r)  PROVE Lagging'
    BY <1>4 DEF TailRetract, TailTypes, Lagging
  <1>5. ASSUME NEW r \in Requests, TailFinish(r)  PROVE Lagging'
    BY <1>5 DEF TailFinish, TailTypes, Lagging
  <1>6. ASSUME NEW r \in Requests, TailResult(r)  PROVE Lagging'
    BY <1>6 DEF TailResult, TailTypes, Lagging
  <1>7. CASE UNCHANGED tailVars  BY <1>7 DEF tailVars, Lagging
  <1> QED BY <1>1, <1>2, <1>3, <1>4, <1>5, <1>6, <1>7 DEF TailNext

----------------------------------------------------------------------------
\* Where an extended request was covered and the tail of its chunk was run,
\* it is covered again: short chunks lean on what was there before.
LEMMA ChunkCovers ==
  ASSUME NEW n \in Nat, NEW c \in Nat, NEW e \in Nat, NEW S \in SUBSET Nat, NEW W \in Nat,
         LastPositions(n, W) \subseteq S \cup 0..(e - 1)
  PROVE  LastPositions(n + c, W) \subseteq S \cup LastPositions(n + c, IF c < W THEN c ELSE W) \cup 0..(e - 1)
  <1> SUFFICES ASSUME NEW p \in LastPositions(n + c, W), p \notin LastPositions(n + c, IF c < W THEN c ELSE W)
               PROVE  p \in S \cup 0..(e - 1)
    OBVIOUS
  <1>1. p \in Nat /\ p < n + c /\ p >= n + c - W  BY DEF LastPositions
  <1>2. p < n  BY <1>1 DEF LastPositions
  <1>3. p \in LastPositions(n, W)  BY <1>1, <1>2 DEF LastPositions
  <1> QED BY <1>3

LEMMA CoversInit == TailInit => TailCovers
  BY DEF TailInit, TailCovers

LEMMA CoversStep ==
  ASSUME ~SkipNonfinal, TailTypes, Lagging, TailCovers, [TailNext]_tailVars
  PROVE  TailCovers'
  <1> USE TailAssumption
  <1>1. ASSUME NEW r \in Requests, NEW n \in 1..MaxTokens, NEW c \in 0..MaxTokens, TailAdmit(r, n, c)
        PROVE  TailCovers'
    <2>1. /\ len'[r] = c /\ late'[r] = LastPositions(c, Window) /\ evicted'[r] = 0
          /\ \A x \in Requests : x # r => /\ len'[x] = len[x] /\ late'[x] = late[x]
                                          /\ evicted'[x] = evicted[x] /\ phase'[x] = phase[x]
      BY <1>1 DEF TailAdmit, TailTypes
    <2> QED BY <2>1 DEF TailCovers
  <1>2. ASSUME NEW B \in SUBSET Requests, NEW chunk \in [B -> 1..ChunkedPrefillSize], TailExtend(B, chunk)
        PROVE  TailCovers'
    <2> SUFFICES ASSUME NEW x \in Requests, phase'[x] # "idle"
                 PROVE  /\ LastPositions(len'[x], Window) \subseteq late'[x] \cup 0..(evicted'[x] - 1)
                        /\ evicted'[x] = 0 \/ evicted'[x] <= len'[x] - Window
      BY DEF TailCovers
    <2>1. TailRequests(B, chunk) = B  BY DEF TailRequests
    <2>2. evicted' = evicted  BY <1>2 DEF TailExtend
    <2>3. CASE x \in B
      <3>1. chunk[x] \in Nat /\ len[x] \in Nat /\ evicted[x] \in Nat /\ late[x] \in SUBSET Nat
        BY <2>3 DEF TailTypes
      <3>2. /\ LastPositions(len[x], Window) \subseteq late[x] \cup 0..(evicted[x] - 1)
            /\ evicted[x] = 0 \/ evicted[x] <= len[x] - Window
        BY <1>2, <2>3 DEF TailExtend, TailCovers
      <3>3. late'[x] = late[x] \cup LastPositions(len[x] + chunk[x], IF chunk[x] < Window THEN chunk[x] ELSE Window)
        BY <1>2, <2>1, <2>3 DEF TailExtend
      <3>4. len'[x] = len[x] + chunk[x]  BY <1>2, <2>3 DEF TailExtend
      <3>5. LastPositions(len[x] + chunk[x], Window)
               \subseteq late[x] \cup LastPositions(len[x] + chunk[x], IF chunk[x] < Window THEN chunk[x] ELSE Window)
                         \cup 0..(evicted[x] - 1)
        BY <3>1, <3>2, ChunkCovers
      <3> QED BY <2>2, <3>1, <3>2, <3>3, <3>4, <3>5
    <2>4. CASE x \notin B
      <3>1. len'[x] = len[x] /\ late'[x] = late[x] /\ phase'[x] = phase[x]
        BY <1>2, <2>1, <2>4 DEF TailExtend
      <3> QED BY <2>2, <3>1 DEF TailCovers
    <2> QED BY <2>3, <2>4
  <1>3. ASSUME NEW r \in Requests, NEW k \in 1..Draft, NEW a \in 1..Draft, NEW e \in 0..MaxTokens,
               TailDecode(r, k, a, e)
        PROVE  TailCovers'
    <2>1. len[r] \in Nat /\ evicted[r] \in Nat /\ late[r] \in SUBSET Nat /\ a \in Nat /\ e \in Nat /\ seqlen[r] \in Nat
      BY DEF TailTypes
    <2>2. /\ LastPositions(len[r], Window) \subseteq late[r] \cup 0..(evicted[r] - 1)
          /\ evicted[r] = 0 \/ evicted[r] <= len[r] - Window
          /\ seqlen[r] - 1 <= len[r]
      BY <1>3 DEF TailDecode, TailCovers, Lagging
    <2>3. evicted[r] <= e /\ (e = 0 \/ e <= len[r] - Window)
      BY <1>3, <2>1, <2>2 DEF TailDecode, EvictCursors
    <2>4. /\ len'[r] = len[r] + a /\ evicted'[r] = e
          /\ late'[r] = {p \in late[r] : p >= e} \cup (len[r]..(len[r] + a - 1))
          /\ \A x \in Requests : x # r => /\ len'[x] = len[x] /\ late'[x] = late[x]
                                          /\ evicted'[x] = evicted[x] /\ phase'[x] = phase[x]
      BY <1>3 DEF TailDecode, TailTypes
    <2>5. LastPositions(len[r] + a, Window) \subseteq late'[r] \cup 0..(e - 1)
      <3> SUFFICES ASSUME NEW p \in LastPositions(len[r] + a, Window), ~(p < e)
                   PROVE  p \in late'[r]
        BY <2>1 DEF LastPositions
      <3>1. p \in Nat /\ p < len[r] + a /\ p >= len[r] + a - Window  BY <2>1 DEF LastPositions
      <3>2. CASE p >= len[r]  BY <2>1, <2>4, <3>1, <3>2
      <3>3. CASE p < len[r]
        <4>1. p \in LastPositions(len[r], Window)  BY <2>1, <3>1, <3>3 DEF LastPositions
        <4>2. p \in late[r]  BY <2>1, <2>2, <2>3, <4>1
        <4> QED BY <2>4, <3>1, <4>2
      <3> QED BY <2>1, <3>1, <3>2, <3>3
    <2> QED BY <2>1, <2>3, <2>4, <2>5 DEF TailCovers
  <1>4. ASSUME NEW r \in Requests, TailRetract(r)  PROVE TailCovers'
    <2>1. /\ len'[r] = 0 /\ evicted'[r] = 0
          /\ \A x \in Requests : x # r => /\ len'[x] = len[x] /\ late'[x] = late[x]
                                          /\ evicted'[x] = evicted[x] /\ phase'[x] = phase[x]
      BY <1>4 DEF TailRetract, TailTypes
    <2>2. LastPositions(0, Window) = {}  BY DEF LastPositions
    <2> QED BY <2>1, <2>2 DEF TailCovers
  <1>5. ASSUME NEW r \in Requests, TailFinish(r)  PROVE TailCovers'
    <2>1. /\ UNCHANGED <<len, late, evicted>> /\ phase'[r] = "idle"
          /\ \A x \in Requests : x # r => phase'[x] = phase[x]
      BY <1>5 DEF TailFinish, TailTypes
    <2> QED BY <2>1 DEF TailCovers
  <1>6. ASSUME NEW r \in Requests, TailResult(r)  PROVE TailCovers'
    BY <1>6 DEF TailResult, TailCovers
  <1>7. CASE UNCHANGED tailVars  BY <1>7 DEF tailVars, TailCovers
  <1> QED BY <1>1, <1>2, <1>3, <1>4, <1>5, <1>6, <1>7 DEF TailNext

(* WindowWritten for every window, chunk size, number of drafts and        *)
(* eviction interval, with DSV41_SKIP_NONFINAL_DECODER off: whatever  *)
(* the chunks, retractions and evictions, decode reads only positions that *)
(* the late layers wrote and that are still held.                          *)
THEOREM WindowAlwaysWritten ==
  ASSUME ~SkipNonfinal
  PROVE  TailSpec => []WindowWritten
  <1>1. TailTypes /\ TailCovers => WindowWritten
    <2> SUFFICES ASSUME TailTypes, TailCovers, NEW r \in Requests, phase[r] = "decode",
                        NEW p \in LastPositions(len[r], Window - 1)
                 PROVE  p \in late[r]
      BY DEF WindowWritten
    <2>1. len[r] \in Nat /\ evicted[r] \in Nat /\ Window \in Nat  BY TailAssumption DEF TailTypes
    <2>2. p \in Nat /\ p < len[r] /\ p >= len[r] - (Window - 1)  BY <2>1 DEF LastPositions
    <2>3. p \in LastPositions(len[r], Window)  BY <2>1, <2>2 DEF LastPositions
    <2>4. evicted[r] = 0 \/ evicted[r] <= len[r] - Window  BY DEF TailCovers
    <2>5. p \notin 0..(evicted[r] - 1)  BY <2>1, <2>2, <2>4
    <2> QED BY <2>3, <2>5 DEF TailCovers
  <1>2. TailTypes /\ Lagging /\ TailCovers /\ [TailNext]_tailVars => TailTypes' /\ Lagging' /\ TailCovers'
    BY TailTypesStep, LaggingStep, CoversStep
  <1> QED BY <1>1, <1>2, TailTypesInit, LaggingInit, CoversInit, PTL DEF TailSpec

----------------------------------------------------------------------------
(* NothingInUseEvicted for the same constants, with the switch on or off,  *)
(* and whatever caps the eviction keeps to besides the window: while the   *)
(* scheduler runs a step ahead, it gives back no slot that the forward in  *)
(* flight reads (maybe_evict_swa).                                         *)
THEOREM NothingInUseIsEvicted == TailSpec => NothingInUseEvicted
  <1>1. TailTypes /\ Lagging /\ [TailNext]_tailVars =>
          [\A r \in Requests : evicted'[r] > evicted[r] => evicted'[r] <= reading[r]]_tailVars
    <2> SUFFICES ASSUME TailTypes, Lagging, TailNext, NEW r \in Requests, evicted'[r] > evicted[r]
                 PROVE  evicted'[r] <= reading[r]
      OBVIOUS
    <2> USE TailAssumption
    <2>1. evicted \in [Requests -> Nat] /\ seqlen[r] \in Nat /\ reading[r] \in Nat  BY DEF TailTypes
    <2>2. PICK x \in Requests, k, a \in 1..Draft, e \in 0..MaxTokens : TailDecode(x, k, a, e)
      <3>1. ASSUME NEW x \in Requests, NEW n \in 1..MaxTokens, NEW c \in 0..MaxTokens, TailAdmit(x, n, c)
            PROVE  FALSE
        BY <2>1, <3>1 DEF TailAdmit
      <3>2. ASSUME NEW B \in SUBSET Requests, NEW chunk \in [B -> 1..ChunkedPrefillSize], TailExtend(B, chunk)
            PROVE  FALSE
        BY <2>1, <3>2 DEF TailExtend
      <3>3. ASSUME NEW x \in Requests, TailResult(x) \/ TailRetract(x) \/ TailFinish(x)
            PROVE  FALSE
        BY <2>1, <3>3 DEF TailResult, TailRetract, TailFinish
      <3> QED BY <3>1, <3>2, <3>3 DEF TailNext
    <2>3. x = r /\ e = evicted'[r] /\ e \in EvictCursors(r) /\ phase[r] = "decode"
      BY <2>1, <2>2 DEF TailDecode
    <2>4. steps[r] = 1 /\ e <= seqlen[r] - 1 - Window
      BY <2>1, <2>3 DEF EvictCursors, TailTypes
    <2>5. seqlen[r] - Window <= reading[r]  BY <2>3, <2>4 DEF Lagging
    <2> QED BY <2>1, <2>3, <2>4, <2>5
  <1>2. TailTypes /\ Lagging /\ [TailNext]_tailVars => TailTypes' /\ Lagging'
    BY TailTypesStep, LaggingStep
  <1> QED BY <1>1, <1>2, TailTypesInit, LaggingInit, PTL DEF TailSpec, NothingInUseEvicted
=============================================================================
