----------------------------- MODULE RowMoveProofs -----------------------------
(***************************************************************************)
(* The rows of a Split or Join arrive whole.  The inductive invariant:     *)
(*                                                                         *)
(*   Typed      types, and the capacities of the channels                  *)
(*   LensInv    sources only grow, and stay below 2^64 rows together       *)
(*   PlanInv    the imports are those of the lengths probed                *)
(*   ExportInv  a running export is that of the part in hand, or nobody's  *)
(*   FitInv     a range that was exported was in range                     *)
(*   MadeInv    the indexes made are the first ones planned                *)
(*   FlowInv    the target's rows, then the blocks on their way, are       *)
(*              consecutive stretches of the rows planned, up to the row   *)
(*              the export has reached unless the producer failed          *)
(*   ReasonInv  nothing fails without a fault or a bad request             *)
(*                                                                         *)
(* What recursive functions compute (Total, FlattenSeq) is proved from the *)
(* least argument at which it would be wrong.                              *)
(***************************************************************************)
EXTENDS RowMove, SequenceTheorems, WellFoundedInduction, TLAPS

--------------------------------------------------------------------------------
(* Sequences.                                                                *)

LEMMA LeastElement ==
  ASSUME NEW S \in SUBSET Nat, S # {}
  PROVE \E m \in S : \A k \in S : m <= k
<1> DEFINE R == {ss \in Nat \X Nat : ss[1] < ss[2]}
<1>1. IsWellFoundedOn(R, Nat)
  BY NatLessThanWellFounded DEF OpToRel
<1>2. \E x \in S : \A y \in S : ~ (<<y, x>> \in R)
  <2> HIDE DEF R
  <2> QED BY <1>1, WFMin, Zenon
<1>3. PICK x \in S : \A y \in S : ~ (<<y, x>> \in R)
  BY <1>2
<1>4. ASSUME NEW y \in S PROVE x <= y
  <2>1. <<y, x>> \notin R
    BY <1>3
  <2>2. ~ (y < x)
    BY <2>1
  <2> QED
    BY <2>2
<1> QED
  BY <1>4

\* FlattenSeq appends the sequences one by one.
LEMMA FlattenSteps ==
  ASSUME NEW S, NEW seqs \in Seq(Seq(S)), seqs # <<>>
  PROVE \E f \in [1..Len(seqs) -> Seq(S)] :
          /\ FlattenSeq(seqs) = f[Len(seqs)] /\ f[1] = seqs[1]
          /\ \A i \in 2..Len(seqs) : f[i] = f[i - 1] \o seqs[i]
<1> DEFINE N == Len(seqs)
           Flat(f, n) == \A i \in 1..n :
                           f[i] = IF i = 1 THEN seqs[i] ELSE f[i - 1] \o seqs[i]
           IsFlat(n) == \E f \in [1..n -> Seq(S)] : Flat(f, n)
<1>1. N \in Nat /\ N > 0 /\ \A i \in 1..N : seqs[i] \in Seq(S)
  OBVIOUS
<1>2. IsFlat(1)
  <2>1. [i \in 1..1 |-> seqs[i]] \in [1..1 -> Seq(S)]
    BY <1>1
  <2>2. Flat([i \in 1..1 |-> seqs[i]], 1)
    OBVIOUS
  <2> QED
    BY <2>1, <2>2
<1>3. ASSUME NEW n \in Nat, n > 0, n < N, IsFlat(n) PROVE IsFlat(n + 1)
  <2>1. PICK f \in [1..n -> Seq(S)] : Flat(f, n)
    BY <1>3
  <2> DEFINE g == [i \in 1..(n + 1) |-> IF i <= n THEN f[i] ELSE f[n] \o seqs[i]]
  <2>2. f[n] \o seqs[n + 1] \in Seq(S)
    BY <1>1, <1>3, <2>1
  <2>3. g \in [1..(n + 1) -> Seq(S)]
    BY <1>3, <2>1, <2>2
  <2>4. ASSUME NEW i \in 1..(n + 1)
        PROVE g[i] = IF i = 1 THEN seqs[i] ELSE g[i - 1] \o seqs[i]
    <3>1. \A k \in 1..n : g[k] = f[k]
      BY <1>3
    <3>2. CASE i = 1
      <4> 1 \in 1..n
        BY <1>3
      <4> QED BY <2>1, <3>1, <3>2
    <3>3. CASE i # 1 /\ i <= n
      <4> i \in 1..n /\ i - 1 \in 1..n
        BY <1>3, <3>3
      <4> QED
        BY <2>1, <3>1, <3>3
    <3>4. CASE i = n + 1
      <4>1. i - 1 = n /\ n \in 1..n /\ i \in 1..(n + 1) /\ ~(i <= n) /\ i # 1
        BY <1>3, <3>4
      <4>2. g[i] = f[n] \o seqs[i]
        BY <4>1
      <4> QED
        BY <3>1, <4>1, <4>2
    <3> QED
      BY <1>3, <3>2, <3>3, <3>4
  <2>5. Flat(g, n + 1)
    <3> HIDE DEF g
    <3> QED BY <2>4
  <2> QED
    BY <2>3, <2>5
<1>4. IsFlat(N)
  <2> DEFINE Bad == {n \in 1..N : ~IsFlat(n)}
  <2> HIDE DEF IsFlat
  <2> SUFFICES ASSUME Bad # {} PROVE FALSE
    BY <1>1
  <2>1. PICK m \in Bad : \A k \in Bad : m <= k
    <3> Bad \in SUBSET Nat
      BY <1>1
    <3> QED BY LeastElement
  <2>2. m \in Nat /\ m > 1 /\ m <= N
    BY <2>1, <1>1, <1>2
  <2>3. IsFlat(m - 1)
    BY <2>1, <2>2
  <2>4. m - 1 \in Nat /\ m - 1 > 0 /\ m - 1 < N /\ (m - 1) + 1 = m
    BY <1>1, <2>2
  <2>5. IsFlat((m - 1) + 1)
    BY <1>3, <2>3, <2>4
  <2> QED
    BY <2>1, <2>4, <2>5
<1> DEFINE Def(f) == [i \in 1..N |-> IF i = 1 THEN seqs[i] ELSE f[i - 1] \o seqs[i]]
           flatten == CHOOSE f : f = Def(f)
<1>5. flatten = Def(flatten)
  <2>1. PICK f \in [1..N -> Seq(S)] : Flat(f, N)
    BY <1>4
  <2>2. f = Def(f)
    BY <2>1
  <2> QED
    BY <2>2
<1>6. \A i \in 1..N : flatten[i] = IF i = 1 THEN seqs[i] ELSE flatten[i - 1] \o seqs[i]
  <2> HIDE DEF flatten
  <2> QED
    BY <1>5
<1>7. \A n \in 1..N : flatten[n] \in Seq(S)
  <2> DEFINE Bad == {n \in 1..N : flatten[n] \notin Seq(S)}
  <2> HIDE DEF flatten
  <2> SUFFICES ASSUME Bad # {} PROVE FALSE
    OBVIOUS
  <2>1. PICK m \in Bad : \A k \in Bad : m <= k
    <3> Bad \in SUBSET Nat
      BY <1>1
    <3> QED BY LeastElement
  <2>2. m \in 1..N /\ m # 1
    <3>1. flatten[1] = seqs[1] /\ seqs[1] \in Seq(S)
      BY <1>1, <1>6
    <3> QED
      BY <2>1, <3>1
  <2>3. m - 1 \in 1..N /\ m - 1 < m
    BY <2>2, <1>1
  <2>4. flatten[m - 1] \in Seq(S)
    BY <2>1, <2>3
  <2>5. flatten[m] = flatten[m - 1] \o seqs[m]
    BY <1>6, <2>2
  <2>6. flatten[m] \in Seq(S)
    BY <1>1, <2>2, <2>4, <2>5
  <2> QED
    BY <2>1, <2>6
<1>8. FlattenSeq(seqs) = flatten[N]
  BY <1>1 DEF FlattenSeq
<1> HIDE DEF flatten
<1> DEFINE f == [n \in 1..N |-> flatten[n]]
<1>9. f \in [1..N -> Seq(S)] /\ \A n \in 1..N : f[n] = flatten[n]
  BY <1>7
<1>10. f[1] = seqs[1] /\ f[N] = FlattenSeq(seqs)
  BY <1>1, <1>6, <1>8, <1>9
<1>11. ASSUME NEW n \in 2..N PROVE f[n] = f[n - 1] \o seqs[n]
  <2>1. n \in 1..N /\ n - 1 \in 1..N /\ n # 1
    BY <1>1
  <2>2. flatten[n] = flatten[n - 1] \o seqs[n]
    BY <1>6, <2>1
  <2> QED
    BY <1>9, <2>1, <2>2
<1> HIDE DEF f
<1> QED
  BY <1>9, <1>10, <1>11

LEMMA FlattenSeqType ==
  ASSUME NEW S, NEW seqs \in Seq(Seq(S)), seqs # <<>>
  PROVE FlattenSeq(seqs) \in Seq(S)
<1>1. PICK f \in [1..Len(seqs) -> Seq(S)] : FlattenSeq(seqs) = f[Len(seqs)]
  BY FlattenSteps
<1>2. Len(seqs) \in 1..Len(seqs)
  OBVIOUS
<1>3. f[Len(seqs)] \in Seq(S)
  BY <1>2
<1> QED
  BY <1>1, <1>3


--------------------------------------------------------------------------------
(* Sums.                                                                     *)

LEMMA TotalSteps ==
  ASSUME NEW c \in Seq(Nat)
  PROVE \E f \in [0..Len(c) -> Nat] :
          /\ f[0] = 0 /\ Total(c) = f[Len(c)]
          /\ \A n \in 1..Len(c) : f[n] = f[n - 1] + c[n]
<1> DEFINE N == Len(c)
           Sums(f, n) == \A i \in 0..n : f[i] = IF i = 0 THEN 0 ELSE f[i - 1] + c[i]
           HasSums(n) == \E f \in [0..n -> Nat] : Sums(f, n)
<1>1. N \in Nat /\ \A i \in 1..N : c[i] \in Nat
  OBVIOUS
<1>2. HasSums(0)
  <2>1. [i \in 0..0 |-> 0] \in [0..0 -> Nat] /\ Sums([i \in 0..0 |-> 0], 0)
    OBVIOUS
  <2> QED
    BY <2>1
<1>3. ASSUME NEW n \in Nat, n < N, HasSums(n) PROVE HasSums(n + 1)
  <2>1. PICK f \in [0..n -> Nat] : Sums(f, n)
    BY <1>3
  <2> DEFINE g == [i \in 0..(n + 1) |-> IF i <= n THEN f[i] ELSE f[n] + c[n + 1]]
  <2>2. n + 1 \in 1..N /\ f[n] \in Nat /\ c[n + 1] \in Nat
    BY <1>1, <1>3
  <2>3. g \in [0..(n + 1) -> Nat]
    BY <1>3, <2>1, <2>2
  <2>4. ASSUME NEW i \in 0..(n + 1) PROVE g[i] = IF i = 0 THEN 0 ELSE g[i - 1] + c[i]
    <3>1. \A k \in 0..n : g[k] = f[k]
      BY <1>3
    <3>2. g[n + 1] = f[n] + c[n + 1]
      BY <1>3
    <3>3. CASE i = n + 1
      <4>1. i # 0 /\ i - 1 = n /\ n \in 0..n
        BY <1>3, <3>3
      <4> HIDE DEF g
      <4> QED
        BY <3>1, <3>2, <3>3, <4>1
    <3>4. CASE i \in 0..n
      <4>1. i = 0 \/ i - 1 \in 0..n
        BY <1>3, <3>4
      <4> HIDE DEF g
      <4> QED
        BY <2>1, <3>1, <3>4, <4>1
    <3> QED
      BY <1>3, <3>3, <3>4
  <2>5. Sums(g, n + 1)
    <3> HIDE DEF g
    <3> QED
      BY <2>4
  <2> QED
    BY <2>3, <2>5
<1>4. HasSums(N)
  <2> DEFINE Bad == {n \in 0..N : ~HasSums(n)}
  <2> HIDE DEF HasSums
  <2> SUFFICES ASSUME Bad # {} PROVE FALSE
    BY <1>1
  <2>1. PICK m \in Bad : \A k \in Bad : m <= k
    <3> Bad \in SUBSET Nat
      BY <1>1
    <3> QED BY LeastElement
  <2>2. m \in Nat /\ m > 0 /\ m <= N
    BY <2>1, <1>1, <1>2
  <2>3. HasSums(m - 1) /\ m - 1 \in Nat /\ m - 1 < N /\ (m - 1) + 1 = m
    BY <2>1, <2>2, <1>1
  <2>4. HasSums((m - 1) + 1)
    BY <1>3, <2>3
  <2> QED
    BY <2>1, <2>3, <2>4
<1> DEFINE Def(f) == [i \in 0..N |-> IF i = 0 THEN 0 ELSE f[i - 1] + c[i]]
           sum == CHOOSE f : f = Def(f)
<1>5. PICK f \in [0..N -> Nat] : Sums(f, N)
  BY <1>4
<1>6. sum = Def(sum)
  <2>1. f = Def(f)
    BY <1>5
  <2> QED
    BY <2>1
<1>7. \A i \in 0..N : sum[i] = IF i = 0 THEN 0 ELSE sum[i - 1] + c[i]
  <2> HIDE DEF sum
  <2> QED
    BY <1>6
<1>8. Total(c) = sum[N]
  BY DEF Total
<1> HIDE DEF sum
<1>9. \A i \in 0..N : sum[i] = f[i]
  <2> DEFINE Bad == {n \in 0..N : sum[n] # f[n]}
  <2> SUFFICES ASSUME Bad # {} PROVE FALSE
    OBVIOUS
  <2>1. PICK m \in Bad : \A k \in Bad : m <= k
    <3> Bad \in SUBSET Nat
      BY <1>1
    <3> QED BY LeastElement
  <2>2. m \in 0..N /\ m # 0
    <3>1. 0 \in 0..N
      BY <1>1
    <3>2. sum[0] = 0 /\ f[0] = 0
      BY <1>5, <1>7, <3>1
    <3> QED
      BY <2>1, <3>2
  <2>3. m - 1 \in 0..N /\ m - 1 < m
    BY <1>1, <2>2
  <2>4. sum[m - 1] = f[m - 1]
    BY <2>1, <2>3
  <2>5. sum[m] = sum[m - 1] + c[m] /\ f[m] = f[m - 1] + c[m]
    BY <1>5, <1>7, <2>2
  <2> QED
    BY <2>1, <2>4, <2>5
<1>10. f[0] = 0 /\ Total(c) = f[N] /\ \A n \in 1..N : f[n] = f[n - 1] + c[n]
  <2>1. 0 \in 0..N /\ N \in 0..N /\ \A n \in 1..N : n \in 0..N /\ n # 0
    BY <1>1
  <2> QED
    BY <1>5, <1>8, <1>9, <2>1
<1> QED
  BY <1>10

\* A sum is what any function that adds one element after another arrives at.
LEMMA TotalIs ==
  ASSUME NEW c \in Seq(Nat), NEW f \in [0..Len(c) -> Nat], f[0] = 0,
         \A n \in 1..Len(c) : f[n] = f[n - 1] + c[n]
  PROVE Total(c) = f[Len(c)]
<1>1. PICK g \in [0..Len(c) -> Nat] :
        /\ g[0] = 0 /\ Total(c) = g[Len(c)]
        /\ \A n \in 1..Len(c) : g[n] = g[n - 1] + c[n]
  BY TotalSteps
<1>2. Len(c) \in Nat
  OBVIOUS
<1> DEFINE Bad == {n \in 0..Len(c) : g[n] # f[n]}
<1>3. Bad = {}
  <2> SUFFICES ASSUME Bad # {} PROVE FALSE
    OBVIOUS
  <2>1. PICK m \in Bad : \A k \in Bad : m <= k
    <3> Bad \in SUBSET Nat
      BY <1>2
    <3> QED BY LeastElement
  <2>2. m \in 1..Len(c) /\ m - 1 \in 0..Len(c) /\ m - 1 < m
    BY <1>1, <1>2, <2>1
  <2>3. g[m - 1] = f[m - 1]
    BY <2>1, <2>2
  <2> QED
    BY <1>1, <2>1, <2>2, <2>3
<1>4. Len(c) \in 0..Len(c)
  BY <1>2
<1> QED
  BY <1>1, <1>3, <1>4

\* The sum of the first n.
Upto(c, n) == Total(SubSeq(c, 1, n))

LEMMA UptoIs ==
  ASSUME NEW c \in Seq(Nat)
  PROVE /\ Upto(c, 0) = 0 /\ Upto(c, Len(c)) = Total(c) /\ Total(c) \in Nat
        /\ \A n \in 0..Len(c) : Upto(c, n) \in Nat
        /\ \A n \in 1..Len(c) : Upto(c, n) = Upto(c, n - 1) + c[n]
<1>1. PICK f \in [0..Len(c) -> Nat] :
        /\ f[0] = 0 /\ Total(c) = f[Len(c)]
        /\ \A n \in 1..Len(c) : f[n] = f[n - 1] + c[n]
  BY TotalSteps
<1>2. Len(c) \in Nat /\ Len(c) \in 0..Len(c) /\ 0 \in 0..Len(c)
  OBVIOUS
<1>3. ASSUME NEW n \in 0..Len(c) PROVE Upto(c, n) = f[n]
  <2> DEFINE s == SubSeq(c, 1, n)
             g == [i \in 0..n |-> f[i]]
  <2>1. s \in Seq(Nat) /\ Len(s) = n /\ \A i \in 1..n : s[i] = c[i]
    BY <1>2
  <2>2. g \in [0..n -> Nat] /\ g[0] = 0 /\ g[n] = f[n]
    BY <1>1, <1>2
  <2>3. ASSUME NEW i \in 1..n PROVE g[i] = g[i - 1] + s[i]
    <3>1. i \in 0..n /\ i - 1 \in 0..n /\ i \in 1..Len(c)
      BY <1>2
    <3>2. g[i] = f[i] /\ g[i - 1] = f[i - 1]
      BY <3>1
    <3> HIDE DEF g, s
    <3> QED
      BY <1>1, <2>1, <3>1, <3>2
  <2> HIDE DEF g, s
  <2>4. Total(s) = g[n]
    BY <2>1, <2>2, <2>3, TotalIs
  <2> QED
    BY <2>2, <2>4 DEF Upto, s
<1>4. \A n \in 1..Len(c) : n \in 0..Len(c) /\ n - 1 \in 0..Len(c)
  BY <1>2
<1> QED
  BY <1>1, <1>2, <1>3, <1>4

LEMMA UptoGrows ==
  ASSUME NEW c \in Seq(Nat), NEW i \in 0..Len(c), NEW j \in i..Len(c)
  PROVE Upto(c, i) <= Upto(c, j)
<1> DEFINE Bad == {n \in i..Len(c) : ~(Upto(c, i) <= Upto(c, n))}
<1>1. Len(c) \in Nat
  OBVIOUS
<1> SUFFICES ASSUME Bad # {} PROVE FALSE
  OBVIOUS
<1>2. PICK m \in Bad : \A k \in Bad : m <= k
  <2> Bad \in SUBSET Nat
    BY <1>1
  <2> QED BY LeastElement
<1>3. m # i
  <2>1. Upto(c, i) \in Nat
    BY UptoIs
  <2> QED
    BY <1>2, <2>1
<1>4. m \in 1..Len(c) /\ m - 1 \in i..Len(c) /\ m - 1 \in 0..Len(c) /\ m - 1 < m
  BY <1>1, <1>2, <1>3
<1>5. Upto(c, i) <= Upto(c, m - 1)
  BY <1>2, <1>4
<1>6. Upto(c, m) = Upto(c, m - 1) + c[m] /\ Upto(c, m - 1) \in Nat /\ c[m] \in Nat
  BY SMTT(30), <1>4, UptoIs
<1>7. Upto(c, i) \in Nat
  BY UptoIs
<1> QED
  BY <1>2, <1>5, <1>6, <1>7

\* Every place of the whole is in one of the pieces.
LEMMA UptoCovers ==
  ASSUME NEW c \in Seq(Nat), NEW m \in 1..Total(c)
  PROVE \E j \in 1..Len(c) : \E n \in 1..c[j] : m = Upto(c, j - 1) + n
<1> DEFINE Past == {j \in 0..Len(c) : m <= Upto(c, j)}
<1>1. Len(c) \in Nat /\ Total(c) \in Nat
  BY UptoIs
<1>2. Len(c) \in Past /\ Past \in SUBSET Nat
  BY <1>1, UptoIs
<1>3. PICK j \in Past : \A k \in Past : j <= k
  BY <1>2, LeastElement
<1>4. j # 0
  BY <1>3, UptoIs
<1>5. j \in 1..Len(c) /\ j - 1 \in 0..Len(c) /\ j - 1 < j
  BY <1>1, <1>3, <1>4
<1>6. Upto(c, j) = Upto(c, j - 1) + c[j] /\ Upto(c, j - 1) \in Nat /\ c[j] \in Nat
  BY <1>5, UptoIs
<1>7. ~(m <= Upto(c, j - 1)) /\ m <= Upto(c, j)
  BY <1>3, <1>5
<1> DEFINE n == m - Upto(c, j - 1)
<1>8. n \in 1..c[j] /\ m = Upto(c, j - 1) + n
  BY <1>6, <1>7
<1> QED
  BY <1>5, <1>8

\* A sum is bounded when every prefix that ends in something is.
LEMMA TotalBounded ==
  ASSUME NEW c \in Seq(Nat), NEW B \in Nat,
         \A j \in 1..Len(c) : c[j] > 0 => Upto(c, j) <= B
  PROVE Total(c) <= B
<1> DEFINE Bad == {j \in 0..Len(c) : ~(Upto(c, j) <= B)}
<1>1. Len(c) \in Nat /\ Len(c) \in 0..Len(c) /\ Upto(c, Len(c)) = Total(c)
  BY UptoIs
<1> SUFFICES ASSUME Bad # {} PROVE FALSE
  BY <1>1
<1>2. PICK m \in Bad : \A k \in Bad : m <= k
  <2> Bad \in SUBSET Nat
    BY <1>1
  <2> QED BY LeastElement
<1>3. m # 0
  BY <1>2, UptoIs
<1>4. m \in 1..Len(c) /\ m - 1 \in 0..Len(c) /\ m - 1 < m
  BY <1>1, <1>2, <1>3
<1>5. Upto(c, m - 1) <= B
  BY <1>2, <1>4
<1>6. Upto(c, m) = Upto(c, m - 1) + c[m] /\ Upto(c, m - 1) \in Nat /\ c[m] \in Nat
  BY <1>4, UptoIs
<1> QED
  BY <1>2, <1>4, <1>5, <1>6

LEMMA TotalOfOneMore ==
  ASSUME NEW c \in Seq(Nat), NEW s \in 1..Len(c)
  PROVE Total([c EXCEPT ![s] = @ + 1]) = Total(c) + 1
<1> DEFINE d == [c EXCEPT ![s] = @ + 1]
           f == [n \in 0..Len(c) |-> Upto(c, n) + (IF n >= s THEN 1 ELSE 0)]
<1>1. d \in Seq(Nat) /\ Len(d) = Len(c) /\ Len(c) \in Nat
  OBVIOUS
<1>2. \A n \in 1..Len(c) : d[n] = IF n = s THEN c[n] + 1 ELSE c[n]
  OBVIOUS
<1>3. \A n \in 0..Len(c) : Upto(c, n) \in Nat
  BY UptoIs
<1>4. f \in [0..Len(c) -> Nat] /\ f[0] = 0
  BY <1>1, <1>3, UptoIs
<1>5. f[Len(c)] = Total(c) + 1
  BY <1>1, UptoIs
<1>6. ASSUME NEW n \in 1..Len(c) PROVE f[n] = f[n - 1] + d[n]
  <2>1. n \in 0..Len(c) /\ n - 1 \in 0..Len(c)
    BY <1>1
  <2>2. Upto(c, n) = Upto(c, n - 1) + c[n] /\ Upto(c, n - 1) \in Nat /\ c[n] \in Nat
    BY <2>1, UptoIs
  <2>3. f[n] = Upto(c, n) + (IF n >= s THEN 1 ELSE 0)
    BY <2>1
  <2>4. f[n - 1] = Upto(c, n - 1) + (IF n - 1 >= s THEN 1 ELSE 0)
    BY <2>1
  <2>5. d[n] = IF n = s THEN c[n] + 1 ELSE c[n]
    BY <1>2
  <2> HIDE DEF f, d
  <2> QED
    BY <2>1, <2>2, <2>3, <2>4, <2>5
<1> HIDE DEF d, f
<1>7. Total(d) = f[Len(d)]
  BY <1>1, <1>4, <1>6, TotalIs
<1> QED
  BY <1>1, <1>5, <1>7 DEF d

\* Even counts, the remainder over the first, add up to the whole.
LEMMA EvenTotal ==
  ASSUME NEW rows \in Nat, NEW t \in Nat \ {0}
  PROVE Total([j \in 1..t |-> rows \div t + (IF j <= rows % t THEN 1 ELSE 0)]) = rows
<1> DEFINE q == rows \div t
           r == rows % t
           c == [j \in 1..t |-> q + (IF j <= r THEN 1 ELSE 0)]
           f == [n \in 0..t |-> n * q + (IF n <= r THEN n ELSE r)]
<1>1. q \in Nat /\ r \in Nat /\ r < t /\ rows = t * q + r
  OBVIOUS
<1> HIDE DEF q, r
<1>2. c \in Seq(Nat) /\ Len(c) = t
  BY <1>1
<1>3. ASSUME NEW n \in Nat PROVE n * q \in Nat
  BY <1>1
<1>4. f \in [0..t -> Nat] /\ f[0] = 0
  BY <1>1, <1>3
<1>5. f[t] = rows
  BY <1>1
<1>6. ASSUME NEW n \in 1..t PROVE f[n] = f[n - 1] + c[n]
  <2>1. n * q = (n - 1) * q + q
    BY <1>1
  <2>2. f[n] = n * q + (IF n <= r THEN n ELSE r)
    OBVIOUS
  <2>3. f[n - 1] = (n - 1) * q + (IF n - 1 <= r THEN n - 1 ELSE r)
    OBVIOUS
  <2>4. c[n] = q + (IF n <= r THEN 1 ELSE 0)
    OBVIOUS
  <2>5. (n - 1) * q \in Nat
    BY <1>3
  <2> DEFINE p == (n - 1) * q
  <2> HIDE DEF f, c, p
  <2>6. p \in Nat /\ f[n] = p + q + (IF n <= r THEN n ELSE r)
        /\ f[n - 1] = p + (IF n - 1 <= r THEN n - 1 ELSE r)
    BY <2>1, <2>2, <2>3, <2>5 DEF p
  <2> QED
    BY <1>1, <2>4, <2>6
<1> HIDE DEF c, f
<1>7. Total(c) = f[Len(c)]
  BY <1>2, <1>4, <1>6, TotalIs
<1> QED
  BY <1>2, <1>5, <1>7 DEF c, q, r

--------------------------------------------------------------------------------
(* Where the rows of a part are among those of its import.                   *)

LEMMA FlattenLayout ==
  ASSUME NEW S, NEW seqs \in Seq(Seq(S)), seqs # <<>>,
         NEW c \in Seq(Nat), Len(c) = Len(seqs), \A j \in 1..Len(c) : c[j] = Len(seqs[j])
  PROVE /\ FlattenSeq(seqs) \in Seq(S) /\ Len(FlattenSeq(seqs)) = Total(c)
        /\ \A j \in 1..Len(c) : \A n \in 1..c[j] :
             FlattenSeq(seqs)[Upto(c, j - 1) + n] = seqs[j][n]
<1> DEFINE N == Len(seqs)
<1>1. N \in Nat /\ N > 0 /\ \A j \in 1..N : seqs[j] \in Seq(S) /\ c[j] \in Nat
  OBVIOUS
<1>0. Len(c) = N /\ \A j \in 1..N : c[j] = Len(seqs[j])
  OBVIOUS
<1>2. PICK f \in [1..N -> Seq(S)] :
        /\ FlattenSeq(seqs) = f[N] /\ f[1] = seqs[1]
        /\ \A i \in 2..N : f[i] = f[i - 1] \o seqs[i]
  BY ZenonT(30), FlattenSteps
<1> HIDE DEF N
<1> DEFINE InPlace(m) == /\ Len(f[m]) = Upto(c, m)
                         /\ \A j \in 1..m : \A n \in 1..c[j] :
                              /\ Upto(c, j - 1) + n \in 1..Len(f[m])
                              /\ f[m][Upto(c, j - 1) + n] = seqs[j][n]
<1>3. \A m \in 0..N : Upto(c, m) \in Nat
  BY <1>0, UptoIs
<1>4. \A m \in 1..N : Upto(c, m) = Upto(c, m - 1) + c[m]
  BY <1>0, UptoIs
<1>5. Upto(c, 0) = 0 /\ Upto(c, N) = Total(c)
  BY <1>0, UptoIs
<1>6. InPlace(1)
  <2>0. 1 - 1 = 0 /\ 1 \in 1..N /\ c[1] \in Nat
    BY <1>1
  <2>1. Upto(c, 1) = c[1] /\ Upto(c, 1 - 1) = 0
    BY <1>4, <1>5, <2>0
  <2>2. f[1] = seqs[1] /\ c[1] = Len(seqs[1]) /\ c[1] \in Nat
    BY <1>0, <1>1, <1>2, <2>0
  <2>3. ASSUME NEW j \in 1..1, NEW n \in 1..c[j]
        PROVE /\ Upto(c, j - 1) + n \in 1..Len(f[1])
              /\ f[1][Upto(c, j - 1) + n] = seqs[j][n]
    BY <2>1, <2>2
  <2> QED
    BY <2>1, <2>2, <2>3
<1>7. ASSUME NEW m \in 1..N, m < N, InPlace(m) PROVE InPlace(m + 1)
  <2> DEFINE s == f[m]
             t == seqs[m + 1]
             u == f[m + 1]
  <2>1. s \in Seq(S) /\ t \in Seq(S) /\ m + 1 \in 1..N /\ m + 1 \in 2..N /\ m \in Nat
    BY <1>1, <1>2, <1>7
  <2>2. u = s \o t
    <3>1. (m + 1) - 1 = m
      BY <2>1
    <3> QED
      BY <1>2, <2>1, <3>1
  <2>3. Len(t) = c[m + 1] /\ Len(s) = Upto(c, m)
    BY <1>0, <1>7, <2>1
  <2> HIDE DEF s, t, u
  <2>4. /\ Len(s) \in Nat /\ Len(t) \in Nat /\ Len(u) = Len(s) + Len(t)
        /\ \A k \in 1..Len(s) : u[k] = s[k]
        /\ \A k \in 1..Len(t) : u[Len(s) + k] = t[k]
    BY <2>1, <2>2
  <2>5. Len(u) = Upto(c, m + 1)
    <3>1. Upto(c, m + 1) = Upto(c, (m + 1) - 1) + c[m + 1] /\ (m + 1) - 1 = m
      BY <1>4, <2>1
    <3> QED
      BY <2>3, <2>4, <3>1
  <2>6. ASSUME NEW j \in 1..(m + 1), NEW n \in 1..c[j]
        PROVE Upto(c, j - 1) + n \in 1..Len(u) /\ u[Upto(c, j - 1) + n] = seqs[j][n]
    <3>1. CASE j = m + 1
      <4>1. Upto(c, j - 1) = Len(s) /\ n \in 1..Len(t)
        BY <2>1, <2>3, <3>1
      <4>2. Len(s) + n \in 1..Len(u) /\ u[Len(s) + n] = t[n]
        BY <2>4, <4>1
      <4> QED
        BY <3>1, <4>1, <4>2 DEF t
    <3>2. CASE j \in 1..m
      <4>1. /\ Upto(c, j - 1) + n \in 1..Len(s)
            /\ s[Upto(c, j - 1) + n] = seqs[j][n]
        BY <1>7, <3>2 DEF s
      <4> DEFINE k == Upto(c, j - 1) + n
      <4> HIDE DEF k
      <4>2. k \in 1..Len(u) /\ u[k] = s[k]
        BY <2>4, <4>1 DEF k
      <4> QED
        BY <4>1, <4>2 DEF k
    <3> QED
      BY <2>1, <3>1, <3>2
  <2> QED
    BY <2>5, <2>6 DEF u
<1>8. InPlace(N)
  <2> HIDE DEF InPlace
  <2> DEFINE Bad == {m \in 1..N : ~InPlace(m)}
  <2>0. Bad = {} => InPlace(N)
    <3> N \in 1..N
      BY <1>1
    <3> QED OBVIOUS
  <2> SUFFICES ASSUME Bad # {} PROVE FALSE
    BY <2>0
  <2>1. PICK m \in Bad : \A k \in Bad : m <= k
    <3> Bad \in SUBSET Nat
      BY <1>1
    <3> QED BY LeastElement
  <2>2. m # 1 /\ m \in 1..N
    BY <1>6, <2>1
  <2>3. m - 1 \in 1..N /\ m - 1 < N /\ m - 1 < m /\ (m - 1) + 1 = m
    BY <1>1, <2>2
  <2>4. InPlace(m - 1)
    BY <2>1, <2>3
  <2>5. InPlace((m - 1) + 1)
    BY <1>7, <2>3, <2>4
  <2> QED
    BY <2>1, <2>3, <2>5
<1>9. f[N] \in Seq(S)
  BY <1>1, <1>2
<1> QED
  BY <1>0, <1>2, <1>5, <1>8, <1>9

LEMMA FlattenOne ==
  ASSUME NEW x
  PROVE FlattenSeq(<<x>>) = x
<1> DEFINE seqs == <<x>>
           Def(f) == [i \in 1..Len(seqs) |-> IF i = 1 THEN seqs[i] ELSE f[i - 1] \o seqs[i]]
           flatten == CHOOSE f : f = Def(f)
           g == [i \in 1..1 |-> x]
<1>1. Len(seqs) = 1 /\ seqs[1] = x
  OBVIOUS
<1>2. g = Def(g)
  BY <1>1
<1>3. flatten = Def(flatten)
  BY <1>2
<1>4. flatten[1] = x
  <2> HIDE DEF flatten
  <2> QED
    BY <1>1, <1>3
<1> QED
  BY <1>1, <1>4 DEF FlattenSeq

PartType == [source : Source, start : Nat, count : Nat]
PartCounts(parts) == [j \in DOMAIN parts |-> parts[j].count]
RowsOfParts(parts) == FlattenSeq([j \in DOMAIN parts |-> PartRows(parts[j])])

LEMMA PartRowsAre ==
  ASSUME NEW p \in PartType
  PROVE /\ PartRows(p) \in Seq(RowType) /\ Len(PartRows(p)) = p.count
        /\ \A n \in 1..p.count : PartRows(p)[n] = <<p.source, p.start + n>>
<1>1. p.source \in Source /\ p.start \in Nat /\ p.count \in Nat
  BY DEF PartType
<1>2. PartRows(p) = [n \in 1..p.count |-> <<p.source, p.start + n>>]
  <2>1. (p.start + p.count) + 1 - (p.start + 1) = p.count
    BY <1>1
  <2>2. \A n \in 1..p.count : (p.start + 1) + n - 1 = p.start + n
    BY <1>1
  <2> QED
    BY <2>1, <2>2 DEF PartRows, Rows
<1>3. \A n \in 1..p.count : <<p.source, p.start + n>> \in RowType
  BY <1>1 DEF RowType
<1> DEFINE s == [n \in 1..p.count |-> <<p.source, p.start + n>>]
<1>4. s \in Seq(RowType) /\ Len(s) = p.count
  BY <1>1, <1>3
<1>5. \A n \in 1..p.count : s[n] = <<p.source, p.start + n>>
  OBVIOUS
<1> QED
  BY <1>2, <1>4, <1>5

LEMMA PartsLayout ==
  ASSUME NEW parts \in Seq(PartType), parts # <<>>
  PROVE /\ RowsOfParts(parts) \in Seq(RowType)
        /\ Len(RowsOfParts(parts)) = Expected(parts)
        /\ PartCounts(parts) \in Seq(Nat) /\ Len(PartCounts(parts)) = Len(parts)
        /\ Expected(parts) = Total(PartCounts(parts))
        /\ \A j \in 1..Len(parts) : \A n \in 1..parts[j].count :
             RowsOfParts(parts)[Upto(PartCounts(parts), j - 1) + n]
               = <<parts[j].source, parts[j].start + n>>
<1> DEFINE seqs == [j \in DOMAIN parts |-> PartRows(parts[j])]
           c == PartCounts(parts)
<1>1. DOMAIN parts = 1..Len(parts) /\ Len(parts) \in Nat /\ Len(parts) > 0
      /\ \A j \in 1..Len(parts) : parts[j] \in PartType
  OBVIOUS
<1>2. \A j \in 1..Len(parts) : parts[j].count \in Nat
  BY <1>1 DEF PartType
<1>3. c \in Seq(Nat) /\ Len(c) = Len(parts) /\ \A j \in 1..Len(c) : c[j] = parts[j].count
  BY <1>1, <1>2 DEF PartCounts
<1>4. \A j \in 1..Len(parts) :
        /\ PartRows(parts[j]) \in Seq(RowType) /\ Len(PartRows(parts[j])) = parts[j].count
        /\ \A n \in 1..parts[j].count :
             PartRows(parts[j])[n] = <<parts[j].source, parts[j].start + n>>
  BY <1>1, PartRowsAre
<1>5. seqs \in Seq(Seq(RowType)) /\ Len(seqs) = Len(parts) /\ seqs # <<>>
      /\ \A j \in 1..Len(parts) : seqs[j] = PartRows(parts[j])
  BY <1>1, <1>4
<1> HIDE DEF seqs, c
<1>6. \A j \in 1..Len(c) : c[j] = Len(seqs[j])
  BY <1>3, <1>4, <1>5
<1>7. /\ FlattenSeq(seqs) \in Seq(RowType) /\ Len(FlattenSeq(seqs)) = Total(c)
      /\ \A j \in 1..Len(c) : \A n \in 1..c[j] :
           FlattenSeq(seqs)[Upto(c, j - 1) + n] = seqs[j][n]
  BY <1>3, <1>5, <1>6, FlattenLayout
<1>8. RowsOfParts(parts) = FlattenSeq(seqs)
  BY DEF RowsOfParts, seqs
<1>9. Expected(parts) = Total(c)
  BY DEF Expected, c, PartCounts
<1>10. \A j \in 1..Len(parts) : \A n \in 1..parts[j].count :
         RowsOfParts(parts)[Upto(c, j - 1) + n] = <<parts[j].source, parts[j].start + n>>
  <2> TAKE j \in 1..Len(parts)
  <2> TAKE n \in 1..parts[j].count
  <2>1. j \in 1..Len(c) /\ n \in 1..c[j]
    BY <1>3
  <2>2. FlattenSeq(seqs)[Upto(c, j - 1) + n] = seqs[j][n]
    BY <1>7, <2>1
  <2> QED
    BY <1>4, <1>5, <1>8, <2>2
<1> QED
  BY <1>3, <1>7, <1>8, <1>9, <1>10 DEF c

--------------------------------------------------------------------------------
(* The inductive invariant.                                                  *)

CallTyped ==
  /\ len \in [Source -> Nat] /\ probed \in [Source -> Nat] /\ request \in Requests
  /\ imports \in Seq(Seq(PartType)) /\ \A t \in 1..Len(imports) : imports[t] # <<>>
  /\ result \in {"pending", "ok", "error"}

MoveTyped ==
  /\ at \in 0..Len(imports)
  /\ producer \in {"idle", "next", "pulling", "done", "failed"}
  /\ part \in Nat \ {0} /\ (at > 0 => part <= Len(Parts) + 1)
  /\ wire \in Seq(Seq(RowType)) /\ Len(wire) <= ImportCap
  /\ frames \in Seq(Seq(RowType)) /\ Len(frames) <= ExportCap
  /\ export \in ExportType
  /\ export.running => export.source \in Source /\ export.next > 0
  /\ target \in {"idle", "receiving", "activated", "failed"}
  /\ blocks \in Nat /\ taken \in Seq(RowType)

MadeTyped == made \in Seq(Seq(RowType)) /\ faulty \in BOOLEAN

Typed == CallTyped /\ MoveTyped /\ MadeTyped

\* Sources only grow, and never past what a length can be.
LensInv ==
  /\ \A s \in Source : probed[s] <= len[s]
  /\ Total(len) <= Total(FirstLen) + MaxAdds

\* Before the plan nothing has started; after it the imports are those of the
\* lengths probed.
Assigned ==
  IF request.kind = "split" THEN SplitImports(Counts(probed[1]))
  ELSE <<[s \in Source |-> Part(s, 0, probed[s])]>>

PlanInv ==
  /\ at = 0 =>
       /\ imports = <<>> /\ producer = "idle" /\ target = "idle"
       /\ part = 1 /\ wire = <<>> /\ export = NoExport /\ frames = <<>>
       /\ blocks = 0 /\ taken = <<>> /\ made = <<>>
       /\ result # "ok" /\ (result = "error" => BadRequest)
  /\ at > 0 =>
       /\ imports = Assigned /\ producer # "idle" /\ target # "idle"
       /\ request.kind = "split" => ~CountsRefused(probed[1])

\* The export of the part in hand, and only that one, has a producer reading it.
ExportInv ==
  /\ producer \in {"idle", "next", "done"} => ~export.running
  /\ producer # "pulling" => frames = <<>> /\ ~(export.running /\ export.wanted)
  /\ producer = "pulling" =>
       /\ part <= Len(Parts) /\ Current.count > 0 /\ export.wanted
       /\ export.source = Current.source /\ export.end = Current.start + Current.count
       /\ export.next \in Current.start + 1..export.end + 1
       /\ export.running \/ export.next = export.end + 1
  /\ producer = "done" => part = Len(Parts) + 1

\* What was exported, or is being, was in range.
FitInv ==
  \A t \in 1..at : \A j \in 1..Len(imports[t]) :
    (t < at \/ j < part \/ (j = part /\ producer = "pulling")) /\ imports[t][j].count > 0
      => InRange(imports[t][j])

\* The indexes made are the first ones planned.
MadeInv ==
  /\ at > 0 =>
       Len(made) = IF target = "activated" THEN at
                   ELSE IF target = "receiving" THEN at - 1
                   ELSE Len(made)
  /\ Len(made) <= Len(imports)
  /\ \A t \in 1..Len(made) : made[t] = Planned[t]

\* Rows of the import handed on so far: those of the parts before the one in
\* hand, and of that one what its export has sent.
SentBy(parts, p, how, e) ==
  Upto(PartCounts(parts), p - 1)
    + (IF how = "pulling" THEN e.next - 1 - parts[p].start ELSE 0)

Sent == SentBy(Parts, part, producer, export)

\* The target's rows, its channel and the export's frames follow each other in
\* the plan: cut marks where each of them ends.
InTransit == wire \o frames

Cuts(rows, had, flow, cut) ==
  /\ cut \in Seq(0..Len(rows)) /\ Len(cut) = Len(flow) + 1 /\ cut[1] = had
  /\ \A i \in 1..Len(flow) :
       cut[i] <= cut[i + 1] /\ flow[i] = SubSeq(rows, cut[i] + 1, cut[i + 1])

FlowInv ==
  target = "receiving" =>
    LET rows == Planned[at] IN
    /\ taken = SubSeq(rows, 1, Len(taken))
    /\ \E cut \in Seq(0..Len(rows)) :
         /\ Cuts(rows, Len(taken), InTransit, cut)
         /\ producer # "failed" => cut[Len(cut)] = Sent

\* Nothing fails of itself; an import that has begun has a block to show for it.
Begun == part > 1 \/ (producer = "pulling" /\ export.next > Current.start + 1)

ReasonInv ==
  /\ result = "error" => faulty \/ BadRequest
  /\ target = "activated" => producer \in {"done", "failed"}
  /\ at > 0 /\ ~faulty /\ ~BadRequest =>
       /\ producer # "failed" /\ target # "failed"
       /\ target = "receiving" /\ Begun => blocks + Len(wire) + Len(frames) > 0

Inv == Typed /\ LensInv /\ PlanInv /\ ExportInv /\ FitInv /\ MadeInv /\ FlowInv /\ ReasonInv

--------------------------------------------------------------------------------
(* Types.                                                                    *)

LEMMA Constants ==
  /\ {FrameRows, ExportCap, ImportCap, Word} \subseteq Nat \ {0} /\ MaxAdds \in Nat
  /\ FirstLen \in Seq(Nat) /\ Len(FirstLen) \in Nat \ {0} /\ Source = 1..Len(FirstLen)
  /\ 1 \in Source /\ FirstLen \in [Source -> Nat]
  /\ \A r \in Requests : r.targets \in Nat /\ r.counts \in Seq(Nat)
<1>1. FirstLen \in Seq(Nat) /\ FirstLen # <<>> /\ Source = 1..Len(FirstLen)
  BY MoveAssumption
<1>2. Len(FirstLen) \in Nat \ {0} /\ FirstLen \in [1..Len(FirstLen) -> Nat]
  BY <1>1
<1>3. \A r \in Requests : r.targets \in Nat /\ r.counts \in Seq(Nat)
  BY MoveAssumption DEF RequestType
<1> QED
  BY <1>1, <1>2, <1>3, MoveAssumption

LEMMA LengthsAreSeq ==
  ASSUME NEW f \in [Source -> Nat]
  PROVE f \in Seq(Nat) /\ Len(f) = Len(FirstLen) /\ DOMAIN f = 1..Len(f)
BY Constants

LEMMA CountsTyped ==
  ASSUME request \in Requests, NEW rows \in Nat, ~CountsRefused(rows)
  PROVE /\ Counts(rows) \in Seq(Nat) /\ Counts(rows) # <<>>
        /\ rows < Word => Total(Counts(rows)) % Word = rows
        /\ request.counts = <<>> => Total(Counts(rows)) = rows
<1>1. request.targets \in Nat \ {0} /\ request.counts \in Seq(Nat) /\ Word \in Nat \ {0}
  BY Constants DEF CountsRefused
<1>2. CASE request.counts # <<>>
  BY <1>1, <1>2 DEF Counts, CountsRefused
<1>3. CASE request.counts = <<>>
  <2> DEFINE t == request.targets
             c == [j \in 1..t |-> rows \div t + (IF j <= rows % t THEN 1 ELSE 0)]
  <2>1. Counts(rows) = c
    BY <1>3 DEF Counts
  <2>2. rows \div t \in Nat
    BY <1>1
  <2>3. c \in Seq(Nat) /\ Len(c) = t
    BY <1>1, <2>2
  <2>4. Total(c) = rows
    BY <1>1, EvenTotal
  <2>5. rows < Word => rows % Word = rows
    BY <1>1
  <2>6. c # <<>>
    BY <1>1, <2>3
  <2> HIDE DEF c
  <2> QED
    BY <2>1, <2>3, <2>4, <2>5, <2>6
<1> QED
  BY <1>2, <1>3

LEMMA SplitTyped ==
  ASSUME NEW c \in Seq(Nat)
  PROVE /\ SplitImports(c) \in Seq(Seq(PartType)) /\ Len(SplitImports(c)) = Len(c)
        /\ \A t \in 1..Len(c) : SplitImports(c)[t] = <<Part(1, Upto(c, t - 1), c[t])>>
        /\ \A t \in 1..Len(c) : Part(1, Upto(c, t - 1), c[t]) \in PartType
<1> DEFINE P(t) == Part(1, Upto(c, t - 1), c[t])
<1>1. DOMAIN c = 1..Len(c) /\ Len(c) \in Nat
  OBVIOUS
<1>2. SplitImports(c) = [t \in 1..Len(c) |-> <<P(t)>>]
  BY <1>1 DEF SplitImports, Upto
<1>3. ASSUME NEW t \in 1..Len(c) PROVE P(t) \in PartType
  <2>1. t - 1 \in 0..Len(c) /\ c[t] \in Nat
    BY <1>1
  <2>2. Upto(c, t - 1) \in Nat
    BY <2>1, UptoIs
  <2> QED
    BY <2>1, <2>2, Constants DEF Part, PartType
<1>4. \A t \in 1..Len(c) : <<P(t)>> \in Seq(PartType)
  BY <1>3
<1> HIDE DEF P
<1>5. SplitImports(c) \in Seq(Seq(PartType)) /\ Len(SplitImports(c)) = Len(c)
  BY <1>1, <1>2, <1>4
<1>6. \A t \in 1..Len(c) : SplitImports(c)[t] = <<P(t)>>
  BY <1>2
<1> QED
  BY <1>3, <1>5, <1>6 DEF P

LEMMA JoinTyped ==
  ASSUME NEW lens \in [Source -> Nat]
  PROVE LET parts == [s \in Source |-> Part(s, 0, lens[s])] IN
        /\ parts \in Seq(PartType) /\ parts # <<>> /\ Len(parts) = Len(FirstLen)
        /\ \A s \in Source : parts[s] = Part(s, 0, lens[s])
        /\ <<parts>> \in Seq(Seq(PartType)) /\ Len(<<parts>>) = 1 /\ <<parts>>[1] = parts
<1> DEFINE parts == [s \in Source |-> Part(s, 0, lens[s])]
<1>1. \A s \in Source : Part(s, 0, lens[s]) \in PartType
  BY DEF Part, PartType
<1>2. parts \in Seq(PartType) /\ Len(parts) = Len(FirstLen)
  BY <1>1, Constants
<1>3. parts # <<>>
  BY <1>2, Constants
<1>4. \A s \in Source : parts[s] = Part(s, 0, lens[s])
  OBVIOUS
<1> HIDE DEF parts
<1>5. <<parts>> \in Seq(Seq(PartType)) /\ Len(<<parts>>) = 1 /\ <<parts>>[1] = parts
  BY <1>2
<1> QED
  BY <1>2, <1>3, <1>4, <1>5 DEF parts

\* The import in hand has parts, and the part in hand is one of them.
LEMMA InHand ==
  ASSUME Typed, at > 0
  PROVE /\ at \in 1..Len(imports) /\ Parts \in Seq(PartType) /\ Parts # <<>>
        /\ Len(Parts) \in Nat /\ part \in 1..Len(Parts) + 1
        /\ part <= Len(Parts) =>
             /\ part \in 1..Len(Parts) /\ Current \in PartType /\ Current.source \in Source
             /\ Current.start \in Nat /\ Current.count \in Nat
<1>1. at \in 1..Len(imports) /\ imports \in Seq(Seq(PartType)) /\ Len(imports) \in Nat
  BY DEF Typed, CallTyped, MoveTyped
<1>2. Parts \in Seq(PartType) /\ Parts # <<>>
  BY <1>1 DEF Typed, CallTyped, Parts
<1>3. Len(Parts) \in Nat /\ part \in 1..Len(Parts) + 1
  BY <1>2 DEF Typed, MoveTyped
<1>4. part <= Len(Parts) => part \in 1..Len(Parts) /\ Current \in PartType
  BY <1>2, <1>3 DEF Current
<1> QED
  BY <1>1, <1>2, <1>3, <1>4 DEF PartType

LEMMA RowsAre ==
  ASSUME NEW s \in Source, NEW from \in Nat \ {0}, NEW to \in Nat, from <= to
  PROVE /\ Rows(s, from, to) \in Seq(RowType) /\ Len(Rows(s, from, to)) = to + 1 - from
        /\ \A n \in 1..to + 1 - from : Rows(s, from, to)[n] = <<s, from + n - 1>>
<1> DEFINE r == [n \in 1..(to + 1 - from) |-> <<s, from + n - 1>>]
<1>1. \A n \in 1..(to + 1 - from) : <<s, from + n - 1>> \in RowType
  BY DEF RowType
<1>2. r \in Seq(RowType) /\ Len(r) = to + 1 - from
  BY <1>1
<1>3. \A n \in 1..to + 1 - from : r[n] = <<s, from + n - 1>>
  OBVIOUS
<1> QED
  BY <1>2, <1>3 DEF Rows

LEMMA TypedInit == Init => Typed
<1> SUFFICES ASSUME Init PROVE Typed
  OBVIOUS
<1>1. len \in [Source -> Nat] /\ probed \in [Source -> Nat] /\ request \in Requests
  BY Constants DEF Init
<1>0. \A S : <<>> \in Seq(S) /\ Len(<<>>) = 0
  OBVIOUS
<1>2. CallTyped
  <2>1. imports = <<>> /\ result = "pending"
    BY DEF Init
  <2>2. imports \in Seq(Seq(PartType)) /\ \A t \in 1..Len(imports) : FALSE
    BY <1>0, <2>1
  <2> QED
    BY <1>1, <2>1, <2>2 DEF CallTyped
<1>3. MoveTyped
  <2>1. export \in ExportType /\ ~export.running
    BY DEF Init, NoExport, ExportType
  <2>2. at = 0 /\ at \in 0..Len(imports) /\ imports = <<>>
    BY <1>0 DEF Init
  <2>3. wire \in Seq(Seq(RowType)) /\ Len(wire) <= ImportCap
        /\ frames \in Seq(Seq(RowType)) /\ Len(frames) <= ExportCap /\ taken \in Seq(RowType)
    BY <1>0, Constants DEF Init
  <2>4. producer = "idle" /\ target = "idle" /\ part = 1 /\ blocks = 0
    BY DEF Init
  <2> QED
    <3> HIDE DEF Parts
    <3> QED
      BY <2>1, <2>2, <2>3, <2>4, Constants DEF MoveTyped
<1>4. MadeTyped
  BY <1>0 DEF Init, MadeTyped
<1> QED
  BY <1>2, <1>3, <1>4 DEF Typed

\* The plan gives every import at least one part.
LEMMA PlanTyped ==
  ASSUME Typed, PlanInv, Plan
  PROVE /\ CallTyped' /\ at' \in 0..Len(imports') /\ (at' > 0 => part' <= Len(Parts') + 1)
        /\ probed' = len /\ request' = request
        /\ \/ /\ at' = 0 /\ result' = "error" /\ imports' = <<>>
              /\ request.kind = "split" /\ CountsRefused(len[1])
              /\ UNCHANGED <<at, producer, target>>
           \/ /\ at' = 1 /\ imports' = Assigned' /\ result' = "pending"
              /\ (request.kind = "split" => ~CountsRefused(len[1]))
              /\ producer' = "next" /\ target' = "receiving" /\ Len(imports') \in Nat \ {0}
<1> DEFINE Refuses == request.kind = "split" /\ CountsRefused(len[1]) /\ result' = "error"
                      /\ UNCHANGED <<imports, at, producer, target>>
           Accepts == /\ \/ request.kind = "split" /\ ~CountsRefused(len[1])
                            /\ imports' = SplitImports(Counts(len[1]))
                         \/ request.kind = "join" /\ imports' = JoinImports
                      /\ at' = 1 /\ producer' = "next" /\ target' = "receiving"
                      /\ UNCHANGED result
<1>1. len \in [Source -> Nat] /\ request \in Requests /\ imports = <<>> /\ part = 1 /\ at = 0
  BY DEF Typed, CallTyped, PlanInv, Plan
<1>2. len[1] \in Nat
  BY <1>1, Constants
<1>3. probed' = len /\ request' = request /\ len' = len /\ part' = 1
  BY <1>1 DEF Plan
<1>4. Assigned' = IF request.kind = "split" THEN SplitImports(Counts(len[1])) ELSE JoinImports
  <2>1. Counts(probed[1])' = Counts(len[1])
    BY <1>3 DEF Counts
  <2>2. SplitImports(Counts(probed[1]))' = SplitImports(Counts(len[1]))
    BY <2>1 DEF SplitImports
  <2> QED
    BY <1>3, <2>2 DEF Assigned, JoinImports
<1>5. CASE Refuses
  <2>1. CallTyped'
    BY <1>1, <1>3, <1>5 DEF CallTyped
  <2> QED
    BY <1>1, <1>3, <1>5, <2>1
<1>6. ASSUME Accepts
      PROVE /\ imports' \in Seq(Seq(PartType)) /\ Len(imports') \in Nat \ {0}
            /\ \A t \in 1..Len(imports') : imports'[t] # <<>>
            /\ imports' = Assigned' /\ (request.kind = "split" => ~CountsRefused(len[1]))
  <2>1. CASE request.kind = "split" /\ ~CountsRefused(len[1])
             /\ imports' = SplitImports(Counts(len[1]))
    <3> DEFINE c == Counts(len[1])
    <3>1. c \in Seq(Nat) /\ c # <<>>
      BY <1>1, <1>2, <2>1, CountsTyped
    <3> HIDE DEF c
    <3>2. /\ imports' \in Seq(Seq(PartType)) /\ Len(imports') = Len(c)
          /\ \A t \in 1..Len(c) : imports'[t] = <<Part(1, Upto(c, t - 1), c[t])>>
      BY <2>1, <3>1, SplitTyped DEF c
    <3>3. Len(c) \in Nat \ {0}
      BY <3>1
    <3>4. \A t \in 1..Len(imports') : imports'[t] # <<>>
      <4>1. \A x : <<x>> # <<>>
        OBVIOUS
      <4> QED
        BY <3>2, <4>1
    <3>5. imports' = Assigned' /\ ~CountsRefused(len[1])
      BY <1>4, <2>1
    <3> QED
      BY <3>2, <3>3, <3>4, <3>5
  <2>2. CASE request.kind = "join" /\ imports' = JoinImports
    <3> DEFINE parts == [s \in Source |-> Part(s, 0, len[s])]
    <3>1. parts # <<>> /\ <<parts>> \in Seq(Seq(PartType)) /\ Len(<<parts>>) = 1
          /\ <<parts>>[1] = parts
      BY <1>1, JoinTyped
    <3>2. imports' = <<parts>>
      BY <2>2 DEF JoinImports
    <3> HIDE DEF parts
    <3>3. imports' = Assigned' /\ request.kind # "split"
      BY <1>4, <2>2
    <3> QED
      BY <3>1, <3>2, <3>3
  <2> QED
    BY <1>6, <2>1, <2>2
<1>7. CASE Accepts
  <2>1. /\ imports' \in Seq(Seq(PartType)) /\ Len(imports') \in Nat \ {0}
        /\ \A t \in 1..Len(imports') : imports'[t] # <<>>
        /\ imports' = Assigned' /\ (request.kind = "split" => ~CountsRefused(len[1]))
    BY <1>6, <1>7
  <2>2. result' = "pending"
    BY <1>7 DEF Plan
  <2>3. CallTyped'
    BY <1>1, <1>3, <2>1, <2>2 DEF CallTyped
  <2>4. Parts' = imports'[1]
    BY <1>7 DEF Parts
  <2>5. Len(Parts') \in Nat
    BY <2>1, <2>4
  <2> QED
    BY <1>3, <1>7, <2>1, <2>2, <2>3, <2>5
<1>8. Refuses \/ Accepts
  BY DEF Plan
<1> HIDE DEF Refuses, Accepts
<1> QED
  BY <1>5, <1>7, <1>8

LEMMA ExportMoves ==
  ASSUME NEW e \in ExportType
  PROVE /\ [e EXCEPT !.wanted = FALSE] \in ExportType
        /\ [e EXCEPT !.wanted = FALSE].running = e.running
        /\ [e EXCEPT !.wanted = FALSE].source = e.source
        /\ [e EXCEPT !.wanted = FALSE].next = e.next
        /\ [e EXCEPT !.wanted = FALSE].end = e.end
        /\ [e EXCEPT !.wanted = FALSE].wanted = FALSE
BY DEF ExportType

LEMMA ExportReturned ==
  ASSUME NEW e \in ExportType
  PROVE /\ [e EXCEPT !.running = FALSE] \in ExportType
        /\ [e EXCEPT !.running = FALSE].running = FALSE
        /\ [e EXCEPT !.running = FALSE].source = e.source
        /\ [e EXCEPT !.running = FALSE].next = e.next
        /\ [e EXCEPT !.running = FALSE].end = e.end
        /\ [e EXCEPT !.running = FALSE].wanted = e.wanted
BY DEF ExportType

LEMMA ExportAdvances ==
  ASSUME NEW e \in ExportType, NEW n \in Nat
  PROVE /\ [e EXCEPT !.next = n] \in ExportType
        /\ [e EXCEPT !.next = n].running = e.running
        /\ [e EXCEPT !.next = n].source = e.source
        /\ [e EXCEPT !.next = n].next = n
        /\ [e EXCEPT !.next = n].end = e.end
        /\ [e EXCEPT !.next = n].wanted = e.wanted
BY DEF ExportType

LEMMA StartedTyped ==
  ASSUME NEW p \in PartType
  PROVE /\ Started(p) \in ExportType /\ Started(p).source \in Source /\ Started(p).next > 0
        /\ [Started(p) EXCEPT !.wanted = FALSE] \in ExportType
        /\ [Started(p) EXCEPT !.wanted = FALSE].source = Started(p).source
        /\ [Started(p) EXCEPT !.wanted = FALSE].next = Started(p).next
<1>1. p.source \in Source /\ p.start \in Nat /\ p.count \in Nat
  BY DEF PartType
<1>2. Started(p) = [running |-> TRUE, wanted |-> TRUE, source |-> p.source,
                    next |-> p.start + 1, end |-> p.start + p.count]
  BY DEF Started
<1>3. Started(p) \in ExportType /\ Started(p).source \in Source /\ Started(p).next > 0
  BY <1>1, <1>2 DEF ExportType
<1> QED
  BY <1>3, ExportMoves

LEMMA Empty == (\A S : <<>> \in Seq(S)) /\ Len(<<>>) = 0
OBVIOUS

LEMMA TypedStep == Typed /\ PlanInv /\ ExportInv /\ [Next]_vars => Typed'
<1> SUFFICES ASSUME Typed, PlanInv, ExportInv, [Next]_vars PROVE Typed'
  OBVIOUS
<1> USE Constants
<1>1. CASE Plan
  <2>1. CallTyped' /\ at' \in 0..Len(imports') /\ (at' > 0 => part' <= Len(Parts') + 1)
    BY <1>1, PlanTyped
  <2>2. /\ UNCHANGED <<part, wire, export, frames, blocks, taken, made, faulty>>
        /\ producer' \in {producer, "next"} /\ target' \in {target, "receiving"}
    BY <1>1 DEF Plan
  <2>3. MoveTyped' /\ MadeTyped'
    BY <2>1, <2>2 DEF Typed, MoveTyped, MadeTyped
  <2> QED
    BY <2>1, <2>3 DEF Typed
<1>2. CASE NextImport
  <2>1. at' \in 1..Len(imports) /\ imports' = imports /\ part' = 1
    BY SMTT(30), <1>2 DEF NextImport, Typed, MoveTyped, CallTyped, callVars
  <2>2. Len(Parts') \in Nat
    BY <2>1 DEF Typed, CallTyped, Parts
  <2>3. CallTyped' /\ MadeTyped'
    BY <1>2 DEF NextImport, Typed, CallTyped, MadeTyped, callVars
  <2>4. MoveTyped'
    BY <1>2, <2>1, <2>2 DEF NextImport, Typed, MoveTyped
  <2> QED
    BY <2>3, <2>4 DEF Typed
<1>3. CASE Return
  BY <1>3 DEF Return, Typed, CallTyped, MoveTyped, MadeTyped, moveVars, Parts
<1>4. ASSUME NEW s \in Source, AddRow(s) PROVE Typed'
  <2>1. len' \in [Source -> Nat]
    BY <1>4 DEF AddRow, Typed, CallTyped
  <2> QED
    BY <1>4, <2>1 DEF AddRow, Typed, CallTyped, MoveTyped, MadeTyped, moveVars, Parts
<1>5. CASE UNCHANGED vars
  BY <1>5 DEF vars, callVars, moveVars, Typed, CallTyped, MoveTyped, MadeTyped, Parts
\* The steps of the tasks.
<1> DEFINE Rest == /\ CallTyped' /\ at' = at /\ imports' = imports /\ Parts' = Parts
                   /\ MadeTyped
<1>6. ASSUME UNCHANGED <<callVars, at>> PROVE Rest
  BY <1>6 DEF callVars, Typed, CallTyped, Parts
<1>7. CASE SendEmpty
  <2>1. Rest /\ at > 0
    <3>1. producer = "next"
      BY <1>7 DEF SendEmpty
    <3> QED BY <1>6, <1>7, <3>1 DEF SendEmpty, PlanInv, Typed, MoveTyped
  <2>2. wire' \in Seq(Seq(RowType)) /\ Len(wire') <= ImportCap
    <3>1. wire \in Seq(Seq(RowType)) /\ <<>> \in Seq(RowType) /\ Len(wire) < ImportCap
      BY <1>7 DEF SendEmpty, HasRoom, Typed, MoveTyped
    <3> QED
      BY <1>7, <3>1 DEF SendEmpty
  <2>3. part' \in Nat \ {0} /\ part' <= Len(Parts) + 1
    <3> DEFINE n == Len(Parts)
    <3>1. n \in Nat /\ part \in 1..n + 1
      BY <2>1, InHand
    <3>2. part' = part + 1 /\ part <= n
      BY <1>7 DEF SendEmpty
    <3> HIDE DEF n
    <3>3. part' \in Nat \ {0} /\ part' <= n + 1
      BY <3>1, <3>2
    <3> QED
      BY <3>3 DEF n
  <2>4. MoveTyped' /\ MadeTyped'
    BY <1>7, <2>1, <2>2, <2>3 DEF SendEmpty, Typed, MoveTyped, MadeTyped
  <2> QED
    BY <2>1, <2>4 DEF Typed
<1>8. CASE OpenExport \/ OpenRefused \/ OpenLost
  <2>1. Rest /\ at > 0 /\ part <= Len(Parts)
    <3>1. producer = "next"
      BY <1>8 DEF OpenExport, OpenRefused, OpenLost
    <3> QED
      BY SMTT(30), <1>6, <1>8, <3>1 DEF OpenExport, OpenRefused, OpenLost, PlanInv, Typed, MoveTyped
  <2>2. export \in ExportType /\ Current \in PartType
    BY <2>1, InHand DEF Typed, MoveTyped
  <2>3. /\ export' \in ExportType
        /\ export'.running => export'.source \in Source /\ export'.next > 0
    <3>1. CASE export' = Started(Current)
      BY <2>2, <3>1, StartedTyped
    <3>2. CASE export' = [Started(Current) EXCEPT !.wanted = FALSE]
      BY <2>2, <3>2, StartedTyped
    <3>3. CASE export' = [export EXCEPT !.wanted = FALSE]
      <4>1. export' \in ExportType
            /\ export'.running = export.running /\ export'.source = export.source
            /\ export'.next = export.next
        BY <2>2, <3>3, ExportMoves
      <4> QED
        BY <4>1 DEF Typed, MoveTyped
    <3>4. CASE export' = export
      BY <3>4 DEF Typed, MoveTyped
    <3> QED
      BY <1>8, <3>1, <3>2, <3>3, <3>4 DEF OpenExport, OpenRefused, OpenLost, ProducerFails
  <2>4. /\ UNCHANGED <<part, wire, target, blocks, taken, made>> /\ frames' \in {frames, <<>>}
        /\ producer' \in {"pulling", "failed"} /\ faulty' \in {faulty, TRUE}
    BY <1>8 DEF OpenExport, OpenRefused, OpenLost, ProducerFails
  <2>6. frames' \in Seq(Seq(RowType)) /\ Len(frames') <= ExportCap
    <3>1. CASE frames' = frames
      BY <3>1 DEF Typed, MoveTyped
    <3>2. CASE frames' = <<>>
      BY <3>2, Empty
    <3> QED
      BY <2>4, <3>1, <3>2
  <2>5. MoveTyped' /\ MadeTyped'
    BY <2>1, <2>3, <2>4, <2>6 DEF Typed, MoveTyped, MadeTyped
  <2> QED
    BY <2>1, <2>5 DEF Typed
<1>9. CASE ExportLost \/ ForwardFails
  <2>1. Rest
    BY <1>6, <1>9 DEF ExportLost, ForwardFails
  <2>2. /\ export' = [export EXCEPT !.wanted = FALSE] /\ export \in ExportType
        /\ UNCHANGED <<part, wire, target, blocks, taken, made>> /\ frames' = <<>>
        /\ producer' = "failed" /\ faulty' \in {faulty, TRUE}
    BY <1>9 DEF ExportLost, ForwardFails, ProducerFails, Typed, MoveTyped
  <2>3. export' \in ExportType /\ export'.running = export.running
        /\ export'.source = export.source /\ export'.next = export.next
    BY <2>2 DEF ExportType
  <2>5. frames' \in Seq(Seq(RowType)) /\ Len(frames') <= ExportCap
    BY <2>2, Empty
  <2>4. MoveTyped' /\ MadeTyped'
    BY <2>1, <2>2, <2>3, <2>5 DEF Typed, MoveTyped, MadeTyped
  <2> QED
    BY <2>1, <2>4 DEF Typed
<1>10. CASE Forward
  <2>1. Rest
    BY <1>6, <1>10 DEF Forward
  <2>2. /\ Head(frames) \in Seq(RowType) /\ Tail(frames) \in Seq(Seq(RowType))
        /\ Len(Tail(frames)) <= ExportCap
    <3>1. frames \in Seq(Seq(RowType)) /\ frames # <<>> /\ Len(frames) <= ExportCap
      BY <1>10 DEF Forward, Typed, MoveTyped
    <3> QED
      BY <3>1
  <2>3. wire' \in Seq(Seq(RowType)) /\ Len(wire') <= ImportCap
    <3>1. wire \in Seq(Seq(RowType)) /\ Len(wire) < ImportCap /\ wire' = Append(wire, Head(frames))
      BY <1>10 DEF Forward, HasRoom, Typed, MoveTyped
    <3> QED
      BY <2>2, <3>1
  <2>4. MoveTyped' /\ MadeTyped'
    BY <1>10, <2>1, <2>2, <2>3 DEF Forward, Typed, MoveTyped, MadeTyped
  <2> QED
    BY <2>1, <2>4 DEF Typed
<1>11. CASE ExportEnds \/ ProducerDone
  <2>1. Rest
    BY <1>6, <1>11 DEF ExportEnds, ProducerDone
  <2>2. /\ UNCHANGED <<wire, export, frames, target, blocks, taken, made, faulty>>
        /\ producer' \in {"next", "done"}
    BY <1>11 DEF ExportEnds, ProducerDone
  <2>3. part' \in Nat \ {0} /\ (at > 0 => part' <= Len(Parts) + 1)
    <3>1. CASE ProducerDone
      BY <3>1 DEF ProducerDone, Typed, MoveTyped
    <3>2. CASE ExportEnds
      <4>1. part \in Nat \ {0} /\ part' = part + 1 /\ (at > 0 => part <= Len(Parts))
        BY <3>2 DEF ExportEnds, ExportInv, Typed, MoveTyped
      <4> QED
        BY <4>1, InHand
    <3> QED
      BY <1>11, <3>1, <3>2
  <2>4. MoveTyped' /\ MadeTyped'
    BY <2>1, <2>2, <2>3 DEF Typed, MoveTyped, MadeTyped
  <2> QED
    BY <2>1, <2>4 DEF Typed
<1>12. CASE ExportFrame
  <2>1. Rest
    BY <1>6, <1>12 DEF ExportFrame
  <2>2. PICK last \in export.next..export.end :
          /\ frames' = Append(frames, Rows(export.source, export.next, last))
          /\ export' = [export EXCEPT !.next = last + 1]
    BY <1>12 DEF ExportFrame
  <2>0. /\ export \in ExportType /\ export.source \in Source /\ export.next > 0
    BY <1>12 DEF ExportFrame, Typed, MoveTyped
  <2>3. /\ export.next \in Nat \ {0} /\ export.source \in Source
        /\ export.end \in Nat /\ last \in Nat /\ export.next <= last
    BY <2>0 DEF ExportType
  <2>4. Rows(export.source, export.next, last) \in Seq(RowType)
    BY <2>3, RowsAre
  <2>5. frames \in Seq(Seq(RowType)) /\ Len(frames) < ExportCap
    BY <1>12 DEF ExportFrame, Typed, MoveTyped
  <2>6. frames' \in Seq(Seq(RowType)) /\ Len(frames') <= ExportCap
    <3> DEFINE x == Rows(export.source, export.next, last)
    <3>1. x \in Seq(RowType) /\ frames' = Append(frames, x)
      BY <2>2, <2>4
    <3> HIDE DEF x
    <3>2. Len(frames') = Len(frames) + 1 /\ frames' \in Seq(Seq(RowType)) /\ Len(frames) \in Nat
      BY <2>5, <3>1
    <3> QED
      BY <2>5, <3>2
  <2>7. export' \in ExportType /\ export'.source \in Source /\ export'.next > 0
    <3>1. last + 1 \in Nat /\ last + 1 > 0
      BY <2>3
    <3> QED
      BY <2>0, <2>2, <3>1, ExportAdvances
  <2>8. MoveTyped' /\ MadeTyped'
    BY <1>12, <2>1, <2>6, <2>7 DEF ExportFrame, Typed, MoveTyped, MadeTyped
  <2> QED
    BY <2>1, <2>8 DEF Typed
<1>13. CASE ExportReturns
  <2>1. Rest
    BY <1>6, <1>13 DEF ExportReturns
  <2>2. export' \in ExportType /\ ~export'.running
    BY <1>13, ExportReturned DEF ExportReturns, Typed, MoveTyped
  <2>3. MoveTyped' /\ MadeTyped'
    BY <1>13, <2>1, <2>2 DEF ExportReturns, Typed, MoveTyped, MadeTyped
  <2> QED
    BY <2>1, <2>3 DEF Typed
<1>14. CASE PushBlock
  <2>1. Rest
    BY <1>6, <1>14 DEF PushBlock
  <2>2. /\ Head(wire) \in Seq(RowType) /\ Tail(wire) \in Seq(Seq(RowType))
        /\ Len(Tail(wire)) <= ImportCap /\ Len(<<>>) <= ImportCap
    <3>1. wire \in Seq(Seq(RowType)) /\ wire # <<>> /\ Len(wire) <= ImportCap
      BY <1>14 DEF PushBlock, Typed, MoveTyped
    <3> QED
      BY <3>1
  <2>3. taken \o Head(wire) \in Seq(RowType) /\ blocks + 1 \in Nat
    BY <2>2 DEF Typed, MoveTyped
  <2>4. /\ wire' \in {Tail(wire), <<>>} /\ taken' \in {taken, taken \o Head(wire)}
        /\ blocks' \in {blocks, blocks + 1} /\ target' \in {target, "failed"}
        /\ UNCHANGED <<producer, part, export, frames, made, faulty>>
    BY <1>14 DEF PushBlock, TargetFails
  <2>6. wire' \in Seq(Seq(RowType)) /\ Len(wire') <= ImportCap
    BY <2>2, <2>4, Empty
  <2>7. taken' \in Seq(RowType) /\ blocks' \in Nat
    BY <2>3, <2>4 DEF Typed, MoveTyped
  <2>5. MoveTyped' /\ MadeTyped'
    BY <2>1, <2>4, <2>6, <2>7 DEF Typed, MoveTyped, MadeTyped
  <2> QED
    BY <2>1, <2>5 DEF Typed
<1>15. CASE Finish \/ TargetLost
  <2>1. Rest
    BY <1>6, <1>15 DEF Finish, TargetLost
  <2>2. /\ wire' \in {wire, <<>>} /\ target' \in {"activated", "failed"}
        /\ made' \in {made, Append(made, taken)} /\ faulty' \in {faulty, TRUE}
        /\ UNCHANGED <<producer, part, export, frames, blocks, taken>>
    BY <1>15 DEF Finish, TargetLost, TargetFails
  <2>3. Append(made, taken) \in Seq(Seq(RowType))
    BY DEF Typed, MoveTyped, MadeTyped
  <2>4. wire' \in Seq(Seq(RowType)) /\ Len(wire') <= ImportCap
    <3>1. CASE wire' = wire
      BY <3>1 DEF Typed, MoveTyped
    <3>2. CASE wire' = <<>>
      BY <3>2, Empty
    <3> QED
      BY <2>2, <3>1, <3>2
  <2>6. made' \in Seq(Seq(RowType))
    BY <2>2, <2>3 DEF Typed, MadeTyped
  <2>5. MoveTyped' /\ MadeTyped'
    BY <2>1, <2>2, <2>4, <2>6 DEF Typed, MoveTyped, MadeTyped
  <2> QED
    BY <2>1, <2>5 DEF Typed
<1> QED
  BY <1>1, <1>2, <1>3, <1>4, <1>5, <1>7, <1>8, <1>9, <1>10, <1>11, <1>12, <1>13, <1>14, <1>15
    DEF Next, Call, Produce, Exporting, Importing

--------------------------------------------------------------------------------
(* The lengths, the plan and the export.                                     *)

LEMMA LensInit == Init => LensInv
<1> SUFFICES ASSUME Init PROVE LensInv
  OBVIOUS
<1>1. Total(FirstLen) \in Nat /\ MaxAdds \in Nat
  BY Constants, UptoIs
<1>2. \A s \in Source : FirstLen[s] \in Nat
  BY Constants
<1> QED
  BY <1>1, <1>2 DEF Init, LensInv

\* No length is past the total, and the total is within a word.
LEMMA LengthBound ==
  ASSUME Typed, LensInv, NEW s \in Source
  PROVE len[s] \in Nat /\ probed[s] \in Nat /\ len[s] < Word /\ probed[s] < Word
<1>1. len \in [Source -> Nat] /\ probed \in [Source -> Nat]
  BY DEF Typed, CallTyped
<1>2. len \in Seq(Nat) /\ s \in 1..Len(len)
  BY <1>1, LengthsAreSeq, Constants
<1>3. len[s] <= Total(len)
  <2>1. Upto(len, s) = Upto(len, s - 1) + len[s] /\ Upto(len, s) <= Upto(len, Len(len))
        /\ Upto(len, Len(len)) = Total(len) /\ Upto(len, s - 1) \in Nat /\ len[s] \in Nat
    <3>1. s \in 0..Len(len) /\ s - 1 \in 0..Len(len) /\ Len(len) \in s..Len(len)
      BY <1>2
    <3> QED
      BY <1>1, <1>2, <3>1, UptoIs, UptoGrows
  <2>2. Total(len) \in Nat
    BY <1>2, UptoIs
  <2> QED
    BY <2>1, <2>2
<1>4. Total(len) < Word /\ Total(len) \in Nat /\ Word \in Nat
  <2>1. Total(len) \in Nat /\ Total(FirstLen) \in Nat
    BY <1>2, UptoIs, Constants
  <2> QED
    BY <2>1, LengthAssumption, Constants DEF LensInv
<1>5. probed[s] <= len[s]
  BY DEF LensInv
<1> QED
  BY <1>1, <1>3, <1>4, <1>5

LEMMA LensStep == Typed /\ LensInv /\ [Next]_vars => LensInv'
<1> SUFFICES ASSUME Typed, LensInv, [Next]_vars PROVE LensInv'
  OBVIOUS
<1>1. len \in [Source -> Nat] /\ probed \in [Source -> Nat]
  BY DEF Typed, CallTyped
<1>2. CASE UNCHANGED <<len, probed>>
  BY <1>2 DEF LensInv
<1>3. CASE Plan
  <2>1. len' = len /\ probed' = len
    BY <1>3 DEF Plan
  <2>2. \A s \in Source : len[s] <= len[s]
    BY <1>1
  <2> QED
    BY <2>1, <2>2 DEF LensInv
<1>4. ASSUME NEW s \in Source, AddRow(s) PROVE LensInv'
  <2>1. /\ len' = [len EXCEPT ![s] = @ + 1] /\ probed' = probed
        /\ Total(len) < Total(FirstLen) + MaxAdds
    BY <1>4 DEF AddRow
  <2>2. len \in Seq(Nat) /\ s \in 1..Len(len)
    BY <1>1, LengthsAreSeq, Constants
  <2>3. Total(len') = Total(len) + 1
    BY <2>1, <2>2, TotalOfOneMore
  <2>4. Total(len) \in Nat /\ Total(FirstLen) + MaxAdds \in Nat
    <3>1. Total(len) \in Nat /\ Total(FirstLen) \in Nat
      BY <2>2, UptoIs, Constants
    <3> QED
      BY <3>1, Constants
  <2>5. \A r \in Source : len[r] <= len'[r] /\ probed[r] <= len[r]
    BY <1>1, <2>1 DEF LensInv
  <2>6. \A r \in Source : len[r] \in Nat /\ len'[r] \in Nat /\ probed[r] \in Nat
    BY <1>1, <2>1
  <2>7. Total(len') <= Total(FirstLen) + MaxAdds
    BY <2>1, <2>3, <2>4
  <2>8. \A r \in Source : probed'[r] <= len'[r]
    BY <2>1, <2>5, <2>6
  <2> QED
    BY <2>7, <2>8 DEF LensInv
<1>5. CASE NextImport \/ Return \/ Produce \/ Exporting \/ Importing
           \/ OpenLost \/ ExportLost \/ TargetLost \/ UNCHANGED vars
  <2>1. UNCHANGED <<len, probed>>
    BY <1>5 DEF NextImport, Return, Produce, Exporting, Importing, OpenLost, ExportLost,
      TargetLost, vars, callVars, SendEmpty, OpenExport, OpenRefused, Forward, ForwardFails,
      ExportEnds, ProducerDone, ExportFrame, ExportReturns, PushBlock, Finish
  <2> QED
    BY <1>2, <2>1
<1> QED
  BY <1>3, <1>4, <1>5 DEF Next, Call

\* Sources never shrink.
LEMMA LensGrow ==
  ASSUME Typed, [Next]_vars, NEW s \in Source
  PROVE len[s] <= len'[s]
<1>1. len \in [Source -> Nat]
  BY DEF Typed, CallTyped
<1>2. CASE UNCHANGED len
  BY <1>1, <1>2
<1>3. ASSUME NEW r \in Source, AddRow(r) PROVE len[s] <= len'[s]
  <2>1. len' = [len EXCEPT ![r] = @ + 1]
    BY <1>3 DEF AddRow
  <2> QED
    BY <1>1, <2>1
<1>4. CASE Plan \/ NextImport \/ Return \/ Produce \/ Exporting \/ Importing
           \/ OpenLost \/ ExportLost \/ TargetLost \/ UNCHANGED vars
  <2>1. UNCHANGED len
    BY <1>4 DEF Plan, NextImport, Return, Produce, Exporting, Importing, OpenLost, ExportLost,
      TargetLost, vars, callVars, SendEmpty, OpenExport, OpenRefused, Forward, ForwardFails,
      ExportEnds, ProducerDone, ExportFrame, ExportReturns, PushBlock, Finish
  <2> QED
    BY <1>2, <2>1
<1> QED
  BY <1>3, <1>4 DEF Next, Call

LEMMA PlanInit == Init => PlanInv
BY DEF Init, PlanInv

LEMMA PlanStep == Typed /\ PlanInv /\ LensInv /\ [Next]_vars => PlanInv'
<1> SUFFICES ASSUME Typed, PlanInv, LensInv, [Next]_vars PROVE PlanInv'
  OBVIOUS
<1>1. CASE Plan
  <2>1. /\ probed' = len /\ request' = request
        /\ \/ /\ at' = 0 /\ result' = "error" /\ imports' = <<>>
              /\ request.kind = "split" /\ CountsRefused(len[1])
              /\ UNCHANGED <<at, producer, target>>
           \/ /\ at' = 1 /\ imports' = Assigned' /\ result' = "pending"
              /\ (request.kind = "split" => ~CountsRefused(len[1]))
              /\ producer' = "next" /\ target' = "receiving" /\ Len(imports') \in Nat \ {0}
    BY <1>1, PlanTyped
  <2>2. CountsRefused(probed[1])' <=> CountsRefused(len[1])
    BY <2>1 DEF CountsRefused
  <2>3. ASSUME CountsRefused(len[1]), request.kind = "split" PROVE BadRequest'
    <3>1. len[1] \in Nat /\ len[1] < Word /\ Word \in Nat \ {0}
      BY Constants, LengthBound
    <3>2. Total(request.counts) = len[1] => Total(request.counts) % Word = len[1]
      BY <3>1
    <3> QED
      BY <2>1, <2>3, <3>2 DEF BadRequest, CountsRefused
  <2>4. CASE at' = 0
    <3>1. /\ imports' = <<>> /\ result' = "error" /\ UNCHANGED <<at, producer, target>>
          /\ BadRequest'
      BY <2>1, <2>3, <2>4
    <3>2. at = 0 /\ UNCHANGED <<part, wire, export, frames, blocks, taken, made>>
      BY <1>1 DEF Plan
    <3> QED
      BY <2>4, <3>1, <3>2 DEF PlanInv
  <2>5. CASE at' = 1
    BY <2>1, <2>2, <2>5 DEF PlanInv
  <2> QED
    BY <2>1, <2>4, <2>5
\* The plan stands once it is made.
<1>2. ASSUME UNCHANGED <<request, probed, imports>>, at > 0, at' > 0,
             producer' # "idle", target' # "idle"
      PROVE PlanInv'
  <2>1. Assigned' = Assigned /\ (CountsRefused(probed[1])' <=> CountsRefused(probed[1]))
    BY <1>2 DEF Assigned, Counts, SplitImports, CountsRefused
  <2> QED
    BY <1>2, <2>1 DEF PlanInv
<1>3. at \in Nat
  BY DEF Typed, CallTyped, MoveTyped
<1>4. ASSUME NEW s \in Source, AddRow(s) PROVE PlanInv'
  <2>1. UNCHANGED <<request, probed, imports, result, moveVars, made, faulty>>
    BY <1>4 DEF AddRow
  <2>2. UNCHANGED <<at, producer, part, wire, export, frames, target, blocks, taken>>
    BY <2>1 DEF moveVars
  <2>3. CASE at > 0
    BY <1>2, <2>1, <2>2, <2>3 DEF PlanInv
  <2>4. CASE at = 0
    BY <2>1, <2>2, <2>4 DEF PlanInv, BadRequest
  <2> QED
    BY <1>3, <2>3, <2>4
<1>5. CASE UNCHANGED vars
  <2>1. UNCHANGED <<request, probed, imports, result, at, producer, part, wire, export,
                    frames, target, blocks, taken, made>>
    BY <1>5 DEF vars, callVars, moveVars
  <2>3. CASE at > 0
    BY <1>2, <2>1, <2>3 DEF PlanInv
  <2>4. CASE at = 0
    BY <2>1, <2>4 DEF PlanInv, BadRequest
  <2> QED
    BY <1>3, <2>3, <2>4
<1>6. CASE NextImport
  <2>1. UNCHANGED <<request, probed, imports>> /\ at > 0 /\ at' > 0
        /\ producer' # "idle" /\ target' # "idle"
    BY <1>3, <1>6 DEF NextImport, callVars
  <2> QED
    BY <1>2, <2>1
<1>7. CASE Return
  <2>1. UNCHANGED <<request, probed, imports, at, producer, target>> /\ at > 0
    BY <1>7 DEF Return, moveVars
  <2> QED
    BY <1>2, <2>1 DEF PlanInv
\* The tasks run after the plan only.
<1>8. CASE Produce \/ Exporting \/ Importing \/ OpenLost \/ ExportLost \/ TargetLost
  <2>1. UNCHANGED <<request, probed, imports, at>>
    BY <1>8 DEF Produce, Exporting, Importing, OpenLost, ExportLost,
      TargetLost, callVars, SendEmpty, OpenExport, OpenRefused, Forward, ForwardFails,
      ExportEnds, ProducerDone, ExportFrame, ExportReturns, PushBlock, Finish
  <2>2. at > 0
    <3>1. producer # "idle" \/ target # "idle" \/ export # NoExport
      BY <1>8 DEF Produce, Exporting, Importing, OpenLost, ExportLost,
        TargetLost, SendEmpty, OpenExport, OpenRefused, Forward, ForwardFails,
        ExportEnds, ProducerDone, ExportFrame, ExportReturns, PushBlock, Finish, Receiving,
        StreamEnded, NoExport
    <3> QED
      BY <1>3, <3>1 DEF PlanInv
  <2>3. producer' # "idle" /\ target' # "idle"
    <3>1. producer # "idle" /\ target # "idle"
      BY <2>2 DEF PlanInv
    <3> QED
      BY <1>8, <3>1 DEF Produce, Exporting, Importing, OpenLost, ExportLost,
        TargetLost, SendEmpty, OpenExport, OpenRefused, Forward, ForwardFails, ProducerFails,
        ExportEnds, ProducerDone, ExportFrame, ExportReturns, PushBlock, Finish, TargetFails
  <2> QED
    BY <1>2, <2>1, <2>2, <2>3
<1> QED
  BY <1>1, <1>4, <1>5, <1>6, <1>7, <1>8 DEF Next, Call

LEMMA ExportInit == Init => ExportInv
BY DEF Init, ExportInv, NoExport

LEMMA ExportStep == Typed /\ PlanInv /\ ExportInv /\ [Next]_vars => ExportInv'
<1> SUFFICES ASSUME Typed, PlanInv, ExportInv, [Next]_vars PROVE ExportInv'
  OBVIOUS
<1>0. export \in ExportType /\ at \in Nat
  BY DEF Typed, CallTyped, MoveTyped
<1>1. CASE UNCHANGED <<imports, at, part, producer, export, frames>>
  BY <1>1 DEF ExportInv, Parts, Current
<1>2. CASE Plan
  <2>1. export' = NoExport /\ frames' = <<>> /\ producer' \in {"idle", "next"}
    BY <1>2 DEF Plan, PlanInv
  <2> QED
    BY <2>1 DEF ExportInv, NoExport
<1>3. CASE NextImport
  <2>1. producer = "done" /\ producer' = "next" /\ UNCHANGED <<export, frames>>
    BY <1>3 DEF NextImport, Good
  <2> QED
    BY <2>1 DEF ExportInv
<1>4. CASE SendEmpty
  BY <1>4 DEF SendEmpty, ExportInv
<1>5. CASE OpenExport
  <2>1. at > 0 /\ part <= Len(Parts)
    BY <1>0, <1>5 DEF OpenExport, PlanInv
  <2>2. Current.start \in Nat /\ Current.count \in Nat /\ Current.count > 0
    BY <1>5, <2>1, InHand DEF OpenExport
  <2>3. /\ Parts' = Parts /\ Current' = Current /\ producer' = "pulling" /\ part' = part
        /\ export' = Started(Current)
    BY <1>5 DEF OpenExport, Parts, Current, callVars
  <2>4. /\ export'.wanted /\ export'.running /\ export'.source = Current.source
        /\ export'.next = Current.start + 1 /\ export'.end = Current.start + Current.count
    BY <2>3 DEF Started
  <2>5. Current.start + 1 \in Current.start + 1..(Current.start + Current.count) + 1
    BY <2>2
  <2> QED
    BY <2>1, <2>2, <2>3, <2>4, <2>5 DEF ExportInv
<1>6. CASE OpenRefused \/ ExportLost \/ ForwardFails
  <2>1. producer' = "failed" /\ frames' = <<>> /\ export' = [export EXCEPT !.wanted = FALSE]
    BY <1>6 DEF OpenRefused, ExportLost, ForwardFails, ProducerFails
  <2>2. export'.wanted = FALSE
    BY <1>0, <2>1, ExportMoves
  <2> QED
    BY <2>1, <2>2 DEF ExportInv
<1>7. CASE OpenLost
  <2>1. producer = "next" /\ producer' = "failed" /\ frames' = frames
    BY <1>7 DEF OpenLost
  <2>2. frames' = <<>> /\ ~export.running
    BY <2>1 DEF ExportInv
  <2>3. at > 0 /\ part <= Len(Parts)
    BY <1>0, <1>7 DEF OpenLost, PlanInv
  <2>4. Current \in PartType
    BY <2>3, InHand
  <2>5. export' = export \/ export' = [Started(Current) EXCEPT !.wanted = FALSE]
    BY <1>7 DEF OpenLost
  <2>6. ~(export'.running /\ export'.wanted)
    <3>1. [Started(Current) EXCEPT !.wanted = FALSE].wanted = FALSE
      BY <2>4, StartedTyped, ExportMoves
    <3> QED
      BY <2>2, <2>5, <3>1
  <2> QED
    BY <2>1, <2>2, <2>6 DEF ExportInv
<1>8. CASE Forward
  BY <1>8 DEF Forward, ExportInv, Parts, Current, callVars
<1>9. CASE ExportEnds
  BY <1>9 DEF ExportEnds, ExportInv
<1>10. CASE ProducerDone
  <2>1. at > 0 /\ producer = "next" /\ part > Len(Parts)
    BY <1>0, <1>10 DEF ProducerDone, PlanInv
  <2>2. part = Len(Parts) + 1
    BY <2>1, InHand
  <2>3. /\ Parts' = Parts /\ part' = part /\ UNCHANGED <<export, frames>>
        /\ producer' = "done"
    BY <1>10 DEF ProducerDone, Parts, callVars
  <2> QED
    BY <2>1, <2>2, <2>3 DEF ExportInv
<1>11. CASE ExportFrame
  <2>1. producer = "pulling" /\ export.running /\ export.wanted
    BY <1>11 DEF ExportFrame, ExportInv
  <2>2. PICK last \in export.next..export.end :
          export' = [export EXCEPT !.next = last + 1]
    BY <1>11 DEF ExportFrame
  <2>3. /\ Parts' = Parts /\ Current' = Current /\ UNCHANGED <<part, producer>>
    BY <1>11 DEF ExportFrame, Parts, Current, callVars
  <2>4. /\ part <= Len(Parts) /\ Current.count > 0
        /\ export.source = Current.source /\ export.end = Current.start + Current.count
        /\ export.next \in Current.start + 1..export.end + 1
    BY <2>1 DEF ExportInv
  <2>5. export.end \in Nat /\ export.next \in Nat /\ last \in Nat /\ last + 1 \in Nat
    BY <1>0, <2>2 DEF ExportType
  <2>6. /\ export'.wanted /\ export'.running /\ export'.source = Current.source
        /\ export'.next = last + 1 /\ export'.end = export.end
    BY <1>0, <2>1, <2>2, <2>4, <2>5, ExportAdvances
  <2>7. Current.start \in Nat
    <3>1. at > 0
      BY <1>0, <2>1 DEF PlanInv
    <3> QED
      BY <2>4, <3>1, InHand
  <2>8. last + 1 \in Current.start + 1..export.end + 1
    BY <2>2, <2>4, <2>5, <2>7
  <2> QED
    BY <2>1, <2>3, <2>4, <2>6, <2>8 DEF ExportInv
<1>12. CASE ExportReturns
  <2>1. /\ Parts' = Parts /\ Current' = Current /\ UNCHANGED <<part, producer, frames>>
        /\ export' = [export EXCEPT !.running = FALSE]
    BY <1>12 DEF ExportReturns, Parts, Current, callVars
  <2>2. /\ export'.running = FALSE /\ export'.wanted = export.wanted
        /\ export'.source = export.source /\ export'.next = export.next
        /\ export'.end = export.end
    BY <1>0, <2>1, ExportReturned
  <2>3. producer = "pulling" => export.next = export.end + 1
    <3>1. export.next > export.end \/ ~export.wanted
      BY <1>12 DEF ExportReturns
    <3>2. export.end \in Nat /\ export.next \in Nat
      BY <1>0 DEF ExportType
    <3>3. producer = "pulling" => export.wanted /\ export.next <= export.end + 1
      <4> SUFFICES ASSUME producer = "pulling" PROVE export.wanted /\ export.next <= export.end + 1
        OBVIOUS
      <4>1. at > 0
        BY <1>0 DEF PlanInv
      <4>2. export.next \in Current.start + 1..export.end + 1 /\ part <= Len(Parts) /\ export.wanted
        BY DEF ExportInv
      <4>3. Current.start \in Nat
        BY <4>1, <4>2, InHand
      <4> QED
        BY <3>2, <4>2, <4>3
    <3> QED
      BY <3>1, <3>2, <3>3
  <2> QED
    BY <2>1, <2>2, <2>3 DEF ExportInv
<1>13. CASE Return \/ PushBlock \/ Finish \/ TargetLost \/ UNCHANGED vars
             \/ (\E s \in Source : AddRow(s))
  <2>1. UNCHANGED <<imports, at, part, producer, export, frames>>
    BY <1>13 DEF Return, PushBlock, Finish, TargetLost, AddRow, vars, callVars, moveVars
  <2> QED
    BY <1>1, <2>1
<1> QED
  BY <1>2, <1>3, <1>4, <1>5, <1>6, <1>7, <1>8, <1>9, <1>10, <1>11, <1>12, <1>13
    DEF Next, Call, Produce, Exporting, Importing

--------------------------------------------------------------------------------
(* What is exported is in range, and what is made is what was planned.       *)

LEMMA FitInit == Init => FitInv
BY DEF Init, FitInv

LEMMA FitStep == Typed /\ PlanInv /\ ExportInv /\ FitInv /\ [Next]_vars => FitInv'
<1> SUFFICES ASSUME Typed, PlanInv, ExportInv, FitInv, [Next]_vars PROVE FitInv'
  OBVIOUS
<1>0. /\ at \in Nat /\ part \in Nat /\ imports \in Seq(Seq(PartType)) /\ at <= Len(imports)
      /\ len \in [Source -> Nat] /\ \A s \in Source : len[s] <= len'[s]
  BY LensGrow DEF Typed, CallTyped, MoveTyped
<1>1. len' \in [Source -> Nat]
  BY TypedStep DEF Typed, CallTyped
\* A range stays in range.
<1>2. ASSUME NEW p \in PartType, InRange(p) PROVE InRange(p)'
  <2>1. p.source \in Source /\ p.start \in Nat /\ p.count \in Nat
    BY DEF PartType
  <2>2. p.start + p.count <= len[p.source] /\ len[p.source] <= len'[p.source]
        /\ len[p.source] \in Nat /\ len'[p.source] \in Nat
    BY <1>0, <1>1, <1>2, <2>1 DEF InRange
  <2>3. p.start + p.count <= len'[p.source]
    BY <2>1, <2>2
  <2> QED
    BY <2>3 DEF InRange
<1>3. ASSUME NEW t \in 1..Len(imports), NEW j \in 1..Len(imports[t]) PROVE imports[t][j] \in PartType
  BY <1>0
\* So only parts newly counted matter.
<1>4. ASSUME imports' = imports,
             \A t \in 1..at' : \A j \in 1..Len(imports[t]) :
               /\ t < at' \/ j < part' \/ (j = part' /\ producer' = "pulling")
               /\ imports[t][j].count > 0
               => \/ InRange(imports[t][j])
                  \/ t \in 1..at
                     /\ (t < at \/ j < part \/ (j = part /\ producer = "pulling")),
             at' \in 0..Len(imports)
      PROVE FitInv'
  <2> SUFFICES ASSUME NEW t \in 1..at', NEW j \in 1..Len(imports[t]),
                      t < at' \/ j < part' \/ (j = part' /\ producer' = "pulling"),
                      imports[t][j].count > 0
               PROVE InRange(imports[t][j])'
    BY <1>4 DEF FitInv
  <2>1. InRange(imports[t][j])
    BY <1>4 DEF FitInv
  <2>2. imports[t][j] \in PartType
    BY <1>0, <1>3, <1>4
  <2>3. imports'[t][j] = imports[t][j]
    BY <1>4
  <2>4. \A q \in PartType : InRange(q) => q.start + q.count <= len'[q.source]
    BY <1>2 DEF InRange
  <2> QED
    BY <1>4, <2>1, <2>2, <2>4 DEF InRange
<1>5. CASE Plan
  <2>1. at' = 0 \/ (at' = 1 /\ part' = 1 /\ producer' = "next")
    BY <1>5, PlanTyped DEF Plan, PlanInv
  <2>2. CASE at' = 0
    BY <2>2 DEF FitInv
  <2>3. CASE at' = 1 /\ part' = 1 /\ producer' = "next"
    BY <2>3 DEF FitInv
  <2> QED
    BY <2>1, <2>2, <2>3
<1>6. CASE NextImport
  <2>1. /\ imports' = imports /\ at' = at + 1 /\ at' \in 0..Len(imports) /\ part' = 1
        /\ producer' = "next" /\ producer = "done" /\ at > 0
    BY <1>0, <1>6 DEF NextImport, Good, callVars
  <2>2. part = Len(imports[at]) + 1
    BY <2>1 DEF ExportInv, Parts
  <2>3. ASSUME NEW t \in 1..at', NEW j \in 1..Len(imports[t]),
               t < at' \/ j < part' \/ (j = part' /\ producer' = "pulling")
        PROVE t \in 1..at /\ (t < at \/ j < part)
    BY <1>0, <2>1, <2>2, <2>3
  <2> QED
    BY <1>4, <2>1, <2>3
<1>7. CASE SendEmpty
  <2>1. /\ imports' = imports /\ at' = at /\ part' = part + 1 /\ producer' = producer
        /\ producer = "next" /\ Current.count = 0
    BY <1>7 DEF SendEmpty, callVars
  <2>2. ASSUME NEW t \in 1..at', NEW j \in 1..Len(imports[t]),
               t < at' \/ j < part' \/ (j = part' /\ producer' = "pulling"),
               imports[t][j].count > 0
        PROVE t \in 1..at /\ (t < at \/ j < part)
    <3>1. CASE t < at
      BY <2>1, <3>1
    <3>2. CASE t = at
      <4>1. j # part
        BY <2>1, <2>2, <3>2 DEF Current, Parts
      <4> QED
        BY <1>0, <2>1, <2>2, <3>2, <4>1
    <3> QED
      BY <1>0, <2>1, <3>1, <3>2
  <2> QED
    BY <1>0, <1>4, <2>1, <2>2
<1>8. CASE OpenExport
  <2>1. /\ imports' = imports /\ at' = at /\ part' = part /\ InRange(Current)
    BY <1>8 DEF OpenExport, callVars
  <2>2. ASSUME NEW t \in 1..at', NEW j \in 1..Len(imports[t]),
               t < at' \/ j < part' \/ (j = part' /\ producer' = "pulling")
        PROVE InRange(imports[t][j]) \/ (t \in 1..at /\ (t < at \/ j < part))
    <3>1. CASE t < at
      BY <2>1, <3>1
    <3>2. CASE t = at
      <4>1. j < part \/ j = part
        BY <1>0, <2>1, <2>2, <3>2
      <4> QED
        BY <2>1, <2>2, <3>2, <4>1 DEF Current, Parts
    <3> QED
      BY <1>0, <2>1, <3>1, <3>2
  <2> QED
    BY <1>0, <1>4, <2>1, <2>2
<1>9. CASE ExportEnds
  <2>1. /\ imports' = imports /\ at' = at /\ part' = part + 1 /\ producer = "pulling"
        /\ producer' = "next"
    BY <1>9 DEF ExportEnds, callVars
  <2>2. ASSUME NEW t \in 1..at', NEW j \in 1..Len(imports[t]),
               t < at' \/ j < part' \/ (j = part' /\ producer' = "pulling")
        PROVE t \in 1..at /\ (t < at \/ j < part \/ (j = part /\ producer = "pulling"))
    BY <1>0, <2>1, <2>2
  <2> QED
    BY <1>0, <1>4, <2>1, <2>2
<1>10. CASE \/ Return \/ OpenRefused \/ Forward \/ ForwardFails \/ ProducerDone
            \/ Exporting \/ Importing \/ OpenLost \/ ExportLost \/ TargetLost
            \/ (\E s \in Source : AddRow(s)) \/ UNCHANGED vars
  <2>1. /\ UNCHANGED <<imports, at, part>>
        /\ (producer' = producer \/ producer' # "pulling")
    BY <1>10 DEF Return, OpenRefused, Forward, ForwardFails, ProducerDone, ProducerFails,
      Exporting, Importing, OpenLost, ExportLost, TargetLost, AddRow, ExportFrame,
      ExportReturns, PushBlock, Finish, vars, callVars, moveVars
  <2>2. ASSUME NEW t \in 1..at', NEW j \in 1..Len(imports[t]),
               t < at' \/ j < part' \/ (j = part' /\ producer' = "pulling")
        PROVE t \in 1..at /\ (t < at \/ j < part \/ (j = part /\ producer = "pulling"))
    BY <2>1, <2>2
  <2> QED
    BY <1>0, <1>4, <2>1, <2>2
<1> QED
  BY <1>5, <1>6, <1>7, <1>8, <1>9, <1>10 DEF Next, Call, Produce

LEMMA MadeInit == Init => MadeInv
<1> SUFFICES ASSUME Init PROVE MadeInv
  OBVIOUS
<1>1. at = 0 /\ made = <<>> /\ imports = <<>>
  BY DEF Init
<1>2. Len(made) = 0 /\ Len(imports) = 0
  BY <1>1
<1> QED
  BY <1>1, <1>2 DEF MadeInv

LEMMA PlannedIs ==
  ASSUME NEW t \in 1..Len(imports), Typed
  PROVE Planned[t] = RowsOfParts(imports[t]) /\ Planned[t] \in Seq(RowType)
<1>1. imports \in Seq(Seq(PartType)) /\ imports[t] # <<>>
  BY DEF Typed, CallTyped
<1>2. imports[t] \in Seq(PartType) /\ t \in DOMAIN imports
  BY <1>1
<1>3. Planned[t] = RowsOfParts(imports[t])
  BY <1>2 DEF Planned, RowsOfParts
<1> QED
  BY <1>1, <1>2, <1>3, PartsLayout

LEMMA MadeStep == Typed /\ PlanInv /\ MadeInv /\ FlowInv /\ [Next]_vars => MadeInv'
<1> SUFFICES ASSUME Typed, PlanInv, MadeInv, FlowInv, [Next]_vars PROVE MadeInv'
  OBVIOUS
<1>0. /\ at \in Nat /\ imports \in Seq(Seq(PartType)) /\ at <= Len(imports)
      /\ made \in Seq(Seq(RowType)) /\ taken \in Seq(RowType) /\ Len(made) \in Nat
  BY DEF Typed, CallTyped, MoveTyped, MadeTyped
<1>1. ASSUME UNCHANGED <<imports, made, at, target>> PROVE MadeInv'
  <2>1. Planned' = Planned
    BY <1>1 DEF Planned
  <2> QED
    BY <1>1, <2>1 DEF MadeInv
<1>2. CASE Plan
  <2>1. at = 0 /\ made = <<>> /\ made' = <<>> /\ (at' = 0 \/ (at' = 1 /\ target' = "receiving"))
    BY <1>2, PlanTyped DEF Plan, PlanInv
  <2>2. imports' \in Seq(Seq(PartType))
    BY <1>2, PlanTyped DEF CallTyped
  <2>3. Len(made') = 0 /\ Len(imports') \in Nat
    BY <2>1, <2>2
  <2> QED
    BY <2>1, <2>3 DEF MadeInv
<1>3. CASE NextImport
  <2>1. /\ at > 0 /\ target = "activated" /\ at' = at + 1 /\ target' = "receiving"
        /\ UNCHANGED <<imports, made>>
    BY <1>3 DEF NextImport, Good, callVars
  <2>2. Planned' = Planned
    BY <2>1 DEF Planned
  <2> QED
    BY <1>0, <2>1, <2>2 DEF MadeInv
<1>4. CASE Finish /\ made' # made
  <2>1. /\ target = "receiving" /\ at' = at /\ imports' = imports /\ target' = "activated"
        /\ made' = Append(made, taken) /\ Len(taken) = Expected(Parts)
    BY <1>4 DEF Finish, StreamEnded, Receiving, callVars
  <2>2. at > 0
    BY <1>0, <2>1 DEF PlanInv
  <2>3. at \in 1..Len(imports) /\ Parts \in Seq(PartType) /\ Parts # <<>> /\ Len(made) = at - 1
    BY <2>1, <2>2, InHand DEF MadeInv
  <2>4. Planned[at] = RowsOfParts(Parts) /\ Planned[at] \in Seq(RowType)
    BY <2>3, PlannedIs DEF Parts
  <2>5. Len(Planned[at]) = Len(taken)
    BY <2>1, <2>3, <2>4, PartsLayout
  <2>6. taken = SubSeq(Planned[at], 1, Len(taken))
    BY <2>1 DEF FlowInv
  <2>7. taken = Planned[at]
    BY <2>4, <2>5, <2>6
  <2>8. Planned' = Planned
    BY <2>1 DEF Planned
  <2>9. Len(made') = at /\ \A t \in 1..at : made'[t] = IF t = at THEN taken ELSE made[t]
    BY <1>0, <2>1, <2>3
  <2>10. \A t \in 1..Len(made') : made'[t] = Planned'[t]
    <3> SUFFICES ASSUME NEW t \in 1..at PROVE made'[t] = Planned[t]
      BY <2>8, <2>9
    <3>1. CASE t = at
      BY <2>7, <2>9, <3>1
    <3>2. CASE t # at
      <4>1. t \in 1..Len(made)
        BY <1>0, <2>3, <3>2
      <4> QED
        BY <2>9, <3>2, <4>1 DEF MadeInv
    <3> QED
      BY <3>1, <3>2
  <2> QED
    BY <1>0, <2>1, <2>9, <2>10 DEF MadeInv
\* A target that fails, or is lost, leaves what it made.
<1>5. ASSUME UNCHANGED <<imports, made, at>>, target' = "failed" PROVE MadeInv'
  <2>1. Planned' = Planned
    BY <1>5 DEF Planned
  <2> QED
    BY <1>5, <2>1 DEF MadeInv
<1>6. CASE (Finish /\ made' = made) \/ PushBlock \/ TargetLost
  <2>1. UNCHANGED <<imports, made, at>>
    BY <1>6 DEF Finish, PushBlock, TargetLost, callVars
  <2>2. target' = target \/ target' = "failed"
    <3>1. made # Append(made, taken)
      <4>1. Len(Append(made, taken)) = Len(made) + 1
        BY <1>0
      <4> QED
        BY <1>0, <4>1
    <3> QED
      BY <1>6, <3>1 DEF Finish, PushBlock, TargetLost, TargetFails
  <2> QED
    BY <1>1, <1>5, <2>1, <2>2
<1>7. CASE Return \/ Produce \/ Exporting \/ OpenLost \/ ExportLost
            \/ (\E s \in Source : AddRow(s)) \/ UNCHANGED vars
  <2>1. UNCHANGED <<imports, made, at, target>>
    BY <1>7 DEF Return, Produce, OpenRefused, Forward, ForwardFails, ProducerDone, SendEmpty,
      OpenExport, ExportEnds,
      Exporting, OpenLost, ExportLost, AddRow, ExportFrame, ExportReturns, vars, callVars, moveVars
  <2> QED
    BY <1>1, <2>1
<1> QED
  BY <1>2, <1>3, <1>4, <1>6, <1>7 DEF Next, Call, Importing

--------------------------------------------------------------------------------
(* The rows on their way.                                                    *)

\* x is the rows after the first a, up to the b-th.
Stretch(rows, a, b, x) ==
  b \in 0..Len(rows) /\ a <= b /\ x \in Seq(RowType) /\ x = SubSeq(rows, a + 1, b)

\* What is in flight ends with the a-th row.
Reaches(rows, had, flow, a) ==
  \E cut \in Seq(0..Len(rows)) : Cuts(rows, had, flow, cut) /\ cut[Len(cut)] = a

LEMMA CutsAppend ==
  ASSUME NEW rows \in Seq(RowType), NEW had, NEW flow \in Seq(Seq(RowType)),
         NEW a, Reaches(rows, had, flow, a), NEW b, NEW x, Stretch(rows, a, b, x)
  PROVE Reaches(rows, had, Append(flow, x), b)
<1> PICK cut \in Seq(0..Len(rows)) : Cuts(rows, had, flow, cut) /\ cut[Len(cut)] = a
  BY DEF Reaches
<1>0. /\ b \in 0..Len(rows) /\ cut[Len(cut)] <= b /\ x \in Seq(RowType)
      /\ x = SubSeq(rows, cut[Len(cut)] + 1, b)
  BY DEF Stretch
<1> DEFINE f == Append(flow, x)
           c == Append(cut, b)
<1>1. /\ cut \in Seq(0..Len(rows)) /\ Len(cut) = Len(flow) + 1 /\ cut[1] = had
      /\ \A i \in 1..Len(flow) :
           cut[i] <= cut[i + 1] /\ flow[i] = SubSeq(rows, cut[i] + 1, cut[i + 1])
  BY DEF Cuts
<1>2. /\ c \in Seq(0..Len(rows)) /\ Len(c) = Len(cut) + 1 /\ c[Len(c)] = b
      /\ \A i \in 1..Len(cut) : c[i] = cut[i]
  BY <1>0, <1>1
<1>3. /\ f \in Seq(Seq(RowType)) /\ Len(f) = Len(flow) + 1 /\ f[Len(f)] = x
      /\ \A i \in 1..Len(flow) : f[i] = flow[i]
  <2> DEFINE S == Seq(RowType)
  <2>1. flow \in Seq(S) /\ x \in S
    BY <1>0
  <2> HIDE DEF S
  <2>2. f \in Seq(S) /\ Len(f) = Len(flow) + 1 /\ f[Len(f)] = x
        /\ \A i \in 1..Len(flow) : f[i] = flow[i]
    BY <2>1
  <2> QED
    BY <2>2 DEF S
<1> HIDE DEF f, c
<1>4. Len(flow) \in Nat
  OBVIOUS
<1>5. c[1] = had
  BY <1>1, <1>2, <1>4
<1>6. ASSUME NEW i \in 1..Len(f)
      PROVE c[i] <= c[i + 1] /\ f[i] = SubSeq(rows, c[i] + 1, c[i + 1])
  <2>1. CASE i = Len(f)
    <3>1. i = Len(cut) /\ i + 1 = Len(c) /\ i \in 1..Len(cut)
      BY <1>1, <1>2, <1>3, <1>4, <2>1
    <3>2. c[i] = cut[Len(cut)]
      BY <1>2, <3>1
    <3>3. c[i + 1] = b
      BY <1>2, <3>1
    <3>4. f[i] = x
      BY <1>3, <2>1
    <3>5. c[i] <= c[i + 1]
      BY <1>0, <3>2, <3>3
    <3>6. f[i] = SubSeq(rows, c[i] + 1, c[i + 1])
      BY <1>0, <3>2, <3>3, <3>4
    <3> QED
      BY <3>5, <3>6
  <2>2. CASE i # Len(f)
    <3>0. Len(cut) = Len(flow) + 1 /\ Len(f) = Len(flow) + 1
      BY <1>1, <1>3
    <3>1. i \in 1..Len(flow) /\ i \in 1..Len(cut) /\ i + 1 \in 1..Len(cut)
      BY <1>4, <2>2, <3>0
    <3>2. c[i] = cut[i] /\ c[i + 1] = cut[i + 1] /\ f[i] = flow[i]
      BY <1>2, <1>3, <3>1
    <3> QED
      BY <1>1, <3>1, <3>2
  <2> QED
    BY <2>1, <2>2
<1>7. Len(c) = Len(f) + 1
  BY <1>1, <1>2, <1>3
<1>8. Cuts(rows, had, f, c)
  BY <1>2, <1>5, <1>6, <1>7 DEF Cuts
<1> QED
  BY <1>2, <1>8 DEF f, Reaches

LEMMA CutsTail ==
  ASSUME NEW rows \in Seq(RowType), NEW had, NEW flow \in Seq(Seq(RowType)),
         NEW cut, Cuts(rows, had, flow, cut), flow # <<>>
  PROVE /\ had \in 0..Len(rows) /\ cut[2] \in 0..Len(rows) /\ had <= cut[2]
        /\ Head(flow) = SubSeq(rows, had + 1, cut[2])
        /\ Tail(cut) \in Seq(0..Len(rows))
        /\ Cuts(rows, cut[2], Tail(flow), Tail(cut))
        /\ Tail(cut)[Len(Tail(cut))] = cut[Len(cut)]
<1> DEFINE f == Tail(flow)
           c == Tail(cut)
<1>1. /\ cut \in Seq(0..Len(rows)) /\ Len(cut) = Len(flow) + 1 /\ cut[1] = had
      /\ \A i \in 1..Len(flow) :
           cut[i] <= cut[i + 1] /\ flow[i] = SubSeq(rows, cut[i] + 1, cut[i + 1])
  BY DEF Cuts
<1>2. Len(flow) \in Nat /\ Len(flow) > 0 /\ Head(flow) = flow[1]
  OBVIOUS
<1>3. cut # <<>> /\ 1 \in 1..Len(cut) /\ 2 \in 1..Len(cut) /\ Len(cut) \in Nat
  BY <1>1, <1>2
<1>4. /\ c \in Seq(0..Len(rows)) /\ Len(c) = Len(cut) - 1
      /\ \A i \in 1..Len(c) : c[i] = cut[i + 1]
  BY <1>1, <1>3
<1>5. /\ f \in Seq(Seq(RowType)) /\ Len(f) = Len(flow) - 1
      /\ \A i \in 1..Len(f) : f[i] = flow[i + 1]
  BY <1>2
<1> HIDE DEF f, c
<1>6. ASSUME NEW i \in 1..Len(f)
      PROVE c[i] <= c[i + 1] /\ f[i] = SubSeq(rows, c[i] + 1, c[i + 1])
  <2>1. i \in 1..Len(c) /\ i + 1 \in 1..Len(c) /\ i + 1 \in 1..Len(flow)
    BY <1>1, <1>2, <1>4, <1>5
  <2>2. c[i] = cut[i + 1] /\ c[i + 1] = cut[(i + 1) + 1] /\ f[i] = flow[i + 1]
    BY <1>4, <1>5, <2>1
  <2> QED
    BY <1>1, <2>1, <2>2
<1>7. c[1] = cut[2] /\ c[Len(c)] = cut[Len(cut)] /\ Len(c) = Len(f) + 1
  <2>1. 1 \in 1..Len(c) /\ Len(c) \in 1..Len(c) /\ Len(c) + 1 = Len(cut)
    BY <1>1, <1>2, <1>4
  <2>2. c[1] = cut[1 + 1] /\ c[Len(c)] = cut[Len(c) + 1]
    BY <1>4, <2>1
  <2>3. Len(c) = Len(f) + 1
    BY <1>1, <1>4, <1>5
  <2> QED
    BY <2>1, <2>2, <2>3
<1>8. had \in 0..Len(rows) /\ cut[2] \in 0..Len(rows) /\ had <= cut[2]
      /\ Head(flow) = SubSeq(rows, had + 1, cut[2])
  <2>1. 1 \in 1..Len(flow) /\ 1 + 1 = 2
    BY <1>2
  <2>2. cut[1] <= cut[2] /\ flow[1] = SubSeq(rows, cut[1] + 1, cut[2])
    BY <1>1, <2>1
  <2>3. cut[1] \in 0..Len(rows) /\ cut[2] \in 0..Len(rows)
    BY <1>1, <1>3
  <2> QED
    BY <1>1, <1>2, <2>2, <2>3
<1>9. Cuts(rows, cut[2], f, c)
  BY <1>4, <1>6, <1>7 DEF Cuts
<1> QED
  BY <1>4, <1>7, <1>8, <1>9 DEF c, f

LEMMA CutsPrefix ==
  ASSUME NEW rows \in Seq(RowType), NEW had, NEW flow \in Seq(Seq(RowType)),
         NEW rest \in Seq(Seq(RowType)), NEW cut, Cuts(rows, had, flow \o rest, cut)
  PROVE \E c \in Seq(0..Len(rows)) : Cuts(rows, had, flow, c)
<1> DEFINE all == flow \o rest
           n == Len(flow)
           c == SubSeq(cut, 1, n + 1)
<1>1. /\ Len(all) = n + Len(rest) /\ n \in Nat /\ Len(rest) \in Nat
      /\ \A i \in 1..n : all[i] = flow[i]
  OBVIOUS
<1> HIDE DEF all
<1>2. /\ cut \in Seq(0..Len(rows)) /\ Len(cut) = Len(all) + 1 /\ cut[1] = had
      /\ \A i \in 1..Len(all) :
           cut[i] <= cut[i + 1] /\ all[i] = SubSeq(rows, cut[i] + 1, cut[i + 1])
  BY DEF Cuts, all
<1>3. n + 1 \in 1..Len(cut)
  BY <1>1, <1>2
<1>4. /\ c \in Seq(0..Len(rows)) /\ Len(c) = n + 1 /\ \A i \in 1..n + 1 : c[i] = cut[i]
  BY <1>2, <1>3
<1> HIDE DEF c
<1>5. ASSUME NEW i \in 1..n
      PROVE c[i] <= c[i + 1] /\ flow[i] = SubSeq(rows, c[i] + 1, c[i + 1])
  <2>1. i \in 1..n + 1 /\ i + 1 \in 1..n + 1 /\ i \in 1..Len(all)
    BY <1>1
  <2>2. c[i] = cut[i] /\ c[i + 1] = cut[i + 1] /\ all[i] = flow[i]
    BY <1>1, <1>4, <2>1
  <2> QED
    BY <1>2, <2>1, <2>2
<1>6. c[1] = had
  <2> 1 \in 1..n + 1
    BY <1>1
  <2> QED
    BY <1>2, <1>4
<1>7. Cuts(rows, had, flow, c)
  BY <1>4, <1>5, <1>6 DEF Cuts
<1> QED
  BY <1>4, <1>7

\* Two neighbouring stretches are one.
LEMMA Joined ==
  ASSUME NEW rows \in Seq(RowType), NEW a \in 0..Len(rows), NEW b \in 0..Len(rows), a <= b
  PROVE /\ SubSeq(rows, 1, a) \o SubSeq(rows, a + 1, b) = SubSeq(rows, 1, b)
        /\ Len(SubSeq(rows, 1, b)) = b /\ Len(SubSeq(rows, a + 1, b)) = b - a
        /\ Len(SubSeq(rows, 1, a)) = a
<1> DEFINE s == SubSeq(rows, 1, a)
           t == SubSeq(rows, a + 1, b)
           u == SubSeq(rows, 1, b)
<1>1. s \in Seq(RowType) /\ Len(s) = a /\ \A i \in 1..a : s[i] = rows[i]
  OBVIOUS
<1>2. t \in Seq(RowType) /\ Len(t) = b - a /\ \A i \in 1..b - a : t[i] = rows[a + i]
  <2> DEFINE m == a + 1
  <2>1. m \in Int /\ b \in Int /\ \A i \in m..b : rows[i] \in RowType
    BY ElementOfSeq
  <2> HIDE DEF m
  <2>2. /\ t \in Seq(RowType) /\ Len(t) = (IF m <= b THEN b - m + 1 ELSE 0)
        /\ \A i \in 1..b - m + 1 : t[i] = rows[m + i - 1]
    BY <2>1, SubSeqProperties DEF m
  <2> QED
    BY <2>2 DEF m
<1>3. u \in Seq(RowType) /\ Len(u) = b /\ \A i \in 1..b : u[i] = rows[i]
  OBVIOUS
<1> HIDE DEF s, t, u
<1>4. s \o t \in Seq(RowType) /\ Len(s \o t) = b
      /\ \A i \in 1..b : (s \o t)[i] = IF i <= a THEN s[i] ELSE t[i - a]
  <2>1. /\ s \o t \in Seq(RowType) /\ Len(s \o t) = Len(s) + Len(t)
        /\ \A i \in 1..Len(s) + Len(t) :
             (s \o t)[i] = IF i <= Len(s) THEN s[i] ELSE t[i - Len(s)]
    BY <1>1, <1>2, ConcatProperties
  <2>2. Len(s) + Len(t) = b /\ Len(s) = a
    BY <1>1, <1>2
  <2> QED
    BY <2>1, <2>2
<1>5. ASSUME NEW i \in 1..b PROVE (s \o t)[i] = u[i]
  <2>1. CASE i <= a
    BY <1>1, <1>3, <1>4, <2>1
  <2>2. CASE ~(i <= a)
    <3>1. i - a \in 1..b - a /\ a + (i - a) = i
      BY <2>2
    <3> QED
      BY <1>2, <1>3, <1>4, <2>2, <3>1
  <2> QED
    BY <2>1, <2>2
<1>6. s \o t = u
  <2> DEFINE v == s \o t
  <2>1. v \in Seq(RowType) /\ Len(v) = Len(u) /\ \A i \in 1..Len(v) : v[i] = u[i]
    BY <1>3, <1>4, <1>5
  <2> HIDE DEF v
  <2>2. v = u
    BY <1>3, <2>1, SeqEqual
  <2> QED
    BY <2>2 DEF v
<1> QED
  BY <1>1, <1>2, <1>3, <1>6 DEF s, t, u

\* The channel and the frames of the export, one after the other.
LEMMA TransitIs ==
  ASSUME NEW S, NEW w \in Seq(S), NEW f \in Seq(S), NEW x \in S
  PROVE /\ w \o f \in Seq(S) /\ w \o <<>> = w /\ Append(w, x) \o <<>> = Append(w, x)
        /\ w \o Append(f, x) = Append(w \o f, x)
        /\ f # <<>> => Append(w, Head(f)) \o Tail(f) = w \o f
        /\ w # <<>> =>
             w \o f # <<>> /\ Head(w \o f) = Head(w) /\ Tail(w \o f) = Tail(w) \o f
<1>1. w \o f \in Seq(S) /\ w \o <<>> = w /\ Append(w, x) \o <<>> = Append(w, x)
  OBVIOUS
<1>2. w \o Append(f, x) = Append(w \o f, x)
  <2> DEFINE a == w \o Append(f, x)
             b == Append(w \o f, x)
  <2>1. a \in Seq(S) /\ b \in Seq(S) /\ Len(a) = Len(b) /\ Len(a) = Len(w) + Len(f) + 1
    OBVIOUS
  <2>2. ASSUME NEW i \in 1..Len(w) + Len(f) + 1 PROVE a[i] = b[i]
    <3>1. CASE i <= Len(w)
      BY <3>1
    <3>2. CASE ~(i <= Len(w)) /\ i <= Len(w) + Len(f)
      BY <3>2
    <3>3. CASE i = Len(w) + Len(f) + 1
      BY <3>3
    <3> QED
      BY <3>1, <3>2, <3>3
  <2> HIDE DEF a, b
  <2>3. \A i \in 1..Len(a) : a[i] = b[i]
    BY <2>1, <2>2
  <2>4. a = b
    BY <2>1, <2>3, SeqEqual
  <2> QED
    BY <2>4 DEF a, b
<1>3. ASSUME f # <<>> PROVE Append(w, Head(f)) \o Tail(f) = w \o f
  <2> DEFINE a == Append(w, Head(f)) \o Tail(f)
             b == w \o f
  <2>0. Head(f) \in S /\ Tail(f) \in Seq(S) /\ Len(Tail(f)) = Len(f) - 1 /\ Head(f) = f[1]
        /\ Len(f) \in Nat \ {0} /\ \A i \in 1..Len(f) - 1 : Tail(f)[i] = f[i + 1]
    BY <1>3
  <2>1. a \in Seq(S) /\ b \in Seq(S) /\ Len(b) = Len(w) + Len(f) /\ Len(a) = Len(w) + Len(f)
    BY <2>0
  <2>2. ASSUME NEW i \in 1..Len(w) + Len(f) PROVE a[i] = b[i]
    <3>1. CASE i <= Len(w)
      BY <2>0, <3>1
    <3>2. CASE i = Len(w) + 1
      <4>1. a[i] = Head(f)
        BY <2>0, <3>2
      <4>2. b[i] = f[1]
        BY <2>0, <3>2
      <4> QED
        BY <2>0, <4>1, <4>2
    <3>3. CASE i > Len(w) + 1
      <4>1. i - Len(w) - 1 \in 1..Len(f) - 1 /\ i - Len(w) \in 1..Len(f)
            /\ (i - Len(w) - 1) + 1 = i - Len(w) /\ i - (Len(w) + 1) = i - Len(w) - 1
        BY <2>0, <3>3
      <4>2. a[i] = Tail(f)[i - Len(w) - 1]
        <5>1. Append(w, Head(f)) \in Seq(S) /\ Len(Append(w, Head(f))) = Len(w) + 1
          BY <2>0
        <5> DEFINE v == Append(w, Head(f))
                   u == Tail(f)
        <5> HIDE DEF v, u
        <5>2. v \in Seq(S) /\ Len(v) = Len(w) + 1 /\ u \in Seq(S) /\ Len(u) = Len(f) - 1
          BY <2>0, <5>1 DEF u, v
        <5>3. (v \o u)[i] = u[i - Len(v)]
          BY <2>0, <3>3, <5>2
        <5> QED
          BY <4>1, <5>2, <5>3 DEF u, v
      <4>3. Tail(f)[i - Len(w) - 1] = f[i - Len(w)]
        BY <2>0, <4>1
      <4>4. b[i] = f[i - Len(w)]
        BY <3>3, <4>1
      <4> QED
        BY <4>2, <4>3, <4>4
    <3>4. i \in Nat /\ Len(w) \in Nat
      BY <2>0
    <3> HIDE DEF a, b
    <3> QED
      BY <3>1, <3>2, <3>3, <3>4
  <2> HIDE DEF a, b
  <2>3. \A i \in 1..Len(a) : a[i] = b[i]
    BY <2>1, <2>2
  <2>4. a = b
    BY <2>1, <2>3, SeqEqual
  <2> QED
    BY <2>4 DEF a, b
<1>4. ASSUME w # <<>>
      PROVE w \o f # <<>> /\ Head(w \o f) = Head(w) /\ Tail(w \o f) = Tail(w) \o f
  <2>1. Len(w) \in Nat \ {0} /\ Len(f) \in Nat
    BY <1>4
  <2>2. w \o f # <<>> /\ Head(w \o f) = Head(w)
    BY <1>4, <2>1
  <2> DEFINE a == Tail(w \o f)
             b == Tail(w) \o f
  <2>3. Tail(w) \in Seq(S) /\ Len(Tail(w)) = Len(w) - 1
        /\ \A i \in 1..Len(w) - 1 : Tail(w)[i] = w[i + 1]
    BY <1>4, <2>1
  <2> DEFINE c == w \o f
  <2>4. c \in Seq(S) /\ Len(c) = Len(w) + Len(f) /\ c # <<>>
        /\ \A i \in 1..Len(w) + Len(f) : c[i] = IF i <= Len(w) THEN w[i] ELSE f[i - Len(w)]
    BY <2>1, <2>2
  <2> HIDE DEF c
  <2>5. /\ a \in Seq(S) /\ Len(a) = Len(w) + Len(f) - 1
        /\ \A i \in 1..Len(w) + Len(f) - 1 : a[i] = c[i + 1]
    <3>1. /\ Tail(c) \in Seq(S) /\ Len(Tail(c)) = Len(w) + Len(f) - 1
          /\ \A i \in 1..Len(w) + Len(f) - 1 : Tail(c)[i] = c[i + 1]
      BY <2>1, <2>4
    <3> QED
      BY <3>1 DEF c
  <2> DEFINE d == Tail(w)
  <2>6. d \in Seq(S) /\ Len(d) = Len(w) - 1 /\ \A i \in 1..Len(w) - 1 : d[i] = w[i + 1]
    BY <2>3
  <2> HIDE DEF d
  <2>7. /\ d \o f \in Seq(S) /\ Len(d \o f) = Len(w) + Len(f) - 1
        /\ \A i \in 1..Len(w) + Len(f) - 1 :
             (d \o f)[i] = IF i <= Len(w) - 1 THEN d[i] ELSE f[i - (Len(w) - 1)]
    <3>1. /\ d \o f \in Seq(S) /\ Len(d \o f) = Len(d) + Len(f)
          /\ \A i \in 1..Len(d) + Len(f) :
               (d \o f)[i] = IF i <= Len(d) THEN d[i] ELSE f[i - Len(d)]
      BY <2>6, ConcatProperties
    <3>2. Len(d) + Len(f) = Len(w) + Len(f) - 1 /\ Len(d) = Len(w) - 1
      BY <2>1, <2>6
    <3> QED
      BY <3>1, <3>2
  <2>8. b = d \o f
    BY DEF d
  <2> HIDE DEF a, b
  <2>9. ASSUME NEW i \in 1..Len(w) + Len(f) - 1 PROVE a[i] = b[i]
    <3>1. i + 1 \in 1..Len(w) + Len(f) /\ (i + 1) - Len(w) = i - (Len(w) - 1)
      BY <2>1
    <3>2. CASE i <= Len(w) - 1
      BY <2>1, <2>4, <2>5, <2>6, <2>7, <2>8, <3>1, <3>2
    <3>3. CASE ~(i <= Len(w) - 1)
      BY <2>1, <2>4, <2>5, <2>7, <2>8, <3>1, <3>3
    <3> QED
      BY <3>2, <3>3
  <2>10. a = b
    BY <2>5, <2>7, <2>8, <2>9, SeqEqual
  <2> QED
    BY <2>2, <2>10 DEF a, b
<1> QED
  BY <1>1, <1>2, <1>3, <1>4

\* Where the part in hand is in its import.
LEMMA PartInPlan ==
  ASSUME Typed, at > 0
  PROVE /\ Planned[at] \in Seq(RowType) /\ Len(Planned[at]) = Expected(Parts)
        /\ Upto(PartCounts(Parts), part - 1) \in 0..Len(Planned[at])
        /\ part = Len(Parts) + 1 => Upto(PartCounts(Parts), part - 1) = Len(Planned[at])
        /\ part <= Len(Parts) =>
             /\ Upto(PartCounts(Parts), part)
                  = Upto(PartCounts(Parts), part - 1) + Current.count
             /\ Upto(PartCounts(Parts), part) \in 0..Len(Planned[at])
             /\ \A n \in 1..Current.count :
                  Planned[at][Upto(PartCounts(Parts), part - 1) + n]
                    = <<Current.source, Current.start + n>>
<1> DEFINE rows == Planned[at]
           c == PartCounts(Parts)
<1>1. /\ at \in 1..Len(imports) /\ Parts \in Seq(PartType) /\ Parts # <<>>
      /\ Len(Parts) \in Nat /\ part \in 1..Len(Parts) + 1
  BY InHand
<1>2. rows = RowsOfParts(Parts) /\ rows \in Seq(RowType)
  BY <1>1, PlannedIs DEF Parts
<1>3. /\ Len(rows) = Expected(Parts) /\ c \in Seq(Nat) /\ Len(c) = Len(Parts)
      /\ Expected(Parts) = Total(c)
      /\ \A j \in 1..Len(Parts) : \A n \in 1..Parts[j].count :
           rows[Upto(c, j - 1) + n] = <<Parts[j].source, Parts[j].start + n>>
  BY <1>1, <1>2, PartsLayout
<1>4. \A j \in 1..Len(Parts) : c[j] = Parts[j].count
  BY <1>1 DEF PartCounts
<1> HIDE DEF rows, c
<1>5. \A n \in 0..Len(c) : Upto(c, n) \in Nat /\ Upto(c, n) <= Upto(c, Len(c))
  <2> SUFFICES ASSUME NEW n \in 0..Len(c)
               PROVE Upto(c, n) \in Nat /\ Upto(c, n) <= Upto(c, Len(c))
    OBVIOUS
  <2>1. Len(c) \in n..Len(c)
    BY <1>1, <1>3
  <2> QED
    BY <1>3, <2>1, UptoIs, UptoGrows
<1>6. Upto(c, Len(c)) = Len(rows) /\ Len(rows) \in Nat
  BY <1>2, <1>3, UptoIs
<1>7. part - 1 \in 0..Len(c)
  BY <1>1, <1>3
<1>8. Upto(c, part - 1) \in 0..Len(rows)
  BY <1>5, <1>6, <1>7
<1>9. part = Len(Parts) + 1 => Upto(c, part - 1) = Len(rows)
  <2> SUFFICES ASSUME part = Len(Parts) + 1 PROVE Upto(c, part - 1) = Len(rows)
    OBVIOUS
  <2>1. part - 1 = Len(c)
    BY <1>1, <1>3
  <2> QED
    BY <1>6, <2>1
<1>10. ASSUME part <= Len(Parts)
       PROVE /\ Upto(c, part) = Upto(c, part - 1) + Current.count
             /\ Upto(c, part) \in 0..Len(rows)
             /\ \A n \in 1..Current.count :
                  rows[Upto(c, part - 1) + n] = <<Current.source, Current.start + n>>
  <2>1. part \in 1..Len(Parts) /\ part \in 1..Len(c) /\ part \in 0..Len(c)
    BY <1>1, <1>3, <1>10
  <2>2. Upto(c, part) = Upto(c, part - 1) + c[part]
    BY <1>3, <2>1, UptoIs
  <2>3. Upto(c, part) \in 0..Len(rows)
    BY <1>5, <1>6, <2>1
  <2> QED
    BY <1>3, <1>4, <2>1, <2>2, <2>3 DEF Current
<1> QED
  BY <1>2, <1>3, <1>8, <1>9, <1>10 DEF c, rows

LEMMA FlowInit == Init => FlowInv
BY DEF Init, FlowInv

\* An import starts with nothing on its way.
LEMMA FlowStarts ==
  ASSUME Typed', at' > 0, producer' = "next", part' = 1,
         wire' = <<>>, frames' = <<>>, taken' = <<>>
  PROVE FlowInv'
<1>1. imports' \in Seq(Seq(PartType)) /\ at' \in 1..Len(imports')
      /\ \A t \in 1..Len(imports') : imports'[t] # <<>>
  BY DEF Typed, CallTyped, MoveTyped
<1> DEFINE parts == imports'[at']
           rows == Planned'[at']
           cut == <<0>>
<1>2. parts \in Seq(PartType) /\ parts # <<>>
  BY <1>1
<1>3. rows = RowsOfParts(parts)
  <2>1. at' \in DOMAIN imports'
    BY <1>1
  <2> QED
    BY <2>1 DEF Planned, RowsOfParts
<1>4. rows \in Seq(RowType) /\ Len(rows) \in Nat /\ PartCounts(parts) \in Seq(Nat)
  BY <1>2, <1>3, PartsLayout
<1>5. Sent' = 0
  <2>1. Sent' = Upto(PartCounts(parts), 0)
    <3>1. Upto(PartCounts(parts), 0) \in Nat
      BY <1>4, UptoIs
    <3> QED
      BY <3>1 DEF Sent, SentBy, Parts, Upto, PartCounts
  <2> QED
    BY <1>4, <2>1, UptoIs
<1> HIDE DEF rows
<1>6. /\ cut \in Seq(0..Len(rows)) /\ Len(cut) = 1 /\ cut[1] = 0
  BY <1>4
<1>7. Cuts(rows, 0, <<>>, cut)
  BY <1>6 DEF Cuts
<1>8. InTransit' = <<>> /\ Len(taken') = 0 /\ taken' = SubSeq(rows, 1, 0)
  <2>1. InTransit' = <<>>
    BY DEF InTransit
  <2>2. SubSeq(rows, 1, 0) = <<>>
    BY <1>4
  <2> QED
    BY <2>1, <2>2
<1> HIDE DEF cut
<1>9. cut[Len(cut)] = Sent'
  BY <1>5, <1>6
<1> QED
  BY <1>6, <1>7, <1>8, <1>9 DEF FlowInv, rows

\* What is in flight, whoever comes to hold it, stays as planned.
LEMMA FlowStays ==
  ASSUME FlowInv, target' = "receiving" => target = "receiving",
         UNCHANGED <<imports, at, taken>>, InTransit' = InTransit,
         producer' # "failed" => producer # "failed" /\ Sent' = Sent
  PROVE FlowInv'
<1> SUFFICES ASSUME target' = "receiving" PROVE FlowInv'
  BY DEF FlowInv
<1>1. Planned' = Planned
  BY DEF Planned
<1>2. PICK cut \in Seq(0..Len(Planned[at])) :
        /\ Cuts(Planned[at], Len(taken), InTransit, cut)
        /\ producer # "failed" => cut[Len(cut)] = Sent
  BY DEF FlowInv
<1> QED
  BY <1>1, <1>2 DEF FlowInv

\* Frames dropped by a producer that fails are at the end of it.
LEMMA FlowCutOff ==
  ASSUME Typed, FlowInv, target = "receiving", UNCHANGED <<imports, at, taken, wire>>,
         frames' = <<>>, producer' = "failed", at > 0
  PROVE FlowInv'
<1>1. Planned' = Planned
  BY DEF Planned
<1>2. PICK cut \in Seq(0..Len(Planned[at])) : Cuts(Planned[at], Len(taken), InTransit, cut)
  BY DEF FlowInv
<1>3. wire \in Seq(Seq(RowType)) /\ frames \in Seq(Seq(RowType)) /\ at \in Nat
      /\ at <= Len(imports)
  BY DEF Typed, CallTyped, MoveTyped
<1>4. InTransit' = wire
  BY <1>3 DEF InTransit
<1>5. taken = SubSeq(Planned[at], 1, Len(taken))
  BY DEF FlowInv
<1>6. Planned[at] \in Seq(RowType)
  BY PartInPlan
<1>7. PICK c \in Seq(0..Len(Planned[at])) : Cuts(Planned[at], Len(taken), wire, c)
  BY <1>2, <1>3, <1>6, CutsPrefix DEF InTransit
<1> QED
  BY <1>1, <1>4, <1>5, <1>7 DEF FlowInv

\* A block of the target's channel is the next stretch of what was planned.
LEMMA NextBlock ==
  ASSUME Typed, FlowInv, target = "receiving", at > 0, wire # <<>>
  PROVE /\ taken \o Head(wire)
             = SubSeq(Planned[at], 1, Len(taken) + Len(Head(wire)))
        /\ Len(taken) + Len(Head(wire)) <= Expected(Parts)
        /\ Len(taken \o Head(wire)) = Len(taken) + Len(Head(wire))
        /\ \E cut \in Seq(0..Len(Planned[at])) :
             /\ Cuts(Planned[at], Len(taken) + Len(Head(wire)), Tail(wire) \o frames, cut)
             /\ producer # "failed" => cut[Len(cut)] = Sent
<1> DEFINE rows == Planned[at]
           h == Head(wire)
<1>1. rows \in Seq(RowType) /\ Len(rows) = Expected(Parts) /\ Len(rows) \in Nat
  BY PartInPlan
<1>2. /\ taken = SubSeq(rows, 1, Len(taken))
      /\ \E cut \in Seq(0..Len(rows)) :
           /\ Cuts(rows, Len(taken), InTransit, cut)
           /\ producer # "failed" => cut[Len(cut)] = Sent
  BY DEF FlowInv
<1> HIDE DEF rows
<1>3. PICK cut \in Seq(0..Len(rows)) :
        /\ Cuts(rows, Len(taken), InTransit, cut)
        /\ producer # "failed" => cut[Len(cut)] = Sent
  BY <1>2
<1>4. wire \in Seq(Seq(RowType)) /\ frames \in Seq(Seq(RowType)) /\ taken \in Seq(RowType)
      /\ h \in Seq(RowType)
  BY DEF Typed, MoveTyped
<1>5. /\ InTransit \in Seq(Seq(RowType)) /\ InTransit # <<>>
      /\ Head(InTransit) = h /\ Tail(InTransit) = Tail(wire) \o frames
  BY <1>4, TransitIs DEF InTransit
<1> HIDE DEF h
<1> DEFINE a == Len(taken)
           b == cut[2]
<1>6. /\ a \in 0..Len(rows) /\ b \in 0..Len(rows) /\ a <= b
      /\ h = SubSeq(rows, a + 1, b)
      /\ Tail(cut) \in Seq(0..Len(rows))
      /\ Cuts(rows, b, Tail(wire) \o frames, Tail(cut))
      /\ Tail(cut)[Len(Tail(cut))] = cut[Len(cut)]
  BY ZenonT(30), <1>1, <1>3, <1>5, CutsTail
<1> HIDE DEF a, b
<1>7. /\ SubSeq(rows, 1, a) \o SubSeq(rows, a + 1, b) = SubSeq(rows, 1, b)
      /\ Len(SubSeq(rows, 1, b)) = b /\ Len(SubSeq(rows, a + 1, b)) = b - a
  BY <1>1, <1>6, Joined
<1>8. taken = SubSeq(rows, 1, a)
  BY <1>2 DEF a
<1>9. a + Len(h) = b
  BY <1>1, <1>6, <1>7
<1>10. taken \o h = SubSeq(rows, 1, a + Len(h)) /\ Len(taken \o h) = a + Len(h)
  BY <1>6, <1>7, <1>8, <1>9
<1>11. a + Len(h) <= Expected(Parts)
  BY <1>1, <1>6, <1>9
<1>12. \E c \in Seq(0..Len(rows)) :
         /\ Cuts(rows, a + Len(h), Tail(wire) \o frames, c)
         /\ producer # "failed" => c[Len(c)] = Sent
  BY <1>3, <1>6, <1>9
<1> QED
  BY <1>10, <1>11, <1>12 DEF a, h, rows

\* Rows are added at the end of what is in flight.
LEMMA FlowGrows ==
  ASSUME Typed, FlowInv, target = "receiving", at > 0, producer # "failed",
         UNCHANGED <<imports, at, taken>>, NEW x \in Seq(RowType),
         InTransit' = Append(InTransit, x), Sent' \in 0..Len(Planned[at]),
         Sent <= Sent', x = SubSeq(Planned[at], Sent + 1, Sent')
  PROVE FlowInv'
<1>1. Planned' = Planned
  BY DEF Planned
<1>2. PICK cut \in Seq(0..Len(Planned[at])) :
        Cuts(Planned[at], Len(taken), InTransit, cut) /\ cut[Len(cut)] = Sent
  BY DEF FlowInv
<1>3. Planned[at] \in Seq(RowType)
  BY PartInPlan
<1>4. InTransit \in Seq(Seq(RowType))
  BY TransitIs DEF Typed, MoveTyped, InTransit
<1> DEFINE b == Sent'
           rows == Planned[at]
           had == Len(taken)
           flow == InTransit
<1>5. /\ rows \in Seq(RowType) /\ flow \in Seq(Seq(RowType)) /\ Reaches(rows, had, flow, Sent)
      /\ Stretch(rows, Sent, b, x)
  BY <1>2, <1>3, <1>4 DEF Stretch, Reaches
<1> HIDE DEF b, rows, had, flow
<1>6. Reaches(rows, had, Append(flow, x), b)
  BY <1>5, CutsAppend
<1>7. taken = SubSeq(Planned[at], 1, Len(taken))
  BY DEF FlowInv
<1> QED
  BY <1>1, <1>6, <1>7 DEF FlowInv, Reaches, b, rows, had, flow

\* A frame holds the rows of the plan that are next.
LEMMA FrameInPlan ==
  ASSUME Typed, PlanInv, ExportInv, at > 0, producer = "pulling",
         NEW last \in export.next..export.end
  PROVE /\ Rows(export.source, export.next, last) \in Seq(RowType)
        /\ Rows(export.source, export.next, last)
             = SubSeq(Planned[at], Sent + 1,
                      Upto(PartCounts(Parts), part - 1) + last - Current.start)
        /\ Upto(PartCounts(Parts), part - 1) + last - Current.start \in 0..Len(Planned[at])
        /\ Sent \in Nat /\ Sent <= Upto(PartCounts(Parts), part - 1) + last - Current.start
<1> DEFINE rows == Planned[at]
           u == Upto(PartCounts(Parts), part - 1)
           s == Current.start
           src == Current.source
           from == export.next
           b == u + last - s
<1>1. /\ part <= Len(Parts) /\ export.source = src
      /\ export.end = s + Current.count /\ from \in s + 1..export.end + 1
  BY DEF ExportInv
<1>2. s \in Nat /\ Current.count \in Nat /\ src \in Source
  BY <1>1, InHand
<1>3. /\ rows \in Seq(RowType) /\ u \in 0..Len(rows) /\ u + Current.count \in 0..Len(rows)
      /\ \A n \in 1..Current.count : rows[u + n] = <<src, s + n>>
  BY <1>1, PartInPlan
<1>4. Sent = u + (from - 1 - s)
  BY DEF Sent, SentBy, Current
<1>5. from \in Nat \ {0} /\ last \in Nat /\ from <= last /\ last <= s + Current.count
      /\ s + 1 <= from
  BY <1>1, <1>2
<1>6. /\ Rows(src, from, last) \in Seq(RowType) /\ Len(Rows(src, from, last)) = last + 1 - from
      /\ \A n \in 1..last + 1 - from : Rows(src, from, last)[n] = <<src, from + n - 1>>
  BY <1>2, <1>5, RowsAre
<1> DEFINE r == Rows(src, from, last)
           q == SubSeq(rows, Sent + 1, b)
<1> HIDE DEF rows, u, s, src, from
<1>7. b \in 0..Len(rows) /\ Sent \in Nat /\ Sent + 1 <= b /\ b - Sent = last + 1 - from
      /\ Len(rows) \in Nat
  BY <1>2, <1>3, <1>4, <1>5
<1> HIDE DEF b
<1>8. q \in Seq(RowType) /\ Len(q) = last + 1 - from
      /\ \A n \in 1..last + 1 - from : q[n] = rows[Sent + n]
  <2> DEFINE m == Sent + 1
  <2>1. m \in Int /\ b \in Int /\ \A i \in m..b : rows[i] \in RowType
    BY <1>3, <1>7, ElementOfSeq
  <2>2. m <= b /\ b - m + 1 = last + 1 - from /\ m - 1 = Sent
    BY <1>5, <1>7
  <2> HIDE DEF m
  <2>3. /\ q \in Seq(RowType) /\ Len(q) = (IF m <= b THEN b - m + 1 ELSE 0)
        /\ \A i \in 1..b - m + 1 : q[i] = rows[m + i - 1]
    BY <2>1, SubSeqProperties DEF m
  <2>4. \A i \in 1..b - m + 1 : m + i - 1 = Sent + i
    BY <1>7, <2>1, <2>2
  <2> QED
    BY <2>2, <2>3, <2>4
<1>9. ASSUME NEW n \in 1..last + 1 - from PROVE r[n] = q[n]
  <2> DEFINE k == from - 1 - s + n
             count == Current.count
  <2>0. /\ n \in Nat \ {0} /\ n <= last + 1 - from /\ u \in Nat /\ s \in Nat
        /\ count \in Nat /\ last <= s + count
    BY <1>2, <1>3, <1>5
  <2> HIDE DEF count
  <2>1. k \in 1..count /\ u + k = Sent + n /\ s + k = from + n - 1
    BY <1>4, <1>5, <2>0
  <2>2. rows[u + k] = <<src, s + k>>
    BY <1>3, <2>1 DEF count
  <2> QED
    BY <1>6, <1>8, <2>1, <2>2
<1> HIDE DEF r, q
<1>10. r = q
  <2>1. r \in Seq(RowType) /\ Len(r) = last + 1 - from
    BY <1>6 DEF r
  <2>2. Len(r) = Len(q) /\ \A i \in 1..Len(r) : r[i] = q[i]
    BY <1>8, <1>9, <2>1
  <2> QED
    BY <1>8, <2>1, <2>2, SeqEqual
<1>11. Sent <= b
  BY <1>7 DEF b
<1> QED
  BY <1>1, <1>6, <1>7, <1>10, <1>11 DEF r, q, rows, u, s, src, from, b

LEMMA FlowStep ==
  Typed /\ PlanInv /\ ExportInv /\ FlowInv /\ [Next]_vars => FlowInv'
<1> SUFFICES ASSUME Typed, PlanInv, ExportInv, FlowInv, [Next]_vars PROVE FlowInv'
  OBVIOUS
<1>0. /\ Typed' /\ at \in Nat /\ at \in 0..Len(imports) /\ part \in Nat \ {0}
      /\ wire \in Seq(Seq(RowType)) /\ frames \in Seq(Seq(RowType)) /\ <<>> \in Seq(RowType)
      /\ export \in ExportType /\ taken \in Seq(RowType)
  BY TypedStep, Empty DEF Typed, CallTyped, MoveTyped
<1>1. CASE Plan
  <2>1. at = 0
    BY <1>1 DEF Plan
  <2>2. part = 1 /\ wire = <<>> /\ frames = <<>> /\ taken = <<>> /\ target = "idle"
    BY <2>1 DEF PlanInv
  <2>3. UNCHANGED <<part, wire, frames, taken>>
    BY <1>1 DEF Plan
  <2>4. target' = "idle" \/ (at' = 1 /\ producer' = "next")
    BY <1>1, <2>2, PlanTyped
  <2>5. CASE target' = "idle"
    BY <2>5 DEF FlowInv
  <2>6. CASE at' = 1 /\ producer' = "next"
    BY <1>0, <2>2, <2>3, <2>6, FlowStarts
  <2> QED
    BY <2>4, <2>5, <2>6
<1>2. CASE NextImport
  <2>1. /\ at' = at + 1 /\ producer = "done" /\ producer' = "next" /\ part' = 1 /\ wire' = <<>>
        /\ taken' = <<>> /\ frames' = frames
    BY <1>2 DEF NextImport, Good
  <2>2. frames = <<>> /\ at' > 0
    BY <1>0, <2>1 DEF ExportInv
  <2> QED
    BY <1>0, <2>1, <2>2, FlowStarts
<1>3. CASE SendEmpty
  <2>1. /\ producer = "next" /\ target = "receiving" /\ part <= Len(Parts) /\ Current.count = 0
        /\ wire' = Append(wire, <<>>) /\ part' = part + 1
        /\ UNCHANGED <<imports, at, taken, frames, producer>>
    BY <1>3 DEF SendEmpty, Receiving, callVars
  <2>2. at > 0 /\ frames = <<>>
    BY <1>0, <2>1 DEF PlanInv, ExportInv
  <2> DEFINE u == Upto(PartCounts(Parts), part - 1)
             rows == Planned[at]
  <2>3. /\ rows \in Seq(RowType) /\ u \in 0..Len(rows)
        /\ Upto(PartCounts(Parts), part) = u + Current.count
    BY <2>1, <2>2, PartInPlan
  <2>4. Sent = u
    <3>1. Sent = u + 0
      BY <2>1 DEF Sent, SentBy, Current
    <3> QED
      BY <2>3, <3>1
  <2>5. Sent' = u
    <3>1. Parts' = Parts /\ part' - 1 = part
      BY <1>0, <2>1 DEF Parts
    <3>2. Sent' = Upto(PartCounts(Parts), part) + 0
      BY <2>1, <3>1 DEF Sent, SentBy, Current
    <3> QED
      BY <2>1, <2>3, <3>2
  <2>6. InTransit' = Append(InTransit, <<>>)
    BY <1>0, <2>1, <2>2, TransitIs DEF InTransit
  <2> HIDE DEF u
  <2>7. Sent' \in 0..Len(rows) /\ Sent <= Sent' /\ <<>> = SubSeq(rows, Sent + 1, Sent')
    BY <2>3, <2>4, <2>5
  <2> QED
    BY <1>0, <2>1, <2>2, <2>6, <2>7, FlowGrows
<1>4. CASE OpenExport
  <2>1. /\ producer = "next" /\ producer' = "pulling" /\ export' = Started(Current)
        /\ part <= Len(Parts) /\ UNCHANGED <<imports, at, part, wire, frames, taken, target>>
    BY <1>4 DEF OpenExport, callVars
  <2>2. at > 0
    BY <1>0, <2>1 DEF PlanInv
  <2>3. Current.start \in Nat /\ Upto(PartCounts(Parts), part - 1) \in Nat
    BY <2>1, <2>2, InHand, PartInPlan
  <2>4. Parts' = Parts /\ Current' = Current
    BY <2>1 DEF Parts, Current
  <2>5. export'.next = Current.start + 1
    BY <2>1 DEF Started
  <2>6. Sent = Upto(PartCounts(Parts), part - 1) + 0
    BY <2>1 DEF Sent, SentBy, Current
  <2>7. Sent' = Upto(PartCounts(Parts), part - 1) + (Current.start + 1 - 1 - Current.start)
    <3>1. Sent' = SentBy(Parts, part, "pulling", Started(Current))
      BY <2>1, <2>4 DEF Sent
    <3>2. Started(Current).next = Current.start + 1 /\ Parts[part] = Current
      BY DEF Started, Current
    <3> DEFINE e == Started(Current)
    <3> HIDE DEF e
    <3>3. SentBy(Parts, part, "pulling", e)
            = Upto(PartCounts(Parts), part - 1) + (e.next - 1 - Parts[part].start)
      BY DEF SentBy
    <3>4. e.next - 1 - Parts[part].start = Current.start + 1 - 1 - Current.start
      BY <2>3, <3>2 DEF e
    <3> QED
      BY <3>1, <3>3, <3>4 DEF e
  <2>8. Sent' = Sent
    BY <2>3, <2>6, <2>7
  <2>9. InTransit' = InTransit
    BY <2>1 DEF InTransit
  <2> QED
    BY <2>1, <2>8, <2>9, FlowStays
\* A failing producer drops its frames; here they are the last in flight.
<1>5. CASE OpenRefused \/ OpenLost \/ ExportLost \/ ForwardFails
  <2>1. /\ producer' = "failed" /\ producer \in {"next", "pulling"}
        /\ frames' = <<>> \/ (frames' = frames /\ producer = "next")
        /\ UNCHANGED <<imports, at, wire, taken, target>>
    BY <1>5 DEF OpenRefused, OpenLost, ExportLost, ForwardFails, ProducerFails, callVars
  <2>2. frames' = <<>> /\ at > 0
    BY <1>0, <2>1 DEF ExportInv, PlanInv
  <2>3. CASE target = "receiving"
    BY <2>1, <2>2, <2>3, FlowCutOff
  <2>4. CASE target # "receiving"
    BY <2>1, <2>4 DEF FlowInv
  <2> QED
    BY <2>3, <2>4
<1>6. CASE Forward
  <2>1. /\ frames # <<>> /\ wire' = Append(wire, Head(frames)) /\ frames' = Tail(frames)
        /\ producer = "pulling"
        /\ UNCHANGED <<imports, at, part, producer, export, taken, target>>
    BY <1>6 DEF Forward, callVars
  <2>2. InTransit' = InTransit
    <3>1. wire \in Seq(Seq(RowType)) /\ frames \in Seq(Seq(RowType))
      BY <1>0 DEF Typed, MoveTyped
    <3>2. Head(frames) \in Seq(RowType)
      BY <2>1, <3>1
    <3>3. Append(wire, Head(frames)) \o Tail(frames) = wire \o frames
      BY <2>1, <3>1, <3>2, TransitIs
    <3> QED
      BY <2>1, <3>3 DEF InTransit
  <2>3. Sent' = Sent
    BY <2>1 DEF Sent, SentBy, Parts, Current
  <2> QED
    BY <2>1, <2>2, <2>3, FlowStays
<1>7. CASE ExportEnds
  <2>1. /\ producer = "pulling" /\ producer' = "next" /\ part' = part + 1 /\ ~export.running
        /\ UNCHANGED <<imports, at, wire, frames, taken, target>>
    BY <1>7 DEF ExportEnds, callVars
  <2>2. /\ at > 0 /\ part <= Len(Parts) /\ export.next = export.end + 1
        /\ export.end = Current.start + Current.count
    BY <1>0, <2>1 DEF PlanInv, ExportInv
  <2> DEFINE u == Upto(PartCounts(Parts), part - 1)
  <2>3. /\ Current.start \in Nat /\ Current.count \in Nat /\ u \in Nat
        /\ Upto(PartCounts(Parts), part) = u + Current.count
    BY <2>2, InHand, PartInPlan
  <2>4. Sent = u + (export.next - 1 - Current.start)
    BY <2>1 DEF Sent, SentBy, Current
  <2>5. Sent' = Upto(PartCounts(Parts), part) + 0
    <3>1. Parts' = Parts /\ part' - 1 = part
      BY <1>0, <2>1 DEF Parts
    <3> QED
      BY <2>1, <3>1 DEF Sent, SentBy, Current
  <2> HIDE DEF u
  <2>6. Sent' = Sent
    BY <2>2, <2>3, <2>4, <2>5
  <2>7. InTransit' = InTransit
    BY <2>1 DEF InTransit
  <2> QED
    BY <2>1, <2>6, <2>7, FlowStays
<1>8. CASE ProducerDone
  <2>1. /\ producer = "next" /\ producer' = "done"
        /\ UNCHANGED <<imports, at, part, export, wire, frames, taken, target>>
    BY <1>8 DEF ProducerDone, callVars
  <2>2. Sent' = Sent
    BY <2>1 DEF Sent, SentBy, Parts, Current
  <2>3. InTransit' = InTransit
    BY <2>1 DEF InTransit
  <2> QED
    BY <2>1, <2>2, <2>3, FlowStays
<1>9. CASE ExportFrame
  <2>1. export.running /\ export.wanted /\ UNCHANGED <<imports, at, producer, part, wire,
                                                       target, taken>>
    BY <1>9 DEF ExportFrame, callVars
  <2>2. producer = "pulling" /\ at > 0
    BY <1>0, <2>1 DEF ExportInv, PlanInv
  <2>3. PICK last \in export.next..export.end :
          /\ frames' = Append(frames, Rows(export.source, export.next, last))
          /\ export' = [export EXCEPT !.next = last + 1]
    BY <1>9 DEF ExportFrame
  <2> DEFINE x == Rows(export.source, export.next, last)
             u == Upto(PartCounts(Parts), part - 1)
             rows == Planned[at]
  <2>4. /\ x \in Seq(RowType) /\ x = SubSeq(rows, Sent + 1, u + last - Current.start)
        /\ u + last - Current.start \in 0..Len(rows)
        /\ Sent <= u + last - Current.start
    BY <2>2, FrameInPlan
  <2>5. export.next \in Nat /\ export.end \in Nat /\ last \in Nat /\ last + 1 \in Nat
    BY <1>0 DEF ExportType
  <2>6. export'.next = last + 1
    BY <1>0, <2>3, <2>5, ExportAdvances
  <2>7. part <= Len(Parts) /\ Current.start \in Nat /\ u \in Nat
    BY <2>2, InHand, PartInPlan DEF ExportInv
  <2>8. Sent' = u + (last + 1 - 1 - Current.start)
    <3>1. Parts' = Parts /\ Current' = Current
      BY <2>1 DEF Parts, Current
    <3>2. producer' = "pulling" /\ part' = part
      BY <2>1, <2>2
    <3> DEFINE e == [export EXCEPT !.next = last + 1]
    <3>3. Sent' = SentBy(Parts, part, "pulling", e)
      BY <2>3, <3>1, <3>2 DEF Sent
    <3>4. e.next = last + 1 /\ Parts[part] = Current
      BY <2>3, <2>6 DEF Current
    <3> HIDE DEF e
    <3>5. SentBy(Parts, part, "pulling", e) = u + (e.next - 1 - Parts[part].start)
      BY DEF SentBy
    <3>6. e.next - 1 - Parts[part].start = last + 1 - 1 - Current.start
      BY <2>5, <2>7, <3>4
    <3> QED
      BY <3>3, <3>5, <3>6
  <2> HIDE DEF x, u
  <2>9. Sent' = u + last - Current.start
    BY <2>5, <2>7, <2>8
  <2>10. InTransit' = Append(InTransit, x)
    <3>1. frames' = Append(frames, x) /\ wire' = wire
      BY <2>1, <2>3 DEF x
    <3>2. wire \o Append(frames, x) = Append(wire \o frames, x)
      <4> DEFINE S == Seq(RowType)
      <4>1. wire \in Seq(S) /\ frames \in Seq(S) /\ x \in S
        BY <1>0, <2>4
      <4> HIDE DEF S
      <4> QED
        BY <4>1, TransitIs
    <3> QED
      BY <3>1, <3>2 DEF InTransit
  <2>11. CASE target = "receiving"
    BY <2>1, <2>2, <2>4, <2>9, <2>10, <2>11, FlowGrows
  <2>12. CASE target # "receiving"
    BY <2>1, <2>12 DEF FlowInv
  <2> QED
    BY <2>11, <2>12
<1>10. CASE ExportReturns
  <2>1. /\ export' = [export EXCEPT !.running = FALSE]
        /\ UNCHANGED <<imports, at, producer, part, wire, frames, taken, target>>
    BY <1>10 DEF ExportReturns, callVars
  <2>2. export'.next = export.next
    BY <1>0, <2>1, ExportReturned
  <2>3. Sent' = Sent
    BY <2>1, <2>2 DEF Sent, SentBy, Parts, Current
  <2>4. InTransit' = InTransit
    BY <2>1 DEF InTransit
  <2> QED
    BY <2>1, <2>3, <2>4, FlowStays
<1>11. CASE PushBlock
  <2>1. target = "receiving" /\ wire # <<>> /\ UNCHANGED <<imports, at, producer, part, export,
                                                           frames>>
    BY <1>11 DEF PushBlock, Receiving, callVars
  <2>2. at > 0
    BY <1>0, <2>1 DEF PlanInv
  <2> DEFINE rows == Planned[at]
             had == Len(taken) + Len(Head(wire))
  <2>3. /\ taken \o Head(wire) = SubSeq(rows, 1, had)
        /\ Len(taken \o Head(wire)) = had
        /\ \E cut \in Seq(0..Len(rows)) :
             /\ Cuts(rows, had, Tail(wire) \o frames, cut)
             /\ producer # "failed" => cut[Len(cut)] = Sent
    BY <2>1, <2>2, NextBlock
  <2>4. CASE target' = "failed"
    BY <2>4 DEF FlowInv
  <2>5. CASE taken' = taken \o Head(wire) /\ wire' = Tail(wire)
    <3>1. Planned' = Planned /\ Sent' = Sent /\ InTransit' = Tail(wire) \o frames
      BY <2>1, <2>5 DEF Planned, Sent, SentBy, Parts, Current, InTransit
    <3>2. Len(taken') = had /\ taken' = SubSeq(rows, 1, had)
      BY <2>3, <2>5
    <3>3. taken' = SubSeq(rows, 1, Len(taken'))
      BY <3>2
    <3> HIDE DEF had
    <3>4. Planned'[at'] = rows /\ producer' = producer
      BY <2>1, <3>1
    <3>5. \E cut \in Seq(0..Len(rows)) :
            /\ Cuts(rows, Len(taken'), InTransit', cut)
            /\ producer' # "failed" => cut[Len(cut)] = Sent'
      BY <2>3, <3>1, <3>2, <3>4
    <3> HIDE DEF rows
    <3> QED
      BY <3>3, <3>4, <3>5 DEF FlowInv
  <2> QED
    BY <1>11, <2>4, <2>5 DEF PushBlock, TargetFails
<1>12. CASE Finish \/ TargetLost
  <2>1. target' # "receiving"
    BY <1>12 DEF Finish, TargetLost, TargetFails
  <2> QED
    BY <2>1 DEF FlowInv
<1>13. CASE Return \/ (\E s \in Source : AddRow(s)) \/ UNCHANGED vars
  <2>1. UNCHANGED <<imports, moveVars>>
    BY <1>13 DEF Return, AddRow, vars, callVars
  <2>2. Sent' = Sent /\ InTransit' = InTransit
    BY <2>1 DEF moveVars, Sent, Parts, Current, InTransit
  <2> QED
    BY <2>1, <2>2, FlowStays DEF moveVars
<1> QED
  BY <1>1, <1>2, <1>3, <1>4, <1>5, <1>6, <1>7, <1>8, <1>9, <1>10, <1>11, <1>12, <1>13
    DEF Next, Call, Produce, Exporting, Importing

--------------------------------------------------------------------------------
(* Nothing fails of itself.                                                  *)

\* The imports of a split, as its counts have them.
LEMMA SplitPlan ==
  ASSUME Typed, PlanInv, at > 0, request.kind = "split"
  PROVE LET c == Counts(probed[1]) IN
        /\ c \in Seq(Nat) /\ c # <<>> /\ Len(imports) = Len(c) /\ probed[1] \in Nat
        /\ \A t \in 1..Len(c) :
             /\ imports[t] = <<Part(1, Upto(c, t - 1), c[t])>>
             /\ Part(1, Upto(c, t - 1), c[t]) \in PartType
        /\ probed[1] < Word => Total(c) % Word = probed[1]
        /\ ~BadRequest => Total(c) = probed[1]
<1> DEFINE c == Counts(probed[1])
<1>1. imports = SplitImports(c) /\ ~CountsRefused(probed[1])
  BY DEF PlanInv, Assigned
<1>2. probed[1] \in Nat /\ request \in Requests
  BY Constants DEF Typed, CallTyped
<1>3. /\ c \in Seq(Nat) /\ c # <<>>
      /\ probed[1] < Word => Total(c) % Word = probed[1]
      /\ request.counts = <<>> => Total(c) = probed[1]
  BY <1>1, <1>2, CountsTyped
<1>4. ~BadRequest => Total(c) = probed[1]
  <2>1. CASE request.counts = <<>>
    BY <1>3, <2>1
  <2>2. CASE request.counts # <<>>
    <3>1. c = request.counts
      BY <2>2 DEF Counts
    <3> HIDE DEF c
    <3> QED
      BY <2>2, <3>1 DEF BadRequest
  <2> QED
    BY <2>1, <2>2
<1> HIDE DEF c
<1>5. /\ Len(imports) = Len(c)
      /\ \A t \in 1..Len(c) : imports[t] = <<Part(1, Upto(c, t - 1), c[t])>>
      /\ \A t \in 1..Len(c) : Part(1, Upto(c, t - 1), c[t]) \in PartType
  BY <1>1, <1>3, SplitTyped
<1> QED
  BY <1>2, <1>3, <1>4, <1>5 DEF c

\* The import of a join: each source whole.
LEMMA JoinPlan ==
  ASSUME Typed, PlanInv, at > 0, request.kind # "split"
  PROVE LET parts == [s \in Source |-> Part(s, 0, probed[s])] IN
        /\ imports = <<parts>> /\ Len(imports) = 1 /\ imports[1] = parts
        /\ parts \in Seq(PartType) /\ parts # <<>> /\ Len(parts) = Len(FirstLen)
        /\ \A s \in Source : parts[s] = Part(s, 0, probed[s]) /\ probed[s] \in Nat
<1> DEFINE parts == [s \in Source |-> Part(s, 0, probed[s])]
<1>1. imports = <<parts>>
  BY DEF PlanInv, Assigned
<1>2. probed \in [Source -> Nat]
  BY DEF Typed, CallTyped
<1>3. /\ parts \in Seq(PartType) /\ parts # <<>> /\ Len(parts) = Len(FirstLen)
      /\ \A s \in Source : parts[s] = Part(s, 0, probed[s])
      /\ Len(<<parts>>) = 1 /\ <<parts>>[1] = parts
  BY <1>2, JoinTyped
<1> HIDE DEF parts
<1>4. Len(imports) = 1 /\ imports[1] = parts
  BY <1>1, <1>3
<1> QED
  BY <1>1, <1>2, <1>3, <1>4 DEF parts

\* What a good request plans is there to be exported.
LEMMA PartFits ==
  ASSUME Typed, LensInv, PlanInv, ~BadRequest, at > 0, part <= Len(Parts)
  PROVE InRange(Current)
<1>1. /\ at \in 1..Len(imports) /\ part \in 1..Len(Parts) /\ Current \in PartType
  BY InHand
<1>2. /\ \A s \in Source : probed[s] <= len[s] /\ probed[s] \in Nat /\ len[s] \in Nat
      /\ 1 \in Source
  BY Constants DEF LensInv, Typed, CallTyped
<1>3. CASE request.kind = "split"
  <2> DEFINE c == Counts(probed[1])
  <2>1. /\ c \in Seq(Nat) /\ Len(imports) = Len(c)
        /\ \A t \in 1..Len(c) : imports[t] = <<Part(1, Upto(c, t - 1), c[t])>>
        /\ Total(c) = probed[1]
    BY <1>3, SplitPlan
  <2> HIDE DEF c
  <2>2. Parts = <<Part(1, Upto(c, at - 1), c[at])>> /\ at \in 1..Len(c)
    BY <1>1, <2>1 DEF Parts
  <2>3. Current = Part(1, Upto(c, at - 1), c[at])
    BY <1>1, <2>2 DEF Current
  <2>4. Upto(c, at) = Upto(c, at - 1) + c[at] /\ Upto(c, Len(c)) = Total(c)
    BY <2>1, <2>2, UptoIs
  <2>5. Upto(c, at) <= Upto(c, Len(c)) /\ Upto(c, at) \in Nat
    <3>1. at \in 0..Len(c) /\ Len(c) \in at..Len(c)
      BY <2>1, <2>2
    <3> QED
      BY <2>1, <3>1, UptoGrows, UptoIs
  <2>6. /\ Current.start + Current.count = Upto(c, at) /\ Current.source = 1
    BY <2>3, <2>4 DEF Part
  <2>7. Upto(c, at) <= len[1]
    BY <1>2, <2>1, <2>4, <2>5
  <2> QED
    BY <2>6, <2>7 DEF InRange
<1>4. CASE request.kind # "split"
  <2> DEFINE parts == [s \in Source |-> Part(s, 0, probed[s])]
  <2>1. /\ Len(imports) = 1 /\ imports[1] = parts /\ Len(parts) = Len(FirstLen)
        /\ \A s \in Source : parts[s] = Part(s, 0, probed[s])
    BY <1>4, JoinPlan
  <2> HIDE DEF parts
  <2>2. at = 1
    BY <1>1, <2>1
  <2>3. Parts = parts
    BY <2>1, <2>2 DEF Parts
  <2>4. part \in Source
    BY <1>1, <2>1, <2>3, Constants
  <2>5. Current = Part(part, 0, probed[part])
    BY <2>1, <2>3, <2>4 DEF Current
  <2>6. Current.source = part /\ Current.start + Current.count = 0 + probed[part]
    BY <2>5 DEF Part
  <2>7. probed[part] <= len[part] /\ probed[part] \in Nat
    BY <1>2, <2>4
  <2> QED
    BY <2>6, <2>7 DEF InRange
<1> QED
  BY <1>3, <1>4

LEMMA ReasonInit == Init => ReasonInv
BY DEF Init, ReasonInv

LEMMA ReasonStep ==
  Typed /\ LensInv /\ PlanInv /\ ExportInv /\ FlowInv /\ ReasonInv /\ [Next]_vars => ReasonInv'
<1> SUFFICES ASSUME Typed, LensInv, PlanInv, ExportInv, FlowInv, ReasonInv, [Next]_vars
             PROVE ReasonInv'
  OBVIOUS
<1>0. /\ at \in Nat /\ part \in Nat \ {0} /\ blocks \in Nat
      /\ wire \in Seq(Seq(RowType)) /\ frames \in Seq(Seq(RowType))
      /\ Len(wire) \in Nat /\ Len(frames) \in Nat
      /\ export \in ExportType /\ target \in {"idle", "receiving", "activated", "failed"}
  BY DEF Typed, CallTyped, MoveTyped
<1>1. ASSUME UNCHANGED <<request, probed>> PROVE BadRequest' <=> BadRequest
  BY <1>1 DEF BadRequest
<1>2. CASE Plan
  <2>1. PlanInv' /\ at = 0 /\ result = "pending"
    BY <1>2, PlanStep DEF Plan
  <2>2. \/ at' = 0 /\ producer' = producer /\ target' = target
        \/ at' = 1 /\ producer' = "next" /\ target' = "receiving" /\ result' = "pending"
    BY <1>2, PlanTyped
  <2>3. /\ UNCHANGED <<part, blocks, wire, frames>> /\ part = 1 /\ target = "idle"
    BY <1>2, <2>1 DEF Plan, PlanInv
  <2>4. CASE at' = 0 /\ producer' = producer /\ target' = target
    BY <2>1, <2>3, <2>4 DEF PlanInv, ReasonInv
  <2>5. CASE at' = 1 /\ producer' = "next" /\ target' = "receiving" /\ result' = "pending"
    BY <2>3, <2>5 DEF ReasonInv, Begun
  <2> QED
    BY <2>2, <2>4, <2>5
<1>3. CASE Return
  <2>1. UNCHANGED <<request, probed, at, producer, part, wire, export, frames, target, blocks,
                    imports, faulty>>
    BY <1>3 DEF Return, moveVars
  <2>2. BadRequest' <=> BadRequest
    BY <1>1, <2>1
  <2>3. result' = "error" => faulty \/ BadRequest
    <3> SUFFICES ASSUME result' = "error" PROVE faulty \/ BadRequest
      OBVIOUS
    <3>1. at > 0 /\ Through /\ ~Good
      BY <1>3 DEF Return
    <3>2. target = "failed" \/ producer = "failed"
      BY <3>1 DEF Through, Good
    <3> QED
      BY <3>1, <3>2 DEF ReasonInv
  <2>4. Begun' <=> Begun
    BY <2>1 DEF Begun, Current, Parts
  <2> QED
    BY <2>1, <2>2, <2>3, <2>4 DEF ReasonInv
\* A fault is a reason.
<1>4. CASE OpenLost \/ ExportLost \/ TargetLost
  <2>1. faulty' = TRUE
    BY <1>4 DEF OpenLost, ExportLost, TargetLost
  <2>2. target' = "activated" => producer' \in {"done", "failed"}
    BY <1>4 DEF OpenLost, ExportLost, TargetLost, TargetFails, ProducerFails
  <2> QED
    BY <2>1, <2>2 DEF ReasonInv
\* The other steps neither end the call nor are faults.
<1>5. ASSUME UNCHANGED <<request, probed, result, faulty>>,
             target' = "activated" => producer' \in {"done", "failed"},
             at' > 0 /\ ~faulty /\ ~BadRequest =>
               /\ producer' # "failed" /\ target' # "failed"
               /\ target' = "receiving" /\ Begun'
                  => blocks' + Len(wire') + Len(frames') > 0
      PROVE ReasonInv'
  <2>1. BadRequest' <=> BadRequest
    BY <1>1, <1>5
  <2> QED
    BY <1>5, <2>1 DEF ReasonInv
<1>6. ASSUME at > 0, ~faulty, ~BadRequest
      PROVE /\ producer # "failed" /\ target \in {"receiving", "activated"}
            /\ target = "receiving" /\ Begun => blocks + Len(wire) + Len(frames) > 0
  BY <1>0, <1>6 DEF ReasonInv, PlanInv
<1>7. target = "activated" => producer \in {"done", "failed"}
  BY DEF ReasonInv
<1>8. CASE NextImport
  <2>1. /\ UNCHANGED <<request, probed, result, faulty>>
        /\ producer' = "next" /\ target' = "receiving" /\ part' = 1
    BY <1>8 DEF NextImport, callVars
  <2>2. ~Begun'
    BY <2>1 DEF Begun
  <2> QED
    BY <1>5, <2>1, <2>2
<1>9. CASE SendEmpty
  <2>1. /\ UNCHANGED <<request, probed, result, faulty, at, producer, target, blocks, frames>>
        /\ wire' = Append(wire, <<>>)
    BY <1>9 DEF SendEmpty, callVars
  <2>2. Len(wire') = Len(wire) + 1
    BY <1>0, <2>1
  <2>3. blocks' + Len(wire') + Len(frames') > 0
    BY <1>0, <2>1, <2>2
  <2> QED
    BY <1>5, <1>6, <1>7, <2>1, <2>3
<1>10. CASE OpenExport
  <2>1. /\ UNCHANGED <<request, probed, result, faulty, at, imports, part, target, blocks, wire,
                       frames>>
        /\ producer = "next" /\ part <= Len(Parts) /\ producer' = "pulling"
        /\ export' = Started(Current)
    BY <1>10 DEF OpenExport, callVars
  <2>2. at > 0
    BY <1>0, <2>1 DEF PlanInv
  <2>3. Current.start \in Nat
    BY <2>1, <2>2, InHand
  <2>4. export'.next = Current.start + 1
    BY <2>1 DEF Started
  <2>5. Current' = Current
    BY <2>1 DEF Current, Parts
  <2>6. Begun' => Begun
    BY <2>1, <2>3, <2>4, <2>5 DEF Begun
  <2> QED
    BY <1>5, <1>6, <1>7, <2>1, <2>6
\* A good request is never refused its rows.
<1>11. CASE OpenRefused
  <2>1. /\ producer = "next" /\ part <= Len(Parts) /\ ~InRange(Current)
        /\ UNCHANGED <<request, probed, result, faulty, at, target>> /\ producer' = "failed"
    BY <1>11 DEF OpenRefused, ProducerFails, callVars
  <2>2. at > 0
    BY <1>0, <2>1 DEF PlanInv
  <2>3. BadRequest
    BY <2>1, <2>2, PartFits
  <2> QED
    BY <1>5, <2>1, <2>3
<1>12. CASE Forward
  <2>1. /\ UNCHANGED <<request, probed, result, faulty, at, imports, producer, part, target, blocks,
                       export>>
        /\ wire' = Append(wire, Head(frames)) /\ frames' = Tail(frames) /\ frames # <<>>
    BY <1>12 DEF Forward, callVars
  <2>2. Begun' <=> Begun
    BY <2>1 DEF Begun, Current, Parts
  <2>3. Len(wire') = Len(wire) + 1 /\ Len(frames') = Len(frames) - 1 /\ Len(frames) > 0
    <3>1. Head(frames) \in Seq(RowType)
      BY <1>0, <2>1
    <3> QED
      BY <1>0, <2>1, <3>1
  <2>4. blocks' + Len(wire') + Len(frames') > 0
    BY <1>0, <2>1, <2>3
  <2> QED
    BY <1>5, <1>6, <1>7, <2>1, <2>4
\* Nor does a target stop listening of itself.
<1>13. CASE ForwardFails
  <2>1. /\ target # "receiving" /\ producer \in {"pulling", "next"} /\ producer' = "failed"
        /\ UNCHANGED <<request, probed, result, faulty, at, target>>
    BY <1>13 DEF ForwardFails, ProducerFails, Receiving, callVars
  <2>2. at > 0 /\ target # "activated"
    BY <1>0, <1>7, <2>1 DEF PlanInv
  <2>3. faulty \/ BadRequest
    BY <1>6, <2>1, <2>2
  <2> QED
    BY <1>5, <1>7, <2>1, <2>3
<1>14. CASE ExportEnds
  <2>1. /\ UNCHANGED <<request, probed, result, faulty, at, target, blocks, wire, frames>>
        /\ producer = "pulling" /\ ~export.running /\ producer' = "next"
    BY <1>14 DEF ExportEnds, callVars
  <2>2. /\ at > 0 /\ part <= Len(Parts) /\ Current.count > 0 /\ export.next = export.end + 1
        /\ export.end = Current.start + Current.count
    BY <1>0, <2>1 DEF PlanInv, ExportInv
  <2>3. Current.start \in Nat /\ Current.count \in Nat
    BY <2>2, InHand
  <2>4. Begun
    BY <2>1, <2>2, <2>3 DEF Begun
  <2>5. target # "activated"
    BY <1>7, <2>1
  <2> QED
    BY <1>5, <1>6, <2>1, <2>2, <2>4, <2>5
<1>15. CASE ProducerDone
  <2>1. /\ UNCHANGED <<request, probed, result, faulty, at, target, blocks, wire, frames, part>>
        /\ producer = "next" /\ producer' = "done"
    BY <1>15 DEF ProducerDone, callVars
  <2>2. Begun' => Begun
    BY <2>1 DEF Begun
  <2> QED
    BY <1>5, <1>6, <2>1, <2>2
<1>16. CASE ExportFrame
  <2>1. UNCHANGED <<request, probed, result, faulty, at, target, blocks, wire, producer>>
    BY <1>16 DEF ExportFrame, callVars
  <2>2. \E x : frames' = Append(frames, x) /\ x \in Seq(RowType)
    <3>1. export.running /\ export.source \in Source /\ export.next > 0
      BY <1>16 DEF ExportFrame, Typed, MoveTyped
    <3>2. PICK last \in export.next..export.end :
            frames' = Append(frames, Rows(export.source, export.next, last))
      BY <1>16 DEF ExportFrame
    <3>3. export.next \in Nat \ {0} /\ last \in Nat /\ export.next <= last
      BY <1>0, <3>1, <3>2 DEF ExportType
    <3> QED
      BY <3>1, <3>2, <3>3, RowsAre
  <2>3. Len(frames') = Len(frames) + 1
    BY <1>0, <2>2
  <2>4. blocks' + Len(wire') + Len(frames') > 0
    BY <1>0, <2>1, <2>3
  <2> QED
    BY <1>5, <1>6, <1>7, <2>1, <2>4
<1>17. CASE ExportReturns
  <2>1. /\ UNCHANGED <<request, probed, result, faulty, at, imports, target, blocks, wire, frames,
                       producer, part>>
        /\ export' = [export EXCEPT !.running = FALSE]
    BY <1>17 DEF ExportReturns, callVars
  <2>2. export'.next = export.next
    BY <1>0, <2>1, ExportReturned
  <2>3. Begun' <=> Begun
    BY <2>1, <2>2 DEF Begun, Current, Parts
  <2> QED
    BY <1>5, <1>6, <1>7, <2>1, <2>3
\* No block exceeds what was declared.
<1>18. CASE PushBlock
  <2>1. /\ UNCHANGED <<request, probed, result, faulty, at, imports, producer, part, export, frames>>
        /\ target = "receiving" /\ wire # <<>>
    BY <1>18 DEF PushBlock, Receiving, callVars
  <2>2. at > 0
    BY <1>0, <2>1 DEF PlanInv
  <2>3. Len(taken) + Len(Head(wire)) <= Expected(Parts)
    BY <2>1, <2>2, NextBlock
  <2>4. ~(Len(taken) + Len(Head(wire)) > Expected(Parts))
    <3>1. Head(wire) \in Seq(RowType) /\ taken \in Seq(RowType)
      BY <1>0, <2>1 DEF Typed, MoveTyped
    <3>2. Expected(Parts) = Len(Planned[at]) /\ Planned[at] \in Seq(RowType)
      BY <2>2, PartInPlan
    <3> QED
      BY <2>3, <3>1, <3>2
  <2>5. blocks' = blocks + 1 /\ wire' = Tail(wire) /\ target' = target
    BY <1>18, <2>4 DEF PushBlock
  <2>6. Len(wire') = Len(wire) - 1 /\ Len(wire) > 0
    BY <1>0, <2>1, <2>5
  <2>7. blocks' + Len(wire') + Len(frames') > 0
    BY <1>0, <2>1, <2>5, <2>6
  <2> QED
    BY <1>5, <1>6, <1>7, <2>1, <2>5, <2>7
\* A stream that ends of itself was whole.
<1>19. CASE Finish
  <2>1. /\ UNCHANGED <<request, probed, result, faulty, at, producer>>
        /\ target = "receiving" /\ wire = <<>> /\ producer \in {"done", "failed"}
    BY <1>19 DEF Finish, StreamEnded, Receiving, callVars
  <2>2. at > 0
    BY <1>0, <2>1 DEF PlanInv
  <2>3. ASSUME ~faulty, ~BadRequest PROVE target' # "failed"
    <3>1. producer = "done" /\ frames = <<>> /\ part = Len(Parts) + 1
      BY <1>6, <2>1, <2>2, <2>3 DEF ExportInv
    <3>2. Len(Parts) \in Nat \ {0} /\ Len(wire) = 0 /\ Len(frames) = 0
      BY <2>1, <2>2, <3>1, InHand
    <3>3. Begun
      BY <3>1, <3>2 DEF Begun
    <3>4. blocks > 0
      BY <1>0, <1>6, <2>1, <2>2, <2>3, <3>2, <3>3
    <3>5. /\ Len(Planned[at]) = Expected(Parts) /\ Planned[at] \in Seq(RowType)
          /\ Upto(PartCounts(Parts), part - 1) = Len(Planned[at])
      BY <2>2, <3>1, PartInPlan
    <3>6. Sent = Len(Planned[at])
      <4>1. Sent = Len(Planned[at]) + 0
        BY <3>1, <3>5 DEF Sent, SentBy
      <4> QED
        BY <3>5, <4>1
    <3>7. InTransit = <<>>
      BY <2>1, <3>1 DEF InTransit
    <3>8. PICK cut \in Seq(0..Len(Planned[at])) :
            Cuts(Planned[at], Len(taken), InTransit, cut) /\ cut[Len(cut)] = Sent
      BY <2>1, <3>1 DEF FlowInv
    <3>9. Len(cut) = 1 /\ cut[1] = Len(taken)
      BY <3>7, <3>8, Empty DEF Cuts
    <3>10. Len(taken) = Expected(Parts)
      BY <3>5, <3>6, <3>8, <3>9
    <3> QED
      BY <1>19, <3>4, <3>10, <1>0 DEF Finish
  <2>4. target' \in {"activated", "failed"}
    BY <1>19 DEF Finish, TargetFails
  <2>5. at' > 0 /\ ~faulty /\ ~BadRequest => producer' # "failed"
    BY <1>6, <2>1, <2>2
  <2> QED
    BY <1>5, <2>1, <2>3, <2>4, <2>5
<1>20. CASE (\E s \in Source : AddRow(s)) \/ UNCHANGED vars
  <2>1. UNCHANGED <<request, probed, imports, result, moveVars, faulty>>
    BY <1>20 DEF AddRow, vars, callVars
  <2>2. UNCHANGED <<at, producer, part, wire, export, frames, target, blocks>>
    BY <2>1 DEF moveVars
  <2>3. Begun' <=> Begun
    BY <2>1, <2>2 DEF Begun, Current, Parts
  <2> QED
    BY <1>5, <1>6, <1>7, <2>1, <2>2, <2>3
<1> QED
  BY <1>2, <1>3, <1>4, <1>8, <1>9, <1>10, <1>11, <1>12, <1>13, <1>14, <1>15, <1>16, <1>17,
     <1>18, <1>19, <1>20 DEF Next, Call, Produce, Exporting, Importing

--------------------------------------------------------------------------------
(* The invariant holds, and the transfer is a whole one.                     *)

LEMMA InvInit == Init => Inv
BY TypedInit, LensInit, PlanInit, ExportInit, FitInit, MadeInit, FlowInit, ReasonInit DEF Inv

LEMMA InvStep == Inv /\ [Next]_vars => Inv'
<1> SUFFICES ASSUME Inv, [Next]_vars PROVE Inv'
  OBVIOUS
<1>1. Typed /\ LensInv /\ PlanInv /\ ExportInv /\ FitInv /\ MadeInv /\ FlowInv /\ ReasonInv
  BY DEF Inv
<1>2. Typed' /\ LensInv' /\ PlanInv' /\ ExportInv'
  BY <1>1, TypedStep, LensStep, PlanStep, ExportStep
<1>3. FitInv' /\ MadeInv'
  BY <1>1, FitStep, MadeStep
<1>4. FlowInv' /\ ReasonInv'
  BY <1>1, FlowStep, ReasonStep
<1> QED
  BY <1>2, <1>3, <1>4 DEF Inv

LEMMA InvHolds == Spec => []Inv
<1> QED
  BY InvInit, InvStep, PTL DEF Spec

\* At every moment of every transfer, for any sources and requests, each
\* variable is of its type, and neither channel holds more than its capacity.
THEOREM RowMoveTypeOK == Spec => []TypeOK
<1>1. Inv => TypeOK
  <2> SUFFICES ASSUME Inv PROVE TypeOK
    OBVIOUS
  <2>1. CallTyped /\ MoveTyped /\ MadeTyped
    BY DEF Inv, Typed
  <2> QED
    BY <2>1 DEF TypeOK, CallTyped, MoveTyped, MadeTyped
<1> QED
  BY <1>1, InvHolds, PTL

\* No split or join fails without a fault or a bad request: not for parts or
\* sources without rows, nor for rows added meanwhile, a frame larger than a
\* part, a channel that is full, or the checks the target makes of each block
\* and at the end of its stream.
THEOREM TransfersFailForAReason == Spec => []FailsOnlyOnFaults
<1>1. Inv => FailsOnlyOnFaults
  BY DEF Inv, ReasonInv, FailsOnlyOnFaults
<1> QED
  BY <1>1, InvHolds, PTL

\* The rows of a single part.
LEMMA OnePart ==
  ASSUME NEW p \in PartType
  PROVE RowsOfParts(<<p>>) = PartRows(p)
<1> DEFINE parts == <<p>>
<1>1. DOMAIN parts = 1..1 /\ parts[1] = p
  OBVIOUS
<1> HIDE DEF parts
<1>2. [j \in DOMAIN parts |-> PartRows(parts[j])] = <<PartRows(p)>>
  <2> DEFINE r == PartRows(p)
  <2>1. [j \in DOMAIN parts |-> PartRows(parts[j])] = [j \in 1..1 |-> PartRows(parts[j])]
    BY <1>1
  <2>2. \A j \in 1..1 : PartRows(parts[j]) = r
    BY <1>1
  <2> HIDE DEF r
  <2>3. [j \in 1..1 |-> PartRows(parts[j])] = [j \in 1..1 |-> r]
    BY <2>2
  <2>4. [j \in 1..1 |-> r] = <<r>>
    OBVIOUS
  <2> QED
    BY <2>1, <2>3, <2>4 DEF r
<1>3. RowsOfParts(parts) = FlattenSeq(<<PartRows(p)>>)
  BY <1>2 DEF RowsOfParts
<1> QED
  BY <1>3, FlattenOne DEF parts

LEMMA PlannedTyped ==
  ASSUME Typed, at > 0
  PROVE Planned \in Seq(Seq(RowType)) /\ Len(Planned) = Len(imports) /\ Planned # <<>>
<1>1. imports \in Seq(Seq(PartType)) /\ Len(imports) \in Nat \ {0}
  BY InHand DEF Typed, CallTyped
<1>2. \A t \in 1..Len(imports) : Planned[t] \in Seq(RowType)
  BY PlannedIs
<1> DEFINE P(t) == Planned[t]
           n == Len(imports)
<1>3. n \in Nat \ {0} /\ \A t \in 1..n : P(t) \in Seq(RowType)
  BY <1>1, <1>2
<1>4. Planned = [t \in 1..n |-> P(t)]
  BY <1>1 DEF Planned
<1> HIDE DEF P, n
<1>5. /\ [t \in 1..n |-> P(t)] \in Seq(Seq(RowType)) /\ Len([t \in 1..n |-> P(t)]) = n
      /\ [t \in 1..n |-> P(t)] # <<>>
  BY <1>3
<1> QED
  BY <1>4, <1>5 DEF n

\* Once the last import is through, what was planned is every row probed, once
\* and in order: the sum of the counts may wrap, but not that of ranges a node
\* has exported.
LEMMA PlannedWhole ==
  ASSUME Typed, LensInv, PlanInv, ExportInv, FitInv,
         at > 0, at = Len(imports), producer = "done"
  PROVE FlattenSeq(Planned) = AllRows
<1>1. /\ imports \in Seq(Seq(PartType)) /\ imports # <<>> /\ Len(imports) \in Nat \ {0}
      /\ at \in 1..Len(imports) /\ part = Len(Parts) + 1 /\ Len(Parts) \in Nat
  BY InHand DEF Typed, CallTyped, ExportInv
<1>2. \A t \in 1..Len(imports) :
        Planned[t] = RowsOfParts(imports[t]) /\ Planned[t] \in Seq(RowType)
  BY PlannedIs
<1>4. /\ Planned \in Seq(Seq(RowType)) /\ Len(Planned) = Len(imports) /\ Planned # <<>>
  BY PlannedTyped
<1>5. CASE request.kind = "split"
  <2> DEFINE c == Counts(probed[1])
  <2>1. /\ c \in Seq(Nat) /\ Len(imports) = Len(c) /\ probed[1] \in Nat
        /\ \A t \in 1..Len(c) :
             /\ imports[t] = <<Part(1, Upto(c, t - 1), c[t])>>
             /\ Part(1, Upto(c, t - 1), c[t]) \in PartType
        /\ probed[1] < Word => Total(c) % Word = probed[1]
    BY <1>5, SplitPlan
  <2> HIDE DEF c
  <2>2. /\ len[1] \in Nat /\ len[1] < Word /\ probed[1] < Word /\ Word \in Nat \ {0}
    BY Constants, LengthBound
  <2>3. ASSUME NEW t \in 1..Len(c), c[t] > 0 PROVE Upto(c, t) <= len[1]
    <3> DEFINE p == Part(1, Upto(c, t - 1), c[t])
    <3>1. t \in 1..Len(imports) /\ imports[t] = <<p>>
      BY <2>1
    <3>2. p.source = 1 /\ p.start = Upto(c, t - 1) /\ p.count = c[t]
      BY DEF Part
    <3> HIDE DEF p
    <3>3. Len(imports[t]) = 1 /\ imports[t][1] = p
      BY <3>1
    <3>4. t = at => part = 2
      <4> SUFFICES ASSUME t = at PROVE part = 2
        OBVIOUS
      <4>1. Parts = imports[t]
        BY DEF Parts
      <4>2. Len(Parts) = 1
        BY <3>3, <4>1
      <4> QED
        BY <1>1, <4>2
    <3>5. t \in 1..at /\ 1 \in 1..Len(imports[t]) /\ (t < at \/ 1 < part)
      <4>1. t \in 1..at /\ at \in Nat
        BY <1>1, <3>1
      <4>2. t < at \/ 1 < part
        BY <3>4, <4>1
      <4> QED
        BY <3>3, <4>1, <4>2
    <3>6. InRange(p)
      BY <2>3, <3>2, <3>3, <3>5 DEF FitInv
    <3>7. Upto(c, t - 1) + c[t] <= len[1]
      BY <3>2, <3>6 DEF InRange
    <3> QED
      BY <2>1, <3>7, UptoIs
  <2>4. Total(c) = probed[1]
    <3>1. Total(c) <= len[1]
      BY <2>1, <2>2, <2>3, TotalBounded
    <3>2. Total(c) \in Nat
      BY <2>1, UptoIs
    <3> DEFINE T == Total(c)
               l == len[1]
    <3>3. T \in Nat /\ l \in Nat /\ T <= l /\ l < Word
      BY <2>2, <3>1, <3>2
    <3> HIDE DEF T, l
    <3>4. T < Word /\ Word \in Nat \ {0}
      BY <2>2, <3>3
    <3>5. T % Word = T
      BY <3>3, <3>4
    <3> QED
      BY <2>1, <2>2, <3>5 DEF T
  <2>5. ASSUME NEW t \in 1..Len(c)
        PROVE /\ Len(Planned[t]) = c[t]
              /\ \A n \in 1..c[t] : Planned[t][n] = <<1, Upto(c, t - 1) + n>>
    <3> DEFINE p == Part(1, Upto(c, t - 1), c[t])
    <3>1. t \in 1..Len(imports) /\ imports[t] = <<p>> /\ p \in PartType
      BY <2>1
    <3>2. p.source = 1 /\ p.start = Upto(c, t - 1) /\ p.count = c[t]
      BY DEF Part
    <3> HIDE DEF p
    <3>3. Planned[t] = PartRows(p)
      BY <1>2, <3>1, OnePart
    <3> QED
      BY <3>1, <3>2, <3>3, PartRowsAre
  <2> DEFINE rows == FlattenSeq(Planned)
             seqs == Planned
  <2>6. /\ seqs \in Seq(Seq(RowType)) /\ seqs # <<>> /\ Len(c) = Len(seqs)
        /\ \A t \in 1..Len(c) : c[t] = Len(seqs[t])
    BY <1>4, <2>1, <2>5
  <2>7. /\ rows \in Seq(RowType) /\ Len(rows) = Total(c)
        /\ \A t \in 1..Len(c) : \A n \in 1..c[t] :
             rows[Upto(c, t - 1) + n] = seqs[t][n]
    <3> HIDE DEF seqs
    <3>1. /\ FlattenSeq(seqs) \in Seq(RowType) /\ Len(FlattenSeq(seqs)) = Total(c)
          /\ \A t \in 1..Len(c) : \A n \in 1..c[t] :
               FlattenSeq(seqs)[Upto(c, t - 1) + n] = seqs[t][n]
      BY <2>1, <2>6, FlattenLayout
    <3> QED
      BY <3>1 DEF seqs
  <2> HIDE DEF rows
  <2>8. ASSUME NEW m \in 1..probed[1] PROVE rows[m] = <<1, m>>
    <3>1. m \in 1..Total(c)
      BY <2>4
    <3>2. PICK t \in 1..Len(c) : \E n \in 1..c[t] : m = Upto(c, t - 1) + n
      BY <2>1, <3>1, UptoCovers
    <3>3. PICK n \in 1..c[t] : m = Upto(c, t - 1) + n
      BY <3>2
    <3> QED
      BY <2>5, <2>7, <3>3
  <2> DEFINE every == [n \in 1..(probed[1] + 1 - 1) |-> <<1, 1 + n - 1>>]
             N == probed[1]
  <2>9. every \in Seq(RowType) /\ Len(every) = N /\ \A n \in 1..N : every[n] = <<1, n>>
    <3>1. N \in Nat /\ N + 1 - 1 = N /\ \A n \in 1..N : 1 + n - 1 = n /\ <<1, n>> \in RowType
      BY <2>1, Constants DEF RowType
    <3>2. every = [n \in 1..N |-> <<1, n>>]
      BY <3>1
    <3> HIDE DEF every, N
    <3>3. /\ [n \in 1..N |-> <<1, n>>] \in Seq(RowType) /\ Len([n \in 1..N |-> <<1, n>>]) = N
          /\ \A n \in 1..N : [i \in 1..N |-> <<1, i>>][n] = <<1, n>>
      BY <3>1
    <3> QED
      BY <3>2, <3>3
  <2>10. every = AllRows
    BY <1>5 DEF AllRows, Rows
  <2> HIDE DEF every
  <2>11. Len(rows) = Len(every) /\ \A n \in 1..Len(rows) : rows[n] = every[n]
    BY <2>4, <2>7, <2>8, <2>9
  <2>12. rows = every
    BY <2>7, <2>9, <2>11, SeqEqual
  <2> QED
    BY <2>10, <2>12 DEF rows
<1>6. CASE request.kind # "split"
  <2> DEFINE parts == [s \in Source |-> Part(s, 0, probed[s])]
  <2>1. /\ Len(imports) = 1 /\ imports[1] = parts /\ parts \in Seq(PartType)
        /\ Len(parts) = Len(FirstLen)
        /\ \A s \in Source : parts[s] = Part(s, 0, probed[s]) /\ probed[s] \in Nat
    BY <1>6, JoinPlan
  <2> HIDE DEF parts
  <2>2. DOMAIN parts = Source
    BY <2>1, Constants
  <2>3. ASSUME NEW s \in Source PROVE PartRows(parts[s]) = Rows(s, 1, probed[s])
    <3>1. parts[s] = Part(s, 0, probed[s]) /\ 0 + 1 = 1 /\ 0 + probed[s] = probed[s]
      BY <2>1
    <3>2. PartRows(parts[s]) = Rows(s, 0 + 1, 0 + probed[s])
      BY <3>1 DEF PartRows, Part
    <3> QED
      BY <3>1, <3>2
  <2>4. [s \in DOMAIN parts |-> PartRows(parts[s])] = [s \in Source |-> Rows(s, 1, probed[s])]
    BY <2>2, <2>3
  <2>5. RowsOfParts(parts) = AllRows
    BY <1>6, <2>4 DEF RowsOfParts, AllRows
  <2> DEFINE x == RowsOfParts(parts)
  <2>6. Planned = <<x>>
    <3> DEFINE seqs == Planned
    <3>1. seqs \in Seq(Seq(RowType)) /\ Len(seqs) = 1 /\ seqs[1] = x
      BY <1>2, <1>4, <2>1
    <3> HIDE DEF seqs, x
    <3>2. seqs = <<x>>
      BY <3>1
    <3> QED
      BY <3>2 DEF seqs
  <2> HIDE DEF x
  <2>7. FlattenSeq(Planned) = x
    BY <2>6, FlattenOne
  <2> QED
    BY <2>5, <2>7 DEF x
<1> QED
  BY <1>5, <1>6

LEMMA InstanceFlattens ==
  ASSUME NEW s
  PROVE Whole!FlattenSeq(s) = FlattenSeq(s)
BY DEF FlattenSeq, Whole!FlattenSeq

LEMMA WholeInit == Init => Whole!Init
<1> SUFFICES ASSUME Init PROVE Whole!Init
  OBVIOUS
<1>1. imports = <<>> /\ made = <<>> /\ result = "pending"
  BY DEF Init
<1>2. Planned = <<>>
  BY <1>1 DEF Planned
<1> QED
  BY <1>1, <1>2 DEF Whole!Init

LEMMA WholeStep ==
  Inv /\ [Next]_vars => [Whole!Next]_<<AllRows, Planned, made, result>>
<1> SUFFICES ASSUME Inv, [Next]_vars PROVE [Whole!Next]_<<AllRows, Planned, made, result>>
  OBVIOUS
<1>0. /\ Typed /\ LensInv /\ PlanInv /\ ExportInv /\ FitInv /\ MadeInv /\ FlowInv
      /\ MadeInv' /\ Typed'
  BY InvStep DEF Inv
<1>1. /\ imports \in Seq(Seq(PartType)) /\ at \in Nat /\ at <= Len(imports)
      /\ made \in Seq(Seq(RowType)) /\ taken \in Seq(RowType)
  BY <1>0 DEF Typed, CallTyped, MoveTyped, MadeTyped
\* What is not asked of again stays.
<1>2. ASSUME UNCHANGED <<request, probed>> PROVE AllRows' = AllRows
  BY <1>2 DEF AllRows
<1>3. ASSUME UNCHANGED imports PROVE Planned' = Planned
  BY <1>3 DEF Planned
<1>4. ASSUME UNCHANGED <<request, probed, imports, made, result>>
      PROVE UNCHANGED <<AllRows, Planned, made, result>>
  BY <1>2, <1>3, <1>4
<1>5. at > 0 => Planned # <<>> /\ Len(Planned) = Len(imports)
                /\ Planned \in Seq(Seq(RowType))
  BY <1>0, PlannedTyped
<1>6. CASE Plan
  <2>1. /\ at = 0 /\ imports = <<>> /\ result = "pending" /\ made' = made
    BY <1>0, <1>6 DEF Plan, PlanInv
  <2>2. Planned = <<>>
    BY <2>1 DEF Planned
  <2>3. \/ at' = 0 /\ result' = "error" /\ imports' = <<>>
        \/ at' = 1 /\ result' = "pending" /\ Len(imports') \in Nat \ {0}
    BY <1>0, <1>6, PlanTyped
  <2>4. CASE at' = 0 /\ result' = "error" /\ imports' = <<>>
    <3>1. Planned' = Planned
      BY <1>3, <2>1, <2>4
    <3>2. Whole!Fail
      BY <2>1, <2>2, <2>4, <3>1 DEF Whole!Fail
    <3> QED
      BY <3>2 DEF Whole!Next
  <2>5. CASE at' = 1 /\ result' = "pending" /\ Len(imports') \in Nat \ {0}
    <3>1. Planned' # <<>>
      <4>1. imports' \in Seq(Seq(PartType))
        BY <1>0 DEF Typed, CallTyped
      <4>2. 1 \in DOMAIN imports' /\ DOMAIN Planned' = DOMAIN imports'
        BY <2>5, <4>1 DEF Planned
      <4> QED
        BY <4>2
    <3>2. Whole!Assign
      BY <2>1, <2>2, <2>5, <3>1 DEF Whole!Assign
    <3> QED
      BY <3>2 DEF Whole!Next
  <2> QED
    BY <2>3, <2>4, <2>5
<1>7. CASE Finish /\ made' # made
  <2>1. /\ target = "receiving" /\ made' = Append(made, taken)
        /\ UNCHANGED <<request, probed, imports, result>>
    BY <1>7 DEF Finish, StreamEnded, Receiving, callVars
  <2>2. at > 0
    BY <1>0, <1>1, <2>1 DEF PlanInv
  <2>3. Planned' = Planned /\ AllRows' = AllRows
    BY <1>2, <1>3, <2>1
  <2>4. Len(made') = Len(made) + 1 /\ made'[Len(made) + 1] = taken /\ Len(made) \in Nat
    BY <1>1, <2>1
  <2>5. Len(made) + 1 <= Len(imports)
    BY <1>0, <2>1, <2>4 DEF MadeInv
  <2>6. taken = Planned[Len(made) + 1]
    <3>1. Len(made) + 1 \in 1..Len(made')
      BY <2>4
    <3> QED
      BY <1>0, <2>3, <2>4, <3>1 DEF MadeInv
  <2>7. Len(made) < Len(Planned)
    BY <1>1, <1>5, <2>2, <2>4, <2>5
  <2>8. Whole!MakeNext
    BY <2>1, <2>3, <2>6, <2>7 DEF Whole!MakeNext
  <2> QED
    BY <2>8 DEF Whole!Next
<1>8. CASE Return
  <2>1. /\ result = "pending" /\ at > 0 /\ UNCHANGED <<request, probed, imports, made>>
        /\ (Good /\ at = Len(imports) /\ result' = "ok") \/ result' = "error"
    BY <1>8 DEF Return
  <2>2. Planned' = Planned /\ AllRows' = AllRows
    BY <1>2, <1>3, <2>1
  <2>3. CASE Good /\ at = Len(imports) /\ result' = "ok"
    <3>1. target = "activated" /\ producer = "done"
      BY <2>3 DEF Good
    <3>2. Len(made) = Len(Planned) /\ \A t \in 1..Len(made) : made[t] = Planned[t]
      BY <1>0, <1>5, <2>1, <2>3, <3>1 DEF MadeInv
    <3> DEFINE plan == Planned
    <3>3. plan \in Seq(Seq(RowType)) /\ Len(made) = Len(plan)
          /\ \A t \in 1..Len(made) : made[t] = plan[t]
      BY <1>5, <2>1, <3>2
    <3> HIDE DEF plan
    <3>4. made = plan
      BY <1>1, <3>3, SeqEqual
    <3>5. FlattenSeq(made) = AllRows
      BY <1>0, <2>1, <2>3, <3>1, <3>4, PlannedWhole DEF plan
    <3>6. Whole!FlattenSeq(made) = AllRows
      BY <3>5, InstanceFlattens
    <3>7. Whole!Succeed
      BY <1>5, <2>1, <2>2, <2>3, <3>4, <3>6 DEF Whole!Succeed, plan
    <3> QED
      BY <3>7 DEF Whole!Next
  <2>4. CASE result' = "error"
    <3>1. Whole!Fail
      BY <2>1, <2>2, <2>4 DEF Whole!Fail
    <3> QED
      BY <3>1 DEF Whole!Next
  <2> QED
    BY <2>1, <2>3, <2>4
\* The other steps are none of the promise's.
<1>9. CASE \/ NextImport \/ Produce \/ Exporting \/ PushBlock \/ (Finish /\ made' = made)
           \/ OpenLost \/ ExportLost \/ TargetLost \/ (\E s \in Source : AddRow(s))
           \/ UNCHANGED vars
  <2>1. UNCHANGED <<request, probed, imports, made, result>>
    BY <1>9 DEF NextImport, Produce, SendEmpty, OpenExport, OpenRefused, Forward, ForwardFails,
      ExportEnds, ProducerDone, Exporting, ExportFrame, ExportReturns, PushBlock, Finish,
      OpenLost, ExportLost, TargetLost, AddRow, vars, callVars
  <2> QED
    BY <1>4, <2>1
<1> QED
  BY <1>6, <1>7, <1>8, <1>9 DEF Next, Call, Importing

\* Whatever faults and other requests do meanwhile, every index a split or join
\* activates is whole and as planned, and it reports success only when the new
\* indexes together hold every row of the sources, once and in order.
THEOREM TransfersMoveWholes == Spec => WholeOrNothing
<1> DEFINE Step == Whole!Next
<1>1. Init => Whole!Init
  BY WholeInit
<1>2. Inv /\ [Next]_vars => [Step]_<<AllRows, Planned, made, result>>
  BY WholeStep
<1> HIDE DEF Step
<1>3. Spec => Whole!Init /\ [][Step]_<<AllRows, Planned, made, result>>
  BY <1>1, <1>2, InvHolds, PTL DEF Spec
<1> QED
  BY <1>3 DEF Step, WholeOrNothing, Whole!Spec
================================================================================
