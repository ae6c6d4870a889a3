----------------------------- MODULE TopologyProofs -----------------------------
(***************************************************************************)
(* Theorems about the shard table, for every number of nodes, operators,   *)
(* searches, shards and rows: types, generations, what the state file says,*)
(* spares, calibration, durable tables, the autoscaler's split, and every  *)
(* row in one place.                                                       *)
(*                                                                         *)
(* A step is first framed variable by variable: TablesFrame says what the  *)
(* table, the file, the pool and the lock may do, IndexFrame what each     *)
(* index may do, and TasksFrame what the one task that moves does.  Each   *)
(* invariant is then proved from these and not from Next: Typed (types),   *)
(* GenerationInv (the lock, and what its holder publishes), VisibleInv,    *)
(* SparesInv, PairInv, PlanInv and ConfigsInv (what is published is what   *)
(* was planned and staged), NamedInv and OwnInv (who may drop an index),   *)
(* SavedInv, SplitInv and PublishInv (what is saved, and the two halves),  *)
(* and OnceInv (no row twice).                                             *)
(***************************************************************************)
EXTENDS Topology, SequenceTheorems, WellFoundedInduction, TLAPS

--------------------------------------------------------------------------------
(* Sequences.  The library's induction theorems cannot be used (their        *)
(* parameters are operators); what a recursive function computes is proved   *)
(* from the least element of the set of arguments where it would fail.       *)

LEMMA LeastElement ==
  ASSUME NEW S \in SUBSET Nat, S # {}
  PROVE \E m \in S : \A k \in S : m <= k
<1> DEFINE R == {ss \in Nat \X Nat : ss[1] < ss[2]}
<1>1. IsWellFoundedOn(R, Nat)
  BY NatLessThanWellFounded DEF OpToRel
<1>2. \E x \in S : \A y \in S : ~ (<<y, x>> \in R)
  <2> HIDE DEF R
  <2> QED BY <1>1, WFMin, Zenon
<1>3. PICK x \in S : \A y \in S : ~ (<<y, x>> \in R)
  BY <1>2
<1>4. ASSUME NEW y \in S PROVE x <= y
  <2>1. <<y, x>> \notin R
    BY <1>3
  <2>2. ~ (y < x)
    BY <2>1
  <2> QED
    BY <2>2
<1> QED
  BY <1>4

\* FlattenSeq appends the sequences one by one.
LEMMA FlattenSteps ==
  ASSUME NEW S, NEW seqs \in Seq(Seq(S)), seqs # <<>>
  PROVE \E f \in [1..Len(seqs) -> Seq(S)] :
          /\ FlattenSeq(seqs) = f[Len(seqs)] /\ f[1] = seqs[1]
          /\ \A i \in 2..Len(seqs) : f[i] = f[i - 1] \o seqs[i]
<1> DEFINE N == Len(seqs)
           Flat(f, n) == \A i \in 1..n :
                           f[i] = IF i = 1 THEN seqs[i] ELSE f[i - 1] \o seqs[i]
           IsFlat(n) == \E f \in [1..n -> Seq(S)] : Flat(f, n)
<1>1. N \in Nat /\ N > 0 /\ \A i \in 1..N : seqs[i] \in Seq(S)
  OBVIOUS
<1>2. IsFlat(1)
  <2>1. [i \in 1..1 |-> seqs[i]] \in [1..1 -> Seq(S)]
    BY <1>1
  <2>2. Flat([i \in 1..1 |-> seqs[i]], 1)
    OBVIOUS
  <2> QED
    BY <2>1, <2>2
<1>3. ASSUME NEW n \in Nat, n > 0, n < N, IsFlat(n) PROVE IsFlat(n + 1)
  <2>1. PICK f \in [1..n -> Seq(S)] : Flat(f, n)
    BY <1>3
  <2> DEFINE g == [i \in 1..(n + 1) |-> IF i <= n THEN f[i] ELSE f[n] \o seqs[i]]
  <2>2. f[n] \o seqs[n + 1] \in Seq(S)
    BY <1>1, <1>3, <2>1
  <2>3. g \in [1..(n + 1) -> Seq(S)]
    BY <1>3, <2>1, <2>2
  <2>4. ASSUME NEW i \in 1..(n + 1)
        PROVE g[i] = IF i = 1 THEN seqs[i] ELSE g[i - 1] \o seqs[i]
    <3>1. \A k \in 1..n : g[k] = f[k]
      BY <1>3
    <3>2. CASE i = 1
      <4> 1 \in 1..n
        BY <1>3
      <4> QED BY <2>1, <3>1, <3>2
    <3>3. CASE i # 1 /\ i <= n
      <4> i \in 1..n /\ i - 1 \in 1..n
        BY <1>3, <3>3
      <4> QED
        BY <2>1, <3>1, <3>3
    <3>4. CASE i = n + 1
      <4>1. i - 1 = n /\ n \in 1..n /\ i \in 1..(n + 1) /\ ~(i <= n) /\ i # 1
        BY <1>3, <3>4
      <4>2. g[i] = f[n] \o seqs[i]
        BY <4>1
      <4> QED
        BY <3>1, <4>1, <4>2
    <3> QED
      BY <1>3, <3>2, <3>3, <3>4
  <2>5. Flat(g, n + 1)
    <3> HIDE DEF g
    <3> QED BY <2>4
  <2> QED
    BY <2>3, <2>5
<1>4. IsFlat(N)
  <2> DEFINE Bad == {n \in 1..N : ~IsFlat(n)}
  <2> HIDE DEF IsFlat
  <2> SUFFICES ASSUME Bad # {} PROVE FALSE
    BY <1>1
  <2>1. PICK m \in Bad : \A k \in Bad : m <= k
    <3> Bad \in SUBSET Nat
      BY <1>1
    <3> QED BY LeastElement
  <2>2. m \in Nat /\ m > 1 /\ m <= N
    BY <2>1, <1>1, <1>2
  <2>3. IsFlat(m - 1)
    BY <2>1, <2>2
  <2>4. m - 1 \in Nat /\ m - 1 > 0 /\ m - 1 < N /\ (m - 1) + 1 = m
    BY <1>1, <2>2
  <2>5. IsFlat((m - 1) + 1)
    BY <1>3, <2>3, <2>4
  <2> QED
    BY <2>1, <2>4, <2>5
<1> DEFINE Def(f) == [i \in 1..N |-> IF i = 1 THEN seqs[i] ELSE f[i - 1] \o seqs[i]]
           flatten == CHOOSE f : f = Def(f)
<1>5. flatten = Def(flatten)
  <2>1. PICK f \in [1..N -> Seq(S)] : Flat(f, N)
    BY <1>4
  <2>2. f = Def(f)
    BY <2>1
  <2> QED
    BY <2>2
<1>6. \A i \in 1..N : flatten[i] = IF i = 1 THEN seqs[i] ELSE flatten[i - 1] \o seqs[i]
  <2> HIDE DEF flatten
  <2> QED
    BY <1>5
<1>7. \A n \in 1..N : flatten[n] \in Seq(S)
  <2> DEFINE Bad == {n \in 1..N : flatten[n] \notin Seq(S)}
  <2> HIDE DEF flatten
  <2> SUFFICES ASSUME Bad # {} PROVE FALSE
    OBVIOUS
  <2>1. PICK m \in Bad : \A k \in Bad : m <= k
    <3> Bad \in SUBSET Nat
      BY <1>1
    <3> QED BY LeastElement
  <2>2. m \in 1..N /\ m # 1
    <3>1. flatten[1] = seqs[1] /\ seqs[1] \in Seq(S)
      BY <1>1, <1>6
    <3> QED
      BY <2>1, <3>1
  <2>3. m - 1 \in 1..N /\ m - 1 < m
    BY <2>2, <1>1
  <2>4. flatten[m - 1] \in Seq(S)
    BY <2>1, <2>3
  <2>5. flatten[m] = flatten[m - 1] \o seqs[m]
    BY <1>6, <2>2
  <2>6. flatten[m] \in Seq(S)
    BY <1>1, <2>2, <2>4, <2>5
  <2> QED
    BY <2>1, <2>6
<1>8. FlattenSeq(seqs) = flatten[N]
  BY <1>1 DEF FlattenSeq
<1> HIDE DEF flatten
<1> DEFINE f == [n \in 1..N |-> flatten[n]]
<1>9. f \in [1..N -> Seq(S)] /\ \A n \in 1..N : f[n] = flatten[n]
  BY <1>7
<1>10. f[1] = seqs[1] /\ f[N] = FlattenSeq(seqs)
  BY <1>1, <1>6, <1>8, <1>9
<1>11. ASSUME NEW n \in 2..N PROVE f[n] = f[n - 1] \o seqs[n]
  <2>1. n \in 1..N /\ n - 1 \in 1..N /\ n # 1
    BY <1>1
  <2>2. flatten[n] = flatten[n - 1] \o seqs[n]
    BY <1>6, <2>1
  <2> QED
    BY <1>9, <2>1, <2>2
<1> HIDE DEF f
<1> QED
  BY <1>9, <1>10, <1>11

LEMMA FlattenSeqType ==
  ASSUME NEW S, NEW seqs \in Seq(Seq(S)), seqs # <<>>
  PROVE FlattenSeq(seqs) \in Seq(S)
<1>1. PICK f \in [1..Len(seqs) -> Seq(S)] : FlattenSeq(seqs) = f[Len(seqs)]
  BY FlattenSteps
<1>2. Len(seqs) \in 1..Len(seqs)
  OBVIOUS
<1>3. f[Len(seqs)] \in Seq(S)
  BY <1>2
<1> QED
  BY <1>1, <1>3

LEMMA ToSetAppend ==
  ASSUME NEW S, NEW s \in Seq(S), NEW e \in S
  PROVE ToSet(Append(s, e)) = ToSet(s) \union {e}
<1>1. Append(s, e) \in Seq(S) /\ Len(Append(s, e)) = Len(s) + 1 /\ Len(s) \in Nat
  OBVIOUS
<1>2. \A i \in 1..Len(s) : Append(s, e)[i] = s[i]
  OBVIOUS
<1>3. Append(s, e)[Len(s) + 1] = e
  OBVIOUS
<1>4. DOMAIN Append(s, e) = 1..(Len(s) + 1) /\ DOMAIN s = 1..Len(s)
  BY <1>1
<1>5. ASSUME NEW x \in ToSet(Append(s, e)) PROVE x \in ToSet(s) \union {e}
  <2>1. PICK i \in 1..(Len(s) + 1) : x = Append(s, e)[i]
    BY <1>4 DEF ToSet
  <2>2. i \in 1..Len(s) \/ i = Len(s) + 1
    BY <1>1
  <2> QED
    BY <1>2, <1>3, <1>4, <2>1, <2>2 DEF ToSet
<1>6. ASSUME NEW x \in ToSet(s) \union {e} PROVE x \in ToSet(Append(s, e))
  <2>1. CASE x = e
    <3> Len(s) + 1 \in 1..(Len(s) + 1)
      BY <1>1
    <3> QED
      BY <1>3, <1>4, <2>1 DEF ToSet
  <2>2. CASE x \in ToSet(s)
    <3>1. PICK i \in 1..Len(s) : x = s[i]
      BY <1>4, <2>2 DEF ToSet
    <3>2. i \in 1..(Len(s) + 1)
      BY <1>1
    <3> QED
      BY <1>2, <1>4, <3>1, <3>2 DEF ToSet
  <2> QED
    BY <2>1, <2>2
<1> QED
  BY <1>5, <1>6

\* What SparesLeft computes: the spares of the pool that the table does not place.
LEMMA SparesLeftIs ==
  ASSUME NEW table, spares \in Seq(Addr)
  PROVE /\ SparesLeft(table) \in Seq(Addr)
        /\ \A a : a \in ToSet(SparesLeft(table)) <=>
                    a \in ToSet(spares) /\ ~Serves(table, a)
<1> DEFINE N == Len(spares)
           Step(prev, n) == IF n = 0 THEN <<>>
                            ELSE IF Serves(table, spares[n]) THEN prev
                            ELSE Append(prev, spares[n])
           Left(f, n) == \A i \in 0..n : f[i] = Step(f[i - 1], i)
           IsLeft(n) == \E f \in [0..n -> Seq(Addr)] : Left(f, n)
<1>1. N \in Nat /\ \A i \in 1..N : spares[i] \in Addr
  OBVIOUS
<1>2. IsLeft(0)
  <2>1. [i \in 0..0 |-> <<>>] \in [0..0 -> Seq(Addr)]
    OBVIOUS
  <2>2. Left([i \in 0..0 |-> <<>>], 0)
    OBVIOUS
  <2> QED
    BY <2>1, <2>2
<1>3. ASSUME NEW n \in Nat, n < N, IsLeft(n) PROVE IsLeft(n + 1)
  <2>1. PICK f \in [0..n -> Seq(Addr)] : Left(f, n)
    BY <1>3
  <2> DEFINE g == [i \in 0..(n + 1) |-> IF i <= n THEN f[i] ELSE Step(f[n], n + 1)]
  <2>2. Step(f[n], n + 1) \in Seq(Addr)
    <3>1. f[n] \in Seq(Addr) /\ spares[n + 1] \in Addr
      BY <1>1, <1>3, <2>1
    <3> QED
      BY <3>1
  <2> HIDE DEF Step
  <2>3. g \in [0..(n + 1) -> Seq(Addr)]
    BY <1>3, <2>1, <2>2
  <2>4. ASSUME NEW i \in 0..(n + 1)
        PROVE g[i] = Step(g[i - 1], i)
    <3>1. \A k \in 0..n : g[k] = f[k]
      BY <1>3
    <3>2. CASE i = 0
      <4> 0 \in 0..n
        BY <1>3
      <4> QED BY <2>1, <3>1, <3>2 DEF Step
    <3>3. CASE i # 0 /\ i <= n
      <4> i \in 0..n /\ i - 1 \in 0..n
        BY <1>3, <3>3
      <4> QED
        BY <2>1, <3>1, <3>3
    <3>4. CASE i = n + 1
      <4>1. i - 1 = n /\ n \in 0..n /\ i \in 0..(n + 1) /\ ~(i <= n)
        BY <1>3, <3>4
      <4>2. g[i] = Step(f[n], n + 1)
        BY <4>1
      <4> QED
        BY <3>1, <3>4, <4>1, <4>2
    <3> QED
      BY <1>3, <3>2, <3>3, <3>4
  <2>5. Left(g, n + 1)
    <3> HIDE DEF g
    <3> QED BY <2>4
  <2> QED
    BY <2>3, <2>5
<1>4. IsLeft(N)
  <2> DEFINE Bad == {n \in 0..N : ~IsLeft(n)}
  <2> HIDE DEF IsLeft
  <2> SUFFICES ASSUME Bad # {} PROVE FALSE
    BY <1>1
  <2>1. PICK m \in Bad : \A k \in Bad : m <= k
    <3> Bad \in SUBSET Nat
      BY <1>1
    <3> QED BY LeastElement
  <2>2. m \in Nat /\ m > 0 /\ m <= N
    BY <2>1, <1>1, <1>2
  <2>3. IsLeft(m - 1)
    BY <2>1, <2>2
  <2>4. m - 1 \in Nat /\ m - 1 < N /\ (m - 1) + 1 = m
    BY <1>1, <2>2
  <2>5. IsLeft((m - 1) + 1)
    BY <1>3, <2>3, <2>4
  <2> QED
    BY <2>1, <2>4, <2>5
<1> DEFINE Def(f) == [i \in 0..N |-> IF i = 0 THEN <<>>
                                     ELSE IF Serves(table, spares[i]) THEN f[i - 1]
                                     ELSE Append(f[i - 1], spares[i])]
           left == CHOOSE f : f = Def(f)
<1>5. left = Def(left)
  <2>1. PICK f \in [0..N -> Seq(Addr)] : Left(f, N)
    BY <1>4
  <2>2. f = Def(f)
    BY <2>1
  <2> QED
    BY <2>2
<1>6. \A i \in 0..N : left[i] = Step(left[i - 1], i)
  <2> HIDE DEF left
  <2> QED
    BY <1>5
<1> HIDE DEF left
<1> DEFINE Good(n) == /\ left[n] \in Seq(Addr)
                      /\ \A a : a \in ToSet(left[n]) <=>
                           \E k \in 1..n : spares[k] = a /\ ~Serves(table, a)
<1>7. Good(N)
  <2> DEFINE Bad == {n \in 0..N : ~Good(n)}
  <2> SUFFICES ASSUME Bad # {} PROVE FALSE
    <3> HIDE DEF Good
    <3> QED BY <1>1
  <2>1. PICK m \in Bad : \A k \in Bad : m <= k
    <3> Bad \in SUBSET Nat
      BY <1>1
    <3> HIDE DEF Bad
    <3> QED BY LeastElement
  <2>2. m \in 0..N /\ m # 0
    <3>1. left[0] = <<>>
      BY <1>1, <1>6
    <3>2. Good(0)
      BY <3>1 DEF ToSet
    <3> QED
      BY <2>1, <3>2
  <2>3. m - 1 \in 0..N /\ m - 1 < m /\ m \in 1..N
    BY <2>2, <1>1
  <2>4. Good(m - 1)
    <3> HIDE DEF Good
    <3> QED BY <2>1, <2>3
  <2>5. left[m] = IF Serves(table, spares[m]) THEN left[m - 1]
                  ELSE Append(left[m - 1], spares[m])
    BY <1>6, <2>2
  <2>6. left[m] \in Seq(Addr)
    BY <1>1, <2>3, <2>4, <2>5
  <2>7. ASSUME NEW a
        PROVE a \in ToSet(left[m]) <=> \E k \in 1..m : spares[k] = a /\ ~Serves(table, a)
    <3>1. (\E k \in 1..m : spares[k] = a /\ ~Serves(table, a)) <=>
            \/ \E k \in 1..(m - 1) : spares[k] = a /\ ~Serves(table, a)
            \/ spares[m] = a /\ ~Serves(table, a)
      <4>1. ASSUME NEW k \in 1..m PROVE k \in 1..(m - 1) \/ k = m
        BY <2>3
      <4>2. \A k \in 1..(m - 1) : k \in 1..m
        BY <2>3
      <4>3. m \in 1..m
        BY <2>3
      <4> QED
        BY <4>1, <4>2, <4>3
    <3>2. CASE Serves(table, spares[m])
      <4>1. left[m] = left[m - 1]
        BY <2>5, <3>2
      <4> QED
        BY <2>4, <3>1, <3>2, <4>1
    <3>3. CASE ~Serves(table, spares[m])
      <4>1. left[m] = Append(left[m - 1], spares[m])
        BY <2>5, <3>3
      <4>2. a \in ToSet(left[m]) <=> a \in ToSet(left[m - 1]) \/ a = spares[m]
        <5>1. left[m - 1] \in Seq(Addr) /\ spares[m] \in Addr
          BY <1>1, <2>3, <2>4
        <5> HIDE DEF Good
        <5> QED
          BY <4>1, <5>1, ToSetAppend
      <4> QED
        BY <2>4, <3>1, <3>3, <4>2
    <3> QED
      BY <3>2, <3>3
  <2>8. Good(m)
    BY <2>6, <2>7
  <2> QED
    BY <2>1, <2>8
<1>8. SparesLeft(table) = left[N]
  BY DEF SparesLeft, left
<1>9. \A a : a \in ToSet(spares) <=> \E k \in 1..N : spares[k] = a
  BY DEF ToSet
<1> QED
  BY <1>7, <1>8, <1>9

--------------------------------------------------------------------------------
(* Types, for every mutation, failure and restart.                           *)

Row == Nat \X Nat
SavedType == [rows : Seq(Row), cal : Nat]
IndexType ==
  [addr : Addr, rows : Seq(Row), cal : Nat, live : BOOLEAN, gen : Nat, disk : SavedType]

\* What names only the first n indexes: a table, an import, a binding, a task.
Table(n) == Seq([index : 1..n, required : Nat])
PartType(n) == [index : 1..n, start : Nat, count : Nat]
ImportType(n) == [addr : Addr, parts : Seq(PartType(n)) \ {<<>>}]
Binding(n) == [generation : Nat, shards : Table(n), cals : Seq(Nat)]
TaskType(n) ==
  [kind : {"none", "split", "join", "fit", "auto", "search"},
   pc : {"idle", "stage", "fit", "flush", "rebind", "commit", "invalidate",
         "collect", "probe", "search", "drop", "teardown"},
   plan : Seq(ImportType(n)), staged : Seq(1..n), configs : Table(n),
   sources : SUBSET (1..n), at : Nat, expected : Nat, table : Table(n), cal : Nat,
   pin : Binding(n)]
FileType(n) == [generation : Nat \ {0}, shards : Table(n) \ {<<>>}, spares : Seq(Addr)]

BindingOK(pin, g) == pin.generation <= g /\ Len(pin.cals) <= Len(pin.shards)

\* A task that will change the table still has a table to publish.
TaskOK(p, t) ==
  /\ p = Scaler /\ t.pc # "idle" => t.kind = "auto" /\ t.at \in 1..Len(t.table)
  /\ t.kind = "auto" => p = Scaler
  /\ t.pc = "stage" => t.plan # <<>> \/ t.staged # <<>>
  /\ t.pc = "fit" => t.table # <<>> /\ Len(t.staged) <= Len(t.table)
  /\ t.pc = "flush" => t.staged # <<>>
  /\ t.pc \in {"rebind", "commit"} => t.configs # <<>>

Typed ==
  /\ generation \in Nat \ {0} /\ shards \in Table(Len(idx)) \ {<<>>} /\ spares \in Seq(Addr)
  /\ pinned \in Binding(Len(idx)) /\ BindingOK(pinned, generation)
  /\ writer \in Proc \union Addr \union {Free}
  /\ file \in FileType(Len(idx))
  /\ idx \in Seq(IndexType)
  /\ proc \in [Proc -> TaskType(Len(idx))]
  /\ \A p \in Proc : TaskOK(p, proc[p]) /\ BindingOK(proc[p].pin, generation)
  /\ moves \in Nat /\ ingested \in Nat /\ crashes \in Nat

LEMMA TypesGrow ==
  ASSUME NEW n \in Nat
  PROVE /\ Table(n) \subseteq Table(n + 1)
        /\ Binding(n) \subseteq Binding(n + 1)
        /\ TaskType(n) \subseteq TaskType(n + 1)
        /\ FileType(n) \subseteq FileType(n + 1)
<1>1. 1..n \subseteq 1..(n + 1)
  OBVIOUS
<1>2. Table(n) \subseteq Table(n + 1)
  <2>1. [index : 1..n, required : Nat] \subseteq [index : 1..(n + 1), required : Nat]
    BY <1>1
  <2> QED
    BY <2>1, SeqMonotonic DEF Table
<1>3. Binding(n) \subseteq Binding(n + 1)
  BY <1>2 DEF Binding
<1>4. ImportType(n) \subseteq ImportType(n + 1)
  <2>1. PartType(n) \subseteq PartType(n + 1)
    BY <1>1 DEF PartType
  <2>2. Seq(PartType(n)) \subseteq Seq(PartType(n + 1))
    BY <2>1, SeqMonotonic
  <2> QED
    BY <2>2 DEF ImportType
<1>5. Seq(ImportType(n)) \subseteq Seq(ImportType(n + 1)) /\ Seq(1..n) \subseteq Seq(1..(n + 1))
  BY <1>1, <1>4, SeqMonotonic
<1>6. TaskType(n) \subseteq TaskType(n + 1)
  <2> SUFFICES ASSUME NEW t \in TaskType(n) PROVE t \in TaskType(n + 1)
    OBVIOUS
  <2>1. SUBSET (1..n) \subseteq SUBSET (1..(n + 1))
    BY <1>1
  <2> QED
    BY <1>2, <1>3, <1>5, <2>1 DEF TaskType
<1>7. FileType(n) \subseteq FileType(n + 1)
  BY <1>2 DEF FileType
<1> QED
  BY <1>2, <1>3, <1>6, <1>7

LEMMA IdleType ==
  ASSUME NEW n \in Nat, NEW p, NEW g \in Nat
  PROVE Idle \in TaskType(n) /\ TaskOK(p, Idle) /\ BindingOK(Idle.pin, g)
        /\ NoPin \in Binding(n) /\ BindingOK(NoPin, g)
        /\ Idle.pc = "idle" /\ Idle.kind = "none"
<1>1. NoPin \in Binding(n) /\ BindingOK(NoPin, g)
  BY DEF NoPin, Binding, BindingOK, Table
<1>2. Idle \in TaskType(n)
  BY <1>1 DEF Idle, TaskType, Table
<1> QED
  BY <1>1, <1>2 DEF Idle, TaskOK

LEMMA TypedInit == Init => Typed
<1> SUFFICES ASSUME Init PROVE Typed
  OBVIOUS
<1> USE DEF Init
<1> DEFINE n == Len(FirstShards)
<1>1. n \in Nat /\ n > 0 /\ DOMAIN FirstShards = 1..n /\ \A i \in 1..n : FirstShards[i] \in Addr
  BY BoundAssumption
<1>2. \A i \in 1..n : FirstRows[i] \in Seq(Row)
  BY <1>1, BoundAssumption DEF Row
<1>3. idx \in Seq(IndexType) /\ Len(idx) = n
  <2>1. \A i \in 1..n : idx[i] \in IndexType
    BY <1>1, <1>2 DEF IndexType, SavedType
  <2>2. idx \in [1..n -> IndexType]
    BY <1>1, <2>1
  <2> QED
    BY <1>1, <2>2
<1>4. shards \in Table(n) \ {<<>>}
  <2>1. \A i \in 1..n : Shard(i, 1) \in [index : 1..n, required : Nat]
    BY DEF Shard
  <2>2. shards = [i \in 1..n |-> Shard(i, 1)]
    BY <1>1
  <2>3. shards \in Table(n) /\ Len(shards) = n
    BY <1>1, <2>1, <2>2 DEF Table
  <2> HIDE DEF Init, n
  <2> QED
    BY <1>1, <2>3
<1>5. spares \in Seq(Addr)
  BY BoundAssumption, SeqMonotonic
<1>6. file \in FileType(n)
  BY <1>4, <1>5 DEF FileType
<1>7. generation = 1 /\ pinned = NoPin /\ writer = Free /\ proc = [p \in Proc |-> Idle]
  OBVIOUS
<1>8. \A p \in Proc : /\ Idle \in TaskType(n) /\ TaskOK(p, Idle)
                      /\ BindingOK(Idle.pin, 1) /\ NoPin \in Binding(n)
                      /\ BindingOK(NoPin, 1)
  BY <1>1, IdleType
<1>9. NoPin \in Binding(n) /\ BindingOK(NoPin, 1)
  BY <1>1, IdleType
<1> HIDE DEF n
<1>10. moves \in Nat /\ ingested \in Nat /\ crashes \in Nat
  OBVIOUS
<1> HIDE DEF Init
<1> QED
  BY <1>3, <1>4, <1>5, <1>6, <1>7, <1>8, <1>9, <1>10 DEF Typed

Tasks(tasks, n, g) ==
  /\ tasks \in [Proc -> TaskType(n)]
  /\ \A p \in Proc : TaskOK(p, tasks[p]) /\ BindingOK(tasks[p].pin, g)

\* One task changes.
LEMMA TaskTyped ==
  ASSUME Typed, NEW p \in Proc, NEW t \in TaskType(Len(idx)),
         TaskOK(p, t), BindingOK(t.pin, generation),
         proc' = [proc EXCEPT ![p] = t]
  PROVE Tasks(proc', Len(idx), generation)
<1>1. proc \in [Proc -> TaskType(Len(idx))]
      /\ \A q \in Proc : TaskOK(q, proc[q]) /\ BindingOK(proc[q].pin, generation)
  BY DEF Typed
<1>2. proc' \in [Proc -> TaskType(Len(idx))]
  BY <1>1
<1>3. \A q \in Proc : proc'[q] = IF q = p THEN t ELSE proc[q]
  BY <1>1
<1> QED
  BY <1>1, <1>2, <1>3 DEF Tasks

LEMMA EndTyped ==
  ASSUME Typed, NEW p \in Proc, End(p)
  PROVE Tasks(proc', Len(idx), generation)
<1>1. Len(idx) \in Nat /\ generation \in Nat
  BY DEF Typed
<1> QED
  BY <1>1, IdleType, TaskTyped DEF End

LEMMA GotoTyped ==
  ASSUME Typed, NEW p \in Proc,
         NEW pc \in {"flush", "rebind", "commit", "invalidate", "collect", "search",
                     "drop", "teardown"},
         ~At(p, "idle"), Goto(p, pc),
         pc = "flush" => proc[p].staged # <<>>,
         pc \in {"rebind", "commit"} => proc[p].configs # <<>>
  PROVE Tasks(proc', Len(idx), generation)
<1> DEFINE t == [proc[p] EXCEPT !.pc = pc]
<1>1. proc[p] \in TaskType(Len(idx)) /\ TaskOK(p, proc[p]) /\ BindingOK(proc[p].pin, generation)
  BY DEF Typed
<1>2. t \in TaskType(Len(idx))
  BY <1>1 DEF TaskType
<1>3. /\ t.pc = pc /\ t.kind = proc[p].kind /\ t.at = proc[p].at
      /\ t.table = proc[p].table /\ t.plan = proc[p].plan /\ t.staged = proc[p].staged
      /\ t.configs = proc[p].configs /\ t.pin = proc[p].pin
  BY <1>1 DEF TaskType
<1>4. TaskOK(p, t)
  BY <1>1, <1>3 DEF TaskOK, At
<1>5. proc' = [proc EXCEPT ![p] = t]
  BY DEF Goto
<1> HIDE DEF t
<1> QED
  BY <1>1, <1>2, <1>3, <1>4, <1>5, TaskTyped

LEMMA FailTyped ==
  ASSUME Typed, NEW p \in Proc, ~At(p, "idle"), Fail(p)
  PROVE Tasks(proc', Len(idx), generation)
BY EndTyped, GotoTyped DEF Fail

\* The indexes change one by one, and stay.
LEMMA IndexesTyped ==
  ASSUME Typed, NEW f \in [1..Len(idx) -> IndexType]
  PROVE f \in Seq(IndexType) /\ Len(f) = Len(idx)
<1>1. Len(idx) \in Nat
  BY DEF Typed
<1> QED
  BY <1>1

LEMMA FlushedTyped ==
  ASSUME NEW index \in IndexType
  PROVE /\ Flushed(index) \in IndexType
        /\ Flushed(index).addr = index.addr /\ Flushed(index).rows = index.rows
        /\ Flushed(index).cal = index.cal /\ Flushed(index).live = index.live
        /\ Flushed(index).gen = index.gen + 1
        /\ Flushed(index).disk.rows = index.rows /\ Flushed(index).disk.cal = index.cal
<1> DEFINE disk == [rows |-> index.rows, cal |-> index.cal]
<1>1. index.rows \in Seq(Row) /\ index.cal \in Nat /\ index.gen \in Nat
  BY DEF IndexType
<1>2. disk \in SavedType /\ disk.rows = index.rows /\ disk.cal = index.cal
  BY <1>1 DEF SavedType
<1>3. Flushed(index) = [index EXCEPT !.gen = index.gen + 1, !.disk = disk]
  BY DEF Flushed
<1> HIDE DEF disk
<1>4. /\ Flushed(index).disk = disk
      /\ Flushed(index).addr = index.addr /\ Flushed(index).rows = index.rows
      /\ Flushed(index).cal = index.cal /\ Flushed(index).live = index.live
      /\ Flushed(index).gen = index.gen + 1
  BY <1>3 DEF IndexType
<1>5. Flushed(index) \in IndexType
  <2>1. index.gen + 1 \in Nat
    BY <1>1
  <2> QED
    BY <1>2, <1>3, <2>1 DEF IndexType
<1> QED
  BY <1>2, <1>4, <1>5

LEMMA ImportTyped ==
  ASSUME Typed, NEW import \in ImportType(Len(idx)),
         \A j \in DOMAIN import.parts : Served(import.parts[j])
  PROVE [addr |-> import.addr,
         rows |-> FlattenSeq([j \in DOMAIN import.parts |-> PartRows(import.parts[j])]),
         cal |-> idx[import.parts[1].index].cal, live |-> TRUE,
         gen |-> 0, disk |-> [rows |-> <<>>, cal |-> 0]] \in IndexType
<1> DEFINE parts == import.parts
           seqs == [j \in DOMAIN parts |-> PartRows(parts[j])]
<1>1. idx \in Seq(IndexType)
  BY DEF Typed
<1>2. parts \in Seq(PartType(Len(idx))) /\ parts # <<>> /\ import.addr \in Addr
  BY DEF ImportType
<1>3. \A j \in 1..Len(parts) : parts[j] \in PartType(Len(idx))
  BY <1>2
<1>4. Len(parts) \in Nat /\ Len(parts) > 0 /\ DOMAIN parts = 1..Len(parts)
  BY <1>2
<1>5. ASSUME NEW j \in 1..Len(parts) PROVE PartRows(parts[j]) \in Seq(Row)
  <2> DEFINE part == parts[j]
  <2>1. part \in PartType(Len(idx)) /\ Served(part)
    BY <1>3, <1>4
  <2> HIDE DEF part
  <2>2. part.index \in 1..Len(idx) /\ part.start \in Nat /\ part.count \in Nat
    BY <2>1 DEF PartType
  <2>3. idx[part.index] \in IndexType
    BY <1>1, <2>2
  <2>4. idx[part.index].rows \in Seq(Row)
    BY <2>3 DEF IndexType
  <2>5. part.start + part.count <= Len(idx[part.index].rows)
    BY <2>1 DEF Served
  <2>6. \A k \in (part.start + 1)..(part.start + part.count) : idx[part.index].rows[k] \in Row
    BY <2>2, <2>4, <2>5
  <2>7. PartRows(part) \in Seq(Row)
    BY <2>2, <2>6, SubSeqProperties DEF PartRows
  <2> QED
    BY <2>7 DEF part
<1>6. seqs \in Seq(Seq(Row)) /\ Len(seqs) = Len(parts)
  <2> DEFINE R == Seq(Row)
  <2> HIDE DEF parts, R
  <2>1. [j \in 1..Len(parts) |-> PartRows(parts[j])] \in [1..Len(parts) -> R]
    BY <1>5 DEF R
  <2>2. [j \in 1..Len(parts) |-> PartRows(parts[j])] \in Seq(R)
        /\ Len([j \in 1..Len(parts) |-> PartRows(parts[j])]) = Len(parts)
    BY <1>4, <2>1
  <2> QED
    BY <1>4, <2>2 DEF R
<1> HIDE DEF seqs
<1>7. FlattenSeq(seqs) \in Seq(Row)
  <2>1. seqs # <<>>
    BY <1>4, <1>6
  <2> QED
    BY <1>6, <2>1, FlattenSeqType
<1>8. idx[parts[1].index] \in IndexType
  <2>1. parts[1].index \in 1..Len(idx)
    BY <1>3, <1>4 DEF PartType
  <2> QED
    BY <1>1, <2>1
<1>9. idx[parts[1].index].cal \in Nat
  BY <1>8 DEF IndexType
<1>10. [rows |-> <<>>, cal |-> 0] \in SavedType
  BY DEF SavedType
<1> QED
  BY <1>2, <1>7, <1>9, <1>10 DEF IndexType, seqs

\* The two halves of a split cover the rows, one after the other.
LEMMA Halves ==
  ASSUME NEW len \in Nat
  PROVE /\ EvenStart(len, 2, 1) = 0 /\ EvenCount(len, 2, 1) = EvenStart(len, 2, 2)
        /\ EvenStart(len, 2, 2) \in Nat /\ EvenCount(len, 2, 2) \in Nat
        /\ EvenStart(len, 2, 2) + EvenCount(len, 2, 2) = len
<1>1. len \div 2 \in Nat /\ len % 2 \in 0..1
  OBVIOUS
<1>2. len = (len \div 2) + (len \div 2) + (len % 2)
  OBVIOUS
<1>3. CASE len % 2 = 0
  BY <1>1, <1>2, <1>3 DEF EvenStart, EvenCount
<1>4. CASE len % 2 = 1
  BY <1>1, <1>2, <1>4 DEF EvenStart, EvenCount
<1> QED
  BY <1>1, <1>3, <1>4

LEMMA SplitPlanIs ==
  ASSUME Typed, NEW i \in 1..Len(idx), NEW a \in Addr, NEW b \in Addr
  PROVE LET len == Len(idx[i].rows) IN
        /\ len \in Nat
        /\ SplitPlan(i, <<a, b>>) \in Seq(ImportType(Len(idx)))
        /\ Len(SplitPlan(i, <<a, b>>)) = 2
        /\ SplitPlan(i, <<a, b>>)[1] =
             Import(a, <<Part(i, 0, EvenStart(len, 2, 2))>>)
        /\ SplitPlan(i, <<a, b>>)[2] =
             Import(b, <<Part(i, EvenStart(len, 2, 2), EvenCount(len, 2, 2))>>)
<1> DEFINE len == Len(idx[i].rows)
           plan == SplitPlan(i, <<a, b>>)
<1>1. len \in Nat
  <2>1. idx[i] \in IndexType
    BY DEF Typed
  <2> QED
    BY <2>1 DEF IndexType
<1>2. plan = [j \in 1..2 |->
                Import(<<a, b>>[j], <<Part(i, EvenStart(len, 2, j), EvenCount(len, 2, j))>>)]
  <2>1. DOMAIN <<a, b>> = 1..2 /\ Len(<<a, b>>) = 2
    OBVIOUS
  <2> QED
    BY <2>1 DEF SplitPlan
<1> HIDE DEF plan, len
<1>3. plan[1] = Import(a, <<Part(i, 0, EvenStart(len, 2, 2))>>)
  <2>1. plan[1] = Import(a, <<Part(i, EvenStart(len, 2, 1), EvenCount(len, 2, 1))>>)
    BY <1>2
  <2> QED
    BY <1>1, <2>1, Halves
<1>4. plan[2] = Import(b, <<Part(i, EvenStart(len, 2, 2), EvenCount(len, 2, 2))>>)
  BY <1>2
<1>5. ASSUME NEW start \in Nat, NEW count \in Nat, NEW c \in Addr
      PROVE Import(c, <<Part(i, start, count)>>) \in ImportType(Len(idx))
  <2> DEFINE part == Part(i, start, count)
  <2>1. part \in PartType(Len(idx))
    BY DEF Part, PartType
  <2> HIDE DEF part
  <2>2. <<part>> \in Seq(PartType(Len(idx))) \ {<<>>}
    BY <2>1
  <2>3. Import(c, <<part>>) \in ImportType(Len(idx))
    BY <2>2 DEF Import, ImportType
  <2> QED
    BY <2>3 DEF part
<1>6. plan[1] \in ImportType(Len(idx)) /\ plan[2] \in ImportType(Len(idx))
  <2>1. EvenStart(len, 2, 2) \in Nat /\ EvenCount(len, 2, 2) \in Nat /\ 0 \in Nat
    BY <1>1, Halves
  <2> QED
    BY <1>3, <1>4, <1>5, <2>1
<1>7. \A j \in 1..2 : plan[j] \in ImportType(Len(idx))
  BY <1>6
<1>8. plan \in Seq(ImportType(Len(idx))) /\ Len(plan) = 2
  <2>1. plan \in [1..2 -> ImportType(Len(idx))]
    BY <1>2, <1>7
  <2> QED
    BY <2>1, <1>2
<1> QED
  BY <1>1, <1>3, <1>4, <1>8 DEF plan, len

LEMMA TableFacts ==
  ASSUME NEW n \in Nat, NEW table \in Table(n)
  PROVE /\ Len(table) \in Nat /\ DOMAIN table = 1..Len(table)
        /\ \A j \in 1..Len(table) : table[j].index \in 1..n /\ table[j].required \in Nat
        /\ Members(table) = {table[j].index : j \in 1..Len(table)}
        /\ Members(table) \subseteq 1..n
        /\ table # <<>> <=> Len(table) > 0
<1> DEFINE S == [index : 1..n, required : Nat]
<1>1. table \in Seq(S)
  BY DEF Table
<1> HIDE DEF S
<1>2. \A j \in 1..Len(table) : table[j] \in S
  BY <1>1
<1>3. Len(table) \in Nat /\ DOMAIN table = 1..Len(table) /\ (table # <<>> <=> Len(table) > 0)
  BY <1>1
<1> QED
  BY <1>2, <1>3 DEF Members, S

LEMMA TypedFacts ==
  ASSUME Typed
  PROVE /\ Len(idx) \in Nat /\ DOMAIN idx = 1..Len(idx)
        /\ \A i \in 1..Len(idx) : idx[i] \in IndexType
        /\ generation \in Nat /\ shards \in Table(Len(idx)) /\ shards # <<>>
        /\ \A p \in Proc : /\ proc[p] \in TaskType(Len(idx)) /\ TaskOK(p, proc[p])
                           /\ BindingOK(proc[p].pin, generation)
BY DEF Typed

\* Nothing but tasks, the cached binding and the count of mutations changes.
LEMMA TasksStep ==
  ASSUME Typed, Tasks(proc', Len(idx), generation),
         UNCHANGED <<topoVars, writer, file, idx, ingested, crashes>>,
         pinned' \in Binding(Len(idx)), BindingOK(pinned', generation), moves' \in Nat
  PROVE Typed'
<1>1. /\ generation' = generation /\ shards' = shards /\ spares' = spares
      /\ writer' = writer /\ file' = file /\ idx' = idx
      /\ ingested' = ingested /\ crashes' = crashes
  BY DEF topoVars
<1> QED
  BY <1>1 DEF Typed, Tasks

LEMMA BeginTyped ==
  ASSUME Typed, NEW p \in Proc, NEW t \in TaskType(Len(idx)),
         TaskOK(p, t), BindingOK(t.pin, generation), Begin(p, t)
  PROVE Typed'
<1>1. Tasks(proc', Len(idx), generation)
  BY TaskTyped DEF Begin
<1>2. /\ UNCHANGED <<topoVars, writer, file, idx, ingested, crashes>>
      /\ pinned' = pinned /\ moves' = moves + 1
  BY DEF Begin
<1>3. pinned \in Binding(Len(idx)) /\ BindingOK(pinned, generation) /\ moves \in Nat
  BY DEF Typed
<1> QED
  BY <1>1, <1>2, <1>3, TasksStep

LEMMA StartSplitTyped ==
  ASSUME Typed, NEW p \in Admin, StartSplit(p)
  PROVE Typed'
<1>1. PICK i \in Members(shards), a \in Addr, b \in Addr :
        Begin(p, [Idle EXCEPT !.kind = "split", !.pc = "stage", !.sources = {i},
                              !.plan = SplitPlan(i, <<a, b>>)])
  BY DEF StartSplit
<1> DEFINE t == [Idle EXCEPT !.kind = "split", !.pc = "stage", !.sources = {i},
                             !.plan = SplitPlan(i, <<a, b>>)]
<1>2. i \in 1..Len(idx)
  BY TableFacts, TypedFacts
<1>3. SplitPlan(i, <<a, b>>) \in Seq(ImportType(Len(idx))) /\ SplitPlan(i, <<a, b>>) # <<>>
  <2>1. Len(SplitPlan(i, <<a, b>>)) = 2
    BY <1>2, SplitPlanIs
  <2>2. SplitPlan(i, <<a, b>>) \in Seq(ImportType(Len(idx)))
    BY <1>2, SplitPlanIs
  <2> QED
    BY <2>1, <2>2
<1>4. p # Scaler /\ p \in Proc
  BY BoundAssumption DEF Proc
<1>5. Idle \in TaskType(Len(idx)) /\ BindingOK(Idle.pin, generation)
  BY IdleType, TypedFacts
<1>6. t \in TaskType(Len(idx)) /\ t.pin = Idle.pin /\ t.pc = "stage" /\ t.kind = "split"
      /\ t.plan = SplitPlan(i, <<a, b>>)
  BY <1>2, <1>3, <1>5 DEF TaskType
<1> HIDE DEF t
<1>7. TaskOK(p, t)
  BY <1>3, <1>4, <1>6 DEF TaskOK
<1> QED
  BY <1>1, <1>4, <1>5, <1>6, <1>7, BeginTyped DEF t

LEMMA StartJoinTyped ==
  ASSUME Typed, NEW p \in Admin, StartJoin(p)
  PROVE Typed'
<1> DEFINE parts == [j \in DOMAIN shards |->
                       Part(shards[j].index, 0, Len(idx[shards[j].index].rows))]
           task(a) == [Idle EXCEPT !.kind = "join", !.pc = "stage",
                                   !.sources = Members(shards),
                                   !.plan = <<Import(a, parts)>>]
<1>1. PICK a \in Addr : Begin(p, task(a))
  BY DEF StartJoin
<1>2. parts \in Seq(PartType(Len(idx))) \ {<<>>}
  <2>1. /\ Len(shards) \in Nat /\ DOMAIN shards = 1..Len(shards)
        /\ \A j \in 1..Len(shards) : shards[j].index \in 1..Len(idx)
        /\ Len(shards) > 0
    BY TableFacts, TypedFacts
  <2>2. \A i \in 1..Len(idx) : Len(idx[i].rows) \in Nat
    BY TypedFacts DEF IndexType
  <2>3. \A j \in 1..Len(shards) :
          Part(shards[j].index, 0, Len(idx[shards[j].index].rows)) \in PartType(Len(idx))
    BY <2>1, <2>2 DEF Part, PartType
  <2>4. parts \in [1..Len(shards) -> PartType(Len(idx))]
    BY <2>1, <2>3
  <2>5. parts \in Seq(PartType(Len(idx))) /\ Len(parts) = Len(shards)
    BY <2>1, <2>4
  <2> HIDE DEF parts
  <2> QED
    BY <2>1, <2>5
<1>3. p # Scaler /\ p \in Proc
  BY BoundAssumption DEF Proc
<1> DEFINE plan == <<Import(a, parts)>>
           t == [Idle EXCEPT !.kind = "join", !.pc = "stage",
                             !.sources = Members(shards), !.plan = plan]
<1> HIDE DEF parts
<1>4. plan \in Seq(ImportType(Len(idx))) /\ plan # <<>>
  <2>1. Import(a, parts) \in ImportType(Len(idx))
    BY <1>2 DEF Import, ImportType
  <2> QED
    BY <2>1
<1>5. Idle \in TaskType(Len(idx)) /\ BindingOK(Idle.pin, generation)
  BY IdleType, TypedFacts
<1>6. Begin(p, t)
  BY <1>1
<1> HIDE DEF plan
<1>7. Members(shards) \subseteq 1..Len(idx)
  BY TableFacts, TypedFacts
<1>8. t \in TaskType(Len(idx)) /\ t.pin = Idle.pin /\ t.pc = "stage" /\ t.kind = "join"
      /\ t.plan = plan
  BY <1>4, <1>5, <1>7 DEF TaskType
<1> HIDE DEF t
<1>9. TaskOK(p, t)
  BY <1>3, <1>4, <1>8 DEF TaskOK
<1> QED
  BY <1>3, <1>5, <1>6, <1>8, <1>9, BeginTyped

LEMMA StartFitTyped ==
  ASSUME Typed, NEW p \in Admin, StartFit(p)
  PROVE Typed'
<1> DEFINE t == [Idle EXCEPT !.kind = "fit", !.pc = "fit", !.table = shards,
                             !.cal = moves + 1]
<1>1. Begin(p, t)
  BY DEF StartFit
<1>2. p # Scaler /\ p \in Proc
  BY BoundAssumption DEF Proc
<1>3. Idle \in TaskType(Len(idx)) /\ BindingOK(Idle.pin, generation)
  BY IdleType, TypedFacts
<1>4. shards \in Table(Len(idx)) /\ shards # <<>> /\ moves + 1 \in Nat /\ Len(shards) \in Nat
  BY TypedFacts, TableFacts DEF Typed
<1>5. t \in TaskType(Len(idx)) /\ t.pin = Idle.pin /\ t.pc = "fit" /\ t.kind = "fit"
      /\ t.table = shards /\ t.staged = Idle.staged
  BY <1>3, <1>4 DEF TaskType
<1>6. Len(Idle.staged) = 0
  BY DEF Idle
<1> HIDE DEF t
<1>7. TaskOK(p, t)
  BY <1>2, <1>4, <1>5, <1>6 DEF TaskOK
<1> QED
  BY <1>1, <1>2, <1>3, <1>5, <1>7, BeginTyped

LEMMA StartAutoTyped ==
  ASSUME Typed, StartAuto
  PROVE Typed'
<1> DEFINE task(j) ==
             [Idle EXCEPT
               !.kind = "auto", !.pc = "stage", !.sources = {shards[j].index}, !.at = j,
               !.expected = generation, !.table = shards,
               !.plan = SplitPlan(shards[j].index, <<idx[shards[j].index].addr, Head(spares)>>)]
<1>1. PICK j \in DOMAIN shards : Begin(Scaler, task(j))
  BY DEF StartAuto
<1> DEFINE i == shards[j].index
           plan == SplitPlan(i, <<idx[i].addr, Head(spares)>>)
           t == [Idle EXCEPT
               !.kind = "auto", !.pc = "stage", !.sources = {i}, !.at = j,
               !.expected = generation, !.table = shards, !.plan = plan]
<1>2. Begin(Scaler, t)
  BY <1>1
<1>3. i \in 1..Len(idx) /\ j \in 1..Len(shards) /\ j \in Nat
  BY TableFacts, TypedFacts
<1>4. idx[i].addr \in Addr /\ Head(spares) \in Addr
  <2>1. spares \in Seq(Addr) /\ spares # <<>>
    BY DEF Typed, StartAuto
  <2>2. idx[i] \in IndexType
    BY <1>3, TypedFacts
  <2> QED
    BY <2>1, <2>2 DEF IndexType
<1> HIDE DEF i
<1>5. plan \in Seq(ImportType(Len(idx))) /\ plan # <<>>
  <2>1. Len(plan) = 2
    BY <1>3, <1>4, SplitPlanIs
  <2>2. plan \in Seq(ImportType(Len(idx)))
    BY <1>3, <1>4, SplitPlanIs
  <2> HIDE DEF plan
  <2> QED
    BY SMTT(30), <2>1, <2>2
<1>6. Scaler \in Proc
  BY DEF Proc
<1>7. Idle \in TaskType(Len(idx)) /\ BindingOK(Idle.pin, generation)
  BY IdleType, TypedFacts
<1> HIDE DEF plan
<1>8. t \in TaskType(Len(idx)) /\ t.pin = Idle.pin /\ t.pc = "stage" /\ t.kind = "auto"
      /\ t.plan = plan /\ t.at = j /\ t.table = shards
  BY <1>3, <1>5, <1>7, TypedFacts DEF TaskType
<1> HIDE DEF t
<1>9. TaskOK(Scaler, t)
  BY <1>3, <1>5, <1>6, <1>8 DEF TaskOK
<1> QED
  BY <1>2, <1>6, <1>7, <1>8, <1>9, BeginTyped

LEMMA StageNextTyped ==
  ASSUME Typed, NEW p \in Proc, StageNext(p)
  PROVE Typed'
<1> DEFINE n == Len(idx)
           parts == Head(proc[p].plan).parts
<1>1. /\ n \in Nat /\ idx \in Seq(IndexType) /\ generation \in Nat
      /\ proc[p] \in TaskType(n) /\ TaskOK(p, proc[p]) /\ BindingOK(proc[p].pin, generation)
      /\ proc \in [Proc -> TaskType(n)]
      /\ \A q \in Proc : TaskOK(q, proc[q]) /\ BindingOK(proc[q].pin, generation)
  BY DEF Typed
<1>2. /\ At(p, "stage") /\ proc[p].plan # <<>>
      /\ UNCHANGED <<topoVars, pinned, writer, file, envVars>>
  BY DEF StageNext
<1>3. CASE End(p) /\ UNCHANGED idx
  <2>1. Tasks(proc', Len(idx), generation)
    BY <1>3, EndTyped
  <2> QED
    BY <1>2, <1>3, <2>1, TasksStep DEF Typed, envVars
<1>4. CASE /\ \A j \in DOMAIN parts : Served(parts[j])
           /\ idx' = Append(idx,
                [addr |-> Head(proc[p].plan).addr,
                 rows |-> FlattenSeq([j \in DOMAIN parts |-> PartRows(parts[j])]),
                 cal |-> idx[parts[1].index].cal, live |-> TRUE,
                 gen |-> 0, disk |-> [rows |-> <<>>, cal |-> 0]])
           /\ proc' = [proc EXCEPT ![p].plan = Tail(@),
                                   ![p].staged = Append(@, Len(idx) + 1)]
  <2>1. /\ proc[p].plan \in Seq(ImportType(n)) /\ proc[p].staged \in Seq(1..n)
        /\ Head(proc[p].plan) \in ImportType(n)
    <3>1. proc[p].plan \in Seq(ImportType(n)) /\ proc[p].staged \in Seq(1..n)
      BY <1>1 DEF TaskType
    <3> HIDE DEF n
    <3> QED
      BY <1>2, <3>1
  <2> DEFINE new == [addr |-> Head(proc[p].plan).addr,
                 rows |-> FlattenSeq([j \in DOMAIN parts |-> PartRows(parts[j])]),
                 cal |-> idx[parts[1].index].cal, live |-> TRUE,
                 gen |-> 0, disk |-> [rows |-> <<>>, cal |-> 0]]
  <2>2. new \in IndexType
    BY <1>4, <2>1, ImportTyped
  <2>3. idx' = Append(idx, new)
    BY <1>4
  <2> HIDE DEF new
  <2>4. idx' \in Seq(IndexType) /\ Len(idx') = n + 1
    BY <1>1, <2>2, <2>3
  <2> DEFINE t == [proc[p] EXCEPT !.plan = Tail(proc[p].plan),
                                  !.staged = Append(proc[p].staged, n + 1)]
  <2>5. proc' = [proc EXCEPT ![p] = t]
    BY <1>4
  <2>6. Tail(proc[p].plan) \in Seq(ImportType(n + 1)) /\ Append(proc[p].staged, n + 1) \in Seq(1..(n + 1))
        /\ Append(proc[p].staged, n + 1) # <<>>
    <3> HIDE DEF n
    <3>1. 1..n \subseteq 1..(n + 1) /\ n + 1 \in 1..(n + 1)
      BY <1>1
    <3>2. proc[p].staged \in Seq(1..(n + 1))
      <4>1. Seq(1..n) \subseteq Seq(1..(n + 1))
        BY <3>1, SeqMonotonic
      <4> QED
        BY <2>1, <4>1
    <3>3. Append(proc[p].staged, n + 1) \in Seq(1..(n + 1))
      BY <3>1, <3>2
    <3>4. Append(proc[p].staged, n + 1) # <<>>
      BY <3>1, <3>2
    <3>5. Tail(proc[p].plan) \in Seq(ImportType(n))
      BY <1>2, <2>1
    <3>6. proc[p] \in TaskType(n + 1)
      BY <1>1, TypesGrow
    <3>7. ImportType(n) \subseteq ImportType(n + 1)
      <4>1. PartType(n) \subseteq PartType(n + 1)
        BY <3>1 DEF PartType
      <4>2. Seq(PartType(n)) \subseteq Seq(PartType(n + 1))
        BY <4>1, SeqMonotonic
      <4> QED
        BY <4>2 DEF ImportType
    <3>8. Tail(proc[p].plan) \in Seq(ImportType(n + 1))
      BY <3>5, <3>7, SeqMonotonic
    <3> QED
      BY <3>3, <3>4, <3>8
  <2>7. /\ TaskType(n) \subseteq TaskType(n + 1) /\ Table(n) \subseteq Table(n + 1)
        /\ Binding(n) \subseteq Binding(n + 1) /\ FileType(n) \subseteq FileType(n + 1)
    BY <1>1, TypesGrow
  <2> HIDE DEF n
  <2>8. t \in TaskType(n + 1)
    <3>1. proc[p] \in TaskType(n + 1)
      BY <1>1, <2>7
    <3> QED
      BY <2>6, <3>1 DEF TaskType
  <2>9. /\ t.pc = "stage" /\ t.staged # <<>> /\ t.kind = proc[p].kind /\ t.at = proc[p].at
        /\ t.table = proc[p].table /\ t.pin = proc[p].pin
    BY <1>1, <1>2, <2>6 DEF TaskType, At
  <2> HIDE DEF t
  <2>10. TaskOK(p, t) /\ BindingOK(t.pin, generation)
    BY <1>1, <1>2, <2>9 DEF TaskOK, At
  <2>11. proc' \in [Proc -> TaskType(n + 1)]
    BY <1>1, <2>5, <2>7, <2>8
  <2>12. \A q \in Proc : proc'[q] = IF q = p THEN t ELSE proc[q]
    BY <1>1, <2>5
  <2>13. \A q \in Proc : TaskOK(q, proc'[q]) /\ BindingOK(proc'[q].pin, generation)
    BY <1>1, <2>10, <2>12
  <2>14. /\ generation' = generation /\ shards' = shards /\ spares' = spares /\ pinned' = pinned
         /\ writer' = writer /\ file' = file /\ moves' = moves /\ ingested' = ingested
         /\ crashes' = crashes
    BY <1>2 DEF topoVars, envVars
  <2>15. shards \in Table(n + 1) \ {<<>>} /\ pinned \in Binding(n + 1) /\ file \in FileType(n + 1)
    BY <2>7 DEF Typed, n
  <2> QED
    BY <2>4, <2>11, <2>13, <2>14, <2>15 DEF Typed
<1> QED
  BY <1>3, <1>4 DEF StageNext

LEMMA StagedTyped ==
  ASSUME Typed, NEW p \in Proc, Staged(p)
  PROVE Typed'
<1>1. proc[p].staged # <<>>
  BY TypedFacts DEF Staged, TaskOK, At
<1>2. Goto(p, "flush") /\ ~At(p, "idle")
  BY DEF Staged, At
<1>3. Tasks(proc', Len(idx), generation)
  BY <1>1, <1>2, GotoTyped
<1>4. /\ UNCHANGED <<topoVars, pinned, writer, file, idx, envVars>>
      /\ pinned \in Binding(Len(idx)) /\ BindingOK(pinned, generation) /\ moves \in Nat
  BY DEF Staged, Typed
<1> QED
  BY <1>3, <1>4, TasksStep DEF envVars

\* The indexes change one by one; the tables and their files do not.
LEMMA IndexesStep ==
  ASSUME Typed, Tasks(proc', Len(idx), generation),
         idx' \in [1..Len(idx) -> IndexType],
         UNCHANGED <<topoVars, pinned, writer, file, moves>>,
         ingested' \in Nat, crashes' \in Nat
  PROVE Typed'
<1>1. idx' \in Seq(IndexType) /\ Len(idx') = Len(idx)
  BY IndexesTyped
<1>2. /\ generation' = generation /\ shards' = shards /\ spares' = spares
      /\ writer' = writer /\ file' = file /\ moves' = moves /\ pinned' = pinned
  BY DEF topoVars
<1> QED
  BY <1>1, <1>2 DEF Typed, Tasks

LEMMA SameTasks ==
  ASSUME Typed, proc' = proc
  PROVE Tasks(proc', Len(idx), generation)
BY DEF Typed, Tasks

LEMMA FitNextTyped ==
  ASSUME Typed, NEW p \in Proc, FitNext(p)
  PROVE Typed'
<1> DEFINE done == Len(proc[p].staged)
           i == proc[p].table[done + 1].index
<1>1. /\ proc[p] \in TaskType(Len(idx)) /\ TaskOK(p, proc[p])
      /\ BindingOK(proc[p].pin, generation) /\ Len(idx) \in Nat
  BY TypedFacts
<1>2. /\ At(p, "fit") /\ ~At(p, "idle")
      /\ UNCHANGED <<topoVars, pinned, writer, file, envVars>>
  BY DEF FitNext, At
<1>3. proc[p].table # <<>> /\ done <= Len(proc[p].table) /\ done \in Nat
      /\ proc[p].table \in Table(Len(idx)) /\ proc[p].staged \in Seq(1..Len(idx))
  BY <1>1, <1>2 DEF TaskOK, At, TaskType
<1>4. /\ idx \in [1..Len(idx) -> IndexType] /\ ingested \in Nat /\ crashes \in Nat
      /\ pinned \in Binding(Len(idx)) /\ BindingOK(pinned, generation) /\ moves \in Nat
  BY DEF Typed
<1>5. CASE done = Len(proc[p].table) /\ Goto(p, "flush") /\ UNCHANGED idx
  <2>1. proc[p].staged # <<>>
    <3>1. Len(proc[p].table) > 0
      BY <1>1, <1>3, TableFacts
    <3> QED
      BY <1>5, <3>1
  <2>2. Tasks(proc', Len(idx), generation)
    BY <1>2, <1>5, <2>1, GotoTyped
  <2> QED
    BY <1>2, <1>4, <1>5, <2>2, TasksStep DEF envVars
<1>6. CASE End(p) /\ UNCHANGED idx
  <2>1. Tasks(proc', Len(idx), generation)
    BY <1>6, EndTyped
  <2> QED
    BY <1>2, <1>4, <1>6, <2>1, TasksStep DEF envVars
<1>7. CASE /\ done < Len(proc[p].table)
           /\ idx' = [idx EXCEPT ![i].cal = proc[p].cal]
           /\ proc' = [proc EXCEPT ![p].staged = Append(@, i)]
  <2>1. i \in 1..Len(idx)
    <3>1. done + 1 \in 1..Len(proc[p].table)
      BY SMTT(30), <1>1, <1>3, <1>7, TableFacts
    <3> QED
      BY <1>1, <1>3, <3>1, TableFacts
  <2> HIDE DEF i
  <2>2. idx[i] \in IndexType /\ proc[p].cal \in Nat
    BY <1>1, <2>1, TypedFacts DEF TaskType
  <2>3. [idx[i] EXCEPT !.cal = proc[p].cal] \in IndexType
    BY <2>2 DEF IndexType
  <2>4. idx' = [idx EXCEPT ![i] = [idx[i] EXCEPT !.cal = proc[p].cal]]
    BY <1>7
  <2>5. idx' \in [1..Len(idx) -> IndexType]
    BY <1>4, <2>3, <2>4
  <2> DEFINE t == [proc[p] EXCEPT !.staged = Append(proc[p].staged, i)]
  <2>6. proc' = [proc EXCEPT ![p] = t]
    BY <1>7
  <2>7. Append(proc[p].staged, i) \in Seq(1..Len(idx)) /\ Len(Append(proc[p].staged, i)) = done + 1
    BY <1>3, <2>1
  <2>8. t \in TaskType(Len(idx))
    BY <1>1, <2>7 DEF TaskType
  <2>9. /\ t.pc = "fit" /\ t.kind = proc[p].kind /\ t.at = proc[p].at
        /\ t.table = proc[p].table /\ t.pin = proc[p].pin
        /\ t.staged = Append(proc[p].staged, i)
    BY <1>1, <1>2 DEF TaskType, At
  <2> HIDE DEF t
  <2>10. done + 1 <= Len(proc[p].table)
    BY <1>1, <1>3, <1>7, TableFacts
  <2>11. TaskOK(p, t)
    BY <1>1, <1>2, <1>3, <2>7, <2>9, <2>10 DEF TaskOK, At
  <2>12. Tasks(proc', Len(idx), generation)
    BY <1>1, <2>6, <2>8, <2>9, <2>11, TaskTyped
  <2> QED
    BY <1>2, <1>4, <2>5, <2>12, IndexesStep DEF envVars
<1> QED
  BY <1>5, <1>6, <1>7 DEF FitNext

LEMMA FlushStagedTyped ==
  ASSUME Typed, NEW p \in Proc, FlushStaged(p)
  PROVE Typed'
<1>1. /\ proc[p] \in TaskType(Len(idx)) /\ TaskOK(p, proc[p])
      /\ BindingOK(proc[p].pin, generation) /\ Len(idx) \in Nat
  BY TypedFacts
<1>2. /\ At(p, "flush") /\ ~At(p, "idle")
      /\ UNCHANGED <<topoVars, pinned, writer, file, envVars>>
  BY DEF FlushStaged, At
<1>3. proc[p].staged # <<>> /\ proc[p].staged \in Seq(1..Len(idx))
  BY <1>1, <1>2 DEF TaskOK, At, TaskType
<1>4. /\ idx \in [1..Len(idx) -> IndexType] /\ ingested \in Nat /\ crashes \in Nat
      /\ pinned \in Binding(Len(idx)) /\ BindingOK(pinned, generation) /\ moves \in Nat
  BY DEF Typed
<1>6. /\ idx' = FlushedIn(ToSet(proc[p].staged))
      /\ proc' = [proc EXCEPT ![p].pc = "rebind", ![p].configs = Configs(p, idx')]
  BY DEF FlushStaged
<1> QED
  <2>1. idx' \in [1..Len(idx) -> IndexType]
    <3>1. \A i \in 1..Len(idx) : idx[i] \in IndexType /\ Flushed(idx[i]) \in IndexType
      BY <1>4, FlushedTyped
    <3> QED
      BY <1>4, <1>6, <3>1 DEF FlushedIn
  <2>2. Configs(p, idx') \in Table(Len(idx)) /\ Configs(p, idx') # <<>>
    <3> DEFINE m == Len(proc[p].staged)
               S == [index : 1..Len(idx), required : Nat]
    <3>1. m \in Nat /\ m > 0 /\ DOMAIN proc[p].staged = 1..m
          /\ \A j \in 1..m : proc[p].staged[j] \in 1..Len(idx)
      BY <1>3
    <3>2. \A i \in 1..Len(idx) : idx'[i].gen \in Nat
      BY <2>1 DEF IndexType
    <3>3. \A j \in 1..m : Shard(proc[p].staged[j], idx'[proc[p].staged[j]].gen) \in S
      BY <3>1, <3>2 DEF Shard
    <3>4. Configs(p, idx') = [j \in 1..m |-> Shard(proc[p].staged[j], idx'[proc[p].staged[j]].gen)]
      BY <3>1 DEF Configs
    <3> HIDE DEF m, S
    <3>5. Configs(p, idx') \in [1..m -> S]
      BY <3>3, <3>4
    <3>6. Configs(p, idx') \in Seq(S) /\ Len(Configs(p, idx')) = m
      BY <3>1, <3>5
    <3> QED
      BY <3>1, <3>6 DEF Table, S
  <2> DEFINE c == Configs(p, idx')
             t == [proc[p] EXCEPT !.pc = "rebind", !.configs = c]
  <2>3. proc' = [proc EXCEPT ![p] = t]
    BY <1>6
  <2> HIDE DEF c
  <2>4. t \in TaskType(Len(idx))
    BY <1>1, <2>2 DEF TaskType, c
  <2>5. /\ t.pc = "rebind" /\ t.kind = proc[p].kind /\ t.at = proc[p].at
        /\ t.table = proc[p].table /\ t.pin = proc[p].pin /\ t.configs = c
    BY <1>1 DEF TaskType
  <2> HIDE DEF t
  <2>6. TaskOK(p, t)
    BY <1>1, <1>2, <2>2, <2>5 DEF TaskOK, At, c
  <2>7. Tasks(proc', Len(idx), generation)
    BY <1>1, <2>3, <2>4, <2>5, <2>6, TaskTyped
  <2> QED
    BY <1>2, <1>4, <2>1, <2>7, IndexesStep DEF envVars

LEMMA FlushFailsTyped ==
  ASSUME Typed, NEW p \in Proc, FlushFails(p)
  PROVE Typed'
<1>1. /\ At(p, "flush") /\ Fail(p) /\ (\E set : idx' = FlushedIn(set))
      /\ UNCHANGED <<topoVars, pinned, writer, file, envVars>>
  BY DEF FlushFails
<1>2. /\ idx \in [1..Len(idx) -> IndexType] /\ ingested \in Nat /\ crashes \in Nat
      /\ pinned \in Binding(Len(idx)) /\ BindingOK(pinned, generation) /\ moves \in Nat
  BY DEF Typed
<1>3. idx' \in [1..Len(idx) -> IndexType]
  <2>1. \A i \in 1..Len(idx) : idx[i] \in IndexType /\ Flushed(idx[i]) \in IndexType
    BY <1>2, FlushedTyped
  <2> QED
    BY <1>1, <1>2, <2>1 DEF FlushedIn
<1>4. Tasks(proc', Len(idx), generation)
  <2>1. ~At(p, "idle")
    BY <1>1 DEF At
  <2> QED
    BY <1>1, <2>1, FailTyped
<1> QED
  BY <1>1, <1>2, <1>3, <1>4, IndexesStep DEF envVars

LEMMA NewTableTyped ==
  ASSUME Typed, NEW p \in Proc, proc[p].pc \in {"rebind", "commit"}
  PROVE NewTable(p) \in Table(Len(idx)) /\ NewTable(p) # <<>>
<1> DEFINE S == [index : 1..Len(idx), required : Nat]
           t == proc[p].table
           at == proc[p].at
<1>1. proc[p] \in TaskType(Len(idx)) /\ TaskOK(p, proc[p])
  BY TypedFacts
<1>2. proc[p].configs \in Seq(S) /\ proc[p].configs # <<>> /\ t \in Seq(S) /\ at \in Nat
  BY <1>1 DEF TaskType, TaskOK, Table
<1>3. p = Scaler => at \in 1..Len(t)
  BY <1>1 DEF TaskOK
<1> HIDE DEF S
<1>4. CASE p # Scaler
  BY <1>2, <1>4 DEF NewTable, AutoTable, Table, S
<1>5. CASE p = Scaler
  <2> DEFINE front == SubSeq(t, 1, at - 1)
             back == SubSeq(t, at + 1, Len(t))
  <2>1. front \in Seq(S) /\ back \in Seq(S)
    <3>1. Len(t) \in Nat /\ at \in 1..Len(t) /\ \A j \in 1..Len(t) : t[j] \in S
      BY <1>2, <1>3, <1>5
    <3> HIDE DEF t, at
    <3>2. /\ \A j \in 1..(at - 1) : t[j] \in S
          /\ \A j \in (at + 1)..Len(t) : t[j] \in S
          /\ at - 1 \in Int /\ at + 1 \in Int /\ Len(t) \in Int /\ 1 \in Int
      BY <3>1
    <3> QED
      BY <3>2, SubSeqProperties
  <2> HIDE DEF front, back
  <2>2. front \o proc[p].configs \in Seq(S)
        /\ Len(front \o proc[p].configs) = Len(front) + Len(proc[p].configs)
    BY <1>2, <2>1, ConcatProperties
  <2>3. (front \o proc[p].configs) \o back \in Seq(S)
        /\ Len((front \o proc[p].configs) \o back)
             = Len(front) + Len(proc[p].configs) + Len(back)
    BY <2>1, <2>2, ConcatProperties
  <2>4. Len(front) \in Nat /\ Len(back) \in Nat /\ Len(proc[p].configs) \in Nat \ {0}
    BY <1>2, <2>1
  <2>5. (front \o proc[p].configs) \o back # <<>>
    BY <2>3, <2>4
  <2> QED
    BY <1>5, <2>3, <2>5 DEF NewTable, AutoTable, Table, S, front, back
<1> QED
  BY <1>4, <1>5

LEMMA NewFileTyped ==
  ASSUME Typed, NEW p \in Proc, proc[p].pc \in {"rebind", "commit"}
  PROVE [generation |-> generation + 1, shards |-> NewTable(p),
         spares |-> SparesLeft(NewTable(p))] \in FileType(Len(idx))
<1>1. generation \in Nat /\ spares \in Seq(Addr)
  BY DEF Typed
<1>2. NewTable(p) \in Table(Len(idx)) \ {<<>>}
  BY NewTableTyped
<1>3. SparesLeft(NewTable(p)) \in Seq(Addr)
  BY <1>1, SparesLeftIs
<1>4. generation + 1 \in Nat \ {0}
  BY <1>1
<1> QED
  BY <1>2, <1>3, <1>4 DEF FileType

\* The table, its file, the pool and the lock change; the indexes do not, and the
\* generation is not taken back.
LEMMA TablesStep ==
  ASSUME Typed, UNCHANGED <<idx, moves, ingested>>, crashes' \in Nat,
         generation' \in Nat \ {0}, Tasks(proc', Len(idx), generation'),
         shards' \in Table(Len(idx)) \ {<<>>}, spares' \in Seq(Addr),
         pinned' \in Binding(Len(idx)), BindingOK(pinned', generation'),
         writer' \in Proc \union Addr \union {Free}, file' \in FileType(Len(idx))
  PROVE Typed'
BY DEF Typed, Tasks

LEMMA OtherFacts ==
  ASSUME Typed
  PROVE /\ generation \in Nat \ {0} /\ shards \in Table(Len(idx)) \ {<<>>}
        /\ spares \in Seq(Addr)
        /\ pinned \in Binding(Len(idx)) /\ BindingOK(pinned, generation)
        /\ writer \in Proc \union Addr \union {Free} /\ file \in FileType(Len(idx))
        /\ moves \in Nat /\ ingested \in Nat /\ crashes \in Nat
        /\ idx \in [1..Len(idx) -> IndexType]
BY DEF Typed

LEMMA PersistTableTyped ==
  ASSUME Typed, NEW p \in Proc, PersistTable(p)
  PROVE Typed'
<1>1. proc[p].pc = "rebind" /\ ~At(p, "idle") /\ Goto(p, "commit") /\ writer' = p
  BY DEF PersistTable, At
<1>2. Tasks(proc', Len(idx), generation)
  <2>1. proc[p].configs # <<>>
    BY <1>1, TypedFacts DEF TaskOK
  <2> QED
    BY <1>1, <2>1, GotoTyped
<1>3. file' \in FileType(Len(idx))
  BY <1>1, NewFileTyped DEF PersistTable
<1>4. UNCHANGED <<generation, shards, spares, pinned, idx, moves, ingested, crashes>>
  BY DEF PersistTable, topoVars, envVars
<1> QED
  BY <1>1, <1>2, <1>3, <1>4, OtherFacts, TablesStep

LEMMA FailedTyped ==
  ASSUME Typed, NEW p \in Proc, ~At(p, "idle"), Fail(p),
         file' \in FileType(Len(idx)), UNCHANGED <<topoVars, pinned, writer, idx, envVars>>
  PROVE Typed'
<1>1. UNCHANGED <<generation, shards, spares, pinned, writer, idx, moves, ingested, crashes>>
  BY DEF topoVars, envVars
<1>2. Tasks(proc', Len(idx), generation)
  BY FailTyped
<1> QED
  BY <1>1, <1>2, OtherFacts, TablesStep

LEMMA RefuseRebindTyped ==
  ASSUME Typed, NEW p \in Proc, RefuseRebind(p) \/ PersistTableFails(p)
  PROVE Typed'
<1>1. proc[p].pc = "rebind" /\ ~At(p, "idle") /\ Fail(p)
      /\ UNCHANGED <<topoVars, pinned, writer, idx, envVars>>
  BY DEF RefuseRebind, PersistTableFails, At
<1>2. file' \in FileType(Len(idx))
  <2>1. CASE UNCHANGED file
    BY <2>1, OtherFacts
  <2>2. CASE file' = [generation |-> generation + 1, shards |-> NewTable(p),
                      spares |-> SparesLeft(NewTable(p))]
    BY <1>1, <2>2, NewFileTyped
  <2> QED
    BY <2>1, <2>2 DEF RefuseRebind, PersistTableFails
<1> QED
  BY <1>1, <1>2, FailedTyped

LEMMA CommitTableTyped ==
  ASSUME Typed, NEW p \in Proc, CommitTable(p)
  PROVE Typed'
<1>1. proc[p].pc = "commit" /\ ~At(p, "idle") /\ Goto(p, "invalidate") /\ writer' = Free
      /\ generation' = generation + 1 /\ shards' = NewTable(p) /\ spares' = file.spares
      /\ UNCHANGED <<pinned, file, idx, moves, ingested, crashes>>
  BY DEF CommitTable, At, envVars
<1>2. generation \in Nat /\ file.spares \in Seq(Addr)
  BY OtherFacts DEF FileType
<1>3. generation' \in Nat \ {0}
  BY <1>1, <1>2
<1>4. \A pin \in Binding(Len(idx)) : BindingOK(pin, generation) => BindingOK(pin, generation')
  BY <1>1, <1>2 DEF BindingOK, Binding
<1>5. Tasks(proc', Len(idx), generation)
  BY <1>1, GotoTyped
<1>6. Tasks(proc', Len(idx), generation')
  <2>1. \A q \in Proc : proc'[q].pin \in Binding(Len(idx))
    BY <1>5 DEF Tasks, TaskType
  <2> QED
    BY <1>4, <1>5, <2>1 DEF Tasks
<1>7. NewTable(p) \in Table(Len(idx)) \ {<<>>}
  BY <1>1, NewTableTyped
<1>8. pinned' \in Binding(Len(idx)) /\ BindingOK(pinned', generation')
  BY <1>1, <1>4, OtherFacts
<1> QED
  BY <1>1, <1>2, <1>3, <1>6, <1>7, <1>8, OtherFacts, TablesStep

LEMMA InvalidatePinTyped ==
  ASSUME Typed, NEW p \in Proc, InvalidatePin(p)
  PROVE Typed'
<1>1. /\ ~At(p, "idle") /\ pinned' = NoPin /\ (Goto(p, "collect") \/ End(p))
      /\ UNCHANGED <<topoVars, writer, file, idx, envVars>>
  BY DEF InvalidatePin, At
<1>2. Tasks(proc', Len(idx), generation)
  BY <1>1, GotoTyped, EndTyped
<1>3. NoPin \in Binding(Len(idx)) /\ BindingOK(NoPin, generation)
  BY IdleType, TypedFacts
<1>4. UNCHANGED <<topoVars, writer, file, idx, ingested, crashes, moves>> /\ moves \in Nat
  BY <1>1, OtherFacts DEF envVars
<1> QED
  BY <1>1, <1>2, <1>3, <1>4, TasksStep

LEMMA StartSearchTyped ==
  ASSUME Typed, NEW p \in Proc, StartSearch(p)
  PROVE Typed'
<1> DEFINE t == [Idle EXCEPT !.kind = "search", !.pc = "collect"]
<1>1. /\ proc' = [proc EXCEPT ![p] = t] /\ p # Scaler
      /\ UNCHANGED <<topoVars, pinned, writer, file, idx, envVars>>
  BY BoundAssumption DEF StartSearch
<1>2. Idle \in TaskType(Len(idx)) /\ BindingOK(Idle.pin, generation)
  BY IdleType, TypedFacts
<1>3. t \in TaskType(Len(idx)) /\ t.pin = Idle.pin /\ t.pc = "collect" /\ t.kind = "search"
  BY <1>2 DEF TaskType
<1> HIDE DEF t
<1>4. TaskOK(p, t)
  BY <1>1, <1>3 DEF TaskOK
<1>5. Tasks(proc', Len(idx), generation)
  BY <1>1, <1>2, <1>3, <1>4, TaskTyped
<1> QED
  BY <1>1, <1>5, OtherFacts, TasksStep DEF envVars

\* A binding comes to a task, or a task's own binding grows.
LEMMA PinnedTyped ==
  ASSUME Typed, NEW p \in Proc, ~At(p, "idle"),
         NEW pc \in {"search", "drop", "probe"},
         NEW pin \in Binding(Len(idx)), BindingOK(pin, generation),
         proc' = [proc EXCEPT ![p].pc = pc, ![p].pin = pin]
  PROVE Tasks(proc', Len(idx), generation)
<1> DEFINE t == [proc[p] EXCEPT !.pc = pc, !.pin = pin]
<1>1. proc[p] \in TaskType(Len(idx)) /\ TaskOK(p, proc[p])
  BY TypedFacts
<1>2. t \in TaskType(Len(idx))
  BY <1>1 DEF TaskType
<1>3. t.pc = pc /\ t.kind = proc[p].kind /\ t.at = proc[p].at /\ t.table = proc[p].table
      /\ t.pin = pin
  BY <1>1 DEF TaskType
<1>4. proc' = [proc EXCEPT ![p] = t]
  OBVIOUS
<1> HIDE DEF t
<1>5. TaskOK(p, t)
  BY <1>1, <1>3 DEF TaskOK, At
<1> QED
  BY <1>2, <1>3, <1>4, <1>5, TaskTyped

LEMMA BoundTyped ==
  ASSUME Typed, NEW p \in Proc, ~At(p, "idle"), NEW pin \in Binding(Len(idx)),
         BindingOK(pin, generation), Bound(p, pin)
  PROVE Tasks(proc', Len(idx), generation)
<1>1. CASE proc[p].kind = "search"
  BY <1>1, PinnedTyped DEF Bound
<1>2. CASE proc[p].kind = "auto"
  BY <1>2, PinnedTyped DEF Bound
<1>3. CASE proc[p].kind \notin {"search", "auto"}
  BY <1>3, EndTyped DEF Bound
<1> QED
  BY <1>1, <1>2, <1>3

LEMMA PinHitTyped ==
  ASSUME Typed, NEW p \in Proc, PinHit(p)
  PROVE Typed'
<1>1. /\ ~At(p, "idle") /\ Bound(p, pinned)
      /\ UNCHANGED <<topoVars, pinned, writer, file, idx, envVars>>
  BY DEF PinHit, At
<1>2. Tasks(proc', Len(idx), generation)
  BY <1>1, BoundTyped, OtherFacts
<1> QED
  BY <1>1, <1>2, OtherFacts, TasksStep DEF envVars

LEMMA PinMissTyped ==
  ASSUME Typed, NEW p \in Proc, PinMiss(p)
  PROVE Typed'
<1> DEFINE pin == [generation |-> generation, shards |-> shards, cals |-> <<>>]
<1>1. /\ ~At(p, "idle") /\ proc' = [proc EXCEPT ![p].pc = "probe", ![p].pin = pin]
      /\ UNCHANGED <<topoVars, pinned, writer, file, idx, envVars>>
  BY DEF PinMiss, At
<1>2. pin \in Binding(Len(idx)) /\ BindingOK(pin, generation)
  <2>1. Len(shards) \in Nat
    BY TypedFacts, TableFacts
  <2> QED
    BY <2>1, TypedFacts DEF Binding, BindingOK
<1> HIDE DEF pin
<1>3. Tasks(proc', Len(idx), generation)
  BY <1>1, <1>2, PinnedTyped
<1> QED
  BY <1>1, <1>3, OtherFacts, TasksStep DEF envVars

LEMMA ProbeNextTyped ==
  ASSUME Typed, NEW p \in Proc, ProbeNext(p)
  PROVE Typed'
<1> DEFINE pin == proc[p].pin
           shard == pin.shards[Len(pin.cals) + 1]
<1>1. /\ At(p, "probe") /\ ~At(p, "idle") /\ Len(pin.cals) < Len(pin.shards)
      /\ UNCHANGED <<topoVars, pinned, writer, file, idx, envVars>>
  BY DEF ProbeNext, At
<1>2. pin \in Binding(Len(idx)) /\ BindingOK(pin, generation) /\ Len(idx) \in Nat
      /\ proc[p] \in TaskType(Len(idx)) /\ proc \in [Proc -> TaskType(Len(idx))]
  BY TypedFacts DEF TaskType, Typed
<1>3. CASE End(p)
  <2>1. Tasks(proc', Len(idx), generation)
    BY <1>3, EndTyped
  <2> QED
    BY <1>1, <2>1, OtherFacts, TasksStep DEF envVars
<1>4. CASE proc' = [proc EXCEPT ![p].pin.cals = Append(@, idx[shard.index].cal)]
  <2>1. pin.shards \in Table(Len(idx)) /\ pin.cals \in Seq(Nat) /\ Len(pin.cals) \in Nat
        /\ pin.generation \in Nat
    BY <1>2 DEF Binding
  <2>2. idx[shard.index].cal \in Nat
    <3>1. Len(pin.cals) + 1 \in 1..Len(pin.shards)
      BY <1>1, <1>2, <2>1, TableFacts
    <3>2. shard.index \in 1..Len(idx)
      BY <1>2, <2>1, <3>1, TableFacts
    <3>3. idx[shard.index] \in IndexType
      BY <3>2, TypedFacts
    <3> QED
      BY <3>3 DEF IndexType
  <2> DEFINE cals == Append(pin.cals, idx[shard.index].cal)
             new == [pin EXCEPT !.cals = cals]
  <2>3. cals \in Seq(Nat) /\ Len(cals) = Len(pin.cals) + 1
    BY SMTT(30), <2>1, <2>2
  <2>4. new \in Binding(Len(idx)) /\ new.cals = cals /\ new.shards = pin.shards
        /\ new.generation = pin.generation
    BY <1>2, <2>3 DEF Binding
  <2>5. Len(cals) <= Len(pin.shards)
    BY SMTT(30), <1>1, <1>2, <2>1, <2>3, TableFacts
  <2>6. BindingOK(new, generation)
    BY <1>2, <2>4, <2>5 DEF BindingOK
  <2>7. proc' = [proc EXCEPT ![p] = [proc[p] EXCEPT !.pin = new]]
    BY <1>4
  <2> DEFINE t == [proc[p] EXCEPT !.pc = "probe", !.pin = new]
  <2>8. proc' = [proc EXCEPT ![p] = t]
    <3>1. proc[p] = [proc[p] EXCEPT !.pc = "probe"]
      BY <1>1, <1>2 DEF TaskType, At
    <3> HIDE DEF new
    <3>2. [proc[p] EXCEPT !.pin = new] = t
      BY <1>2, <3>1 DEF TaskType
    <3> QED
      BY <2>7, <3>2
  <2> HIDE DEF new
  <2>9. proc' = [proc EXCEPT ![p].pc = "probe", ![p].pin = new]
    BY <2>8
  <2>10. Tasks(proc', Len(idx), generation)
    BY <1>1, <2>4, <2>6, <2>9, PinnedTyped
  <2> QED
    BY <1>1, <2>10, OtherFacts, TasksStep DEF envVars
<1> QED
  BY <1>3, <1>4 DEF ProbeNext

LEMMA StorePinTyped ==
  ASSUME Typed, NEW p \in Proc, StorePin(p)
  PROVE Typed'
<1>1. /\ ~At(p, "idle") /\ UNCHANGED <<topoVars, writer, file, idx, envVars>>
  BY DEF StorePin, At
<1>2. CASE pinned' = proc[p].pin /\ Bound(p, proc[p].pin)
  <2>1. proc[p].pin \in Binding(Len(idx)) /\ BindingOK(proc[p].pin, generation)
    BY TypedFacts DEF TaskType
  <2>2. Tasks(proc', Len(idx), generation)
    BY <1>1, <1>2, <2>1, BoundTyped
  <2> QED
    BY <1>1, <1>2, <2>1, <2>2, OtherFacts, TasksStep DEF envVars
<1>3. CASE End(p) /\ UNCHANGED pinned
  <2>1. Tasks(proc', Len(idx), generation)
    BY <1>3, EndTyped
  <2> QED
    BY <1>1, <1>3, <2>1, OtherFacts, TasksStep DEF envVars
<1> QED
  BY <1>2, <1>3 DEF StorePin

LEMMA SearchTyped ==
  ASSUME Typed, NEW p \in Proc, Search(p)
  PROVE Typed'
<1>1. Tasks(proc', Len(idx), generation)
  BY EndTyped DEF Search
<1>2. UNCHANGED <<topoVars, pinned, writer, file, idx, envVars>>
  BY DEF Search
<1> QED
  BY <1>1, <1>2, OtherFacts, TasksStep DEF envVars

LEMMA GoneTyped ==
  ASSUME Typed, NEW set
  PROVE /\ Gone(set) \in [1..Len(idx) -> IndexType]
        /\ \A i \in 1..Len(idx) :
             Gone(set)[i] = [idx[i] EXCEPT !.live = idx[i].live /\ i \notin set]
<1>1. DOMAIN idx = 1..Len(idx) /\ \A i \in 1..Len(idx) : idx[i] \in IndexType
  BY TypedFacts
<1>2. \A i \in 1..Len(idx) : (idx[i].live /\ i \notin set) \in BOOLEAN
  OBVIOUS
<1>3. \A i \in 1..Len(idx) :
        [idx[i] EXCEPT !.live = idx[i].live /\ i \notin set] \in IndexType
  BY <1>1, <1>2 DEF IndexType
<1>4. Gone(set) = [i \in 1..Len(idx) |->
                     [idx[i] EXCEPT !.live = idx[i].live /\ i \notin set]]
  BY <1>1 DEF Gone
<1> QED
  BY <1>3, <1>4

LEMMA DropTyped ==
  ASSUME Typed, DropSource \/ Teardown
  PROVE Typed'
<1>1. End(Scaler) /\ Scaler \in Proc
      /\ UNCHANGED <<topoVars, pinned, writer, file, envVars>>
  BY DEF DropSource, Teardown, Proc
<1>2. idx' \in [1..Len(idx) -> IndexType]
  BY GoneTyped, OtherFacts DEF DropSource, Teardown
<1>3. Tasks(proc', Len(idx), generation)
  BY <1>1, EndTyped
<1> QED
  BY <1>1, <1>2, <1>3, OtherFacts, IndexesStep DEF envVars

LEMMA RegisterTyped ==
  ASSUME Typed, NEW a \in Addr, Register(a) \/ RegisterFails(a) \/ CommitSpare(a)
  PROVE Typed'
<1>1. proc' = proc /\ UNCHANGED <<generation, shards, pinned, idx, moves, ingested, crashes>>
  BY DEF Register, RegisterFails, CommitSpare, topoVars, envVars
<1>2. Tasks(proc', Len(idx), generation)
  BY <1>1, SameTasks
<1>3. Append(spares, a) \in Seq(Addr)
  BY OtherFacts
<1>4. [generation |-> generation, shards |-> shards, spares |-> Append(spares, a)]
        \in FileType(Len(idx))
  BY <1>3, OtherFacts DEF FileType
<1>5. /\ file' \in FileType(Len(idx)) /\ spares' \in Seq(Addr)
      /\ writer' \in Proc \union Addr \union {Free}
  BY <1>3, <1>4, OtherFacts DEF Register, RegisterFails, CommitSpare, topoVars
<1> QED
  BY <1>1, <1>2, <1>5, OtherFacts, TablesStep

LEMMA AddRowTyped ==
  ASSUME Typed, NEW i \in DOMAIN idx, AddRow(i)
  PROVE Typed'
<1>1. /\ proc' = proc /\ ingested' = ingested + 1
      /\ idx' = [idx EXCEPT ![i].rows = Append(@, <<0, ingested + 1>>)]
      /\ UNCHANGED <<topoVars, pinned, writer, file, moves, crashes>>
  BY DEF AddRow
<1>2. i \in 1..Len(idx) /\ idx[i] \in IndexType
  BY TypedFacts
<1>3. Append(idx[i].rows, <<0, ingested + 1>>) \in Seq(Row)
  <2>1. idx[i].rows \in Seq(Row) /\ <<0, ingested + 1>> \in Row
    BY <1>2, OtherFacts DEF IndexType, Row
  <2> QED
    BY <2>1
<1> DEFINE rows == Append(idx[i].rows, <<0, ingested + 1>>)
<1>4. idx' = [idx EXCEPT ![i] = [idx[i] EXCEPT !.rows = rows]]
  BY <1>1
<1> HIDE DEF rows
<1>5. [idx[i] EXCEPT !.rows = rows] \in IndexType
  BY <1>2, <1>3 DEF IndexType, rows
<1>6. idx' \in [1..Len(idx) -> IndexType]
  BY <1>4, <1>5, OtherFacts
<1>7. Tasks(proc', Len(idx), generation)
  BY <1>1, SameTasks
<1> QED
  BY <1>1, <1>6, <1>7, OtherFacts, IndexesStep

LEMMA FlushShardTyped ==
  ASSUME Typed, NEW i \in DOMAIN idx, FlushShard(i)
  PROVE Typed'
<1>1. /\ proc' = proc /\ idx' = [idx EXCEPT ![i] = Flushed(idx[i])]
      /\ UNCHANGED <<topoVars, pinned, writer, file, envVars>>
  BY DEF FlushShard
<1>2. i \in 1..Len(idx) /\ idx[i] \in IndexType
  BY TypedFacts
<1>3. idx' \in [1..Len(idx) -> IndexType]
  BY <1>1, <1>2, FlushedTyped, OtherFacts
<1>4. Tasks(proc', Len(idx), generation)
  BY <1>1, SameTasks
<1> QED
  BY <1>1, <1>3, <1>4, OtherFacts, IndexesStep DEF envVars

\* A node that restarts has each of its indexes as its file, or not at all.
Restarted(index) ==
  [index EXCEPT !.rows = index.disk.rows, !.cal = index.disk.cal,
                !.live = index.live /\ index.gen > 0]

LEMMA RestartedTyped ==
  ASSUME NEW index \in IndexType
  PROVE /\ Restarted(index) \in IndexType
        /\ Restarted(index).addr = index.addr /\ Restarted(index).rows = index.disk.rows
        /\ Restarted(index).cal = index.disk.cal /\ Restarted(index).disk = index.disk
        /\ Restarted(index).gen = index.gen
        /\ Restarted(index).live = (index.live /\ index.gen > 0)
<1>1. index.disk \in SavedType
  BY DEF IndexType
<1>2. index.disk.rows \in Seq(Row) /\ index.disk.cal \in Nat
  BY <1>1 DEF SavedType
<1>3. (index.live /\ index.gen > 0) \in BOOLEAN
  OBVIOUS
<1> QED
  BY <1>2, <1>3 DEF Restarted, IndexType

LEMMA RestartNodeTyped ==
  ASSUME Typed, NEW a \in Addr, RestartNode(a)
  PROVE Typed'
<1>1. /\ proc' = proc /\ crashes' = crashes + 1
      /\ idx' = [i \in DOMAIN idx |-> IF idx[i].addr = a THEN Restarted(idx[i]) ELSE idx[i]]
      /\ UNCHANGED <<topoVars, pinned, writer, file, moves, ingested>>
  BY DEF RestartNode, Restarted
<1>2. idx' \in [1..Len(idx) -> IndexType]
  BY <1>1, RestartedTyped, TypedFacts
<1>3. Tasks(proc', Len(idx), generation)
  BY <1>1, SameTasks
<1> QED
  BY <1>1, <1>2, <1>3, OtherFacts, IndexesStep

LEMMA RestartCoordinatorTyped ==
  ASSUME Typed, RestartCoordinator
  PROVE Typed'
<1>1. /\ generation' = file.generation /\ shards' = file.shards /\ spares' = file.spares
      /\ pinned' = NoPin /\ writer' = Free /\ proc' = [p \in Proc |-> Idle]
      /\ crashes' = crashes + 1 /\ UNCHANGED <<file, idx, moves, ingested>>
  BY DEF RestartCoordinator
<1>2. file \in FileType(Len(idx)) /\ Len(idx) \in Nat
  BY OtherFacts, TypedFacts
<1>3. /\ file.generation \in Nat \ {0} /\ file.shards \in Table(Len(idx)) \ {<<>>}
      /\ file.spares \in Seq(Addr)
  BY <1>2 DEF FileType
<1>4. \A p \in Proc : /\ Idle \in TaskType(Len(idx)) /\ TaskOK(p, Idle)
                      /\ BindingOK(Idle.pin, file.generation)
  BY <1>2, <1>3, IdleType
<1>5. NoPin \in Binding(Len(idx)) /\ BindingOK(NoPin, file.generation)
  BY <1>2, <1>3, IdleType
<1>6. Tasks(proc', Len(idx), generation')
  BY <1>1, <1>4 DEF Tasks
<1> QED
  BY <1>1, <1>2, <1>3, <1>5, <1>6, OtherFacts, TablesStep

LEMMA TypedStutters ==
  ASSUME Typed, UNCHANGED vars
  PROVE Typed'
BY DEF Typed, vars, topoVars, envVars

LEMMA TypedNext ==
  ASSUME Typed, [Next]_vars
  PROVE Typed'
<1>1. CASE Start
  BY <1>1, StartSplitTyped, StartJoinTyped, StartFitTyped, StartAutoTyped DEF Start
<1>2. CASE \E p \in Proc : Stage(p)
  BY <1>2, StageNextTyped, StagedTyped, FitNextTyped, FlushStagedTyped,
     FlushFailsTyped DEF Stage
<1>3. CASE \E p \in Proc : Rebind(p)
  BY <1>3, PersistTableTyped, RefuseRebindTyped, CommitTableTyped, InvalidatePinTyped
     DEF Rebind
<1>4. CASE \E p \in Proc : Collection(p)
  BY <1>4, StartSearchTyped, PinHitTyped, PinMissTyped, ProbeNextTyped, StorePinTyped,
     SearchTyped DEF Collection
<1>5. CASE DropSource \/ Teardown
  BY <1>5, DropTyped
<1>6. CASE RestartCoordinator
  BY <1>6, RestartCoordinatorTyped
<1>7. CASE \E a \in Addr : Register(a) \/ RegisterFails(a) \/ CommitSpare(a)
  BY <1>7, RegisterTyped
<1>8. CASE \E a \in Addr : RestartNode(a)
  BY <1>8, RestartNodeTyped
<1>9. CASE \E i \in DOMAIN idx : AddRow(i) \/ FlushShard(i)
  BY <1>9, AddRowTyped, FlushShardTyped
<1>10. CASE UNCHANGED vars
  BY <1>10, TypedStutters
<1> QED
  BY <1>1, <1>2, <1>3, <1>4, <1>5, <1>6, <1>7, <1>8, <1>9, <1>10 DEF Next

LEMMA TopologyTyped == Spec => []Typed
<1>1. Typed /\ [Next]_vars => Typed'
  BY TypedNext
<1> QED
  BY TypedInit, <1>1, PTL DEF Spec

LEMMA TypedTypeOK ==
  ASSUME Typed
  PROVE TypeOK
<1>1. /\ file \in FileType(Len(idx)) /\ Len(idx) \in Nat /\ DOMAIN idx = 1..Len(idx)
  BY OtherFacts, TypedFacts
<1>2. /\ file.generation \in Nat \ {0} /\ file.shards \in Table(Len(idx))
      /\ file.shards # <<>> /\ file.spares \in Seq(Addr)
  BY <1>1 DEF FileType
<1>3. Members(shards) \subseteq DOMAIN idx /\ Members(file.shards) \subseteq DOMAIN idx
  BY <1>1, <1>2, TypedFacts, TableFacts
<1>4. ToSet(spares) \subseteq Addr /\ ToSet(file.spares) \subseteq Addr
  <2>1. \A s \in Seq(Addr) : ToSet(s) \subseteq Addr
    BY DEF ToSet
  <2> QED
    BY <1>2, <2>1, OtherFacts
<1>5. \A pin \in Binding(Len(idx)) : BindingOK(pin, generation) => PinType(pin)
  <2> SUFFICES ASSUME NEW pin \in Binding(Len(idx)), BindingOK(pin, generation)
               PROVE PinType(pin)
    OBVIOUS
  <2>1. pin.generation \in Nat /\ pin.shards \in Table(Len(idx))
    BY DEF Binding
  <2>2. Members(pin.shards) \subseteq DOMAIN idx
    BY <1>1, <2>1, TableFacts
  <2>3. pin.generation \in 0..generation /\ Len(pin.cals) <= Len(pin.shards)
    BY <2>1, TypedFacts DEF BindingOK
  <2> QED
    BY <2>2, <2>3 DEF PinType, Index
<1>6. \A i \in DOMAIN idx : idx[i].addr \in Addr /\ idx[i].live \in BOOLEAN
  BY <1>1, TypedFacts DEF IndexType
<1>7. ASSUME NEW p \in Proc
      PROVE /\ PinType(proc[p].pin) /\ ToSet(proc[p].staged) \subseteq DOMAIN idx
            /\ proc[p].pc \in {"rebind", "commit"} => NewTable(p) # <<>>
  <2>1. proc[p].pin \in Binding(Len(idx)) /\ proc[p].staged \in Seq(1..Len(idx))
        /\ BindingOK(proc[p].pin, generation)
    BY TypedFacts DEF TaskType
  <2>2. ToSet(proc[p].staged) \subseteq 1..Len(idx)
    BY <2>1 DEF ToSet
  <2> QED
    BY <1>1, <1>5, <2>1, <2>2, NewTableTyped
<1> QED
  BY <1>2, <1>3, <1>4, <1>5, <1>6, <1>7, OtherFacts DEF TypeOK, Index

\* Every variable stays in its type, whatever mutations, registrations, searches,
\* failures and restarts meet: tables name indexes that were made, a binding is of
\* a published generation, and a rebind always has a table to publish
\* (coordinator/mod.rs, autoscale.rs).
THEOREM TopologyTypeOK == Spec => []TypeOK
<1>1. Typed => TypeOK
  BY TypedTypeOK
<1> QED
  BY TopologyTyped, <1>1, PTL

--------------------------------------------------------------------------------
(* The table, the state file, the pool and the topology lock.                *)

\* What a task publishes is fixed from the state file to the table in memory.
CommitsKept ==
  \A p \in Proc : proc[p].pc = "commit" \/ proc'[p].pc = "commit" => proc'[p] = proc[p]

LEMMA OneTaskKeepsCommits ==
  ASSUME Typed, NEW p \in Proc, NEW t, proc' = [proc EXCEPT ![p] = t],
         proc[p].pc # "commit", t.pc # "commit"
  PROVE CommitsKept
<1>1. \A q \in Proc : proc'[q] = IF q = p THEN t ELSE proc[q]
  BY DEF Typed
<1> QED
  BY <1>1 DEF CommitsKept

LEMMA GotoKeepsCommits ==
  ASSUME Typed, NEW p \in Proc, NEW pc, pc # "commit", proc[p].pc # "commit",
         Goto(p, pc) \/ End(p) \/ Fail(p)
  PROVE CommitsKept
<1>1. proc[p] \in TaskType(Len(idx)) /\ Idle.pc = "idle"
  BY TypedFacts DEF Idle
<1>2. \A x : [proc[p] EXCEPT !.pc = x].pc = x
  BY <1>1 DEF TaskType
<1>3. CASE End(p)
  BY <1>1, <1>3, OneTaskKeepsCommits DEF End
<1>4. ASSUME NEW x, x # "commit", Goto(p, x) PROVE CommitsKept
  <2> DEFINE t == [proc[p] EXCEPT !.pc = x]
  <2>1. proc' = [proc EXCEPT ![p] = t] /\ t.pc # "commit"
    BY <1>2, <1>4 DEF Goto
  <2> HIDE DEF t
  <2> QED
    BY <2>1, OneTaskKeepsCommits
<1> QED
  BY <1>3, <1>4 DEF Fail

tableVars == <<generation, shards, spares, writer, file>>

\* A step that moves the table, the file, the pool or the lock is one of these.
TableStep ==
  \/ \E p \in Proc : PersistTable(p) \/ PersistTableFails(p) \/ CommitTable(p)
  \/ \E a \in Addr : Register(a) \/ RegisterFails(a) \/ CommitSpare(a)
  \/ RestartCoordinator

LEMMA StageKeepsTables ==
  ASSUME Typed, NEW p \in Proc, Stage(p)
  PROVE UNCHANGED tableVars /\ CommitsKept
<1>1. proc[p] \in TaskType(Len(idx))
  BY TypedFacts
<1>2. proc[p].pc # "commit" /\ UNCHANGED tableVars
  BY DEF Stage, StageNext, Staged, FitNext, FlushStaged, FlushFails, At, tableVars, topoVars
<1>3. \/ End(p) \/ Goto(p, "flush") \/ Fail(p)
      \/ proc' = [proc EXCEPT ![p] = [proc[p] EXCEPT
                    !.plan = Tail(proc[p].plan), !.staged = Append(proc[p].staged, Len(idx) + 1)]]
      \/ \E i : proc' = [proc EXCEPT ![p] = [proc[p] EXCEPT !.staged = Append(proc[p].staged, i)]]
      \/ \E c : proc' = [proc EXCEPT ![p] = [proc[p] EXCEPT !.pc = "rebind", !.configs = c]]
  BY DEF Stage, StageNext, Staged, FitNext, FlushStaged, FlushFails
<1>4. CASE \/ End(p) \/ Goto(p, "flush") \/ Fail(p)
  BY <1>2, <1>4, GotoKeepsCommits
<1>5. CASE proc' = [proc EXCEPT ![p] = [proc[p] EXCEPT
             !.plan = Tail(proc[p].plan), !.staged = Append(proc[p].staged, Len(idx) + 1)]]
  <2> DEFINE t == [proc[p] EXCEPT
             !.plan = Tail(proc[p].plan), !.staged = Append(proc[p].staged, Len(idx) + 1)]
  <2>1. t.pc = proc[p].pc
    BY <1>1 DEF TaskType
  <2>2. proc' = [proc EXCEPT ![p] = t]
    BY <1>5
  <2> HIDE DEF t
  <2> QED
    BY <1>2, <2>1, <2>2, OneTaskKeepsCommits
<1>6. CASE \E i : proc' = [proc EXCEPT ![p] = [proc[p] EXCEPT !.staged = Append(proc[p].staged, i)]]
  <2>1. PICK i : proc' = [proc EXCEPT ![p] = [proc[p] EXCEPT !.staged = Append(proc[p].staged, i)]]
    BY <1>6
  <2> DEFINE t == [proc[p] EXCEPT !.staged = Append(proc[p].staged, i)]
  <2>2. t.pc = proc[p].pc
    BY <1>1 DEF TaskType
  <2> HIDE DEF t
  <2> QED
    BY <1>2, <2>1, <2>2, OneTaskKeepsCommits DEF t
<1>7. CASE \E c : proc' = [proc EXCEPT ![p] = [proc[p] EXCEPT !.pc = "rebind", !.configs = c]]
  <2>1. PICK c : proc' = [proc EXCEPT ![p] = [proc[p] EXCEPT !.pc = "rebind", !.configs = c]]
    BY <1>7
  <2> DEFINE t == [proc[p] EXCEPT !.pc = "rebind", !.configs = c]
  <2>2. t.pc = "rebind"
    BY <1>1 DEF TaskType
  <2> HIDE DEF t
  <2> QED
    BY <1>2, <2>1, <2>2, OneTaskKeepsCommits DEF t
<1> QED
  BY <1>2, <1>3, <1>4, <1>5, <1>6, <1>7

LEMMA CollectionKeepsTables ==
  ASSUME Typed, NEW p \in Proc, Collection(p)
  PROVE UNCHANGED tableVars /\ CommitsKept
<1>1. proc[p] \in TaskType(Len(idx)) /\ Idle \in TaskType(Len(idx))
  BY TypedFacts, IdleType
<1>2. proc[p].pc # "commit" /\ UNCHANGED tableVars
  BY DEF Collection, StartSearch, PinHit, PinMiss, ProbeNext, StorePin, Search, At,
         tableVars, topoVars
<1> SUFFICES CommitsKept
  BY <1>2
<1>3. ASSUME NEW pc, pc # "commit", NEW pin,
             proc' = [proc EXCEPT ![p].pc = pc, ![p].pin = pin]
      PROVE CommitsKept
  <2> DEFINE t == [proc[p] EXCEPT !.pc = pc, !.pin = pin]
  <2>1. t.pc = pc
    BY <1>1 DEF TaskType
  <2>2. proc' = [proc EXCEPT ![p] = t]
    BY <1>3
  <2> HIDE DEF t
  <2> QED
    BY <1>2, <1>3, <2>1, <2>2, OneTaskKeepsCommits
<1>4. ASSUME \/ End(p)
             \/ \E pc \in {"search", "drop", "probe"} : \E pin :
                  proc' = [proc EXCEPT ![p].pc = pc, ![p].pin = pin]
      PROVE CommitsKept
  <2>1. CASE End(p)
    BY <1>2, <2>1, GotoKeepsCommits
  <2>2. CASE \E pc \in {"search", "drop", "probe"} : \E pin :
               proc' = [proc EXCEPT ![p].pc = pc, ![p].pin = pin]
    BY <1>3, <2>2
  <2> QED
    BY <1>4, <2>1, <2>2
<1>5. CASE StartSearch(p)
  <2> DEFINE t == [Idle EXCEPT !.kind = "search", !.pc = "collect"]
  <2>1. t.pc = "collect"
    BY <1>1 DEF TaskType
  <2>2. proc' = [proc EXCEPT ![p] = t]
    BY <1>5 DEF StartSearch
  <2> HIDE DEF t
  <2> QED
    BY <1>2, <2>1, <2>2, OneTaskKeepsCommits
<1>6. CASE PinHit(p)
  <2>1. \/ End(p)
        \/ \E pc \in {"search", "drop", "probe"} : \E pin :
             proc' = [proc EXCEPT ![p].pc = pc, ![p].pin = pin]
    BY <1>6 DEF PinHit, Bound
  <2> QED
    BY <1>4, <2>1
<1>7. CASE PinMiss(p)
  <2>1. \E pin : proc' = [proc EXCEPT ![p].pc = "probe", ![p].pin = pin]
    BY <1>7 DEF PinMiss
  <2> QED
    BY <1>3, <2>1
<1>8. CASE ProbeNext(p)
  <2>1. CASE End(p)
    BY <1>2, <2>1, GotoKeepsCommits
  <2>2. CASE \E x : proc' = [proc EXCEPT ![p] = [proc[p] EXCEPT !.pin = x]]
    <3>1. PICK x : proc' = [proc EXCEPT ![p] = [proc[p] EXCEPT !.pin = x]]
      BY <2>2
    <3> DEFINE t == [proc[p] EXCEPT !.pin = x]
    <3>2. t.pc = proc[p].pc
      BY <1>1 DEF TaskType
    <3> HIDE DEF t
    <3> QED
      BY <1>2, <3>1, <3>2, OneTaskKeepsCommits DEF t
  <2>3. End(p) \/ \E x : proc' = [proc EXCEPT ![p] = [proc[p] EXCEPT !.pin = x]]
    BY <1>8 DEF ProbeNext
  <2> QED
    BY <2>1, <2>2, <2>3
<1>9. CASE StorePin(p)
  <2>1. \/ End(p)
        \/ \E pc \in {"search", "drop", "probe"} : \E pin :
             proc' = [proc EXCEPT ![p].pc = pc, ![p].pin = pin]
    BY <1>9 DEF StorePin, Bound
  <2> QED
    BY <1>4, <2>1
<1>10. CASE Search(p)
  BY <1>2, <1>10, GotoKeepsCommits DEF Search
<1> QED
  BY <1>2, <1>5, <1>6, <1>7, <1>8, <1>9, <1>10 DEF Collection

LEMMA BeginKeepsTables ==
  ASSUME Typed, NEW p \in Proc, NEW t, t.pc # "commit", Begin(p, t)
  PROVE UNCHANGED tableVars /\ CommitsKept
<1>1. proc[p].pc # "commit" /\ proc' = [proc EXCEPT ![p] = t]
  BY DEF Begin, At
<1>2. CommitsKept
  BY <1>1, OneTaskKeepsCommits
<1> QED
  BY <1>2 DEF Begin, tableVars, topoVars

\* A task starts to stage indexes, or to broadcast a pair.
LEMMA StartIs ==
  ASSUME Start
  PROVE \E p \in Admin \union {Scaler} :
          \E t : Begin(p, t) /\ t.pc \in {"stage", "fit"}
<1>1. ASSUME NEW p \in Admin, StartSplit(p)
      PROVE \E t : Begin(p, t) /\ t.pc \in {"stage", "fit"}
  <2>1. PICK i, a, b : Begin(p, [Idle EXCEPT !.kind = "split", !.pc = "stage", !.sources = {i},
                                !.plan = SplitPlan(i, <<a, b>>)])
    BY <1>1 DEF StartSplit
  <2>2. [Idle EXCEPT !.kind = "split", !.pc = "stage", !.sources = {i},
                     !.plan = SplitPlan(i, <<a, b>>)].pc = "stage"
    BY DEF Idle
  <2> QED
    BY <2>1, <2>2
<1>2. ASSUME NEW p \in Admin, StartJoin(p)
      PROVE \E t : Begin(p, t) /\ t.pc \in {"stage", "fit"}
  <2>1. PICK plan : Begin(p, [Idle EXCEPT !.kind = "join", !.pc = "stage",
                                !.sources = Members(shards), !.plan = plan])
    BY <1>2 DEF StartJoin
  <2>2. [Idle EXCEPT !.kind = "join", !.pc = "stage",
                     !.sources = Members(shards), !.plan = plan].pc = "stage"
    BY DEF Idle
  <2> QED
    BY <2>1, <2>2
<1>3. ASSUME NEW p \in Admin, StartFit(p)
      PROVE \E t : Begin(p, t) /\ t.pc \in {"stage", "fit"}
  <2>1. Begin(p, [Idle EXCEPT !.kind = "fit", !.pc = "fit", !.table = shards,
                              !.cal = moves + 1])
    BY <1>3 DEF StartFit
  <2>2. [Idle EXCEPT !.kind = "fit", !.pc = "fit", !.table = shards,
                     !.cal = moves + 1].pc = "fit"
    BY DEF Idle
  <2> QED
    BY <2>1, <2>2
<1>4. ASSUME StartAuto
      PROVE \E t : Begin(Scaler, t) /\ t.pc \in {"stage", "fit"}
  <2>1. PICK j, plan : Begin(Scaler, [Idle EXCEPT
               !.kind = "auto", !.pc = "stage", !.sources = {shards[j].index}, !.at = j,
               !.expected = generation, !.table = shards, !.plan = plan])
    BY <1>4 DEF StartAuto
  <2>2. [Idle EXCEPT
               !.kind = "auto", !.pc = "stage", !.sources = {shards[j].index}, !.at = j,
               !.expected = generation, !.table = shards, !.plan = plan].pc = "stage"
    BY DEF Idle
  <2> QED
    BY <2>1, <2>2
<1> QED
  BY <1>1, <1>2, <1>3, <1>4 DEF Start

\* The frame: any other step leaves them, and what is being published, alone.
LEMMA TablesFrame ==
  ASSUME Typed, [Next]_vars
  PROVE (UNCHANGED tableVars /\ CommitsKept) \/ TableStep
<1>1. CASE Start
  <2>0. PICK p \in Admin \union {Scaler} :
          \E t : Begin(p, t) /\ t.pc \in {"stage", "fit"}
    BY <1>1, StartIs
  <2>1. PICK t : Begin(p, t) /\ t.pc \in {"stage", "fit"}
    BY <2>0
  <2>2. p \in Proc /\ t.pc # "commit"
    BY <2>1 DEF Proc
  <2> QED
    BY <2>1, <2>2, BeginKeepsTables
<1>2. CASE \E p \in Proc : Stage(p)
  BY <1>2, StageKeepsTables
<1>3. CASE \E p \in Proc : Rebind(p)
  <2>1. PICK p \in Proc : Rebind(p)
    BY <1>3
  <2>2. CASE RefuseRebind(p)
    BY <2>2, GotoKeepsCommits DEF RefuseRebind, At, tableVars, topoVars
  <2>3. CASE InvalidatePin(p)
    <3>1. Goto(p, "collect") \/ End(p)
      BY <2>3 DEF InvalidatePin
    <3> QED
      BY <2>3, <3>1, GotoKeepsCommits DEF InvalidatePin, At, tableVars, topoVars
  <2> QED
    BY <2>1, <2>2, <2>3 DEF Rebind, TableStep
<1>4. CASE \E p \in Proc : Collection(p)
  BY <1>4, CollectionKeepsTables
<1>5. CASE DropSource \/ Teardown
  <2>1. End(Scaler) /\ Scaler \in Proc /\ proc[Scaler].pc # "commit" /\ UNCHANGED tableVars
    BY <1>5 DEF DropSource, Teardown, Proc, At, tableVars, topoVars
  <2> QED
    BY <2>1, GotoKeepsCommits
<1>6. CASE RestartCoordinator \/ \E a \in Addr : Register(a) \/ RegisterFails(a) \/ CommitSpare(a)
  BY <1>6 DEF TableStep
<1>7. CASE (\E a \in Addr : RestartNode(a)) \/ \E i \in DOMAIN idx : AddRow(i) \/ FlushShard(i)
  <2>1. proc' = proc /\ UNCHANGED tableVars
    BY <1>7 DEF RestartNode, AddRow, FlushShard, tableVars, topoVars
  <2> QED
    BY <2>1 DEF CommitsKept
<1>8. CASE UNCHANGED vars
  BY <1>8 DEF vars, tableVars, topoVars, CommitsKept
<1> QED
  BY <1>1, <1>2, <1>3, <1>4, <1>5, <1>6, <1>7, <1>8 DEF Next

\* A rebind holds the lock from the state file to the table in memory.
LockInv ==
  /\ \A p \in Proc : proc[p].pc = "commit" => writer = p
  /\ writer \in Proc => proc[writer].pc = "commit"

\* The file is never behind, and at the same generation it names the same table.
GenerationInv ==
  /\ LockInv
  /\ file.generation >= generation
  /\ file.generation = generation => file.shards = shards
  /\ \A p \in Proc : proc[p].pc = "commit" =>
       file.generation = generation + 1 /\ file.shards = NewTable(p)

LEMMA Disjoint ==
  /\ Free \notin Proc /\ Free \notin Addr /\ \A a \in Addr : a \notin Proc
BY BoundAssumption DEF Proc

LEMMA NewTableKept ==
  ASSUME NEW p \in Proc, proc'[p].table = proc[p].table, proc'[p].at = proc[p].at,
         proc'[p].configs = proc[p].configs
  PROVE NewTable(p)' = NewTable(p)
BY DEF NewTable, AutoTable

\* What the steps of the lock do to the tasks.
LEMMA PersistTableTask ==
  ASSUME Typed, NEW p \in Proc, PersistTable(p)
  PROVE /\ proc[p].pc = "rebind" /\ proc'[p].pc = "commit" /\ NewTable(p)' = NewTable(p)
        /\ \A q \in Proc : q # p => proc'[q] = proc[q]
        /\ proc'[p].staged = proc[p].staged /\ proc'[p].sources = proc[p].sources
        /\ proc'[p].expected = proc[p].expected /\ proc'[p].table = proc[p].table
        /\ proc'[p].configs = proc[p].configs /\ proc'[p].at = proc[p].at
        /\ proc'[p].kind = proc[p].kind
<1>1. proc[p] \in TaskType(Len(idx)) /\ proc[p].pc = "rebind"
      /\ proc' = [proc EXCEPT ![p] = [proc[p] EXCEPT !.pc = "commit"]]
      /\ proc \in [Proc -> TaskType(Len(idx))]
  BY TypedFacts DEF PersistTable, At, Goto, Typed
<1> DEFINE t == [proc[p] EXCEPT !.pc = "commit"]
<1>2. /\ t.pc = "commit" /\ t.table = proc[p].table /\ t.at = proc[p].at
      /\ t.configs = proc[p].configs /\ t.staged = proc[p].staged
      /\ t.sources = proc[p].sources /\ t.expected = proc[p].expected
      /\ t.kind = proc[p].kind
  BY <1>1 DEF TaskType
<1> HIDE DEF t
<1>3. \A q \in Proc : proc'[q] = IF q = p THEN t ELSE proc[q]
  BY <1>1 DEF t
<1>4. NewTable(p)' = NewTable(p)
  BY <1>2, <1>3, NewTableKept
<1> QED
  BY <1>1, <1>2, <1>3, <1>4

LEMMA CommitTableTask ==
  ASSUME Typed, NEW p \in Proc, CommitTable(p)
  PROVE /\ proc[p].pc = "commit" /\ proc'[p].pc = "invalidate"
        /\ \A q \in Proc : q # p => proc'[q] = proc[q]
        /\ proc'[p].staged = proc[p].staged /\ proc'[p].sources = proc[p].sources
        /\ proc'[p].kind = proc[p].kind
<1>1. proc[p] \in TaskType(Len(idx)) /\ proc[p].pc = "commit"
      /\ proc' = [proc EXCEPT ![p] = [proc[p] EXCEPT !.pc = "invalidate"]]
      /\ proc \in [Proc -> TaskType(Len(idx))]
  BY TypedFacts DEF CommitTable, At, Goto, Typed
<1> DEFINE t == [proc[p] EXCEPT !.pc = "invalidate"]
<1>2. t.pc = "invalidate" /\ t.staged = proc[p].staged /\ t.sources = proc[p].sources
      /\ t.kind = proc[p].kind
  BY <1>1 DEF TaskType
<1> HIDE DEF t
<1>3. \A q \in Proc : proc'[q] = IF q = p THEN t ELSE proc[q]
  BY <1>1 DEF t
<1> QED
  BY <1>1, <1>2, <1>3

LEMMA PersistTableFailsTask ==
  ASSUME Typed, NEW p \in Proc, PersistTableFails(p)
  PROVE /\ proc[p].pc = "rebind" /\ proc'[p].pc \in {"idle", "teardown"}
        /\ \A q \in Proc : q # p => proc'[q] = proc[q]
<1>1. proc[p] \in TaskType(Len(idx)) /\ proc[p].pc = "rebind"
      /\ (Goto(p, "teardown") \/ End(p)) /\ proc \in [Proc -> TaskType(Len(idx))]
  BY TypedFacts DEF PersistTableFails, At, Fail, Typed
<1>2. CASE End(p)
  BY <1>1, <1>2 DEF End, Idle
<1>3. CASE Goto(p, "teardown")
  <2> DEFINE t == [proc[p] EXCEPT !.pc = "teardown"]
  <2>1. t.pc = "teardown"
    BY <1>1 DEF TaskType
  <2> HIDE DEF t
  <2>2. \A q \in Proc : proc'[q] = IF q = p THEN t ELSE proc[q]
    BY <1>1, <1>3 DEF t, Goto
  <2> QED
    BY <1>1, <2>1, <2>2
<1> QED
  BY <1>1, <1>2, <1>3

LEMMA GenerationInit == Init => GenerationInv
<1>1. Init => \A p \in Proc : proc[p].pc = "idle"
  BY DEF Init, Idle
<1> QED
  BY <1>1, Disjoint DEF Init, GenerationInv, LockInv

LEMMA GenerationNext ==
  ASSUME Typed, GenerationInv, [Next]_vars
  PROVE GenerationInv'
<1> USE DEF GenerationInv, LockInv
<1>1. generation \in Nat /\ file.generation \in Nat
  BY OtherFacts DEF FileType
<1>2. CASE UNCHANGED tableVars /\ CommitsKept
  <2>1. generation' = generation /\ shards' = shards /\ writer' = writer /\ file' = file
    BY <1>2 DEF tableVars
  <2>2. \A p \in Proc : proc'[p].pc = "commit" => proc'[p] = proc[p] /\ NewTable(p)' = NewTable(p)
    BY <1>2, NewTableKept DEF CommitsKept
  <2>3. \A p \in Proc : proc[p].pc = "commit" => proc'[p] = proc[p]
    BY <1>2 DEF CommitsKept
  <2> QED
    BY <2>1, <2>2, <2>3
<1>3. ASSUME NEW p \in Proc, PersistTable(p) PROVE GenerationInv'
  <2>1. /\ writer = Free /\ writer' = p /\ generation' = generation /\ shards' = shards
        /\ file' = [generation |-> generation + 1, shards |-> NewTable(p),
                    spares |-> SparesLeft(NewTable(p))]
    BY <1>3 DEF PersistTable, topoVars
  <2>2. \A q \in Proc : q # p => proc'[q] = proc[q] /\ proc'[q].pc # "commit"
    BY <1>3, <2>1, PersistTableTask, Disjoint
  <2>3. proc'[p].pc = "commit" /\ NewTable(p)' = NewTable(p)
    BY <1>3, PersistTableTask
  <2>4. file'.generation = generation' + 1 /\ file'.shards = NewTable(p)'
    BY <2>1, <2>3
  <2> QED
    BY <1>1, <2>1, <2>2, <2>3, <2>4
<1>4. ASSUME NEW p \in Proc, PersistTableFails(p) PROVE GenerationInv'
  <2>1. /\ writer = Free /\ writer' = writer /\ generation' = generation /\ shards' = shards
        /\ \/ file' = file
           \/ file' = [generation |-> generation + 1, shards |-> NewTable(p),
                       spares |-> SparesLeft(NewTable(p))]
    BY <1>4 DEF PersistTableFails, topoVars
  <2>2. \A q \in Proc : proc'[q].pc # "commit"
    BY <1>4, <2>1, PersistTableFailsTask, Disjoint
  <2>3. file' = file \/ file'.generation = generation + 1
    BY <2>1
  <2> QED
    BY <1>1, <2>1, <2>2, <2>3, Disjoint
<1>5. ASSUME NEW p \in Proc, CommitTable(p) PROVE GenerationInv'
  <2>1. /\ writer = p /\ writer' = Free /\ generation' = generation + 1
        /\ shards' = NewTable(p) /\ file' = file
        /\ file.generation = generation + 1 /\ file.shards = NewTable(p)
    BY <1>5, CommitTableTask DEF CommitTable
  <2>2. \A q \in Proc : proc'[q].pc # "commit"
    BY <1>5, <2>1, CommitTableTask
  <2> QED
    BY <1>1, <2>1, <2>2, Disjoint
<1>6. ASSUME NEW a \in Addr, Register(a) \/ RegisterFails(a) PROVE GenerationInv'
  <2>1. /\ writer = Free /\ writer' \in {a, Free} /\ proc' = proc
        /\ generation' = generation /\ shards' = shards
        /\ file' = [generation |-> generation, shards |-> shards,
                    spares |-> Append(spares, a)]
    BY <1>6 DEF Register, RegisterFails, topoVars
  <2>2. \A q \in Proc : proc'[q].pc # "commit"
    BY <2>1, Disjoint
  <2> QED
    BY <1>1, <2>1, <2>2, Disjoint
<1>7. ASSUME NEW a \in Addr, CommitSpare(a) PROVE GenerationInv'
  <2>1. /\ writer = a /\ writer' = Free /\ proc' = proc
        /\ generation' = generation /\ shards' = shards /\ file' = file
    BY <1>7 DEF CommitSpare
  <2>2. \A q \in Proc : proc'[q].pc # "commit"
    BY <2>1, Disjoint
  <2> QED
    BY <1>1, <2>1, <2>2, Disjoint
<1>8. CASE RestartCoordinator
  <2>1. /\ writer' = Free /\ \A q \in Proc : proc'[q].pc = "idle"
        /\ generation' = file.generation /\ shards' = file.shards /\ file' = file
    BY <1>8 DEF RestartCoordinator, Idle
  <2> QED
    BY <1>1, <2>1, Disjoint
<1> QED
  BY <1>2, <1>3, <1>4, <1>5, <1>6, <1>7, <1>8, TablesFrame DEF TableStep

LEMMA GenerationHolds == Spec => [](Typed /\ GenerationInv)
<1>1. Init => Typed /\ GenerationInv
  BY TypedInit, GenerationInit
<1>2. Typed /\ GenerationInv /\ [Next]_vars => (Typed /\ GenerationInv)'
  BY TypedNext, GenerationNext
<1> QED
  BY <1>1, <1>2, PTL DEF Spec

\* A generation names one table and is never taken back, for any interleaving of
\* mutations, failed writes of the state file, registrations and restarts
\* (rebind_inner, persist_topology, load_or_initialize).
THEOREM GenerationsNameTables == Spec => GenerationNamesTable
<1> DEFINE Step == /\ generation' >= generation
                   /\ shards' # shards => generation' > generation
<1>1. ASSUME Typed, GenerationInv, [Next]_vars PROVE [Step]_vars
  <2>1. generation \in Nat /\ file.generation \in Nat
    BY <1>1, OtherFacts DEF FileType
  <2>2. CASE UNCHANGED tableVars
    BY <2>1, <2>2 DEF tableVars
  <2>3. CASE \E p \in Proc : PersistTable(p) \/ PersistTableFails(p)
    BY <2>1, <2>3 DEF PersistTable, PersistTableFails, topoVars
  <2>4. CASE \E p \in Proc : CommitTable(p)
    BY <2>1, <2>4 DEF CommitTable
  <2>5. CASE \E a \in Addr : Register(a) \/ RegisterFails(a) \/ CommitSpare(a)
    BY <2>1, <2>5 DEF Register, RegisterFails, CommitSpare, topoVars
  <2>6. CASE RestartCoordinator
    BY <1>1, <2>1, <2>6 DEF RestartCoordinator, GenerationInv
  <2> QED
    BY <1>1, <2>2, <2>3, <2>4, <2>5, <2>6, TablesFrame DEF TableStep
<1>2. Typed /\ GenerationInv /\ [Next]_vars => [Step]_vars
  BY <1>1
<1> QED
  BY <1>2, GenerationHolds, PTL DEF Spec, GenerationNamesTable

--------------------------------------------------------------------------------
(* Durable before visible.  A write of the state file that fails after its   *)
(* rename leaves a newer file behind (README section 3), so these assume     *)
(* that none does.                                                           *)

VisibleInv ==
  /\ LockInv
  /\ writer = Free =>
       file = [generation |-> generation, shards |-> shards, spares |-> spares]
  /\ writer \in Proc =>
       file = [generation |-> generation + 1, shards |-> NewTable(writer),
               spares |-> file.spares]
  /\ writer \in Addr =>
       file = [generation |-> generation, shards |-> shards,
               spares |-> Append(spares, writer)]

LEMMA VisibleInit == Init => VisibleInv
<1>1. Init => \A p \in Proc : proc[p].pc = "idle"
  BY DEF Init, Idle
<1> QED
  BY <1>1, Disjoint DEF Init, VisibleInv, LockInv

LEMMA VisibleNext ==
  ASSUME Typed, VisibleInv, ~Faults, [Next]_vars
  PROVE VisibleInv'
<1> USE DEF VisibleInv, LockInv
<1>1. generation \in Nat /\ file.generation \in Nat
  BY OtherFacts DEF FileType
<1>2. CASE UNCHANGED tableVars /\ CommitsKept
  <2>1. generation' = generation /\ shards' = shards /\ writer' = writer /\ file' = file
        /\ spares' = spares
    BY <1>2 DEF tableVars
  <2>2. \A p \in Proc : proc'[p].pc = "commit" => proc'[p] = proc[p]
    BY <1>2 DEF CommitsKept
  <2>3. \A p \in Proc : proc[p].pc = "commit" => proc'[p] = proc[p] /\ NewTable(p)' = NewTable(p)
    BY <1>2, NewTableKept DEF CommitsKept
  <2>4. writer \in Proc => NewTable(writer)' = NewTable(writer)
    <3> SUFFICES ASSUME writer \in Proc PROVE NewTable(writer)' = NewTable(writer)
      OBVIOUS
    <3>1. proc'[writer] = proc[writer]
      BY <2>3
    <3> QED
      BY <2>1, <3>1 DEF NewTable, AutoTable
  <2> QED
    BY <2>1, <2>2, <2>3, <2>4
<1>3. ASSUME NEW p \in Proc, PersistTable(p) PROVE VisibleInv'
  <2>1. /\ writer = Free /\ writer' = p /\ generation' = generation /\ shards' = shards
        /\ file' = [generation |-> generation + 1, shards |-> NewTable(p),
                    spares |-> SparesLeft(NewTable(p))]
    BY <1>3 DEF PersistTable, topoVars
  <2>2. \A q \in Proc : q # p => proc'[q].pc # "commit"
    BY <1>3, <2>1, PersistTableTask, Disjoint
  <2>3. proc'[p].pc = "commit" /\ NewTable(p)' = NewTable(p)
    BY <1>3, PersistTableTask
  <2>4. NewTable(writer)' = NewTable(p)
    <3>1. proc'[p].table = proc[p].table /\ proc'[p].configs = proc[p].configs
          /\ proc'[p].at = proc[p].at
      BY <1>3, PersistTableTask
    <3> QED
      BY <2>1, <3>1 DEF NewTable, AutoTable
  <2>5. file' = [generation |-> generation' + 1, shards |-> NewTable(writer)',
                 spares |-> file'.spares]
    BY <2>1, <2>4
  <2> QED
    BY <2>1, <2>2, <2>3, <2>5, Disjoint
<1>4. ASSUME NEW p \in Proc PROVE ~PersistTableFails(p)
  BY DEF PersistTableFails
<1>5. ASSUME NEW p \in Proc, CommitTable(p) PROVE VisibleInv'
  <2>1. /\ writer = p /\ writer' = Free /\ generation' = generation + 1
        /\ shards' = NewTable(p) /\ spares' = file.spares /\ file' = file
    BY <1>5, CommitTableTask DEF CommitTable
  <2>2. file = [generation |-> generation + 1, shards |-> NewTable(p),
                spares |-> file.spares]
    BY <2>1
  <2>3. \A q \in Proc : proc'[q].pc # "commit"
    BY <1>5, <2>1, CommitTableTask
  <2> QED
    BY <2>1, <2>2, <2>3, Disjoint
<1>6. ASSUME NEW a \in Addr, Register(a) PROVE VisibleInv'
  <2>1. /\ writer = Free /\ writer' = a /\ proc' = proc
        /\ generation' = generation /\ shards' = shards /\ spares' = spares
        /\ file' = [generation |-> generation, shards |-> shards,
                    spares |-> Append(spares, a)]
    BY <1>6 DEF Register, topoVars
  <2>2. \A q \in Proc : proc'[q].pc # "commit"
    BY <2>1, Disjoint
  <2> QED
    BY <2>1, <2>2, Disjoint
<1>7. ASSUME NEW a \in Addr PROVE ~RegisterFails(a)
  BY DEF RegisterFails
<1>8. ASSUME NEW a \in Addr, CommitSpare(a) PROVE VisibleInv'
  <2>1. /\ writer = a /\ writer' = Free /\ proc' = proc /\ spares' = Append(spares, a)
        /\ generation' = generation /\ shards' = shards /\ file' = file
    BY <1>8 DEF CommitSpare
  <2>2. \A q \in Proc : proc'[q].pc # "commit"
    BY <2>1, Disjoint
  <2> QED
    BY <2>1, <2>2, Disjoint
<1>9. CASE RestartCoordinator
  <2>1. /\ writer' = Free /\ \A q \in Proc : proc'[q].pc = "idle"
        /\ generation' = file.generation /\ shards' = file.shards /\ file' = file
        /\ spares' = file.spares
    BY <1>9 DEF RestartCoordinator, Idle
  <2>2. file = [generation |-> file.generation, shards |-> file.shards,
                spares |-> file.spares]
    BY OtherFacts DEF FileType
  <2> QED
    BY <2>1, <2>2, Disjoint
<1> QED
  BY <1>2, <1>3, <1>4, <1>5, <1>6, <1>7, <1>8, <1>9, TablesFrame DEF TableStep

\* Whoever can read the topology reads what a restart would restore, table and
\* pool, as long as no write of the state file fails: every rebind and every
\* registration writes that file first, under the lock that readers wait for
\* (rebind_inner, register_node).
THEOREM TopologyDurableBeforeVisible ==
  ASSUME ~Faults
  PROVE Spec => []DurableBeforeVisible
<1>1. Init => Typed /\ VisibleInv
  BY TypedInit, VisibleInit
<1>2. Typed /\ VisibleInv /\ [Next]_vars => (Typed /\ VisibleInv)'
  BY TypedNext, VisibleNext
<1>3. VisibleInv => DurableBeforeVisible
  BY DEF VisibleInv, DurableBeforeVisible
<1> QED
  BY <1>1, <1>2, <1>3, PTL DEF Spec

--------------------------------------------------------------------------------
(* The indexes: what a step does to each.                                    *)

Dropped(i) ==
  \/ DropSource /\ i \in proc[Scaler].sources
  \/ Teardown /\ i \in ToSet(proc[Scaler].staged)

IndexStep(i) ==
  \/ idx'[i] = idx[i]
  \/ Live(i) /\ idx'[i] = Flushed(idx[i])
  \/ idx[i].rows = <<>> /\ \E c \in Nat : idx'[i] = [idx[i] EXCEPT !.cal = c]
  \/ AddRow(i) /\ idx'[i] = [idx[i] EXCEPT !.rows = Append(idx[i].rows, <<0, ingested + 1>>)]
  \/ idx'[i] = Restarted(idx[i])
  \/ Dropped(i) /\ idx'[i] = [idx[i] EXCEPT !.live = FALSE]

LEMMA GoneIs ==
  ASSUME Typed, NEW set, NEW i \in 1..Len(idx)
  PROVE IF i \in set THEN Gone(set)[i] = [idx[i] EXCEPT !.live = FALSE]
        ELSE Gone(set)[i] = idx[i]
<1>1. Gone(set)[i] = [idx[i] EXCEPT !.live = idx[i].live /\ i \notin set]
  BY GoneTyped
<1>2. idx[i] \in IndexType
  BY TypedFacts
<1>3. idx[i].live \in BOOLEAN
  BY <1>2 DEF IndexType
<1>4. CASE i \in set
  BY <1>1, <1>4
<1>5. CASE i \notin set
  <2>1. (idx[i].live /\ i \notin set) = idx[i].live
    BY <1>3, <1>5
  <2>2. [idx[i] EXCEPT !.live = idx[i].live] = idx[i]
    BY <1>2 DEF IndexType
  <2> QED
    BY <1>1, <1>5, <2>1, <2>2
<1> QED
  BY <1>4, <1>5

\* The import that a StageNext stages, when it stages one.
StagesIndex(p) ==
  LET parts == Head(proc[p].plan).parts IN
  /\ At(p, "stage") /\ proc[p].plan # <<>>
  /\ UNCHANGED <<topoVars, pinned, writer, file, envVars>>
  /\ \A j \in DOMAIN parts : Served(parts[j])
  /\ idx' = Append(idx,
             [addr |-> Head(proc[p].plan).addr,
              rows |-> FlattenSeq([j \in DOMAIN parts |-> PartRows(parts[j])]),
              cal |-> idx[parts[1].index].cal, live |-> TRUE,
              gen |-> 0, disk |-> [rows |-> <<>>, cal |-> 0]])
  /\ proc' = [proc EXCEPT ![p].plan = Tail(@),
                          ![p].staged = Append(@, Len(idx) + 1)]

LEMMA StageNextIs ==
  ASSUME NEW p \in Proc, StageNext(p)
  PROVE StagesIndex(p) \/ (At(p, "stage") /\ End(p) /\ UNCHANGED <<tableVars, idx>>)
BY DEF StageNext, StagesIndex, tableVars, topoVars

LEMMA StagesIndexAppends ==
  ASSUME Typed, NEW p \in Proc, StagesIndex(p)
  PROVE /\ Len(idx') = Len(idx) + 1 /\ DOMAIN idx' = 1..(Len(idx) + 1)
        /\ \A i \in 1..Len(idx) : idx'[i] = idx[i]
        /\ idx'[Len(idx) + 1].addr = Head(proc[p].plan).addr
        /\ idx'[Len(idx) + 1].live = TRUE /\ idx'[Len(idx) + 1].gen = 0
        /\ idx'[Len(idx) + 1].disk.rows = <<>>
        /\ idx'[Len(idx) + 1].rows =
             FlattenSeq([j \in DOMAIN Head(proc[p].plan).parts |->
                           PartRows(Head(proc[p].plan).parts[j])])
<1> DEFINE parts == Head(proc[p].plan).parts
           new == [addr |-> Head(proc[p].plan).addr,
              rows |-> FlattenSeq([j \in DOMAIN parts |-> PartRows(parts[j])]),
              cal |-> idx[parts[1].index].cal, live |-> TRUE,
              gen |-> 0, disk |-> [rows |-> <<>>, cal |-> 0]]
<1>1. idx' = Append(idx, new)
  BY DEF StagesIndex
<1>2. /\ new.addr = Head(proc[p].plan).addr /\ new.live = TRUE /\ new.gen = 0
      /\ new.disk.rows = <<>>
      /\ new.rows = FlattenSeq([j \in DOMAIN parts |-> PartRows(parts[j])])
  OBVIOUS
<1>3. idx \in Seq(IndexType) /\ Len(idx) \in Nat
  BY DEF Typed
<1>4. new \in IndexType
  <2>1. proc[p].plan \in Seq(ImportType(Len(idx))) /\ proc[p].plan # <<>>
    BY TypedFacts DEF TaskType, StagesIndex
  <2>2. Head(proc[p].plan) \in ImportType(Len(idx))
    BY <2>1
  <2> QED
    BY <2>2, ImportTyped DEF StagesIndex
<1> HIDE DEF new
<1>5. /\ Len(idx') = Len(idx) + 1 /\ DOMAIN idx' = 1..(Len(idx) + 1)
      /\ \A i \in 1..Len(idx) : idx'[i] = idx[i]
      /\ idx'[Len(idx) + 1] = new
  BY <1>1, <1>3, <1>4
<1> QED
  BY <1>2, <1>5

LEMMA SameIndexes ==
  ASSUME Typed, idx' = idx
  PROVE /\ Len(idx') = Len(idx) /\ \A i \in 1..Len(idx) : IndexStep(i)
BY DEF IndexStep

LEMMA IndexFrame ==
  ASSUME Typed, [Next]_vars
  PROVE /\ Len(idx') = Len(idx) \/ \E p \in Proc : StagesIndex(p)
        /\ \A i \in 1..Len(idx) : IndexStep(i)
<1> DEFINE Goal == /\ Len(idx') = Len(idx) \/ \E p \in Proc : StagesIndex(p)
                   /\ \A i \in 1..Len(idx) : IndexStep(i)
<1>1. DOMAIN idx = 1..Len(idx) /\ Len(idx) \in Nat
  BY TypedFacts
<1>2. ASSUME NEW f, idx' = [i \in 1..Len(idx) |-> f[i]] PROVE Len(idx') = Len(idx)
  BY <1>1, <1>2
<1>3. CASE idx' = idx
  BY <1>3, SameIndexes
<1>4. ASSUME NEW p \in Proc, StagesIndex(p) PROVE Goal
  BY <1>4, StagesIndexAppends DEF IndexStep
<1>5. ASSUME NEW p \in Proc, FitNext(p), idx' # idx PROVE Goal
  <2> DEFINE i == proc[p].table[Len(proc[p].staged) + 1].index
  <2>1. idx' = [idx EXCEPT ![i].cal = proc[p].cal] /\ TakesPair(i)
    BY <1>5 DEF FitNext
  <2>2. proc[p].cal \in Nat
    BY TypedFacts DEF TaskType
  <2> HIDE DEF i
  <2>3. Len(idx') = Len(idx)
    BY <1>1, <2>1, OtherFacts
  <2>4. \A k \in 1..Len(idx) : idx'[k] = IF k = i THEN [idx[k] EXCEPT !.cal = proc[p].cal] ELSE idx[k]
    BY <1>1, <2>1, OtherFacts
  <2>5. \A k \in 1..Len(idx) : IndexStep(k)
    BY <2>1, <2>2, <2>4 DEF IndexStep, TakesPair
  <2> QED
    BY <2>3, <2>5
<1>6. ASSUME NEW p \in Proc, FlushStaged(p) \/ FlushFails(p), idx' # idx PROVE Goal
  <2>1. \E set : idx' = FlushedIn(set) /\ \A i \in set : Live(i)
    <3>1. CASE FlushStaged(p)
      <4>1. /\ idx' = FlushedIn(ToSet(proc[p].staged))
            /\ \A j \in DOMAIN proc[p].staged : Live(proc[p].staged[j])
        BY <3>1 DEF FlushStaged
      <4> QED
        BY <4>1 DEF ToSet
    <3>2. CASE FlushFails(p)
      <4>1. PICK n \in 0..Len(proc[p].staged) :
              /\ \A j \in 1..n : Live(proc[p].staged[j])
              /\ idx' = FlushedIn({proc[p].staged[j] : j \in 1..n})
        BY <3>2 DEF FlushFails
      <4> DEFINE set == {proc[p].staged[j] : j \in 1..n}
      <4>2. \A i \in set : Live(i)
        BY <4>1
      <4>3. idx' = FlushedIn(set)
        BY <4>1
      <4> HIDE DEF set
      <4> QED
        BY <4>2, <4>3
    <3> QED
      BY <1>6, <3>1, <3>2
  <2>2. PICK set : idx' = FlushedIn(set) /\ \A i \in set : Live(i)
    BY <2>1
  <2>3. Len(idx') = Len(idx)
    BY <1>1, <2>2 DEF FlushedIn
  <2>4. \A k \in 1..Len(idx) : IndexStep(k)
    BY <1>1, <2>2 DEF IndexStep, FlushedIn
  <2> QED
    BY <2>3, <2>4
<1>7. ASSUME DropSource \/ Teardown, idx' # idx PROVE Goal
  <2>1. \E set : /\ idx' = Gone(set)
                 /\ \/ DropSource /\ set = proc[Scaler].sources
                    \/ Teardown /\ set \subseteq ToSet(proc[Scaler].staged)
    <3>1. CASE DropSource
      <4>1. idx' = Gone(proc[Scaler].sources)
        BY <1>7, <3>1 DEF DropSource
      <4> QED
        BY <3>1, <4>1
    <3>2. CASE Teardown
      <4>1. PICK set \in SUBSET ToSet(proc[Scaler].staged) : idx' = Gone(set)
        BY <3>2 DEF Teardown
      <4> QED
        BY <3>2, <4>1
    <3> QED
      BY <1>7, <3>1, <3>2
  <2>2. PICK set : /\ idx' = Gone(set)
                   /\ \/ DropSource /\ set = proc[Scaler].sources
                      \/ Teardown /\ set \subseteq ToSet(proc[Scaler].staged)
    BY <2>1
  <2>3. Len(idx') = Len(idx)
    BY <1>1, <2>2 DEF Gone
  <2>4. ASSUME NEW k \in 1..Len(idx) PROVE IndexStep(k)
    <3>1. CASE k \in set
      <4>1. Dropped(k)
        BY <2>2, <3>1 DEF Dropped
      <4>2. idx'[k] = [idx[k] EXCEPT !.live = FALSE]
        BY <2>2, <3>1, GoneIs
      <4> QED
        BY <4>1, <4>2 DEF IndexStep
    <3>2. CASE k \notin set
      <4>1. idx'[k] = idx[k]
        BY <2>2, <3>2, GoneIs
      <4> QED
        BY <4>1 DEF IndexStep
    <3> QED
      BY <3>1, <3>2
  <2> QED
    BY <2>3, <2>4
<1>8. ASSUME NEW i \in DOMAIN idx, AddRow(i) PROVE Goal
  <2>1. idx' = [idx EXCEPT ![i] = [idx[i] EXCEPT !.rows = Append(idx[i].rows, <<0, ingested + 1>>)]]
    BY <1>8 DEF AddRow
  <2>2. Len(idx') = Len(idx)
    BY <1>1, <2>1, OtherFacts
  <2>3. \A k \in 1..Len(idx) : idx'[k] =
          IF k = i THEN [idx[i] EXCEPT !.rows = Append(idx[i].rows, <<0, ingested + 1>>)] ELSE idx[k]
    BY <1>1, <2>1, OtherFacts
  <2>4. \A k \in 1..Len(idx) : IndexStep(k)
    BY <1>8, <2>3 DEF IndexStep
  <2> QED
    BY <2>2, <2>4
<1>9. ASSUME NEW i \in DOMAIN idx, FlushShard(i) PROVE Goal
  <2>1. idx' = [idx EXCEPT ![i] = Flushed(idx[i])] /\ Live(i)
    BY <1>9 DEF FlushShard
  <2>2. Len(idx') = Len(idx)
    BY <1>1, <2>1, OtherFacts
  <2>3. \A k \in 1..Len(idx) : idx'[k] = IF k = i THEN Flushed(idx[i]) ELSE idx[k]
    BY <1>1, <2>1, OtherFacts
  <2>4. \A k \in 1..Len(idx) : IndexStep(k)
    BY <2>1, <2>3 DEF IndexStep
  <2> QED
    BY <2>2, <2>4
<1>10. ASSUME NEW a \in Addr, RestartNode(a) PROVE Goal
  <2>1. idx' = [i \in 1..Len(idx) |-> IF idx[i].addr = a THEN Restarted(idx[i]) ELSE idx[i]]
    BY <1>1, <1>10 DEF RestartNode, Restarted
  <2>2. Len(idx') = Len(idx)
    BY <1>1, <2>1
  <2>3. \A k \in 1..Len(idx) : IndexStep(k)
    BY <2>1 DEF IndexStep
  <2> QED
    BY <2>2, <2>3
<1>11. CASE Next /\ idx' # idx
  <2>1. \/ \E p \in Proc : StageNext(p) \/ FitNext(p) \/ FlushStaged(p) \/ FlushFails(p)
        \/ DropSource \/ Teardown
        \/ \E a \in Addr : RestartNode(a)
        \/ \E i \in DOMAIN idx : AddRow(i) \/ FlushShard(i)
    BY <1>11 DEF Next, Start, StartAuto, StartSplit, StartJoin, StartFit, Begin, Stage, Staged,
         Rebind, PersistTable, RefuseRebind, PersistTableFails, CommitTable, InvalidatePin,
         Collection, StartSearch, PinHit, PinMiss, ProbeNext, StorePin, Search,
         RestartCoordinator, Register, RegisterFails, CommitSpare
  <2>2. ASSUME NEW p \in Proc, StageNext(p) PROVE Goal
    BY <1>4, <1>11, <2>2, StageNextIs
  <2> HIDE DEF Goal
  <2>3. Goal
    BY <1>5, <1>6, <1>7, <1>8, <1>9, <1>10, <1>11, <2>1, <2>2
  <2> QED
    BY <2>3 DEF Goal
<1> QED
  BY <1>3, <1>11 DEF vars

\* A step neither moves an index to another node nor brings one back, and takes no
\* generation back.
LEMMA IndexesStay ==
  ASSUME Typed, [Next]_vars, NEW i \in 1..Len(idx)
  PROVE /\ idx'[i].addr = idx[i].addr /\ idx'[i].gen >= idx[i].gen
        /\ idx'[i].live => idx[i].live
        /\ idx[i].live /\ idx[i].gen > 0 => idx'[i].live \/ Dropped(i)
        /\ i \in 1..Len(idx')
<1>1. idx[i] \in IndexType /\ Len(idx) \in Nat
  BY TypedFacts
<1>2. idx[i].gen \in Nat /\ idx[i].live \in BOOLEAN
  BY <1>1 DEF IndexType
<1>3. i \in 1..Len(idx')
  <2>1. Len(idx') = Len(idx) \/ Len(idx') = Len(idx) + 1
    BY IndexFrame, StagesIndexAppends
  <2> QED
    BY <1>1, <2>1
<1>4. IndexStep(i)
  BY IndexFrame
<1>5. CASE idx'[i] = idx[i]
  BY <1>2, <1>3, <1>5
<1>6. CASE Live(i) /\ idx'[i] = Flushed(idx[i])
  BY <1>1, <1>2, <1>3, <1>6, FlushedTyped
<1>7. CASE \E c : idx'[i] = [idx[i] EXCEPT !.cal = c]
  BY <1>1, <1>2, <1>3, <1>7 DEF IndexType
<1>8. CASE \E r : idx'[i] = [idx[i] EXCEPT !.rows = r]
  BY <1>1, <1>2, <1>3, <1>8 DEF IndexType
<1>9. CASE idx'[i] = Restarted(idx[i])
  BY <1>1, <1>2, <1>3, <1>9, RestartedTyped
<1>10. CASE Dropped(i) /\ idx'[i] = [idx[i] EXCEPT !.live = FALSE]
  BY <1>1, <1>2, <1>3, <1>10 DEF IndexType
<1> QED
  BY <1>4, <1>5, <1>6, <1>7, <1>8, <1>9, <1>10 DEF IndexStep

--------------------------------------------------------------------------------
(* A spare serves nothing.                                                   *)

SparesInv ==
  /\ SparesServeNothing
  /\ writer \in Addr => ~Serves(shards, writer)

\* Where the indexes of a table live is settled when they are made.
LEMMA ServesKept ==
  ASSUME Typed, [Next]_vars, NEW table \in Table(Len(idx)), NEW a
  PROVE (\E j \in DOMAIN table : idx'[table[j].index].addr = a) <=> Serves(table, a)
<1>1. Len(idx) \in Nat
  BY TypedFacts
<1>2. \A j \in DOMAIN table : table[j].index \in 1..Len(idx)
  BY <1>1, TableFacts
<1>3. \A j \in DOMAIN table : idx'[table[j].index].addr = idx[table[j].index].addr
  BY <1>2, IndexesStay
<1> QED
  BY <1>3 DEF Serves

LEMMA SparesInit == Init => SparesInv
<1> SUFFICES ASSUME Init PROVE SparesInv
  OBVIOUS
<1>1. \A a \in ToSet(FirstSpares) : a \notin ToSet(FirstShards)
  <2>1. FirstSpares \in Seq(Addr \ ToSet(FirstShards))
    BY BoundAssumption
  <2> QED
    BY <2>1 DEF ToSet
<1>2. DOMAIN FirstShards = 1..Len(FirstShards)
  BY BoundAssumption
<1>3. \A a : Serves(shards, a) => a \in ToSet(FirstShards)
  <2> SUFFICES ASSUME NEW j \in DOMAIN shards
               PROVE idx[shards[j].index].addr \in ToSet(FirstShards)
    BY DEF Serves
  <2>1. j \in DOMAIN FirstShards /\ shards[j] = Shard(j, 1)
    BY DEF Init
  <2>2. idx[j].addr = FirstShards[j] /\ shards[j].index = j
    BY <2>1 DEF Init, Shard
  <2> QED
    BY <2>1, <2>2 DEF ToSet
<1>4. spares = FirstSpares /\ file.spares = FirstSpares /\ file.shards = shards /\ writer = Free
  BY DEF Init
<1> QED
  BY <1>1, <1>3, <1>4, Disjoint DEF SparesInv, SparesServeNothing

LEMMA SparesNext ==
  ASSUME Typed, GenerationInv, SparesInv, [Next]_vars
  PROVE SparesInv'
<1> DEFINE Here(table, a) == \E j \in DOMAIN table : idx'[table[j].index].addr = a
           Now == /\ \A a \in ToSet(spares') : ~Here(shards', a)
                  /\ \A a \in ToSet(file'.spares) : ~Here(file'.shards, a)
                  /\ writer' \in Addr => ~Here(shards', writer')
<1>1. Now => SparesInv'
  BY DEF SparesInv, SparesServeNothing, Serves
<1>2. \A table \in Table(Len(idx)) : \A a : Here(table, a) <=> Serves(table, a)
  BY ServesKept
<1> HIDE DEF Here
<1>3. /\ shards \in Table(Len(idx)) /\ file.shards \in Table(Len(idx))
      /\ spares \in Seq(Addr) /\ file.spares \in Seq(Addr)
  BY OtherFacts DEF FileType
<1>4. /\ \A a \in ToSet(spares) : ~Serves(shards, a)
      /\ \A a \in ToSet(file.spares) : ~Serves(file.shards, a)
      /\ writer \in Addr => ~Serves(shards, writer)
  BY DEF SparesInv, SparesServeNothing
<1>5. ASSUME NEW a \in Addr, NEW s \in Seq(Addr),
             \A b \in ToSet(s) : ~Serves(shards, b), ~Serves(shards, a)
      PROVE \A b \in ToSet(Append(s, a)) : ~Serves(shards, b)
  BY <1>5, ToSetAppend
<1>6. CASE UNCHANGED tableVars
  <2>1. shards' = shards /\ spares' = spares /\ writer' = writer /\ file' = file
    BY <1>6 DEF tableVars
  <2>2. Now
    BY <1>2, <1>3, <1>4, <2>1
  <2> QED
    BY <1>1, <2>2
<1>7. ASSUME NEW p \in Proc, PersistTable(p) \/ PersistTableFails(p) PROVE SparesInv'
  <2>1. /\ shards' = shards /\ spares' = spares /\ writer' \in {p, Free}
        /\ \/ file' = file
           \/ file' = [generation |-> generation + 1, shards |-> NewTable(p),
                       spares |-> SparesLeft(NewTable(p))]
    BY <1>7 DEF PersistTable, PersistTableFails, topoVars
  <2>2. NewTable(p) \in Table(Len(idx))
    BY <1>7, NewTableTyped DEF PersistTable, PersistTableFails, At
  <2>3. \A a \in ToSet(SparesLeft(NewTable(p))) : ~Serves(NewTable(p), a)
    BY <1>3, SparesLeftIs
  <2>4. writer' \notin Addr
    BY <2>1, Disjoint
  <2>5. \A a \in ToSet(file'.spares) : ~Here(file'.shards, a)
    <3>1. CASE file' = file
      BY <1>2, <1>3, <1>4, <3>1
    <3>2. CASE file'.shards = NewTable(p) /\ file'.spares = SparesLeft(NewTable(p))
      BY <1>2, <2>2, <2>3, <3>2
    <3> QED
      BY <2>1, <3>1, <3>2
  <2>6. Now
    BY <1>2, <1>3, <1>4, <2>1, <2>4, <2>5
  <2> QED
    BY <1>1, <2>6
<1>8. ASSUME NEW p \in Proc, CommitTable(p) PROVE SparesInv'
  <2>1. /\ shards' = file.shards /\ spares' = file.spares /\ writer' = Free /\ file' = file
    BY <1>8 DEF CommitTable, GenerationInv, At
  <2>2. Now
    BY <1>2, <1>3, <1>4, <2>1, Disjoint
  <2> QED
    BY <1>1, <2>2
<1>9. ASSUME NEW a \in Addr, Register(a) \/ RegisterFails(a) PROVE SparesInv'
  <2>1. /\ shards' = shards /\ spares' = spares /\ writer' \in {a, Free} /\ ~Serves(shards, a)
        /\ file'.shards = shards /\ file'.spares = Append(spares, a)
    BY <1>9 DEF Register, RegisterFails, topoVars
  <2>2. \A b \in ToSet(Append(spares, a)) : ~Serves(shards, b)
    BY <1>3, <1>4, <1>5, <2>1
  <2>3. Now
    BY <1>2, <1>3, <1>4, <2>1, <2>2, Disjoint
  <2> QED
    BY <1>1, <2>3
<1>10. ASSUME NEW a \in Addr, CommitSpare(a) PROVE SparesInv'
  <2>1. /\ shards' = shards /\ spares' = Append(spares, a) /\ writer' = Free /\ writer = a
        /\ file' = file
    BY <1>10 DEF CommitSpare
  <2>2. \A b \in ToSet(Append(spares, a)) : ~Serves(shards, b)
    BY <1>3, <1>4, <1>5, <2>1
  <2>3. Now
    BY <1>2, <1>3, <1>4, <2>1, <2>2, Disjoint
  <2> QED
    BY <1>1, <2>3
<1>11. CASE RestartCoordinator
  <2>1. /\ shards' = file.shards /\ spares' = file.spares /\ writer' = Free /\ file' = file
    BY <1>11 DEF RestartCoordinator
  <2>2. Now
    BY <1>2, <1>3, <1>4, <2>1, Disjoint
  <2> QED
    BY <1>1, <2>2
<1> QED
  BY <1>6, <1>7, <1>8, <1>9, <1>10, <1>11, TablesFrame DEF TableStep

\* No node is at once a spare and a member, in memory or in the state file, with
\* rebinds, registrations, failed writes and restarts in any order (rebind_inner,
\* register_node, load_or_initialize): the autoscaler never splits onto a node
\* that already serves.
THEOREM SparesNeverServe == Spec => []SparesServeNothing
<1>1. Init => SparesInv
  BY SparesInit
<1>2. Typed /\ GenerationInv /\ SparesInv /\ [Next]_vars => SparesInv'
  BY SparesNext
<1>3. SparesInv => SparesServeNothing
  BY DEF SparesInv
<1> QED
  BY <1>1, <1>2, <1>3, GenerationHolds, PTL DEF Spec

--------------------------------------------------------------------------------
(* Rows keep the pair they were written under.                               *)

\* A file with rows belongs to an index with rows, so no fit takes it.
PairInv ==
  \A i \in 1..Len(idx) :
    /\ idx[i].disk.rows # <<>> => idx[i].rows # <<>>
    /\ idx[i].disk.rows # <<>> => idx[i].cal = idx[i].disk.cal

LEMMA PairInit == Init => PairInv
<1> SUFFICES ASSUME Init, NEW i \in 1..Len(idx)
             PROVE /\ idx[i].disk.rows = idx[i].rows /\ idx[i].cal = idx[i].disk.cal
  BY DEF PairInv
<1>1. i \in DOMAIN FirstShards
  <2>1. DOMAIN FirstShards = 1..Len(FirstShards)
    BY BoundAssumption
  <2> QED
    BY <2>1 DEF Init
<1> QED
  BY <1>1 DEF Init

LEMMA PairNext ==
  ASSUME Typed, PairInv, [Next]_vars
  PROVE PairInv'
<1> SUFFICES ASSUME NEW i \in 1..Len(idx')
             PROVE /\ idx'[i].disk.rows # <<>> => idx'[i].rows # <<>>
                   /\ idx'[i].disk.rows # <<>> => idx'[i].cal = idx'[i].disk.cal
  BY DEF PairInv
<1>1. CASE i \in 1..Len(idx)
  <2>1. /\ idx[i].disk.rows # <<>> => idx[i].rows # <<>>
        /\ idx[i].disk.rows # <<>> => idx[i].cal = idx[i].disk.cal
    BY <1>1 DEF PairInv
  <2>2. idx[i] \in IndexType
    BY <1>1, TypedFacts
  <2>3. CASE idx'[i] = idx[i]
    BY <2>1, <2>3
  <2>4. CASE idx'[i] = Flushed(idx[i])
    BY <2>2, <2>4, FlushedTyped
  <2>5. CASE idx[i].rows = <<>> /\ \E c : idx'[i] = [idx[i] EXCEPT !.cal = c]
    BY <2>1, <2>2, <2>5 DEF IndexType
  <2>6. CASE AddRow(i) /\ idx'[i] = [idx[i] EXCEPT !.rows = Append(idx[i].rows, <<0, ingested + 1>>)]
    <3>1. idx[i].rows \in Seq(Row) /\ <<0, ingested + 1>> \in Row
      BY <2>2, OtherFacts DEF IndexType, Row
    <3> DEFINE rows == Append(idx[i].rows, <<0, ingested + 1>>)
    <3>2. rows # <<>>
      BY <3>1
    <3> HIDE DEF rows
    <3>3. idx'[i].rows = rows /\ idx'[i].disk = idx[i].disk /\ idx'[i].cal = idx[i].cal
      BY <2>2, <2>6 DEF IndexType, rows
    <3> QED
      BY <2>1, <3>2, <3>3
  <2>7. CASE idx'[i] = Restarted(idx[i])
    BY <2>2, <2>7, RestartedTyped
  <2>8. CASE idx'[i] = [idx[i] EXCEPT !.live = FALSE]
    BY <2>1, <2>2, <2>8 DEF IndexType
  <2> QED
    BY <1>1, <2>3, <2>4, <2>5, <2>6, <2>7, <2>8, IndexFrame DEF IndexStep
<1>2. CASE i \notin 1..Len(idx)
  <2>0. Len(idx') # Len(idx)
    BY <1>2
  <2>1. PICK p \in Proc : StagesIndex(p)
    BY <2>0, IndexFrame
  <2>2. Len(idx') = Len(idx) + 1 /\ Len(idx) \in Nat /\ idx'[Len(idx) + 1].disk.rows = <<>>
    BY <2>1, StagesIndexAppends, TypedFacts
  <2>3. i = Len(idx) + 1
    BY <1>2, <2>2
  <2> QED
    BY <2>2, <2>3
<1> QED
  BY <1>1, <1>2

\* Rows are never read under another pair than the one they were saved with: a
\* fit is taken by empty indexes only, each of whose files is then empty too,
\* whatever it is that restarts, splits or fails meanwhile (set_calibration,
\* restore).
THEOREM SavedRowsKeepTheirPair == Spec => []SavedRowsKeepPair
<1>1. Typed /\ PairInv => SavedRowsKeepPair
  BY TypedFacts DEF PairInv, SavedRowsKeepPair, Index
<1>2. Init => PairInv
  BY PairInit
<1>3. Typed /\ PairInv /\ [Next]_vars => PairInv'
  BY PairNext
<1> QED
  BY <1>1, <1>2, <1>3, TopologyTyped, PTL DEF Spec


--------------------------------------------------------------------------------
(* The tasks: what a step that leaves the tables alone does to the one it moves. *)

\* All of a task but its place, its entries in the new table and its binding.
Plans(t) ==
  <<t.kind, t.plan, t.staged, t.sources, t.at, t.expected, t.table, t.cal>>

BeginsSearch(p) ==
  /\ p \in Searcher /\ proc'[p].kind = "search" /\ proc'[p].pc = "collect"
  /\ proc'[p].sources = {}
BeginsFit(p) ==
  /\ p \in Admin /\ "fit" \in Kinds /\ proc'[p].kind = "fit"
  /\ proc'[p].pc = "fit" /\ proc'[p].sources = {}
  /\ proc'[p].staged = <<>> /\ proc'[p].table = shards
JoinPlan(a) ==
  <<Import(a, [j \in DOMAIN shards |-> Part(shards[j].index, 0, Len(idx[shards[j].index].rows))])>>
BeginsMove(p) ==
  /\ p \in Admin /\ ("split" \in Kinds \/ "join" \in Kinds)
  /\ proc'[p].kind \in {"split", "join"}
  /\ proc'[p].pc = "stage" /\ proc'[p].staged = <<>>
  /\ \/ \E i \in 1..Len(idx), a, b \in Addr : proc'[p].plan = SplitPlan(i, <<a, b>>)
     \/ \E a \in Addr : proc'[p].plan = JoinPlan(a)
BeginsAuto(p) ==
  /\ p = Scaler /\ "auto" \in Kinds /\ proc'[p].kind = "auto"
  /\ proc'[p].pc = "stage" /\ proc'[p].staged = <<>>
  /\ proc'[p].expected = generation /\ proc'[p].table = shards
  /\ proc'[p].at \in 1..Len(shards)
  /\ proc'[p].sources = {shards[proc'[p].at].index}
  /\ \E a, b \in Addr :
       proc'[p].plan = SplitPlan(shards[proc'[p].at].index, <<a, b>>)

Begins(p) ==
  /\ proc[p].pc = "idle" /\ idx' = idx
  /\ BeginsSearch(p) \/ BeginsFit(p) \/ BeginsMove(p) \/ BeginsAuto(p)

Fits(p) ==
  /\ proc[p].pc = "fit" /\ proc'[p].pc = "fit" /\ proc'[p].kind = proc[p].kind
  /\ proc'[p].sources = proc[p].sources
  /\ Len(proc[p].staged) < Len(proc[p].table) /\ proc'[p].table = proc[p].table
  /\ proc'[p].staged = Append(proc[p].staged, proc[p].table[Len(proc[p].staged) + 1].index)

Flushes(p) ==
  /\ proc[p].pc = "flush" /\ proc'[p].pc = "rebind"
  /\ \A j \in DOMAIN proc[p].staged : Live(proc[p].staged[j])
  /\ idx' = [i \in DOMAIN idx |->
               IF i \in ToSet(proc[p].staged) THEN Flushed(idx[i]) ELSE idx[i]]
  /\ proc'[p].configs = Configs(p, idx')
  /\ Plans(proc'[p]) = Plans(proc[p])

Moves(p) ==
  /\ proc[p].pc = "flush" \/ idx' = idx
  /\ Plans(proc'[p]) = Plans(proc[p])
  /\ \/ proc[p].pc = "stage" /\ proc[p].plan = <<>> /\ proc'[p].pc = "flush"
     \/ proc[p].pc = "fit" /\ proc'[p].pc = "flush"
     \/ p = Scaler /\ proc[p].pc \in {"flush", "rebind"} /\ proc'[p].pc = "teardown"
     \/ proc[p].pc = "invalidate" /\ proc'[p].pc = "collect"
     \/ proc[p].pc \in {"collect", "probe"} /\ proc'[p].pc \in {"probe", "search", "drop"}

TaskStep(p) ==
  \/ proc'[p] = Idle
  \/ Begins(p) \/ StagesIndex(p) \/ Fits(p) \/ Flushes(p) \/ Moves(p)

OnlyTask(p) == TaskStep(p) /\ \A q \in Proc \ {p} : proc'[q] = proc[q]

LEMMA OneTask ==
  ASSUME Typed, NEW p \in Proc, NEW t, proc' = [proc EXCEPT ![p] = t]
  PROVE proc'[p] = t /\ \A q \in Proc \ {p} : proc'[q] = proc[q]
BY DEF Typed

LEMMA EndIs ==
  ASSUME Typed, NEW p \in Proc, End(p)
  PROVE OnlyTask(p)
BY OneTask DEF End, OnlyTask, TaskStep

LEMMA GotoIs ==
  ASSUME Typed, NEW p \in Proc, NEW pc, Goto(p, pc)
  PROVE /\ proc'[p].pc = pc /\ Plans(proc'[p]) = Plans(proc[p])
        /\ \A q \in Proc \ {p} : proc'[q] = proc[q]
<1> DEFINE t == [proc[p] EXCEPT !.pc = pc]
<1>1. proc[p] \in TaskType(Len(idx))
  BY TypedFacts
<1>2. t.pc = pc /\ Plans(t) = Plans(proc[p])
  BY <1>1 DEF TaskType, Plans
<1>3. proc' = [proc EXCEPT ![p] = t]
  BY DEF Goto
<1> HIDE DEF t
<1> QED
  BY <1>2, <1>3, OneTask

LEMMA StageMoves ==
  ASSUME Typed, NEW p \in Proc, Stage(p)
  PROVE OnlyTask(p)
<1>1. proc[p] \in TaskType(Len(idx))
  BY TypedFacts
<1>2. CASE End(p)
  BY <1>2, EndIs
<1>3. CASE StagesIndex(p)
  <2>1. \E t : proc' = [proc EXCEPT ![p] = t]
    BY <1>3 DEF StagesIndex
  <2>2. \A q \in Proc \ {p} : proc'[q] = proc[q]
    BY <2>1, OneTask
  <2> QED
    BY <1>3, <2>2 DEF OnlyTask, TaskStep
<1>4. CASE Staged(p)
  <2>1. Goto(p, "flush") /\ proc[p].pc = "stage" /\ proc[p].plan = <<>> /\ idx' = idx
    BY <1>4 DEF Staged, At
  <2> QED
    BY <2>1, GotoIs DEF OnlyTask, TaskStep, Moves
<1>5. CASE FitNext(p) /\ ~End(p)
  <2>1. CASE Goto(p, "flush") /\ idx' = idx
    <3>1. proc[p].pc = "fit"
      BY <1>5 DEF FitNext, At
    <3> QED
      BY <2>1, <3>1, GotoIs DEF OnlyTask, TaskStep, Moves
  <2> DEFINE i == proc[p].table[Len(proc[p].staged) + 1].index
  <2>2. CASE /\ Len(proc[p].staged) < Len(proc[p].table)
             /\ proc' = [proc EXCEPT ![p] = [proc[p] EXCEPT !.staged = Append(proc[p].staged, i)]]
    <3> DEFINE t == [proc[p] EXCEPT !.staged = Append(proc[p].staged, i)]
    <3>2. /\ t.pc = proc[p].pc /\ t.sources = proc[p].sources /\ t.table = proc[p].table
          /\ t.staged = Append(proc[p].staged, i) /\ t.kind = proc[p].kind
      BY <1>1 DEF TaskType
    <3> HIDE DEF t
    <3>3. proc[p].pc = "fit" /\ Len(proc[p].staged) < Len(proc[p].table)
      BY <1>5, <2>2 DEF FitNext, At
    <3>4. proc'[p] = t /\ \A q \in Proc \ {p} : proc'[q] = proc[q]
      BY <2>2, OneTask DEF t
    <3> QED
      BY <3>2, <3>3, <3>4 DEF OnlyTask, TaskStep, Fits
  <2> QED
    BY <1>5, <2>1, <2>2 DEF FitNext
<1>6. CASE FlushStaged(p)
  <2>1. /\ proc[p].pc = "flush" /\ \A j \in DOMAIN proc[p].staged : Live(proc[p].staged[j])
        /\ idx' = FlushedIn(ToSet(proc[p].staged))
    BY <1>6 DEF FlushStaged, At
  <2> DEFINE c == Configs(p, idx')
             t == [proc[p] EXCEPT !.pc = "rebind", !.configs = c]
  <2>2. proc' = [proc EXCEPT ![p] = t]
    BY <1>6 DEF FlushStaged
  <2> HIDE DEF c
  <2>3. t.pc = "rebind" /\ t.configs = c /\ Plans(t) = Plans(proc[p])
    BY <1>1 DEF TaskType, Plans
  <2> HIDE DEF t
  <2>4. proc'[p] = t /\ \A q \in Proc \ {p} : proc'[q] = proc[q]
    BY <2>2, OneTask
  <2>5. proc'[p].configs = Configs(p, idx')
    BY <2>3, <2>4 DEF c
  <2>6. Flushes(p)
    BY <2>1, <2>3, <2>4, <2>5 DEF Flushes, FlushedIn
  <2> QED
    BY <2>4, <2>6 DEF OnlyTask, TaskStep
<1>7. CASE FlushFails(p)
  <2>1. proc[p].pc = "flush" /\ (End(p) \/ (p = Scaler /\ Goto(p, "teardown")))
    BY <1>7 DEF FlushFails, Fail, At
  <2>2. CASE p = Scaler /\ Goto(p, "teardown")
    BY <2>1, <2>2, GotoIs DEF OnlyTask, TaskStep, Moves
  <2> QED
    BY <1>2, <2>1, <2>2
<1>8. StageNext(p) => StagesIndex(p) \/ End(p)
  BY StageNextIs
<1> QED
  BY <1>2, <1>3, <1>4, <1>5, <1>6, <1>7, <1>8 DEF Stage

LEMMA CollectionMoves ==
  ASSUME Typed, NEW p \in Proc, Collection(p)
  PROVE OnlyTask(p)
<1>1. proc[p] \in TaskType(Len(idx)) /\ Idle \in TaskType(Len(idx)) /\ idx' = idx
  BY TypedFacts, IdleType
     DEF Collection, StartSearch, PinHit, PinMiss, ProbeNext, StorePin, Search
<1>2. CASE End(p)
  BY <1>2, EndIs
<1>3. ASSUME NEW pc \in {"search", "drop", "probe"}, NEW pin,
             proc[p].pc \in {"collect", "probe"},
             proc' = [proc EXCEPT ![p].pc = pc, ![p].pin = pin]
      PROVE OnlyTask(p)
  <2> DEFINE t == [proc[p] EXCEPT !.pc = pc, !.pin = pin]
  <2>1. t.pc = pc /\ Plans(t) = Plans(proc[p])
    BY <1>1 DEF TaskType, Plans
  <2>2. proc' = [proc EXCEPT ![p] = t]
    BY <1>3
  <2> HIDE DEF t
  <2>3. proc'[p] = t /\ \A q \in Proc \ {p} : proc'[q] = proc[q]
    BY <2>2, OneTask
  <2>4. Moves(p)
    BY <1>1, <1>3, <2>1, <2>3 DEF Moves
  <2> QED
    BY <2>3, <2>4 DEF OnlyTask, TaskStep
<1>4. CASE StartSearch(p)
  <2> DEFINE t == [Idle EXCEPT !.kind = "search", !.pc = "collect"]
  <2>1. t.kind = "search" /\ t.pc = "collect" /\ t.sources = {}
    BY DEF Idle
  <2>2. proc' = [proc EXCEPT ![p] = t] /\ p \in Searcher /\ proc[p].pc = "idle"
    BY <1>4 DEF StartSearch, At
  <2> HIDE DEF t
  <2>3. proc'[p] = t /\ \A q \in Proc \ {p} : proc'[q] = proc[q]
    BY <2>2, OneTask
  <2> QED
    BY <1>1, <2>1, <2>2, <2>3 DEF OnlyTask, TaskStep, Begins, BeginsSearch
<1>5. CASE PinHit(p)
  <2>1. /\ proc[p].pc \in {"collect", "probe"}
        /\ \/ End(p)
           \/ \E pc \in {"search", "drop", "probe"} : \E pin :
                proc' = [proc EXCEPT ![p].pc = pc, ![p].pin = pin]
    BY <1>5 DEF PinHit, Bound, At
  <2> QED
    BY <1>2, <1>3, <2>1
<1>6. CASE PinMiss(p)
  <2>1. /\ proc[p].pc \in {"collect", "probe"}
        /\ \/ End(p)
           \/ \E pc \in {"search", "drop", "probe"} : \E pin :
                proc' = [proc EXCEPT ![p].pc = pc, ![p].pin = pin]
    <3>1. \E pin : proc' = [proc EXCEPT ![p].pc = "probe", ![p].pin = pin]
      BY <1>6 DEF PinMiss
    <3> QED
      BY <1>6, <3>1 DEF PinMiss, At
  <2> QED
    BY <1>2, <1>3, <2>1
<1>7. CASE ProbeNext(p)
  <2>1. proc[p].pc = "probe"
    BY <1>7 DEF ProbeNext, At
  <2>2. CASE \E x : proc' = [proc EXCEPT ![p] = [proc[p] EXCEPT !.pin = x]]
    <3>1. PICK x : proc' = [proc EXCEPT ![p] = [proc[p] EXCEPT !.pin = x]]
      BY <2>2
    <3> DEFINE t == [proc[p] EXCEPT !.pin = x]
    <3>2. t.pc = proc[p].pc /\ Plans(t) = Plans(proc[p])
      BY <1>1 DEF TaskType, Plans
    <3> HIDE DEF t
    <3>3. proc'[p] = t /\ \A q \in Proc \ {p} : proc'[q] = proc[q]
      BY <3>1, OneTask DEF t
    <3>4. Moves(p)
      BY <1>1, <2>1, <3>2, <3>3 DEF Moves
    <3> QED
      BY <3>3, <3>4 DEF OnlyTask, TaskStep
  <2>3. End(p) \/ \E x : proc' = [proc EXCEPT ![p] = [proc[p] EXCEPT !.pin = x]]
    BY <1>7 DEF ProbeNext
  <2> QED
    BY <1>2, <2>2, <2>3
<1>8. CASE StorePin(p)
  <2>1. /\ proc[p].pc \in {"collect", "probe"}
        /\ \/ End(p)
           \/ \E pc \in {"search", "drop", "probe"} : \E pin :
                proc' = [proc EXCEPT ![p].pc = pc, ![p].pin = pin]
    BY <1>8 DEF StorePin, Bound, At
  <2> QED
    BY <1>2, <1>3, <2>1
<1>9. CASE Search(p)
  BY <1>2, <1>9 DEF Search
<1> QED
  BY <1>4, <1>5, <1>6, <1>7, <1>8, <1>9 DEF Collection

LEMMA StartMoves ==
  ASSUME Typed, Start
  PROVE \E p \in Proc : OnlyTask(p)
<1>1. ASSUME NEW p \in Proc, NEW t, Begin(p, t)
      PROVE /\ proc'[p] = t /\ \A q \in Proc \ {p} : proc'[q] = proc[q]
            /\ proc[p].pc = "idle" /\ idx' = idx
  BY <1>1, OneTask DEF Begin, At
<1>2. ASSUME NEW p \in Admin, StartSplit(p) PROVE OnlyTask(p)
  <2>1. PICK i \in Members(shards), a \in Addr, b \in Addr : Begin(p, [Idle EXCEPT !.kind = "split", !.pc = "stage", !.sources = {i},
                                !.plan = SplitPlan(i, <<a, b>>)])
    BY <1>2 DEF StartSplit
  <2> DEFINE t == [Idle EXCEPT !.kind = "split", !.pc = "stage", !.sources = {i},
                               !.plan = SplitPlan(i, <<a, b>>)]
  <2>2. t.pc = "stage" /\ t.staged = <<>> /\ t.plan = SplitPlan(i, <<a, b>>) /\ p \in Proc
        /\ i \in 1..Len(idx) /\ t.kind = "split"
    BY TypedFacts, TableFacts DEF Idle, Proc
  <2> HIDE DEF t
  <2>3. Begin(p, t) /\ "split" \in Kinds
    BY <1>2, <2>1 DEF t, StartSplit
  <2>4. Begins(p)
    BY <1>1, <2>2, <2>3 DEF Begins, BeginsMove
  <2> QED
    BY <1>1, <2>2, <2>3, <2>4 DEF OnlyTask, TaskStep
<1>3. ASSUME NEW p \in Admin, StartJoin(p) PROVE OnlyTask(p)
  <2>1. PICK a \in Addr : Begin(p, [Idle EXCEPT !.kind = "join", !.pc = "stage",
                                !.sources = Members(shards), !.plan = JoinPlan(a)])
    BY <1>3 DEF StartJoin, JoinPlan
  <2> DEFINE t == [Idle EXCEPT !.kind = "join", !.pc = "stage",
                               !.sources = Members(shards), !.plan = JoinPlan(a)]
  <2>2. t.pc = "stage" /\ t.staged = <<>> /\ t.plan = JoinPlan(a) /\ p \in Proc
        /\ t.kind = "join"
    BY DEF Idle, Proc
  <2> HIDE DEF t
  <2>3. Begin(p, t) /\ "join" \in Kinds
    BY <1>3, <2>1 DEF t, StartJoin
  <2>4. Begins(p)
    BY <1>1, <2>2, <2>3 DEF Begins, BeginsMove
  <2> QED
    BY <1>1, <2>2, <2>3, <2>4 DEF OnlyTask, TaskStep
<1>4. ASSUME NEW p \in Admin, StartFit(p) PROVE OnlyTask(p)
  <2> DEFINE t == [Idle EXCEPT !.kind = "fit", !.pc = "fit", !.table = shards,
                               !.cal = moves + 1]
  <2>1. Begin(p, t) /\ "fit" \in Kinds
    BY <1>4 DEF StartFit
  <2>2. t.pc = "fit" /\ t.sources = {} /\ t.staged = <<>> /\ t.table = shards /\ p \in Proc
        /\ t.kind = "fit"
    BY DEF Idle, Proc
  <2> HIDE DEF t
  <2>4. Begins(p)
    BY <1>1, <2>1, <2>2 DEF Begins, BeginsFit
  <2> QED
    BY <1>1, <2>1, <2>2, <2>4 DEF OnlyTask, TaskStep
<1>5. ASSUME StartAuto PROVE OnlyTask(Scaler) /\ Scaler \in Proc
  <2> DEFINE task(j) ==
             [Idle EXCEPT
               !.kind = "auto", !.pc = "stage", !.sources = {shards[j].index}, !.at = j,
               !.expected = generation, !.table = shards,
               !.plan = SplitPlan(shards[j].index, <<idx[shards[j].index].addr, Head(spares)>>)]
  <2>1. PICK j \in DOMAIN shards : Begin(Scaler, task(j))
    BY <1>5 DEF StartAuto
  <2> DEFINE t == task(j)
             a == idx[shards[j].index].addr
             b == Head(spares)
  <2>2. t.pc = "stage" /\ t.staged = <<>> /\ Scaler \in Proc /\ t.at = j
        /\ t.expected = generation /\ t.table = shards /\ t.sources = {shards[j].index}
        /\ t.plan = SplitPlan(shards[j].index, <<a, b>>) /\ t.kind = "auto"
    BY DEF Idle, Proc
  <2>3. j \in 1..Len(shards) /\ shards[j].index \in 1..Len(idx)
    BY TableFacts, TypedFacts
  <2>4. a \in Addr /\ b \in Addr
    <3>1. spares \in Seq(Addr) /\ spares # <<>>
      BY <1>5 DEF Typed, StartAuto
    <3>2. idx[shards[j].index] \in IndexType
      BY <2>3, TypedFacts
    <3> QED
      BY <3>1, <3>2 DEF IndexType
  <2> HIDE DEF t, a, b
  <2>5. Begin(Scaler, t) /\ "auto" \in Kinds
    BY <1>5, <2>1 DEF t, StartAuto
  <2>6. /\ proc'[Scaler] = t /\ \A q \in Proc \ {Scaler} : proc'[q] = proc[q]
        /\ proc[Scaler].pc = "idle" /\ idx' = idx
    BY <1>1, <2>2, <2>5
  <2>7. BeginsAuto(Scaler)
    BY <2>2, <2>3, <2>4, <2>5, <2>6 DEF BeginsAuto
  <2> QED
    BY <2>2, <2>6, <2>7 DEF OnlyTask, TaskStep, Begins
<1> QED
  BY <1>2, <1>3, <1>4, <1>5 DEF Start, Proc

LEMMA TasksFrame ==
  ASSUME Typed, [Next]_vars
  PROVE \/ TableStep
        \/ UNCHANGED tableVars /\ proc' = proc
        \/ UNCHANGED tableVars /\ \E p \in Proc : OnlyTask(p)
<1>1. UNCHANGED tableVars \/ TableStep
  BY TablesFrame
<1>2. CASE Start
  BY <1>1, <1>2, StartMoves
<1>3. CASE \E p \in Proc : Stage(p) \/ Collection(p)
  BY <1>1, <1>3, StageMoves, CollectionMoves
<1>4. CASE \E p \in Proc : Rebind(p)
  <2>1. PICK p \in Proc : Rebind(p)
    BY <1>4
  <2>2. CASE RefuseRebind(p)
    <3>1. ((Goto(p, "teardown") /\ p = Scaler) \/ End(p)) /\ proc[p].pc = "rebind" /\ idx' = idx
      BY <2>2 DEF RefuseRebind, Fail, At
    <3>2. OnlyTask(p)
      BY <3>1, EndIs, GotoIs DEF OnlyTask, TaskStep, Moves
    <3> QED
      BY <1>1, <3>2
  <2>3. CASE InvalidatePin(p)
    <3>1. (Goto(p, "collect") \/ End(p)) /\ proc[p].pc = "invalidate" /\ idx' = idx
      BY <2>3 DEF InvalidatePin, At
    <3>2. OnlyTask(p)
      BY <3>1, EndIs, GotoIs DEF OnlyTask, TaskStep, Moves
    <3> QED
      BY <1>1, <3>2
  <2> QED
    BY <2>1, <2>2, <2>3 DEF Rebind, TableStep
<1>5. CASE DropSource \/ Teardown
  <2>1. End(Scaler) /\ Scaler \in Proc
    BY <1>5 DEF DropSource, Teardown, Proc
  <2> QED
    BY <1>1, <2>1, EndIs
<1>6. CASE RestartCoordinator \/ \E a \in Addr : Register(a) \/ RegisterFails(a) \/ CommitSpare(a)
  BY <1>6 DEF TableStep
<1>7. CASE (\E a \in Addr : RestartNode(a)) \/ \E i \in DOMAIN idx : AddRow(i) \/ FlushShard(i)
  <2>1. proc' = proc
    BY <1>7 DEF RestartNode, AddRow, FlushShard
  <2> QED
    BY <1>1, <2>1
<1>8. CASE UNCHANGED vars
  BY <1>1, <1>8 DEF vars
<1> QED
  BY <1>2, <1>3, <1>4, <1>5, <1>6, <1>7, <1>8 DEF Next

LEMMA StagesIndexTask ==
  ASSUME Typed, NEW p \in Proc, StagesIndex(p)
  PROVE LET t == proc[p] u == proc'[p] IN
        /\ t.pc = "stage" /\ u.pc = "stage"
        /\ t.plan # <<>> /\ u.plan = Tail(t.plan) /\ u.staged = Append(t.staged, Len(idx) + 1)
        /\ u.sources = t.sources /\ u.at = t.at /\ u.expected = t.expected
        /\ u.table = t.table /\ u.kind = t.kind
<1> DEFINE new == [proc[p] EXCEPT !.plan = Tail(proc[p].plan),
                                  !.staged = Append(proc[p].staged, Len(idx) + 1)]
<1>1. proc[p] \in TaskType(Len(idx)) /\ proc[p].pc = "stage" /\ proc[p].plan # <<>>
      /\ proc' = [proc EXCEPT ![p] = new]
  BY TypedFacts DEF StagesIndex, At
<1>2. /\ new.pc = "stage" /\ new.plan = Tail(proc[p].plan)
      /\ new.staged = Append(proc[p].staged, Len(idx) + 1)
      /\ new.sources = proc[p].sources /\ new.at = proc[p].at
      /\ new.expected = proc[p].expected /\ new.table = proc[p].table
      /\ new.kind = proc[p].kind
  BY <1>1 DEF TaskType
<1> HIDE DEF new
<1>3. proc'[p] = new
  BY <1>1, OneTask
<1> QED
  BY <1>1, <1>2, <1>3

LEMMA FrontIs ==
  ASSUME NEW S, NEW s \in Seq(S), NEW n \in Nat, n <= Len(s)
  PROVE /\ SubSeq(s, 1, n) \in Seq(S) /\ Len(SubSeq(s, 1, n)) = n
        /\ \A j \in 1..n : SubSeq(s, 1, n)[j] = s[j]
OBVIOUS

LEMMA BackIs ==
  ASSUME NEW S, NEW s \in Seq(S), NEW n \in Nat, n <= Len(s)
  PROVE /\ SubSeq(s, n + 1, Len(s)) \in Seq(S) /\ Len(SubSeq(s, n + 1, Len(s))) = Len(s) - n
        /\ \A j \in 1..(Len(s) - n) : SubSeq(s, n + 1, Len(s))[j] = s[n + j]
OBVIOUS

\* A table of the autoscaler, position by position: the shard at the place it
\* splits gives way to the staged ones, the others stay in their order.
LEMMA Spliced ==
  ASSUME NEW n \in Nat, NEW t \in Table(n), NEW at \in 1..Len(t), NEW c \in Table(n)
  PROVE LET new == SubSeq(t, 1, at - 1) \o c \o SubSeq(t, at + 1, Len(t)) IN
        /\ new \in Table(n) /\ Len(new) = Len(t) - 1 + Len(c)
        /\ \A j \in 1..Len(new) :
             new[j] = IF j < at THEN t[j]
                      ELSE IF j < at + Len(c) THEN c[j - at + 1]
                      ELSE t[j - Len(c) + 1]
<1> DEFINE S == [index : 1..n, required : Nat]
           front == SubSeq(t, 1, at - 1)
           back == SubSeq(t, at + 1, Len(t))
<1>1. t \in Seq(S) /\ c \in Seq(S)
  BY DEF Table
<1> HIDE DEF S
<1>2. Len(t) \in Nat /\ at \in Nat /\ at >= 1 /\ at <= Len(t) /\ Len(c) \in Nat
      /\ \A j \in 1..Len(t) : t[j] \in S
  BY <1>1
<1>3. front \in Seq(S) /\ Len(front) = at - 1 /\ \A j \in 1..(at - 1) : front[j] = t[j]
  <2>1. at - 1 \in Nat /\ at - 1 <= Len(t)
    BY <1>2
  <2> QED
    BY <1>1, <2>1, FrontIs
<1>4. back \in Seq(S) /\ Len(back) = Len(t) - at
      /\ \A j \in 1..(Len(t) - at) : back[j] = t[at + j]
  BY <1>1, <1>2, BackIs
<1> HIDE DEF front, back
<1> DEFINE left == front \o c
           new == left \o back
<1>5. left \in Seq(S) /\ Len(left) = at - 1 + Len(c)
      /\ \A j \in 1..Len(left) : left[j] = IF j < at THEN front[j] ELSE c[j - at + 1]
  <2>1. left \in Seq(S) /\ Len(left) = Len(front) + Len(c)
        /\ \A j \in 1..(Len(front) + Len(c)) :
             left[j] = IF j <= Len(front) THEN front[j] ELSE c[j - Len(front)]
    BY <1>1, <1>3, ConcatProperties
  <2>2. ASSUME NEW j \in 1..Len(left)
        PROVE left[j] = IF j < at THEN front[j] ELSE c[j - at + 1]
    <3>1. (j <= Len(front) <=> j < at) /\ j - Len(front) = j - at + 1
      BY <1>2, <1>3, <2>1
    <3> QED
      BY <2>1, <3>1
  <2> QED
    BY <1>3, <2>1, <2>2
<1>6. new \in Seq(S) /\ Len(new) = Len(t) - 1 + Len(c)
      /\ \A j \in 1..Len(new) :
           new[j] = IF j < at + Len(c) THEN left[j] ELSE t[j - Len(c) + 1]
  <2> HIDE DEF left
  <2>1. new \in Seq(S) /\ Len(new) = Len(left) + Len(back)
        /\ \A j \in 1..(Len(left) + Len(back)) :
             new[j] = IF j <= Len(left) THEN left[j] ELSE back[j - Len(left)]
    <3>1. left \in Seq(S) /\ back \in Seq(S)
      BY <1>4, <1>5
    <3> QED
      BY <3>1, ConcatProperties
  <2>2. Len(new) = Len(t) - 1 + Len(c)
    BY <1>2, <1>4, <1>5, <2>1
  <2>3. ASSUME NEW j \in 1..Len(new)
        PROVE new[j] = IF j < at + Len(c) THEN left[j] ELSE t[j - Len(c) + 1]
    <3>1. j <= Len(left) <=> j < at + Len(c)
      BY <1>2, <1>5, <2>2
    <3>2. CASE j < at + Len(c)
      BY <2>1, <3>1, <3>2
    <3>3. CASE ~(j < at + Len(c))
      <4>1. j - Len(left) \in 1..(Len(t) - at) /\ at + (j - Len(left)) = j - Len(c) + 1
        BY <1>2, <1>5, <2>2, <3>3
      <4>2. new[j] = back[j - Len(left)]
        BY <2>1, <3>1, <3>3
      <4> QED
        BY <1>4, <3>3, <4>1, <4>2
    <3> QED
      BY <3>2, <3>3
  <2> QED
    BY <2>1, <2>2, <2>3
<1>7. ASSUME NEW j \in 1..Len(new)
      PROVE new[j] = IF j < at THEN t[j]
                     ELSE IF j < at + Len(c) THEN c[j - at + 1]
                     ELSE t[j - Len(c) + 1]
  <2> HIDE DEF left, new
  <2>1. CASE j < at
    <3>1. j \in 1..(at - 1) /\ j \in 1..Len(left) /\ j < at + Len(c)
      BY <1>2, <1>5, <1>6, <2>1
    <3> QED
      BY <1>3, <1>5, <1>6, <2>1, <3>1
  <2>2. CASE ~(j < at) /\ j < at + Len(c)
    <3>1. j \in 1..Len(left)
      BY <1>2, <1>5, <1>6, <2>2
    <3> QED
      BY <1>5, <1>6, <2>2, <3>1
  <2>3. CASE ~(j < at) /\ ~(j < at + Len(c))
    BY <1>6, <2>3
  <2> QED
    BY <2>1, <2>2, <2>3
<1> QED
  BY <1>6, <1>7 DEF Table, S, front, back

--------------------------------------------------------------------------------
(* What is published is what was planned against.                            *)

\* The autoscaler publishes over the table it planned with, or not at all.
PlanInv ==
  /\ proc[Scaler].pc # "fit"
  /\ proc[Scaler].pc \in {"stage", "flush", "rebind", "commit"} =>
       /\ proc[Scaler].at \in 1..Len(proc[Scaler].table)
       /\ proc[Scaler].sources = {proc[Scaler].table[proc[Scaler].at].index}
       /\ proc[Scaler].expected <= generation
       /\ proc[Scaler].expected = generation => proc[Scaler].table = shards
       /\ proc[Scaler].pc = "commit" => proc[Scaler].expected = generation

\* The entries of a new table are the indexes staged, in order.
ConfigsInv ==
  \A p \in Proc : proc[p].pc \in {"rebind", "commit"} =>
    /\ Len(proc[p].configs) = Len(proc[p].staged)
    /\ \A j \in 1..Len(proc[p].staged) : proc[p].configs[j].index = proc[p].staged[j]

LEMMA PlanInit == Init => PlanInv /\ ConfigsInv
<1>1. Init => \A p \in Proc : proc[p].pc = "idle"
  BY DEF Init, Idle
<1>2. Scaler \in Proc
  BY DEF Proc
<1> QED
  BY <1>1, <1>2 DEF PlanInv, ConfigsInv

LEMMA PlanNext ==
  ASSUME Typed, GenerationInv, PlanInv, [Next]_vars
  PROVE PlanInv'
<1> USE DEF PlanInv
<1>1. generation \in Nat /\ Scaler \in Proc /\ Scaler \notin Searcher /\ Scaler \notin Admin
  BY OtherFacts, BoundAssumption DEF Proc
<1>2. proc[Scaler] \in TaskType(Len(idx)) /\ proc[Scaler].expected \in Nat
  BY <1>1, TypedFacts DEF TaskType
<1>3. CASE UNCHANGED tableVars /\ proc'[Scaler] = proc[Scaler]
  BY <1>3 DEF tableVars
<1>4. CASE UNCHANGED tableVars /\ OnlyTask(Scaler)
  <2>1. generation' = generation /\ shards' = shards /\ TaskStep(Scaler)
    BY <1>4 DEF tableVars, OnlyTask
  <2>2. CASE proc'[Scaler] = Idle
    BY <2>2 DEF Idle
  <2>3. CASE Begins(Scaler)
    BY <1>1, <2>1, <2>3 DEF Begins, BeginsSearch, BeginsFit, BeginsMove, BeginsAuto
  <2>4. CASE StagesIndex(Scaler)
    BY <1>1, <2>1, <2>4, StagesIndexTask
  <2>5. CASE Fits(Scaler)
    BY <2>5 DEF Fits
  <2>6. CASE Flushes(Scaler) \/ Moves(Scaler)
    <3>1. /\ proc'[Scaler].sources = proc[Scaler].sources /\ proc'[Scaler].at = proc[Scaler].at
          /\ proc'[Scaler].expected = proc[Scaler].expected
          /\ proc'[Scaler].table = proc[Scaler].table
      BY <2>6 DEF Flushes, Moves, Plans
    <3>2. /\ proc'[Scaler].pc \notin {"fit", "commit"}
          /\ proc'[Scaler].pc \in {"stage", "flush", "rebind"} =>
               proc[Scaler].pc \in {"stage", "flush", "rebind"}
      BY <2>6 DEF Flushes, Moves
    <3> QED
      BY <2>1, <3>1, <3>2
  <2> QED
    BY <2>1, <2>2, <2>3, <2>4, <2>5, <2>6 DEF TaskStep
<1>5. ASSUME NEW p \in Proc, PersistTable(p) PROVE PlanInv'
  <2>1. generation' = generation /\ shards' = shards /\ MayRebind(p)
    BY <1>5 DEF PersistTable, topoVars
  <2>2. CASE p # Scaler
    BY <1>1, <1>5, <2>1, <2>2, PersistTableTask
  <2>3. CASE p = Scaler
    <3>1. generation = proc[Scaler].expected
      BY <2>1, <2>3 DEF MayRebind
    <3> QED
      BY <1>1, <1>2, <1>5, <2>1, <2>3, <3>1, PersistTableTask
  <2> QED
    BY <2>2, <2>3
<1>6. ASSUME NEW p \in Proc, PersistTableFails(p) PROVE PlanInv'
  <2>1. generation' = generation /\ shards' = shards
    BY <1>6 DEF PersistTableFails, topoVars
  <2> QED
    BY <1>1, <1>6, <2>1, PersistTableFailsTask
<1>7. ASSUME NEW p \in Proc, CommitTable(p) PROVE PlanInv'
  <2>1. generation' = generation + 1
    BY <1>7 DEF CommitTable
  <2>2. CASE p = Scaler
    BY <1>7, <2>2, CommitTableTask
  <2>3. CASE p # Scaler
    <3>1. proc'[Scaler] = proc[Scaler] /\ proc[Scaler].pc # "commit"
      BY <1>1, <1>7, <2>3, CommitTableTask DEF GenerationInv, LockInv
    <3> QED
      BY <1>1, <1>2, <2>1, <3>1
  <2> QED
    BY <2>2, <2>3
<1>8. ASSUME NEW a \in Addr, Register(a) \/ RegisterFails(a) \/ CommitSpare(a) PROVE PlanInv'
  <2>1. generation' = generation /\ shards' = shards /\ proc' = proc
    BY <1>8 DEF Register, RegisterFails, CommitSpare, topoVars
  <2> QED
    BY <2>1
<1>9. CASE RestartCoordinator
  BY <1>1, <1>9 DEF RestartCoordinator, Idle
<1>10. CASE TableStep
  BY <1>5, <1>6, <1>7, <1>8, <1>9, <1>10 DEF TableStep
<1>11. CASE UNCHANGED tableVars /\ \E p \in Proc : OnlyTask(p)
  <2>1. PICK p \in Proc : OnlyTask(p)
    BY <1>11
  <2>2. CASE p # Scaler
    BY <1>1, <1>3, <1>11, <2>1, <2>2 DEF OnlyTask
  <2> QED
    BY <1>4, <1>11, <2>1, <2>2
<1> QED
  BY <1>3, <1>10, <1>11, TasksFrame

LEMMA ConfigsNext ==
  ASSUME Typed, ConfigsInv, [Next]_vars
  PROVE ConfigsInv'
<1> DEFINE Configured(p) ==
             proc[p].pc \in {"rebind", "commit"} =>
               /\ Len(proc[p].configs) = Len(proc[p].staged)
               /\ \A j \in 1..Len(proc[p].staged) : proc[p].configs[j].index = proc[p].staged[j]
<1> SUFFICES ASSUME NEW p \in Proc PROVE Configured(p)'
  BY DEF ConfigsInv
<1>1. Configured(p)
  BY DEF ConfigsInv
<1>2. CASE proc'[p] = proc[p]
  BY <1>1, <1>2
<1>3. CASE OnlyTask(p)
  <2>1. CASE proc'[p] = Idle
    BY <2>1 DEF Idle
  <2>2. CASE Begins(p)
    BY <2>2 DEF Begins, BeginsSearch, BeginsFit, BeginsMove, BeginsAuto
  <2>3. CASE StagesIndex(p)
    BY <2>3, StagesIndexTask
  <2>4. CASE Fits(p)
    BY <2>4 DEF Fits
  <2>5. CASE Flushes(p)
    <3> DEFINE staged == proc[p].staged
               configs == [j \in DOMAIN staged |-> Shard(staged[j], idx'[staged[j]].gen)]
    <3>1. /\ proc'[p].staged = staged
          /\ proc'[p].configs = configs
      BY <2>5 DEF Flushes, Plans, Configs
    <3>2. Len(staged) \in Nat /\ DOMAIN staged = 1..Len(staged)
      <4>1. staged \in Seq(1..Len(idx))
        BY TypedFacts DEF TaskType
      <4> QED
        BY <4>1
    <3>3. Len(configs) = Len(staged) /\ \A j \in 1..Len(staged) : configs[j].index = staged[j]
      BY <3>2 DEF Shard
    <3> HIDE DEF configs, staged
    <3>4. proc'[p].staged = staged /\ proc'[p].configs = configs
      BY <3>1
    <3> QED
      BY <3>3, <3>4
  <2>6. CASE Moves(p)
    BY <2>6 DEF Moves
  <2> QED
    BY <1>3, <2>1, <2>2, <2>3, <2>4, <2>5, <2>6 DEF OnlyTask, TaskStep
<1>4. CASE TableStep
  <2>1. ASSUME NEW q \in Proc, PersistTable(q) PROVE Configured(p)'
    BY <1>1, <1>2, <2>1, PersistTableTask
  <2>2. ASSUME NEW q \in Proc, PersistTableFails(q) PROVE Configured(p)'
    BY <1>2, <2>2, PersistTableFailsTask
  <2>3. ASSUME NEW q \in Proc, CommitTable(q) PROVE Configured(p)'
    BY <1>2, <2>3, CommitTableTask
  <2>4. ASSUME NEW a \in Addr, Register(a) \/ RegisterFails(a) \/ CommitSpare(a)
        PROVE Configured(p)'
    BY <1>2, <2>4 DEF Register, RegisterFails, CommitSpare
  <2>5. CASE RestartCoordinator
    BY <2>5 DEF RestartCoordinator, Idle
  <2> QED
    BY <1>4, <2>1, <2>2, <2>3, <2>4, <2>5 DEF TableStep
<1> QED
  BY <1>2, <1>3, <1>4, TasksFrame DEF OnlyTask

LEMMA PlanHolds == Spec => [](Typed /\ GenerationInv /\ PlanInv /\ ConfigsInv)
<1>1. Init => PlanInv /\ ConfigsInv
  BY PlanInit
<1>2. Typed /\ GenerationInv /\ PlanInv /\ ConfigsInv /\ [Next]_vars => (PlanInv /\ ConfigsInv)'
  BY PlanNext, ConfigsNext
<1> QED
  BY <1>1, <1>2, GenerationHolds, PTL DEF Spec

\* What a table being published names: the indexes staged, and for the autoscaler
\* the shards of the table it does not split.
LEMMA NewTableNames ==
  ASSUME Typed, PlanInv, ConfigsInv, NEW p \in Proc, proc[p].pc \in {"rebind", "commit"}
  PROVE /\ \A i \in Members(NewTable(p)) :
             \/ i \in ToSet(proc[p].staged)
             \/ p = Scaler /\ \E j \in 1..Len(proc[p].table) :
                  j # proc[p].at /\ i = proc[p].table[j].index
        /\ \A i \in ToSet(proc[p].staged) : i \in Members(NewTable(p))
        /\ p = Scaler => \A j \in 1..Len(proc[p].table) :
             j # proc[p].at => proc[p].table[j].index \in Members(NewTable(p))
<1> DEFINE t == proc[p].table
           at == proc[p].at
           c == proc[p].configs
           s == proc[p].staged
           n == Len(idx)
           new == NewTable(p)
<1>1. n \in Nat /\ t \in Table(n) /\ c \in Table(n) /\ s \in Seq(1..n)
  BY TypedFacts DEF TaskType
<1>2. Len(c) = Len(s) /\ \A j \in 1..Len(s) : c[j].index = s[j]
  BY DEF ConfigsInv
<1>3. Len(s) \in Nat /\ DOMAIN s = 1..Len(s) /\ ToSet(s) = {s[j] : j \in 1..Len(s)}
  BY <1>1 DEF ToSet
<1>4. new \in Table(n)
  BY NewTableTyped
<1>5. Members(new) = {new[j].index : j \in 1..Len(new)} /\ Len(new) \in Nat
  BY <1>1, <1>4, TableFacts
<1>6. CASE p # Scaler
  <2>1. new = c
    BY <1>6 DEF NewTable, AutoTable
  <2> HIDE DEF new, c, s
  <2> QED
    BY <1>2, <1>3, <1>5, <1>6, <2>1 DEF new, s
<1>7. CASE p = Scaler
  <2>1. at \in 1..Len(t)
    BY <1>7 DEF PlanInv
  <2>2. new = SubSeq(t, 1, at - 1) \o c \o SubSeq(t, at + 1, Len(t))
    BY <1>7 DEF NewTable, AutoTable
  <2>3. Len(new) = Len(t) - 1 + Len(c)
        /\ \A j \in 1..Len(new) :
             new[j] = IF j < at THEN t[j]
                      ELSE IF j < at + Len(c) THEN c[j - at + 1]
                      ELSE t[j - Len(c) + 1]
    <3> HIDE DEF n, t, at, c, new
    <3> QED
      BY <1>1, <2>1, <2>2, Spliced
  <2>4. Len(t) \in Nat
    BY <1>1, TableFacts
  <2> HIDE DEF n, t, at, c, s, new
  <2>5. ASSUME NEW i \in Members(new)
        PROVE i \in ToSet(s) \/ \E j \in 1..Len(t) : j # at /\ i = t[j].index
    <3>1. PICK k \in 1..Len(new) : i = new[k].index
      BY <1>5
    <3>2. CASE k < at
      <4>1. k \in 1..Len(t) /\ k # at /\ new[k] = t[k]
        BY <2>1, <2>3, <2>4, <3>2
      <4> QED
        BY <3>1, <4>1
    <3>3. CASE ~(k < at) /\ k < at + Len(c)
      <4>1. k - at + 1 \in 1..Len(s) /\ new[k] = c[k - at + 1]
        BY <1>2, <1>3, <2>1, <2>3, <2>4, <3>3
      <4>2. i = s[k - at + 1]
        BY <1>2, <3>1, <4>1
      <4> QED
        BY <1>3, <4>1, <4>2
    <3>4. CASE ~(k < at) /\ ~(k < at + Len(c))
      <4>1. k - Len(c) + 1 \in 1..Len(t) /\ k - Len(c) + 1 # at /\ new[k] = t[k - Len(c) + 1]
        BY <1>2, <1>3, <2>1, <2>3, <2>4, <3>4
      <4> QED
        BY <3>1, <4>1
    <3> QED
      BY <3>2, <3>3, <3>4
  <2>6. ASSUME NEW i \in ToSet(s) PROVE i \in Members(new)
    <3>1. PICK j \in 1..Len(s) : i = s[j]
      BY <1>3
    <3> DEFINE k == at + j - 1
    <3>2. k \in 1..Len(new) /\ ~(k < at) /\ k < at + Len(c) /\ k - at + 1 = j
      BY <1>2, <1>3, <2>1, <2>3, <2>4
    <3> HIDE DEF k
    <3>3. new[k] = c[j]
      BY <2>3, <3>2
    <3> QED
      BY <1>2, <1>5, <3>1, <3>2, <3>3
  <2>7. ASSUME NEW j \in 1..Len(t), j # at PROVE t[j].index \in Members(new)
    <3>1. CASE j < at
      <4>1. j \in 1..Len(new) /\ new[j] = t[j]
        BY <1>2, <1>3, <2>1, <2>3, <2>4, <3>1
      <4> QED
        BY <1>5, <4>1
    <3>2. CASE ~(j < at)
      <4> DEFINE k == j + Len(c) - 1
      <4>1. k \in 1..Len(new) /\ ~(k < at) /\ ~(k < at + Len(c)) /\ k - Len(c) + 1 = j
        BY <1>2, <1>3, <2>1, <2>3, <2>4, <2>7, <3>2
      <4> HIDE DEF k
      <4>2. new[k] = t[j]
        BY <2>3, <4>1
      <4> QED
        BY <1>5, <4>1, <4>2
    <3> QED
      BY <3>1, <3>2
  <2> QED
    BY <1>7, <2>5, <2>6, <2>7 DEF t, at, s, new
<1> QED
  BY <1>6, <1>7

--------------------------------------------------------------------------------
(* Durable tables: whatever a table names, or is about to, stays and is saved. *)

Sound(i) == Live(i) /\ idx[i].gen > 0

Named(i) ==
  \/ i \in Members(shards)
  \/ i \in Members(file.shards)
  \/ \E p \in Proc : proc[p].pc \in {"rebind", "commit"} /\ i \in ToSet(proc[p].staged)

NamedInv == \A i : Named(i) => Sound(i)

LEMMA StagedFacts ==
  ASSUME Typed, NEW p \in Proc
  PROVE /\ Len(proc[p].staged) \in Nat /\ DOMAIN proc[p].staged = 1..Len(proc[p].staged)
        /\ ToSet(proc[p].staged) = {proc[p].staged[j] : j \in 1..Len(proc[p].staged)}
        /\ ToSet(proc[p].staged) \subseteq 1..Len(idx)
<1> DEFINE s == proc[p].staged
<1>1. s \in Seq(1..Len(idx))
  BY TypedFacts DEF TaskType
<1> HIDE DEF s
<1>2. Len(s) \in Nat /\ DOMAIN s = 1..Len(s) /\ \A j \in 1..Len(s) : s[j] \in 1..Len(idx)
  BY <1>1
<1>3. ToSet(s) = {s[j] : j \in 1..Len(s)}
  BY <1>2 DEF ToSet
<1> QED
  BY <1>2, <1>3 DEF s

LEMMA NamedIndexes ==
  ASSUME Typed, NEW i, Named(i)
  PROVE i \in 1..Len(idx)
<1>1. Members(shards) \subseteq 1..Len(idx) /\ Members(file.shards) \subseteq 1..Len(idx)
  <2>1. file.shards \in Table(Len(idx)) /\ shards \in Table(Len(idx)) /\ Len(idx) \in Nat
    BY OtherFacts, TypedFacts DEF FileType
  <2> QED
    BY <2>1, TableFacts
<1> QED
  BY <1>1, StagedFacts DEF Named

LEMMA SoundStays ==
  ASSUME Typed, [Next]_vars, NEW i \in 1..Len(idx), Sound(i), ~Dropped(i)
  PROVE Sound(i)'
<1>1. idx'[i].live /\ idx'[i].gen >= idx[i].gen /\ i \in 1..Len(idx')
  BY IndexesStay DEF Sound, Live
<1>2. idx[i].gen \in Nat /\ idx'[i].gen \in Nat
  <2>1. idx[i] \in IndexType
    BY TypedFacts
  <2>2. Typed'
    BY TypedNext
  <2>3. idx'[i] \in IndexType
    BY <1>1, <2>2 DEF Typed
  <2> QED
    BY <2>1, <2>3 DEF IndexType
<1> QED
  BY <1>1, <1>2 DEF Sound, Live

\* What a step newly names is what it has just flushed.
LEMMA NamedGrows ==
  ASSUME Typed, GenerationInv, PlanInv, ConfigsInv, [Next]_vars, NEW i, Named(i)'
  PROVE Named(i) \/ \E p \in Proc : Flushes(p) /\ i \in ToSet(proc[p].staged)
<1> DEFINE Goal == Named(i) \/ \E p \in Proc : Flushes(p) /\ i \in ToSet(proc[p].staged)
<1>1. \/ i \in Members(shards')
      \/ i \in Members(file'.shards)
      \/ \E q \in Proc : proc'[q].pc \in {"rebind", "commit"} /\ i \in ToSet(proc'[q].staged)
  BY DEF Named, Members
<1>2. CASE UNCHANGED tableVars /\ proc' = proc
  BY <1>1, <1>2 DEF tableVars, Named
<1>3. ASSUME UNCHANGED tableVars, NEW p \in Proc, OnlyTask(p) PROVE Goal
  <2>1. shards' = shards /\ file' = file
    BY <1>3 DEF tableVars
  <2>2. ASSUME NEW q \in Proc, proc'[q].pc \in {"rebind", "commit"}, i \in ToSet(proc'[q].staged)
        PROVE Goal
    <3>1. CASE q # p
      BY <1>3, <2>2, <3>1 DEF OnlyTask, Named
    <3>2. CASE q = p
      <4>1. TaskStep(p)
        BY <1>3 DEF OnlyTask
      <4>2. Flushes(p)
        BY SMTT(30), <2>2, <3>2, <4>1, StagesIndexTask
           DEF TaskStep, Idle, Begins, BeginsSearch, BeginsFit, BeginsMove, BeginsAuto, Fits, Moves
      <4>3. proc'[p].staged = proc[p].staged
        BY <4>2 DEF Flushes, Plans
      <4> QED
        BY <2>2, <3>2, <4>2, <4>3
    <3> QED
      BY <3>1, <3>2
  <2> QED
    BY <1>1, <2>1, <2>2 DEF Named
<1>4. ASSUME NEW p \in Proc, PersistTable(p) \/ PersistTableFails(p), i \in Members(NewTable(p))
      PROVE Named(i)
  <2>1. proc[p].pc = "rebind" /\ MayRebind(p)
    BY <1>4 DEF PersistTable, PersistTableFails, At
  <2>2. CASE i \in ToSet(proc[p].staged)
    BY <2>1, <2>2 DEF Named
  <2>3. CASE p = Scaler /\ \E j \in 1..Len(proc[p].table) :
               j # proc[p].at /\ i = proc[p].table[j].index
    <3>1. proc[p].table = shards
      BY <2>1, <2>3 DEF MayRebind, PlanInv
    <3>2. i \in Members(shards)
      BY <2>3, <3>1, TypedFacts, TableFacts
    <3> QED
      BY <3>2 DEF Named
  <2> QED
    BY <1>4, <2>1, <2>2, <2>3, NewTableNames
<1>5. ASSUME NEW p \in Proc, PersistTable(p) PROVE Goal
  <2>1. shards' = shards /\ file'.shards = NewTable(p)
    BY <1>5 DEF PersistTable, topoVars
  <2>2. ASSUME NEW q \in Proc, proc'[q].pc \in {"rebind", "commit"}, i \in ToSet(proc'[q].staged)
        PROVE Named(i)
    BY <1>5, <2>2, PersistTableTask DEF Named
  <2> QED
    BY <1>1, <1>4, <1>5, <2>1, <2>2 DEF Named
<1>6. ASSUME NEW p \in Proc, PersistTableFails(p) PROVE Goal
  <2>1. shards' = shards /\ (file' = file \/ file'.shards = NewTable(p))
    BY <1>6 DEF PersistTableFails, topoVars
  <2>2. ASSUME NEW q \in Proc, proc'[q].pc \in {"rebind", "commit"}, i \in ToSet(proc'[q].staged)
        PROVE Named(i)
    BY <1>6, <2>2, PersistTableFailsTask DEF Named
  <2> QED
    BY <1>1, <1>4, <1>6, <2>1, <2>2 DEF Named
<1>7. ASSUME NEW p \in Proc, CommitTable(p) PROVE Goal
  <2>1. shards' = file.shards /\ file' = file
    BY <1>7, CommitTableTask DEF CommitTable, GenerationInv
  <2>2. ASSUME NEW q \in Proc, proc'[q].pc \in {"rebind", "commit"}, i \in ToSet(proc'[q].staged)
        PROVE Named(i)
    BY <1>7, <2>2, CommitTableTask DEF Named
  <2> QED
    BY <1>1, <2>1, <2>2 DEF Named
<1>8. ASSUME NEW a \in Addr, Register(a) \/ RegisterFails(a) \/ CommitSpare(a) PROVE Goal
  <2>1. shards' = shards /\ (file' = file \/ file'.shards = shards) /\ proc' = proc
    BY <1>8 DEF Register, RegisterFails, CommitSpare, topoVars
  <2> QED
    BY <1>1, <2>1 DEF Named
<1>9. CASE RestartCoordinator
  <2>1. shards' = file.shards /\ file' = file /\ \A q \in Proc : proc'[q].pc = "idle"
    BY <1>9 DEF RestartCoordinator, Idle
  <2> QED
    BY <1>1, <2>1 DEF Named
<1>10. CASE TableStep
  BY <1>5, <1>6, <1>7, <1>8, <1>9, <1>10 DEF TableStep
<1>11. CASE UNCHANGED tableVars /\ \E p \in Proc : OnlyTask(p)
  BY <1>3, <1>11
<1> QED
  BY <1>2, <1>10, <1>11, TasksFrame

LEMMA NamedInit == Init => NamedInv
<1> SUFFICES ASSUME Init, NEW i, Named(i) PROVE Sound(i)
  BY DEF NamedInv
<1> DEFINE n == Len(FirstShards)
<1>1. n \in Nat /\ DOMAIN FirstShards = 1..n
  BY BoundAssumption
<1>2. \A p \in Proc : proc[p].pc = "idle"
  BY DEF Init, Idle
<1>3. shards = [j \in 1..n |-> Shard(j, 1)] /\ file.shards = shards
  BY <1>1 DEF Init
<1>4. i \in 1..n
  BY <1>2, <1>3 DEF Named, Members, Shard
<1> QED
  BY <1>1, <1>4 DEF Init, Sound, Live

LEMMA NamedNext ==
  ASSUME Typed, GenerationInv, PlanInv, ConfigsInv, NamedInv, [Next]_vars,
         \A i : Named(i) => ~Dropped(i)
  PROVE NamedInv'
<1> SUFFICES ASSUME NEW i, Named(i)' PROVE Sound(i)'
  BY DEF NamedInv
<1>1. CASE Named(i)
  BY <1>1, NamedIndexes, SoundStays DEF NamedInv
<1>2. ASSUME NEW p \in Proc, Flushes(p), i \in ToSet(proc[p].staged) PROVE Sound(i)'
  <2>1. i \in 1..Len(idx) /\ Live(i)
    BY <1>2, StagedFacts DEF Flushes
  <2>2. idx'[i] = Flushed(idx[i]) /\ idx[i] \in IndexType
    BY <1>2, <2>1, TypedFacts DEF Flushes
  <2>3. idx'[i].live /\ idx'[i].gen = idx[i].gen + 1 /\ idx[i].gen \in Nat
    BY <2>1, <2>2, FlushedTyped DEF Live, IndexType
  <2> QED
    BY <2>3 DEF Sound, Live
<1> QED
  BY <1>1, <1>2, NamedGrows

--------------------------------------------------------------------------------
(* Without an autoscaler nothing is ever dropped.                            *)

LEMMA AutoStaysIdle ==
  ASSUME "auto" \notin Kinds
  PROVE Typed /\ proc[Scaler].pc = "idle" /\ [Next]_vars => proc'[Scaler].pc = "idle"
<1> SUFFICES ASSUME Typed, proc[Scaler].pc = "idle", [Next]_vars PROVE proc'[Scaler].pc = "idle"
  OBVIOUS
<1>1. Scaler \in Proc /\ Scaler \notin Searcher /\ Scaler \notin Admin
  BY BoundAssumption DEF Proc
<1>2. ASSUME NEW p \in Proc, OnlyTask(p) PROVE proc'[Scaler].pc = "idle"
  <2>1. CASE p # Scaler
    BY <1>1, <1>2, <2>1 DEF OnlyTask
  <2>2. CASE p = Scaler
    <3>1. TaskStep(Scaler)
      BY <1>2, <2>2 DEF OnlyTask
    <3> QED
      BY <1>1, <3>1, StagesIndexTask
         DEF TaskStep, Idle, Begins, BeginsSearch, BeginsFit, BeginsMove, BeginsAuto, Fits,
             Flushes, Moves
  <2> QED
    BY <2>1, <2>2
<1>3. CASE TableStep
  <2>1. ASSUME NEW p \in Proc, PersistTable(p) \/ PersistTableFails(p) \/ CommitTable(p)
        PROVE proc'[Scaler].pc = "idle"
    BY <1>1, <2>1, PersistTableTask, PersistTableFailsTask, CommitTableTask
  <2>2. ASSUME NEW a \in Addr, Register(a) \/ RegisterFails(a) \/ CommitSpare(a)
        PROVE proc'[Scaler].pc = "idle"
    BY <2>2 DEF Register, RegisterFails, CommitSpare
  <2>3. CASE RestartCoordinator
    BY <1>1, <2>3 DEF RestartCoordinator, Idle
  <2> QED
    BY <1>3, <2>1, <2>2, <2>3 DEF TableStep
<1> QED
  BY <1>2, <1>3, TasksFrame

\* "A durable topology may point only at durable shard generations", with no
\* autoscaler: Split, Join and FitCalibration publish what they have flushed, and
\* drop nothing, whatever fails or restarts (flush_before_durable_rebind).
THEOREM MutationsStayDurable ==
  ASSUME "auto" \notin Kinds
  PROVE Spec => []TopologyDurable
<1>1. Init => NamedInv /\ proc[Scaler].pc = "idle"
  <2>1. Scaler \in Proc
    BY DEF Proc
  <2> QED
    BY <2>1, NamedInit DEF Init, Idle
<1>2. proc[Scaler].pc = "idle" => \A i : ~Dropped(i)
  BY DEF Dropped, DropSource, Teardown, At
<1>3. Typed /\ GenerationInv /\ PlanInv /\ ConfigsInv /\ NamedInv /\ proc[Scaler].pc = "idle"
      /\ [Next]_vars => (NamedInv /\ proc[Scaler].pc = "idle")'
  BY <1>2, NamedNext, AutoStaysIdle
<1>4. NamedInv => TopologyDurable
  BY DEF NamedInv, Named, Sound, TopologyDurable
<1> QED
  BY <1>1, <1>3, <1>4, PlanHolds, PTL DEF Spec

--------------------------------------------------------------------------------
(* With an autoscaler: what it may drop is nobody's any more, as long as no  *)
(* fit is still at work on an older table.                                   *)

OneEach(table) ==
  \A j, k \in 1..Len(table) : table[j].index = table[k].index => j = k

Distinct(s) == \A j, k \in 1..Len(s) : s[j] = s[k] => j = k

\* A fit between its start and its publication; it publishes again the indexes of
\* the table it started with.
Fitting(p) == proc[p].kind = "fit" /\ proc[p].pc \in {"fit", "flush", "rebind"}

\* The indexes any other task has staged are its own until they are in the state
\* file.
Private(p) == proc[p].kind # "fit" /\ proc[p].pc \in {"stage", "flush", "rebind", "teardown"}

\* The autoscaler has replaced its source in the state file.
Replaced == proc[Scaler].pc \in {"commit", "invalidate", "collect", "probe", "drop"}

\* No fit is at work from the autoscaler's publication to its drop.
FitsApart == Replaced => \A p \in Proc : ~Fitting(p)

InTables(i) == i \in Members(shards) \/ i \in Members(file.shards)

PrivateInv ==
  /\ \A p \in Proc : Private(p) =>
       /\ Distinct(proc[p].staged)
       /\ \A i \in ToSet(proc[p].staged) : ~InTables(i)
  /\ \A p, q \in Proc : p # q /\ Private(p) /\ Private(q) =>
       \A i \in ToSet(proc[p].staged) : i \notin ToSet(proc[q].staged)

ReplacedInv ==
  Replaced => \A i \in proc[Scaler].sources :
    /\ i \notin Members(file.shards)
    /\ proc[Scaler].pc # "commit" => i \notin Members(shards)
    /\ \A q \in Proc \ {Scaler} : Private(q) => i \notin ToSet(proc[q].staged)

FitKind(t) == (t.pc = "fit" => t.kind = "fit") /\ (t.pc = "stage" => t.kind # "fit")

\* What a fit has staged is the front of its table.
FitFront(t) ==
  /\ OneEach(t.table) /\ Len(t.staged) <= Len(t.table)
  /\ \A j \in 1..Len(t.staged) : t.staged[j] = t.table[j].index

\* A fit's table names no index that another task has to itself.
FittingInv ==
  /\ \A p \in Proc : FitKind(proc[p])
  /\ \A p \in Proc : Fitting(p) =>
       /\ FitFront(proc[p])
       /\ \A q \in Proc : Private(q) =>
            \A i \in ToSet(proc[q].staged) : i \notin Members(proc[p].table)

OwnInv ==
  /\ OneEach(shards) /\ OneEach(file.shards)
  /\ PrivateInv
  /\ ReplacedInv
  /\ FittingInv

LEMMA OwnInit == Init => OwnInv
<1> SUFFICES ASSUME Init PROVE OwnInv
  OBVIOUS
<1>1. \A p \in Proc : proc[p].pc = "idle"
  BY DEF Init, Idle
<1>2. Scaler \in Proc
  BY DEF Proc
<1> DEFINE n == Len(FirstShards)
<1>3. n \in Nat /\ DOMAIN FirstShards = 1..n
  BY BoundAssumption
<1>4. shards = [j \in 1..n |-> Shard(j, 1)] /\ file.shards = shards
  BY <1>3 DEF Init
<1>5. OneEach([j \in 1..n |-> Shard(j, 1)])
  BY <1>3 DEF OneEach, Shard
<1> QED
  BY <1>1, <1>2, <1>4, <1>5
     DEF OwnInv, PrivateInv, Private, ReplacedInv, Replaced, FittingInv, Fitting, FitKind

LEMMA TablesNamed ==
  ASSUME Typed
  PROVE /\ Members(shards) \subseteq 1..Len(idx) /\ Members(file.shards) \subseteq 1..Len(idx)
        /\ Len(idx) \in Nat /\ \A p \in Proc : proc[p].sources \subseteq 1..Len(idx)
        /\ \A p \in Proc : Members(proc[p].table) \subseteq 1..Len(idx)
<1>1. file.shards \in Table(Len(idx)) /\ shards \in Table(Len(idx)) /\ Len(idx) \in Nat
  BY OtherFacts, TypedFacts DEF FileType
<1>2. \A p \in Proc : proc[p].sources \subseteq 1..Len(idx) /\ proc[p].table \in Table(Len(idx))
  BY TypedFacts DEF TaskType
<1> QED
  BY <1>1, <1>2, TableFacts

\* What a fit has staged are shards of its table.
LEMMA FrontNames ==
  ASSUME Typed, OwnInv, NEW p \in Proc, Fitting(p)
  PROVE /\ p # Scaler
        /\ ToSet(proc[p].staged) \subseteq Members(proc[p].table)
<1>1. proc[p].table \in Table(Len(idx)) /\ Len(idx) \in Nat
  BY TablesNamed, TypedFacts DEF TaskType
<1>2. Members(proc[p].table) = {proc[p].table[j].index : j \in 1..Len(proc[p].table)}
      /\ Len(proc[p].table) \in Nat
  BY <1>1, TableFacts
<1>3. FitFront(proc[p])
  BY DEF OwnInv, FittingInv
<1>4. \A j \in 1..Len(proc[p].staged) :
        j \in 1..Len(proc[p].table) /\ proc[p].staged[j] = proc[p].table[j].index
  BY <1>2, <1>3, StagedFacts DEF FitFront
<1>5. p # Scaler
  BY DEF Fitting, TaskOK, Typed
<1>6. ASSUME NEW i \in ToSet(proc[p].staged) PROVE i \in Members(proc[p].table)
  <2>1. PICK j \in 1..Len(proc[p].staged) : i = proc[p].staged[j]
    BY StagedFacts
  <2> QED
    BY <1>2, <1>4, <2>1
<1> QED
  BY <1>5, <1>6

\* The new table of a split or a join names every index once ...
LEMMA PrivateTableOneEach ==
  ASSUME Typed, PlanInv, ConfigsInv, OwnInv, NEW p \in Proc, proc[p].pc = "rebind", MayRebind(p),
         Private(p)
  PROVE OneEach(NewTable(p))
<1> DEFINE t == proc[p].table
           at == proc[p].at
           c == proc[p].configs
           s == proc[p].staged
           n == Len(idx)
           new == NewTable(p)
<1>1. n \in Nat /\ t \in Table(n) /\ c \in Table(n) /\ s \in Seq(1..n) /\ Len(s) \in Nat
  BY TypedFacts DEF TaskType
<1>2. Len(c) = Len(s) /\ \A j \in 1..Len(s) : c[j].index = s[j]
  BY DEF ConfigsInv
<1>3. Distinct(s) /\ \A j \in 1..Len(s) : s[j] \notin Members(shards)
  <2>1. Distinct(s) /\ \A i \in ToSet(s) : i \notin Members(shards)
    BY DEF OwnInv, PrivateInv, InTables
  <2>2. ToSet(s) = {s[j] : j \in 1..Len(s)}
    BY StagedFacts
  <2> QED
    BY <2>1, <2>2
<1>4. CASE p # Scaler
  <2>1. new = c
    BY <1>4 DEF NewTable, AutoTable
  <2> HIDE DEF new, c, s
  <2> QED
    BY <1>2, <1>3, <2>1 DEF OneEach, Distinct, new
<1>5. CASE p = Scaler
  <2>1. at \in 1..Len(t)
    BY <1>5 DEF PlanInv
  <2>9. t = shards
    BY <1>5 DEF PlanInv, MayRebind
  <2>2. new = SubSeq(t, 1, at - 1) \o c \o SubSeq(t, at + 1, Len(t))
    BY <1>5 DEF NewTable, AutoTable
  <2>3. Len(new) = Len(t) - 1 + Len(c)
        /\ \A j \in 1..Len(new) :
             new[j] = IF j < at THEN t[j]
                      ELSE IF j < at + Len(c) THEN c[j - at + 1]
                      ELSE t[j - Len(c) + 1]
    <3> HIDE DEF n, t, at, c, new
    <3> QED
      BY <1>1, <2>1, <2>2, Spliced
  <2>4. Len(t) \in Nat /\ \A j \in 1..Len(t) : t[j].index \in Members(shards)
    BY <1>1, <2>9, TableFacts
  <2>5. OneEach(t)
    BY <2>9 DEF OwnInv
  <2> HIDE DEF n, t, at, c, s, new
  <2> DEFINE Old(k) == IF k < at THEN k ELSE k - Len(c) + 1
             Mid(k) == ~(k < at) /\ k < at + Len(c)
  <2>6. ASSUME NEW k \in 1..Len(new), Mid(k)
        PROVE k - at + 1 \in 1..Len(s) /\ new[k].index = s[k - at + 1]
    <3>1. k - at + 1 \in 1..Len(s)
      BY <1>1, <1>2, <2>1, <2>3, <2>4, <2>6
    <3>2. new[k] = c[k - at + 1]
      BY <2>3, <2>6
    <3> QED
      BY <1>2, <3>1, <3>2
  <2>7. ASSUME NEW k \in 1..Len(new), ~Mid(k)
        PROVE Old(k) \in 1..Len(t) /\ new[k].index = t[Old(k)].index
    <3>1. Old(k) \in 1..Len(t) /\ new[k] = t[Old(k)]
      BY <1>1, <1>2, <2>1, <2>3, <2>4, <2>7
    <3> QED
      BY <3>1
  <2>8. ASSUME NEW j \in 1..Len(new), NEW k \in 1..Len(new), new[j].index = new[k].index
        PROVE j = k
    <3>1. CASE Mid(j) /\ Mid(k)
      <4>1. j - at + 1 = k - at + 1
        BY <1>3, <2>6, <2>8, <3>1 DEF Distinct
      <4> QED
        BY <1>1, <2>1, <2>4, <4>1
    <3>2. CASE ~Mid(j) /\ ~Mid(k)
      <4>1. Old(j) = Old(k)
        <5> HIDE DEF Old, Mid
        <5> QED
          BY <2>5, <2>7, <2>8, <3>2 DEF OneEach
      <4> QED
        BY <1>1, <1>2, <2>1, <2>3, <2>4, <3>2, <4>1
    <3>3. CASE Mid(j) /\ ~Mid(k)
      <4> HIDE DEF Old, Mid
      <4> QED
        BY <1>3, <2>4, <2>6, <2>7, <2>8, <3>3
    <3>4. CASE ~Mid(j) /\ Mid(k)
      <4> HIDE DEF Old, Mid
      <4> QED
        BY <1>3, <2>4, <2>6, <2>7, <2>8, <3>4
    <3> QED
      BY <3>1, <3>2, <3>3, <3>4
  <2> QED
    BY <2>8 DEF OneEach, new
<1> QED
  BY <1>4, <1>5

\* ... and so does the one that a fit publishes again.
LEMMA NewTableOneEach ==
  ASSUME Typed, PlanInv, ConfigsInv, OwnInv, NEW p \in Proc, proc[p].pc = "rebind", MayRebind(p)
  PROVE OneEach(NewTable(p))
<1> DEFINE t == proc[p].table
           c == proc[p].configs
           s == proc[p].staged
           n == Len(idx)
           new == NewTable(p)
<1>1. n \in Nat /\ t \in Table(n) /\ c \in Table(n) /\ s \in Seq(1..n) /\ Len(s) \in Nat
  BY TypedFacts DEF TaskType
<1>2. Len(c) = Len(s) /\ \A j \in 1..Len(s) : c[j].index = s[j]
  BY DEF ConfigsInv
<1>3. CASE Fitting(p)
  <2>1. FitFront(proc[p])
    BY <1>3 DEF OwnInv, FittingInv
  <2>2. \A j \in 1..Len(c) : j \in 1..Len(t) /\ c[j].index = t[j].index
    <3>1. Len(s) <= Len(t) /\ \A j \in 1..Len(s) : s[j] = t[j].index
      BY <2>1 DEF FitFront
    <3>2. Len(t) \in Nat
      BY <1>1, TableFacts
    <3> QED
      BY <1>1, <1>2, <3>1, <3>2
  <2>3. new = c
    BY <1>3, FrontNames DEF NewTable, AutoTable
  <2>4. OneEach(t)
    BY <2>1 DEF FitFront
  <2> HIDE DEF new, c, t
  <2>5. OneEach(c)
    BY <2>2, <2>4 DEF OneEach
  <2> QED
    BY <2>3, <2>5 DEF new
<1>4. CASE ~Fitting(p)
  <2>1. Private(p)
    BY <1>4 DEF Private, Fitting
  <2> QED
    BY <2>1, PrivateTableOneEach
<1> QED
  BY <1>3, <1>4

\* Tasks only: the tables stay.
LEMMA OwnTask ==
  ASSUME Typed, OwnInv, UNCHANGED tableVars, NEW p \in Proc, OnlyTask(p)
  PROVE OwnInv'
<1> USE DEF OwnInv
<1>1. /\ shards' = shards /\ file' = file /\ TaskStep(p)
      /\ \A q \in Proc : q # p => proc'[q] = proc[q]
      /\ Scaler \in Proc /\ Scaler \notin Searcher /\ Scaler \notin Admin
  BY BoundAssumption DEF tableVars, OnlyTask, Proc
<1>2. OneEach(shards') /\ OneEach(file'.shards) /\ \A i : InTables(i)' = InTables(i)
  BY <1>1 DEF InTables, Members
<1>3. ASSUME FitKind(proc'[p]),
             Fitting(p)' =>
               /\ FitFront(proc'[p])
               /\ \/ proc'[p].table = shards
                  \/ Fitting(p) /\ proc'[p].table = proc[p].table,
             Private(p)' => Distinct(proc'[p].staged)
               /\ \A i \in ToSet(proc'[p].staged) : i \in ToSet(proc[p].staged) \/ i \notin 1..Len(idx),
             Private(p)' => Private(p) \/ ToSet(proc'[p].staged) = {},
             p = Scaler /\ Replaced' =>
               /\ Replaced /\ proc'[p].sources = proc[p].sources
               /\ (proc'[p].pc = "commit" <=> proc[p].pc = "commit")
      PROVE OwnInv'
  <2>1. \A q \in Proc : FitKind(proc'[q])
    BY <1>1, <1>3 DEF FittingInv
  <2>2. ASSUME NEW i, Private(p)', i \in ToSet(proc'[p].staged)
        PROVE i \notin 1..Len(idx) \/ (Private(p) /\ i \in ToSet(proc[p].staged))
    <3>1. ToSet(proc'[p].staged) # {}
      BY <2>2
    <3> QED
      BY <1>3, <2>2, <3>1
  <2>3. \A q \in Proc \ {p} : Private(q)' = Private(q) /\ proc'[q].staged = proc[q].staged
    BY <1>1 DEF Private
  <2>4. PrivateInv'
    <3>1. ASSUME NEW q \in Proc, Private(q)'
          PROVE /\ Distinct(proc'[q].staged)
                /\ \A i \in ToSet(proc'[q].staged) : ~InTables(i)'
      <4>1. CASE q # p
        BY <1>1, <1>2, <2>3, <3>1, <4>1 DEF PrivateInv
      <4>2. CASE q = p
        BY <1>2, <1>3, <2>2, <3>1, <4>2, TablesNamed DEF PrivateInv, InTables
      <4> QED
        BY <4>1, <4>2
    <3>2. ASSUME NEW q \in Proc, NEW r \in Proc, q # r, Private(q)', Private(r)',
                 NEW i \in ToSet(proc'[q].staged)
          PROVE i \notin ToSet(proc'[r].staged)
      <4>1. CASE q # p /\ r # p
        BY <2>3, <3>2, <4>1 DEF PrivateInv
      <4>2. CASE q = p
        <5>1. Private(r) /\ proc'[r].staged = proc[r].staged /\ r # p
          BY <2>3, <3>2, <4>2
        <5>2. i \notin 1..Len(idx) \/ (Private(p) /\ i \in ToSet(proc[p].staged))
          BY <2>2, <3>2, <4>2
        <5>3. i \notin 1..Len(idx) => i \notin ToSet(proc[r].staged)
          BY StagedFacts
        <5> QED
          BY <5>1, <5>2, <5>3 DEF PrivateInv
      <4>3. CASE r = p
        <5>1. Private(q) /\ proc'[q].staged = proc[q].staged /\ q # p /\ i \in ToSet(proc[q].staged)
          BY <2>3, <3>2, <4>3
        <5>2. i \in 1..Len(idx)
          BY <5>1, StagedFacts
        <5> QED
          BY <2>2, <3>2, <4>3, <5>1, <5>2 DEF PrivateInv
      <4> QED
        BY <4>1, <4>2, <4>3
    <3> QED
      BY <3>1, <3>2 DEF PrivateInv
  <2>5. ReplacedInv'
    <3> SUFFICES ASSUME Replaced', NEW i \in proc'[Scaler].sources
                 PROVE /\ i \notin Members(file'.shards)
                       /\ proc'[Scaler].pc # "commit" => i \notin Members(shards')
                       /\ \A q \in Proc \ {Scaler} : Private(q)' => i \notin ToSet(proc'[q].staged)
      BY DEF ReplacedInv, Members
    <3>1. Replaced /\ i \in proc[Scaler].sources /\ (proc'[Scaler].pc = "commit" <=> proc[Scaler].pc = "commit")
      <4>1. CASE p = Scaler
        BY <1>3, <4>1
      <4>2. CASE p # Scaler
        BY <1>1, <4>2 DEF Replaced
      <4> QED
        BY <4>1, <4>2
    <3>2. i \in 1..Len(idx)
      BY <1>1, <3>1, TablesNamed
    <3>3. ASSUME NEW q \in Proc \ {Scaler}, Private(q)' PROVE i \notin ToSet(proc'[q].staged)
      BY <2>2, <2>3, <3>1, <3>2, <3>3 DEF ReplacedInv
    <3> QED
      BY <1>1, <3>1, <3>3 DEF ReplacedInv
  <2>6. ASSUME NEW r \in Proc, Fitting(r)', NEW q \in Proc, Private(q)',
               NEW i \in ToSet(proc'[q].staged)
        PROVE i \notin Members(proc'[r].table)
    <3>1. r # q
      BY <2>6 DEF Fitting, Private
    <3>2. CASE q # p
      <4>1. Private(q) /\ i \in ToSet(proc[q].staged) /\ i \notin Members(shards)
        BY <2>3, <2>6, <3>2 DEF PrivateInv, InTables
      <4>2. CASE Fitting(r) /\ proc'[r].table = proc[r].table
        BY <4>1, <4>2 DEF FittingInv
      <4>3. CASE r = p /\ proc'[r].table = shards
        BY <4>1, <4>3
      <4> QED
        BY <1>1, <1>3, <2>6, <4>2, <4>3 DEF Fitting
    <3>3. CASE q = p
      <4>1. Fitting(r) /\ proc'[r].table = proc[r].table
        BY <1>1, <2>6, <3>1, <3>3 DEF Fitting
      <4>2. CASE i \notin 1..Len(idx)
        BY <4>1, <4>2, TablesNamed
      <4>3. CASE Private(p) /\ i \in ToSet(proc[p].staged)
        BY <4>1, <4>3 DEF FittingInv
      <4> QED
        BY <2>2, <2>6, <3>3, <4>2, <4>3
    <3> QED
      BY <3>2, <3>3
  <2>7. FittingInv'
    <3>1. ASSUME NEW r \in Proc, Fitting(r)' PROVE FitFront(proc'[r])
      <4>1. CASE r # p
        BY <1>1, <3>1, <4>1 DEF FittingInv, Fitting
      <4>2. CASE r = p
        BY <1>3, <3>1, <4>2
      <4> QED
        BY <4>1, <4>2
    <3> QED
      BY <2>1, <2>6, <3>1 DEF FittingInv
  <2> QED
    BY <1>2, <2>4, <2>5, <2>7
<1>4. CASE proc'[p] = Idle
  BY <1>3, <1>4 DEF Idle, Private, Replaced, Fitting, FitKind
<1>5. CASE Begins(p)
  <2>1. Distinct(<<>>) /\ ToSet(<<>>) = {}
    BY DEF Distinct, ToSet
  <2>2. CASE BeginsFit(p)
    <3>1. /\ proc'[p].pc = "fit" /\ proc'[p].kind = "fit" /\ proc'[p].table = shards
          /\ proc'[p].staged = <<>> /\ p # Scaler
      BY <1>1, <2>2 DEF BeginsFit
    <3>2. Len(shards) \in Nat
      BY TypedFacts, TableFacts
    <3>3. FitFront(proc'[p])
      BY <3>1, <3>2 DEF FitFront
    <3> QED
      BY <1>3, <3>1, <3>3 DEF FitKind, Private
  <2>3. CASE BeginsSearch(p) \/ BeginsMove(p) \/ BeginsAuto(p)
    <3>1. /\ FitKind(proc'[p]) /\ ~Fitting(p)' /\ (Private(p)' => proc'[p].staged = <<>>)
          /\ ~(p = Scaler /\ Replaced')
      BY <1>1, <2>3
         DEF BeginsSearch, BeginsMove, BeginsAuto, Private, Replaced, Fitting, FitKind
    <3> QED
      BY <1>3, <2>1, <3>1
  <2> QED
    BY <1>5, <2>2, <2>3 DEF Begins
<1>6. CASE StagesIndex(p)
  <2>1. /\ proc[p].pc = "stage" /\ proc'[p].pc = "stage" /\ proc[p].kind # "fit"
        /\ proc'[p].staged = Append(proc[p].staged, Len(idx) + 1)
        /\ proc'[p].kind = proc[p].kind
    BY <1>6, StagesIndexTask DEF FittingInv, FitKind
  <2> DEFINE s == proc[p].staged
             n == Len(idx)
  <2>2. s \in Seq(1..n) /\ n \in Nat /\ Len(s) \in Nat /\ Distinct(s)
    BY <2>1, TypedFacts DEF TaskType, PrivateInv, Private
  <2> HIDE DEF s, n
  <2>3. ToSet(Append(s, n + 1)) = ToSet(s) \union {n + 1}
    <3>1. s \in Seq(1..(n + 1)) /\ n + 1 \in 1..(n + 1)
      BY <2>2
    <3> QED
      BY <3>1, ToSetAppend
  <2>4. Distinct(Append(s, n + 1))
    <3>1. Len(Append(s, n + 1)) = Len(s) + 1 /\ Append(s, n + 1)[Len(s) + 1] = n + 1
          /\ \A j \in 1..Len(s) : Append(s, n + 1)[j] = s[j] /\ s[j] \in 1..n
      BY <2>2
    <3> DEFINE u == Append(s, n + 1)
    <3> HIDE DEF u
    <3>2. ASSUME NEW j \in 1..Len(u), NEW k \in 1..Len(u), u[j] = u[k] PROVE j = k
      <4>1. (j \in 1..Len(s) \/ j = Len(s) + 1) /\ (k \in 1..Len(s) \/ k = Len(s) + 1)
        BY <2>2, <3>1 DEF u
      <4> QED
        BY <2>2, <3>1, <3>2, <4>1 DEF u, Distinct
    <3> QED
      BY <3>2 DEF Distinct, u
  <2>5. n + 1 \notin 1..n
    BY <2>2
  <2>6. /\ FitKind(proc'[p]) /\ ~Fitting(p)' /\ Private(p) /\ ~(p = Scaler /\ Replaced')
        /\ Distinct(proc'[p].staged)
        /\ \A i \in ToSet(proc'[p].staged) : i \in ToSet(proc[p].staged) \/ i \notin 1..Len(idx)
    BY <2>1, <2>3, <2>4, <2>5 DEF Private, Replaced, Fitting, FitKind, s, n
  <2> QED
    BY <1>3, <2>6
<1>7. CASE Fits(p)
  <2> DEFINE t == proc[p]
             u == proc'[p]
             next == t.table[Len(t.staged) + 1].index
  <2>1. /\ t.pc = "fit" /\ u.pc = "fit" /\ t.kind = "fit" /\ u.kind = "fit"
        /\ u.table = t.table /\ u.staged = Append(t.staged, next)
        /\ Len(t.staged) < Len(t.table)
    BY <1>7 DEF Fits, FittingInv, FitKind
  <2>2. Fitting(p) /\ FitFront(t)
    BY <2>1 DEF Fitting, FittingInv
  <2>3. t.staged \in Seq(1..Len(idx)) /\ Len(t.staged) \in Nat /\ Len(t.table) \in Nat
    BY StagedFacts, TypedFacts, TableFacts DEF TaskType
  <2> HIDE DEF t, u, next
  <2>4. /\ Len(u.staged) = Len(t.staged) + 1 /\ u.staged[Len(t.staged) + 1] = next
        /\ \A j \in 1..Len(t.staged) : u.staged[j] = t.staged[j]
    BY <2>1, <2>3
  <2>5. ASSUME NEW j \in 1..Len(u.staged) PROVE u.staged[j] = u.table[j].index
    <3>1. j \in 1..Len(t.staged) \/ j = Len(t.staged) + 1
      BY <2>3, <2>4
    <3> QED
      BY <2>1, <2>2, <2>4, <3>1 DEF FitFront, next
  <2>6. OneEach(u.table) /\ Len(u.staged) <= Len(u.table)
    BY <2>1, <2>2, <2>3, <2>4 DEF FitFront
  <2>7. FitFront(u)
    BY <2>5, <2>6 DEF FitFront
  <2>8. p # Scaler
    BY <2>2, FrontNames
  <2> QED
    BY <1>3, <2>1, <2>2, <2>7, <2>8 DEF FitKind, Private, t, u
<1>8. CASE Flushes(p) \/ Moves(p)
  <2>1. /\ proc'[p].staged = proc[p].staged /\ proc'[p].sources = proc[p].sources
        /\ proc'[p].kind = proc[p].kind /\ proc'[p].table = proc[p].table
    BY <1>8 DEF Flushes, Moves, Plans
  <2>2. /\ proc'[p].pc \notin {"fit", "stage"} /\ (Private(p)' => Private(p))
        /\ p = Scaler /\ Replaced' =>
             Replaced /\ (proc'[p].pc = "commit" <=> proc[p].pc = "commit")
    BY <1>8, <2>1 DEF Flushes, Moves, Private, Replaced, FittingInv, FitKind
  <2>3. Fitting(p)' => Fitting(p)
    BY <1>8, <2>1 DEF Flushes, Moves, Fitting, FittingInv, FitKind
  <2>4. Fitting(p) => FitFront(proc[p])
    BY DEF FittingInv
  <2>5. FitFront(proc[p]) => FitFront(proc'[p])
    BY <2>1 DEF FitFront
  <2>6. Private(p) => Distinct(proc[p].staged)
    BY DEF PrivateInv
  <2> QED
    BY <1>3, <2>1, <2>2, <2>3, <2>4, <2>5, <2>6 DEF FitKind
<1> QED
  BY <1>1, <1>4, <1>5, <1>6, <1>7, <1>8 DEF TaskStep

LEMMA OwnNext ==
  ASSUME Typed, GenerationInv, PlanInv, ConfigsInv, OwnInv, FitsApart, ~Faults, [Next]_vars
  PROVE OwnInv'
<1>1. Scaler \in Proc
  BY DEF Proc
<1>2. CASE UNCHANGED tableVars /\ proc' = proc
  BY <1>2 DEF tableVars, OwnInv, PrivateInv, ReplacedInv, FittingInv, Private, Replaced, Fitting,
              InTables, Members
<1>3. CASE UNCHANGED tableVars /\ \E p \in Proc : OnlyTask(p)
  BY <1>3, OwnTask
<1>4. ASSUME NEW p \in Proc, PersistTable(p) PROVE OwnInv'
  <2>1. /\ shards' = shards /\ file'.shards = NewTable(p) /\ writer = Free /\ MayRebind(p)
        /\ proc[p].pc = "rebind" /\ proc'[p].pc = "commit"
        /\ \A q \in Proc \ {p} : proc'[q] = proc[q]
        /\ proc'[p].staged = proc[p].staged /\ proc'[p].sources = proc[p].sources
        /\ proc'[p].kind = proc[p].kind
    BY <1>4, PersistTableTask DEF PersistTable, topoVars
  <2>2. \A i \in Members(NewTable(p)) : i \in ToSet(proc[p].staged) \/ i \in Members(shards)
    <3>1. ASSUME NEW j \in 1..Len(proc[p].table), p = Scaler
          PROVE proc[p].table[j].index \in Members(shards)
      <4>1. proc[p].table = shards
        BY <2>1, <3>1 DEF MayRebind, PlanInv
      <4> QED
        BY <4>1, TypedFacts, TableFacts
    <3> QED
      BY <2>1, <3>1, NewTableNames
  <2>3. /\ Private(p) \/ Fitting(p)
        /\ ~Private(p)' /\ \A q \in Proc \ {p} : Private(q)' = Private(q)
        /\ ~Fitting(p)' /\ \A q \in Proc \ {p} : Fitting(q)' = Fitting(q)
    BY <2>1 DEF Private, Fitting
  <2>8. p = Scaler => Private(p)
    BY <2>3, FrontNames
  <2>4. PrivateInv'
    <3>1. ASSUME NEW q \in Proc, Private(q)'
          PROVE /\ q # p /\ Private(q) /\ proc'[q].staged = proc[q].staged
                /\ Distinct(proc[q].staged)
                /\ \A i \in ToSet(proc[q].staged) :
                     i \notin Members(shards) /\ i \notin Members(NewTable(p))
      <4>1. q # p /\ Private(q) /\ proc'[q].staged = proc[q].staged
        BY <2>1, <2>3, <3>1
      <4>2. \A i \in ToSet(proc[q].staged) : i \notin ToSet(proc[p].staged)
        <5>1. CASE Private(p)
          BY <4>1, <5>1 DEF OwnInv, PrivateInv
        <5>2. CASE Fitting(p)
          BY <4>1, <5>2, FrontNames DEF OwnInv, FittingInv
        <5> QED
          BY <2>3, <5>1, <5>2
      <4> QED
        BY <2>2, <4>1, <4>2 DEF OwnInv, PrivateInv, InTables
    <3>2. \A i : InTables(i)' => i \in Members(shards) \/ i \in Members(NewTable(p))
      BY <2>1 DEF InTables, Members
    <3>3. ASSUME NEW q \in Proc, NEW r \in Proc, q # r, Private(q)', Private(r)'
          PROVE \A i \in ToSet(proc'[q].staged) : i \notin ToSet(proc'[r].staged)
      BY <3>1, <3>3 DEF OwnInv, PrivateInv
    <3>4. ASSUME NEW q \in Proc, Private(q)'
          PROVE Distinct(proc'[q].staged) /\ \A i \in ToSet(proc'[q].staged) : ~InTables(i)'
      BY <3>1, <3>2, <3>4
    <3> QED
      BY <3>3, <3>4 DEF PrivateInv
  <2>5. ReplacedInv'
    <3> SUFFICES ASSUME Replaced', NEW i \in proc'[Scaler].sources
                 PROVE /\ i \notin Members(NewTable(p))
                       /\ proc'[Scaler].pc # "commit" => i \notin Members(shards)
                       /\ \A q \in Proc \ {Scaler} : Private(q)' => i \notin ToSet(proc'[q].staged)
      BY <2>1 DEF ReplacedInv, Members
    <3>1. CASE p = Scaler
      <4>1. /\ proc[Scaler].at \in 1..Len(shards) /\ i = shards[proc[Scaler].at].index
            /\ proc[Scaler].table = shards
        BY <2>1, <3>1 DEF PlanInv, MayRebind
      <4>2. i \in Members(shards)
        BY <4>1, TypedFacts, TableFacts
      <4>3. i \notin ToSet(proc[Scaler].staged)
        BY <2>8, <3>1, <4>2 DEF OwnInv, PrivateInv, InTables
      <4>4. \A j \in 1..Len(shards) : j # proc[Scaler].at => shards[j].index # i
        BY <4>1 DEF OwnInv, OneEach
      <4>5. i \notin Members(NewTable(p))
        BY <2>1, <3>1, <4>1, <4>3, <4>4, NewTableNames
      <4>6. \A q \in Proc \ {Scaler} : Private(q)' => i \notin ToSet(proc'[q].staged)
        BY <2>1, <2>3, <3>1, <4>2 DEF OwnInv, PrivateInv, InTables
      <4> QED
        BY <2>1, <3>1, <4>5, <4>6
    <3>2. CASE p # Scaler
      <4>1. proc'[Scaler] = proc[Scaler] /\ Replaced /\ proc[Scaler].pc # "commit" /\ i \in proc[Scaler].sources
        BY <1>1, <2>1, <3>2, Disjoint DEF Replaced, GenerationInv, LockInv
      <4>2. i \notin Members(shards) /\ \A q \in Proc \ {Scaler} : Private(q) => i \notin ToSet(proc[q].staged)
        BY <4>1 DEF OwnInv, ReplacedInv
      <4>5. Private(p)
        BY <2>3, <4>1 DEF FitsApart
      <4>3. i \notin Members(NewTable(p))
        BY <2>2, <3>2, <4>2, <4>5
      <4>4. ASSUME NEW q \in Proc \ {Scaler}, Private(q)' PROVE i \notin ToSet(proc'[q].staged)
        BY <2>1, <2>3, <4>2, <4>4
      <4> QED
        BY <4>2, <4>3, <4>4
    <3> QED
      BY <3>1, <3>2
  <2>6. OneEach(NewTable(p))
    BY <2>1, NewTableOneEach
  <2>7. FittingInv'
    <3>1. \A q \in Proc : FitKind(proc'[q])
      BY <2>1 DEF OwnInv, FittingInv, FitKind
    <3>2. ASSUME NEW q \in Proc, Fitting(q)'
          PROVE /\ q # p /\ Fitting(q) /\ proc'[q] = proc[q] /\ FitFront(proc[q])
                /\ \A r \in Proc : Private(r) =>
                     \A i \in ToSet(proc[r].staged) : i \notin Members(proc[q].table)
      BY <2>1, <2>3, <3>2 DEF OwnInv, FittingInv
    <3>3. \A r \in Proc : Private(r)' => Private(r) /\ proc'[r].staged = proc[r].staged
      BY <2>1, <2>3
    <3> QED
      BY <3>1, <3>2, <3>3 DEF FittingInv
  <2> QED
    BY <2>1, <2>4, <2>5, <2>6, <2>7 DEF OwnInv
<1>5. ASSUME NEW p \in Proc, CommitTable(p) PROVE OwnInv'
  <2>1. /\ shards' = file.shards /\ file' = file /\ writer = p
        /\ proc[p].pc = "commit" /\ proc'[p].pc = "invalidate"
        /\ \A q \in Proc \ {p} : proc'[q] = proc[q]
        /\ proc'[p].sources = proc[p].sources /\ proc'[p].kind = proc[p].kind
    BY <1>5, CommitTableTask DEF CommitTable, GenerationInv, LockInv
  <2>2. \A q \in Proc : Private(q)' => q # p /\ Private(q) /\ proc'[q].staged = proc[q].staged
    BY <2>1 DEF Private
  <2>3. PrivateInv'
    <3>1. \A i : InTables(i)' => InTables(i)
      BY <2>1 DEF InTables, Members
    <3> QED
      BY <2>2, <3>1 DEF OwnInv, PrivateInv
  <2>4. ReplacedInv'
    <3>1. Replaced' => Replaced /\ proc'[Scaler].sources = proc[Scaler].sources
      <4>1. CASE p = Scaler
        BY <2>1, <4>1 DEF Replaced
      <4>2. CASE p # Scaler
        BY <1>1, <2>1, <4>2 DEF Replaced
      <4> QED
        BY <4>1, <4>2
    <3> QED
      BY <2>1, <2>2, <3>1 DEF OwnInv, ReplacedInv, Members
  <2>5. FittingInv'
    <3>1. \A q \in Proc : FitKind(proc'[q])
      BY <2>1 DEF OwnInv, FittingInv, FitKind
    <3>2. \A q \in Proc : Fitting(q)' => Fitting(q) /\ proc'[q] = proc[q]
      BY <2>1 DEF Fitting
    <3> QED
      BY <2>2, <3>1, <3>2 DEF OwnInv, FittingInv
  <2> QED
    BY <2>1, <2>3, <2>4, <2>5 DEF OwnInv
<1>6. ASSUME NEW p \in Proc PROVE ~PersistTableFails(p)
  BY DEF PersistTableFails
<1>7. ASSUME NEW a \in Addr, Register(a) PROVE OwnInv'
  <2>1. shards' = shards /\ file'.shards = shards /\ proc' = proc /\ writer = Free
    BY <1>7 DEF Register, topoVars
  <2>2. \A i : InTables(i)' => InTables(i)
    BY <2>1 DEF InTables, Members
  <2>3. PrivateInv'
    BY <2>1, <2>2 DEF OwnInv, PrivateInv, Private
  <2>4. ReplacedInv'
    <3>1. proc[Scaler].pc # "commit"
      BY <1>1, <2>1, Disjoint DEF GenerationInv, LockInv
    <3> QED
      BY <2>1, <3>1 DEF OwnInv, ReplacedInv, Replaced, Private, Members
  <2>5. FittingInv'
    BY <2>1 DEF OwnInv, FittingInv, Fitting, Private
  <2> QED
    BY <2>1, <2>3, <2>4, <2>5 DEF OwnInv
<1>8. ASSUME NEW a \in Addr PROVE ~RegisterFails(a)
  BY DEF RegisterFails
<1>9. ASSUME NEW a \in Addr, CommitSpare(a) PROVE OwnInv'
  <2>1. shards' = shards /\ file' = file /\ proc' = proc
    BY <1>9 DEF CommitSpare
  <2> QED
    BY <2>1 DEF OwnInv, PrivateInv, ReplacedInv, FittingInv, Private, Replaced, Fitting,
                InTables, Members
<1>10. CASE RestartCoordinator
  <2>1. shards' = file.shards /\ file' = file /\ \A q \in Proc : proc'[q].pc = "idle"
    BY <1>10 DEF RestartCoordinator, Idle
  <2> QED
    BY <1>1, <2>1 DEF OwnInv, PrivateInv, ReplacedInv, FittingInv, Private, Replaced, Fitting,
                      FitKind
<1>11. CASE TableStep
  BY <1>4, <1>5, <1>6, <1>7, <1>8, <1>9, <1>10, <1>11 DEF TableStep
<1> QED
  BY <1>2, <1>3, <1>11, TasksFrame

\* Nothing the tables name, or are about to, is dropped.
LEMMA OwnKeeps ==
  ASSUME Typed, GenerationInv, PlanInv, ConfigsInv, OwnInv, FitsApart, NEW i, Named(i)
  PROVE ~Dropped(i)
<1>1. Scaler \in Proc
  BY DEF Proc
<1>2. ASSUME NEW p \in Proc, proc[p].pc = "commit", i \in ToSet(proc[p].staged)
      PROVE i \in Members(file.shards)
  BY <1>2, NewTableNames DEF GenerationInv
<1>3. \/ InTables(i)
      \/ \E p \in Proc :
           /\ proc[p].pc = "rebind" /\ i \in ToSet(proc[p].staged)
           /\ (Private(p) \/ (Fitting(p) /\ i \in Members(proc[p].table)))
  BY <1>2, FrontNames DEF Named, InTables, Private, Fitting
<1>4. CASE DropSource /\ i \in proc[Scaler].sources
  <2>1. proc[Scaler].pc = "drop" /\ Replaced
    BY <1>4 DEF DropSource, At, Replaced
  <2>2. ~InTables(i) /\ \A q \in Proc \ {Scaler} : Private(q) => i \notin ToSet(proc[q].staged)
    BY <1>4, <2>1 DEF OwnInv, ReplacedInv, InTables
  <2>3. \A q \in Proc : ~Fitting(q)
    BY <2>1 DEF FitsApart
  <2> QED
    BY <1>3, <2>1, <2>2, <2>3
<1>5. CASE Teardown /\ i \in ToSet(proc[Scaler].staged)
  <2>1. proc[Scaler].pc = "teardown" /\ Private(Scaler)
    BY <1>1, <1>5 DEF Teardown, At, Private, Typed, TaskOK
  <2> QED
    BY <1>1, <1>3, <1>5, <2>1 DEF OwnInv, PrivateInv, FittingInv
<1> QED
  BY <1>4, <1>5 DEF Dropped

LEMMA OwnHolds ==
  ASSUME ~Faults
  PROVE Spec /\ []FitsApart
          => [](Typed /\ GenerationInv /\ PlanInv /\ ConfigsInv /\ NamedInv /\ OwnInv)
<1>1. Init => NamedInv /\ OwnInv
  BY NamedInit, OwnInit
<1>2. Typed /\ GenerationInv /\ PlanInv /\ ConfigsInv /\ NamedInv /\ OwnInv /\ FitsApart
      /\ [Next]_vars => (NamedInv /\ OwnInv)'
  BY NamedNext, OwnNext, OwnKeeps
<1> QED
  BY <1>1, <1>2, PlanHolds, PTL DEF Spec

\* "A durable topology may point only at durable shard generations", with the
\* autoscaler: neither the source it drops after its rebind nor the split it
\* abandons is named by a table, or by one that another task has staged, as long
\* as no fit that planned before the rebind publishes between it and the drop.
THEOREM AutoscalerStaysDurable ==
  ASSUME ~Faults
  PROVE Spec /\ []FitsApart => []TopologyDurable
<1>1. NamedInv => TopologyDurable
  BY DEF NamedInv, Named, Sound, TopologyDurable
<1> QED
  BY <1>1, OwnHolds, PTL

\* Without fits no task is ever one.
LEMMA NoFitNext ==
  ASSUME Typed, "fit" \notin Kinds, \A p \in Proc : proc[p].kind # "fit", ~Faults, [Next]_vars
  PROVE \A p \in Proc : proc'[p].kind # "fit"
<1> SUFFICES ASSUME NEW p \in Proc PROVE proc'[p].kind # "fit"
  OBVIOUS
<1>1. proc[p].kind # "fit"
  OBVIOUS
<1>2. CASE OnlyTask(p)
  <2>1. CASE proc'[p] = Idle
    BY <2>1 DEF Idle
  <2>2. CASE Begins(p)
    BY <2>2 DEF Begins, BeginsSearch, BeginsFit, BeginsMove, BeginsAuto
  <2>3. CASE StagesIndex(p)
    BY <1>1, <2>3, StagesIndexTask
  <2>4. CASE Fits(p)
    BY <1>1, <2>4 DEF Fits
  <2>5. CASE Flushes(p) \/ Moves(p)
    BY <1>1, <2>5 DEF Flushes, Moves, Plans
  <2> QED
    BY <1>2, <2>1, <2>2, <2>3, <2>4, <2>5 DEF OnlyTask, TaskStep
<1>3. CASE TableStep
  <2>1. ASSUME NEW q \in Proc, PersistTable(q) \/ CommitTable(q) PROVE proc'[p].kind # "fit"
    BY <1>1, <2>1, PersistTableTask, CommitTableTask
  <2>2. ASSUME NEW a \in Addr, Register(a) \/ CommitSpare(a) PROVE proc'[p].kind # "fit"
    BY <1>1, <2>2 DEF Register, CommitSpare
  <2>3. CASE RestartCoordinator
    BY <2>3 DEF RestartCoordinator, Idle
  <2> QED
    BY <1>3, <2>1, <2>2, <2>3 DEF TableStep, PersistTableFails, RegisterFails
<1>4. CASE proc'[p] = proc[p]
  BY <1>1, <1>4
<1> QED
  BY <1>2, <1>3, <1>4, TasksFrame DEF OnlyTask

\* Splits, joins and the autoscaler need no such care: a source that the autoscaler
\* drops is never in what they publish, since its own publication is fenced and
\* theirs names only what they staged themselves (rebind_if_unchanged, rebind).
THEOREM MovesStayDurable ==
  ASSUME "fit" \notin Kinds, ~Faults
  PROVE Spec => []TopologyDurable
<1>1. Init => \A p \in Proc : proc[p].kind # "fit"
  BY DEF Init, Idle
<1>2. Typed /\ (\A p \in Proc : proc[p].kind # "fit") /\ [Next]_vars
        => (\A p \in Proc : proc[p].kind # "fit")'
  BY NoFitNext
<1>3. (\A p \in Proc : proc[p].kind # "fit") => FitsApart
  BY DEF FitsApart, Fitting
<1> QED
  BY <1>1, <1>2, <1>3, TopologyTyped, AutoscalerStaysDurable, PTL DEF Spec

--------------------------------------------------------------------------------
(* Rows: what an index saved is the front of what it has, and all of it when  *)
(* an import made the index; the autoscaler's two halves cover the shard it   *)
(* splits.                                                                    *)

FrontOf(s, t) == Len(s) <= Len(t) /\ \A k \in 1..Len(s) : s[k] = t[k]

Made(i) == i > Len(FirstShards)

SavedInv ==
  /\ Len(FirstShards) <= Len(idx)
  /\ \A i \in 1..Len(idx) :
       /\ FrontOf(idx[i].disk.rows, idx[i].rows)
       /\ Made(i) /\ idx[i].gen > 0 => idx[i].disk.rows = idx[i].rows

LEMMA FlattenOne ==
  ASSUME NEW seqs, Len(seqs) = 1
  PROVE FlattenSeq(seqs) = seqs[1]
<1> DEFINE Def(f) == [i \in 1..1 |-> IF i = 1 THEN seqs[i] ELSE f[i - 1] \o seqs[i]]
           flatten == CHOOSE f : f = Def(f)
<1>1. flatten = Def(flatten)
  <2>1. [i \in 1..1 |-> seqs[i]] = Def([i \in 1..1 |-> seqs[i]])
    OBVIOUS
  <2> QED
    BY <2>1
<1>2. flatten[1] = seqs[1]
  <2> HIDE DEF flatten
  <2> QED
    BY <1>1
<1>3. FlattenSeq(seqs) = flatten[1]
  BY DEF FlattenSeq
<1> QED
  BY <1>2, <1>3

LEMMA RowsTyped ==
  ASSUME NEW index \in IndexType
  PROVE /\ index.rows \in Seq(Row) /\ Len(index.rows) \in Nat
        /\ index.disk.rows \in Seq(Row) /\ Len(index.disk.rows) \in Nat
        /\ index.gen \in Nat /\ index.live \in BOOLEAN
<1>1. index.disk \in SavedType
  BY DEF IndexType
<1> QED
  BY <1>1 DEF IndexType, SavedType

LEMMA SavedInit == Init => SavedInv
<1> SUFFICES ASSUME Init PROVE SavedInv
  OBVIOUS
<1>1. Len(FirstShards) \in Nat /\ DOMAIN FirstShards = 1..Len(FirstShards)
  BY BoundAssumption
<1>2. Typed
  BY TypedInit
<1>3. Len(idx) = Len(FirstShards)
  BY <1>1, <1>2, TypedFacts DEF Init
<1>4. ASSUME NEW i \in 1..Len(idx) PROVE idx[i].disk.rows = idx[i].rows /\ Len(idx[i].rows) \in Nat
  <2>1. idx[i].disk.rows = idx[i].rows
    BY <1>1, <1>3, <1>4 DEF Init
  <2>2. idx[i] \in IndexType
    BY <1>2, <1>4, TypedFacts
  <2> QED
    BY <2>1, <2>2, RowsTyped
<1> QED
  BY <1>1, <1>3, <1>4 DEF SavedInv, FrontOf

LEMMA SavedNext ==
  ASSUME Typed, SavedInv, [Next]_vars
  PROVE SavedInv'
<1> DEFINE Saved(x, i) == /\ FrontOf(x.disk.rows, x.rows)
                          /\ Made(i) /\ x.gen > 0 => x.disk.rows = x.rows
<1>1. Len(idx) \in Nat /\ Len(FirstShards) \in Nat /\ DOMAIN FirstShards = 1..Len(FirstShards)
  BY TypedFacts, BoundAssumption
<1>2. ASSUME NEW i \in 1..Len(idx) PROVE Saved(idx'[i], i)
  <2> DEFINE x == idx[i]
             y == idx'[i]
  <2>1. x \in IndexType /\ Saved(x, i) /\ IndexStep(i)
    BY TypedFacts, IndexFrame DEF SavedInv
  <2>2. /\ x.rows \in Seq(Row) /\ Len(x.rows) \in Nat /\ x.disk.rows \in Seq(Row)
        /\ Len(x.disk.rows) \in Nat /\ x.gen \in Nat
    BY <2>1, RowsTyped
  <2>3. CASE y.rows = x.rows /\ y.disk = x.disk /\ y.gen = x.gen
    BY <2>1, <2>3
  <2>4. CASE y.disk.rows = y.rows /\ Len(y.rows) \in Nat
    BY <2>4 DEF FrontOf
  <2>5. CASE AddRow(i) /\ y = [x EXCEPT !.rows = Append(x.rows, <<0, ingested + 1>>)]
    <3>1. ~Made(i)
      BY <1>1, <2>5 DEF AddRow, Labelled, Made
    <3>2. y.rows = Append(x.rows, <<0, ingested + 1>>) /\ y.disk = x.disk
      BY <2>1, <2>5 DEF IndexType
    <3>3. FrontOf(x.disk.rows, Append(x.rows, <<0, ingested + 1>>))
      <4> DEFINE d == x.disk.rows
                 r == x.rows
                 e == <<0, ingested + 1>>
      <4>1. d \in Seq(Row) /\ r \in Seq(Row) /\ FrontOf(d, r) /\ Len(d) \in Nat /\ Len(r) \in Nat
        BY <2>1, <2>2
      <4> HIDE DEF d, r, e
      <4>2. Len(Append(r, e)) = Len(r) + 1 /\ \A k \in 1..Len(r) : Append(r, e)[k] = r[k]
        BY <4>1
      <4>3. FrontOf(d, Append(r, e))
        BY <4>1, <4>2 DEF FrontOf
      <4> QED
        BY <4>3 DEF d, r, e
    <3> QED
      BY <3>1, <3>2, <3>3
  <2>6. CASE Live(i) /\ y = Flushed(x)
    <3>1. y.disk.rows = x.rows /\ y.rows = x.rows
      BY <2>1, <2>6, FlushedTyped
    <3> QED
      BY <2>2, <2>4, <3>1
  <2>7. CASE y = Restarted(x)
    <3>1. y.disk.rows = x.disk.rows /\ y.rows = x.disk.rows
      BY <2>1, <2>7, RestartedTyped
    <3> QED
      BY <2>2, <2>4, <3>1
  <2>8. CASE \E c : y = [x EXCEPT !.cal = c]
    <3>1. y.rows = x.rows /\ y.disk = x.disk /\ y.gen = x.gen
      BY <2>1, <2>8 DEF IndexType
    <3> QED
      BY <2>3, <3>1
  <2>9. CASE y = [x EXCEPT !.live = FALSE]
    <3>1. y.rows = x.rows /\ y.disk = x.disk /\ y.gen = x.gen
      BY <2>1, <2>9 DEF IndexType
    <3> QED
      BY <2>3, <3>1
  <2>10. CASE y = x
    BY <2>3, <2>10
  <2> HIDE DEF Saved
  <2> QED
    BY <2>1, <2>5, <2>6, <2>7, <2>8, <2>9, <2>10 DEF IndexStep, x, y
<1>3. CASE Len(idx') = Len(idx)
  BY <1>1, <1>2, <1>3 DEF SavedInv
<1>4. ASSUME NEW p \in Proc, StagesIndex(p) PROVE SavedInv'
  <2>1. /\ Len(idx') = Len(idx) + 1 /\ idx'[Len(idx) + 1].gen = 0
        /\ idx'[Len(idx) + 1].disk.rows = <<>>
    BY <1>4, StagesIndexAppends
  <2>2. idx'[Len(idx) + 1] \in IndexType
    BY <1>1, <2>1, TypedNext, TypedFacts DEF Typed
  <2>3. Len(idx'[Len(idx) + 1].rows) \in Nat
    BY <2>2, RowsTyped
  <2>4. FrontOf(idx'[Len(idx) + 1].disk.rows, idx'[Len(idx) + 1].rows)
    BY <2>1, <2>3 DEF FrontOf
  <2>5. ASSUME NEW i \in 1..Len(idx') PROVE Saved(idx'[i], i)
    <3>1. i \in 1..Len(idx) \/ i = Len(idx) + 1
      BY <1>1, <2>1
    <3> QED
      BY <1>2, <2>1, <2>4, <3>1
  <2> QED
    BY <1>1, <2>1, <2>5 DEF SavedInv
<1> QED
  BY <1>3, <1>4, IndexFrame

\* A step shortens the rows of a shard that a task is moving, if it changes them,
\* and the rows of an index made by an import only when it takes the index away.
LEMMA RowsStep ==
  ASSUME Typed, SavedInv, [Next]_vars, NEW i \in 1..Len(idx)
  PROVE /\ Ingest = "quiesced" /\ Moving(i) => FrontOf(idx'[i].rows, idx[i].rows)
        /\ Made(i) /\ idx'[i].live => idx'[i].rows = idx[i].rows
<1> DEFINE x == idx[i]
           y == idx'[i]
<1>1. Len(FirstShards) \in Nat /\ DOMAIN FirstShards = 1..Len(FirstShards)
  BY BoundAssumption
<1>2. /\ x \in IndexType /\ IndexStep(i) /\ FrontOf(x.disk.rows, x.rows)
      /\ Made(i) /\ x.gen > 0 => x.disk.rows = x.rows
  BY TypedFacts, IndexFrame DEF SavedInv
<1>3. Len(x.rows) \in Nat
  BY <1>2, RowsTyped
<1>4. CASE y.rows = x.rows
  BY <1>3, <1>4 DEF FrontOf
<1>5. CASE AddRow(i)
  <2>1. ~Made(i) /\ (Ingest = "quiesced" => ~Moving(i))
    BY <1>1, <1>5 DEF AddRow, Labelled, Made
  <2> QED
    BY <2>1
<1>6. CASE y = Restarted(x)
  <2>1. y.rows = x.disk.rows /\ y.live = (x.live /\ x.gen > 0)
    BY <1>2, <1>6, RestartedTyped
  <2> QED
    BY <1>2, <2>1
<1>7. CASE y = Flushed(x)
  BY <1>2, <1>4, <1>7, FlushedTyped
<1>8. CASE (\E c : y = [x EXCEPT !.cal = c]) \/ y = [x EXCEPT !.live = FALSE]
  <2>1. y.rows = x.rows
    BY <1>2, <1>8 DEF IndexType
  <2> QED
    BY <1>4, <2>1
<1>9. CASE y = x
  BY <1>4, <1>9
<1> QED
  BY <1>2, <1>5, <1>6, <1>7, <1>8, <1>9 DEF IndexStep

\* Rows from+1..to of index i, as far as it still has them, are in index s.
Covers(x, s, i, from, to) ==
  x[s].live =>
    \A k \in (from + 1)..to : k <= Len(x[i].rows) => x[i].rows[k] \in ToSet(x[s].rows)

LEMMA CoversStays ==
  ASSUME Typed, SavedInv, [Next]_vars, Ingest = "quiesced",
         NEW i \in 1..Len(idx), Moving(i), NEW s \in 1..Len(idx), Made(s),
         NEW from \in Nat, NEW to \in Nat, Covers(idx, s, i, from, to)
  PROVE Covers(idx', s, i, from, to)
<1> SUFFICES ASSUME idx'[s].live, NEW k \in (from + 1)..to, k <= Len(idx'[i].rows)
             PROVE idx'[i].rows[k] \in ToSet(idx'[s].rows)
  BY DEF Covers
<1>1. idx[s].live /\ idx'[s].rows = idx[s].rows
  BY IndexesStay, RowsStep
<1>2. FrontOf(idx'[i].rows, idx[i].rows)
  BY RowsStep
<1>3. Len(idx[i].rows) \in Nat /\ Len(idx'[i].rows) \in Nat
  <2>1. i \in 1..Len(idx') /\ Typed'
    BY IndexesStay, TypedNext
  <2>2. idx'[i] \in IndexType
    BY <2>1 DEF Typed
  <2>3. idx[i] \in IndexType
    BY TypedFacts
  <2> QED
    BY <2>2, <2>3, RowsTyped
<1>4. k \in 1..Len(idx'[i].rows) /\ k <= Len(idx[i].rows)
  BY <1>2, <1>3 DEF FrontOf
<1>5. idx'[i].rows[k] = idx[i].rows[k]
  BY <1>2, <1>4 DEF FrontOf
<1>6. idx[i].rows[k] \in ToSet(idx[s].rows)
  BY <1>1, <1>4 DEF Covers
<1> QED
  BY <1>1, <1>5, <1>6

\* An import of one part holds its rows.
LEMMA StagedCovers ==
  ASSUME Typed, NEW p \in Proc, StagesIndex(p),
         NEW i \in 1..Len(idx), NEW start \in Nat, NEW count \in Nat,
         Head(proc[p].plan).parts = <<Part(i, start, count)>>
  PROVE Covers(idx', Len(idx) + 1, i, start, start + count)
<1> DEFINE part == Part(i, start, count)
           rows == idx[i].rows
           cut == SubSeq(rows, start + 1, start + count)
<1>1. DOMAIN <<part>> = 1..1 /\ <<part>>[1] = part
  OBVIOUS
<1>2. part.index = i /\ part.start = start /\ part.count = count
  BY DEF Part
<1>3. Served(part)
  BY SMTT(30), <1>1 DEF StagesIndex
<1>4. start + count <= Len(rows) /\ PartRows(part) = cut
  BY <1>2, <1>3 DEF Served, PartRows
<1>5. rows \in Seq(Row)
  BY TypedFacts, RowsTyped
<1>6. idx'[Len(idx) + 1].rows = cut
  <2> DEFINE seqs == [j \in DOMAIN <<part>> |-> PartRows(<<part>>[j])]
  <2>1. idx'[Len(idx) + 1].rows = FlattenSeq(seqs)
    BY StagesIndexAppends
  <2>2. seqs = [j \in 1..1 |-> PartRows(<<part>>[j])]
    BY <1>1
  <2>3. Len(seqs) = 1 /\ seqs[1] = cut
    BY <1>1, <1>4, <2>2
  <2> HIDE DEF seqs
  <2> QED
    BY <2>1, <2>3, FlattenOne
<1>7. idx'[i] = idx[i]
  BY StagesIndexAppends
<1> HIDE DEF rows
<1>8. ASSUME NEW k \in (start + 1)..(start + count)
      PROVE rows[k] \in ToSet(cut)
  <2>1. \A j \in (start + 1)..(start + count) : rows[j] \in Row
    BY <1>4, <1>5
  <2>2. Len(cut) = count /\ \A j \in 1..count : cut[j] = rows[start + j]
    BY <1>4, <1>5
  <2>3. DOMAIN cut = 1..count
    BY <1>4, <1>5
  <2>4. k - start \in 1..count /\ start + (k - start) = k
    OBVIOUS
  <2> HIDE DEF cut
  <2>5. cut[k - start] = rows[k]
    BY <2>2, <2>4
  <2> QED
    BY <2>3, <2>4, <2>5 DEF ToSet
<1> QED
  BY <1>6, <1>7, <1>8 DEF Covers, rows

Splitting == proc[Scaler].pc \in {"stage", "flush", "rebind", "commit"}

\* Task t has staged none, one or both of the halves of index i, cut at h, and
\* what it has not staged it still plans to.
Halved(t, x, i, h, n) ==
  /\ Len(x[i].rows) <= h + n
  /\ \/ /\ t.staged = <<>> /\ t.pc = "stage" /\ Len(t.plan) = 2
        /\ t.plan[1].parts = <<Part(i, 0, h)>> /\ t.plan[2].parts = <<Part(i, h, n)>>
     \/ /\ Len(t.staged) = 1 /\ t.pc = "stage" /\ Len(t.plan) = 1
        /\ t.plan[1].parts = <<Part(i, h, n)>>
        /\ Covers(x, t.staged[1], i, 0, h)
     \/ /\ Len(t.staged) = 2 /\ (t.pc = "stage" => t.plan = <<>>)
        /\ Covers(x, t.staged[1], i, 0, h) /\ Covers(x, t.staged[2], i, h, h + n)

SplitInv ==
  Splitting =>
    /\ \A j \in 1..Len(proc[Scaler].staged) : Made(proc[Scaler].staged[j])
    /\ \E i \in proc[Scaler].sources, h, n \in Nat : Halved(proc[Scaler], idx, i, h, n)

\* The indexes of a split stay halves of what is left of the shard.
LEMMA HalvedStays ==
  ASSUME Typed, SavedInv, [Next]_vars, Ingest = "quiesced",
         Splitting, NEW i \in proc[Scaler].sources, NEW h \in Nat, NEW n \in Nat,
         \A j \in 1..Len(proc[Scaler].staged) : Made(proc[Scaler].staged[j]),
         Halved(proc[Scaler], idx, i, h, n)
  PROVE /\ i \in 1..Len(idx) /\ Halved(proc[Scaler], idx', i, h, n)
<1>1. Scaler \in Proc
  BY DEF Proc
<1>2. i \in 1..Len(idx) /\ Moving(i)
  BY <1>1, TypedFacts DEF TaskType, Moving
<1>3. Len(idx'[i].rows) <= h + n
  <2>1. Len(idx'[i].rows) <= Len(idx[i].rows) /\ Len(idx[i].rows) <= h + n
    BY <1>2, RowsStep DEF FrontOf, Halved
  <2>2. Len(idx[i].rows) \in Nat /\ Len(idx'[i].rows) \in Nat
    <3>1. i \in 1..Len(idx') /\ Typed'
      BY <1>2, IndexesStay, TypedNext
    <3>2. idx'[i] \in IndexType
      BY <3>1 DEF Typed
    <3>3. idx[i] \in IndexType
      BY <1>2, TypedFacts
    <3> QED
      BY <3>2, <3>3, RowsTyped
  <2> QED
    BY <2>1, <2>2
<1>4. ASSUME NEW j \in 1..Len(proc[Scaler].staged), NEW from \in Nat, NEW to \in Nat,
             Covers(idx, proc[Scaler].staged[j], i, from, to)
      PROVE Covers(idx', proc[Scaler].staged[j], i, from, to)
  <2>1. PICK s \in 1..Len(idx) : s = proc[Scaler].staged[j]
    BY <1>1, StagedFacts
  <2>2. Made(s) /\ Covers(idx, s, i, from, to)
    BY <1>4, <2>1
  <2>3. Covers(idx', s, i, from, to)
    BY <1>2, <2>2, CoversStays
  <2> QED
    BY <2>1, <2>3
<1>5. 0 \in Nat /\ h + n \in Nat
  OBVIOUS
<1>6. Len(proc[Scaler].staged) = 1 => 1 \in 1..Len(proc[Scaler].staged)
  OBVIOUS
<1>7. Len(proc[Scaler].staged) = 2 =>
        1 \in 1..Len(proc[Scaler].staged) /\ 2 \in 1..Len(proc[Scaler].staged)
  OBVIOUS
<1> QED
  BY <1>2, <1>3, <1>4, <1>5, <1>6, <1>7 DEF Halved

LEMMA SplitNext ==
  ASSUME Typed, GenerationInv, PlanInv, SavedInv, SplitInv, [Next]_vars, Ingest = "quiesced"
  PROVE SplitInv'
<1>1. /\ Scaler \in Proc /\ Scaler \notin Searcher /\ Scaler \notin Admin
      /\ Len(idx) \in Nat /\ Len(FirstShards) \in Nat
  BY BoundAssumption, TypedFacts DEF Proc
\* The task stages nothing and ends no stage too early.
<1>2. ASSUME Splitting' => Splitting,
             proc'[Scaler].staged = proc[Scaler].staged, proc'[Scaler].sources = proc[Scaler].sources,
             Splitting' /\ proc'[Scaler].pc = "stage" =>
               proc[Scaler].pc = "stage" /\ proc'[Scaler].plan = proc[Scaler].plan,
             Splitting' /\ proc[Scaler].pc = "stage" =>
               proc'[Scaler].pc = "stage" \/ proc[Scaler].plan = <<>>
      PROVE SplitInv'
  <2> SUFFICES ASSUME Splitting'
               PROVE /\ \A j \in 1..Len(proc'[Scaler].staged) : Made(proc'[Scaler].staged[j])
                     /\ \E i \in proc'[Scaler].sources, h, n \in Nat :
                          Halved(proc'[Scaler], idx', i, h, n)
    BY DEF SplitInv, Made, Splitting
  <2>1. /\ \A j \in 1..Len(proc[Scaler].staged) : Made(proc[Scaler].staged[j])
        /\ \E i \in proc[Scaler].sources, h, n \in Nat : Halved(proc[Scaler], idx, i, h, n)
    BY <1>2 DEF SplitInv
  <2>2. PICK i \in proc[Scaler].sources, h \in Nat, n \in Nat : Halved(proc[Scaler], idx, i, h, n)
    BY <2>1
  <2>3. Halved(proc[Scaler], idx', i, h, n)
    BY <1>2, <2>1, <2>2, HalvedStays
  <2>4. proc'[Scaler].pc = "stage" \/ ~(proc[Scaler].pc = "stage") \/ proc[Scaler].plan = <<>>
    BY <1>2
  <2>5. Halved(proc'[Scaler], idx', i, h, n)
    <3>1. proc[Scaler].plan = <<>> => Len(proc[Scaler].plan) = 0
      OBVIOUS
    <3> QED
      BY <1>2, <2>3, <2>4, <3>1 DEF Halved
  <2> QED
    BY <1>2, <2>1, <2>5
<1>3. CASE proc'[Scaler] = proc[Scaler]
  BY <1>2, <1>3 DEF Splitting
<1>4. CASE ~Splitting'
  BY <1>4 DEF SplitInv, Splitting
<1>5. CASE OnlyTask(Scaler)
  <2>1. CASE proc'[Scaler] = Idle
    BY <1>4, <2>1 DEF Idle, Splitting
  <2>2. CASE Begins(Scaler)
    <3>1. CASE ~BeginsAuto(Scaler)
      BY <1>1, <1>4, <2>2, <3>1 DEF Begins, BeginsSearch, BeginsFit, BeginsMove, Splitting
    <3>2. CASE BeginsAuto(Scaler)
      <4> DEFINE t == proc'[Scaler]
      <4>1. PICK i \in 1..Len(idx), a \in Addr, b \in Addr :
              t.sources = {i} /\ t.plan = SplitPlan(i, <<a, b>>)
        <5>1. shards[t.at].index \in 1..Len(idx)
          BY <3>2, TypedFacts, TableFacts DEF BeginsAuto
        <5> QED
          BY <3>2, <5>1 DEF BeginsAuto
      <4>2. t.pc = "stage" /\ t.staged = <<>> /\ idx' = idx
        BY <2>2, <3>2 DEF BeginsAuto, Begins
      <4> DEFINE len == Len(idx[i].rows)
                 h == EvenStart(len, 2, 2)
                 n == EvenCount(len, 2, 2)
      <4>3. /\ len \in Nat /\ Len(t.plan) = 2
            /\ t.plan[1] = Import(a, <<Part(i, 0, h)>>)
            /\ t.plan[2] = Import(b, <<Part(i, h, n)>>)
        BY <4>1, SplitPlanIs
      <4>4. h \in Nat /\ n \in Nat /\ h + n = len
        BY <4>3, Halves
      <4> HIDE DEF h, n
      <4>5. t.plan[1].parts = <<Part(i, 0, h)>> /\ t.plan[2].parts = <<Part(i, h, n)>>
        BY <4>3 DEF Import
      <4>6. Halved(t, idx', i, h, n)
        BY <4>2, <4>3, <4>4, <4>5 DEF Halved
      <4>7. \A j \in 1..Len(t.staged) : Made(t.staged[j])
        BY <4>2
      <4> QED
        BY <4>1, <4>4, <4>6, <4>7 DEF SplitInv, Made
    <3> QED
      BY <3>1, <3>2
  <2>3. CASE StagesIndex(Scaler)
    <3> DEFINE t == proc[Scaler]
               u == proc'[Scaler]
               new == Len(idx) + 1
    <3>1. /\ t.pc = "stage" /\ u.pc = "stage" /\ t.plan # <<>> /\ u.plan = Tail(t.plan)
          /\ u.staged = Append(t.staged, new) /\ u.sources = t.sources
      BY <1>1, <2>3, StagesIndexTask
    <3>2. /\ \A j \in 1..Len(t.staged) : Made(t.staged[j])
          /\ \E i \in t.sources, h, n \in Nat : Halved(t, idx, i, h, n)
      BY <3>1 DEF SplitInv, Splitting
    <3>3. PICK i \in t.sources, h \in Nat, n \in Nat : Halved(t, idx, i, h, n)
      BY <3>2
    <3>4. i \in 1..Len(idx) /\ Halved(t, idx', i, h, n)
      BY <3>1, <3>2, <3>3, HalvedStays DEF Splitting
    <3>5. /\ Len(u.staged) = Len(t.staged) + 1 /\ u.staged[Len(t.staged) + 1] = new
          /\ \A j \in 1..Len(t.staged) : u.staged[j] = t.staged[j]
          /\ Len(t.staged) \in Nat
      <4>1. t.staged \in Seq(1..Len(idx))
        BY <1>1, TypedFacts DEF TaskType
      <4> QED
        BY <3>1, <4>1
    <3>6. Made(new)
      BY <1>1 DEF Made, SavedInv
    <3>7. ASSUME NEW j \in 1..Len(u.staged) PROVE Made(u.staged[j])
      <4>1. j \in 1..Len(t.staged) \/ j = Len(t.staged) + 1
        BY <3>5
      <4> QED
        BY <3>2, <3>5, <3>6, <4>1
    <3>8. Head(t.plan) = t.plan[1] /\ Len(u.plan) = Len(t.plan) - 1
          /\ (Len(t.plan) = 2 => u.plan[1] = t.plan[2])
          /\ (Len(t.plan) = 1 => u.plan = <<>>) /\ Len(t.plan) \in Nat
      <4> DEFINE plan == t.plan
      <4>1. plan \in Seq(ImportType(Len(idx))) /\ plan # <<>> /\ u.plan = Tail(plan)
        BY <1>1, <3>1, TypedFacts DEF TaskType
      <4> HIDE DEF plan, t, u
      <4>2. Len(plan) \in Nat /\ Len(plan) > 0 /\ Head(plan) = plan[1]
            /\ Len(Tail(plan)) = Len(plan) - 1
        BY <4>1
      <4>3. Len(plan) = 2 => Tail(plan)[1] = plan[2]
        <5>1. \A k \in 1..Len(Tail(plan)) : Tail(plan)[k] = plan[k + 1]
          BY <4>1, HeadTailProperties
        <5>2. Len(plan) = 2 => 1 \in 1..Len(Tail(plan)) /\ 1 + 1 = 2
          BY <4>2
        <5> QED
          BY <5>1, <5>2
      <4>4. Len(plan) = 1 => Tail(plan) = <<>>
        BY <4>1, <4>2
      <4> QED
        BY <4>1, <4>2, <4>3, <4>4 DEF plan
    <3>9. ASSUME NEW start \in Nat, NEW count \in Nat, t.plan[1].parts = <<Part(i, start, count)>>
          PROVE Covers(idx', new, i, start, start + count)
      BY <1>1, <2>3, <3>4, <3>8, <3>9, StagedCovers
    <3>10. CASE t.staged = <<>> /\ Len(t.plan) = 2
      <4>1. t.plan[1].parts = <<Part(i, 0, h)>> /\ t.plan[2].parts = <<Part(i, h, n)>>
        BY <3>4, <3>10 DEF Halved
      <4>2. Covers(idx', new, i, 0, h)
        <5>1. Covers(idx', new, i, 0, 0 + h)
          BY <3>9, <4>1
        <5> QED
          BY <5>1
      <4>3. Len(u.staged) = 1 /\ u.staged[1] = new /\ Len(u.plan) = 1
        BY <3>5, <3>8, <3>10
      <4>4. Halved(u, idx', i, h, n)
        BY <3>1, <3>4, <3>8, <3>10, <4>1, <4>2, <4>3 DEF Halved
      <4> QED
        BY <3>1, <3>7, <4>4 DEF SplitInv, Made
    <3>11. CASE Len(t.staged) = 1 /\ Len(t.plan) = 1
      <4>1. t.plan[1].parts = <<Part(i, h, n)>> /\ Covers(idx', t.staged[1], i, 0, h)
        <5>1. Len(<<>>) = 0 /\ 1 # 0 /\ 1 # 2
          OBVIOUS
        <5>2. t.staged # <<>> /\ Len(t.staged) # 2
          BY <3>11, <5>1
        <5> QED
          BY <3>4, <3>11, <5>2 DEF Halved
      <4>2. Covers(idx', new, i, h, h + n)
        BY <3>9, <4>1
      <4>3. Len(u.staged) = 2 /\ u.staged[1] = t.staged[1] /\ u.staged[2] = new /\ u.plan = <<>>
        BY <3>5, <3>8, <3>11
      <4>4. Halved(u, idx', i, h, n)
        BY <3>4, <4>1, <4>2, <4>3 DEF Halved
      <4> QED
        BY <3>1, <3>7, <4>4 DEF SplitInv, Made
    <3>12. CASE t.plan = <<>>
      BY <3>1, <3>12
    <3> QED
      BY <3>1, <3>4, <3>10, <3>11, <3>12 DEF Halved
  <2>4. CASE Fits(Scaler)
    BY <1>4, <2>4 DEF Fits, Splitting
  <2>5. CASE Flushes(Scaler) \/ Moves(Scaler)
    <3>1. proc'[Scaler].staged = proc[Scaler].staged /\ proc'[Scaler].sources = proc[Scaler].sources
      BY <2>5 DEF Flushes, Moves, Plans
    <3>2. /\ Splitting' => Splitting
          /\ proc'[Scaler].pc # "stage"
          /\ Splitting' /\ proc[Scaler].pc = "stage" => proc[Scaler].plan = <<>>
      BY <2>5 DEF Flushes, Moves, Splitting, PlanInv
    <3> QED
      BY <1>2, <3>1, <3>2
  <2> QED
    BY <1>5, <2>1, <2>2, <2>3, <2>4, <2>5 DEF OnlyTask, TaskStep
<1>6. ASSUME NEW p \in Proc, OnlyTask(p) PROVE SplitInv'
  BY <1>1, <1>3, <1>5, <1>6 DEF OnlyTask
<1>7. CASE TableStep
  <2>1. ASSUME NEW p \in Proc, PersistTable(p) PROVE SplitInv'
    <3>1. CASE p = Scaler
      BY <1>2, <2>1, <3>1, PersistTableTask DEF Splitting
    <3> QED
      BY <1>1, <1>3, <2>1, <3>1, PersistTableTask
  <2>2. ASSUME NEW p \in Proc, PersistTableFails(p) PROVE SplitInv'
    <3>1. CASE p = Scaler
      BY <1>4, <2>2, <3>1, PersistTableFailsTask DEF Splitting
    <3> QED
      BY <1>1, <1>3, <2>2, <3>1, PersistTableFailsTask
  <2>3. ASSUME NEW p \in Proc, CommitTable(p) PROVE SplitInv'
    <3>1. CASE p = Scaler
      BY <1>4, <2>3, <3>1, CommitTableTask DEF Splitting
    <3> QED
      BY <1>1, <1>3, <2>3, <3>1, CommitTableTask
  <2>4. ASSUME NEW a \in Addr, Register(a) \/ RegisterFails(a) \/ CommitSpare(a) PROVE SplitInv'
    BY <1>3, <2>4 DEF Register, RegisterFails, CommitSpare
  <2>5. CASE RestartCoordinator
    BY <1>1, <1>4, <2>5 DEF RestartCoordinator, Idle, Splitting
  <2> QED
    BY <1>7, <2>1, <2>2, <2>3, <2>4, <2>5 DEF TableStep
<1> QED
  BY <1>3, <1>6, <1>7, TasksFrame

\* What the autoscaler is about to publish is there, and flushed.
PublishInv ==
  proc[Scaler].pc \in {"rebind", "commit"} => \A s \in ToSet(proc[Scaler].staged) : Sound(s)

LEMMA PublishNext ==
  ASSUME Typed, PublishInv, [Next]_vars
  PROVE PublishInv'
<1>1. Scaler \in Proc /\ Scaler \notin Searcher /\ Scaler \notin Admin
  BY BoundAssumption DEF Proc
<1>2. ASSUME proc'[Scaler].pc \in {"rebind", "commit"} => proc[Scaler].pc \in {"rebind", "commit"},
             proc'[Scaler].staged = proc[Scaler].staged
      PROVE PublishInv'
  <2> SUFFICES ASSUME proc'[Scaler].pc \in {"rebind", "commit"}, NEW s \in ToSet(proc[Scaler].staged)
               PROVE Sound(s)'
    BY <1>2 DEF PublishInv
  <2>1. s \in 1..Len(idx) /\ Sound(s) /\ proc[Scaler].pc \in {"rebind", "commit"}
    BY <1>1, <1>2, StagedFacts DEF PublishInv
  <2>2. ~Dropped(s)
    BY <2>1 DEF Dropped, DropSource, Teardown, At
  <2> QED
    BY <2>1, <2>2, SoundStays
<1>3. CASE proc'[Scaler] = proc[Scaler]
  BY <1>2, <1>3
<1>4. CASE proc'[Scaler].pc \notin {"rebind", "commit"}
  BY <1>4 DEF PublishInv
<1>5. CASE OnlyTask(Scaler)
  <2>1. CASE proc'[Scaler] = Idle \/ Begins(Scaler) \/ StagesIndex(Scaler) \/ Fits(Scaler) \/ Moves(Scaler)
    <3>1. proc'[Scaler].pc \notin {"rebind", "commit"}
      BY SMTT(30), <1>1, <2>1, StagesIndexTask
         DEF Idle, Begins, BeginsSearch, BeginsFit, BeginsMove, BeginsAuto, Fits, Moves
    <3> QED
      BY <1>4, <3>1
  <2>2. CASE Flushes(Scaler)
    <3>1. proc'[Scaler].staged = proc[Scaler].staged
      BY <2>2 DEF Flushes, Plans
    <3>2. ASSUME NEW s \in ToSet(proc[Scaler].staged) PROVE Sound(s)'
      <4>1. s \in 1..Len(idx) /\ Live(s)
        <5>1. PICK j \in DOMAIN proc[Scaler].staged : s = proc[Scaler].staged[j]
          BY <1>1, StagedFacts
        <5>2. \A k \in DOMAIN proc[Scaler].staged : Live(proc[Scaler].staged[k])
          BY <2>2 DEF Flushes
        <5> QED
          BY <1>1, <5>1, <5>2, StagedFacts
      <4>2. idx'[s] = Flushed(idx[s]) /\ idx[s] \in IndexType
        BY <2>2, <4>1, TypedFacts DEF Flushes
      <4>3. idx'[s].live /\ idx'[s].gen = idx[s].gen + 1 /\ idx[s].gen \in Nat
        BY <4>1, <4>2, FlushedTyped DEF Live, IndexType
      <4> QED
        BY <4>3 DEF Sound, Live
    <3> QED
      BY <3>1, <3>2 DEF PublishInv
  <2> QED
    BY <1>5, <2>1, <2>2 DEF OnlyTask, TaskStep
<1>6. ASSUME NEW p \in Proc, OnlyTask(p) PROVE PublishInv'
  BY <1>1, <1>3, <1>5, <1>6 DEF OnlyTask
<1>7. CASE TableStep
  <2>1. ASSUME NEW p \in Proc, PersistTable(p) PROVE PublishInv'
    <3>1. CASE p = Scaler
      BY <1>2, <2>1, <3>1, PersistTableTask
    <3> QED
      BY <1>1, <1>3, <2>1, <3>1, PersistTableTask
  <2>2. ASSUME NEW p \in Proc, PersistTableFails(p) \/ CommitTable(p) PROVE PublishInv'
    <3>1. CASE p = Scaler
      BY <1>4, <2>2, <3>1, PersistTableFailsTask, CommitTableTask
    <3> QED
      BY <1>1, <1>3, <2>2, <3>1, PersistTableFailsTask, CommitTableTask
  <2>3. ASSUME NEW a \in Addr, Register(a) \/ RegisterFails(a) \/ CommitSpare(a) PROVE PublishInv'
    BY <1>3, <2>3 DEF Register, RegisterFails, CommitSpare
  <2>4. CASE RestartCoordinator
    BY <1>1, <1>4, <2>4 DEF RestartCoordinator, Idle
  <2> QED
    BY <1>7, <2>1, <2>2, <2>3, <2>4 DEF TableStep
<1> QED
  BY <1>3, <1>6, <1>7, TasksFrame

LEMMA SplitHolds ==
  ASSUME Ingest = "quiesced"
  PROVE Spec => [](/\ Typed /\ GenerationInv /\ PlanInv /\ ConfigsInv
                   /\ SavedInv /\ SplitInv /\ PublishInv)
<1>1. Init => SavedInv /\ SplitInv /\ PublishInv
  <2>1. Init => proc[Scaler].pc = "idle"
    BY DEF Init, Idle, Proc
  <2> QED
    BY <2>1, SavedInit DEF SplitInv, Splitting, PublishInv
<1>2. /\ Typed /\ GenerationInv /\ PlanInv /\ ConfigsInv /\ SavedInv /\ SplitInv /\ PublishInv
      /\ [Next]_vars
      => (SavedInv /\ SplitInv /\ PublishInv)'
  BY SavedNext, SplitNext, PublishNext
<1> QED
  BY <1>1, <1>2, PlanHolds, PTL DEF Spec

\* The table the autoscaler is about to publish has every row of the one it serves.
LEMMA SplitKeepsRows ==
  ASSUME Typed, PlanInv, ConfigsInv, SplitInv, PublishInv, proc[Scaler].pc = "commit"
  PROVE RowsOf(shards) \subseteq RowsOf(NewTable(Scaler))
<1> DEFINE t == proc[Scaler]
<1> SUFFICES ASSUME NEW i \in Members(shards), NEW r \in ToSet(idx[i].rows)
             PROVE \E s \in Members(NewTable(Scaler)) : r \in ToSet(idx[s].rows)
  BY DEF RowsOf
<1>1. Scaler \in Proc
  BY DEF Proc
<1>2. t.table = shards /\ t.sources = {shards[t.at].index}
  BY DEF PlanInv
<1>3. PICK j \in 1..Len(shards) : i = shards[j].index
  BY TypedFacts, TableFacts
<1>4. CASE j # t.at
  BY <1>1, <1>2, <1>3, <1>4, NewTableNames
<1>5. CASE j = t.at
  <2>1. PICK h \in Nat, n \in Nat : Halved(t, idx, i, h, n)
    BY <1>2, <1>3, <1>5 DEF SplitInv, Splitting
  <2>2. /\ Len(t.staged) = 2 /\ Len(idx[i].rows) <= h + n
        /\ Covers(idx, t.staged[1], i, 0, h) /\ Covers(idx, t.staged[2], i, h, h + n)
    BY <2>1 DEF Halved
  <2>3. /\ t.staged[1] \in ToSet(t.staged) /\ t.staged[2] \in ToSet(t.staged)
    <3>1. 1 \in 1..2 /\ 2 \in 1..2
      OBVIOUS
    <3> QED
      BY <1>1, <2>2, <3>1, StagedFacts
  <2>4. /\ idx[t.staged[1]].live /\ idx[t.staged[2]].live
        /\ t.staged[1] \in Members(NewTable(Scaler)) /\ t.staged[2] \in Members(NewTable(Scaler))
    BY <1>1, <2>3, NewTableNames DEF PublishInv, Sound, Live
  <2>5. i \in 1..Len(idx)
    BY TypedFacts, TableFacts
  <2>6. idx[i].rows \in Seq(Row) /\ Len(idx[i].rows) \in Nat
    BY <2>5, TypedFacts, RowsTyped
  <2>7. PICK k \in 1..Len(idx[i].rows) : r = idx[i].rows[k]
    BY <2>6 DEF ToSet
  <2>8. CASE k <= h
    <3>1. k \in (0 + 1)..h /\ k <= Len(idx[i].rows)
      BY <2>6, <2>7, <2>8
    <3> QED
      BY <2>2, <2>4, <2>7, <3>1 DEF Covers
  <2>9. CASE ~(k <= h)
    <3>1. k \in (h + 1)..(h + n) /\ k <= Len(idx[i].rows)
      BY <2>2, <2>6, <2>7, <2>9
    <3> QED
      BY <2>2, <2>4, <2>7, <3>1 DEF Covers
  <2> QED
    BY <2>6, <2>7, <2>8, <2>9
<1> QED
  BY <1>4, <1>5

\* "An operator Split or Join that lands mid-tick wins" (README.md): when the
\* autoscaler publishes, every row the collection held is still in it, whatever
\* else rebinds, fits, fails, restarts or adds rows elsewhere (split_shard_inner,
\* rebind_if_unchanged).  Rows added to the shard being split are the exception.
THEOREM AutosplitLosesNothing ==
  ASSUME Ingest = "quiesced"
  PROVE Spec => AutosplitKeepsRows
<1> DEFINE Step == At(Scaler, "commit") /\ generation' = generation + 1 =>
                     RowsOf(shards) \subseteq RowsOf(shards)'
<1>1. ASSUME Typed, GenerationInv, PlanInv, ConfigsInv, SplitInv, PublishInv, [Next]_vars
      PROVE [Step]_vars
  <2> SUFFICES ASSUME At(Scaler, "commit"), generation' = generation + 1
               PROVE RowsOf(shards) \subseteq RowsOf(shards)'
    OBVIOUS
  <2>1. /\ proc[Scaler].pc = "commit" /\ Scaler \in Proc /\ writer = Scaler
        /\ file.shards = NewTable(Scaler) /\ generation \in Nat
    BY <1>1, OtherFacts DEF At, Proc, GenerationInv, LockInv
  <2>2. ASSUME shards' = NewTable(Scaler), idx' = idx
        PROVE RowsOf(shards) \subseteq RowsOf(shards)'
    <3>1. RowsOf(shards)' = RowsOf(NewTable(Scaler))
      BY <2>2 DEF RowsOf, Members
    <3> QED
      BY <1>1, <2>1, <3>1, SplitKeepsRows
  <2>3. ASSUME NEW p \in Proc, CommitTable(p) PROVE RowsOf(shards) \subseteq RowsOf(shards)'
    <3>1. p = Scaler
      BY <1>1, <2>1, <2>3 DEF CommitTable, At, GenerationInv, LockInv
    <3>2. shards' = NewTable(Scaler) /\ idx' = idx
      BY <2>3, <3>1 DEF CommitTable
    <3> QED
      BY <2>2, <3>2
  <2>4. CASE RestartCoordinator
    <3>1. shards' = NewTable(Scaler) /\ idx' = idx
      BY <2>1, <2>4 DEF RestartCoordinator
    <3> QED
      BY <2>2, <3>1
  <2>5. generation' # generation
    BY <2>1
  <2>6. ~UNCHANGED tableVars
    BY <2>5 DEF tableVars
  <2>7. ASSUME NEW p \in Proc PROVE ~PersistTable(p) /\ ~PersistTableFails(p)
    BY <2>5 DEF PersistTable, PersistTableFails, topoVars
  <2>8. ASSUME NEW a \in Addr PROVE ~Register(a) /\ ~RegisterFails(a) /\ ~CommitSpare(a)
    BY <2>5 DEF Register, RegisterFails, CommitSpare, topoVars
  <2> QED
    BY <1>1, <2>3, <2>4, <2>6, <2>7, <2>8, TablesFrame DEF TableStep
<1> HIDE DEF Step
<1>2. Typed /\ GenerationInv /\ PlanInv /\ ConfigsInv /\ SplitInv /\ PublishInv /\ [Next]_vars
        => [Step]_vars
  BY <1>1
<1> QED
  BY <1>2, SplitHolds, PTL DEF Spec, AutosplitKeepsRows, Step

--------------------------------------------------------------------------------
(* Growing by the autoscaler alone.                                          *)

\* No other task moves rows or publishes a table.
OnlyAuto ==
  \A p \in Proc \ {Scaler} : proc[p].pc \in {"idle", "collect", "probe", "search", "drop"}

LEMMA OnlyAutoNext ==
  ASSUME Typed, OnlyAuto, Kinds \subseteq {"auto"}, [Next]_vars
  PROVE OnlyAuto'
<1> SUFFICES ASSUME NEW p \in Proc \ {Scaler}
             PROVE proc'[p].pc \in {"idle", "collect", "probe", "search", "drop"}
  BY DEF OnlyAuto
<1>1. proc[p].pc \in {"idle", "collect", "probe", "search", "drop"}
  BY DEF OnlyAuto
<1>2. CASE proc'[p] = proc[p]
  BY <1>1, <1>2
<1>3. CASE OnlyTask(p)
  <2>1. TaskStep(p) /\ ~StagesIndex(p)
    BY <1>1, <1>3 DEF OnlyTask, StagesIndex, At
  <2> QED
    BY <1>1, <2>1
       DEF TaskStep, Idle, Begins, BeginsSearch, BeginsFit, BeginsMove, BeginsAuto, Fits,
           Flushes, Moves
<1>4. CASE TableStep
  <2>1. ASSUME NEW q \in Proc, PersistTable(q) \/ PersistTableFails(q) \/ CommitTable(q)
        PROVE proc'[p] = proc[p]
    BY <1>1, <2>1, PersistTableTask, PersistTableFailsTask, CommitTableTask
  <2>2. ASSUME NEW a \in Addr, Register(a) \/ RegisterFails(a) \/ CommitSpare(a)
        PROVE proc'[p] = proc[p]
    BY <2>2 DEF Register, RegisterFails, CommitSpare
  <2>3. CASE RestartCoordinator
    BY <2>3 DEF RestartCoordinator, Idle
  <2> QED
    BY <1>2, <1>4, <2>1, <2>2, <2>3 DEF TableStep
<1> QED
  BY <1>2, <1>3, <1>4, TasksFrame DEF OnlyTask

\* No step takes a row out of what an index has saved.
LEMMA SavedGrows ==
  ASSUME Typed, SavedInv, [Next]_vars, NEW i \in 1..Len(idx)
  PROVE ToSet(idx[i].disk.rows) \subseteq ToSet(idx'[i].disk.rows)
<1> DEFINE x == idx[i]
           y == idx'[i]
<1>1. x \in IndexType /\ IndexStep(i) /\ FrontOf(x.disk.rows, x.rows)
  BY TypedFacts, IndexFrame DEF SavedInv
<1>2. CASE y.disk = x.disk
  BY <1>2
<1>3. CASE y = Flushed(x)
  <2>1. y.disk.rows = x.rows
    BY <1>1, <1>3, FlushedTyped
  <2>2. x.rows \in Seq(Row) /\ x.disk.rows \in Seq(Row)
    BY <1>1, RowsTyped
  <2> DEFINE d == x.disk.rows
             r == x.rows
  <2>3. d \in Seq(Row) /\ r \in Seq(Row) /\ FrontOf(d, r)
    BY <1>1, <2>2
  <2> HIDE DEF d, r
  <2>4. ASSUME NEW k \in DOMAIN d PROVE d[k] \in ToSet(r)
    <3>1. k \in 1..Len(d) /\ k \in DOMAIN r /\ d[k] = r[k]
      BY <2>3 DEF FrontOf
    <3> QED
      BY <3>1 DEF ToSet
  <2>5. ToSet(d) \subseteq ToSet(r)
    BY <2>4 DEF ToSet
  <2> QED
    BY <2>1, <2>5 DEF d, r
<1>4. CASE y = Restarted(x)
  BY <1>1, <1>2, <1>4, RestartedTyped
<1>5. CASE \/ \E c : y = [x EXCEPT !.cal = c]
           \/ y = [x EXCEPT !.live = FALSE]
           \/ \E r : y = [x EXCEPT !.rows = r]
  <2>1. y.disk = x.disk
    BY <1>1, <1>5 DEF IndexType
  <2> QED
    BY <1>2, <2>1
<1>6. CASE y = x
  BY <1>2, <1>6
<1> QED
  BY <1>1, <1>3, <1>4, <1>5, <1>6 DEF IndexStep

\* The table the autoscaler is about to publish has saved every row that the one
\* it serves has saved.
LEMMA SplitKeepsSaved ==
  ASSUME Typed, PlanInv, ConfigsInv, SavedInv, SplitInv, PublishInv, proc[Scaler].pc = "commit"
  PROVE SavedRows(shards) \subseteq SavedRows(NewTable(Scaler))
<1> DEFINE t == proc[Scaler]
<1> SUFFICES ASSUME NEW i \in Members(shards), Live(i), NEW r \in ToSet(idx[i].disk.rows)
             PROVE \E s \in Members(NewTable(Scaler)) : Live(s) /\ r \in ToSet(idx[s].disk.rows)
  BY DEF SavedRows
<1>1. Scaler \in Proc
  BY DEF Proc
<1>2. t.table = shards /\ t.sources = {shards[t.at].index} /\ t.at \in 1..Len(shards)
  BY DEF PlanInv
<1>3. PICK j \in 1..Len(shards) : i = shards[j].index
  BY TypedFacts, TableFacts
<1>4. CASE j # t.at
  BY <1>1, <1>2, <1>3, <1>4, NewTableNames
<1>5. CASE j = t.at
  <2>1. i \in 1..Len(idx)
    BY TypedFacts, TableFacts
  <2>2. /\ idx[i].rows \in Seq(Row) /\ idx[i].disk.rows \in Seq(Row)
        /\ FrontOf(idx[i].disk.rows, idx[i].rows)
    BY <2>1, TypedFacts, RowsTyped DEF SavedInv
  <2>3. PICK k \in 1..Len(idx[i].disk.rows) : r = idx[i].disk.rows[k]
    BY <2>2 DEF ToSet
  <2>4. k \in 1..Len(idx[i].rows) /\ r = idx[i].rows[k]
    BY <2>2, <2>3 DEF FrontOf
  <2>5. PICK h \in Nat, n \in Nat : Halved(t, idx, i, h, n)
    BY <1>2, <1>3, <1>5 DEF SplitInv, Splitting
  <2>6. /\ Len(t.staged) = 2 /\ Len(idx[i].rows) <= h + n
        /\ Covers(idx, t.staged[1], i, 0, h) /\ Covers(idx, t.staged[2], i, h, h + n)
        /\ \A m \in 1..Len(t.staged) : Made(t.staged[m])
    BY <2>5 DEF Halved, SplitInv, Splitting
  <2>7. ASSUME NEW m \in 1..2
        PROVE /\ Live(t.staged[m]) /\ t.staged[m] \in Members(NewTable(Scaler))
              /\ idx[t.staged[m]].disk.rows = idx[t.staged[m]].rows
    <3>1. t.staged[m] \in ToSet(t.staged) /\ t.staged[m] \in 1..Len(idx) /\ Made(t.staged[m])
      BY <1>1, <2>6, StagedFacts
    <3>2. Sound(t.staged[m])
      BY <3>1 DEF PublishInv
    <3> QED
      BY <1>1, <3>1, <3>2, NewTableNames DEF SavedInv, Sound
  <2>8. \E m \in 1..2 : r \in ToSet(idx[t.staged[m]].rows)
    <3>1. 1 \in 1..2 /\ 2 \in 1..2
      OBVIOUS
    <3>2. idx[t.staged[1]].live /\ idx[t.staged[2]].live
      BY <2>7, <3>1 DEF Live
    <3>3. CASE k <= h
      <4>1. k \in (0 + 1)..h /\ k <= Len(idx[i].rows)
        BY <2>2, <2>4, <3>3
      <4> QED
        BY <2>4, <2>6, <3>1, <3>2, <4>1 DEF Covers
    <3>4. CASE ~(k <= h)
      <4>1. k \in (h + 1)..(h + n) /\ k <= Len(idx[i].rows)
        BY <2>2, <2>4, <2>6, <3>4
      <4> QED
        BY <2>4, <2>6, <3>1, <3>2, <4>1 DEF Covers
    <3> QED
      BY <3>3, <3>4
  <2> QED
    BY <2>7, <2>8
<1> QED
  BY <1>4, <1>5

\* The autoscaler alone has no fit beside it.
LEMMA OnlyAutoApart ==
  ASSUME Typed, OnlyAuto
  PROVE FitsApart
<1> SUFFICES ASSUME NEW p \in Proc, Fitting(p) PROVE FALSE
  BY DEF FitsApart
<1>1. p # Scaler
  BY DEF Typed, TaskOK, Fitting
<1> QED
  BY <1>1 DEF OnlyAuto, Fitting

LEMMA SavedRowsStep ==
  ASSUME Typed, GenerationInv, PlanInv, ConfigsInv, NamedInv, OwnInv, SavedInv, SplitInv,
         PublishInv, VisibleInv, OnlyAuto, ~Faults, [Next]_vars
  PROVE SavedRows(shards) \subseteq SavedRows(shards)'
<1>1. ASSUME shards' = shards PROVE SavedRows(shards) \subseteq SavedRows(shards)'
  <2> SUFFICES ASSUME NEW i \in Members(shards), Live(i), NEW r \in ToSet(idx[i].disk.rows)
               PROVE Live(i)' /\ r \in ToSet(idx'[i].disk.rows)
    BY <1>1 DEF SavedRows, Members
  <2>1. i \in 1..Len(idx) /\ Named(i)
    BY TablesNamed DEF Named
  <2>2. Sound(i)'
    BY <2>1, OnlyAutoApart, OwnKeeps, SoundStays DEF NamedInv
  <2> QED
    BY <2>1, <2>2, SavedGrows DEF Sound
<1>2. ASSUME shards' = NewTable(Scaler), idx' = idx, proc[Scaler].pc = "commit"
      PROVE SavedRows(shards) \subseteq SavedRows(shards)'
  <2>1. SavedRows(shards)' = SavedRows(NewTable(Scaler))
    BY <1>2 DEF SavedRows, Members, Live
  <2> QED
    BY <1>2, <2>1, SplitKeepsSaved
<1>3. ASSUME NEW p \in Proc, proc[p].pc = "commit" PROVE p = Scaler
  BY <1>3 DEF OnlyAuto
<1>4. ASSUME NEW p \in Proc, CommitTable(p) PROVE SavedRows(shards) \subseteq SavedRows(shards)'
  <2>1. p = Scaler /\ proc[Scaler].pc = "commit"
    BY <1>3, <1>4 DEF CommitTable, At
  <2>2. shards' = NewTable(Scaler) /\ idx' = idx
    BY <1>4, <2>1 DEF CommitTable
  <2> QED
    BY <1>2, <2>1, <2>2
<1>5. CASE RestartCoordinator
  <2>1. shards' = file.shards /\ idx' = idx
    BY <1>5 DEF RestartCoordinator
  <2>2. CASE writer = Free \/ writer \in Addr
    BY <1>1, <2>1, <2>2 DEF VisibleInv
  <2>3. CASE writer \in Proc
    <3>1. proc[writer].pc = "commit" /\ file.shards = NewTable(writer)
      BY <2>3 DEF GenerationInv, LockInv
    <3>2. writer = Scaler
      BY <1>3, <2>3, <3>1
    <3> QED
      BY <1>2, <2>1, <3>1, <3>2
  <2> QED
    BY <2>2, <2>3, OtherFacts
<1>6. CASE UNCHANGED tableVars
  BY <1>1, <1>6 DEF tableVars
<1>7. ASSUME NEW p \in Proc, PersistTable(p) \/ PersistTableFails(p)
      PROVE SavedRows(shards) \subseteq SavedRows(shards)'
  BY <1>1, <1>7 DEF PersistTable, PersistTableFails, topoVars
<1>8. ASSUME NEW a \in Addr, Register(a) \/ RegisterFails(a) \/ CommitSpare(a)
      PROVE SavedRows(shards) \subseteq SavedRows(shards)'
  BY <1>1, <1>8 DEF Register, RegisterFails, CommitSpare, topoVars
<1> QED
  BY <1>4, <1>5, <1>6, <1>7, <1>8, TablesFrame DEF TableStep

\* Growing by the autoscaler never costs a saved row: what a flush has saved of the
\* serving collection stays in it, across splits, drops of their sources, abandoned
\* splits, registrations and restarts of nodes and coordinator (autoscale_tick,
\* split_shard_inner, drop_staged).  This is so when nobody else changes the table,
\* neither the state file nor a flush for a split fails, and clients leave a shard
\* alone while its rows move, which autoscale.rs does not see to.
THEOREM GrowingKeepsSavedRows ==
  ASSUME Kinds \subseteq {"auto"}, ~Faults, Ingest = "quiesced"
  PROVE Spec => SavedRowsStay
<1>1. Init => VisibleInv /\ OnlyAuto
  <2>1. Init => OnlyAuto
    BY DEF Init, Idle, OnlyAuto
  <2> QED
    BY <2>1, VisibleInit
<1>2. Typed /\ VisibleInv /\ OnlyAuto /\ [Next]_vars => (VisibleInv /\ OnlyAuto)'
  BY VisibleNext, OnlyAutoNext
<1>3. Typed /\ GenerationInv /\ PlanInv /\ ConfigsInv /\ NamedInv /\ OwnInv /\ SavedInv
      /\ SplitInv /\ PublishInv /\ VisibleInv /\ OnlyAuto /\ [Next]_vars
        => [SavedRows(shards) \subseteq SavedRows(shards)']_vars
  BY SavedRowsStep
<1>4. Typed /\ OnlyAuto => FitsApart
  BY OnlyAutoApart
<1>5. Spec => [](Typed /\ GenerationInv /\ PlanInv /\ ConfigsInv /\ NamedInv /\ OwnInv)
  BY <1>1, <1>2, <1>4, TopologyTyped, OwnHolds, PTL DEF Spec
<1>6. Spec => [](Typed /\ GenerationInv /\ PlanInv /\ ConfigsInv /\ SavedInv /\ SplitInv
                 /\ PublishInv)
  BY SplitHolds, PTL
<1> QED
  BY <1>1, <1>2, <1>3, <1>5, <1>6, PTL DEF Spec, SavedRowsStay

--------------------------------------------------------------------------------
(* Every row once.                                                           *)

\* No value twice in the sequences of seqs, nor in two of them.
AllDistinct(seqs) ==
  /\ \A j \in 1..Len(seqs) : Distinct(seqs[j])
  /\ \A j, n \in 1..Len(seqs) : j # n =>
       \A a \in 1..Len(seqs[j]), b \in 1..Len(seqs[n]) : seqs[j][a] # seqs[n][b]

LEMMA FlattenRows ==
  ASSUME NEW S, NEW seqs \in Seq(Seq(S)), seqs # <<>>
  PROVE /\ \A k \in 1..Len(FlattenSeq(seqs)) : \E j \in 1..Len(seqs) :
             \E m \in 1..Len(seqs[j]) : FlattenSeq(seqs)[k] = seqs[j][m]
        /\ AllDistinct(seqs) => Distinct(FlattenSeq(seqs))
<1> DEFINE N == Len(seqs)
<1>1. N \in Nat /\ N > 0 /\ \A j \in 1..N : seqs[j] \in Seq(S) /\ Len(seqs[j]) \in Nat
  OBVIOUS
<1>2. PICK f \in [1..N -> Seq(S)] :
        /\ FlattenSeq(seqs) = f[N] /\ f[1] = seqs[1]
        /\ \A i \in 2..N : f[i] = f[i - 1] \o seqs[i]
  BY FlattenSteps
<1> HIDE DEF N
<1> DEFINE From(n) == \A k \in 1..Len(f[n]) : \E j \in 1..n :
                        \E m \in 1..Len(seqs[j]) : f[n][k] = seqs[j][m]
           Good(n) == From(n) /\ (AllDistinct(seqs) => Distinct(f[n]))
<1>3. Good(1)
  BY <1>1, <1>2 DEF AllDistinct, N
<1>4. ASSUME NEW n \in 1..N, n < N, Good(n) PROVE Good(n + 1)
  <2> DEFINE s == f[n]
             t == seqs[n + 1]
             u == f[n + 1]
  <2>1. s \in Seq(S) /\ t \in Seq(S) /\ n + 1 \in 1..N /\ n + 1 \in 2..N /\ n \in Nat
    BY <1>1, <1>2, <1>4
  <2>2. u = s \o t
    <3>1. (n + 1) - 1 = n
      BY <2>1
    <3> QED
      BY <1>2, <2>1, <3>1
  <2> HIDE DEF s, t, u
  <2>3. /\ Len(s) \in Nat /\ Len(t) \in Nat /\ Len(u) = Len(s) + Len(t)
        /\ \A k \in 1..Len(s) : u[k] = s[k]
        /\ \A k \in 1..Len(t) : u[Len(s) + k] = t[k]
    BY <2>1, <2>2
  <2>4. ASSUME NEW k \in 1..Len(u)
        PROVE k \in 1..Len(s) \/ (k - Len(s) \in 1..Len(t) /\ Len(s) + (k - Len(s)) = k)
    BY <2>3
  <2>5. From(n + 1)
    <3> SUFFICES ASSUME NEW k \in 1..Len(u)
                 PROVE \E j \in 1..(n + 1) : \E m \in 1..Len(seqs[j]) : u[k] = seqs[j][m]
      BY DEF u
    <3>1. CASE k \in 1..Len(s)
      <4>1. PICK j \in 1..n : \E m \in 1..Len(seqs[j]) : s[k] = seqs[j][m]
        BY <1>4, <3>1 DEF s
      <4>2. j \in 1..(n + 1) /\ u[k] = s[k]
        BY <2>1, <2>3, <3>1
      <4> QED
        BY <4>1, <4>2
    <3>2. CASE k - Len(s) \in 1..Len(t) /\ Len(s) + (k - Len(s)) = k
      <4>1. PICK m \in 1..Len(t) : Len(s) + m = k
        BY <3>2
      <4>2. u[k] = t[m]
        BY <2>3, <4>1
      <4>3. n + 1 \in 1..(n + 1)
        BY <2>1
      <4> QED
        BY <4>2, <4>3 DEF t
    <3> QED
      BY <2>4, <3>1, <3>2
  <2>6. ASSUME AllDistinct(seqs), NEW k \in 1..Len(s), NEW m \in 1..Len(t) PROVE s[k] # t[m]
    <3>1. PICK j \in 1..n : \E a \in 1..Len(seqs[j]) : s[k] = seqs[j][a]
      BY <1>4 DEF s
    <3>2. j \in 1..N /\ n + 1 \in 1..N /\ j # n + 1
      BY <1>1, <2>1
    <3> QED
      BY <2>6, <3>1, <3>2 DEF AllDistinct, t, N
  <2>7. ASSUME AllDistinct(seqs) PROVE Distinct(u)
    <3>1. Distinct(s) /\ Distinct(t)
      BY <1>4, <2>1, <2>7 DEF AllDistinct, s, t, N
    <3> SUFFICES ASSUME NEW k \in 1..Len(u), NEW m \in 1..Len(u), u[k] = u[m] PROVE k = m
      BY DEF Distinct
    <3>2. CASE k \in 1..Len(s) /\ m \in 1..Len(s)
      BY <2>3, <3>1, <3>2 DEF Distinct
    <3>3. CASE k \in 1..Len(s) /\ m - Len(s) \in 1..Len(t) /\ Len(s) + (m - Len(s)) = m
      <4>1. u[k] = s[k] /\ u[m] = t[m - Len(s)]
        BY <2>3, <3>3
      <4> QED
        BY <2>6, <2>7, <3>3, <4>1
    <3>4. CASE m \in 1..Len(s) /\ k - Len(s) \in 1..Len(t) /\ Len(s) + (k - Len(s)) = k
      <4>1. u[m] = s[m] /\ u[k] = t[k - Len(s)]
        BY <2>3, <3>4
      <4> QED
        BY <2>6, <2>7, <3>4, <4>1
    <3>5. CASE /\ m - Len(s) \in 1..Len(t) /\ Len(s) + (m - Len(s)) = m
               /\ k - Len(s) \in 1..Len(t) /\ Len(s) + (k - Len(s)) = k
      <4>1. u[m] = t[m - Len(s)] /\ u[k] = t[k - Len(s)]
        BY <2>3, <3>5
      <4>2. m - Len(s) = k - Len(s)
        BY <3>1, <3>5, <4>1 DEF Distinct
      <4> QED
        BY <2>3, <3>5, <4>2
    <3> QED
      BY <2>4, <3>2, <3>3, <3>4, <3>5
  <2> QED
    BY <2>5, <2>7 DEF u
<1> HIDE DEF Good
<1>5. Good(N)
  <2> DEFINE Bad == {n \in 1..N : ~Good(n)}
  <2> SUFFICES ASSUME Bad # {} PROVE FALSE
    BY <1>1 DEF N
  <2>1. PICK m \in Bad : \A k \in Bad : m <= k
    <3> Bad \in SUBSET Nat
      BY <1>1 DEF N
    <3> QED BY LeastElement
  <2>2. m \in 1..N /\ m # 1 /\ ~Good(m) /\ N \in Nat
    BY <1>1, <1>3, <2>1 DEF N
  <2>3. m - 1 \in 1..N /\ m - 1 < N /\ m - 1 < m /\ (m - 1) + 1 = m
    BY <2>2
  <2>4. Good(m - 1)
    BY <2>1, <2>3
  <2>5. Good((m - 1) + 1)
    BY <1>4, <2>3, <2>4
  <2> QED
    BY <2>2, <2>3, <2>5
<1> QED
  BY <1>2, <1>5 DEF Good, N

\* Two rows at different places differ.
RowsApart(x, i, j) ==
  /\ i # j
  /\ \A a \in 1..Len(x[i].rows), b \in 1..Len(x[j].rows) : x[i].rows[a] # x[j].rows[b]

TableApart(x, table) ==
  \A j, k \in 1..Len(table) : j # k => RowsApart(x, table[j].index, table[k].index)

EachDistinct(x) == \A i \in 1..Len(x) : Distinct(x[i].rows)

\* A row that a client adds is new.
Fresh ==
  \A i \in 1..Len(idx) : \A a \in 1..Len(idx[i].rows), k \in Nat :
    idx[i].rows[a] = <<0, k>> => k <= ingested

Old(i, a) == a \in 1..Len(idx[i].rows) /\ idx'[i].rows[a] = idx[i].rows[a]

LEMMA RowsKeepOrGrow ==
  ASSUME Typed, SavedInv, [Next]_vars
  PROVE \E n \in 0..Len(idx) : \A i \in 1..Len(idx) : \A a \in 1..Len(idx'[i].rows) :
          \/ Old(i, a)
          \/ /\ i = n /\ a = Len(idx[i].rows) + 1
             /\ idx'[i].rows[a] = <<0, ingested + 1>> /\ ingested' = ingested + 1
<1>1. Len(idx) \in Nat
  BY TypedFacts
<1>2. ASSUME NEW i \in 1..Len(idx), ~AddRow(i), NEW a \in 1..Len(idx'[i].rows)
      PROVE Old(i, a)
  <2> DEFINE x == idx[i]
             y == idx'[i]
  <2>1. /\ x \in IndexType /\ IndexStep(i) /\ FrontOf(x.disk.rows, x.rows)
        /\ Len(x.rows) \in Nat /\ Len(x.disk.rows) \in Nat
    BY TypedFacts, IndexFrame, RowsTyped DEF SavedInv
  <2>2. CASE y.rows = x.rows
    BY <2>2 DEF Old
  <2>3. CASE y = Restarted(x)
    <3>1. y.rows = x.disk.rows
      BY <2>1, <2>3, RestartedTyped
    <3>2. a \in 1..Len(x.disk.rows) /\ a \in 1..Len(x.rows)
      BY <2>1, <3>1 DEF FrontOf
    <3> QED
      BY <2>1, <3>1, <3>2 DEF FrontOf, Old
  <2>4. CASE y = Flushed(x)
    BY <2>1, <2>2, <2>4, FlushedTyped
  <2>5. CASE (\E c : y = [x EXCEPT !.cal = c]) \/ y = [x EXCEPT !.live = FALSE]
    <3>1. y.rows = x.rows
      BY <2>1, <2>5 DEF IndexType
    <3> QED
      BY <2>2, <3>1
  <2>6. CASE y = x
    BY <2>2, <2>6
  <2> QED
    BY <1>2, <2>1, <2>3, <2>4, <2>5, <2>6 DEF IndexStep
<1>3. CASE \A i \in 1..Len(idx) : ~AddRow(i)
  <2>1. 0 \in 0..Len(idx)
    BY <1>1
  <2> QED
    BY <1>2, <1>3, <2>1
<1>4. ASSUME NEW n \in 1..Len(idx), AddRow(n)
      PROVE \A i \in 1..Len(idx) : \A a \in 1..Len(idx'[i].rows) :
              \/ Old(i, a)
              \/ /\ i = n /\ a = Len(idx[i].rows) + 1
                 /\ idx'[i].rows[a] = <<0, ingested + 1>> /\ ingested' = ingested + 1
  <2> DEFINE r == idx[n].rows
             e == <<0, ingested + 1>>
  <2>1. idx' = [idx EXCEPT ![n] = [idx[n] EXCEPT !.rows = Append(r, e)]]
    BY <1>4 DEF AddRow
  <2>2. idx[n] \in IndexType /\ idx \in [1..Len(idx) -> IndexType] /\ ingested' = ingested + 1
    BY <1>4, TypedFacts, OtherFacts DEF AddRow
  <2>3. idx'[n].rows = Append(r, e) /\ \A i \in 1..Len(idx) : i # n => idx'[i] = idx[i]
    BY <2>1, <2>2 DEF IndexType
  <2>4. r \in Seq(Row)
    BY <2>2, RowsTyped
  <2> HIDE DEF r, e
  <2>5. Len(r) \in Nat /\ Len(Append(r, e)) = Len(r) + 1 /\ Append(r, e)[Len(r) + 1] = e
        /\ \A a \in 1..Len(r) : Append(r, e)[a] = r[a]
    BY <2>4
  <2>6. ASSUME NEW i \in 1..Len(idx), NEW a \in 1..Len(idx'[i].rows)
        PROVE \/ Old(i, a)
              \/ /\ i = n /\ a = Len(idx[i].rows) + 1
                 /\ idx'[i].rows[a] = <<0, ingested + 1>> /\ ingested' = ingested + 1
    <3>1. CASE i # n
      BY <2>3, <3>1 DEF Old
    <3>2. CASE i = n
      <4>1. a \in 1..Len(r) \/ a = Len(r) + 1
        BY <2>3, <2>5, <3>2
      <4>2. CASE a \in 1..Len(r)
        BY <2>3, <2>5, <3>2, <4>2 DEF Old, r
      <4>3. CASE a = Len(r) + 1
        BY <2>2, <2>3, <2>5, <3>2, <4>3 DEF r, e
      <4> QED
        BY <4>1, <4>2, <4>3
    <3> QED
      BY <3>1, <3>2
  <2> QED
    BY <2>6
<1>5. \A n \in 1..Len(idx) : n \in 0..Len(idx)
  BY <1>1
<1> QED
  BY <1>3, <1>4, <1>5

\* Two rows at different places differ after a step, or are two old rows.
LEMMA StillDiffer ==
  ASSUME Typed, SavedInv, Fresh, [Next]_vars,
         NEW i \in 1..Len(idx), NEW j \in 1..Len(idx),
         NEW a \in 1..Len(idx'[i].rows), NEW b \in 1..Len(idx'[j].rows), i # j \/ a # b
  PROVE idx'[i].rows[a] # idx'[j].rows[b] \/ (Old(i, a) /\ Old(j, b))
<1>1. PICK n \in 0..Len(idx) : \A k \in 1..Len(idx) : \A c \in 1..Len(idx'[k].rows) :
          \/ Old(k, c)
          \/ /\ k = n /\ c = Len(idx[k].rows) + 1
             /\ idx'[k].rows[c] = <<0, ingested + 1>> /\ ingested' = ingested + 1
  BY RowsKeepOrGrow
<1>2. ingested \in Nat /\ ingested + 1 \in Nat /\ ~(ingested + 1 <= ingested)
  BY OtherFacts
<1>3. ASSUME NEW k \in 1..Len(idx), NEW c, Old(k, c)
      PROVE idx'[k].rows[c] # <<0, ingested + 1>>
  <2> SUFFICES ASSUME idx[k].rows[c] = <<0, ingested + 1>> PROVE FALSE
    BY <1>3 DEF Old
  <2>1. c \in 1..Len(idx[k].rows)
    BY <1>3 DEF Old
  <2>2. ingested + 1 <= ingested
    BY <1>2, <2>1 DEF Fresh
  <2> QED
    BY <1>2, <2>2
<1>4. CASE Old(i, a) /\ ~Old(j, b)
  <2>1. idx'[j].rows[b] = <<0, ingested + 1>>
    BY <1>1, <1>4
  <2>2. idx'[i].rows[a] # <<0, ingested + 1>>
    BY <1>3, <1>4
  <2> QED
    BY <2>1, <2>2
<1>5. CASE ~Old(i, a) /\ Old(j, b)
  <2>1. idx'[i].rows[a] = <<0, ingested + 1>>
    BY <1>1, <1>5
  <2>2. idx'[j].rows[b] # <<0, ingested + 1>>
    BY <1>3, <1>5
  <2> QED
    BY <2>1, <2>2
<1>6. CASE ~Old(i, a) /\ ~Old(j, b)
  BY <1>1, <1>6
<1> QED
  BY <1>4, <1>5, <1>6

LEMMA ApartStays ==
  ASSUME Typed, SavedInv, Fresh, [Next]_vars, NEW i \in 1..Len(idx), NEW j \in 1..Len(idx),
         RowsApart(idx, i, j)
  PROVE RowsApart(idx', i, j)
BY StillDiffer DEF RowsApart, Old

LEMMA TableApartStays ==
  ASSUME Typed, SavedInv, Fresh, [Next]_vars, NEW table \in Table(Len(idx)),
         TableApart(idx, table)
  PROVE TableApart(idx', table)
BY ApartStays, TypedFacts, TableFacts DEF TableApart

LEMMA DistinctStays ==
  ASSUME Typed, SavedInv, Fresh, [Next]_vars, NEW i \in 1..Len(idx), Distinct(idx[i].rows)
  PROVE Distinct(idx'[i].rows)
BY StillDiffer DEF Distinct, Old

--------------------------------------------------------------------------------
(* Rows that an import is about to copy.                                     *)

\* No row of the part is in index s, ...
Clear(x, s, part) ==
  /\ part.index # s
  /\ \A k \in (part.start + 1)..(part.start + part.count), a \in 1..Len(x[s].rows) :
       k <= Len(x[part.index].rows) => x[part.index].rows[k] # x[s].rows[a]

\* ... nor in the other part.
PartsApart(x, c, d) ==
  \/ RowsApart(x, c.index, d.index)
  \/ c.index = d.index /\ (c.start + c.count <= d.start \/ d.start + d.count <= c.start)

LEMMA ClearStays ==
  ASSUME Typed, SavedInv, Fresh, [Next]_vars, NEW s \in 1..Len(idx),
         NEW part \in PartType(Len(idx)), Clear(idx, s, part)
  PROVE Clear(idx', s, part)
<1> SUFFICES ASSUME NEW k \in (part.start + 1)..(part.start + part.count),
                    NEW a \in 1..Len(idx'[s].rows), k <= Len(idx'[part.index].rows)
             PROVE idx'[part.index].rows[k] # idx'[s].rows[a]
  BY DEF Clear
<1>1. part.index \in 1..Len(idx) /\ part.start \in Nat /\ part.index # s
  BY DEF PartType, Clear
<1>2. k \in 1..Len(idx'[part.index].rows)
  <2>1. part.index \in 1..Len(idx') /\ Typed'
    BY <1>1, IndexesStay, TypedNext
  <2>2. idx'[part.index] \in IndexType
    BY <2>1 DEF Typed
  <2>3. Len(idx'[part.index].rows) \in Nat
    BY <2>2, RowsTyped
  <2> QED
    BY <1>1, <2>3
<1>3. CASE Old(part.index, k) /\ Old(s, a)
  <2>1. k <= Len(idx[part.index].rows)
    BY <1>3 DEF Old
  <2> QED
    BY <1>3, <2>1 DEF Old, Clear
<1> QED
  BY <1>1, <1>2, <1>3, StillDiffer

LEMMA PartsApartStay ==
  ASSUME Typed, SavedInv, Fresh, [Next]_vars,
         NEW c \in PartType(Len(idx)), NEW d \in PartType(Len(idx)), PartsApart(idx, c, d)
  PROVE PartsApart(idx', c, d)
<1>1. c.index \in 1..Len(idx) /\ d.index \in 1..Len(idx)
  BY DEF PartType
<1> QED
  BY <1>1, ApartStays DEF PartsApart

LEMMA PartRowsAre ==
  ASSUME Typed, NEW part \in PartType(Len(idx)), Served(part)
  PROVE /\ PartRows(part) \in Seq(Row) /\ Len(PartRows(part)) = part.count
        /\ \A m \in 1..part.count :
             /\ PartRows(part)[m] = idx[part.index].rows[part.start + m]
             /\ part.start + m \in 1..Len(idx[part.index].rows)
             /\ part.start + m \in (part.start + 1)..(part.start + part.count)
<1> DEFINE r == idx[part.index].rows
           from == part.start
           n == part.count
<1>1. r \in Seq(Row) /\ from \in Nat /\ n \in Nat
  BY TypedFacts, RowsTyped DEF PartType
<1>2. from + n <= Len(r) /\ PartRows(part) = SubSeq(r, from + 1, from + n)
  BY DEF Served, PartRows
<1> HIDE DEF r, from, n
<1>3. /\ SubSeq(r, from + 1, from + n) \in Seq(Row)
      /\ Len(SubSeq(r, from + 1, from + n)) = n
      /\ \A m \in 1..n : SubSeq(r, from + 1, from + n)[m] = r[from + m]
  BY <1>1, <1>2
<1>4. \A m \in 1..n : from + m \in 1..Len(r) /\ from + m \in (from + 1)..(from + n)
  BY <1>1, <1>2
<1> QED
  BY <1>2, <1>3, <1>4 DEF r, from, n

\* The rows of an import are those of its parts; no row is there twice, if none was
\* in two of the parts.
LEMMA ImportedRows ==
  ASSUME Typed, NEW p \in Proc, StagesIndex(p)
  PROVE LET parts == Head(proc[p].plan).parts
            rows == idx'[Len(idx) + 1].rows IN
        /\ \A k \in 1..Len(rows) : \E j \in 1..Len(parts) :
             \E m \in (parts[j].start + 1)..(parts[j].start + parts[j].count) :
               m \in 1..Len(idx[parts[j].index].rows)
                 /\ rows[k] = idx[parts[j].index].rows[m]
        /\ /\ EachDistinct(idx)
           /\ \A j, k \in 1..Len(parts) : j # k => PartsApart(idx, parts[j], parts[k])
           => Distinct(rows)
<1> DEFINE parts == Head(proc[p].plan).parts
           seqs == [j \in DOMAIN parts |-> PartRows(parts[j])]
           rows == idx'[Len(idx) + 1].rows
<1>1. parts \in Seq(PartType(Len(idx))) \ {<<>>}
  <2>1. proc[p].plan \in Seq(ImportType(Len(idx))) /\ proc[p].plan # <<>>
    BY TypedFacts DEF TaskType, StagesIndex
  <2>2. Head(proc[p].plan) \in ImportType(Len(idx))
    BY <2>1
  <2> QED
    BY <2>2 DEF ImportType
<1>2. rows = FlattenSeq(seqs) /\ \A j \in DOMAIN parts : Served(parts[j])
  BY StagesIndexAppends DEF StagesIndex
<1> HIDE DEF parts, rows
<1>3. /\ DOMAIN parts = 1..Len(parts) /\ Len(parts) \in Nat /\ Len(parts) > 0
      /\ \A j \in 1..Len(parts) : parts[j] \in PartType(Len(idx))
  BY <1>1
<1>4. \A j \in 1..Len(parts) :
        /\ PartRows(parts[j]) \in Seq(Row) /\ Len(PartRows(parts[j])) = parts[j].count
        /\ \A m \in 1..parts[j].count :
             /\ PartRows(parts[j])[m] = idx[parts[j].index].rows[parts[j].start + m]
             /\ parts[j].start + m \in 1..Len(idx[parts[j].index].rows)
             /\ parts[j].start + m \in (parts[j].start + 1)..(parts[j].start + parts[j].count)
  BY <1>2, <1>3, PartRowsAre
<1>5. seqs \in Seq(Seq(Row)) /\ Len(seqs) = Len(parts) /\ seqs # <<>>
      /\ \A j \in 1..Len(parts) : seqs[j] = PartRows(parts[j])
  BY <1>3, <1>4
<1> HIDE DEF seqs
<1>6. /\ \A k \in 1..Len(rows) : \E j \in 1..Len(seqs) : \E m \in 1..Len(seqs[j]) :
           rows[k] = seqs[j][m]
      /\ AllDistinct(seqs) => Distinct(rows)
  BY <1>2, <1>5, FlattenRows
<1>7. ASSUME NEW k \in 1..Len(rows)
      PROVE \E j \in 1..Len(parts) :
              \E m \in (parts[j].start + 1)..(parts[j].start + parts[j].count) :
                m \in 1..Len(idx[parts[j].index].rows)
                  /\ rows[k] = idx[parts[j].index].rows[m]
  <2>1. PICK j \in 1..Len(parts) : \E m \in 1..Len(seqs[j]) : rows[k] = seqs[j][m]
    BY <1>5, <1>6
  <2>2. PICK m \in 1..parts[j].count : rows[k] = PartRows(parts[j])[m]
    BY <1>4, <1>5, <2>1
  <2> QED
    BY <1>4, <2>2
<1>8. ASSUME EachDistinct(idx),
             \A j, k \in 1..Len(parts) : j # k => PartsApart(idx, parts[j], parts[k])
      PROVE AllDistinct(seqs)
  <2>1. ASSUME NEW j \in 1..Len(parts) PROVE Distinct(seqs[j])
    <3>1. parts[j].index \in 1..Len(idx) /\ parts[j].start \in Nat /\ parts[j].count \in Nat
      BY <1>3 DEF PartType
    <3>2. Distinct(idx[parts[j].index].rows)
      BY <1>8, <3>1 DEF EachDistinct
    <3> SUFFICES ASSUME NEW a \in 1..parts[j].count, NEW b \in 1..parts[j].count,
                        PartRows(parts[j])[a] = PartRows(parts[j])[b]
                 PROVE a = b
      BY <1>4, <1>5 DEF Distinct
    <3> DEFINE r == idx[parts[j].index].rows
               u == parts[j].start + a
               v == parts[j].start + b
    <3>3. u \in 1..Len(r) /\ v \in 1..Len(r) /\ r[u] = r[v]
      BY <1>4
    <3> HIDE DEF r, u, v
    <3>4. u = v
      BY <3>2, <3>3 DEF Distinct, r
    <3> QED
      BY <3>1, <3>4 DEF u, v
  <2>2. ASSUME NEW j \in 1..Len(parts), NEW k \in 1..Len(parts), j # k,
               NEW a \in 1..parts[j].count, NEW b \in 1..parts[k].count
        PROVE PartRows(parts[j])[a] # PartRows(parts[k])[b]
    <3> DEFINE c == parts[j]
               d == parts[k]
    <3>1. /\ c.index \in 1..Len(idx) /\ c.start \in Nat /\ c.count \in Nat
          /\ d.index \in 1..Len(idx) /\ d.start \in Nat /\ d.count \in Nat
      BY <1>3 DEF PartType
    <3>2. /\ PartRows(c)[a] = idx[c.index].rows[c.start + a]
          /\ c.start + a \in 1..Len(idx[c.index].rows)
          /\ PartRows(d)[b] = idx[d.index].rows[d.start + b]
          /\ d.start + b \in 1..Len(idx[d.index].rows)
      BY <1>4
    <3>3. PartsApart(idx, c, d)
      BY <1>8, <2>2
    <3> HIDE DEF c, d
    <3>4. CASE RowsApart(idx, c.index, d.index)
      BY <3>2, <3>4 DEF RowsApart, c, d
    <3>5. CASE c.index = d.index /\ (c.start + c.count <= d.start \/ d.start + d.count <= c.start)
      <4>1. c.start + a # d.start + b
        <5>1. a \in 1..c.count /\ b \in 1..d.count
          BY DEF c, d
        <5> QED
          <6> DEFINE c0 == c.start
                     d0 == d.start
                     cn == c.count
                     dn == d.count
          <6>1. /\ c0 \in Nat /\ d0 \in Nat /\ cn \in Nat /\ dn \in Nat
                /\ a \in 1..cn /\ b \in 1..dn
                /\ c0 + cn <= d0 \/ d0 + dn <= c0
            BY <3>1, <3>5, <5>1
          <6> HIDE DEF c0, d0, cn, dn
          <6>2. c0 + a # d0 + b
            BY <6>1
          <6> QED
            BY <6>2 DEF c0, d0
      <4>2. Distinct(idx[c.index].rows)
        BY <1>8, <3>1 DEF EachDistinct
      <4>3. PartRows(c)[a] # PartRows(d)[b]
        BY <3>2, <3>5, <4>1, <4>2 DEF Distinct
      <4> QED
        BY <4>3 DEF c, d
    <3> QED
      BY <3>3, <3>4, <3>5 DEF PartsApart
  <2>3. \A j \in 1..Len(parts) : Len(seqs[j]) = parts[j].count /\ seqs[j] = PartRows(parts[j])
    BY <1>4, <1>5
  <2>4. ASSUME NEW j \in 1..Len(parts), NEW k \in 1..Len(parts), j # k,
               NEW a \in 1..Len(seqs[j]), NEW b \in 1..Len(seqs[k])
        PROVE seqs[j][a] # seqs[k][b]
    <3>1. a \in 1..parts[j].count /\ b \in 1..parts[k].count
      BY <2>3
    <3>2. PartRows(parts[j])[a] # PartRows(parts[k])[b]
      BY <2>2, <2>4, <3>1
    <3> QED
      BY <2>3, <3>2
  <2> QED
    BY <1>5, <2>1, <2>4 DEF AllDistinct
<1> QED
  BY <1>6, <1>7, <1>8 DEF parts, rows

--------------------------------------------------------------------------------
(* What a task has staged, and what it plans to, is apart: from itself, and    *)
(* for the autoscaler from the shards that it keeps.                           *)

StagedApart(x, t) ==
  \A j, k \in 1..Len(t.staged) : j # k => RowsApart(x, t.staged[j], t.staged[k])

PlanApart(x, t) ==
  \A m \in 1..Len(t.plan) : \A j \in 1..Len(t.plan[m].parts) :
    /\ \A s \in 1..Len(t.staged) : Clear(x, t.staged[s], t.plan[m].parts[j])
    /\ \A n \in 1..Len(t.plan) : \A k \in 1..Len(t.plan[n].parts) :
         m # n \/ j # k => PartsApart(x, t.plan[m].parts[j], t.plan[n].parts[k])

FitApart(x, t) ==
  /\ TableApart(x, t.table)
  /\ \A k \in 1..Len(t.staged) : k <= Len(t.table) /\ t.staged[k] = t.table[k].index

SplitApart(x, t) ==
  /\ TableApart(x, t.table)
  /\ \A s \in 1..Len(t.staged), j \in 1..Len(t.table) :
       j # t.at => RowsApart(x, t.staged[s], t.table[j].index)

\* The autoscaler takes rows from the shard it splits alone.
PlanFrom(t) ==
  \A m \in 1..Len(t.plan) : \A j \in 1..Len(t.plan[m].parts) :
    t.plan[m].parts[j].index = t.table[t.at].index

Making == {"stage", "fit", "flush", "rebind", "commit"}

OnceTask(x, p, t) ==
  /\ t.pc \in Making => StagedApart(x, t)
  /\ t.pc = "stage" => PlanApart(x, t) /\ (p = Scaler => PlanFrom(t))
  /\ t.pc = "fit" => FitApart(x, t)
  /\ p = Scaler /\ t.pc \in Making \ {"fit"} => SplitApart(x, t)

LEMMA TaskParts ==
  ASSUME NEW n \in Nat, NEW t \in TaskType(n)
  PROVE /\ t.staged \in Seq(1..n) /\ Len(t.staged) \in Nat
        /\ \A s \in 1..Len(t.staged) : t.staged[s] \in 1..n
        /\ t.table \in Table(n) /\ Len(t.table) \in Nat
        /\ \A j \in 1..Len(t.table) : t.table[j].index \in 1..n
        /\ Len(t.plan) \in Nat
        /\ \A m \in 1..Len(t.plan) :
             /\ Len(t.plan[m].parts) \in Nat
             /\ \A j \in 1..Len(t.plan[m].parts) : t.plan[m].parts[j] \in PartType(n)
<1>1. t.staged \in Seq(1..n) /\ t.table \in Table(n) /\ t.plan \in Seq(ImportType(n))
  BY DEF TaskType
<1>2. ASSUME NEW m \in 1..Len(t.plan)
      PROVE /\ Len(t.plan[m].parts) \in Nat
            /\ \A j \in 1..Len(t.plan[m].parts) : t.plan[m].parts[j] \in PartType(n)
  <2>1. t.plan[m] \in ImportType(n)
    BY <1>1
  <2>2. t.plan[m].parts \in Seq(PartType(n))
    BY <2>1 DEF ImportType
  <2> QED
    BY <2>2
<1>3. Len(t.staged) \in Nat /\ \A s \in 1..Len(t.staged) : t.staged[s] \in 1..n
  BY <1>1
<1>4. Len(t.plan) \in Nat
  BY <1>1
<1> QED
  BY <1>1, <1>2, <1>3, <1>4, TableFacts

LEMMA OnceTaskStays ==
  ASSUME Typed, SavedInv, Fresh, [Next]_vars,
         NEW p \in Proc, NEW t \in TaskType(Len(idx)), OnceTask(idx, p, t)
  PROVE OnceTask(idx', p, t)
<1>1. /\ Len(idx) \in Nat
      /\ \A s \in 1..Len(t.staged) : t.staged[s] \in 1..Len(idx)
      /\ t.table \in Table(Len(idx))
      /\ \A j \in 1..Len(t.table) : t.table[j].index \in 1..Len(idx)
      /\ \A m \in 1..Len(t.plan) : \A j \in 1..Len(t.plan[m].parts) :
           t.plan[m].parts[j] \in PartType(Len(idx))
  BY TypedFacts, TaskParts
<1>2. StagedApart(idx, t) => StagedApart(idx', t)
  BY <1>1, ApartStays DEF StagedApart
<1>3. PlanApart(idx, t) => PlanApart(idx', t)
  BY <1>1, ClearStays, PartsApartStay DEF PlanApart
<1>4. FitApart(idx, t) => FitApart(idx', t)
  BY <1>1, TableApartStays DEF FitApart
<1>5. SplitApart(idx, t) => SplitApart(idx', t)
  BY <1>1, ApartStays, TableApartStays DEF SplitApart
<1> QED
  BY <1>2, <1>3, <1>4, <1>5 DEF OnceTask

\* A task that goes on from place to place keeps what it staged.
LEMMA OnceTaskMoves ==
  ASSUME NEW x, NEW p, NEW t, NEW u, OnceTask(x, p, t),
         u.staged = t.staged, u.table = t.table, u.at = t.at,
         u.pc \in Making => t.pc \in Making,
         u.pc = "stage" => t.pc = "stage" /\ u.plan = t.plan,
         u.pc = "fit" => t.pc = "fit", p = Scaler => t.pc # "fit"
  PROVE OnceTask(x, p, u)
<1>1. /\ StagedApart(x, t) => StagedApart(x, u)
      /\ FitApart(x, t) => FitApart(x, u)
      /\ SplitApart(x, t) => SplitApart(x, u)
  BY DEF StagedApart, FitApart, SplitApart
<1>2. ASSUME u.plan = t.plan
      PROVE (PlanApart(x, t) => PlanApart(x, u)) /\ (PlanFrom(t) => PlanFrom(u))
  BY <1>2 DEF PlanApart, PlanFrom
<1>3. u.pc = "stage" => OnceTask(x, p, u)
  BY <1>1, <1>2 DEF OnceTask, Making
<1>4. u.pc # "stage" => OnceTask(x, p, u)
  <2>1. u.pc \in Making \ {"fit"} /\ p = Scaler => t.pc \in Making \ {"fit"}
    BY DEF Making
  <2> QED
    BY <1>1, <2>1 DEF OnceTask
<1> QED
  BY <1>3, <1>4

\* A task that has not staged anything, and has nothing planned or fits the table.
LEMMA OnceTaskRests ==
  ASSUME NEW x, NEW p, NEW t, t.pc \notin Making
  PROVE OnceTask(x, p, t)
BY DEF OnceTask, Making

LEMMA SplitPlanApart ==
  ASSUME Typed, NEW i \in 1..Len(idx), NEW a \in Addr, NEW b \in Addr,
         NEW t, t.plan = SplitPlan(i, <<a, b>>), t.staged = <<>>
  PROVE /\ StagedApart(idx, t) /\ PlanApart(idx, t)
        /\ t.table[t.at].index = i => PlanFrom(t)
<1> DEFINE len == Len(idx[i].rows)
           h == EvenStart(len, 2, 2)
           n == EvenCount(len, 2, 2)
<1>1. /\ len \in Nat /\ Len(t.plan) = 2
      /\ t.plan[1] = Import(a, <<Part(i, 0, h)>>)
      /\ t.plan[2] = Import(b, <<Part(i, h, n)>>)
  BY SplitPlanIs
<1>2. h \in Nat /\ n \in Nat
  BY <1>1, Halves
<1> HIDE DEF h, n, len
<1>3. t.plan[1].parts = <<Part(i, 0, h)>> /\ t.plan[2].parts = <<Part(i, h, n)>>
  BY <1>1 DEF Import
<1>4. ASSUME NEW m \in 1..Len(t.plan), NEW j \in 1..Len(t.plan[m].parts)
      PROVE /\ j = 1 /\ m \in {1, 2} /\ t.plan[m].parts[j].index = i
            /\ m = 1 => t.plan[m].parts[j].start = 0 /\ t.plan[m].parts[j].count = h
            /\ m = 2 => t.plan[m].parts[j].start = h /\ t.plan[m].parts[j].count = n
  <2>1. m \in {1, 2}
    BY <1>1
  <2>2. Len(t.plan[1].parts) = 1 /\ Len(t.plan[2].parts) = 1
    <3>1. \A x : Len(<<x>>) = 1
      OBVIOUS
    <3> QED
      BY <1>3, <3>1
  <2>3. j = 1
    <3>1. j \in 1..1
      BY <2>1, <2>2
    <3> QED
      BY <3>1
  <2> QED
    BY <1>3, <2>1, <2>3 DEF Part
<1>5. Len(t.staged) = 0
  OBVIOUS
<1>6. StagedApart(idx, t)
  BY <1>5 DEF StagedApart
<1>7. ASSUME NEW m \in 1..Len(t.plan), NEW j \in 1..Len(t.plan[m].parts),
             NEW l \in 1..Len(t.plan), NEW k \in 1..Len(t.plan[l].parts), m # l \/ j # k
      PROVE PartsApart(idx, t.plan[m].parts[j], t.plan[l].parts[k])
  <2> DEFINE c == t.plan[m].parts[j]
             d == t.plan[l].parts[k]
  <2>1. c.index = i /\ d.index = i /\ j = 1 /\ k = 1 /\ m \in {1, 2} /\ l \in {1, 2}
    BY <1>4
  <2>2. (m = 1 /\ l = 2) \/ (m = 2 /\ l = 1)
    BY <1>7, <2>1
  <2>3. c.start + c.count <= d.start \/ d.start + d.count <= c.start
    <3>0. 0 + h <= h
      BY <1>2
    <3>1. CASE m = 1
      <4>1. c.start = 0 /\ c.count = h /\ d.start = h
        BY <1>4, <2>2, <3>1
      <4> HIDE DEF c, d
      <4> QED
        BY <3>0, <4>1
    <3>2. CASE m = 2
      <4>1. d.start = 0 /\ d.count = h /\ c.start = h
        BY <1>4, <2>2, <3>2
      <4> HIDE DEF c, d
      <4> QED
        BY <3>0, <4>1
    <3> QED
      BY <2>1, <3>1, <3>2
  <2> HIDE DEF c, d
  <2>4. PartsApart(idx, c, d)
    BY <2>1, <2>3 DEF PartsApart
  <2> QED
    BY <2>4 DEF c, d
<1>8. PlanApart(idx, t)
  <2>1. \A l \in 1..Len(t.plan) : \A j \in 1..Len(t.plan[l].parts) :
          \A s \in 1..Len(t.staged) : Clear(idx, t.staged[s], t.plan[l].parts[j])
    BY <1>5
  <2> QED
    BY <1>7, <2>1 DEF PlanApart
<1>9. t.table[t.at].index = i => PlanFrom(t)
  BY <1>4 DEF PlanFrom
<1> QED
  BY <1>6, <1>8, <1>9

LEMMA JoinPlanApart ==
  ASSUME Typed, TableApart(idx, shards), NEW a \in Addr,
         NEW t, t.plan = JoinPlan(a), t.staged = <<>>
  PROVE StagedApart(idx, t) /\ PlanApart(idx, t)
<1> DEFINE parts == [j \in DOMAIN shards |->
                       Part(shards[j].index, 0, Len(idx[shards[j].index].rows))]
<1>1. DOMAIN shards = 1..Len(shards) /\ Len(shards) \in Nat
  BY TypedFacts, TableFacts
<1>2. Len(parts) = Len(shards) /\ \A j \in 1..Len(shards) : parts[j].index = shards[j].index
  BY <1>1 DEF Part
<1>3. t.plan = <<Import(a, parts)>>
  BY DEF JoinPlan
<1> HIDE DEF parts
<1>4. Len(t.plan) = 1 /\ t.plan[1].parts = parts
  BY <1>3 DEF Import
<1>5. Len(t.staged) = 0
  OBVIOUS
<1>6. StagedApart(idx, t)
  BY <1>5 DEF StagedApart
<1>7. ASSUME NEW m \in 1..Len(t.plan), NEW j \in 1..Len(t.plan[m].parts),
             NEW l \in 1..Len(t.plan), NEW k \in 1..Len(t.plan[l].parts), m # l \/ j # k
      PROVE PartsApart(idx, t.plan[m].parts[j], t.plan[l].parts[k])
  <2>1. m = 1 /\ l = 1
    BY <1>4
  <2>2. j \in 1..Len(shards) /\ k \in 1..Len(shards) /\ j # k
    BY <1>2, <1>4, <1>7, <2>1
  <2>3. RowsApart(idx, parts[j].index, parts[k].index)
    BY <1>2, <2>2 DEF TableApart
  <2> QED
    BY <1>4, <2>1, <2>3 DEF PartsApart
<1>8. PlanApart(idx, t)
  BY <1>5, <1>7 DEF PlanApart
<1> QED
  BY <1>6, <1>8

LEMMA PartsDiffer ==
  ASSUME NEW n \in Nat, NEW x, \A i \in 1..n : Distinct(x[i].rows),
         NEW c \in PartType(n), NEW d \in PartType(n), PartsApart(x, c, d),
         NEW k \in (c.start + 1)..(c.start + c.count), k \in 1..Len(x[c.index].rows),
         NEW m \in (d.start + 1)..(d.start + d.count), m \in 1..Len(x[d.index].rows)
  PROVE x[c.index].rows[k] # x[d.index].rows[m]
<1>1. /\ c.index \in 1..n /\ c.start \in Nat /\ c.count \in Nat
      /\ d.index \in 1..n /\ d.start \in Nat /\ d.count \in Nat
  BY DEF PartType
<1>2. CASE RowsApart(x, c.index, d.index)
  BY <1>2 DEF RowsApart
<1>3. CASE c.index = d.index /\ (c.start + c.count <= d.start \/ d.start + d.count <= c.start)
  <2>1. k # m
    BY <1>1, <1>3
  <2> QED
    BY <1>1, <1>3, <2>1 DEF Distinct
<1> QED
  BY <1>2, <1>3 DEF PartsApart

\* An import is made of rows that are nowhere else in what the task makes.
LEMMA OnceTaskImports ==
  ASSUME Typed, SavedInv, Fresh, EachDistinct(idx), [Next]_vars,
         NEW p \in Proc, StagesIndex(p), OnceTask(idx, p, proc[p])
  PROVE OnceTask(idx', p, proc'[p])
<1> DEFINE t == proc[p]
           u == proc'[p]
           new == Len(idx) + 1
           parts == t.plan[1].parts
           x == idx'
           N == Len(idx)
<1>1. /\ t.pc = "stage" /\ u.pc = "stage" /\ t.plan # <<>> /\ u.plan = Tail(t.plan)
      /\ u.staged = Append(t.staged, new) /\ u.at = t.at /\ u.table = t.table
  BY StagesIndexTask
<1>2. N \in Nat /\ t \in TaskType(N) /\ \A i \in 1..N : i # new
  BY TypedFacts
<1>3. /\ t.staged \in Seq(1..N) /\ Len(t.staged) \in Nat
      /\ \A s \in 1..Len(t.staged) : t.staged[s] \in 1..N
      /\ \A j \in 1..Len(t.table) : t.table[j].index \in 1..N
      /\ Len(t.plan) \in Nat
      /\ \A m \in 1..Len(t.plan) :
           /\ Len(t.plan[m].parts) \in Nat
           /\ \A j \in 1..Len(t.plan[m].parts) : t.plan[m].parts[j] \in PartType(N)
  BY <1>2, TaskParts
<1>4. OnceTask(x, p, t)
  BY <1>2, OnceTaskStays
<1>5. /\ StagedApart(x, t) /\ PlanApart(x, t)
      /\ p = Scaler => SplitApart(x, t) /\ PlanFrom(t)
  BY <1>1, <1>4 DEF OnceTask, Making
<1>6. /\ Len(t.plan) >= 1 /\ 1 \in 1..Len(t.plan) /\ Head(t.plan) = t.plan[1]
      /\ Len(u.plan) = Len(t.plan) - 1
      /\ \A m \in 1..Len(u.plan) : u.plan[m] = t.plan[m + 1] /\ m + 1 \in 1..Len(t.plan)
  <2> DEFINE plan == t.plan
  <2>1. plan \in Seq(ImportType(N)) /\ plan # <<>> /\ u.plan = Tail(plan)
    BY <1>1, <1>2 DEF TaskType
  <2> HIDE DEF plan, t, u, N
  <2>2. Len(plan) \in Nat /\ Len(plan) >= 1 /\ Head(plan) = plan[1]
        /\ Len(Tail(plan)) = Len(plan) - 1
    BY <2>1
  <2>3. \A m \in 1..Len(Tail(plan)) : Tail(plan)[m] = plan[m + 1]
    BY <2>1, HeadTailProperties
  <2>4. \A m \in 1..Len(Tail(plan)) : m + 1 \in 1..Len(plan)
    BY <2>2
  <2>5. 1 \in 1..Len(plan)
    BY <2>2
  <2> QED
    BY <2>1, <2>2, <2>3, <2>4, <2>5 DEF plan
<1>7. /\ Len(u.staged) = Len(t.staged) + 1 /\ u.staged[Len(t.staged) + 1] = new
      /\ \A j \in 1..Len(t.staged) : u.staged[j] = t.staged[j]
  BY <1>1, <1>3
<1>8. \A i \in 1..N : x[i] = idx[i]
  BY StagesIndexAppends
<1>9. \A k \in 1..Len(x[new].rows) : \E j \in 1..Len(parts) :
        \E m \in (parts[j].start + 1)..(parts[j].start + parts[j].count) :
          m \in 1..Len(x[parts[j].index].rows) /\ x[new].rows[k] = x[parts[j].index].rows[m]
  <2>1. \A j \in 1..Len(parts) : parts[j] \in PartType(N)
    BY <1>3, <1>6
  <2>2. \A j \in 1..Len(parts) : x[parts[j].index] = idx[parts[j].index]
    BY <1>8, <2>1 DEF PartType
  <2>3. \A k \in 1..Len(x[new].rows) : \E j \in 1..Len(parts) :
          \E m \in (parts[j].start + 1)..(parts[j].start + parts[j].count) :
            m \in 1..Len(idx[parts[j].index].rows) /\ x[new].rows[k] = idx[parts[j].index].rows[m]
    <3> DEFINE first == Head(proc[p].plan).parts
    <3>1. \A k \in 1..Len(x[new].rows) : \E j \in 1..Len(first) :
            \E m \in (first[j].start + 1)..(first[j].start + first[j].count) :
              m \in 1..Len(idx[first[j].index].rows)
                /\ x[new].rows[k] = idx[first[j].index].rows[m]
      BY ImportedRows
    <3>2. first = parts
      BY <1>6
    <3> HIDE DEF first, parts, x, new
    <3> QED
      BY ZenonT(30), <3>1, <3>2
  <2> HIDE DEF x, parts, new
  <2> TAKE k \in 1..Len(x[new].rows)
  <2>4. PICK j \in 1..Len(parts) :
          \E m \in (parts[j].start + 1)..(parts[j].start + parts[j].count) :
            m \in 1..Len(idx[parts[j].index].rows) /\ x[new].rows[k] = idx[parts[j].index].rows[m]
    BY <2>3
  <2>5. x[parts[j].index] = idx[parts[j].index]
    BY <2>2
  <2> QED
    BY <2>4, <2>5
<1>10. \A i \in 1..N : Distinct(x[i].rows)
  BY <1>8 DEF EachDistinct
<1>11. \A i, j : RowsApart(x, i, j) => RowsApart(x, j, i)
  BY DEF RowsApart
<1>12. \A j \in 1..Len(parts) : parts[j] \in PartType(N)
  BY <1>3, <1>6
<1> HIDE DEF x, new, t, u, N, parts
<1>13. ASSUME NEW s \in 1..Len(t.staged) PROVE RowsApart(x, new, t.staged[s])
  <2> SUFFICES ASSUME NEW k \in 1..Len(x[new].rows), NEW b \in 1..Len(x[t.staged[s]].rows)
               PROVE x[new].rows[k] # x[t.staged[s]].rows[b]
    BY <1>2, <1>3 DEF RowsApart
  <2>1. PICK j \in 1..Len(parts) :
          \E m \in (parts[j].start + 1)..(parts[j].start + parts[j].count) :
            m \in 1..Len(x[parts[j].index].rows) /\ x[new].rows[k] = x[parts[j].index].rows[m]
    BY <1>9
  <2>2. Clear(x, t.staged[s], parts[j])
    BY <1>5, <1>6 DEF PlanApart, parts
  <2>3. PICK m \in (parts[j].start + 1)..(parts[j].start + parts[j].count) :
            m \in 1..Len(x[parts[j].index].rows) /\ x[new].rows[k] = x[parts[j].index].rows[m]
    BY <2>1
  <2>4. m <= Len(x[parts[j].index].rows)
    BY <2>3
  <2> QED
    BY <2>2, <2>3, <2>4 DEF Clear
<1>14. ASSUME NEW l \in 1..Len(u.plan), NEW i \in 1..Len(u.plan[l].parts)
       PROVE Clear(x, new, u.plan[l].parts[i])
  <2> DEFINE c == u.plan[l].parts[i]
  <2>1. c \in PartType(N)
    BY <1>3, <1>6
  <2>2. c.index \in 1..N /\ c.index # new /\ c.start \in Nat /\ c.count \in Nat
    BY <1>2, <2>1 DEF PartType
  <2>3. ASSUME NEW k \in (c.start + 1)..(c.start + c.count), NEW a \in 1..Len(x[new].rows),
               k <= Len(x[c.index].rows)
        PROVE x[c.index].rows[k] # x[new].rows[a]
    <3>1. PICK j \in 1..Len(parts) :
            \E m \in (parts[j].start + 1)..(parts[j].start + parts[j].count) :
              m \in 1..Len(x[parts[j].index].rows) /\ x[new].rows[a] = x[parts[j].index].rows[m]
      BY <1>9
    <3>2. PartsApart(x, c, parts[j])
      <4>1. l + 1 \in 1..Len(t.plan) /\ u.plan[l] = t.plan[l + 1] /\ l + 1 # 1
        BY <1>6
      <4> QED
        BY <1>5, <1>6, <4>1 DEF PlanApart, parts
    <3>3. PICK m \in (parts[j].start + 1)..(parts[j].start + parts[j].count) :
              m \in 1..Len(x[parts[j].index].rows) /\ x[new].rows[a] = x[parts[j].index].rows[m]
      BY <3>1
    <3>4. k \in 1..Len(x[c.index].rows)
      <4>1. x[c.index] \in IndexType
        BY <1>8, <2>2, TypedFacts DEF N
      <4>2. Len(x[c.index].rows) \in Nat
        BY <4>1, RowsTyped
      <4> HIDE DEF c
      <4> QED
        BY <2>2, <2>3, <4>2
    <3> HIDE DEF c
    <3>5. x[c.index].rows[k] # x[parts[j].index].rows[m]
      BY <1>2, <1>10, <1>12, <2>1, <3>2, <3>3, <3>4, PartsDiffer
    <3> QED
      BY <3>3, <3>5
  <2> QED
    BY <2>2, <2>3 DEF Clear
<1>15. \A s \in 1..Len(u.staged) : s \in 1..Len(t.staged) \/ s = Len(t.staged) + 1
  BY <1>3, <1>7
<1>16. StagedApart(x, u)
  <2> SUFFICES ASSUME NEW j \in 1..Len(u.staged), NEW k \in 1..Len(u.staged), j # k
               PROVE RowsApart(x, u.staged[j], u.staged[k])
    BY DEF StagedApart
  <2>1. CASE j \in 1..Len(t.staged) /\ k \in 1..Len(t.staged)
    BY <1>5, <1>7, <2>1 DEF StagedApart
  <2>2. CASE j \in 1..Len(t.staged) /\ k = Len(t.staged) + 1
    BY <1>7, <1>11, <1>13, <2>2
  <2>3. CASE j = Len(t.staged) + 1 /\ k \in 1..Len(t.staged)
    BY <1>7, <1>13, <2>3
  <2> QED
    BY <1>15, <2>1, <2>2, <2>3
<1>17. PlanApart(x, u)
  <2>1. ASSUME NEW m \in 1..Len(u.plan), NEW j \in 1..Len(u.plan[m].parts),
               NEW s \in 1..Len(u.staged)
        PROVE Clear(x, u.staged[s], u.plan[m].parts[j])
    <3>1. CASE s \in 1..Len(t.staged)
      BY <1>5, <1>6, <1>7, <3>1 DEF PlanApart
    <3>2. CASE s = Len(t.staged) + 1
      BY <1>7, <1>14, <3>2
    <3> QED
      BY <1>15, <3>1, <3>2
  <2>2. ASSUME NEW m \in 1..Len(u.plan), NEW j \in 1..Len(u.plan[m].parts),
               NEW n \in 1..Len(u.plan), NEW k \in 1..Len(u.plan[n].parts), m # n \/ j # k
        PROVE PartsApart(x, u.plan[m].parts[j], u.plan[n].parts[k])
    <3>1. m + 1 # n + 1 \/ j # k
      BY <1>3, <1>6, <2>2
    <3>2. /\ u.plan[m] = t.plan[m + 1] /\ m + 1 \in 1..Len(t.plan)
          /\ u.plan[n] = t.plan[n + 1] /\ n + 1 \in 1..Len(t.plan)
      BY <1>6
    <3> QED
      BY <1>5, <3>1, <3>2 DEF PlanApart
  <2> QED
    BY <2>1, <2>2 DEF PlanApart
<1>18. CASE p = Scaler
  <2>1. SplitApart(x, t) /\ PlanFrom(t)
    BY <1>5, <1>18
  <2>2. t.at \in 1..Len(t.table)
    BY <1>1, <1>18, TypedFacts DEF TaskOK, t
  <2>3. PlanFrom(u)
    BY ZenonT(30), <1>1, <1>6, <2>1 DEF PlanFrom
  <2>4. ASSUME NEW j \in 1..Len(t.table), j # t.at PROVE RowsApart(x, new, t.table[j].index)
    <3> SUFFICES ASSUME NEW k \in 1..Len(x[new].rows), NEW b \in 1..Len(x[t.table[j].index].rows)
                 PROVE x[new].rows[k] # x[t.table[j].index].rows[b]
      BY <1>2, <1>3 DEF RowsApart
    <3>1. PICK i \in 1..Len(parts) :
            \E m \in (parts[i].start + 1)..(parts[i].start + parts[i].count) :
              m \in 1..Len(x[parts[i].index].rows) /\ x[new].rows[k] = x[parts[i].index].rows[m]
      BY <1>9
    <3>2. parts[i].index = t.table[t.at].index
      BY <1>6, <2>1 DEF PlanFrom, parts
    <3>3. RowsApart(x, t.table[t.at].index, t.table[j].index)
      BY <2>1, <2>2, <2>4 DEF SplitApart, TableApart
    <3> QED
      BY <3>1, <3>2, <3>3 DEF RowsApart
  <2>5. SplitApart(x, u)
    <3> SUFFICES ASSUME NEW s \in 1..Len(u.staged), NEW j \in 1..Len(t.table), j # t.at
                 PROVE RowsApart(x, u.staged[s], t.table[j].index)
      BY <1>1, <2>1 DEF SplitApart
    <3>1. CASE s \in 1..Len(t.staged)
      BY <1>7, <2>1, <3>1 DEF SplitApart
    <3>2. CASE s = Len(t.staged) + 1
      BY <1>7, <2>4, <3>2
    <3> QED
      BY <1>15, <3>1, <3>2
  <2>6. OnceTask(x, p, u)
    BY <1>1, <1>16, <1>17, <2>3, <2>5 DEF OnceTask
  <2> QED
    BY <2>6 DEF x, u
<1>19. CASE p # Scaler
  <2>1. OnceTask(x, p, u)
    BY <1>1, <1>16, <1>17, <1>19 DEF OnceTask
  <2> QED
    BY <2>1 DEF x, u
<1> QED
  BY <1>18, <1>19

OnceTasks == \A p \in Proc : OnceTask(idx, p, proc[p])

LEMMA OnceTaskNext ==
  ASSUME Typed, PlanInv, SavedInv, Fresh, EachDistinct(idx), TableApart(idx, shards),
         OnceTasks, [Next]_vars, NEW p \in Proc
  PROVE OnceTask(idx', p, proc'[p])
<1> DEFINE t == proc[p]
           u == proc'[p]
<1>1. OnceTask(idx, p, t) /\ OnceTask(idx', p, t) /\ t \in TaskType(Len(idx))
  BY TypedFacts, OnceTaskStays DEF OnceTasks
<1>2. CASE u = t
  BY <1>1, <1>2
<1>3. (p = Scaler => t.pc # "fit") /\ (p \in Admin => p # Scaler)
  BY BoundAssumption DEF PlanInv
<1>4. CASE Idle = u
  BY <1>4, OnceTaskRests DEF Idle, Making
<1>5. CASE Begins(p)
  <2>1. idx' = idx
    BY <1>5 DEF Begins
  <2>2. CASE BeginsSearch(p)
    BY <2>2, OnceTaskRests DEF BeginsSearch, Making
  <2>3. CASE BeginsFit(p)
    <3>1. u.pc = "fit" /\ u.staged = <<>> /\ u.table = shards /\ p # Scaler
      BY <1>3, <2>3 DEF BeginsFit
    <3>2. Len(u.staged) = 0
      BY <3>1
    <3>3. StagedApart(idx, u) /\ FitApart(idx, u)
      BY <3>1, <3>2 DEF StagedApart, FitApart
    <3> QED
      BY <2>1, <3>1, <3>3 DEF OnceTask
  <2>4. CASE BeginsMove(p)
    <3>1. u.pc = "stage" /\ u.staged = <<>> /\ p # Scaler
      BY <1>3, <2>4 DEF BeginsMove
    <3>2. \/ \E i \in 1..Len(idx), a, b \in Addr : u.plan = SplitPlan(i, <<a, b>>)
          \/ \E a \in Addr : u.plan = JoinPlan(a)
      BY <2>4 DEF BeginsMove
    <3>3. StagedApart(idx, u) /\ PlanApart(idx, u)
      <4> HIDE DEF u
      <4>1. CASE \E i \in 1..Len(idx), a, b \in Addr : u.plan = SplitPlan(i, <<a, b>>)
        <5>1. PICK i \in 1..Len(idx), a \in Addr, b \in Addr : u.plan = SplitPlan(i, <<a, b>>)
          BY <4>1
        <5> QED
          BY <3>1, <5>1, SplitPlanApart
      <4>2. CASE \E a \in Addr : u.plan = JoinPlan(a)
        <5>1. PICK a \in Addr : u.plan = JoinPlan(a)
          BY <4>2
        <5> QED
          BY <3>1, <5>1, JoinPlanApart
      <4> QED
        BY <3>2, <4>1, <4>2
    <3> QED
      BY <2>1, <3>1, <3>3 DEF OnceTask
  <2>5. CASE BeginsAuto(p)
    <3>1. /\ u.pc = "stage" /\ u.staged = <<>> /\ p = Scaler /\ u.table = shards
          /\ u.at \in 1..Len(shards)
          /\ \E a, b \in Addr : u.plan = SplitPlan(shards[u.at].index, <<a, b>>)
      BY <2>5 DEF BeginsAuto
    <3>2. PICK i \in 1..Len(idx) : i = shards[u.at].index
      BY <3>1, TypedFacts, TableFacts
    <3>3. PICK a \in Addr, b \in Addr : u.plan = SplitPlan(i, <<a, b>>)
      BY <3>1, <3>2
    <3>4. StagedApart(idx, u) /\ PlanApart(idx, u) /\ PlanFrom(u)
      <4>1. u.staged = <<>> /\ u.table[u.at].index = i
        BY <3>1, <3>2
      <4> HIDE DEF u
      <4> QED
        BY <3>3, <4>1, SplitPlanApart
    <3>5. Len(u.staged) = 0
      BY <3>1
    <3>6. SplitApart(idx, u)
      BY <3>1, <3>5 DEF SplitApart
    <3> QED
      BY <2>1, <3>1, <3>4, <3>6 DEF OnceTask
  <2> QED
    BY <1>5, <2>2, <2>3, <2>4, <2>5 DEF Begins
<1>6. CASE StagesIndex(p)
  BY <1>1, <1>6, OnceTaskImports
<1>7. CASE Fits(p)
  <2> DEFINE next == Len(t.staged) + 1
  <2>1. /\ t.pc = "fit" /\ u.pc = "fit" /\ u.table = t.table /\ Len(t.staged) < Len(t.table)
        /\ u.staged = Append(t.staged, t.table[next].index) /\ p # Scaler
    BY <1>3, <1>7 DEF Fits
  <2>2. FitApart(idx', t)
    BY <1>1, <2>1 DEF OnceTask
  <2>3. t.staged \in Seq(1..Len(idx)) /\ Len(t.staged) \in Nat /\ Len(t.table) \in Nat
    BY <1>1, TypedFacts, TaskParts
  <2> HIDE DEF t, u
  <2>4. Len(u.staged) = next /\ u.staged[next] = t.table[next].index
        /\ \A k \in 1..Len(t.staged) : u.staged[k] = t.staged[k]
    BY <2>1, <2>3
  <2>5. \A k \in 1..Len(u.staged) : k \in 1..Len(t.staged) \/ k = next
    BY <2>3, <2>4
  <2>6. \A k \in 1..Len(u.staged) : k <= Len(t.table) /\ u.staged[k] = t.table[k].index
    BY <2>1, <2>2, <2>3, <2>4, <2>5 DEF FitApart
  <2>7. FitApart(idx', u)
    BY <2>1, <2>2, <2>6 DEF FitApart
  <2>8. \A k \in 1..Len(u.staged) : k \in 1..Len(t.table)
    BY <2>1, <2>3, <2>4
  <2>9. StagedApart(idx', u)
    BY <2>2, <2>6, <2>8 DEF FitApart, StagedApart, TableApart
  <2>10. OnceTask(idx', p, u)
    BY <2>1, <2>7, <2>9 DEF OnceTask
  <2> QED
    BY <2>10 DEF u
<1>8. CASE Flushes(p) \/ Moves(p)
  <2>1. u.plan = t.plan /\ u.staged = t.staged /\ u.table = t.table /\ u.at = t.at
    BY <1>8 DEF Flushes, Moves, Plans
  <2>2. (u.pc \in Making => t.pc \in Making) /\ u.pc # "stage" /\ u.pc # "fit"
    BY <1>8 DEF Flushes, Moves, Making
  <2> HIDE DEF t, u
  <2>3. OnceTask(idx', p, u)
    BY <1>1, <1>3, <2>1, <2>2, OnceTaskMoves
  <2> QED
    BY <2>3 DEF u
<1>9. CASE OnlyTask(p)
  BY <1>4, <1>5, <1>6, <1>7, <1>8, <1>9 DEF OnlyTask, TaskStep
<1>10. CASE TableStep
  <2>1. ASSUME NEW q \in Proc, PersistTable(q) PROVE OnceTask(idx', p, u)
    <3>1. CASE q # p
      BY <1>2, <2>1, <3>1, PersistTableTask
    <3>2. CASE q = p
      <4>1. /\ t.pc = "rebind" /\ u.pc = "commit" /\ u.staged = t.staged
            /\ u.table = t.table /\ u.at = t.at
        BY <2>1, <3>2, PersistTableTask
      <4> HIDE DEF t, u
      <4>2. t.pc \in Making
        BY <4>1 DEF Making
      <4> QED
        BY <1>1, <1>3, <4>1, <4>2, OnceTaskMoves
    <3> QED
      BY <3>1, <3>2
  <2>2. ASSUME NEW q \in Proc, PersistTableFails(q) \/ CommitTable(q)
        PROVE OnceTask(idx', p, u)
    <3>1. u = t \/ u.pc \in {"idle", "teardown", "invalidate"}
      BY <2>2, PersistTableFailsTask, CommitTableTask
    <3>2. CASE u.pc \in {"idle", "teardown", "invalidate"}
      <4>1. u.pc \notin Making
        BY <3>2 DEF Making
      <4> QED
        BY <4>1, OnceTaskRests
    <3> QED
      BY <1>2, <3>1, <3>2
  <2>3. ASSUME NEW a \in Addr, Register(a) \/ RegisterFails(a) \/ CommitSpare(a)
        PROVE OnceTask(idx', p, u)
    <3>1. u = t
      BY <2>3 DEF Register, RegisterFails, CommitSpare
    <3> QED
      BY <1>2, <3>1
  <2>4. CASE RestartCoordinator
    <3>1. u = Idle
      BY <2>4 DEF RestartCoordinator
    <3> QED
      BY <1>4, <3>1
  <2> QED
    BY <1>10, <2>1, <2>2, <2>3, <2>4 DEF TableStep
<1>11. CASE \E q \in Proc : OnlyTask(q)
  BY <1>2, <1>9, <1>11 DEF OnlyTask
<1>12. proc' = proc \/ TableStep \/ \E q \in Proc : OnlyTask(q)
  BY TasksFrame
<1> QED
  BY <1>2, <1>10, <1>11, <1>12

\* A new table has no row twice.
LEMMA NewTableApart ==
  ASSUME Typed, ConfigsInv, OnceTasks, NEW p \in Proc, proc[p].pc \in {"rebind", "commit"}
  PROVE TableApart(idx, NewTable(p))
<1> DEFINE t == proc[p].table
           at == proc[p].at
           c == proc[p].configs
           s == proc[p].staged
           n == Len(idx)
           new == NewTable(p)
<1>1. n \in Nat /\ t \in Table(n) /\ c \in Table(n) /\ s \in Seq(1..n) /\ Len(s) \in Nat
  BY TypedFacts DEF TaskType
<1>2. Len(c) = Len(s) /\ \A j \in 1..Len(s) : c[j].index = s[j]
  BY DEF ConfigsInv
<1>3. \A j, k \in 1..Len(s) : j # k => RowsApart(idx, s[j], s[k])
  BY DEF OnceTasks, OnceTask, StagedApart, Making
<1>4. CASE p # Scaler
  <2>1. new = c
    BY <1>4 DEF NewTable, AutoTable
  <2> HIDE DEF new, c, s
  <2> QED
    BY <1>2, <1>3, <2>1 DEF TableApart, new
<1>5. CASE p = Scaler
  <2>1. at \in 1..Len(t)
    BY <1>5, TypedFacts DEF TaskOK
  <2>2. new = SubSeq(t, 1, at - 1) \o c \o SubSeq(t, at + 1, Len(t))
    BY <1>5 DEF NewTable, AutoTable
  <2>3. Len(new) = Len(t) - 1 + Len(c)
        /\ \A j \in 1..Len(new) :
             new[j] = IF j < at THEN t[j]
                      ELSE IF j < at + Len(c) THEN c[j - at + 1]
                      ELSE t[j - Len(c) + 1]
    <3> HIDE DEF n, t, at, c, new
    <3> QED
      BY <1>1, <2>1, <2>2, Spliced
  <2>4. Len(t) \in Nat
    BY <1>1, TableFacts
  <2>5. /\ TableApart(idx, t)
        /\ \A k \in 1..Len(s), j \in 1..Len(t) : j # at => RowsApart(idx, s[k], t[j].index)
    BY <1>5 DEF OnceTasks, OnceTask, SplitApart, Making
  <2> HIDE DEF n, t, at, c, s, new
  <2> DEFINE Kept(k) == IF k < at THEN k ELSE k - Len(c) + 1
             Mid(k) == ~(k < at) /\ k < at + Len(c)
  <2>6. ASSUME NEW k \in 1..Len(new), Mid(k)
        PROVE k - at + 1 \in 1..Len(s) /\ new[k].index = s[k - at + 1]
    <3>1. k - at + 1 \in 1..Len(s)
      BY <1>1, <1>2, <2>1, <2>3, <2>4, <2>6
    <3>2. new[k] = c[k - at + 1]
      BY <2>3, <2>6
    <3> QED
      BY <1>2, <3>1, <3>2
  <2>7. ASSUME NEW k \in 1..Len(new), ~Mid(k)
        PROVE Kept(k) \in 1..Len(t) /\ Kept(k) # at /\ new[k].index = t[Kept(k)].index
    <3>1. Kept(k) \in 1..Len(t) /\ Kept(k) # at /\ new[k] = t[Kept(k)]
      BY <1>1, <1>2, <2>1, <2>3, <2>4, <2>7
    <3> QED
      BY <3>1
  <2>8. ASSUME NEW j \in 1..Len(new), NEW k \in 1..Len(new), j # k
        PROVE RowsApart(idx, new[j].index, new[k].index)
    <3>1. CASE Mid(j) /\ Mid(k)
      <4>1. j - at + 1 # k - at + 1
        BY <1>1, <2>1, <2>4, <2>8
      <4> HIDE DEF Mid
      <4> QED
        BY <1>3, <2>6, <3>1, <4>1
    <3>2. CASE ~Mid(j) /\ ~Mid(k)
      <4>1. Kept(j) # Kept(k)
        BY <1>1, <1>2, <2>1, <2>3, <2>4, <2>8, <3>2
      <4> HIDE DEF Kept, Mid
      <4> QED
        BY <2>5, <2>7, <3>2, <4>1 DEF TableApart
    <3>3. CASE Mid(j) /\ ~Mid(k)
      <4> HIDE DEF Kept, Mid
      <4> QED
        BY <2>5, <2>6, <2>7, <3>3
    <3>4. CASE ~Mid(j) /\ Mid(k)
      <4> HIDE DEF Kept, Mid
      <4>1. RowsApart(idx, new[k].index, new[j].index)
        BY <2>5, <2>6, <2>7, <3>4
      <4> QED
        BY <4>1 DEF RowsApart
    <3> QED
      BY <3>1, <3>2, <3>3, <3>4
  <2> QED
    BY <2>8 DEF TableApart, new
<1> QED
  BY <1>4, <1>5

LEMMA TablesApartNext ==
  ASSUME Typed, ConfigsInv, SavedInv, Fresh, OnceTasks, [Next]_vars,
         TableApart(idx, shards), TableApart(idx, file.shards)
  PROVE TableApart(idx', shards') /\ TableApart(idx', file.shards')
<1>1. shards \in Table(Len(idx)) /\ file.shards \in Table(Len(idx))
  BY TypedFacts, OtherFacts DEF FileType
<1>2. TableApart(idx', shards) /\ TableApart(idx', file.shards)
  BY <1>1, TableApartStays
<1>3. CASE UNCHANGED tableVars
  BY <1>2, <1>3 DEF tableVars
<1>4. ASSUME NEW p \in Proc, PersistTable(p) \/ PersistTableFails(p)
      PROVE TableApart(idx', shards') /\ TableApart(idx', file.shards')
  <2>1. /\ proc[p].pc = "rebind" /\ idx' = idx /\ shards' = shards
        /\ file'.shards = file.shards \/ file'.shards = NewTable(p)
    BY <1>4 DEF PersistTable, PersistTableFails, At, topoVars
  <2>2. TableApart(idx, NewTable(p))
    BY <2>1, NewTableApart
  <2> QED
    BY <1>2, <2>1, <2>2
<1>5. ASSUME NEW p \in Proc, CommitTable(p)
      PROVE TableApart(idx', shards') /\ TableApart(idx', file.shards')
  <2>1. proc[p].pc = "commit" /\ idx' = idx /\ shards' = NewTable(p) /\ file' = file
    BY <1>5 DEF CommitTable, At
  <2>2. TableApart(idx, NewTable(p))
    BY <2>1, NewTableApart
  <2> QED
    BY <1>2, <2>1, <2>2
<1>6. ASSUME NEW a \in Addr, Register(a) \/ RegisterFails(a) \/ CommitSpare(a)
      PROVE TableApart(idx', shards') /\ TableApart(idx', file.shards')
  <2>1. shards' = shards /\ (file'.shards = shards \/ file'.shards = file.shards)
    BY <1>6 DEF Register, RegisterFails, CommitSpare, topoVars
  <2> QED
    BY <1>2, <2>1
<1>7. CASE RestartCoordinator
  BY <1>2, <1>7 DEF RestartCoordinator
<1> QED
  BY <1>3, <1>4, <1>5, <1>6, <1>7, TablesFrame DEF TableStep

LEMMA IngestedGrows ==
  ASSUME Typed, [Next]_vars
  PROVE ingested' \in {ingested, ingested + 1}
<1>1. CASE \E i \in DOMAIN idx : AddRow(i)
  BY <1>1 DEF AddRow
<1>2. CASE Start
  BY <1>2 DEF Start, StartAuto, StartSplit, StartJoin, StartFit, Begin
<1>3. CASE \E p \in Proc : Stage(p) \/ Rebind(p)
  BY <1>3 DEF Stage, StageNext, Staged, FitNext, FlushStaged, FlushFails, Rebind, PersistTable,
     RefuseRebind, PersistTableFails, CommitTable, InvalidatePin, envVars
<1>4. CASE \E p \in Proc : Collection(p)
  BY <1>4 DEF Collection, StartSearch, PinHit, PinMiss, ProbeNext, StorePin, Search, envVars
<1>5. CASE DropSource \/ Teardown \/ RestartCoordinator
  BY <1>5 DEF DropSource, Teardown, RestartCoordinator, envVars
<1>6. CASE \E a \in Addr : Register(a) \/ RegisterFails(a) \/ CommitSpare(a) \/ RestartNode(a)
  BY <1>6 DEF Register, RegisterFails, CommitSpare, RestartNode, envVars
<1>7. CASE \E i \in DOMAIN idx : FlushShard(i)
  BY <1>7 DEF FlushShard, envVars
<1>8. CASE UNCHANGED vars
  BY <1>8 DEF vars, envVars
<1> QED
  BY <1>1, <1>2, <1>3, <1>4, <1>5, <1>6, <1>7, <1>8 DEF Next

LEMMA RowsNext ==
  ASSUME Typed, SavedInv, Fresh, EachDistinct(idx), OnceTasks, [Next]_vars
  PROVE Fresh' /\ EachDistinct(idx')
<1>1. Len(idx) \in Nat /\ ingested \in Nat /\ ingested' \in Nat /\ ingested' >= ingested
  BY TypedFacts, OtherFacts, IngestedGrows
<1> DEFINE Late(i) == \A a \in 1..Len(idx'[i].rows), k \in Nat :
                        idx'[i].rows[a] = <<0, k>> => k <= ingested'
<1>2. ASSUME NEW i \in 1..Len(idx), NEW a, Old(i, a), NEW k \in Nat, idx'[i].rows[a] = <<0, k>>
      PROVE k <= ingested'
  <2>1. a \in 1..Len(idx[i].rows) /\ idx[i].rows[a] = <<0, k>>
    BY <1>2 DEF Old
  <2>2. k <= ingested
    BY <2>1 DEF Fresh
  <2> QED
    BY <1>1, <2>2
<1>3. ASSUME NEW i \in 1..Len(idx) PROVE Late(i)
  <2> SUFFICES ASSUME NEW a \in 1..Len(idx'[i].rows), NEW k \in Nat, idx'[i].rows[a] = <<0, k>>
               PROVE k <= ingested'
    OBVIOUS
  <2>1. Old(i, a) \/ (idx'[i].rows[a] = <<0, ingested + 1>> /\ ingested' = ingested + 1)
    BY RowsKeepOrGrow
  <2>2. CASE idx'[i].rows[a] = <<0, ingested + 1>> /\ ingested' = ingested + 1
    <3>1. k = ingested + 1
      BY <2>2
    <3> QED
      BY <1>1, <2>2, <3>1
  <2> QED
    BY <1>2, <2>1, <2>2
<1>4. ASSUME NEW i \in 1..Len(idx) PROVE Distinct(idx'[i].rows)
  BY DistinctStays DEF EachDistinct
<1>5. CASE Len(idx') = Len(idx)
  BY <1>3, <1>4, <1>5 DEF Fresh, EachDistinct
<1>6. ASSUME NEW p \in Proc, StagesIndex(p) PROVE Fresh' /\ EachDistinct(idx')
  <2> DEFINE new == Len(idx) + 1
             parts == Head(proc[p].plan).parts
             rows == idx'[new].rows
  <2>1. Len(idx') = new /\ \A i \in 1..Len(idx) : idx'[i] = idx[i]
    BY <1>6, StagesIndexAppends
  <2>2. /\ proc[p].plan \in Seq(ImportType(Len(idx))) /\ proc[p].plan # <<>>
        /\ proc[p].pc = "stage"
    BY <1>6, TypedFacts DEF TaskType, StagesIndex, At
  <2>3. parts = proc[p].plan[1].parts /\ 1 \in 1..Len(proc[p].plan)
    BY <2>2
  <2>4. \A j, k \in 1..Len(parts) : j # k => PartsApart(idx, parts[j], parts[k])
    <3>1. PlanApart(idx, proc[p])
      BY <2>2 DEF OnceTasks, OnceTask
    <3> HIDE DEF parts
    <3> QED
      BY <2>3, <3>1 DEF PlanApart
  <2>5. /\ \A k \in 1..Len(rows) : \E j \in 1..Len(parts) :
             \E m \in (parts[j].start + 1)..(parts[j].start + parts[j].count) :
               m \in 1..Len(idx[parts[j].index].rows)
                 /\ rows[k] = idx[parts[j].index].rows[m]
        /\ Distinct(rows)
    <3>1. (\A j, k \in 1..Len(parts) : j # k => PartsApart(idx, parts[j], parts[k]))
            => Distinct(rows)
      BY <1>6, ImportedRows
    <3> QED
      BY <1>6, <2>4, <3>1, ImportedRows
  <2>6. \A j \in 1..Len(parts) : parts[j].index \in 1..Len(idx)
    <3>1. proc[p].plan[1] \in ImportType(Len(idx))
      BY <2>2, <2>3
    <3>2. parts \in Seq(PartType(Len(idx)))
      BY <2>3, <3>1 DEF ImportType
    <3> HIDE DEF parts
    <3>3. \A j \in 1..Len(parts) : parts[j] \in PartType(Len(idx))
      BY <3>2
    <3> QED
      BY <3>3 DEF PartType
  <2>7. Late(new)
    <3> SUFFICES ASSUME NEW a \in 1..Len(rows), NEW k \in Nat, rows[a] = <<0, k>>
                 PROVE k <= ingested'
      OBVIOUS
    <3>1. PICK i \in 1..Len(idx) : \E m \in 1..Len(idx[i].rows) : rows[a] = idx[i].rows[m]
      <4> HIDE DEF rows, parts
      <4> QED
        BY <2>5, <2>6
    <3>2. k <= ingested
      BY <3>1 DEF Fresh
    <3> QED
      BY <1>1, <3>2
  <2>8. \A i \in 1..Len(idx') : i \in 1..Len(idx) \/ i = new
    BY <1>1, <2>1
  <2>9. \A i \in 1..Len(idx') : Late(i) /\ Distinct(idx'[i].rows)
    <3> HIDE DEF Late
    <3> QED
      BY <1>3, <1>4, <2>5, <2>7, <2>8
  <2> QED
    BY <2>9 DEF Fresh, EachDistinct
<1> QED
  BY <1>5, <1>6, IndexFrame

OnceInv ==
  /\ Fresh /\ EachDistinct(idx) /\ OnceTasks
  /\ TableApart(idx, shards) /\ TableApart(idx, file.shards)

\* The rows of the startup shards are different ones, and none that a client adds.
FirstRowsDistinct ==
  \A i, j \in 1..Len(FirstShards) :
    \A a \in 1..Len(FirstRows[i]), b \in 1..Len(FirstRows[j]) :
      /\ FirstRows[i][a][1] # 0
      /\ FirstRows[i][a] = FirstRows[j][b] => i = j /\ a = b

LEMMA OnceInit ==
  ASSUME Init, FirstRowsDistinct
  PROVE OnceInv
<1>1. Len(FirstShards) \in Nat /\ DOMAIN FirstShards = 1..Len(FirstShards)
  BY BoundAssumption
<1>2. Typed
  BY TypedInit
<1>3. Len(idx) = Len(FirstShards) /\ Len(idx) \in Nat
  BY <1>1, <1>2, TypedFacts DEF Init
<1>4. \A i \in 1..Len(idx) : idx[i].rows = FirstRows[i]
  BY <1>1, <1>3 DEF Init
<1>5. Fresh
  <2> SUFFICES ASSUME NEW i \in 1..Len(idx), NEW a \in 1..Len(idx[i].rows), NEW k \in Nat,
                      idx[i].rows[a] = <<0, k>>
               PROVE FALSE
    BY DEF Fresh
  <2>1. i \in 1..Len(FirstShards) /\ a \in 1..Len(FirstRows[i]) /\ FirstRows[i][a] = <<0, k>>
    BY <1>3, <1>4
  <2>2. FirstRows[i][a][1] = 0
    BY <2>1
  <2> QED
    BY <2>1, <2>2 DEF FirstRowsDistinct
<1>6. EachDistinct(idx)
  BY <1>3, <1>4 DEF EachDistinct, Distinct, FirstRowsDistinct
<1>7. /\ file.shards = shards /\ Len(shards) = Len(FirstShards)
      /\ \A j \in 1..Len(FirstShards) : shards[j].index = j
  <2>1. shards = [i \in 1..Len(FirstShards) |-> Shard(i, 1)] /\ file.shards = shards
    BY <1>1 DEF Init
  <2> QED
    BY <1>1, <2>1 DEF Shard
<1>8. TableApart(idx, shards)
  <2> SUFFICES ASSUME NEW j \in 1..Len(FirstShards), NEW k \in 1..Len(FirstShards), j # k
               PROVE RowsApart(idx, j, k)
    BY <1>7 DEF TableApart
  <2> QED
    BY <1>3, <1>4 DEF RowsApart, FirstRowsDistinct
<1>9. OnceTasks
  BY OnceTaskRests DEF OnceTasks, Init, Idle, Making
<1> QED
  BY <1>5, <1>6, <1>7, <1>8, <1>9 DEF OnceInv

LEMMA OnceNext ==
  ASSUME Typed, PlanInv, ConfigsInv, SavedInv, OnceInv, [Next]_vars
  PROVE OnceInv'
<1>1. \A p \in Proc : OnceTask(idx', p, proc'[p])
  BY OnceTaskNext DEF OnceInv
<1>2. OnceTasks'
  BY <1>1 DEF OnceTasks
<1>3. Fresh' /\ EachDistinct(idx')
  BY RowsNext DEF OnceInv
<1>4. TableApart(idx', shards') /\ TableApart(idx', file.shards')
  BY TablesApartNext DEF OnceInv
<1> QED
  BY <1>2, <1>3, <1>4 DEF OnceInv

\* A split or join moves every row to one place: whatever splits, joins, fits,
\* registrations, client writes, failures and restarts run together, no row of the
\* serving collection is there twice (plan_counts, stage_split, join, rebind_inner).
THEOREM RowsAreInOnePlace ==
  ASSUME FirstRowsDistinct
  PROVE Spec => []EachRowOnce
<1>1. Init => SavedInv /\ OnceInv
  BY SavedInit, OnceInit
<1>2. Typed /\ PlanInv /\ ConfigsInv /\ SavedInv /\ OnceInv /\ [Next]_vars
        => (SavedInv /\ OnceInv)'
  BY SavedNext, OnceNext
<1>3. ASSUME Typed, OnceInv PROVE EachRowOnce
  <2> SUFFICES ASSUME NEW j \in DOMAIN shards, NEW k \in DOMAIN shards,
                      NEW r \in DOMAIN idx[shards[j].index].rows,
                      NEW q \in DOMAIN idx[shards[k].index].rows,
                      idx[shards[j].index].rows[r] = idx[shards[k].index].rows[q]
               PROVE j = k /\ r = q
    BY DEF EachRowOnce
  <2>1. /\ j \in 1..Len(shards) /\ k \in 1..Len(shards)
        /\ shards[j].index \in 1..Len(idx) /\ shards[k].index \in 1..Len(idx)
    BY <1>3, TypedFacts, TableFacts
  <2>2. /\ idx[shards[j].index].rows \in Seq(Row) /\ idx[shards[k].index].rows \in Seq(Row)
    BY <1>3, <2>1, TypedFacts, RowsTyped
  <2>3. r \in 1..Len(idx[shards[j].index].rows) /\ q \in 1..Len(idx[shards[k].index].rows)
    BY <2>2
  <2>4. j = k
    BY <1>3, <2>1, <2>3 DEF OnceInv, TableApart, RowsApart
  <2>5. Distinct(idx[shards[j].index].rows)
    BY <1>3, <2>1 DEF OnceInv, EachDistinct
  <2> QED
    BY <2>3, <2>4, <2>5 DEF Distinct
<1>4. Typed /\ OnceInv => EachRowOnce
  BY <1>3
<1> QED
  BY <1>1, <1>2, <1>4, PlanHolds, PTL DEF Spec
================================================================================
