--------------------------- MODULE LabelBitmapsProofs ---------------------------
(***************************************************************************)
(* For every list of bitmaps of any length: what validation accepts, the   *)
(* lookup reads right.                                                     *)
(***************************************************************************)
EXTENDS LabelBitmaps, TLAPS

\* The bitmaps before the position are well formed, each begins after the end
\* of every one before it, and previousEnd is the end of the last.
CheckedOK ==
  /\ bitmaps \in Seq(Bitmap)
  /\ position \in 1..Len(bitmaps) + 1
  /\ previousEnd \in Nat
  /\ \A i \in 1..position - 1 : WellFormed(bitmaps[i])
  /\ \A i, j \in 1..position - 1 : i < j => EndOf(bitmaps[i]) <= bitmaps[j].base
  /\ \A i \in 1..position - 1 : EndOf(bitmaps[i]) <= previousEnd
  /\ verdict = "valid" => position = Len(bitmaps) + 1

\* The end of a bitmap is a number past its base.
LEMMA EndsPast ==
  ASSUME NEW b \in Bitmap
  PROVE  EndOf(b) \in Nat /\ b.base \in Nat /\ b.count \in Nat /\ EndOf(b) >= b.base
<1>1. b.base \in Nat /\ b.count \in Nat
  BY BitmapAssumption DEF Bitmap, Label
<1> QED BY <1>1 DEF EndOf

\* Validation keeps CheckedOK: the ends are looked at one by one, and yet every
\* bitmap ends before every later one begins.
LEMMA CheckedHolds == BitmapSpec => []CheckedOK
<1>1. BitmapInit => CheckedOK
  BY BitmapAssumption DEF BitmapInit, CheckedOK
<1>2. CheckedOK /\ [BitmapNext]_bitmapVars => CheckedOK'
  <2> SUFFICES ASSUME CheckedOK, [BitmapNext]_bitmapVars PROVE CheckedOK'
    OBVIOUS
  <2> USE DEF CheckedOK
  <2>1. CASE UNCHANGED bitmapVars
    BY <2>1 DEF bitmapVars, WellFormed, BytesFor, EndOf
  <2>2. CASE AcceptBitmaps
    BY <2>2 DEF AcceptBitmaps, WellFormed, BytesFor, EndOf
  <2>3. CASE CheckBitmap
    <3> DEFINE b == bitmaps[position]
    <3>0. verdict = "checking" /\ position <= Len(bitmaps) /\ b \in Bitmap
      BY <2>3 DEF CheckBitmap
    <3>1. CASE /\ WellFormed(b) /\ Ordered(b)
               /\ previousEnd' = EndOf(b) /\ position' = position + 1
               /\ UNCHANGED <<bitmaps, verdict>>
      <4>1. EndOf(b) \in Nat /\ b.base \in Nat /\ EndOf(b) >= b.base
        BY <3>0, EndsPast
      <4>2. \A i \in 1..position - 1 : EndOf(bitmaps[i]) <= b.base
        <5> TAKE i \in 1..position - 1
        <5>1. EndOf(bitmaps[i]) <= previousEnd /\ b.base >= previousEnd
          BY <3>1 DEF Ordered
        <5>2. bitmaps[i] \in Bitmap
          BY <3>0
        <5>3. EndOf(bitmaps[i]) \in Nat
          BY <5>2, EndsPast
        <5> QED BY <4>1, <5>1, <5>3
      <4>3. \A i \in 1..position - 1 : EndOf(bitmaps[i]) <= EndOf(b)
        <5> TAKE i \in 1..position - 1
        <5>1. bitmaps[i] \in Bitmap
          BY <3>0
        <5>2. EndOf(bitmaps[i]) \in Nat
          BY <5>1, EndsPast
        <5> QED BY <4>1, <4>2, <5>2
      <4>4. \A i \in 1..position : i \in 1..position - 1 \/ i = position
        BY <3>0
      <4>5. /\ \A i \in 1..position : WellFormed(bitmaps[i])
            /\ \A i \in 1..position : EndOf(bitmaps[i]) <= EndOf(b)
        BY <3>1, <4>1, <4>3, <4>4
      <4>6. \A i, j \in 1..position : i < j => EndOf(bitmaps[i]) <= bitmaps[j].base
        <5> TAKE i, j \in 1..position
        <5>1. CASE j = position
          BY <5>1, <4>2, <4>4
        <5>2. CASE j # position
          BY <5>2, <4>4
        <5> QED BY <5>1, <5>2
      <4>7. position' - 1 = position /\ bitmaps' = bitmaps
        BY <3>0, <3>1
      <4> QED BY <3>0, <3>1, <4>1, <4>5, <4>6, <4>7
            DEF WellFormed, BytesFor, EndOf
    <3>2. CASE /\ verdict' = "refused"
               /\ UNCHANGED <<bitmaps, position, previousEnd>>
      BY <3>2 DEF WellFormed, BytesFor, EndOf
    <3> QED BY <2>3, <3>1, <3>2 DEF CheckBitmap
  <2> QED BY <2>1, <2>2, <2>3 DEF BitmapNext
<1> QED BY <1>1, <1>2, PTL DEF BitmapSpec

\* A bit of a byte, and its place in the whole bitmap.
LEMMA BytePlace ==
  ASSUME NEW n \in Nat, NEW j \in 0..7
  PROVE  (8 * n + j) \div 8 = n /\ (8 * n + j) % 8 = j
OBVIOUS

LEMMA PlaceByte ==
  ASSUME NEW x \in Nat
  PROVE  /\ x \div 8 \in Nat /\ x % 8 \in 0..7
         /\ x = 8 * (x \div 8) + (x % 8)
OBVIOUS

\* A bit of the n-th byte of a whole number of bytes, or of the used part of
\* the last byte, lies below the count.
LEMMA BelowCount ==
  ASSUME NEW c \in Nat, NEW n \in Nat \ {0}, NEW j \in 0..7,
         n <= (c + 7) \div 8,
         n = (c + 7) \div 8 /\ c % 8 # 0 => j < c % 8
  PROVE  8 * (n - 1) + j < c
<1>1. PICK q \in Nat, r \in 0..7 : c = 8 * q + r
  <2>1. c \div 8 \in Nat /\ c % 8 \in 0..7 /\ c = 8 * (c \div 8) + (c % 8)
    BY PlaceByte
  <2> QED BY <2>1
<1>2. c % 8 = r
  BY <1>1, BytePlace
<1>3. CASE r = 0
  <2>1. c + 7 = 8 * q + 7
    BY <1>1, <1>3
  <2>2. (c + 7) \div 8 = q
    BY <2>1, BytePlace
  <2> QED BY <1>1, <1>3, <2>2
<1>4. CASE r # 0
  <2>1. c + 7 = 8 * (q + 1) + (r - 1) /\ r - 1 \in 0..7 /\ q + 1 \in Nat
    BY <1>1, <1>4
  <2>2. (c + 7) \div 8 = q + 1
    BY <2>1, BytePlace
  <2> QED BY <1>1, <1>2, <1>4, <2>2
<1> QED BY <1>3, <1>4

\* A bit below the count lies in one of the bytes.
LEMMA ByteExists ==
  ASSUME NEW c \in Nat, NEW x \in Nat, x < c
  PROVE  x \div 8 + 1 \in 1..((c + 7) \div 8)
<1>1. x \div 8 \in Nat /\ x % 8 \in 0..7 /\ x = 8 * (x \div 8) + (x % 8)
  BY PlaceByte
<1>2. /\ (c + 7) \div 8 \in Nat /\ (c + 7) % 8 \in 0..7
      /\ c + 7 = 8 * ((c + 7) \div 8) + ((c + 7) % 8)
  BY PlaceByte
<1> QED BY <1>1, <1>2

\* What a well-formed bitmap stands for is a bit of it that is set: bytes and
\* bit positions correspond, and no bit lies past its count.
LEMMA BitsStand ==
  ASSUME NEW b \in Bitmap, WellFormed(b), NEW label \in Nat
  PROVE  Stands(b, label) <=>
           /\ b.base <= label /\ label - b.base < b.count
           /\ BitSet(b, label - b.base)
<1>1. /\ b.base \in Nat /\ b.count \in Nat /\ b.bits \in Seq(SUBSET (0..7))
      /\ Len(b.bits) = (b.count + 7) \div 8 /\ b.count > 0
  BY EndsPast DEF Bitmap, WellFormed, BytesFor
<1>2. ASSUME Stands(b, label)
      PROVE  /\ b.base <= label /\ label - b.base < b.count
             /\ BitSet(b, label - b.base)
  <2>1. PICK n \in DOMAIN b.bits : \E j \in b.bits[n] :
               label = b.base + 8 * (n - 1) + j
    BY <1>2 DEF Stands
  <2>2. PICK j \in b.bits[n] : label = b.base + 8 * (n - 1) + j
    BY <2>1
  <2>3. n \in Nat \ {0} /\ n <= Len(b.bits) /\ b.bits[n] \in SUBSET (0..7)
    BY <1>1
  <2>4. j \in 0..7 /\ n - 1 \in Nat
    BY <2>2, <2>3
  <2>5. b.base <= label /\ label - b.base = 8 * (n - 1) + j
    <3>1. ASSUME NEW a \in Nat, NEW m \in Nat, label = a + 8 * m + j
          PROVE  a <= label /\ label - a = 8 * m + j
      BY <2>4, <3>1
    <3> QED BY <1>1, <2>2, <2>4, <3>1
  <2>6. /\ (label - b.base) \div 8 = n - 1
        /\ (label - b.base) % 8 = j
    BY <2>4, <2>5, BytePlace
  <2>7. BitSet(b, label - b.base)
    <3>1. (n - 1) + 1 = n
      BY <2>3
    <3> QED BY <2>2, <2>6, <3>1 DEF BitSet
  <2>8. 8 * (n - 1) + j < b.count
    <3>1. n = Len(b.bits) /\ b.count % 8 # 0 => j < b.count % 8
      BY <2>2 DEF WellFormed
    <3> QED BY <1>1, <2>3, <2>4, <3>1, BelowCount
  <2> QED BY <2>5, <2>7, <2>8
<1>3. ASSUME b.base <= label, label - b.base < b.count, BitSet(b, label - b.base)
      PROVE  Stands(b, label)
  <2> DEFINE x == label - b.base
             n == x \div 8 + 1
  <2>1. x \in Nat
    BY <1>1, <1>3
  <2>2. x \div 8 \in Nat /\ x % 8 \in 0..7 /\ x = 8 * (x \div 8) + (x % 8)
    BY <2>1, PlaceByte
  <2>3. n \in 1..Len(b.bits)
    BY <1>1, <1>3, <2>1, ByteExists
  <2>4. n \in DOMAIN b.bits
    BY <1>1, <2>3
  <2>5. x % 8 \in b.bits[n]
    BY <1>3 DEF BitSet
  <2>6. label = b.base + 8 * (n - 1) + (x % 8)
    <3>1. ASSUME NEW y \in Nat, NEW q \in Nat, NEW r \in 0..7, NEW a \in Nat,
                 y = label - a, y = 8 * q + r
          PROVE  label = a + 8 * ((q + 1) - 1) + r
      BY <3>1
    <3>2. b.base \in Nat /\ x = label - b.base
      BY <1>1
    <3> DEFINE q == x \div 8
               r == x % 8
    <3>3. q \in Nat /\ r \in 0..7 /\ x = 8 * q + r
      BY <2>2
    <3> HIDE DEF q, r, x
    <3>4. label = b.base + 8 * ((q + 1) - 1) + r
      BY <2>1, <3>1, <3>2, <3>3
    <3> QED BY <3>4 DEF q, r
  <2> QED BY <2>4, <2>5, <2>6 DEF Stands
<1> QED BY <1>2, <1>3

\* A list whose bitmaps are well formed and end before the next begins.
LEMMA LookupExact ==
  ASSUME NEW bs \in Seq(Bitmap), NEW label \in Nat,
         \A i \in 1..Len(bs) : WellFormed(bs[i]),
         \A i, j \in 1..Len(bs) : i < j => EndOf(bs[i]) <= bs[j].base
  PROVE  LabelInBitmaps(bs, label) <=> \E i \in DOMAIN bs : Stands(bs[i], label)
<1>1. \A i \in 1..Len(bs) : bs[i] \in Bitmap
  OBVIOUS
<1>2. DOMAIN bs = 1..Len(bs)
  OBVIOUS
<1>3. \A i \in 1..Len(bs) :
        Stands(bs[i], label) <=>
          /\ bs[i].base <= label /\ label - bs[i].base < bs[i].count
          /\ BitSet(bs[i], label - bs[i].base)
  BY <1>1, BitsStand
<1>4. ASSUME LabelInBitmaps(bs, label)
      PROVE  \E i \in DOMAIN bs : Stands(bs[i], label)
  <2>1. PICK p \in DOMAIN bs : /\ PartitionPoint(bs, label, p)
                              /\ label - bs[p].base < bs[p].count
                              /\ BitSet(bs[p], label - bs[p].base)
    BY <1>4 DEF LabelInBitmaps
  <2>2. bs[p].base <= label
    BY <1>2, <2>1 DEF PartitionPoint
  <2> QED BY <1>2, <1>3, <2>1, <2>2
<1>5. ASSUME NEW p \in DOMAIN bs, Stands(bs[p], label)
      PROVE  LabelInBitmaps(bs, label)
  <2>1. /\ bs[p].base <= label /\ label - bs[p].base < bs[p].count
        /\ BitSet(bs[p], label - bs[p].base)
    BY <1>2, <1>3, <1>5
  <2>2. PartitionPoint(bs, label, p)
    <3> SUFFICES ASSUME NEW i \in 1..Len(bs) PROVE bs[i].base <= label <=> i <= p
      BY <1>2 DEF PartitionPoint
    <3>0. /\ EndOf(bs[i]) \in Nat /\ bs[i].base \in Nat /\ EndOf(bs[i]) >= bs[i].base
          /\ bs[p].base \in Nat /\ bs[p].count \in Nat /\ p \in 1..Len(bs)
      BY <1>1, <1>2, EndsPast
    <3>1. CASE i < p
      <4>1. EndOf(bs[i]) <= bs[p].base
        BY <3>0, <3>1
      <4> QED BY <2>1, <3>0, <3>1, <4>1
    <3>2. CASE i = p
      BY <2>1, <3>0, <3>2
    <3>3. CASE i > p
      <4>1. EndOf(bs[p]) <= bs[i].base
        BY <3>0, <3>3
      <4>2. label < bs[p].base + bs[p].count
        BY <2>1, <3>0
      <4>3. label < bs[i].base
        BY <3>0, <4>1, <4>2 DEF EndOf
      <4> QED BY <3>0, <3>3, <4>3
    <3> QED BY <3>0, <3>1, <3>2, <3>3
  <2> QED BY <2>1, <2>2 DEF LabelInBitmaps
<1> QED BY <1>4, <1>5

\* Over every list validation accepts, of any length, with bitmaps of any base
\* and count below u64::MAX, label_in_bitmaps admits a label exactly when some
\* bitmap of the list has its bit set.
THEOREM BitmapsAdmitExactly == BitmapSpec => []AdmitsExactly
<1>1. CheckedOK => AdmitsExactly
  <2> SUFFICES ASSUME CheckedOK, verdict = "valid", NEW label \in Label
               PROVE  LabelInBitmaps(bitmaps, label) <=>
                        \E i \in DOMAIN bitmaps : Stands(bitmaps[i], label)
    BY DEF AdmitsExactly
  <2>1. position - 1 = Len(bitmaps) /\ bitmaps \in Seq(Bitmap)
    BY DEF CheckedOK
  <2>2. label \in Nat
    BY BitmapAssumption DEF Label
  <2>3. /\ \A i \in 1..Len(bitmaps) : WellFormed(bitmaps[i])
        /\ \A i, j \in 1..Len(bitmaps) : i < j => EndOf(bitmaps[i]) <= bitmaps[j].base
    BY <2>1 DEF CheckedOK
  <2> QED BY <2>1, <2>2, <2>3, LookupExact
<1> QED BY <1>1, CheckedHolds, PTL

================================================================================
