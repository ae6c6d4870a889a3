------------------------------ MODULE LabelBitmaps ------------------------------
(***************************************************************************)
(* Packed label filters (service.rs): validate_label_bitmaps, which a      *)
(* request's bitmaps go through first, one iteration of its loop a step,   *)
(* and label_in_bitmaps, by which a scan then admits a row's label.        *)
(*                                                                         *)
(* A byte is the set of its bits that are set, the least significant       *)
(* first.  MaxLabel is u64::MAX.                                           *)
(***************************************************************************)
EXTENDS Naturals, Sequences

CONSTANTS
  MaxLabel,      \* the largest label
  BitmapLists    \* the lists of bitmaps requests may carry

Label == 0..MaxLabel
Bitmap == [base : Label, count : Label, bits : Seq(SUBSET (0..7))]

ASSUME BitmapAssumption ==
  MaxLabel \in Nat /\ BitmapLists \subseteq Seq(Bitmap)

VARIABLES
  bitmaps,      \* the list the request carries
  position,     \* the bitmap looked at next
  previousEnd,  \* one past the labels of the bitmap before it
  verdict       \* "checking", "valid" or "refused"

bitmapVars == <<bitmaps, position, previousEnd, verdict>>

BitmapInit ==
  /\ bitmaps \in BitmapLists
  /\ position = 1
  /\ previousEnd = 0
  /\ verdict = "checking"

--------------------------------------------------------------------------------
BytesFor(count) == (count + 7) \div 8
EndOf(b) == b.base + b.count

\* Variants (sensitivity of AdmitsExactly): the padding of the last byte not
\* looked at, and a bitmap allowed to begin at the last label of the one before.
WellFormedAnyPadding(b) ==
  /\ b.count > 0
  /\ Len(b.bits) = BytesFor(b.count)
  /\ EndOf(b) <= MaxLabel
OrderedLoosely(b) == position = 1 \/ b.base + 1 >= previousEnd

\* The checks of one bitmap by itself: not empty, the right number of bytes, no
\* overflow of its end, no bits set past its count.
WellFormed(b) ==
  /\ b.count > 0
  /\ Len(b.bits) = BytesFor(b.count)
  /\ EndOf(b) <= MaxLabel
  /\ b.count % 8 # 0 =>
       \A j \in b.bits[Len(b.bits)] : j < b.count % 8

\* Its place in the list: after the end of the one before.
Ordered(b) == position = 1 \/ b.base >= previousEnd

CheckBitmap ==
  /\ verdict = "checking" /\ position <= Len(bitmaps)
  /\ LET b == bitmaps[position] IN
       \/ /\ WellFormed(b) /\ Ordered(b)
          /\ previousEnd' = EndOf(b)
          /\ position' = position + 1
          /\ UNCHANGED <<bitmaps, verdict>>
       \/ /\ ~(WellFormed(b) /\ Ordered(b))
          /\ verdict' = "refused"
          /\ UNCHANGED <<bitmaps, position, previousEnd>>

AcceptBitmaps ==
  /\ verdict = "checking" /\ position > Len(bitmaps)
  /\ verdict' = "valid"
  /\ UNCHANGED <<bitmaps, position, previousEnd>>

BitmapNext == CheckBitmap \/ AcceptBitmaps
BitmapSpec == BitmapInit /\ [][BitmapNext]_bitmapVars

--------------------------------------------------------------------------------
\* partition_point: exactly the first p bitmaps begin at or before the label.
PartitionPoint(bs, label, p) ==
  \A i \in DOMAIN bs : bs[i].base <= label <=> i <= p

\* Bit number x of a bitmap, found in its byte.
BitSet(b, x) == (x % 8) \in b.bits[x \div 8 + 1]

\* Only the last bitmap that begins at or before the label is looked at.
LabelInBitmaps(bs, label) ==
  \E p \in DOMAIN bs :
    /\ PartitionPoint(bs, label, p)
    /\ label - bs[p].base < bs[p].count
    /\ BitSet(bs[p], label - bs[p].base)

--------------------------------------------------------------------------------
\* The labels a bitmap stands for: bit i admits base_label + i
\* (turbovec.proto, LabelBitmap), for every bit of every byte it was sent.
Stands(b, label) ==
  \E n \in DOMAIN b.bits : \E j \in b.bits[n] :
    label = b.base + 8 * (n - 1) + j

\* Over a list that was accepted, the lookup, which searches one bitmap only,
\* admits exactly the labels some bitmap of the list stands for: no overlap, no
\* padding bit and no bound of the label type makes it miss or invent one.
AdmitsExactly ==
  verdict = "valid" =>
    \A label \in Label :
      LabelInBitmaps(bitmaps, label) <=>
        \E i \in DOMAIN bitmaps : Stands(bitmaps[i], label)

================================================================================
