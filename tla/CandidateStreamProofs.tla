------------------------- MODULE CandidateStreamProofs -------------------------
(***************************************************************************)
(* For any shards, rows, filters, floors and capacities: a candidate       *)
(* stream is well typed and keeps the contract of coordinator.proto.       *)
(*                                                                         *)
(* The inductive invariant Inv has five parts.  Typed: types, and that the *)
(* floors in use lie between the first and the last one.  ValidInv:        *)
(* nothing is scanned before the bitmaps were accepted, so that a scan's   *)
(* filter admits what was asked for (LabelBitmapsProofs).  PlaceInv: each  *)
(* candidate is in one event, pending, or sent.  SentInv: the count, and   *)
(* what a terminal message says while it waits for room.  OwedInv: every   *)
(* row owed at the last floor that its scan has passed is in an event,     *)
(* pending or sent, and is through before its shard's summary is.          *)
(***************************************************************************)
EXTENDS CandidateStream, LabelBitmapsProofs, FiniteSetTheorems

Phases == {"first", "check", "opening", "select", "flush", "reply", "done"}
Scans == {"idle", "poll", "block", "scanned", "stopped", "ended", "broken"}

\* Every variable is in its type, in four parts.
CallTyped ==
  /\ start \in Starts /\ gone \in BOOLEAN
  /\ sent \in Seq(MessageType)
  /\ read \in Nat /\ read <= Len(sent) /\ Len(sent) <= read + OutCap
TaskTyped ==
  /\ phase \in Phases /\ reply \in MessageType
  /\ opened \in 0..NumShards /\ completed \in SUBSET Shard
  /\ inboundOpen \in BOOLEAN
  /\ pending \in SUBSET Row /\ emitted \in 0..Cardinality(Row)
  /\ phase \in {"first", "check", "opening"} => opened < NumShards
FloorsTyped ==
  /\ raised \subseteq Int /\ scanFloor \in [Shard -> Int]
  /\ LastFloor \in raised /\ \A f \in raised : start.floor <= f /\ f <= LastFloor
  /\ \A s \in Shard : scanFloor[s] \in raised
ShardsTyped ==
  /\ stop \in [Shard -> BOOLEAN] /\ listening \in [Shard -> BOOLEAN]
  /\ events \in [Shard -> Seq(EventType)]
  /\ scan \in [Shard -> Scans] /\ next \in [Shard -> Nat \ {0}]
  /\ \A s \in Shard : /\ Len(events[s]) <= QueueCap + 1
                      /\ scan[s] # "broken" => Len(events[s]) <= QueueCap

\* A shard is scanned only from the moment it is opened.
OpenedInv ==
  /\ \A s \in Shard : listening[s] => scan[s] # "idle"
  /\ phase \in {"first", "check", "opening"} =>
       \A s \in Shard : s > opened => scan[s] = "idle"
Typed == CallTyped /\ TaskTyped /\ FloorsTyped /\ ShardsTyped /\ OpenedInv

\* Nothing is scanned before the bitmaps were accepted.
ValidInv ==
  /\ phase \in {"opening", "select", "flush"} => verdict = "valid"
  /\ \A s \in Shard : scan[s] # "idle" => verdict = "valid"

\* The rows sent to the caller, and those on their way from a shard.
Sent == UNION {sent[i].rows : i \in DOMAIN sent}
InEvents(s) == UNION {events[s][i].rows : i \in DOMAIN events[s]}
Scanned(s) == {r \in Row : r[1] = s /\ r[2] < next[s]}

\* Each candidate is at one place: in one event, pending, or sent; and it is a
\* row that was asked for and scanned.
EventRows(s, i) ==
  /\ events[s][i].rows \subseteq Asked(start.floor) \intersect Scanned(s)
  /\ events[s][i].rows \intersect (pending \union Sent) = {}
  /\ events[s][i].kind = "batch" <=> events[s][i].rows # {}
  /\ \A j \in DOMAIN events[s] :
       i # j => events[s][i].rows \intersect events[s][j].rows = {}
PlaceInv ==
  /\ \A s \in Shard : \A i \in DOMAIN events[s] : EventRows(s, i)
  /\ pending \union Sent \subseteq Asked(start.floor)
  /\ \A r \in pending \union Sent : r \in Scanned(r[1])
  /\ pending \intersect Sent = {}

\* What the coordinator has sent and is about to send.
ReplyInv ==
  \/ reply = Status /\ sent = <<>>
  \/ reply = Incomplete
  \/ reply = Complete /\ Asked(LastFloor) \subseteq Sent
SentInv ==
  /\ phase # "done" => /\ emitted = Cardinality(Sent)
                       /\ \A i \in DOMAIN sent : sent[i].kind = "batch"
  /\ phase \in {"first", "check"} => sent = <<>>
  /\ phase = "flush" => pending # {}
  /\ phase = "reply" => ReplyInv

\* The rows of a shard that are owed at the floor told last.
Owed(s) == {r \in Asked(LastFloor) : r[1] = s}
Through == pending \union Sent
SummaryInv(s) ==
  \A i \in DOMAIN events[s] : events[s][i].kind = "summary" =>
    \A r \in Owed(s) : r \in Through \/ \E j \in 1..(i - 1) : r \in events[s][j].rows
ScanInv(s) ==
  /\ scan[s] \in {"idle", "poll", "block", "scanned"} =>
       Owed(s) \intersect Scanned(s) \subseteq Through \union InEvents(s)
  /\ scan[s] = "scanned" => next[s] > ShardLen[s]
Scanning == phase \in {"first", "check", "opening", "select", "flush"}
OwedInv ==
  Scanning =>
    /\ \A s \in Shard : SummaryInv(s) /\ ScanInv(s)
    /\ \A s \in completed : Owed(s) \subseteq Through

Inv == Typed /\ ValidInv /\ PlaceInv /\ SentInv /\ OwedInv

LEMMA RowFacts ==
  ASSUME NEW r \in Row
  PROVE  /\ r[1] \in Shard /\ ShardLen[r[1]] \in Nat /\ r[2] \in 1..ShardLen[r[1]]
         /\ r = <<r[1], r[2]>>
BY StreamAssumption DEF Row

\* What the assumptions say of the constants, and that rows are finitely many.
LEMMA Constants ==
  /\ NumShards \in Nat \ {0} /\ Shard = 1..NumShards /\ ShardLen \in [Shard -> Nat]
  /\ OutCap \in Nat \ {0} /\ QueueCap \in Nat \ {0} /\ BatchRows \in Nat \ {0}
  /\ Floors \subseteq Int
  /\ IsFiniteSet(Row) /\ Cardinality(Row) \in Nat
<1>1. \A s \in Shard : IsFiniteSet({s} \X (1..ShardLen[s]))
  <2> SUFFICES ASSUME NEW s \in Shard PROVE IsFiniteSet({s} \X (1..ShardLen[s]))
    OBVIOUS
  <2>1. ShardLen[s] \in Int
    BY StreamAssumption
  <2>2. IsFiniteSet(1..ShardLen[s])
    BY <2>1, FS_Interval
  <2> QED  BY <2>2, FS_Singleton, FS_Product
<1>2. IsFiniteSet(Shard)
  BY StreamAssumption, FS_Interval DEF Shard
<1>3. IsFiniteSet({{s} \X (1..ShardLen[s]) : s \in Shard})
  <2> DEFINE T == {{s} \X (1..ShardLen[s]) : s \in Shard}
             f == [s \in Shard |-> {s} \X (1..ShardLen[s])]
  <2>1. f \in Surjection(Shard, T)
    BY DEF Surjection
  <2> QED  BY <1>2, <2>1, FS_Surjection
<1>4. IsFiniteSet(Row)
  BY <1>1, <1>3, FS_UNION DEF Row
<1>5. Cardinality(Row) \in Nat
  BY <1>4, FS_CardinalityType
<1> QED  BY <1>4, <1>5, StreamAssumption DEF Shard

\* A floor of those told that none is above is the last floor.
LEMMA HighestFloor ==
  ASSUME raised' \subseteq Int, NEW m \in Int, m \in raised', \A f \in raised' : f <= m
  PROVE  LastFloor' = m
<1> DEFINE top == CHOOSE x \in raised' : \A y \in raised' : x >= y
<1>1. \E x \in raised' : \A y \in raised' : x >= y
  OBVIOUS
<1>2. top \in raised' /\ \A y \in raised' : top >= y
  BY <1>1
<1>3. LastFloor' = top
  BY DEF LastFloor, Max
<1> HIDE DEF top
<1> QED  BY <1>2, <1>3

\* The steps that change what the caller sees, and (below) those that change the
\* other groups of variables.
LEMMA CallFrame ==
  ASSUME [Next]_vars
  PROVE  UNCHANGED callVars \/ Flush \/ SendReply \/ Read \/ Leave
BY DEF Next, Proceed, Caller, Work, Take, vars, ReceiveFirst, ValidateBitmaps, OpenShard,
       OpenFails, CallerIsGone, Deadline, FlushTick, RaiseFloor, CallerStops, CallerErrs,
       CallerCloses, TakeBatch, TakeSummary, TakeFailure, TakeClosed, Exhausted, Poll,
       ScanBlock, SendFails, Summarise, StreamBreaks, ReaderGone

\* The steps that change the other groups.
LEMMA TaskFrame ==
  ASSUME [Next]_vars
  PROVE  \/ UNCHANGED taskVars
         \/ ReceiveFirst \/ ValidateBitmaps \/ OpenShard \/ OpenFails
         \/ Flush \/ SendReply \/ CallerIsGone
         \/ Deadline \/ FlushTick \/ RaiseFloor \/ CallerStops \/ CallerErrs \/ CallerCloses
         \/ Exhausted
         \/ \E s \in Shard : TakeBatch(s) \/ TakeSummary(s) \/ TakeFailure(s)
BY DEF Next, Proceed, Caller, Work, Take, vars, Read, Leave, TakeClosed, Poll,
       ScanBlock, SendFails, Summarise, StreamBreaks, ReaderGone

LEMMA FloorFrame ==
  ASSUME [Next]_vars
  PROVE  \/ UNCHANGED <<raised, scanFloor>> \/ RaiseFloor
         \/ \E s \in Shard : Poll(s)
BY DEF Next, Proceed, Caller, Work, Take, vars, callVars, taskVars, shardVars,
       ReceiveFirst, ValidateBitmaps, OpenShard, Flush, SendReply, Read, Leave,
       OpenFails, CallerIsGone, Deadline, FlushTick, CallerStops, CallerErrs,
       CallerCloses, TakeBatch, TakeSummary, TakeFailure, TakeClosed, Exhausted,
       ScanBlock, SendFails, Summarise, StreamBreaks, ReaderGone

LEMMA ShardFrame ==
  ASSUME [Next]_vars
  PROVE  \/ UNCHANGED <<events, listening, scan, next>>
         \/ OpenShard \/ OpenFails
         \/ \E s \in Shard : \/ Take(s) \/ Poll(s) \/ ScanBlock(s) \/ SendFails(s)
                             \/ Summarise(s) \/ StreamBreaks(s) \/ ReaderGone(s)
BY DEF Next, Proceed, Caller, Work, vars, callVars, taskVars, shardVars,
       ReceiveFirst, ValidateBitmaps, Flush, SendReply, Read, Leave,
       CallerIsGone, Deadline, FlushTick, RaiseFloor, CallerStops, CallerErrs,
       CallerCloses, Exhausted

LEMMA StopFrame ==
  ASSUME [Next]_vars
  PROVE  UNCHANGED stop \/ StopShards
BY DEF Next, Proceed, Caller, Work, Take, vars, callVars, taskVars, shardVars, Return,
       ReceiveFirst, ValidateBitmaps, OpenShard, Flush, SendReply, Read, Leave,
       OpenFails, CallerIsGone, Deadline, FlushTick, RaiseFloor, CallerStops, CallerErrs,
       CallerCloses, TakeBatch, TakeSummary, TakeFailure, TakeClosed, Exhausted, Poll,
       ScanBlock, SendFails, Summarise, StreamBreaks, ReaderGone

\* What the caller sent at the start never changes.
LEMMA StartFixed ==
  ASSUME [Next]_vars
  PROVE  start' = start /\ bitmaps' = bitmaps
BY DEF Next, Proceed, Caller, Work, Take, vars, callVars, taskVars, shardVars, bitmapVars,
       BitmapNext, CheckBitmap, AcceptBitmaps,
       ReceiveFirst, ValidateBitmaps, OpenShard, Flush, SendReply, Read, Leave,
       OpenFails, CallerIsGone, Deadline, FlushTick, RaiseFloor, CallerStops, CallerErrs,
       CallerCloses, TakeBatch, TakeSummary, TakeFailure, TakeClosed, Exhausted, Poll,
       ScanBlock, SendFails, Summarise, StreamBreaks, ReaderGone

\* Messages.
LEMMA MessageIs ==
  ASSUME NEW kind \in {"none", "batch", "complete", "incomplete", "status"},
         NEW R \in SUBSET Row, NEW n \in 0..Cardinality(Row)
  PROVE  Message(kind, R, n) \in MessageType
BY DEF Message, MessageType

\* What a message adds to the stream.
LEMMA SentAppend ==
  ASSUME sent \in Seq(MessageType), NEW m \in MessageType, sent' = Append(sent, m)
  PROVE  /\ sent' \in Seq(MessageType) /\ Len(sent') = Len(sent) + 1
         /\ Sent' = Sent \union m.rows
         /\ DOMAIN sent' = DOMAIN sent \union {Len(sent) + 1}
         /\ \A i \in DOMAIN sent : sent'[i] = sent[i]
         /\ sent'[Len(sent) + 1] = m
<1>1. /\ sent' \in Seq(MessageType) /\ Len(sent') = Len(sent) + 1 /\ Len(sent) \in Nat
      /\ DOMAIN sent' = 1..(Len(sent) + 1) /\ DOMAIN sent = 1..Len(sent)
      /\ \A i \in DOMAIN sent : sent'[i] = sent[i]
      /\ sent'[Len(sent) + 1] = m
  OBVIOUS
<1>2. DOMAIN sent' = DOMAIN sent \union {Len(sent) + 1}
  BY <1>1
<1>3. Sent' = Sent \union m.rows
  BY <1>1, <1>2 DEF Sent
<1> QED  BY <1>1, <1>2, <1>3

\* What was sent are rows, counted by a number.
LEMMA SentRows ==
  ASSUME sent \in Seq(MessageType)
  PROVE  Sent \subseteq Row /\ IsFiniteSet(Sent) /\ Cardinality(Sent) \in 0..Cardinality(Row)
<1>1. Sent \subseteq Row
  <2> SUFFICES ASSUME NEW i \in DOMAIN sent PROVE sent[i].rows \subseteq Row
    BY DEF Sent
  <2>1. sent[i] \in MessageType
    OBVIOUS
  <2> QED  BY <2>1 DEF MessageType
<1>2. IsFiniteSet(Sent) /\ Cardinality(Sent) <= Cardinality(Row)
  BY <1>1, Constants, FS_Subset
<1>3. Cardinality(Sent) \in Nat
  BY <1>2, FS_CardinalityType
<1> QED  BY <1>1, <1>2, <1>3, Constants

\* Flushing counts each candidate once, since none that is pending was sent.
LEMMA FlushCounts ==
  ASSUME CallTyped, TaskTyped, PlaceInv, SentInv, Flush
  PROVE  /\ emitted' = Cardinality(Sent') /\ Sent' = Sent \union pending
         /\ emitted' \in 0..Cardinality(Row)
         /\ Message("batch", pending, 0) \in MessageType
<1>1. pending \subseteq Row /\ IsFiniteSet(pending) /\ Cardinality(pending) \in Nat
  BY Constants, FS_Subset, FS_CardinalityType DEF TaskTyped
<1>2. Message("batch", pending, 0) \in MessageType
  BY <1>1, Constants, MessageIs
<1>3. Sent' = Sent \union pending /\ sent' \in Seq(MessageType)
  BY <1>2, SentAppend DEF Flush, CallTyped, Message
<1>4. IsFiniteSet(Sent) /\ Cardinality(Sent) \in Nat
  BY SentRows DEF CallTyped
<1>5. Cardinality(Sent \union pending) =
        Cardinality(Sent) + Cardinality(pending) - Cardinality(Sent \intersect pending)
  BY <1>1, <1>4, FS_Union
<1>6. Sent \intersect pending = {}
  BY DEF PlaceInv
<1>7. Cardinality(Sent \union pending) = Cardinality(Sent) + Cardinality(pending)
  BY <1>1, <1>4, <1>5, <1>6, FS_EmptySet
<1>8. Sent \union pending \subseteq Row
  BY <1>1, SentRows DEF CallTyped
<1>9. /\ Cardinality(Sent \union pending) \in Nat
      /\ Cardinality(Sent \union pending) <= Cardinality(Row)
  BY <1>8, Constants, FS_Subset, FS_CardinalityType
<1>10. emitted = Cardinality(Sent) /\ emitted' = emitted + Cardinality(pending)
  BY DEF Flush, SentInv
<1>11. emitted' = Cardinality(Sent \union pending)
  BY <1>7, <1>10
<1> QED  BY <1>2, <1>3, <1>9, <1>11, Constants

\* A step keeps each part of the types.
LEMMA CallNext ==
  ASSUME Typed, SentInv, PlaceInv, [Next]_vars PROVE CallTyped'
<1> USE DEF Typed, CallTyped
<1>1. start' = start
  BY StartFixed
<1>2. /\ Len(sent) \in Nat /\ OutCap \in Nat
      /\ HasRoom <=> Len(sent) - read < OutCap
  BY Constants DEF HasRoom
<1>3. CASE UNCHANGED callVars
  BY <1>3 DEF callVars
<1>4. CASE Flush
  <2>1. Message("batch", pending, 0) \in MessageType
    BY <1>4, FlushCounts
  <2>2. sent' \in Seq(MessageType) /\ Len(sent') = Len(sent) + 1
    BY <1>4, <2>1, SentAppend DEF Flush
  <2> QED  BY <1>1, <1>2, <1>4, <2>2 DEF Flush
<1>5. CASE SendReply
  <2>1. sent' \in Seq(MessageType) /\ Len(sent') = Len(sent) + 1
    BY <1>5, SentAppend DEF SendReply, TaskTyped
  <2> QED  BY <1>1, <1>2, <1>5, <2>1 DEF SendReply
<1>6. CASE Read
  BY <1>2, <1>6 DEF Read
<1>7. CASE Leave
  BY <1>7 DEF Leave
<1> QED  BY <1>3, <1>4, <1>5, <1>6, <1>7, CallFrame

LEMMA TaskNext ==
  ASSUME Typed, SentInv, PlaceInv, [Next]_vars PROVE TaskTyped'
<1> USE DEF Typed, TaskTyped
<1>1. /\ Status \in MessageType /\ NoReply \in MessageType
      /\ Incomplete \in MessageType /\ Complete \in MessageType
  BY Constants, MessageIs DEF Status, NoReply, Incomplete, Complete
<1>2. CASE UNCHANGED taskVars
  BY <1>2 DEF taskVars
<1>3. CASE ReceiveFirst \/ ValidateBitmaps
  BY <1>1, <1>3 DEF ReceiveFirst, ValidateBitmaps, EndWith, Phases
<1>4. CASE OpenShard
  <2>1. opened + 1 \in 0..NumShards /\ (opened + 1 # NumShards => opened + 1 < NumShards)
    BY <1>4, Constants DEF OpenShard
  <2> QED  BY <1>4, <2>1 DEF OpenShard, Phases
<1>5. CASE OpenFails \/ Deadline \/ CallerStops \/ CallerErrs \/ Exhausted
  BY <1>1, <1>5 DEF OpenFails, Deadline, CallerStops, CallerErrs, Exhausted, EndWith, Phases
<1>6. CASE Flush
  <2>1. emitted' \in 0..Cardinality(Row)
    BY <1>6, FlushCounts
  <2> QED  BY <1>6, <2>1 DEF Flush, Phases
<1>7. CASE SendReply \/ CallerIsGone
  <2>1. 0 \in 0..NumShards /\ 0 \in 0..Cardinality(Row)
    BY Constants
  <2>2. phase' = "done" /\ reply' = NoReply /\ opened' = 0 /\ completed' = {}
        /\ inboundOpen' = FALSE /\ pending' = {} /\ emitted' = 0
    BY <1>7 DEF SendReply, CallerIsGone, Return
  <2> QED  BY <1>1, <2>1, <2>2 DEF Phases
<1>8. CASE FlushTick \/ RaiseFloor \/ CallerCloses
  BY <1>8 DEF FlushTick, RaiseFloor, CallerCloses, Selecting, Phases
<1>9. ASSUME NEW s \in Shard, TakeBatch(s) PROVE TaskTyped'
  <2>1. events[s] \in Seq(EventType) /\ events[s] # <<>>
    BY <1>9 DEF TakeBatch, TakesFrom, ShardsTyped
  <2>2. Head(events[s]) \in EventType
    BY <2>1
  <2> QED  BY <1>9, <2>2 DEF TakeBatch, TakesFrom, Selecting, Phases, EventType
<1>10. ASSUME NEW s \in Shard, TakeSummary(s) PROVE TaskTyped'
  BY <1>10 DEF TakeSummary, TakesFrom, Selecting, Phases
<1>11. ASSUME NEW s \in Shard, TakeFailure(s) PROVE TaskTyped'
  BY <1>1, <1>11 DEF TakeFailure, EndWith, Phases
<1> QED  BY <1>2, <1>3, <1>4, <1>5, <1>6, <1>7, <1>8, <1>9, <1>10, <1>11, TaskFrame

LEMMA FloorNext ==
  ASSUME Typed, [Next]_vars PROVE FloorsTyped'
<1> USE DEF Typed, FloorsTyped
<1>1. start' = start /\ start.floor \in Int
  BY StartFixed, StreamAssumption DEF CallTyped, StartType
<1>2. CASE UNCHANGED <<raised, scanFloor>>
  BY <1>1, <1>2 DEF LastFloor
<1>3. CASE RaiseFloor
  <2>1. PICK f \in Floors : f > LastFloor /\ raised' = raised \union {f}
    BY <1>3 DEF RaiseFloor
  <2>2. f \in Int /\ LastFloor \in Int
    BY Constants
  <2>3. \A g \in raised : g \in Int /\ start.floor <= g /\ g <= LastFloor
    OBVIOUS
  <2>4. raised' \subseteq Int /\ f \in raised' /\ \A g \in raised' : start.floor <= g /\ g <= f
    BY <1>1, <2>1, <2>2, <2>3
  <2>5. LastFloor' = f
    BY <2>2, <2>4, HighestFloor
  <2>6. scanFloor' = scanFloor
    BY <1>3 DEF RaiseFloor, shardVars
  <2> QED  BY <1>1, <2>1, <2>4, <2>5, <2>6
<1>4. ASSUME NEW s \in Shard, Poll(s) PROVE FloorsTyped'
  <2>1. UNCHANGED raised /\ LastFloor' = LastFloor
    BY <1>4 DEF Poll, taskVars, LastFloor
  <2>2. scanFloor' \in [Shard -> Int] /\ \A u \in Shard : scanFloor'[u] \in raised
    BY <1>4 DEF Poll
  <2> QED  BY <1>1, <2>1, <2>2
<1> QED  BY <1>2, <1>3, <1>4, FloorFrame

\* Queues of events.
LEMMA QueueAppend ==
  ASSUME NEW q \in Seq(EventType), NEW e \in EventType
  PROVE  /\ Append(q, e) \in Seq(EventType) /\ Len(Append(q, e)) = Len(q) + 1
         /\ DOMAIN Append(q, e) = DOMAIN q \union {Len(q) + 1}
         /\ Len(q) \in Nat /\ DOMAIN q = 1..Len(q)
         /\ \A i \in DOMAIN q : Append(q, e)[i] = q[i]
         /\ Append(q, e)[Len(q) + 1] = e
OBVIOUS

LEMMA QueueTail ==
  ASSUME NEW q \in Seq(EventType), q # <<>>
  PROVE  /\ Head(q) \in EventType /\ Head(q) = q[1] /\ 1 \in DOMAIN q
         /\ Tail(q) \in Seq(EventType) /\ Len(Tail(q)) = Len(q) - 1
         /\ DOMAIN q = 1..Len(q) /\ DOMAIN Tail(q) = 1..(Len(q) - 1) /\ Len(q) \in Nat \ {0}
         /\ \A i \in DOMAIN Tail(q) : i + 1 \in DOMAIN q /\ Tail(q)[i] = q[i + 1]
<1>1. Len(q) \in Nat \ {0}
  OBVIOUS
<1>2. DOMAIN Tail(q) = 1..(Len(q) - 1) /\ Tail(q) \in Seq(EventType)
  OBVIOUS
<1>3. \A i \in 1..(Len(q) - 1) : Tail(q)[i] = q[i + 1]
  OBVIOUS
<1> QED  BY <1>1, <1>2, <1>3

LEMMA QueueCut ==
  ASSUME NEW q \in Seq(EventType), NEW kept \in 0..Len(q), NEW e \in EventType
  PROVE  /\ Append(SubSeq(q, 1, kept), e) \in Seq(EventType)
         /\ Len(Append(SubSeq(q, 1, kept), e)) = kept + 1
         /\ DOMAIN Append(SubSeq(q, 1, kept), e) = 1..(kept + 1)
         /\ Len(q) \in Nat /\ DOMAIN q = 1..Len(q)
         /\ \A i \in 1..kept : i \in DOMAIN q /\ Append(SubSeq(q, 1, kept), e)[i] = q[i]
         /\ Append(SubSeq(q, 1, kept), e)[kept + 1] = e
<1>1. Len(q) \in Nat /\ kept \in Nat /\ kept <= Len(q)
  OBVIOUS
<1>2. SubSeq(q, 1, kept) \in Seq(EventType) /\ Len(SubSeq(q, 1, kept)) = kept
  BY <1>1
<1>3. \A i \in 1..kept : SubSeq(q, 1, kept)[i] = q[i]
  BY <1>1
<1> QED  BY <1>1, <1>2, <1>3, QueueAppend

\* The fields of an event.
LEMMA EventIs ==
  ASSUME NEW kind \in {"batch", "summary", "incomplete", "error", "closed"}, NEW R \in SUBSET Row
  PROVE  Event(kind, R) \in EventType /\ Event(kind, R).kind = kind /\ Event(kind, R).rows = R
BY DEF Event, EventType

\* What a step makes of the events of shards.
LEMMA EventStep ==
  ASSUME ShardsTyped, [Next]_vars, NEW s \in Shard
  PROVE  \/ events'[s] = events[s]
         \/ Take(s) /\ events[s] # <<>> /\ events'[s] = Tail(events[s])
         \/ ScanBlock(s) /\ Admitted(s) # {} /\ Len(events[s]) < QueueCap
            /\ events'[s] = Append(events[s], Event("batch", Admitted(s)))
         \/ Summarise(s) /\ Len(events[s]) < QueueCap
            /\ events'[s] = Append(events[s],
                 Event(IF scan[s] = "scanned" THEN "summary" ELSE "incomplete", {}))
         \/ StreamBreaks(s) /\ \E kept \in 0..Len(events[s]), kind \in {"error", "closed"} :
              events'[s] = Append(SubSeq(events[s], 1, kept), Event(kind, {}))
         \/ ReaderGone(s) /\ events'[s] = <<>>
<1>1. events \in [Shard -> Seq(EventType)]
  BY DEF ShardsTyped
<1>2. CASE UNCHANGED events
  BY <1>2
<1>3. CASE OpenShard \/ OpenFails
  BY <1>3 DEF OpenShard, OpenFails
<1>4. ASSUME NEW u \in Shard, Take(u)
      PROVE  events[u] # <<>> /\ events' = [events EXCEPT ![u] = Tail(@)]
  BY <1>4 DEF Take, TakeBatch, TakeSummary, TakeFailure, TakeClosed, TakesFrom
<1>5. ASSUME NEW u \in Shard, Poll(u) \/ SendFails(u) PROVE UNCHANGED events
  BY <1>5 DEF Poll, SendFails
<1>6. ASSUME NEW u \in Shard, ScanBlock(u)
      PROVE  \/ UNCHANGED events
             \/ /\ Admitted(u) # {} /\ Len(events[u]) < QueueCap
                /\ events' = [events EXCEPT ![u] = Append(@, Event("batch", Admitted(u)))]
  BY <1>6 DEF ScanBlock
<1>7. ASSUME NEW u \in Shard, Summarise(u)
      PROVE  \/ UNCHANGED events
             \/ /\ Len(events[u]) < QueueCap
                /\ events' = [events EXCEPT ![u] =
                     Append(@, Event(IF scan[u] = "scanned" THEN "summary"
                                     ELSE "incomplete", {}))]
  BY <1>7 DEF Summarise
<1>8. ASSUME NEW u \in Shard, StreamBreaks(u)
      PROVE  \E kept \in 0..Len(events[u]), kind \in {"error", "closed"} :
               events' = [events EXCEPT ![u] = Append(SubSeq(@, 1, kept), Event(kind, {}))]
  BY <1>8 DEF StreamBreaks
<1>9. ASSUME NEW u \in Shard, ReaderGone(u) PROVE events' = [events EXCEPT ![u] = <<>>]
  BY <1>9 DEF ReaderGone
<1>10. CASE \E u \in Shard : Take(u)
  BY <1>1, <1>4, <1>10
<1>11. CASE \E u \in Shard : Poll(u) \/ SendFails(u)
  BY <1>5, <1>11
<1>12. CASE \E u \in Shard : ScanBlock(u)
  BY <1>1, <1>6, <1>12
<1>13. CASE \E u \in Shard : Summarise(u)
  BY <1>1, <1>7, <1>13
<1>14. CASE \E u \in Shard : StreamBreaks(u)
  <2>1. PICK u \in Shard : StreamBreaks(u)
    BY <1>14
  <2>2. PICK kept \in 0..Len(events[u]), kind \in {"error", "closed"} :
          events' = [events EXCEPT ![u] = Append(SubSeq(@, 1, kept), Event(kind, {}))]
    BY <1>8, <2>1
  <2> QED  BY <1>1, <2>1, <2>2
<1>15. CASE \E u \in Shard : ReaderGone(u)
  BY <1>1, <1>9, <1>15
<1> QED  BY <1>2, <1>3, <1>10, <1>11, <1>12, <1>13, <1>14, <1>15, ShardFrame

LEMMA AdmittedRows ==
  ASSUME NEW s \in Shard
  PROVE  Admitted(s) \subseteq Row /\ \A r \in Admitted(s) : r = <<s, next[s]>>
BY DEF Admitted

\* What a scan's step makes of it.
LEMMA ScanStep ==
  ASSUME ShardsTyped, [Next]_vars, NEW s \in Shard
  PROVE  \/ scan'[s] = scan[s] /\ next'[s] = next[s]
         \/ phase = "opening" /\ s = opened + 1 /\ scan'[s] = "poll" /\ next'[s] = next[s]
         \/ phase = "opening" /\ scan'[s] = "idle" /\ next'[s] = next[s]
            /\ phase' = "reply"
         \/ (Poll(s) \/ SendFails(s)) /\ scan'[s] \in {"block", "stopped"}
            /\ next'[s] = next[s]
         \/ ScanBlock(s) /\ next'[s] = next[s] + 1
            /\ scan'[s] = IF next[s] + 1 > ShardLen[s] THEN "scanned" ELSE "poll"
         \/ Summarise(s) /\ scan'[s] = "ended" /\ next'[s] = next[s]
         \/ StreamBreaks(s) /\ scan'[s] = "broken" /\ next'[s] = next[s]
<1>1. scan \in [Shard -> Scans] /\ next \in [Shard -> Nat \ {0}]
  BY DEF ShardsTyped
<1>2. CASE UNCHANGED <<scan, next>>
  BY <1>2
<1>3. CASE OpenShard
  BY <1>1, <1>3 DEF OpenShard
<1>4. CASE OpenFails
  <2>1. PICK started \in {"idle", "poll"} : scan' = [scan EXCEPT ![opened + 1] = started]
    BY <1>4 DEF OpenFails
  <2> QED  BY <1>1, <1>4, <2>1 DEF OpenFails, EndWith
<1>5. CASE \E u \in Shard : Take(u) \/ ReaderGone(u)
  BY <1>5 DEF Take, TakeBatch, TakeSummary, TakeFailure, TakeClosed, ReaderGone
<1>6. CASE \E u \in Shard : Poll(u) \/ SendFails(u)
  BY <1>1, <1>6 DEF Poll, SendFails
<1>7. CASE \E u \in Shard : ScanBlock(u)
  BY <1>1, <1>7 DEF ScanBlock
<1>8. CASE \E u \in Shard : Summarise(u)
  BY <1>1, <1>8 DEF Summarise
<1>9. CASE \E u \in Shard : StreamBreaks(u)
  BY <1>1, <1>9 DEF StreamBreaks
<1> QED  BY <1>2, <1>3, <1>4, <1>5, <1>6, <1>7, <1>8, <1>9, ShardFrame

LEMMA OpenedNext ==
  ASSUME Typed, [Next]_vars PROVE OpenedInv'
<1> USE DEF Typed, ShardsTyped, OpenedInv
<1>1. ASSUME NEW s \in Shard, listening'[s] PROVE scan'[s] # "idle"
  <2>1. CASE UNCHANGED <<events, listening, scan, next>>
    BY <1>1, <2>1
  <2>2. CASE OpenShard
    BY <1>1, <2>2 DEF OpenShard
  <2>3. CASE OpenFails
    <3>1. opened + 1 \in Shard /\ opened + 1 > opened /\ scan[opened + 1] = "idle"
      BY <2>3, Constants DEF OpenFails, TaskTyped
    <3>2. listening' = listening /\ s # opened + 1
      BY <1>1, <2>3, <3>1 DEF OpenFails
    <3> QED  BY <1>1, <2>3, <3>1, <3>2 DEF OpenFails
  <2>4. ASSUME NEW u \in Shard, Take(u) \/ ReaderGone(u) PROVE scan'[s] # "idle"
    BY <1>1, <2>4 DEF Take, TakeBatch, TakeSummary, TakeFailure, TakeClosed, ReaderGone
  <2>5. ASSUME NEW u \in Shard,
               Poll(u) \/ ScanBlock(u) \/ SendFails(u) \/ Summarise(u) \/ StreamBreaks(u)
        PROVE  scan'[s] # "idle"
    BY <1>1, <2>5 DEF Poll, ScanBlock, SendFails, Summarise, StreamBreaks
  <2> QED  BY <2>1, <2>2, <2>3, <2>4, <2>5, ShardFrame
<1>2. ASSUME phase' \in {"first", "check", "opening"}
      PROVE  /\ phase \in {"first", "check", "opening"}
             /\ opened' = opened \/ (OpenShard /\ opened' = opened + 1)
             /\ ~OpenFails
  BY <1>2, TaskFrame DEF taskVars, ReceiveFirst, ValidateBitmaps, OpenShard, Flush, SendReply,
     Read, Leave, OpenFails, CallerIsGone, Deadline, FlushTick, RaiseFloor, CallerStops,
     CallerErrs, CallerCloses, TakeBatch, TakeSummary, TakeFailure, TakesFrom, Exhausted,
     EndWith, Return, Selecting
<1>3. ASSUME phase' \in {"first", "check", "opening"}, NEW s \in Shard, s > opened'
      PROVE  scan'[s] = "idle"
  <2>1. s > opened /\ (OpenShard => s # opened + 1) /\ scan[s] = "idle" /\ ~listening[s]
    <3>1. opened \in Nat /\ s \in Nat /\ (OpenShard => opened' = opened + 1)
      BY Constants DEF TaskTyped, OpenShard
    <3>2. s > opened /\ (OpenShard => s # opened + 1)
      <4>1. opened' = opened \/ opened' = opened + 1
        BY <1>2, <1>3
      <4> HIDE DEF OpenedInv
      <4> QED  BY <1>3, <3>1, <4>1
    <3>3. scan[s] = "idle"
      BY <1>2, <1>3, <3>2
    <3> QED  BY <3>2, <3>3
  <2>2. CASE UNCHANGED <<events, listening, scan, next>>
    BY <2>1, <2>2
  <2>3. CASE OpenShard
    BY <2>1, <2>3 DEF OpenShard
  <2>4. ASSUME NEW u \in Shard, Take(u) \/ ReaderGone(u) PROVE scan'[s] = "idle"
    BY <2>1, <2>4 DEF Take, TakeBatch, TakeSummary, TakeFailure, TakeClosed, ReaderGone
  <2>5. ASSUME NEW u \in Shard,
               Poll(u) \/ ScanBlock(u) \/ SendFails(u) \/ Summarise(u) \/ StreamBreaks(u)
        PROVE  scan'[s] = "idle"
    BY <2>1, <2>5 DEF Poll, ScanBlock, SendFails, Summarise, StreamBreaks
  <2> QED  BY <1>2, <1>3, <2>2, <2>3, <2>4, <2>5, ShardFrame
<1> QED  BY <1>1, <1>3

LEMMA ShardsNext ==
  ASSUME Typed, [Next]_vars PROVE ShardsTyped'
<1> USE DEF Typed, ShardsTyped
<1>1. stop' \in [Shard -> BOOLEAN]
  <2>1. CASE UNCHANGED stop
    BY <2>1
  <2>2. CASE StopShards
    BY <2>2 DEF StopShards
  <2> QED  BY <2>1, <2>2, StopFrame
<1>2. /\ listening' \in [Shard -> BOOLEAN] /\ scan' \in [Shard -> Scans]
      /\ next' \in [Shard -> Nat \ {0}] /\ DOMAIN events' = Shard
  <2>1. CASE UNCHANGED <<events, listening, scan, next>>
    BY <2>1
  <2>2. CASE OpenShard
    BY <2>2 DEF OpenShard, Scans
  <2>3. CASE OpenFails
    BY <2>3 DEF OpenFails, Scans
  <2>4. ASSUME NEW s \in Shard, Take(s)
        PROVE  UNCHANGED <<listening, scan, next>> /\ DOMAIN events' = Shard
    BY <2>4 DEF Take, TakeBatch, TakeSummary, TakeFailure, TakeClosed, TakesFrom
  <2>5. ASSUME NEW s \in Shard, Poll(s) \/ SendFails(s)
        PROVE  UNCHANGED <<listening, events, next>> /\ scan' \in [Shard -> Scans]
    BY <2>5 DEF Poll, SendFails, Scans
  <2>6. ASSUME NEW s \in Shard, ScanBlock(s)
        PROVE  /\ UNCHANGED listening /\ next' \in [Shard -> Nat \ {0}]
               /\ scan' \in [Shard -> Scans] /\ DOMAIN events' = Shard
    BY <2>6 DEF ScanBlock, Scans
  <2>7. ASSUME NEW s \in Shard, Summarise(s)
        PROVE  /\ UNCHANGED <<listening, next>>
               /\ scan' \in [Shard -> Scans] /\ DOMAIN events' = Shard
    BY <2>7 DEF Summarise, Scans
  <2>8. ASSUME NEW s \in Shard, StreamBreaks(s)
        PROVE  /\ UNCHANGED <<listening, next>>
               /\ scan' \in [Shard -> Scans] /\ DOMAIN events' = Shard
    BY <2>8 DEF StreamBreaks, Scans
  <2>9. ASSUME NEW s \in Shard, ReaderGone(s)
        PROVE  /\ listening' \in [Shard -> BOOLEAN] /\ UNCHANGED <<scan, next>>
               /\ DOMAIN events' = Shard
    BY <2>9 DEF ReaderGone
  <2> QED  BY <2>1, <2>2, <2>3, <2>4, <2>5, <2>6, <2>7, <2>8, <2>9, ShardFrame
<1>3. ASSUME NEW s \in Shard
      PROVE  /\ events'[s] \in Seq(EventType) /\ Len(events'[s]) <= QueueCap + 1
             /\ scan'[s] # "broken" => Len(events'[s]) <= QueueCap
  <2>1. /\ events[s] \in Seq(EventType) /\ Len(events[s]) \in Nat /\ QueueCap \in Nat \ {0}
        /\ Len(events[s]) <= QueueCap + 1
        /\ scan[s] # "broken" => Len(events[s]) <= QueueCap
    BY Constants
  <2>2. scan'[s] # "broken" => scan[s] # "broken"
    <3>1. CASE \E u \in Shard : Take(u) \/ ReaderGone(u)
      BY <3>1 DEF Take, TakeBatch, TakeSummary, TakeFailure, TakeClosed, ReaderGone
    <3>2. CASE \E u \in Shard : Poll(u) \/ ScanBlock(u) \/ SendFails(u) \/ Summarise(u)
                                 \/ StreamBreaks(u)
      BY <3>2 DEF Poll, SendFails, ScanBlock, Summarise, StreamBreaks
    <3>3. CASE OpenShard \/ OpenFails
      <4>1. opened + 1 \in Shard /\ opened + 1 > opened /\ scan[opened + 1] = "idle"
        BY <3>3, Constants DEF OpenShard, OpenFails, TaskTyped, OpenedInv
      <4> QED  BY <3>3, <4>1 DEF OpenShard, OpenFails
    <3> QED  BY <3>1, <3>2, <3>3, ShardFrame
  <2>3. CASE events'[s] = events[s]
    BY <2>1, <2>2, <2>3
  <2>4. CASE events[s] # <<>> /\ events'[s] = Tail(events[s])
    BY <2>1, <2>2, <2>4, QueueTail
  <2>5. ASSUME NEW e \in EventType, Len(events[s]) < QueueCap,
               events'[s] = Append(events[s], e)
        PROVE  events'[s] \in Seq(EventType) /\ Len(events'[s]) <= QueueCap
    BY <2>1, <2>5, QueueAppend
  <2>6. CASE Len(events[s]) < QueueCap
             /\ events'[s] = Append(events[s], Event("batch", Admitted(s)))
    <3>1. Event("batch", Admitted(s)) \in EventType
      BY AdmittedRows, EventIs
    <3> QED  BY <2>1, <2>5, <2>6, <3>1
  <2>7. CASE Len(events[s]) < QueueCap
             /\ events'[s] = Append(events[s],
                  Event(IF scan[s] = "scanned" THEN "summary" ELSE "incomplete", {}))
    <3>1. Event(IF scan[s] = "scanned" THEN "summary" ELSE "incomplete", {}) \in EventType
      BY EventIs
    <3> QED  BY <2>1, <2>5, <2>7, <3>1
  <2>8. CASE StreamBreaks(s) /\ \E kept \in 0..Len(events[s]), kind \in {"error", "closed"} :
              events'[s] = Append(SubSeq(events[s], 1, kept), Event(kind, {}))
    <3>1. PICK kept \in 0..Len(events[s]), kind \in {"error", "closed"} :
            events'[s] = Append(SubSeq(events[s], 1, kept), Event(kind, {}))
      BY <2>8
    <3>2. Event(kind, {}) \in EventType
      BY EventIs
    <3>3. events'[s] \in Seq(EventType) /\ Len(events'[s]) = kept + 1
      BY <2>1, <3>1, <3>2, QueueCut
    <3>4. scan[s] # "broken" /\ scan'[s] = "broken"
      BY <2>8 DEF StreamBreaks
    <3> QED  BY <2>1, <3>3, <3>4
  <2>9. CASE events'[s] = <<>>
    <3>1. <<>> \in Seq(EventType) /\ Len(<<>>) = 0
      OBVIOUS
    <3> QED  BY <2>1, <2>9, <3>1
  <2> QED  BY <2>3, <2>4, <2>6, <2>7, <2>8, <2>9, EventStep
<1>4. events' \in [Shard -> Seq(EventType)]
  <2>1. events' = [s \in Shard |-> events'[s]]
    <3>1. CASE UNCHANGED events
      BY <3>1
    <3>2. CASE UNCHANGED <<events, listening, scan, next>> \/ OpenShard \/ OpenFails
      BY <3>2 DEF OpenShard, OpenFails
    <3>3. ASSUME NEW s \in Shard, NEW q, events' = [events EXCEPT ![s] = q]
          PROVE  events' = [u \in Shard |-> events'[u]]
      BY <3>3
    <3>4. ASSUME NEW s \in Shard,
                 \/ Take(s) \/ Poll(s) \/ ScanBlock(s) \/ SendFails(s)
                 \/ Summarise(s) \/ StreamBreaks(s) \/ ReaderGone(s)
          PROVE  UNCHANGED events \/ \E q : events' = [events EXCEPT ![s] = q]
      BY <3>4 DEF Take, TakeBatch, TakeSummary, TakeFailure, TakeClosed, TakesFrom, Poll,
                  ScanBlock, SendFails, Summarise, StreamBreaks, ReaderGone
    <3> QED  BY <3>1, <3>2, <3>3, <3>4, ShardFrame
  <2> QED  BY <1>3, <2>1
<1> QED  BY <1>1, <1>2, <1>3, <1>4

LEMMA ValidNext ==
  ASSUME Typed, ValidInv, [Next]_vars PROVE ValidInv'
<1> USE DEF ValidInv
<1>1. CASE ValidateBitmaps
  <2>1. UNCHANGED shardVars /\ phase = "check" /\ verdict = "checking"
    BY <1>1 DEF ValidateBitmaps, BitmapNext, CheckBitmap, AcceptBitmaps
  <2> QED  BY <1>1, <2>1 DEF ValidateBitmaps, EndWith, shardVars
<1>2. CASE ~ValidateBitmaps
  <2>1. verdict' = verdict
    BY <1>2 DEF Next, Proceed, Caller, Work, Take, vars, bitmapVars, callVars, taskVars, shardVars,
       ReceiveFirst, OpenShard, Flush, SendReply, Read, Leave,
       OpenFails, CallerIsGone, Deadline, FlushTick, RaiseFloor, CallerStops, CallerErrs,
       CallerCloses, TakeBatch, TakeSummary, TakeFailure, TakeClosed, Exhausted, Poll,
       ScanBlock, SendFails, Summarise, StreamBreaks, ReaderGone
  <2>2. phase' \in {"opening", "select", "flush"} => phase \in {"opening", "select", "flush"}
    BY <1>2, TaskFrame DEF taskVars, ReceiveFirst, OpenShard, Flush, SendReply, Read, Leave,
       OpenFails, CallerIsGone, Deadline, FlushTick, RaiseFloor, CallerStops, CallerErrs,
       CallerCloses, TakeBatch, TakeSummary, TakeFailure, TakeClosed, TakesFrom, Exhausted,
       EndWith, Return, Selecting
  <2>3. \A s \in Shard : scan'[s] # "idle" => scan[s] # "idle" \/ phase = "opening"
    BY ScanStep DEF Typed, OpenedInv, Poll, SendFails, ScanBlock, Summarise, StreamBreaks
  <2>4. \A s \in Shard : scan'[s] # "idle" => verdict' = "valid"
    <3> SUFFICES ASSUME NEW s \in Shard, scan'[s] # "idle" PROVE verdict = "valid"
      BY <2>1
    <3>1. CASE scan[s] # "idle" \/ phase = "opening"
      BY <3>1
    <3> QED  BY <2>3, <3>1
  <2> QED  BY <2>1, <2>2, <2>4
<1> QED  BY <1>1, <1>2

--------------------------------------------------------------------------------
(* Each candidate is at one place.                                         *)

\* What a filter lets through is what the caller asked for.
LEMMA AskedIs ==
  ASSUME Typed, AdmitsExactly, verdict = "valid", NEW r \in Row, NEW f \in Int
  PROVE  r \in Asked(f) <=>
           /\ start.filtered => LabelInBitmaps(bitmaps, start.label[r])
           /\ start.score[r] >= f
<1>1. start.label[r] \in Label
  BY StreamAssumption DEF Typed, CallTyped, StartType
<1> QED  BY <1>1 DEF Asked, AdmitsExactly

\* A scan admits only what the caller asked for, and all a shard owes.
LEMMA AdmittedAre ==
  ASSUME Typed, ValidInv, AdmitsExactly, NEW s \in Shard, scan[s] = "block"
  PROVE  /\ Admitted(s) \subseteq Asked(start.floor)
         /\ \A r \in Owed(s) : r[2] = next[s] => r \in Admitted(s)
<1>1. verdict = "valid"
  BY DEF ValidInv
<1>2. /\ start.floor \in Int /\ scanFloor[s] \in Int /\ LastFloor \in Int
      /\ start.floor <= scanFloor[s] /\ scanFloor[s] <= LastFloor
      /\ \A r \in Row : start.score[r] \in Int
  BY StreamAssumption DEF Typed, CallTyped, FloorsTyped, StartType
<1>3. ASSUME NEW r \in Admitted(s) PROVE r \in Asked(start.floor)
  <2>1. /\ r \in Row /\ start.score[r] >= scanFloor[s]
        /\ start.filtered => LabelInBitmaps(bitmaps, start.label[r])
    BY <1>3 DEF Admitted
  <2> QED  BY <1>1, <1>2, <2>1, AskedIs
<1>4. ASSUME NEW r \in Owed(s), r[2] = next[s] PROVE r \in Admitted(s)
  <2>1. r \in Row /\ r \in Asked(LastFloor) /\ r[1] = s
    BY DEF Owed, Asked
  <2>2. /\ start.score[r] >= scanFloor[s]
        /\ start.filtered => LabelInBitmaps(bitmaps, start.label[r])
    BY <1>1, <1>2, <2>1, AskedIs
  <2>3. r = <<s, next[s]>>
    BY <1>4, <2>1, RowFacts
  <2> QED  BY <2>1, <2>2, <2>3 DEF Admitted
<1> QED  BY <1>3, <1>4

\* What a step makes of the rows pending and sent.
LEMMA ThroughStep ==
  ASSUME Typed, SentInv, PlaceInv, [Next]_vars
  PROVE  \/ pending' = pending /\ Sent' = Sent
         \/ Flush /\ pending' = {} /\ Sent' = Sent \union pending
         \/ phase' = "done" /\ pending' = {} /\ Sent' = Sent
         \/ \E s \in Shard : /\ TakeBatch(s) /\ Sent' = Sent
                             /\ pending' = pending \union Head(events[s]).rows
<1>1. CASE UNCHANGED taskVars
  <2>1. sent' = sent
    BY <1>1, CallFrame DEF callVars, Flush, SendReply, Read, Leave, Return, taskVars
  <2> QED  BY <1>1, <2>1 DEF taskVars, Sent
<1>2. CASE ReceiveFirst \/ ValidateBitmaps \/ OpenShard \/ OpenFails
             \/ Deadline \/ FlushTick \/ RaiseFloor \/ CallerStops \/ CallerErrs
             \/ CallerCloses \/ Exhausted
  <2>1. pending' = pending /\ sent' = sent
    BY <1>2 DEF ReceiveFirst, ValidateBitmaps, OpenShard, OpenFails, Deadline, FlushTick,
                RaiseFloor, CallerStops, CallerErrs, CallerCloses, Exhausted, callVars
  <2> QED  BY <2>1 DEF Sent
<1>3. CASE Flush
  BY <1>3, FlushCounts DEF Flush, Typed
<1>4. CASE SendReply
  <2>1. reply.rows = {}
    BY <1>4 DEF SendReply, SentInv, ReplyInv, Status, Incomplete, Complete, Message
  <2>2. Sent' = Sent
    <3>1. sent \in Seq(MessageType) /\ reply \in MessageType
      BY DEF Typed, CallTyped, TaskTyped
    <3>2. sent' = Append(sent, reply)
      BY <1>4 DEF SendReply
    <3>3. Sent' = Sent \union reply.rows
      BY <3>1, <3>2, SentAppend
    <3> QED  BY <2>1, <3>3
  <2> QED  BY <1>4, <2>2 DEF SendReply, Return
<1>5. CASE CallerIsGone
  <2>1. sent' = sent
    BY <1>5 DEF CallerIsGone, callVars
  <2> QED  BY <1>5, <2>1 DEF CallerIsGone, Return, Sent
<1>6. ASSUME NEW s \in Shard, TakeBatch(s)
      PROVE  Sent' = Sent /\ pending' = pending \union Head(events[s]).rows
  BY <1>6 DEF TakeBatch, callVars, Sent
<1>7. ASSUME NEW s \in Shard, TakeSummary(s) \/ TakeFailure(s)
      PROVE  Sent' = Sent /\ pending' = pending
  BY <1>7 DEF TakeSummary, TakeFailure, callVars, Sent
<1> QED  BY <1>1, <1>2, <1>3, <1>4, <1>5, <1>6, <1>7, TaskFrame

\* A batch is taken from the head of its queue; and no other step is a TakeBatch.
LEMMA TakenBatch ==
  ASSUME Typed, NEW s \in Shard, TakeBatch(s)
  PROVE  /\ 1 \in DOMAIN events[s] /\ Head(events[s]) = events[s][1]
         /\ events'[s] = Tail(events[s]) /\ events'[s] # events[s]
         /\ scan' = scan /\ next' = next
<1>1. events \in [Shard -> Seq(EventType)] /\ events[s] # <<>>
  BY DEF Typed, ShardsTyped, TakeBatch, TakesFrom
<1>2. /\ 1 \in DOMAIN events[s] /\ Head(events[s]) = events[s][1]
      /\ Len(Tail(events[s])) = Len(events[s]) - 1 /\ Len(events[s]) \in Nat \ {0}
  BY <1>1, QueueTail
<1>3. events'[s] = Tail(events[s])
  BY <1>1 DEF TakeBatch, TakesFrom
<1>4. Tail(events[s]) # events[s]
  <2> SUFFICES ASSUME Tail(events[s]) = events[s] PROVE FALSE
    OBVIOUS
  <2>1. Len(Tail(events[s])) = Len(events[s])
    OBVIOUS
  <2> QED  BY <1>2, <2>1
<1> QED  BY <1>2, <1>3, <1>4 DEF TakeBatch

\* Rows once scanned stay scanned, and what was asked for is still asked for.
LEMMA ScannedGrows ==
  ASSUME Typed, [Next]_vars
  PROVE  /\ Asked(start.floor)' = Asked(start.floor)
         /\ \A s \in Shard : Scanned(s) \subseteq Scanned(s)'
<1>1. Asked(start.floor)' = Asked(start.floor)
  BY StartFixed DEF Asked
<1>2. ASSUME NEW s \in Shard, NEW r \in Scanned(s) PROVE r \in Scanned(s)'
  <2>1. r \in Row /\ r[1] = s /\ r[2] < next[s] /\ r[2] \in Nat /\ next[s] \in Nat
    BY RowFacts DEF Scanned, Typed, ShardsTyped
  <2>2. next'[s] = next[s] \/ next'[s] = next[s] + 1
    BY ScanStep DEF Typed
  <2>3. r[2] < next'[s]
    BY <2>1, <2>2
  <2> QED  BY <2>1, <2>3 DEF Scanned
<1> QED  BY <1>1, <1>2

\* An event that stays in its queue keeps to what EventRows says of it alone.
LEMMA KeptEvent ==
  ASSUME Typed, SentInv, PlaceInv, [Next]_vars,
         NEW s \in Shard, NEW k \in DOMAIN events[s], TakeBatch(s) => k # 1
  PROVE  /\ events[s][k].rows \subseteq (Asked(start.floor) \intersect Scanned(s))'
         /\ events[s][k].rows \intersect (pending \union Sent)' = {}
         /\ events[s][k].kind = "batch" <=> events[s][k].rows # {}
<1>1. EventRows(s, k)
  BY DEF PlaceInv
<1>2. events[s][k].rows \subseteq (Asked(start.floor) \intersect Scanned(s))'
  BY <1>1, ScannedGrows DEF EventRows
<1>3. events[s][k].rows \intersect (pending \union Sent) = {}
  BY <1>1 DEF EventRows
<1>4. CASE (pending \union Sent)' \subseteq pending \union Sent
  BY <1>1, <1>2, <1>3, <1>4 DEF EventRows
<1>5. ASSUME NEW u \in Shard, TakeBatch(u), Sent' = Sent,
             pending' = pending \union Head(events[u]).rows
      PROVE  events[s][k].rows \intersect (pending \union Sent)' = {}
  <2>1. 1 \in DOMAIN events[u] /\ Head(events[u]) = events[u][1] /\ EventRows(u, 1)
    BY <1>5, TakenBatch DEF PlaceInv
  <2>2. events[s][k].rows \intersect events[u][1].rows = {}
    <3>1. CASE u = s
      BY <1>1, <1>5, <2>1, <3>1 DEF EventRows
    <3>2. CASE u # s
      BY <1>1, <2>1, <3>2 DEF EventRows, Scanned
    <3> QED  BY <3>1, <3>2
  <2> QED  BY <1>3, <1>5, <2>1, <2>2
<1>6. CASE \E u \in Shard : /\ TakeBatch(u) /\ Sent' = Sent
                            /\ pending' = pending \union Head(events[u]).rows
  BY <1>1, <1>2, <1>5, <1>6 DEF EventRows
<1> QED  BY <1>4, <1>6, ThroughStep

\* A step leaves each candidate at one place.
LEMMA PlaceNext ==
  ASSUME Typed, ValidInv, AdmitsExactly, SentInv, PlaceInv, [Next]_vars
  PROVE  PlaceInv'
<1>1. Asked(start.floor)' = Asked(start.floor)
  BY ScannedGrows
<1>2. \A s \in Shard : Scanned(s) \subseteq Scanned(s)'
  BY ScannedGrows
<1>3. /\ pending \union Sent \subseteq Asked(start.floor)
      /\ \A r \in pending \union Sent : r \in Scanned(r[1])
      /\ pending \intersect Sent = {}
  BY DEF PlaceInv
<1>4. \A r \in Asked(start.floor) : r \in Row /\ r[1] \in Shard
  BY RowFacts DEF Asked
<1>5. /\ (pending \union Sent)' \subseteq Asked(start.floor)'
      /\ \A r \in (pending \union Sent)' : r \in Scanned(r[1])'
      /\ pending' \intersect Sent' = {}
  <2>1. CASE /\ (pending \union Sent)' \subseteq pending \union Sent
             /\ pending' = {} \/ (pending' = pending /\ Sent' = Sent)
    BY <1>1, <1>2, <1>3, <1>4, <2>1
  <2>2. ASSUME NEW u \in Shard, TakeBatch(u), Sent' = Sent,
               pending' = pending \union Head(events[u]).rows
        PROVE  /\ (pending \union Sent)' \subseteq Asked(start.floor)'
               /\ \A r \in (pending \union Sent)' : r \in Scanned(r[1])'
               /\ pending' \intersect Sent' = {}
    <3>1. Head(events[u]) = events[u][1] /\ EventRows(u, 1)
      BY <2>2, TakenBatch DEF PlaceInv
    <3>2. /\ Head(events[u]).rows \subseteq Asked(start.floor)
          /\ Head(events[u]).rows \intersect Sent = {}
          /\ \A r \in Head(events[u]).rows : r \in Scanned(u) /\ r[1] = u
      BY <3>1 DEF EventRows, Scanned
    <3> QED  BY <1>1, <1>2, <1>3, <1>4, <2>2, <3>2
  <2> QED  BY <2>1, <2>2, ThroughStep
<1>6. ASSUME NEW s \in Shard, NEW i \in DOMAIN events'[s] PROVE EventRows(s, i)'
  <2>1. events[s] \in Seq(EventType)
    BY DEF Typed, ShardsTyped
  <2>2. ASSUME NEW a \in DOMAIN events[s], NEW b \in DOMAIN events[s], a # b
        PROVE  events[s][a].rows \intersect events[s][b].rows = {}
    BY <2>2 DEF PlaceInv, EventRows
  <2>3. CASE events'[s] = events[s]
    <3>1. ~TakeBatch(s)
      BY <2>3, TakenBatch
    <3> QED  BY <1>6, <2>2, <2>3, <3>1, KeptEvent DEF EventRows
  <2>4. CASE events[s] # <<>> /\ events'[s] = Tail(events[s])
    <3>1. /\ DOMAIN events'[s] = 1..(Len(events[s]) - 1) /\ Len(events[s]) \in Nat
          /\ \A j \in DOMAIN events'[s] : /\ j + 1 \in DOMAIN events[s] /\ j + 1 # 1
                                          /\ events'[s][j] = events[s][j + 1]
      BY <2>1, <2>4, QueueTail
    <3>2. i + 1 \in DOMAIN events[s] /\ events'[s][i] = events[s][i + 1] /\ i + 1 # 1
      BY <1>6, <3>1
    <3>3. \A j \in DOMAIN events'[s] : i # j =>
            events'[s][i].rows \intersect events'[s][j].rows = {}
      <4> SUFFICES ASSUME NEW j \in DOMAIN events'[s], i # j
                   PROVE  events'[s][i].rows \intersect events'[s][j].rows = {}
        OBVIOUS
      <4>1. j + 1 \in DOMAIN events[s] /\ events'[s][j] = events[s][j + 1] /\ i + 1 # j + 1
        BY <1>6, <3>1
      <4> QED  BY <2>2, <3>2, <4>1
    <3>4. /\ events'[s][i].rows \subseteq (Asked(start.floor) \intersect Scanned(s))'
          /\ events'[s][i].rows \intersect (pending \union Sent)' = {}
          /\ events'[s][i].kind = "batch" <=> events'[s][i].rows # {}
      BY <3>2, KeptEvent
    <3> QED  BY <3>3, <3>4 DEF EventRows
  <2>5. CASE ScanBlock(s) /\ Admitted(s) # {} /\ Len(events[s]) < QueueCap
             /\ events'[s] = Append(events[s], Event("batch", Admitted(s)))
    <3> DEFINE e == Event("batch", Admitted(s))
    <3>1. e \in EventType /\ e.kind = "batch" /\ e.rows = Admitted(s)
      BY AdmittedRows, EventIs
    <3> HIDE DEF e
    <3>2. /\ DOMAIN events'[s] = DOMAIN events[s] \union {Len(events[s]) + 1}
          /\ \A k \in DOMAIN events[s] : events'[s][k] = events[s][k]
          /\ events'[s][Len(events[s]) + 1] = e
      BY <2>1, <2>5, <3>1, QueueAppend DEF e
    <3>3. scan[s] = "block" /\ scan'[s] # scan[s] /\ next'[s] = next[s] + 1
      BY <2>5 DEF ScanBlock, Typed, ShardsTyped
    <3>4. ~TakeBatch(s) /\ pending' = pending /\ sent' = sent /\ Sent' = Sent
      BY <2>5, <3>3 DEF ScanBlock, TakeBatch, taskVars, callVars, Sent
    <3>5. \A r \in e.rows : /\ r \in Asked(start.floor) /\ r \notin Scanned(s)
                            /\ r \in Scanned(s)' /\ r[1] = s
      <4> SUFFICES ASSUME NEW r \in Admitted(s)
                   PROVE  /\ r \in Asked(start.floor) /\ r \notin Scanned(s)
                          /\ r \in Scanned(s)' /\ r[1] = s
        BY <3>1
      <4>1. r \in Asked(start.floor)
        BY <3>3, AdmittedAre
      <4>2. r \in Row /\ r[1] = s /\ r[2] = next[s] /\ next[s] \in Nat
        BY AdmittedRows DEF Typed, ShardsTyped
      <4> QED  BY <3>3, <4>1, <4>2 DEF Scanned
    <3>6. e.rows \intersect (pending \union Sent)' = {}
      BY <1>3, <3>4, <3>5
    <3>7. \A k \in DOMAIN events[s] : events[s][k].rows \intersect e.rows = {}
      BY <3>5 DEF PlaceInv, EventRows
    <3>8. CASE i = Len(events[s]) + 1
      <4>1. /\ e.rows \subseteq (Asked(start.floor) \intersect Scanned(s))'
            /\ e.kind = "batch" /\ e.rows # {}
        BY <1>1, <2>5, <3>1, <3>5
      <4> QED  BY <3>2, <3>6, <3>7, <3>8, <4>1 DEF EventRows
    <3>9. CASE i \in DOMAIN events[s]
      BY <2>2, <3>2, <3>4, <3>7, <3>9, KeptEvent DEF EventRows
    <3> QED  BY <1>6, <3>2, <3>8, <3>9
  <2>6. ASSUME NEW e \in EventType, NEW kept \in Nat, kept <= Len(events[s]),
               e.kind # "batch", e.rows = {}, ~TakeBatch(s),
               DOMAIN events'[s] = 1..(kept + 1),
               \A k \in 1..kept : k \in DOMAIN events[s] /\ events'[s][k] = events[s][k],
               events'[s][kept + 1] = e
        PROVE  EventRows(s, i)'
    <3>1. i \in 1..kept \/ i = kept + 1
      BY <1>6, <2>6
    <3>2. CASE i = kept + 1
      BY <2>6, <3>2 DEF EventRows
    <3>3. CASE i \in 1..kept
      <4>1. \A j \in DOMAIN events'[s] : i # j =>
              events'[s][i].rows \intersect events'[s][j].rows = {}
        <5> SUFFICES ASSUME NEW j \in DOMAIN events'[s], i # j
                     PROVE  events'[s][i].rows \intersect events'[s][j].rows = {}
          OBVIOUS
        <5>1. j \in 1..kept \/ j = kept + 1
          BY <2>6
        <5> QED  BY <2>2, <2>6, <3>3, <5>1
      <4> QED  BY <2>6, <3>3, <4>1, KeptEvent DEF EventRows
    <3> QED  BY <3>1, <3>2, <3>3
  <2>7. CASE Summarise(s) /\ Len(events[s]) < QueueCap
             /\ events'[s] = Append(events[s],
                  Event(IF scan[s] = "scanned" THEN "summary" ELSE "incomplete", {}))
    <3> DEFINE e == Event(IF scan[s] = "scanned" THEN "summary" ELSE "incomplete", {})
    <3>1. e \in EventType /\ e.kind # "batch" /\ e.rows = {}
      BY EventIs
    <3> HIDE DEF e
    <3>2. scan'[s] # scan[s]
      BY <2>7 DEF Summarise, Typed, ShardsTyped
    <3>3. ~TakeBatch(s)
      BY <3>2 DEF TakeBatch
    <3>4. /\ DOMAIN events'[s] = 1..(Len(events[s]) + 1) /\ Len(events[s]) \in Nat
          /\ \A k \in 1..Len(events[s]) : k \in DOMAIN events[s] /\ events'[s][k] = events[s][k]
          /\ events'[s][Len(events[s]) + 1] = e
      BY <2>1, <2>7, <3>1, QueueAppend DEF e
    <3> QED  BY <2>6, <3>1, <3>3, <3>4
  <2>8. CASE StreamBreaks(s) /\ \E kept \in 0..Len(events[s]), kind \in {"error", "closed"} :
              events'[s] = Append(SubSeq(events[s], 1, kept), Event(kind, {}))
    <3>1. PICK kept \in 0..Len(events[s]), kind \in {"error", "closed"} :
            events'[s] = Append(SubSeq(events[s], 1, kept), Event(kind, {}))
      BY <2>8
    <3> DEFINE e == Event(kind, {})
    <3>2. e \in EventType /\ e.kind # "batch" /\ e.rows = {}
      BY EventIs
    <3> HIDE DEF e
    <3>3. scan'[s] # scan[s]
      BY <2>8 DEF StreamBreaks, Typed, ShardsTyped
    <3>4. ~TakeBatch(s)
      BY <3>3 DEF TakeBatch
    <3>5. /\ DOMAIN events'[s] = 1..(kept + 1) /\ kept \in Nat /\ kept <= Len(events[s])
          /\ \A k \in 1..kept : k \in DOMAIN events[s] /\ events'[s][k] = events[s][k]
          /\ events'[s][kept + 1] = e
      BY <2>1, <3>1, <3>2, QueueCut DEF e
    <3> QED  BY <2>6, <3>2, <3>4, <3>5
  <2>9. CASE events'[s] = <<>>
    <3>1. DOMAIN <<>> = {}
      OBVIOUS
    <3> QED  BY <1>6, <2>9, <3>1
  <2> QED  BY <2>3, <2>4, <2>5, <2>7, <2>8, <2>9, EventStep DEF Typed
<1> QED  BY <1>5, <1>6 DEF PlaceInv

--------------------------------------------------------------------------------
(* The count of what was sent, the terminal message, and what is owed.     *)

\* What is asked for is owed by the shard of the row.
LEMMA AskedByShard ==
  ASSUME NEW r, r \in Asked(LastFloor) PROVE r[1] \in Shard /\ r \in Owed(r[1])
BY RowFacts DEF Asked, Owed

\* A step keeps the count, and a terminal message true.
LEMMA SentNext ==
  ASSUME Typed, PlaceInv, SentInv, OwedInv, [Next]_vars PROVE SentInv'
<1> USE DEF SentInv
<1>1. CASE UNCHANGED taskVars
  <2>1. sent' = sent
    BY <1>1, CallFrame DEF callVars, Flush, SendReply, Read, Leave, Return, taskVars
  <2>2. Asked(LastFloor)' = Asked(LastFloor)
    BY <1>1, StartFixed DEF taskVars, LastFloor, Asked
  <2> QED  BY <1>1, <2>1, <2>2 DEF taskVars, Sent, ReplyInv, Status, Incomplete, Complete
<1>2. CASE ReceiveFirst \/ ValidateBitmaps
  <2>1. sent' = sent /\ sent = <<>> /\ phase \in {"first", "check"}
        /\ phase' \in {"check", "opening", "reply"} /\ emitted' = emitted
        /\ (phase' = "reply" => reply' = Status \/ reply' = Incomplete)
    BY <1>2 DEF ReceiveFirst, ValidateBitmaps, EndWith, callVars
  <2> QED  BY <2>1 DEF Sent, ReplyInv, Status, Incomplete
<1>3. CASE OpenShard \/ OpenFails \/ Deadline \/ CallerStops \/ CallerErrs
  <2>1. sent' = sent /\ phase # "done" /\ emitted' = emitted
        /\ phase' \in {"opening", "select", "reply"}
        /\ (phase' = "reply" => reply' = Incomplete)
    BY <1>3 DEF OpenShard, OpenFails, Deadline, CallerStops, CallerErrs, Selecting,
                EndWith, callVars
  <2> QED  BY <2>1 DEF Sent, ReplyInv, Incomplete
<1>4. CASE Flush
  <2>1. emitted' = Cardinality(Sent')
    BY <1>4, FlushCounts DEF Typed
  <2>2. Message("batch", pending, 0) \in MessageType /\ sent \in Seq(MessageType)
    BY <1>4, FlushCounts DEF Typed, CallTyped
  <2>3. /\ DOMAIN sent' = DOMAIN sent \union {Len(sent) + 1}
        /\ \A i \in DOMAIN sent : sent'[i] = sent[i]
        /\ sent'[Len(sent) + 1] = Message("batch", pending, 0)
    BY <1>4, <2>2, SentAppend DEF Flush
  <2>4. \A i \in DOMAIN sent' : sent'[i].kind = "batch"
    BY <1>4, <2>3 DEF Flush, Message
  <2> QED  BY <1>4, <2>1, <2>4 DEF Flush
<1>5. CASE SendReply \/ CallerIsGone
  BY <1>5 DEF SendReply, CallerIsGone, Return
<1>6. CASE FlushTick \/ RaiseFloor \/ CallerCloses
  <2>1. sent' = sent /\ emitted' = emitted /\ phase = "select"
        /\ phase' \in {"select", "flush"} /\ (phase' = "flush" => pending' # {})
    BY <1>6 DEF FlushTick, RaiseFloor, CallerCloses, Selecting, callVars
  <2> QED  BY <2>1 DEF Sent
<1>7. CASE Exhausted
  <2>1. sent' = sent /\ emitted' = emitted /\ phase = "select" /\ completed = Shard
        /\ UNCHANGED raised /\ pending' = pending
    BY <1>7 DEF Exhausted, callVars
  <2>2. CASE pending # {} /\ phase' = "flush"
    BY <2>1, <2>2 DEF Sent
  <2>3. CASE pending = {} /\ phase' = "reply" /\ reply' = Complete
    <3>1. Asked(LastFloor) \subseteq Sent
      <4> SUFFICES ASSUME NEW r \in Asked(LastFloor) PROVE r \in Sent
        OBVIOUS
      <4>1. r \in Owed(r[1]) /\ r[1] \in completed
        BY <2>1, AskedByShard
      <4> QED  BY <2>1, <2>3, <4>1 DEF OwedInv, Scanning, Through
    <3>2. Asked(LastFloor)' = Asked(LastFloor)
      BY <2>1, StartFixed DEF LastFloor, Asked
    <3> QED  BY <2>1, <2>3, <3>1, <3>2 DEF Sent, ReplyInv, Complete
  <2> QED  BY <1>7, <2>2, <2>3 DEF Exhausted, EndWith
<1>8. ASSUME NEW s \in Shard, TakeBatch(s) PROVE SentInv'
  <2>1. sent' = sent /\ emitted' = emitted /\ phase = "select"
        /\ pending' \subseteq Row
        /\ phase' = IF Cardinality(pending') >= BatchRows THEN "flush" ELSE phase
    BY <1>8, TaskNext DEF TakeBatch, TakesFrom, Selecting, callVars, TaskTyped
  <2>2. phase' = "flush" => pending' # {}
    <3>1. Cardinality({}) = 0 /\ ~(0 >= BatchRows)
      BY Constants, FS_EmptySet
    <3> QED  BY <2>1, <3>1
  <2> QED  BY <2>1, <2>2 DEF Sent
<1>9. ASSUME NEW s \in Shard, TakeSummary(s) PROVE SentInv'
  BY <1>9 DEF TakeSummary, TakesFrom, Selecting, callVars, Sent
<1>10. ASSUME NEW s \in Shard, TakeFailure(s) PROVE SentInv'
  <2>1. sent' = sent /\ emitted' = emitted /\ phase = "select"
        /\ phase' = "reply" /\ reply' = Incomplete
    BY <1>10 DEF TakeFailure, TakesFrom, Selecting, EndWith, callVars
  <2> QED  BY <2>1 DEF Sent, ReplyInv, Incomplete
<1> QED  BY <1>1, <1>2, <1>3, <1>4, <1>5, <1>6, <1>7, <1>8, <1>9, <1>10, TaskFrame

\* Raising the floor only lets go of rows that were owed.
LEMMA OwedShrinks ==
  ASSUME Typed, [Next]_vars
  PROVE  /\ Asked(LastFloor)' \subseteq Asked(LastFloor)
         /\ \A s \in Shard : Owed(s)' \subseteq Owed(s)
         /\ UNCHANGED raised \/ RaiseFloor
         /\ UNCHANGED raised => Asked(LastFloor)' = Asked(LastFloor)
<1>1. UNCHANGED raised \/ RaiseFloor
  BY FloorFrame DEF Poll, taskVars
<1>2. LastFloor <= LastFloor'
  <2>1. LastFloor \in raised /\ LastFloor \in Int
    BY DEF Typed, FloorsTyped
  <2>2. raised \subseteq raised'
    BY <1>1 DEF RaiseFloor
  <2>3. LastFloor \in raised' /\ \A f \in raised' : f <= LastFloor'
    BY <2>1, <2>2, FloorNext DEF FloorsTyped
  <2> QED  BY <2>3
<1>3. LastFloor \in Int /\ LastFloor' \in Int /\ \A r \in Row : start.score[r] \in Int
  BY FloorNext, StreamAssumption DEF Typed, FloorsTyped, CallTyped, StartType
<1>4. Asked(LastFloor)' \subseteq Asked(LastFloor)
  <2> SUFFICES ASSUME NEW r \in Asked(LastFloor)' PROVE r \in Asked(LastFloor)
    OBVIOUS
  <2>1. /\ r \in Row /\ start.score[r] >= LastFloor'
        /\ start.filtered => \E i \in DOMAIN bitmaps : Stands(bitmaps[i], start.label[r])
    BY StartFixed DEF Asked
  <2>2. start.score[r] >= LastFloor
    BY <1>2, <1>3, <2>1
  <2> QED  BY <2>1, <2>2 DEF Asked
<1>5. UNCHANGED raised => Asked(LastFloor)' = Asked(LastFloor)
  BY StartFixed DEF LastFloor, Asked
<1> QED  BY <1>1, <1>4, <1>5 DEF Owed

\* While the call scans, a row that is pending or sent stays so, and a batch
\* that is taken becomes pending; only one is taken in a step.
LEMMA ThroughGrows ==
  ASSUME Typed, SentInv, PlaceInv, [Next]_vars, Scanning'
  PROVE  /\ Scanning
         /\ Through \subseteq Through'
         /\ \A s \in Shard : TakeBatch(s) => events[s][1].rows \subseteq Through'
         /\ \A s \in Shard : Take(s) => TakeBatch(s) \/ TakeSummary(s) \/ TakeClosed(s)
         /\ \A s \in Shard : ~ReaderGone(s)
<1>1. Scanning
  BY TaskFrame DEF taskVars, Scanning, ReceiveFirst, ValidateBitmaps, OpenShard, Flush,
     OpenFails, SendReply, CallerIsGone, Deadline, FlushTick, RaiseFloor, CallerStops,
     CallerErrs, CallerCloses, TakeBatch, TakeSummary, TakeFailure, TakesFrom, Exhausted,
     EndWith, Return, Selecting
<1>2. phase' # "done"
  BY DEF Scanning
<1>3. Through \subseteq Through'
  BY <1>2, ThroughStep DEF Through
<1>4. \A s \in Shard : TakeBatch(s) => events[s][1].rows \subseteq Through'
  <2> SUFFICES ASSUME NEW s \in Shard, TakeBatch(s) PROVE events[s][1].rows \subseteq pending'
    BY DEF Through
  <2> QED  BY TakenBatch DEF TakeBatch
<1>5. \A s \in Shard : Take(s) => TakeBatch(s) \/ TakeSummary(s) \/ TakeClosed(s)
  BY DEF Take, TakeFailure, EndWith, Scanning
<1>6. \A s \in Shard : ~ReaderGone(s)
  BY <1>1 DEF ReaderGone, Scanning
<1> QED  BY <1>1, <1>3, <1>4, <1>5, <1>6

\* The rows taken with an event: none, or the batch that is pending now.
LEMMA TakenRows ==
  ASSUME Typed, SentInv, PlaceInv, [Next]_vars, Scanning', NEW s \in Shard, Take(s)
  PROVE  events[s][1].rows \subseteq Through'
<1>1. CASE TakeBatch(s)
  BY <1>1, ThroughGrows
<1>2. CASE TakeSummary(s) \/ TakeClosed(s)
  <2>1. events[s] \in Seq(EventType) /\ events[s] # <<>>
    BY <1>2 DEF Typed, ShardsTyped, TakeSummary, TakeClosed, TakesFrom
  <2>2. Head(events[s]) = events[s][1] /\ 1 \in DOMAIN events[s]
    BY <2>1, QueueTail
  <2>3. events[s][1].kind # "batch"
    BY <1>2, <2>2 DEF TakeSummary, TakeClosed, TakesFrom
  <2> QED  BY <2>2, <2>3 DEF PlaceInv, EventRows
<1> QED  BY <1>1, <1>2, ThroughGrows

\* What a shard owed and was not yet through is in its events, and stays there
\* or goes through.
LEMMA SummaryNext ==
  ASSUME Typed, SentInv, PlaceInv, OwedInv, [Next]_vars, Scanning', NEW s \in Shard
  PROVE  SummaryInv(s)'
<1>1. SummaryInv(s) /\ ScanInv(s)
  BY ThroughGrows DEF OwedInv, Scanning
<1>2. Through \subseteq Through' /\ Owed(s)' \subseteq Owed(s)
  BY ThroughGrows, OwedShrinks
<1>3. events[s] \in Seq(EventType)
  BY DEF Typed, ShardsTyped
<1> SUFFICES ASSUME NEW i \in DOMAIN events'[s], events'[s][i].kind = "summary",
                    NEW r \in Owed(s)', r \notin Through'
             PROVE  \E j \in 1..(i - 1) : r \in events'[s][j].rows
  BY DEF SummaryInv
<1>4. r \in Owed(s) /\ r \notin Through
  BY <1>2
<1>5. CASE events'[s] = events[s]
  BY <1>1, <1>4, <1>5 DEF SummaryInv
<1>6. CASE Take(s) /\ events[s] # <<>> /\ events'[s] = Tail(events[s])
  <2>1. /\ DOMAIN events'[s] = 1..(Len(events[s]) - 1) /\ Len(events[s]) \in Nat
        /\ \A j \in DOMAIN events'[s] : /\ j + 1 \in DOMAIN events[s]
                                        /\ events'[s][j] = events[s][j + 1]
    BY <1>3, <1>6, QueueTail
  <2>2. events[s][i + 1].kind = "summary" /\ i + 1 \in DOMAIN events[s]
    BY <2>1
  <2>3. PICK j \in 1..((i + 1) - 1) : r \in events[s][j].rows
    BY <1>1, <1>4, <2>2 DEF SummaryInv
  <2>4. j # 1
    BY <1>6, <2>3, TakenRows
  <2>5. i \in Nat /\ i <= Len(events[s]) - 1 /\ j \in 2..i
    BY <2>1, <2>3, <2>4
  <2>6. j - 1 \in 1..(i - 1) /\ j - 1 \in DOMAIN events'[s] /\ (j - 1) + 1 = j
    BY <2>1, <2>5
  <2>7. events'[s][j - 1] = events[s][j]
    BY <2>1, <2>6
  <2> QED  BY <2>3, <2>6, <2>7
<1>7. ASSUME NEW e \in EventType, events'[s] = Append(events[s], e),
             e.kind = "summary" => Owed(s) \subseteq Through \union InEvents(s)
      PROVE  \E j \in 1..(i - 1) : r \in events'[s][j].rows
  <2>1. /\ DOMAIN events'[s] = DOMAIN events[s] \union {Len(events[s]) + 1}
        /\ Len(events[s]) \in Nat /\ DOMAIN events[s] = 1..Len(events[s])
        /\ \A k \in DOMAIN events[s] : events'[s][k] = events[s][k]
        /\ events'[s][Len(events[s]) + 1] = e
    BY <1>3, <1>7, QueueAppend
  <2>2. CASE i \in DOMAIN events[s]
    <3>1. PICK j \in 1..(i - 1) : r \in events[s][j].rows
      BY <1>1, <1>4, <2>1, <2>2 DEF SummaryInv
    <3>2. j \in DOMAIN events[s]
      BY <2>1, <2>2, <3>1
    <3> QED  BY <2>1, <3>1, <3>2
  <2>3. CASE i = Len(events[s]) + 1
    <3>1. PICK j \in DOMAIN events[s] : r \in events[s][j].rows
      BY <1>4, <1>7, <2>1, <2>3 DEF InEvents
    <3>2. j \in 1..(i - 1)
      BY <2>1, <2>3, <3>1
    <3> QED  BY <2>1, <3>1, <3>2
  <2> QED  BY <2>1, <2>2, <2>3
<1>8. CASE ScanBlock(s) /\ events'[s] = Append(events[s], Event("batch", Admitted(s)))
  <2>1. Event("batch", Admitted(s)) \in EventType /\ Event("batch", Admitted(s)).kind = "batch"
    BY AdmittedRows, EventIs
  <2> QED  BY <1>7, <1>8, <2>1
<1>9. CASE Summarise(s) /\ events'[s] = Append(events[s],
             Event(IF scan[s] = "scanned" THEN "summary" ELSE "incomplete", {}))
  <2> DEFINE e == Event(IF scan[s] = "scanned" THEN "summary" ELSE "incomplete", {})
  <2>1. e \in EventType /\ e.kind = IF scan[s] = "scanned" THEN "summary" ELSE "incomplete"
    BY EventIs
  <2>2. scan[s] = "scanned" => Owed(s) \subseteq Through \union InEvents(s)
    <3> SUFFICES ASSUME scan[s] = "scanned", NEW q \in Owed(s) PROVE q \in Scanned(s)
      BY <1>1 DEF ScanInv
    <3>1. next[s] > ShardLen[s] /\ next[s] \in Nat
      BY <1>1 DEF ScanInv, Typed, ShardsTyped
    <3>2. q \in Row /\ q[1] = s
      BY DEF Owed, Asked
    <3>3. q[2] \in 1..ShardLen[s] /\ ShardLen[s] \in Nat
      BY <3>2, RowFacts
    <3> QED  BY <3>1, <3>2, <3>3 DEF Scanned
  <2> HIDE DEF e
  <2>3. events'[s] = Append(events[s], e)
    BY <1>9 DEF e
  <2> QED  BY <1>7, <2>1, <2>2, <2>3
<1>10. CASE StreamBreaks(s) /\ \E kept \in 0..Len(events[s]), kind \in {"error", "closed"} :
              events'[s] = Append(SubSeq(events[s], 1, kept), Event(kind, {}))
  <2>1. PICK kept \in 0..Len(events[s]), kind \in {"error", "closed"} :
          events'[s] = Append(SubSeq(events[s], 1, kept), Event(kind, {}))
    BY <1>10
  <2>2. Event(kind, {}) \in EventType /\ Event(kind, {}).kind = kind
    BY EventIs
  <2>3. /\ DOMAIN events'[s] = 1..(kept + 1) /\ kept \in Nat
        /\ \A k \in 1..kept : k \in DOMAIN events[s] /\ events'[s][k] = events[s][k]
        /\ events'[s][kept + 1].kind = kind
    BY <1>3, <2>1, <2>2, QueueCut
  <2>4. i \in 1..kept /\ i \in DOMAIN events[s] /\ events[s][i].kind = "summary"
    BY <2>3
  <2>5. PICK j \in 1..(i - 1) : r \in events[s][j].rows
    BY <1>1, <1>4, <2>4 DEF SummaryInv
  <2>6. j \in 1..kept
    BY <2>3, <2>4, <2>5
  <2> QED  BY <2>3, <2>5, <2>6
<1> QED  BY <1>5, <1>6, <1>8, <1>9, <1>10, EventStep, ThroughGrows DEF Typed

LEMMA ScanNext ==
  ASSUME Typed, ValidInv, AdmitsExactly, SentInv, PlaceInv, OwedInv, [Next]_vars, Scanning',
         NEW s \in Shard
  PROVE  ScanInv(s)'
<1>1. ScanInv(s)
  BY ThroughGrows DEF OwedInv, Scanning
<1>2. Through \subseteq Through' /\ Owed(s)' \subseteq Owed(s)
  BY ThroughGrows, OwedShrinks
<1>3. events[s] \in Seq(EventType) /\ next[s] \in Nat
  BY DEF Typed, ShardsTyped
<1>4. scan'[s] = "scanned" => next'[s] > ShardLen[s]
  <2>1. CASE scan'[s] = scan[s] /\ next'[s] = next[s]
    BY <1>1, <2>1 DEF ScanInv
  <2>2. CASE scan'[s] # scan[s]
    BY <1>3, <2>2, ScanStep DEF Typed
  <2>3. CASE ScanBlock(s) /\ next'[s] = next[s] + 1
             /\ scan'[s] = IF next[s] + 1 > ShardLen[s] THEN "scanned" ELSE "poll"
    BY <2>3
  <2> QED  BY <2>1, <2>2, <2>3, ScanStep DEF Typed
<1>5. ASSUME scan'[s] \in {"idle", "poll", "block", "scanned"},
             NEW r \in Owed(s)', r \in Scanned(s)', r \notin Through'
      PROVE  r \in InEvents(s)'
  <2>1. scan[s] \in {"idle", "poll", "block", "scanned"}
    <3>1. CASE phase = "opening" /\ s = opened + 1
      <4> opened \in Nat
        BY DEF Typed, TaskTyped
      <4> QED  BY <3>1 DEF Typed, OpenedInv
    <3>2. phase' # "reply"
      BY DEF Scanning
    <3> QED  BY <1>5, <3>1, <3>2, ScanStep DEF Typed, Poll, ScanBlock, SendFails
  <2>2. r \in Owed(s) /\ r \notin Through /\ r \in Row /\ r[1] = s /\ r[2] \in Nat
        /\ r[2] < next'[s]
    BY <1>2, <1>5, RowFacts DEF Owed, Asked, Scanned
  <2>3. CASE r \in Scanned(s)
    <3>1. PICK j \in DOMAIN events[s] : r \in events[s][j].rows
      BY <1>1, <2>1, <2>2, <2>3 DEF ScanInv, InEvents
    <3>2. CASE events'[s] = events[s]
      BY <3>1, <3>2 DEF InEvents
    <3>3. CASE Take(s) /\ events[s] # <<>> /\ events'[s] = Tail(events[s])
      <4>1. j # 1
        BY <1>5, <3>1, <3>3, TakenRows
      <4>2. /\ DOMAIN events'[s] = 1..(Len(events[s]) - 1) /\ Len(events[s]) \in Nat
            /\ DOMAIN events[s] = 1..Len(events[s])
            /\ \A k \in DOMAIN events'[s] : events'[s][k] = events[s][k + 1]
        BY <1>3, <3>3, QueueTail
      <4>3. j - 1 \in DOMAIN events'[s] /\ (j - 1) + 1 = j
        BY <3>1, <4>1, <4>2
      <4>4. events'[s][j - 1] = events[s][j]
        BY <4>2, <4>3
      <4> QED  BY <3>1, <4>3, <4>4 DEF InEvents
    <3>4. ASSUME NEW e \in EventType, events'[s] = Append(events[s], e)
          PROVE  r \in InEvents(s)'
      <4>1. j \in DOMAIN events'[s] /\ events'[s][j] = events[s][j]
        BY <1>3, <3>1, <3>4, QueueAppend
      <4> QED  BY <3>1, <4>1 DEF InEvents
    <3>5. CASE events'[s] = Append(events[s], Event("batch", Admitted(s)))
      BY <3>4, <3>5, AdmittedRows, EventIs
    <3>6. CASE Summarise(s)
      BY <1>5, <3>6 DEF Summarise, Typed, ShardsTyped
    <3>7. CASE StreamBreaks(s)
      BY <1>5, <3>7 DEF StreamBreaks, Typed, ShardsTyped
    <3> QED  BY <3>2, <3>3, <3>5, <3>6, <3>7, EventStep, ThroughGrows DEF Typed
  <2>4. CASE r \notin Scanned(s)
    <3>1. ~(r[2] < next[s])
      BY <2>2, <2>4 DEF Scanned
    <3>2. ScanBlock(s) /\ r[2] = next[s]
      <4>1. next'[s] # next[s]
        BY <2>2, <3>1
      <4>2. ScanBlock(s) /\ next'[s] = next[s] + 1
        BY <4>1, ScanStep DEF Typed
      <4> QED  BY <1>3, <2>2, <3>1, <4>2
    <3>3. r \in Admitted(s) /\ scan[s] = "block"
      BY <2>2, <3>2, AdmittedAre DEF ScanBlock
    <3>4. events'[s] = Append(events[s], Event("batch", Admitted(s)))
      BY <3>2, <3>3 DEF ScanBlock, Typed, ShardsTyped
    <3>5. Event("batch", Admitted(s)) \in EventType
          /\ Event("batch", Admitted(s)).rows = Admitted(s)
      BY AdmittedRows, EventIs
    <3>6. /\ Len(events[s]) + 1 \in DOMAIN events'[s]
          /\ events'[s][Len(events[s]) + 1] = Event("batch", Admitted(s))
      BY <1>3, <3>4, <3>5, QueueAppend
    <3> QED  BY <3>3, <3>5, <3>6 DEF InEvents
  <2> QED  BY <2>3, <2>4
<1> QED  BY <1>4, <1>5 DEF ScanInv

\* When a summary is taken, all its shard owes is through.
LEMMA CompletedNext ==
  ASSUME Typed, SentInv, PlaceInv, OwedInv, [Next]_vars, Scanning', NEW s \in completed'
  PROVE  Owed(s)' \subseteq Through'
<1>1. s \in completed \/ (s \in Shard /\ TakeSummary(s))
  BY TaskFrame DEF taskVars, ReceiveFirst, ValidateBitmaps, OpenShard, OpenFails, Flush,
     SendReply, CallerIsGone, Return, Deadline, FlushTick, RaiseFloor, CallerStops, CallerErrs,
     CallerCloses, Exhausted, TakeBatch, TakeSummary, TakeFailure
<1>2. s \in Shard /\ Through \subseteq Through' /\ Owed(s)' \subseteq Owed(s)
  BY <1>1, ThroughGrows, OwedShrinks DEF Typed, TaskTyped
<1>3. CASE s \in completed
  BY <1>2, <1>3, ThroughGrows DEF OwedInv, Scanning
<1>4. CASE TakeSummary(s)
  <2>1. events[s] \in Seq(EventType) /\ events[s] # <<>>
    BY <1>2, <1>4 DEF Typed, ShardsTyped, TakeSummary, TakesFrom
  <2>2. events[s][1].kind = "summary" /\ 1 \in DOMAIN events[s]
    BY <1>4, <2>1, QueueTail DEF TakeSummary, TakesFrom
  <2>3. SummaryInv(s)
    BY <1>2, ThroughGrows DEF OwedInv, Scanning
  <2>4. Owed(s) \subseteq Through
    BY <2>2, <2>3 DEF SummaryInv
  <2> QED  BY <1>2, <2>4
<1> QED  BY <1>1, <1>3, <1>4

\* A step keeps account of what is owed.
LEMMA OwedNext ==
  ASSUME Typed, ValidInv, AdmitsExactly, SentInv, PlaceInv, OwedInv, [Next]_vars
  PROVE  OwedInv'
BY SummaryNext, ScanNext, CompletedNext DEF OwedInv, Scanning

\* The invariant at the start.
LEMMA InvInit == Init => Inv
<1> SUFFICES ASSUME Init PROVE Inv
  OBVIOUS
<1> USE DEF Init
<1>1. start.floor \in Int
  BY StreamAssumption DEF StartType
<1>2. LastFloor = start.floor
  <2>1. \A x \in {start.floor} : (\A y \in {start.floor} : x >= y) => x = start.floor
    OBVIOUS
  <2> DEFINE top == CHOOSE x \in raised : \A y \in raised : x >= y
  <2>2. \E x \in raised : \A y \in raised : x >= y
    BY <1>1
  <2>3. top \in raised
    BY <2>2
  <2> QED  BY <2>3 DEF LastFloor, Max
<1>3. Sent = {} /\ DOMAIN sent = {}
  BY DEF Sent
<1>4. \A s \in Shard : DOMAIN events[s] = {} /\ Len(events[s]) = 0
  OBVIOUS
<1>5. CallTyped
  <2>1. sent \in Seq(MessageType) /\ Len(sent) = 0 /\ read = 0
    OBVIOUS
  <2>2. 0 <= 0 /\ 0 <= 0 + OutCap
    BY Constants
  <2>3. read \in Nat /\ read <= Len(sent) /\ Len(sent) <= read + OutCap
    BY <2>1, <2>2
  <2>4. start \in Starts /\ gone \in BOOLEAN
    OBVIOUS
  <2> HIDE DEF Init
  <2> QED  BY <2>1, <2>3, <2>4 DEF CallTyped
<1>6. TaskTyped
  <2>1. NoReply \in MessageType /\ 0 \in 0..Cardinality(Row) /\ 0 \in 0..NumShards
    BY Constants, MessageIs DEF NoReply
  <2> QED  BY <2>1, Constants DEF TaskTyped, Phases
<1>7. FloorsTyped
  BY <1>1, <1>2 DEF FloorsTyped
<1>8. ShardsTyped
  <2>1. <<>> \in Seq(EventType)
    OBVIOUS
  <2>2. events \in [Shard -> Seq(EventType)]
    BY <2>1
  <2> QED  BY <1>4, <2>2, Constants DEF ShardsTyped, Scans
<1>9. OpenedInv
  BY DEF OpenedInv
<1>10. ValidInv /\ PlaceInv
  BY <1>3, <1>4 DEF ValidInv, PlaceInv
<1>11. SentInv
  <2>1. Cardinality({}) = 0
    BY FS_EmptySet
  <2> QED  BY <1>3, <2>1 DEF SentInv
<1>12. OwedInv
  <2>1. \A s \in Shard : Scanned(s) = {}
    <3> SUFFICES ASSUME NEW s \in Shard, NEW r \in Row, r[1] = s PROVE ~(r[2] < next[s])
      BY DEF Scanned
    <3> QED  BY RowFacts
  <2> QED  BY <1>4, <2>1 DEF OwedInv, SummaryInv, ScanInv
<1> QED  BY <1>5, <1>6, <1>7, <1>8, <1>9, <1>10, <1>11, <1>12 DEF Inv, Typed

\* The bitmaps of the call are validated as LabelBitmaps validates them.
LEMMA ValidatesBitmaps == Spec => []AdmitsExactly
<1>1. Init => BitmapInit
  BY DEF Init
<1>2. [Next]_vars => [BitmapNext]_bitmapVars
  <2> SUFFICES ASSUME [Next]_vars, ~ValidateBitmaps PROVE UNCHANGED bitmapVars
    BY DEF ValidateBitmaps
  <2> QED
    BY DEF Next, Proceed, Caller, Work, Take, vars,
       ReceiveFirst, OpenShard, Flush, SendReply, Read, Leave,
       OpenFails, CallerIsGone, Deadline, FlushTick, RaiseFloor, CallerStops, CallerErrs,
       CallerCloses, TakeBatch, TakeSummary, TakeFailure, TakeClosed, Exhausted, Poll,
       ScanBlock, SendFails, Summarise, StreamBreaks, ReaderGone
<1>3. Spec => BitmapSpec
  BY <1>1, <1>2, PTL DEF Spec, BitmapSpec
<1> QED  BY <1>3, BitmapsAdmitExactly, PTL

\* The invariant of every reachable state.
LEMMA InvHolds == Spec => []Inv
<1>1. Inv /\ AdmitsExactly /\ [Next]_vars => Inv'
  <2> SUFFICES ASSUME Inv, AdmitsExactly, [Next]_vars PROVE Inv'
    OBVIOUS
  <2>1. Typed /\ ValidInv /\ PlaceInv /\ SentInv /\ OwedInv
    BY DEF Inv
  <2>2. Typed'
    BY <2>1, CallNext, TaskNext, FloorNext, ShardsNext, OpenedNext DEF Typed
  <2>3. ValidInv' /\ PlaceInv' /\ SentInv' /\ OwedInv'
    BY <2>1, ValidNext, PlaceNext, SentNext, OwedNext
  <2> QED  BY <2>2, <2>3 DEF Inv
<1> QED  BY <1>1, InvInit, ValidatesBitmaps, PTL DEF Spec

--------------------------------------------------------------------------------
(* Theorems.                                                               *)

\* Every reachable state of a candidate stream is well typed and no buffer
\* outgrows its bound, for any shards, scores, filters, floors and capacities.
THEOREM CandidateStreamTypeOK == Spec => []TypeOK
<1>1. Inv => TypeOK
  <2> SUFFICES ASSUME Inv PROVE TypeOK
    OBVIOUS
  <2>1. CallTyped /\ TaskTyped /\ FloorsTyped /\ ShardsTyped
    BY DEF Inv, Typed
  <2>2. Len(sent) - read \in 0..OutCap
    BY <2>1, Constants DEF CallTyped
  <2> QED  BY <2>1, <2>2 DEF TypeOK, CallTyped, TaskTyped, FloorsTyped, ShardsTyped, Phases, Scans
<1> QED  BY <1>1, InvHolds, PTL

\* Within a stream too, the bitmaps a start carries are looked up right once
\* they were accepted.
THEOREM FiltersAdmitExactly == Spec => []AdmitsExactly
BY ValidatesBitmaps

\* The step of the contract that a step of the stream is.
LEMMA ContractStep ==
  ASSUME Inv, [Next]_vars
  PROVE  [Contract!Next]_<<Asked(start.floor), Asked(LastFloor), sent>>
<1>1. Typed /\ PlaceInv /\ SentInv
  BY DEF Inv
<1>2. Asked(start.floor)' = Asked(start.floor)
  BY <1>1, ScannedGrows
<1>3. Contract!Delivered = Sent
  BY DEF Contract!Delivered, Sent
<1>card. Contract!Cardinality(Sent) = Cardinality(Sent)
  BY DEF Contract!Cardinality, Cardinality
<1>4. phase # "done" => ~Contract!Ended
  BY <1>1 DEF SentInv, Contract!Ended
<1>5. CASE Flush
  <2>1. pending # {} /\ pending \subseteq Asked(start.floor) /\ pending \intersect Sent = {}
        /\ phase # "done"
    BY <1>1, <1>5 DEF Flush, SentInv, PlaceInv
  <2>2. sent' = Append(sent, Contract!Batch(pending))
    BY <1>5 DEF Flush, Message, Contract!Batch, Contract!Message
  <2>3. Asked(LastFloor)' = Asked(LastFloor)
    BY <1>1, <1>5, OwedShrinks DEF Flush
  <2>4. Contract!Deliver
    BY <1>2, <1>3, <1>4, <2>1, <2>2, <2>3 DEF Contract!Deliver
  <2> QED  BY <2>4 DEF Contract!Next
<1>6. CASE SendReply
  <2>1. ReplyInv /\ phase # "done" /\ emitted = Cardinality(Sent) /\ sent' = Append(sent, reply)
    BY <1>1, <1>6 DEF SendReply, SentInv
  <2>2. Asked(LastFloor)' = Asked(LastFloor)
    BY <1>1, <1>6, OwedShrinks DEF SendReply
  <2>3. CASE reply = Status /\ sent = <<>>
    <3>1. sent' = <<Contract!Message("status", {}, 0)>>
      BY <2>1, <2>3 DEF Status, Message, Contract!Message
    <3> QED  BY <1>2, <2>2, <2>3, <3>1 DEF Contract!Refuse, Contract!Next
  <2>4. CASE reply = Incomplete
    <3>1. sent' = Append(sent, Contract!Message("incomplete", {},
                                  Contract!Cardinality(Contract!Delivered)))
      BY <1>3, <1>card, <2>1, <2>4 DEF Incomplete, Message, Contract!Message
    <3>2. Contract!GiveUp
      BY <1>2, <1>4, <2>1, <2>2, <3>1 DEF Contract!GiveUp
    <3> QED  BY <3>2 DEF Contract!Next
  <2>5. CASE reply = Complete /\ Asked(LastFloor) \subseteq Sent
    <3>1. sent' = Append(sent, Contract!Message("complete", {},
                                  Contract!Cardinality(Contract!Delivered)))
      BY <1>3, <1>card, <2>1, <2>5 DEF Complete, Message, Contract!Message
    <3>2. Contract!Complete
      BY <1>2, <1>3, <1>4, <2>1, <2>2, <2>5, <3>1 DEF Contract!Complete
    <3> QED  BY <3>2 DEF Contract!Next
  <2> QED  BY <2>1, <2>3, <2>4, <2>5 DEF ReplyInv
<1>7. CASE RaiseFloor
  <2>1. phase # "done" /\ sent' = sent
    BY <1>7 DEF RaiseFloor, Selecting, callVars
  <2>2. Asked(LastFloor)' \in SUBSET Asked(LastFloor)
    BY <1>1, OwedShrinks
  <2> QED  BY <1>2, <1>4, <2>1, <2>2 DEF Contract!Raise, Contract!Next
<1>8. CASE ~Flush /\ ~SendReply /\ ~RaiseFloor
  <2>1. Asked(LastFloor)' = Asked(LastFloor)
    BY <1>1, <1>8, OwedShrinks
  <2>2. sent' = sent
    BY <1>8, CallFrame DEF callVars, Read, Leave
  <2> QED  BY <1>2, <2>1, <2>2
<1> QED  BY <1>5, <1>6, <1>7, <1>8

\* Whatever the caller, the shards and the deadline do, and in whatever order,
\* a candidate stream keeps the contract of coordinator.proto: no candidate
\* twice, no empty batch, one terminal message and nothing after it, a true
\* count, and completion only after every row owed at the last floor raised.
THEOREM StreamKeepsContract == Spec => KeepsContract
<1>1. Init => Contract!Init
  <2> SUFFICES ASSUME Init PROVE Contract!Init
    OBVIOUS
  <2>1. Inv
    BY InvInit
  <2>2. \A r \in Asked(LastFloor) : r \in Asked(start.floor)
    <3> SUFFICES ASSUME NEW r \in Asked(LastFloor) PROVE r \in Asked(start.floor)
      OBVIOUS
    <3>1. start.floor \in Int /\ LastFloor \in Int /\ start.floor <= LastFloor
      BY <2>1, StreamAssumption DEF Inv, Typed, CallTyped, FloorsTyped, StartType
    <3>2. r \in Row /\ start.score[r] \in Int
      BY <2>1, StreamAssumption DEF Inv, Typed, CallTyped, StartType, Asked
    <3> QED  BY <3>1, <3>2 DEF Asked
  <2> QED  BY <2>2 DEF Init, Contract!Init, Asked
<1>2. Inv /\ [Next]_vars => [Contract!Next]_<<Asked(start.floor), Asked(LastFloor), sent>>
  BY ContractStep
<1> QED  BY <1>1, <1>2, InvHolds, PTL DEF Spec, KeepsContract, Contract!Spec
================================================================================
