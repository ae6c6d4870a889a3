------------------------------ MODULE StreamQuery ------------------------------
(***************************************************************************)
(* One distributed exact search: CoordinatorService::stream_query, the     *)
(* StreamSearch scan of every shard, and the channels between them.        *)
(*                                                                         *)
(* The coordinator opens the shards one after another, then one collector  *)
(* task folds every candidate of every shard into one bounded heap.  When  *)
(* the heap is full its root score is published as a floor on a watch      *)
(* channel per shard, which keeps only the latest value.  A node's pump    *)
(* raises an atomic floor from that channel; the scan polls it between     *)
(* blocks and emits every row at or above the floor it last applied.  The  *)
(* scan itself (try_search_streaming_controlled of the turbovec engine) is *)
(* outside the repository and is modelled from its contract here: a poll   *)
(* before each block, an inclusive floor, a summary that says completed    *)
(* only when the scan was not stopped.                                     *)
(*                                                                         *)
(* Candidates are inserted one action at a time, in any order within their *)
(* batch; the floor is published once per batch, as in the code.           *)
(***************************************************************************)
EXTENDS Ranking, Sequences

CONSTANTS
  BlockRows,   \* rows the engine scans between two polls
  QueueCap     \* events buffered between one shard's scan and the collector

ASSUME BoundAssumption == BlockRows \in Nat \ {0} /\ QueueCap \in Nat \ {0}

VARIABLES
  \* the query, and what the caller gets
  query, answer,
  \* coordinator: streams opened, the collector's heap and its tie list, the
  \* highest floor published, the shards that certified completion, and the
  \* batch in hand (its rows still to insert; [open |-> FALSE] between batches)
  opened, heap, ties, floor, completed, batch,
  \* per shard, coordinator side: the unread value of the watch channel, the
  \* buffered response events, and whether a reader task still drains them
  control, events, listening,
  \* per shard, node side: the scan's state, the next slot to scan, the floor
  \* the scan applied, the atomic floor and the stop flag raised by the pump
  scan, next, scanFloor, liveFloor, stop

coordVars == <<opened, heap, ties, floor, completed, batch>>
linkVars == <<control, events, listening>>
nodeVars == <<scan, next, scanFloor, liveFloor, stop>>
vars == <<query, answer, coordVars, linkVars, nodeVars>>

Pending == [kind |-> "pending", rows |-> {}]
Failed == [kind |-> "error", rows |-> {}]
Ranked(R) == [kind |-> "rows", rows |-> R]

Event(kind, rows) == [kind |-> kind, rows |-> rows]
NoBatch == [open |-> FALSE, rows |-> {}]
NoControl == [kind |-> "none", floor |-> 0]
FloorUpdate(f) == [kind |-> "floor", floor |-> f]
Stop == [kind |-> "stop", floor |-> 0]

\* The collector waits for an event: every stream is open, and the last batch
\* is folded in.  This and OpenShard are the awaits of stream_query.
Receiving ==
  /\ answer = Pending
  /\ opened = NumShards
  /\ ~batch.open
  /\ completed # Shard

--------------------------------------------------------------------------------
(* The coordinator's heap.                                                 *)

\* BinaryHeap::peek: the worst candidate held, as a set with one element
\* (none when the heap is empty).
Root == {w \in heap : \A h \in heap \ {w} : Better(query, h, w)}

HeapFull == Cardinality(heap) = query.k

--------------------------------------------------------------------------------
Init ==
  /\ query \in Query
  /\ answer = Pending
  /\ opened = 0
  /\ heap = {}
  /\ ties = {}
  /\ floor = query.initialFloor
  /\ completed = {}
  /\ batch = NoBatch
  /\ control = [s \in Shard |-> NoControl]
  /\ events = [s \in Shard |-> <<>>]
  /\ listening = [s \in Shard |-> FALSE]
  /\ scan = [s \in Shard |-> "idle"]
  /\ next = [s \in Shard |-> 1]
  /\ scanFloor = [s \in Shard |-> query.initialFloor]
  /\ liveFloor = [s \in Shard |-> query.initialFloor]
  /\ stop = [s \in Shard |-> FALSE]

--------------------------------------------------------------------------------
(* Opening and abandoning the streams.                                     *)

\* The next shard accepts StartStreamSearch, has its scan permit, and answers.
\* Start has then left the watch channel, so no floor can overwrite it.
OpenShard ==
  /\ answer = Pending
  /\ opened < NumShards
  /\ opened' = opened + 1
  /\ listening' = [listening EXCEPT ![opened + 1] = TRUE]
  /\ scan' = [scan EXCEPT ![opened + 1] = "poll"]
  /\ UNCHANGED <<query, answer, heap, ties, floor, completed, batch, control,
                 events, next, scanFloor, liveFloor, stop>>

\* Returning from stream_query drops every ShardControl still held; one whose
\* shard has not completed leaves Stop in its watch channel.
Abandon ==
  /\ answer' = Failed
  /\ batch' = NoBatch
  /\ control' = [s \in Shard |-> IF s <= opened /\ s \notin completed
                                 THEN Stop ELSE control[s]]

\* The next shard refuses or cannot be reached.  The node may have started the
\* scan before its answer was lost: nobody listens to that one.
OpenFails ==
  /\ answer = Pending
  /\ opened < NumShards
  /\ Abandon
  /\ \E started \in {"idle", "poll"} :
       scan' = [scan EXCEPT ![opened + 1] = started]
  /\ UNCHANGED <<query, opened, heap, ties, floor, completed, events, listening,
                 next, scanFloor, liveFloor, stop>>

\* tokio::time::timeout around the query, or the caller's task set dropped.
Deadline ==
  /\ Receiving \/ (answer = Pending /\ opened < NumShards)
  /\ Abandon
  /\ UNCHANGED <<query, opened, heap, ties, floor, completed, events, listening,
                 nodeVars>>

\* Variant (sensitivity of ScansReleased): the reader task gives up on the
\* collector but keeps the response stream open.
ReaderGoneStreamKept(s) ==
  /\ answer # Pending
  /\ listening[s]
  /\ events[s] # <<>>
  /\ UNCHANGED vars

\* Once the query is over, the reader task of a stream finds the collector
\* gone when it forwards its next event, and drops the response stream.
ReaderGone(s) ==
  /\ answer # Pending
  /\ listening[s]
  /\ events[s] # <<>>
  /\ listening' = [listening EXCEPT ![s] = FALSE]
  /\ events' = [events EXCEPT ![s] = <<>>]
  /\ UNCHANGED <<query, answer, coordVars, control, nodeVars>>

--------------------------------------------------------------------------------
(* A shard's node.                                                         *)

Scanning(s) == scan[s] \in {"poll", "block"}
Higher(a, b) == IF a > b THEN a ELSE b

\* The inbound pump: raise_floor on a FloorUpdate, the stop flag on Stop.
Pump(s) ==
  /\ Scanning(s)
  /\ control[s] # NoControl
  /\ control' = [control EXCEPT ![s] = NoControl]
  /\ liveFloor' = [liveFloor EXCEPT ![s] =
                     IF control[s].kind = "floor"
                     THEN Higher(control[s].floor, @) ELSE @]
  /\ stop' = [stop EXCEPT ![s] = @ \/ control[s].kind = "stop"]
  /\ UNCHANGED <<query, answer, coordVars, events, listening, scan, next,
                 scanFloor>>

\* The engine's poll before a block: leave on stop, else apply a raised floor.
Poll(s) ==
  /\ scan[s] = "poll"
  /\ scan' = [scan EXCEPT ![s] = IF stop[s] THEN "stopped" ELSE "block"]
  /\ scanFloor' = [scanFloor EXCEPT ![s] =
                     IF stop[s] THEN @ ELSE Higher(liveFloor[s], @)]
  /\ UNCHANGED <<query, answer, coordVars, linkVars, next, liveFloor, stop>>

Block(s) == {r \in Row : /\ ShardOf(r) = s
                         /\ SlotOf(r) >= next[s]
                         /\ SlotOf(r) < next[s] + BlockRows}

\* Variants (sensitivity of NothingLost and ExactOrError): an exclusive floor,
\* and a forgotten label mask.
AdmittedAboveFloor(s) ==
  {r \in Block(s) : r \in query.allowed /\ query.score[r] > scanFloor[s]}
AdmittedUnmasked(s) ==
  {r \in Block(s) : query.score[r] >= scanFloor[s]}

\* The rows of the block that pass the mask and the inclusive floor.
Admitted(s) ==
  {r \in Block(s) : r \in query.allowed /\ query.score[r] >= scanFloor[s]}

\* Scan one block and send what it admits; blocking_send waits for room.
ScanBlock(s) ==
  /\ scan[s] = "block"
  /\ \/ Admitted(s) = {} /\ UNCHANGED events
     \/ /\ Admitted(s) # {}
        /\ listening[s]
        /\ Len(events[s]) < QueueCap
        /\ events' = [events EXCEPT ![s] =
                        Append(@, Event("batch", Admitted(s)))]
  /\ next' = [next EXCEPT ![s] = @ + BlockRows]
  /\ scan' = [scan EXCEPT ![s] =
                IF next[s] + BlockRows > ShardLen[s] THEN "scanned" ELSE "poll"]
  /\ UNCHANGED <<query, answer, coordVars, control, listening, scanFloor,
                 liveFloor, stop>>

\* The receiver is gone: the batch callback stops the scan.
SendFails(s) ==
  /\ scan[s] = "block"
  /\ Admitted(s) # {}
  /\ ~listening[s]
  /\ scan' = [scan EXCEPT ![s] = "stopped"]
  /\ UNCHANGED <<query, answer, coordVars, linkVars, next, scanFloor, liveFloor,
                 stop>>

\* Variant (sensitivity of Answered): try_send in place of send, which drops
\* the summary when the channel is full.
SummariseTrySend(s) ==
  /\ scan[s] \in {"scanned", "stopped"}
  /\ scan' = [scan EXCEPT ![s] = "ended"]
  /\ events' =
       IF listening[s] /\ Len(events[s]) < QueueCap
       THEN [events EXCEPT ![s] =
               Append(@, Event(IF scan[s] = "scanned" THEN "summary"
                               ELSE "incomplete", {}))]
       ELSE events
  /\ UNCHANGED <<query, answer, coordVars, control, listening, next, scanFloor,
                 liveFloor, stop>>

\* After the blocking task has returned, and with it the scan permit, the node
\* sends its summary; a stopped scan says it is not complete.
Summarise(s) ==
  /\ scan[s] \in {"scanned", "stopped"}
  /\ listening[s] => Len(events[s]) < QueueCap
  /\ scan' = [scan EXCEPT ![s] = "ended"]
  /\ events' =
       IF listening[s]
       THEN [events EXCEPT ![s] =
               Append(@, Event(IF scan[s] = "scanned" THEN "summary"
                               ELSE "incomplete", {}))]
       ELSE events
  /\ UNCHANGED <<query, answer, coordVars, control, listening, next, scanFloor,
                 liveFloor, stop>>

\* The node or the connection dies: the tail of what was buffered is lost, and
\* the reader sees a status, or a stream closed with no more messages.
StreamBreaks(s) ==
  /\ listening[s]
  /\ scan[s] # "broken"
  /\ scan' = [scan EXCEPT ![s] = "broken"]
  /\ \E kept \in 0..Len(events[s]), kind \in {"error", "closed"} :
       events' = [events EXCEPT ![s] =
                    Append(SubSeq(@, 1, kept), Event(kind, {}))]
  /\ UNCHANGED <<query, answer, coordVars, control, listening, next, scanFloor,
                 liveFloor, stop>>

--------------------------------------------------------------------------------
(* The collector.                                                          *)

TakesFrom(s, kinds) ==
  /\ Receiving
  /\ events[s] # <<>>
  /\ Head(events[s]).kind \in kinds

\* Variant (sensitivity of CollectedOnce): a batch delivered again.
TakeBatchAgain(s) ==
  /\ TakesFrom(s, {"batch"})
  /\ s \notin completed
  /\ batch' = [open |-> TRUE, rows |-> Head(events[s]).rows]
  /\ UNCHANGED <<query, answer, opened, heap, ties, floor, completed, linkVars,
                 nodeVars>>

TakeBatch(s) ==
  /\ TakesFrom(s, {"batch"})
  /\ s \notin completed
  /\ batch' = [open |-> TRUE, rows |-> Head(events[s]).rows]
  /\ events' = [events EXCEPT ![s] = Tail(@)]
  /\ UNCHANGED <<query, answer, opened, heap, ties, floor, completed, control,
                 listening, nodeVars>>

\* Variant (sensitivity of Inductive): push while heap.len() <= k.
InsertCandidateOneMore ==
  /\ batch.open
  /\ \E r \in batch.rows :
       /\ batch' = [batch EXCEPT !.rows = @ \ {r}]
       /\ ties' = IF query.tieComplete THEN ties \union {r} ELSE ties
       /\ IF Cardinality(heap) <= query.k
          THEN heap' = heap \union {r}
          ELSE \E w \in Root :
                 heap' = IF Better(query, r, w)
                         THEN (heap \ {w}) \union {r} ELSE heap
  /\ UNCHANGED <<query, answer, opened, floor, completed, linkVars, nodeVars>>

\* heap.push while there is room; afterwards a candidate better than the root
\* replaces it.
InsertCandidate ==
  /\ batch.open
  /\ \E r \in batch.rows :
       /\ batch' = [batch EXCEPT !.rows = @ \ {r}]
       /\ ties' = IF query.tieComplete THEN ties \union {r} ELSE ties
       /\ \/ Cardinality(heap) < query.k /\ heap' = heap \union {r}
          \/ /\ Cardinality(heap) >= query.k
             /\ \A h \in heap : ~Better(query, r, h)
             /\ UNCHANGED heap
          \/ /\ Cardinality(heap) >= query.k
             /\ \E w \in Root :
                  Better(query, r, w) /\ heap' = (heap \ {w}) \union {r}
  /\ UNCHANGED <<query, answer, opened, floor, completed, linkVars, nodeVars>>

\* Variants (sensitivity of FloorSound, NothingLost and ExactOrError): a floor
\* from a heap that is not full yet, and a tie list pruned at the floor itself.
PublishPartialHeap ==
  /\ batch.open /\ batch.rows = {}
  /\ batch' = NoBatch
  /\ IF \E w \in Root : query.score[w] > floor
     THEN \E w \in Root :
            /\ floor' = query.score[w]
            /\ ties' = {t \in ties : query.score[t] >= query.score[w]}
            /\ control' = [s \in Shard |-> IF s \in completed THEN control[s]
                                           ELSE FloorUpdate(query.score[w])]
     ELSE UNCHANGED <<floor, ties, control>>
  /\ UNCHANGED <<query, answer, opened, heap, completed, events, listening,
                 nodeVars>>
PublishPruningTies ==
  /\ batch.open /\ batch.rows = {}
  /\ batch' = NoBatch
  /\ IF HeapFull /\ \E w \in Root : query.score[w] > floor
     THEN \E w \in Root :
            /\ floor' = query.score[w]
            /\ ties' = {t \in ties : query.score[t] > query.score[w]}
            /\ control' = [s \in Shard |-> IF s \in completed THEN control[s]
                                           ELSE FloorUpdate(query.score[w])]
     ELSE UNCHANGED <<floor, ties, control>>
  /\ UNCHANGED <<query, answer, opened, heap, completed, events, listening,
                 nodeVars>>

\* End of the batch: a full heap whose root beats the published floor raises it
\* on every shard still scanning (send_replace), and prunes the tie list.
PublishFloor ==
  /\ batch.open /\ batch.rows = {}
  /\ batch' = NoBatch
  /\ \/ /\ \A w \in Root : ~(HeapFull /\ query.score[w] > floor)
        /\ UNCHANGED <<floor, ties, control>>
     \/ /\ HeapFull
        /\ \E w \in Root :
             /\ query.score[w] > floor
             /\ floor' = query.score[w]
             /\ ties' = {t \in ties : query.score[t] >= query.score[w]}
             /\ control' = [s \in Shard |-> IF s \in completed THEN control[s]
                                            ELSE FloorUpdate(query.score[w])]
  /\ UNCHANGED <<query, answer, opened, heap, completed, events, listening,
                 nodeVars>>

\* Variant (sensitivity of NoSelfAbort): a full heap at the first summary taken
\* for the end of the search, and the other scans stopped.
TakeSummaryStoppingOthers(s) ==
  /\ TakesFrom(s, {"summary"})
  /\ s \notin completed
  /\ completed' = completed \union {s}
  /\ events' = [events EXCEPT ![s] = Tail(@)]
  /\ control' = IF HeapFull THEN [t \in Shard |-> Stop] ELSE control
  /\ UNCHANGED <<query, answer, opened, heap, ties, floor, batch, listening,
                 nodeVars>>

TakeSummary(s) ==
  /\ TakesFrom(s, {"summary"})
  /\ s \notin completed
  /\ completed' = completed \union {s}
  /\ events' = [events EXCEPT ![s] = Tail(@)]
  /\ UNCHANGED <<query, answer, opened, heap, ties, floor, batch, control,
                 listening, nodeVars>>

\* Every event that ends the query: a status, whatever the shard has sent; a
\* close or an incomplete summary before completion; and, as protocol checks, a
\* batch or a second summary after it.
EndsQuery(s) ==
  \/ Head(events[s]).kind = "error"
  \/ s \notin completed /\ Head(events[s]).kind \in {"closed", "incomplete"}
  \/ s \in completed /\ Head(events[s]).kind \in {"batch", "summary", "incomplete"}

TakeFailure(s) ==
  /\ Receiving
  /\ events[s] # <<>>
  /\ EndsQuery(s)
  /\ events' = [events EXCEPT ![s] = Tail(@)]
  /\ Abandon
  /\ UNCHANGED <<query, opened, heap, ties, floor, completed, listening,
                 nodeVars>>

\* Variant (sensitivity of ExactOrError): a stream that just closes counts as
\* complete.
TakeClosedAsComplete(s) ==
  /\ TakesFrom(s, {"closed"})
  /\ completed' = completed \union {s}
  /\ events' = [events EXCEPT ![s] = Tail(@)]
  /\ UNCHANGED <<query, answer, opened, heap, ties, floor, batch, control,
                 listening, nodeVars>>

\* The stream of a shard that has completed closes.
TakeClosed(s) ==
  /\ TakesFrom(s, {"closed"})
  /\ s \in completed
  /\ events' = [events EXCEPT ![s] = Tail(@)]
  /\ UNCHANGED <<query, answer, coordVars, control, listening, nodeVars>>

\* Every shard certified completion: return the heap, or the rows that tie or
\* beat its root.
Finish ==
  /\ answer = Pending
  /\ ~batch.open
  /\ completed = Shard
  /\ \/ ~query.tieComplete /\ answer' = Ranked(heap)
     \/ query.tieComplete /\ heap = {} /\ answer' = Ranked(ties)
     \/ /\ query.tieComplete
        /\ \E w \in Root :
             answer' = Ranked({t \in ties : query.score[t] >= query.score[w]})
  /\ UNCHANGED <<query, coordVars, linkVars, nodeVars>>

--------------------------------------------------------------------------------
NodeStep(s) ==
  Pump(s) \/ Poll(s) \/ ScanBlock(s) \/ SendFails(s) \/ Summarise(s)

CollectorStep ==
  \/ OpenShard \/ InsertCandidate \/ PublishFloor \/ Finish
  \/ \E s \in Shard :
       TakeBatch(s) \/ TakeSummary(s) \/ TakeFailure(s) \/ TakeClosed(s)

Next ==
  \/ CollectorStep \/ OpenFails \/ Deadline
  \/ \E s \in Shard : NodeStep(s) \/ StreamBreaks(s) \/ ReaderGone(s)

Spec == Init /\ [][Next]_vars

\* Tasks that can run do run: the runtime schedules the collector, the readers
\* and each node's pump and scan.  Nothing is assumed of failures or timers.
Fairness ==
  /\ WF_vars(CollectorStep)
  /\ \A s \in Shard : WF_vars(NodeStep(s)) /\ WF_vars(ReaderGone(s))

FairSpec == Spec /\ Fairness

--------------------------------------------------------------------------------
(* Properties.                                                             *)

EventType == [kind : {"batch"}, rows : SUBSET Row]
      \union [kind : {"summary", "incomplete", "error", "closed"}, rows : {{}}]
AnswerType == [kind : {"pending", "rows", "error"}, rows : SUBSET Row]
BatchType == [open : BOOLEAN, rows : SUBSET Row]
ControlType == [kind : {"none", "floor", "stop"}, floor : Int]

\* Every variable stays in its type, and the heap never outgrows k.
TypeOK ==
  /\ query \in Query
  /\ answer \in AnswerType
  /\ opened \in 0..NumShards
  /\ heap \in SUBSET Row /\ IsFiniteSet(heap) /\ Cardinality(heap) <= query.k
  /\ ties \in SUBSET Row
  /\ floor \in Int
  /\ completed \in SUBSET Shard
  /\ batch \in BatchType
  /\ control \in [Shard -> ControlType]
  /\ events \in [Shard -> Seq(EventType)]
  /\ listening \in [Shard -> BOOLEAN]
  /\ scan \in [Shard -> {"idle", "poll", "block", "scanned", "stopped",
                         "ended", "broken"}]
  /\ next \in [Shard -> Nat \ {0}]
  /\ scanFloor \in [Shard -> Int]
  /\ liveFloor \in [Shard -> Int]
  /\ stop \in [Shard -> BOOLEAN]

\* A row is on its way to the collector.
InFlight(r) ==
  \/ r \in batch.rows
  \/ \E i \in DOMAIN events[ShardOf(r)] : r \in events[ShardOf(r)][i].rows

Unscanned(r) == SlotOf(r) >= next[ShardOf(r)]

\* The stream broke before its summary was buffered: the shard can no longer
\* complete, so the query can only fail.
StreamLost(s) ==
  /\ s \notin completed
  /\ scan[s] = "broken"
  /\ \A i \in DOMAIN events[s] : events[s][i].kind # "summary"

\* No interleaving of scans, floor updates and buffered batches loses a row of
\* the answer: until the reply, each is unscanned, in flight, or held by the
\* collector, unless the stream that owed it is lost.
NothingLost ==
  answer = Pending =>
    \A r \in ExactRows(query) :
      \/ StreamLost(ShardOf(r))
      \/ Unscanned(r)
      \/ InFlight(r)
      \/ r \in (IF query.tieComplete THEN ties ELSE heap)

\* A floor the coordinator publishes is never above the k-th best score of the
\* whole collection, although it is taken from a heap that has seen only part
\* of it, and shards apply it late.
FloorSound ==
  floor > query.initialFloor =>
    Cardinality({r \in Eligible(query) : query.score[r] >= floor}) >= query.k

\* The coordinator never aborts its own query: while it collects, no scan has
\* been told to stop, so no incomplete summary can reach it.
NoSelfAbort ==
  answer = Pending =>
    \A s \in Shard :
      /\ scan[s] # "stopped"
      /\ \A i \in DOMAIN events[s] : events[s][i].kind # "incomplete"

\* The set-valued heap and tie list stand for the code's multisets: a row that
\* is still unscanned or in flight has not been collected already.
CollectedOnce ==
  \A r \in heap \union ties : ~Unscanned(r) /\ ~InFlight(r)

\* --- The inductive invariant behind ExactAnswer. ---

\* Nothing the collector holds can be displaced by r any more.
Dominated(r) == HeapFull /\ \A h \in heap : Better(query, h, r)
Outscored(r) == HeapFull /\ \A h \in heap : query.score[h] > query.score[r]

\* The collector has dealt with r for good.
Collected(r) ==
  /\ r \in heap \/ Dominated(r)
  /\ query.tieComplete => r \in ties \/ Outscored(r)

Certified(s) ==
  s \in completed \/ \E i \in DOMAIN events[s] : events[s][i].kind = "summary"

CarriedOK(s, i, r) ==
  /\ r \in Eligible(query) /\ ShardOf(r) = s /\ ~Unscanned(r)
  /\ r \notin heap /\ r \notin batch.rows
  /\ \A j \in DOMAIN events[s] : r \in events[s][j].rows => j = i

\* Each carried row is eligible, has been scanned, and is carried once.
RowsOK ==
  /\ heap \union ties \union batch.rows \subseteq Eligible(query)
  /\ \A r \in heap \union batch.rows : ~Unscanned(r)
  /\ heap \intersect batch.rows = {}
  /\ ~batch.open => batch.rows = {}
  /\ \A s \in Shard : \A i \in DOMAIN events[s] : \A r \in events[s][i].rows :
       CarriedOK(s, i, r)

\* Floors: the published one is backed by a full heap, every copy is behind it.
FloorsOK ==
  /\ floor >= query.initialFloor
  /\ floor > query.initialFloor =>
       HeapFull /\ \A h \in heap : query.score[h] >= floor
  /\ \A s \in Shard :
       /\ liveFloor[s] <= floor
       /\ scanFloor[s] <= floor /\ scanFloor[s] >= query.initialFloor
       /\ control[s].kind = "floor" => control[s].floor <= floor

\* Streams: a shard that certified completion has scanned everything and sends
\* no more rows.
StreamsOK ==
  \A s \in Shard :
    /\ scan[s] = "scanned" => next[s] > ShardLen[s]
    /\ Certified(s) => next[s] > ShardLen[s] /\ scan[s] \in {"ended", "broken"}
    /\ s \in completed => \A i \in DOMAIN events[s] : events[s][i].rows = {}
    /\ \A i, j \in DOMAIN events[s] :
         events[s][i].kind = "summary" /\ i < j => events[s][j].rows = {}
    /\ answer = Pending /\ s > opened => scan[s] = "idle" /\ ~listening[s]

\* Until the reply every eligible row is accounted for; the reply is exact.
RowsAccounted ==
  answer = Pending =>
    \A r \in Eligible(query) :
      StreamLost(ShardOf(r)) \/ Unscanned(r) \/ InFlight(r) \/ Collected(r)

Inductive ==
  /\ TypeOK /\ RowsOK /\ FloorsOK /\ StreamsOK /\ RowsAccounted
  /\ answer.kind = "rows" => answer.rows = ExactRows(query)

\* stream_query implements the promise of ExactSearch: one reply, which is the
\* exact ranking or an error, never a partial ranking.
Promise == INSTANCE ExactSearch
ExactOrError == Promise!Spec

\* A reply that ranks rows ranks exactly the rows the reference definition
\* names.
ExactAnswer == answer.kind = "rows" => answer.rows = ExactRows(query)

\* With no failure and no deadline to help, the query is answered: the floors,
\* the bounded queues and the sequential opens never block each other for good.
Answered == <>(answer # Pending)

\* Once the query is answered, however it ended, every scan it started leaves
\* its node's scan slot.
ScansReleased ==
  answer # Pending ~> \A s \in Shard : scan[s] \in {"idle", "ended", "broken"}

================================================================================
