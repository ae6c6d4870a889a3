---------------------------- MODULE CandidateStream ----------------------------
(***************************************************************************)
(* One StreamCandidates call: run_candidate_stream between a caller, who   *)
(* raises floors, stops, stops reading or leaves whenever it likes, and    *)
(* the shards' scans.                                                      *)
(*                                                                         *)
(* The coordinator is one task.  While it sends (phase "flush" or "reply") *)
(* the response channel may be full, and then it polls nothing else: not   *)
(* its deadline, not the caller's messages, not the shards.  Streams and   *)
(* scans are those of StreamQuery, with a block of one row.  The inbound   *)
(* pump and the watch channel of a shard are taken together: a poll adopts *)
(* any floor published so far that is not below the one it has.            *)
(***************************************************************************)
EXTENDS LabelBitmaps, FiniteSetsExt

CONSTANTS
  NumShards,   \* shards of the pinned collection
  ShardLen,    \* ShardLen[s]: rows held by shard s
  Starts,      \* the starts callers send (their bitmaps apart)
  Floors,      \* the floors callers raise to
  OutCap,      \* responses buffered for the caller
  QueueCap,    \* events buffered between one shard's scan and the coordinator
  BatchRows    \* pending candidates that are flushed at once

Shard == 1..NumShards
Row == UNION {{s} \X (1..ShardLen[s]) : s \in Shard}
StartType == [score : [Row -> Int], label : [Row -> Label],
              filtered : BOOLEAN, floor : Int]

ASSUME StreamAssumption ==
  /\ NumShards \in Nat \ {0} /\ ShardLen \in [Shard -> Nat]
  /\ \A start \in Starts : start \in StartType
  /\ Floors \subseteq Int
  /\ {OutCap, QueueCap, BatchRows} \subseteq Nat \ {0}

VARIABLES
  \* the call: what its start says, and what the caller has read of the
  \* responses sent; gone once it drops the response stream
  start, sent, read, gone,
  \* the coordinator's task: where it is, the terminal message it is sending,
  \* and its locals; raised holds the initial floor and those told to shards
  phase, reply, opened, completed, inboundOpen, raised, pending, emitted,
  \* per shard: Stop on its control channel, the buffered events, whether a
  \* reader task drains them, and the scan with the floor it applied
  stop, events, listening, scan, next, scanFloor

callVars == <<start, sent, read, gone>>
taskVars == <<phase, reply, opened, completed, inboundOpen, raised, pending,
              emitted>>
shardVars == <<stop, events, listening, scan, next, scanFloor>>
vars == <<bitmapVars, callVars, taskVars, shardVars>>

Message(kind, rows, count) == [kind |-> kind, rows |-> rows, emitted |-> count]
NoReply == Message("none", {}, 0)
Status == Message("status", {}, 0)
Incomplete == Message("incomplete", {}, emitted)
Complete == Message("complete", {}, emitted)

LastFloor == Max(raised)

Event(kind, rows) == [kind |-> kind, rows |-> rows]

--------------------------------------------------------------------------------
Init ==
  /\ BitmapInit
  /\ start \in Starts
  /\ sent = <<>> /\ read = 0 /\ gone = FALSE
  /\ phase = "first" /\ reply = NoReply
  /\ opened = 0 /\ completed = {} /\ inboundOpen = TRUE
  /\ raised = {start.floor}
  /\ pending = {} /\ emitted = 0
  /\ stop = [s \in Shard |-> FALSE]
  /\ events = [s \in Shard |-> <<>>]
  /\ listening = [s \in Shard |-> FALSE]
  /\ scan = [s \in Shard |-> "idle"]
  /\ next = [s \in Shard |-> 1]
  /\ scanFloor = [s \in Shard |-> start.floor]

--------------------------------------------------------------------------------
(* Before the scan.                                                        *)

\* The terminal message is to be sent next.
EndWith(message) == phase' = "reply" /\ reply' = message

\* The first message: a good start, whose bitmaps are looked at next; a
\* collection that cannot be pinned; or something the stream is refused for,
\* bitmaps without has_allowed_labels among it.
ReceiveFirst ==
  /\ phase = "first"
  /\ \/ /\ start.filtered \/ bitmaps = <<>>
        /\ phase' = "check"
        /\ UNCHANGED reply
     \/ EndWith(Incomplete)
     \/ EndWith(Status)
  /\ UNCHANGED <<bitmapVars, callVars, shardVars, opened, completed, inboundOpen,
                 raised, pending, emitted>>

ValidateBitmaps ==
  /\ phase = "check"
  /\ BitmapNext
  /\ \/ verdict' = "checking" /\ UNCHANGED <<phase, reply>>
     \/ verdict' = "valid" /\ phase' = "opening" /\ UNCHANGED reply
     \/ verdict' = "refused" /\ EndWith(Status)
  /\ UNCHANGED <<callVars, shardVars, opened, completed, inboundOpen, raised,
                 pending, emitted>>

\* The shards are opened one after another, each with the caller's floor.
OpenShard ==
  /\ phase = "opening"
  /\ opened' = opened + 1
  /\ phase' = IF opened + 1 = NumShards THEN "select" ELSE "opening"
  /\ listening' = [listening EXCEPT ![opened + 1] = TRUE]
  /\ scan' = [scan EXCEPT ![opened + 1] = "poll"]
  /\ UNCHANGED <<bitmapVars, callVars, reply, completed, inboundOpen, raised,
                 pending, emitted, stop, events, next, scanFloor>>

\* A shard refuses, cannot be reached, or does not answer in time; it may have
\* started its scan all the same.
OpenFails ==
  /\ phase = "opening"
  /\ EndWith(Incomplete)
  /\ \E started \in {"idle", "poll"} :
       scan' = [scan EXCEPT ![opened + 1] = started]
  /\ UNCHANGED <<bitmapVars, callVars, opened, completed, inboundOpen, raised,
                 pending, emitted, stop, events, listening, next, scanFloor>>

--------------------------------------------------------------------------------
(* Sending to the caller.                                                  *)

HasRoom == Len(sent) - read < OutCap

Held == {s \in Shard : s <= opened /\ s \notin completed}
StopShards == stop' = [s \in Shard |-> stop[s] \/ s \in Held]

\* The function returns, which drops its locals and every control it still
\* holds.
Return ==
  /\ StopShards
  /\ phase' = "done" /\ reply' = NoReply
  /\ opened' = 0 /\ completed' = {} /\ inboundOpen' = FALSE
  /\ pending' = {} /\ emitted' = 0

\* Variant (sensitivity of KeepsContract): pending is copied, not taken.
FlushCopying ==
  /\ phase = "flush" /\ ~gone /\ HasRoom
  /\ sent' = Append(sent, Message("batch", pending, 0))
  /\ emitted' = emitted + Cardinality(pending)
  /\ phase' = "select"
  /\ UNCHANGED <<bitmapVars, start, read, gone, reply, opened, completed, inboundOpen,
                 raised, pending, shardVars>>

\* flush_candidate_bytes: take what is pending, wait for room, count it.
Flush ==
  /\ phase = "flush" /\ ~gone /\ HasRoom
  /\ sent' = Append(sent, Message("batch", pending, 0))
  /\ emitted' = emitted + Cardinality(pending)
  /\ pending' = {}
  /\ phase' = "select"
  /\ UNCHANGED <<bitmapVars, start, read, gone, reply, opened, completed, inboundOpen,
                 raised, shardVars>>

\* send_candidate_completion, or a status sent the same way.
SendReply ==
  /\ phase = "reply" /\ ~gone /\ HasRoom
  /\ sent' = Append(sent, reply)
  /\ Return
  /\ UNCHANGED <<bitmapVars, start, read, gone, raised, events, listening, scan,
                 next, scanFloor>>

\* A send fails, or the loop sees the channel closed (tx.closed, looked at
\* before anything else); no completion is owed to a caller that left.
CallerIsGone ==
  /\ gone
  /\ phase \in {"flush", "reply"} \/ (phase = "select" /\ completed # Shard)
  /\ Return
  /\ UNCHANGED <<bitmapVars, callVars, raised, events, listening, scan, next,
                 scanFloor>>

--------------------------------------------------------------------------------
(* The caller.                                                             *)

Read ==
  /\ ~gone /\ read < Len(sent)
  /\ read' = read + 1
  /\ UNCHANGED <<bitmapVars, start, sent, gone, taskVars, shardVars>>

Leave ==
  /\ ~gone
  /\ gone' = TRUE
  /\ UNCHANGED <<bitmapVars, start, sent, read, taskVars, shardVars>>

--------------------------------------------------------------------------------
(* The select loop.                                                        *)

Selecting == phase = "select" /\ ~gone /\ completed # Shard

\* query_timeout fires: Stop goes out before the completion does.
Deadline ==
  /\ Selecting
  /\ StopShards
  /\ EndWith(Incomplete)
  /\ UNCHANGED <<bitmapVars, callVars, opened, completed, inboundOpen, raised,
                 pending, emitted, events, listening, scan, next, scanFloor>>

FlushTick ==
  /\ Selecting
  /\ pending # {}
  /\ phase' = "flush"
  /\ UNCHANGED <<bitmapVars, callVars, reply, opened, completed, inboundOpen,
                 raised, pending, emitted, shardVars>>

\* A FloorUpdate counts only when it raises the floor; every shard still
\* scanning is told.
RaiseFloor ==
  /\ Selecting /\ inboundOpen
  /\ \E f \in Floors :
       f > LastFloor /\ raised' = raised \union {f}
  /\ UNCHANGED <<bitmapVars, callVars, phase, reply, opened, completed, inboundOpen,
                 pending, emitted, shardVars>>

\* Variant (sensitivity of Concluded): on Stop the shards are told and the
\* function returns.
CallerStopsSilently ==
  /\ Selecting /\ inboundOpen
  /\ Return
  /\ UNCHANGED <<bitmapVars, callVars, raised, events, listening, scan, next,
                 scanFloor>>

CallerStops ==
  /\ Selecting /\ inboundOpen
  /\ StopShards
  /\ EndWith(Incomplete)
  /\ UNCHANGED <<bitmapVars, callVars, opened, completed, inboundOpen, raised,
                 pending, emitted, events, listening, scan, next, scanFloor>>

\* A NaN floor, a second start, an empty message, or a failed request stream.
CallerErrs ==
  /\ Selecting /\ inboundOpen
  /\ EndWith(Incomplete)
  /\ UNCHANGED <<bitmapVars, callVars, opened, completed, inboundOpen, raised,
                 pending, emitted, shardVars>>

\* The caller has no more to say; the scan goes on.
CallerCloses ==
  /\ Selecting /\ inboundOpen
  /\ inboundOpen' = FALSE
  /\ UNCHANGED <<bitmapVars, callVars, phase, reply, opened, completed, raised,
                 pending, emitted, shardVars>>

TakesFrom(s, kinds) ==
  /\ Selecting
  /\ events[s] # <<>>
  /\ Head(events[s]).kind \in kinds
  /\ events' = [events EXCEPT ![s] = Tail(@)]

\* Variant (sensitivity of TypeOK): candidates counted when they come in too.
TakeBatchCounting(s) ==
  /\ s \notin completed
  /\ TakesFrom(s, {"batch"})
  /\ pending' = pending \union Head(events[s]).rows
  /\ emitted' = emitted + Cardinality(Head(events[s]).rows)
  /\ phase' = IF Cardinality(pending') >= BatchRows THEN "flush" ELSE phase
  /\ UNCHANGED <<bitmapVars, callVars, reply, opened, completed, inboundOpen,
                 raised, stop, listening, scan, next, scanFloor>>

\* Candidates are packed behind those pending; enough of them are flushed.
TakeBatch(s) ==
  /\ s \notin completed
  /\ TakesFrom(s, {"batch"})
  /\ pending' = pending \union Head(events[s]).rows
  /\ phase' = IF Cardinality(pending') >= BatchRows THEN "flush" ELSE phase
  /\ UNCHANGED <<bitmapVars, callVars, reply, opened, completed, inboundOpen,
                 raised, emitted, stop, listening, scan, next, scanFloor>>

TakeSummary(s) ==
  /\ s \notin completed
  /\ TakesFrom(s, {"summary"})
  /\ completed' = completed \union {s}
  /\ UNCHANGED <<bitmapVars, callVars, phase, reply, opened, inboundOpen, raised,
                 pending, emitted, stop, listening, scan, next, scanFloor>>

\* A status; a close or an incomplete summary before completion; a batch or a
\* second summary after it.
TakeFailure(s) ==
  /\ \/ TakesFrom(s, {"error"})
     \/ s \notin completed /\ TakesFrom(s, {"closed", "incomplete"})
     \/ s \in completed /\ TakesFrom(s, {"batch", "summary", "incomplete"})
  /\ EndWith(Incomplete)
  /\ UNCHANGED <<bitmapVars, callVars, opened, completed, inboundOpen, raised,
                 pending, emitted, stop, listening, scan, next, scanFloor>>

TakeClosed(s) ==
  /\ s \in completed
  /\ TakesFrom(s, {"closed"})
  /\ UNCHANGED <<bitmapVars, callVars, taskVars, stop, listening, scan, next,
                 scanFloor>>

\* Every shard has completed: flush the rest, then say so.
Exhausted ==
  /\ phase = "select" /\ completed = Shard
  /\ \/ pending # {} /\ phase' = "flush" /\ UNCHANGED reply
     \/ pending = {} /\ EndWith(Complete)
  /\ UNCHANGED <<bitmapVars, callVars, opened, completed, inboundOpen, raised,
                 pending, emitted, shardVars>>

--------------------------------------------------------------------------------
(* A shard's node, and the reader task of its stream.                      *)

\* Between two rows: leave on Stop, or go on with a floor published by now.
Poll(s) ==
  /\ scan[s] = "poll"
  /\ \/ /\ stop[s]
        /\ scan' = [scan EXCEPT ![s] = "stopped"]
        /\ UNCHANGED scanFloor
     \/ /\ scan' = [scan EXCEPT ![s] = "block"]
        /\ \E f \in raised :
             f >= scanFloor[s] /\ scanFloor' = [scanFloor EXCEPT ![s] = f]
  /\ UNCHANGED <<bitmapVars, callVars, taskVars, stop, events, listening, next>>

\* The rows of the block the label filter and the inclusive floor let through.
Admitted(s) ==
  {r \in {<<s, next[s]>>} \intersect Row :
     /\ start.filtered => LabelInBitmaps(bitmaps, start.label[r])
     /\ start.score[r] >= scanFloor[s]}

ScanBlock(s) ==
  /\ scan[s] = "block"
  /\ \/ Admitted(s) = {} /\ UNCHANGED events
     \/ /\ Admitted(s) # {} /\ listening[s] /\ Len(events[s]) < QueueCap
        /\ events' = [events EXCEPT ![s] = Append(@, Event("batch", Admitted(s)))]
  /\ next' = [next EXCEPT ![s] = @ + 1]
  /\ scan' = [scan EXCEPT ![s] =
                IF next[s] + 1 > ShardLen[s] THEN "scanned" ELSE "poll"]
  /\ UNCHANGED <<bitmapVars, callVars, taskVars, stop, listening, scanFloor>>

SendFails(s) ==
  /\ scan[s] = "block"
  /\ Admitted(s) # {} /\ ~listening[s]
  /\ scan' = [scan EXCEPT ![s] = "stopped"]
  /\ UNCHANGED <<bitmapVars, callVars, taskVars, stop, events, listening, next,
                 scanFloor>>

Summarise(s) ==
  /\ scan[s] \in {"scanned", "stopped"}
  /\ scan' = [scan EXCEPT ![s] = "ended"]
  /\ \/ ~listening[s] /\ UNCHANGED events
     \/ /\ listening[s] /\ Len(events[s]) < QueueCap
        /\ events' = [events EXCEPT ![s] =
             Append(@, Event(IF scan[s] = "scanned" THEN "summary" ELSE "incomplete",
                             {}))]
  /\ UNCHANGED <<bitmapVars, callVars, taskVars, stop, listening, next, scanFloor>>

\* The node or the connection dies, with the tail of what was buffered.
StreamBreaks(s) ==
  /\ listening[s] /\ scan[s] # "broken"
  /\ scan' = [scan EXCEPT ![s] = "broken"]
  /\ \E kept \in 0..Len(events[s]), kind \in {"error", "closed"} :
       events' = [events EXCEPT ![s] = Append(SubSeq(@, 1, kept), Event(kind, {}))]
  /\ UNCHANGED <<bitmapVars, callVars, taskVars, stop, listening, next, scanFloor>>

\* Variant (sensitivity of ScansReleased): the reader task finds event_rx gone
\* and stops reading, the response stream still open.
ReaderGoneStreamKept(s) ==
  /\ phase = "done"
  /\ listening[s] /\ events[s] # <<>>
  /\ UNCHANGED vars

\* The coordinator's task has returned and dropped event_rx.
ReaderGone(s) ==
  /\ phase = "done"
  /\ listening[s] /\ events[s] # <<>>
  /\ listening' = [listening EXCEPT ![s] = FALSE]
  /\ events' = [events EXCEPT ![s] = <<>>]
  /\ UNCHANGED <<bitmapVars, callVars, taskVars, stop, scan, next, scanFloor>>

--------------------------------------------------------------------------------
Work(s) == Poll(s) \/ ScanBlock(s) \/ SendFails(s) \/ Summarise(s)
Take(s) == TakeBatch(s) \/ TakeSummary(s) \/ TakeFailure(s) \/ TakeClosed(s)

\* The task's own progress: everything but timers and what the caller sends.
Proceed ==
  \/ ValidateBitmaps \/ OpenShard \/ Flush \/ SendReply \/ CallerIsGone \/ Exhausted
  \/ \E s \in Shard : Take(s)

Caller ==
  \/ ReceiveFirst \/ Read \/ Leave
  \/ RaiseFloor \/ CallerStops \/ CallerErrs \/ CallerCloses

Next ==
  \/ Proceed \/ Caller \/ OpenFails \/ Deadline \/ FlushTick
  \/ \E s \in Shard : Work(s) \/ StreamBreaks(s) \/ ReaderGone(s)

Spec == Init /\ [][Next]_vars

\* Tasks that can run do run, and a caller that stays reads its responses.
\* Nothing is assumed of failures, timers, or what the caller sends.
Fairness ==
  /\ WF_vars(Proceed) /\ WF_vars(Read)
  /\ \A s \in Shard : WF_vars(Work(s)) /\ WF_vars(ReaderGone(s))

FairSpec == Spec /\ Fairness

--------------------------------------------------------------------------------
(* Properties.                                                             *)

EventType == [kind : {"batch", "summary", "incomplete", "error", "closed"},
              rows : SUBSET Row]
MessageType == [kind : {"none", "batch", "complete", "incomplete", "status"},
                rows : SUBSET Row, emitted : 0..Cardinality(Row)]

\* Every variable stays in its type, and no buffer outgrows its bound (a
\* stream that breaks adds one event of its own).
TypeOK ==
  /\ start \in Starts
  /\ sent \in Seq(MessageType) /\ Len(sent) - read \in 0..OutCap
  /\ gone \in BOOLEAN
  /\ phase \in {"first", "check", "opening", "select", "flush", "reply", "done"}
  /\ reply \in MessageType
  /\ opened \in 0..NumShards /\ completed \in SUBSET Shard
  /\ inboundOpen \in BOOLEAN /\ raised \subseteq Int /\ raised # {}
  /\ pending \in SUBSET Row /\ emitted \in 0..Cardinality(Row)
  /\ stop \in [Shard -> BOOLEAN] /\ listening \in [Shard -> BOOLEAN]
  /\ \A s \in Shard : events[s] \in Seq(EventType) /\ Len(events[s]) <= QueueCap + 1
  /\ scan \in [Shard -> {"idle", "poll", "block", "scanned", "stopped", "ended",
                         "broken"}]
  /\ next \in [Shard -> Nat \ {0}] /\ scanFloor \in [Shard -> Int]

\* The rows the caller asked for: those a bitmap of the request stands for, at
\* or above a floor.
Asked(floor) ==
  {r \in Row :
     /\ start.filtered => \E i \in DOMAIN bitmaps : Stands(bitmaps[i], start.label[r])
     /\ start.score[r] >= floor}

\* The stream keeps the contract of coordinator.proto, whatever the caller, the
\* shards and the deadline do: no candidate twice, no empty batch, one terminal
\* message and nothing after it, a count of what was sent, and a successful
\* completion only after every row asked for at the last floor raised.
Contract == INSTANCE CandidateContract WITH
  Row <- Row, sent <- sent, admitted <- Asked(start.floor), owed <- Asked(LastFloor)
KeepsContract == Contract!Spec

\* Once its start is in, a stream ends, and a caller that stayed has read the
\* terminal message: no wait for room, for a shard or for the caller is for good.
Concluded ==
  phase # "first" ~>
    gone \/ (read > 0 /\ sent[read].kind \in {"complete", "incomplete", "status"})

\* Once the coordinator's task has returned, however it did, every scan it
\* started leaves its node's scan slot.
ScansReleased ==
  phase = "done" ~> \A s \in Shard : scan[s] \in {"idle", "ended", "broken"}

================================================================================
