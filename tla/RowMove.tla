-------------------------------- MODULE RowMove --------------------------------
(***************************************************************************)
(* The rows of one Split or Join on their way: import_ranges, which pipes  *)
(* ExportRows streams of the source nodes, one after another, into one     *)
(* ImportRows stream of the target, for one target after another.          *)
(*                                                                         *)
(* Four tasks and two bounded channels: an export task on a source node    *)
(* (it holds the index's read lock until its last frame is taken), the     *)
(* producer task on the coordinator, the target node's import, and the     *)
(* call itself, which waits for the import first and then the producer.    *)
(* A source only grows, by requests that need its write lock, so row n of  *)
(* source s is <<s, n>> and an index's rows are a length.  Sources agree   *)
(* on calibration (Join binds them first), which is left out.              *)
(***************************************************************************)
EXTENDS Naturals, SequencesExt

CONSTANTS
  Source,       \* the source indexes, 1..n
  FirstLen,     \* rows each holds at the start
  Requests,     \* the operations asked for
  FrameRows,    \* rows of one export frame
  ExportCap,    \* frames an export task may be ahead of the producer
  ImportCap,    \* frames the producer may be ahead of the target
  Word,         \* 2^64: counts are u64
  MaxAdds       \* bound on rows added meanwhile

RequestType == [kind : {"split", "join"}, targets : Nat, counts : Seq(Nat)]

ASSUME MoveAssumption ==
  /\ Source = 1..Len(FirstLen) /\ FirstLen \in Seq(Nat) /\ FirstLen # <<>>
  /\ \A r \in Requests : r \in RequestType
  /\ {FrameRows, ExportCap, ImportCap, Word} \subseteq Nat \ {0} /\ MaxAdds \in Nat

VARIABLES
  \* the sources' lengths; the request, the lengths probed for it, its imports
  \* (each the parts of one target), and how it ended
  len, request, probed, imports, result,
  \* the import under way: its number, the producer ("idle" before the first),
  \* its part, and the channel to the target
  at, producer, part, wire,
  \* the export under way: running while it holds the read lock, wanted while
  \* the producer reads it, the rows it still owes, the frames it has sent
  export, frames,
  \* the target's builder: its state, the blocks and rows it has taken
  target, blocks, taken,
  \* indexes the targets activated; whether any fault happened
  made, faulty

moveVars == <<at, producer, part, wire, export, frames, target, blocks, taken>>
callVars == <<len, request, probed, imports, result>>
vars == <<callVars, moveVars, made, faulty>>

Part(s, start, count) == [source |-> s, start |-> start, count |-> count]
NoExport == [running |-> FALSE, wanted |-> FALSE, source |-> 0, next |-> 0, end |-> 0]

Total(counts) ==
  LET sum[n \in 0..Len(counts)] == IF n = 0 THEN 0 ELSE sum[n - 1] + counts[n]
  IN sum[Len(counts)]

\* The lengths of all the sources together stay within their type.
ASSUME LengthAssumption == Total(FirstLen) + MaxAdds < Word

\* Rows from..to of a source, the way a frame or an index lists them.
Rows(s, from, to) == [n \in 1..(to + 1 - from) |-> <<s, from + n - 1>>]
PartRows(p) == Rows(p.source, p.start + 1, p.start + p.count)
Expected(parts) == Total([j \in DOMAIN parts |-> parts[j].count])

--------------------------------------------------------------------------------
Init ==
  /\ len = FirstLen
  /\ request \in Requests
  /\ probed = FirstLen /\ imports = <<>> /\ result = "pending"
  /\ at = 0 /\ producer = "idle" /\ part = 1 /\ wire = <<>>
  /\ export = NoExport /\ frames = <<>>
  /\ target = "idle" /\ blocks = 0 /\ taken = <<>>
  /\ made = <<>> /\ faulty = FALSE

\* plan_counts: as requested, or even with the remainder over the first.
Counts(rows) ==
  IF request.counts # <<>> THEN request.counts
  ELSE [j \in 1..request.targets |->
          rows \div request.targets +
            (IF j <= rows % request.targets THEN 1 ELSE 0)]

\* The sum of the counts asked for wraps, as in a release build.
CountsRefused(rows) ==
  \/ request.targets = 0
  \/ request.counts # <<>> /\ Len(request.counts) # request.targets
  \/ request.counts # <<>> /\ Total(request.counts) % Word # rows

\* One import per target for a split of source 1; a single one for a join.
SplitImports(counts) ==
  [j \in DOMAIN counts |->
     <<Part(1, Total(SubSeq(counts, 1, j - 1)), counts[j])>>]
JoinImports == <<[s \in Source |-> Part(s, 0, len[s])]>>

\* The sources are probed and the rows assigned; the request may be refused.
Plan ==
  /\ at = 0 /\ result = "pending"
  /\ probed' = len
  /\ \/ /\ request.kind = "split" /\ CountsRefused(len[1])
        /\ result' = "error"
        /\ UNCHANGED <<imports, at, producer, target>>
     \/ /\ \/ /\ request.kind = "split" /\ ~CountsRefused(len[1])
              /\ imports' = SplitImports(Counts(len[1]))
           \/ request.kind = "join" /\ imports' = JoinImports
        /\ at' = 1 /\ producer' = "next" /\ target' = "receiving"
        /\ UNCHANGED result
  /\ UNCHANGED <<len, request, part, wire, export, frames, blocks, taken, made, faulty>>

--------------------------------------------------------------------------------
(* The producer task.                                                      *)

Parts == imports[at]
Current == Parts[part]
Receiving == target = "receiving"

\* Variant (sensitivity of TypeOK): an unbounded channel.
HasRoomAlways == TRUE
HasRoom == Len(wire) < ImportCap

\* Dropping the response stream of the export in hand, and the channel.
ProducerFails ==
  /\ producer' = "failed"
  /\ export' = [export EXCEPT !.wanted = FALSE]
  /\ frames' = <<>>

\* Variant (sensitivity of FailsOnlyOnFaults): a part of no rows is asked for
\* like any other; ExportRows takes a count of 0 for "to the end".
SendEmptyAsked ==
  /\ producer = "next" /\ part <= Len(Parts) /\ Current.count = 0
  /\ ~export.running
  /\ export' = [running |-> TRUE, wanted |-> TRUE, source |-> Current.source,
                next |-> Current.start + 1, end |-> len[Current.source]]
  /\ producer' = "pulling"
  /\ UNCHANGED <<callVars, at, part, wire, frames, target,
                 blocks, taken, made, faulty>>

\* A part of no rows is not asked for: an empty block goes in its place.
SendEmpty ==
  /\ producer = "next" /\ part <= Len(Parts) /\ Current.count = 0
  /\ Receiving /\ HasRoom
  /\ wire' = Append(wire, <<>>)
  /\ part' = part + 1
  /\ UNCHANGED <<callVars, at, producer, export, frames,
                 target, blocks, taken, made, faulty>>

InRange(p) == p.start + p.count <= len[p.source]
Started(p) == [running |-> TRUE, wanted |-> TRUE, source |-> p.source,
               next |-> p.start + 1, end |-> p.start + p.count]

\* export_rows: the node checks the range and starts its task.
OpenExport ==
  /\ producer = "next" /\ part <= Len(Parts) /\ Current.count > 0
  /\ InRange(Current)
  /\ export' = Started(Current)
  /\ producer' = "pulling"
  /\ UNCHANGED <<callVars, at, part, wire, frames, target, blocks, taken, made,
                 faulty>>

\* export_range refuses rows past the end.
OpenRefused ==
  /\ producer = "next" /\ part <= Len(Parts) /\ Current.count > 0
  /\ ~InRange(Current)
  /\ ProducerFails
  /\ UNCHANGED <<callVars, at, part, wire, target, blocks, taken, made, faulty>>

\* The source cannot be reached; it may have started the task all the same.
OpenLost ==
  /\ producer = "next" /\ part <= Len(Parts) /\ Current.count > 0
  /\ producer' = "failed"
  /\ export' \in {export} \union
       (IF InRange(Current) THEN {[Started(Current) EXCEPT !.wanted = FALSE]} ELSE {})
  /\ faulty' = TRUE
  /\ UNCHANGED <<callVars, at, part, wire, frames, target, blocks, taken, made>>

\* The stream of the export ends in a status.
ExportLost ==
  /\ producer = "pulling"
  /\ ProducerFails
  /\ faulty' = TRUE
  /\ UNCHANGED <<callVars, at, part, wire, target, blocks, taken, made>>

Forward ==
  /\ producer = "pulling" /\ frames # <<>>
  /\ Receiving /\ HasRoom
  /\ wire' = Append(wire, Head(frames))
  /\ frames' = Tail(frames)
  /\ UNCHANGED <<callVars, at, producer, part, export, target,
                 blocks, taken, made, faulty>>

\* Variant (sensitivity of TransferEnds): a block that cannot be sent is kept.
ForwardKept ==
  /\ ~Receiving
  /\ \/ producer = "pulling" /\ frames # <<>>
     \/ producer = "next" /\ part <= Len(Parts) /\ Current.count = 0
  /\ UNCHANGED vars

\* The target has answered, with an error or early: a send fails.
ForwardFails ==
  /\ ~Receiving
  /\ \/ producer = "pulling" /\ frames # <<>>
     \/ producer = "next" /\ part <= Len(Parts) /\ Current.count = 0
  /\ ProducerFails
  /\ UNCHANGED <<callVars, at, part, wire, target, blocks,
                 taken, made, faulty>>

\* The export's stream ends; the next part is asked for.
ExportEnds ==
  /\ producer = "pulling" /\ frames = <<>> /\ ~export.running
  /\ producer' = "next" /\ part' = part + 1
  /\ UNCHANGED <<callVars, at, wire, export, frames, target,
                 blocks, taken, made, faulty>>

\* Every part is through: dropping the channel ends the import's stream.
ProducerDone ==
  /\ producer = "next" /\ part > Len(Parts)
  /\ producer' = "done"
  /\ UNCHANGED <<callVars, at, part, wire, export, frames,
                 target, blocks, taken, made, faulty>>

--------------------------------------------------------------------------------
(* The source node.                                                        *)

\* One frame of the export, when the channel has room for it.
ExportFrame ==
  /\ export.running /\ export.wanted /\ export.next <= export.end
  /\ Len(frames) < ExportCap
  /\ \E last \in export.next..export.end :
       /\ last = export.end \/ last + 1 = export.next + FrameRows
       /\ last < export.next + FrameRows
       /\ frames' = Append(frames, Rows(export.source, export.next, last))
       /\ export' = [export EXCEPT !.next = last + 1]
  /\ UNCHANGED <<callVars, at, producer, part, wire, target,
                 blocks, taken, made, faulty>>

\* Variant (sensitivity of TransferEnds): a failed send is not looked at, and
\* the task goes on once there is room.
ExportReturnsWhenSent ==
  /\ export.running
  /\ export.next > export.end
  /\ export' = [export EXCEPT !.running = FALSE]
  /\ UNCHANGED <<callVars, at, producer, part, wire, frames,
                 target, blocks, taken, made, faulty>>

\* The task returns, and with it the read lock: all is sent, or nobody listens.
ExportReturns ==
  /\ export.running
  /\ export.next > export.end \/ ~export.wanted
  /\ export' = [export EXCEPT !.running = FALSE]
  /\ UNCHANGED <<callVars, at, producer, part, wire, frames,
                 target, blocks, taken, made, faulty>>

\* A request adds a row, when it gets the write lock.
AddRow(s) ==
  /\ ~(export.running /\ export.source = s)
  /\ Total(len) < Total(FirstLen) + MaxAdds
  /\ len' = [len EXCEPT ![s] = @ + 1]
  /\ UNCHANGED <<request, probed, imports, result, moveVars, made, faulty>>

--------------------------------------------------------------------------------
(* The target node: import_rows and its ImportBuilder.                     *)

TargetFails == target' = "failed" /\ wire' = <<>>

\* push: a block that would exceed the declared count ends the import.
PushBlock ==
  /\ Receiving /\ wire # <<>>
  /\ LET next == Len(taken) + Len(Head(wire)) IN
       \/ /\ next <= Expected(Parts)
          /\ blocks' = blocks + 1
          /\ taken' = taken \o Head(wire)
          /\ wire' = Tail(wire)
          /\ UNCHANGED target
       \/ /\ next > Expected(Parts)
          /\ TargetFails
          /\ UNCHANGED <<blocks, taken>>
  /\ UNCHANGED <<callVars, at, producer, part, export, frames,
                 made, faulty>>

StreamEnded == Receiving /\ wire = <<>> /\ producer \in {"done", "failed"}

\* Variant (sensitivity of WholeOrNothing): the end of the stream is taken for
\* the end of the rows.
FinishShort ==
  /\ StreamEnded
  /\ target' = "activated" /\ made' = Append(made, taken)
  /\ UNCHANGED <<callVars, at, producer, part, wire, export,
                 frames, blocks, taken, faulty>>

\* finish, at the end of the stream, which is the same for a producer that is
\* through and for one that failed: the index is registered only when at least
\* one block came and the rows are as many as declared.
Finish ==
  /\ StreamEnded
  /\ \/ /\ blocks > 0 /\ Len(taken) = Expected(Parts)
        /\ target' = "activated"
        /\ made' = Append(made, taken)
        /\ UNCHANGED wire
     \/ /\ blocks = 0 \/ Len(taken) # Expected(Parts)
        /\ TargetFails
        /\ UNCHANGED made
  /\ UNCHANGED <<callVars, at, producer, part, export, frames,
                 blocks, taken, faulty>>

\* The target or the connection to it dies, or the call outlasts the timeout of
\* the channel.  An index already registered stays: the response alone is lost.
TargetLost ==
  /\ target \in {"receiving", "activated"}
  /\ TargetFails
  /\ faulty' = TRUE
  /\ UNCHANGED <<callVars, at, producer, part, export, frames,
                 blocks, taken, made>>

--------------------------------------------------------------------------------
(* The call.                                                               *)

Through == target \in {"activated", "failed"} /\ producer \in {"done", "failed"}
Good == target = "activated" /\ producer = "done"

\* import_ranges returns once the import has answered and the producer ended;
\* the next target starts only if both went well.
NextImport ==
  /\ result = "pending" /\ at > 0 /\ Through
  /\ Good /\ at < Len(imports)
  /\ at' = at + 1 /\ part' = 1 /\ wire' = <<>>
  /\ producer' = "next" /\ target' = "receiving"
  /\ blocks' = 0 /\ taken' = <<>>
  /\ UNCHANGED <<callVars, export, frames, made, faulty>>

Return ==
  /\ result = "pending" /\ at > 0 /\ Through
  /\ \/ Good /\ at = Len(imports) /\ result' = "ok"
     \/ ~Good /\ result' = "error"
  /\ UNCHANGED <<len, request, probed, imports, moveVars, made, faulty>>

--------------------------------------------------------------------------------
Produce ==
  \/ SendEmpty \/ OpenExport \/ OpenRefused
  \/ Forward \/ ForwardFails \/ ExportEnds \/ ProducerDone
Exporting == ExportFrame \/ ExportReturns
Importing == PushBlock \/ Finish
Call == Plan \/ NextImport \/ Return

Next ==
  \/ Call \/ Produce \/ Exporting \/ Importing
  \/ OpenLost \/ ExportLost \/ TargetLost
  \/ \E s \in Source : AddRow(s)

Spec == Init /\ [][Next]_vars

\* Each task runs when it can.  Nothing is assumed of faults or of other
\* requests.
Fairness ==
  WF_vars(Call) /\ WF_vars(Produce) /\ WF_vars(Exporting) /\ WF_vars(Importing)
FairSpec == Spec /\ Fairness

--------------------------------------------------------------------------------
(* Properties.                                                             *)

RowType == Source \X (Nat \ {0})
ExportType == [running : BOOLEAN, wanted : BOOLEAN, source : Source \union {0},
               next : Nat, end : Nat]

\* Every variable stays in its type, and the channels within their bounds.
TypeOK ==
  /\ len \in [Source -> Nat] /\ probed \in [Source -> Nat] /\ request \in Requests
  /\ at \in 0..Len(imports) /\ result \in {"pending", "ok", "error"}
  /\ producer \in {"idle", "next", "pulling", "done", "failed"} /\ part \in Nat \ {0}
  /\ wire \in Seq(Seq(RowType)) /\ Len(wire) <= ImportCap
  /\ frames \in Seq(Seq(RowType)) /\ Len(frames) <= ExportCap
  /\ export \in ExportType
  /\ target \in {"idle", "receiving", "activated", "failed"}
  /\ blocks \in Nat /\ taken \in Seq(RowType)
  /\ made \in Seq(Seq(RowType)) /\ faulty \in BOOLEAN

\* The rows planned for each target, in the order of its parts.
Planned ==
  [t \in DOMAIN imports |-> FlattenSeq([j \in DOMAIN imports[t] |->
                                          PartRows(imports[t][j])])]

\* All the rows the operation is about, in order: those of its sources when
\* they were probed.
AllRows ==
  IF request.kind = "split" THEN Rows(1, 1, probed[1])
  ELSE FlattenSeq([s \in Source |-> Rows(s, 1, probed[s])])

\* Every index a target activates holds exactly the rows planned for it, in
\* order, though a cut stream ends like a complete one and sources grow
\* meanwhile; and the call reports success only when all targets have theirs,
\* every row of the sources once and in order.
Whole == INSTANCE WholeMove WITH planned <- Planned, all <- AllRows
WholeOrNothing == Whole!Spec

\* The request itself is wrong: no target, or counts that are not one for each
\* target or do not add up (in unbounded arithmetic).
BadRequest ==
  /\ request.kind = "split"
  /\ \/ request.targets = 0
     \/ /\ request.counts # <<>>
        /\ \/ Len(request.counts) # request.targets
           \/ Total(request.counts) # probed[1]

\* A transfer fails only on a fault or a bad request: empty targets, empty
\* sources, growing sources and frame sizes never make it fail.
FailsOnlyOnFaults == result = "error" => faulty \/ BadRequest

\* Every transfer ends, whatever channel was full when something failed, and the
\* read lock an export holds on its source does not outlive it.
TransferEnds == <>[](result # "pending" /\ ~export.running)

================================================================================
