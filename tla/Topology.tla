-------------------------------- MODULE Topology --------------------------------
(***************************************************************************)
(* The coordinator's shard table: its generations and state file, the      *)
(* spare pool, the cached binding, and everything that moves them: Split,  *)
(* Join, FitCalibration, RegisterNode, the autoscaler, the searches that   *)
(* fill the cache, and a restart (coordinator/mod.rs, autoscale.rs,        *)
(* nodes.rs).  An index on a node is a number, given out in order; its     *)
(* rows, calibration pair, durable generation, and what that generation    *)
(* saved are its state.                                                    *)
(*                                                                         *)
(* A handler is cut where it awaits a node.  rebind_inner is cut between   *)
(* the state file, the table in memory and the cache, since a crash or     *)
(* another task can fall there; the topology lock is the variable writer.  *)
(* The state file is configured, so every shard of a table names its index *)
(* and the generation it requires.  Replicas, dim and bit width are left   *)
(* out.                                                                    *)
(***************************************************************************)
EXTENDS Integers, FiniteSets, SequencesExt

CONSTANTS
  Addr,         \* node addresses
  Admin,        \* operator requests that may be in flight at once
  Searcher,     \* searches that may be in flight at once
  Scaler,       \* the autoscaler's task
  Free,         \* nobody holds the topology lock
  FirstShards,  \* the addresses of the startup table, one shard each
  FirstRows,    \* rows of each startup shard
  FirstSpares,  \* spares registered at the start, in order
  Kinds,        \* mutations made: of "split", "join", "fit", "auto"
  Ceiling,      \* max_rows_per_shard
  Ingest,       \* "any", or "quiesced": not into a shard whose rows move
  Faults,       \* whether the state file, or a flush for a mutation, may fail
  MaxMoves,     \* bound on mutations started
  MaxRows,      \* bound on rows ingested
  MaxCrashes    \* bound on restarts of the coordinator and of nodes

ASSUME BoundAssumption ==
  /\ FirstShards \in Seq(Addr) /\ FirstShards # <<>>
  /\ FirstRows \in [DOMAIN FirstShards -> Seq(Nat \X Nat)]
  /\ FirstSpares \in Seq(Addr \ ToSet(FirstShards))
  /\ Scaler \notin Admin \union Searcher
  /\ Addr \intersect (Admin \union Searcher \union {Scaler}) = {}
  /\ Free \notin Addr \union Admin \union Searcher \union {Scaler}
  /\ Kinds \subseteq {"split", "join", "fit", "auto"}
  /\ Ingest \in {"any", "quiesced"} /\ Faults \in BOOLEAN
  /\ Ceiling \in Nat \ {0} /\ MaxMoves \in Nat /\ MaxRows \in Nat /\ MaxCrashes \in Nat

Proc == Admin \union Searcher \union {Scaler}

VARIABLES
  \* coordinator memory: the table and its generation, the spare pool, the
  \* cached binding, the holder of the topology lock
  generation, shards, spares, pinned, writer,
  \* the state file
  file,
  \* the indexes made so far on the nodes
  idx,
  \* requests and tasks in flight
  proc,
  \* environment: mutations started, rows ingested, restarts
  moves, ingested, crashes

topoVars == <<generation, shards, spares>>
envVars == <<moves, ingested, crashes>>
vars == <<topoVars, pinned, writer, file, idx, proc, envVars>>

\* A shard of a table: an index, and the generation it must serve (0: any).
Shard(i, required) == [index |-> i, required |-> required]

\* No binding; a binding is the generation and the table it was made from,
\* with the calibration each was probed with.
NoPin == [generation |-> 0, shards |-> <<>>, cals |-> <<>>]

\* One import: rows start+1..start+count of each index of parts, in order.
Part(i, start, count) == [index |-> i, start |-> start, count |-> count]
Import(addr, parts) == [addr |-> addr, parts |-> parts]

\* A task: kind and pc; plan, the imports still to stage; staged, the indexes of
\* the new table, and configs, their entries in it; sources, those whose rows
\* move; at, the table position the autoscaler replaces; expected and table, the
\* topology it planned against; cal, the pair a fit broadcasts; pin, the binding
\* being made.
Idle == [kind |-> "none", pc |-> "idle", plan |-> <<>>, staged |-> <<>>,
         configs |-> <<>>, sources |-> {}, at |-> 0, expected |-> 0,
         table |-> <<>>, cal |-> 0, pin |-> NoPin]

At(p, pc) == proc[p].pc = pc
Goto(p, pc) == proc' = [proc EXCEPT ![p].pc = pc]
End(p) == proc' = [proc EXCEPT ![p] = Idle]

Live(i) == idx[i].live
Unsaved(index) == index.disk # [rows |-> index.rows, cal |-> index.cal]
Flushed(index) == [index EXCEPT !.gen = @ + 1,
                                !.disk = [rows |-> index.rows, cal |-> index.cal]]
Serves(table, a) == \E j \in DOMAIN table : idx[table[j].index].addr = a
Members(table) == {table[j].index : j \in DOMAIN table}

--------------------------------------------------------------------------------
\* A durable startup topology: every shard named, with a durable generation.
Init ==
  /\ idx = [i \in DOMAIN FirstShards |->
              [addr |-> FirstShards[i], rows |-> FirstRows[i], cal |-> 0,
               live |-> TRUE, gen |-> 1,
               disk |-> [rows |-> FirstRows[i], cal |-> 0]]]
  /\ generation = 1 /\ shards = [i \in DOMAIN FirstShards |-> Shard(i, 1)]
  /\ spares = FirstSpares /\ pinned = NoPin /\ writer = Free
  /\ file = [generation |-> 1, shards |-> shards, spares |-> FirstSpares]
  /\ proc = [p \in Proc |-> Idle]
  /\ moves = 0 /\ ingested = 0 /\ crashes = 0

--------------------------------------------------------------------------------
(* Planning a mutation.                                                    *)

\* plan_counts with no explicit counts: even, the remainder over the first.
\* Variant: the remainder is dropped.
EvenCountFloored(len, n, j) == len \div n
EvenCount(len, n, j) == len \div n + (IF j <= len % n THEN 1 ELSE 0)
\* Variant: the start ignores the remainder before it.
EvenStartOverlapping(len, n, j) == (j - 1) * (len \div n)
EvenStart(len, n, j) ==
  (j - 1) * (len \div n) + (IF j - 1 <= len % n THEN j - 1 ELSE len % n)

SplitPlan(i, targets) ==
  LET len == Len(idx[i].rows) n == Len(targets) IN
  [j \in DOMAIN targets |->
     Import(targets[j], <<Part(i, EvenStart(len, n, j), EvenCount(len, n, j))>>)]

\* topology(): the table can be read while no rebind holds the lock.
Readable == writer \notin Proc

\* The shards are all there and agree on calibration (bind) ...
Agree(table) ==
  \A i, j \in Members(table) : Live(i) /\ idx[i].cal = idx[j].cal

\* ... and a table entry is at the generation required (probe_for_search).
Eligible(shard) ==
  Live(shard.index) /\ shard.required \in {0, idx[shard.index].gen}

\* All shards answer a probe and bind.
Servable(table) == Agree(table) /\ \A j \in DOMAIN table : Eligible(table[j])

Begin(p, task) ==
  /\ At(p, "idle") /\ moves < MaxMoves
  /\ moves' = moves + 1
  /\ proc' = [proc EXCEPT ![p] = task]
  /\ UNCHANGED <<topoVars, pinned, writer, file, idx, ingested, crashes>>

\* Split of one serving shard onto two nodes, named by the operator.
StartSplit(p) ==
  /\ "split" \in Kinds
  /\ \E i \in Members(shards), a, b \in Addr :
       /\ Live(i)
       /\ Begin(p, [Idle EXCEPT !.kind = "split", !.pc = "stage", !.sources = {i},
                                !.plan = SplitPlan(i, <<a, b>>)])

\* Join of the whole table.
StartJoin(p) ==
  /\ "join" \in Kinds /\ Readable /\ Agree(shards)
  /\ \E a \in Addr :
       Begin(p, [Idle EXCEPT
         !.kind = "join", !.pc = "stage", !.sources = Members(shards),
         !.plan = <<Import(a, [j \in DOMAIN shards |->
                                 Part(shards[j].index, 0,
                                      Len(idx[shards[j].index].rows))])>>])

\* FitCalibration of the table as it is now, with a pair never used before.
StartFit(p) ==
  /\ "fit" \in Kinds /\ Readable
  /\ Begin(p, [Idle EXCEPT !.kind = "fit", !.pc = "fit", !.table = shards,
                           !.cal = moves + 1])

OverCeiling(shard) == Len(idx[shard.index].rows) > Ceiling

\* autoscale_tick: on a servable table, the first shard over the ceiling, and
\* the first spare.  Half the rows stay on the shard's own node.  The reads up
\* to here are one step: the plan is checked against the generation later.
StartAuto ==
  /\ "auto" \in Kinds /\ Readable /\ spares # <<>> /\ Servable(shards)
  /\ \E j \in DOMAIN shards :
       /\ OverCeiling(shards[j])
       /\ \A k \in 1..(j - 1) : ~OverCeiling(shards[k])
       /\ LET i == shards[j].index IN
          Begin(Scaler, [Idle EXCEPT
            !.kind = "auto", !.pc = "stage", !.sources = {i}, !.at = j,
            !.expected = generation, !.table = shards,
            !.plan = SplitPlan(i, <<idx[i].addr, Head(spares)>>)])

--------------------------------------------------------------------------------
(* Staging the new shards.                                                 *)

Served(part) ==
  /\ Live(part.index)
  /\ part.start + part.count <= Len(idx[part.index].rows)
PartRows(part) ==
  SubSeq(idx[part.index].rows, part.start + 1, part.start + part.count)

\* import_ranges: the target activates a fresh index with the rows, and the
\* pair, of its sources; nothing when a source is gone or too short.
StageNext(p) ==
  /\ At(p, "stage") /\ proc[p].plan # <<>>
  /\ LET parts == Head(proc[p].plan).parts IN
     \/ /\ \A j \in DOMAIN parts : Served(parts[j])
        /\ \A j \in DOMAIN parts : idx[parts[j].index].cal = idx[parts[1].index].cal
        /\ idx' = Append(idx,
             [addr |-> Head(proc[p].plan).addr,
              rows |-> FlattenSeq([j \in DOMAIN parts |-> PartRows(parts[j])]),
              cal |-> idx[parts[1].index].cal, live |-> TRUE,
              gen |-> 0, disk |-> [rows |-> <<>>, cal |-> 0]])
        /\ proc' = [proc EXCEPT ![p].plan = Tail(@),
                                ![p].staged = Append(@, Len(idx) + 1)]
     \/ /\ \E j \in DOMAIN parts :
             ~Served(parts[j]) \/ idx[parts[j].index].cal # idx[parts[1].index].cal
        /\ End(p)
        /\ UNCHANGED idx
  /\ UNCHANGED <<topoVars, pinned, writer, file, envVars>>

Staged(p) ==
  /\ At(p, "stage") /\ proc[p].plan = <<>>
  /\ Goto(p, "flush")
  /\ UNCHANGED <<topoVars, pinned, writer, file, idx, envVars>>

\* Variant: an index with rows takes a pair too.
TakesPairAnyRows(i) == Live(i)

\* SetCalibration replaces an empty index by one with the pair, and refuses any
\* other: its rows were encoded under the pair it has.
TakesPair(i) == Live(i) /\ idx[i].rows = <<>>

\* The pair goes to the next shard of the table; the first refusal ends the fit.
FitNext(p) ==
  /\ At(p, "fit")
  /\ LET done == Len(proc[p].staged) IN
     \/ done = Len(proc[p].table) /\ Goto(p, "flush") /\ UNCHANGED idx
     \/ /\ done < Len(proc[p].table)
        /\ LET i == proc[p].table[done + 1].index IN
           IF TakesPair(i)
           THEN /\ idx' = [idx EXCEPT ![i].cal = proc[p].cal]
                /\ proc' = [proc EXCEPT ![p].staged = Append(@, i)]
           ELSE End(p) /\ UNCHANGED idx
  /\ UNCHANGED <<topoVars, pinned, writer, file, envVars>>

\* A failure after staging: the autoscaler drops what it staged.
Fail(p) == IF p = Scaler THEN Goto(p, "teardown") ELSE End(p)

\* configs_for_topology: the new table's entries, at the generations flushed.
Configs(p, index) ==
  [j \in DOMAIN proc[p].staged |->
     Shard(proc[p].staged[j], index[proc[p].staged[j]].gen)]

\* The indexes of set flush what they hold.
FlushedIn(set) ==
  [i \in DOMAIN idx |-> IF i \in set THEN Flushed(idx[i]) ELSE idx[i]]

\* Variant: only the first new shard is flushed.
FlushStagedFirst(p) ==
  /\ At(p, "flush") /\ \A j \in DOMAIN proc[p].staged : Live(proc[p].staged[j])
  /\ idx' = FlushedIn({Head(proc[p].staged)})
  /\ proc' = [proc EXCEPT ![p].pc = "rebind", ![p].configs = Configs(p, idx')]
  /\ UNCHANGED <<topoVars, pinned, writer, file, envVars>>

\* flush_before_durable_rebind and configs_for_topology.
FlushStaged(p) ==
  /\ At(p, "flush") /\ \A j \in DOMAIN proc[p].staged : Live(proc[p].staged[j])
  /\ idx' = FlushedIn(ToSet(proc[p].staged))
  /\ proc' = [proc EXCEPT ![p].pc = "rebind", ![p].configs = Configs(p, idx')]
  /\ UNCHANGED <<topoVars, pinned, writer, file, envVars>>

\* One of their calls fails, as the flush of an index that is gone does: the n
\* before it are flushed, nothing is published.
FlushFails(p) ==
  /\ At(p, "flush")
  /\ \E n \in 0..Len(proc[p].staged) :
       /\ \A j \in 1..n : Live(proc[p].staged[j])
       /\ Faults \/ (n < Len(proc[p].staged) /\ ~Live(proc[p].staged[n + 1]))
       /\ idx' = FlushedIn({proc[p].staged[j] : j \in 1..n})
  /\ Fail(p)
  /\ UNCHANGED <<topoVars, pinned, writer, file, envVars>>

--------------------------------------------------------------------------------
(* rebind and rebind_if_unchanged.                                         *)

\* The autoscaler's table keeps the other shards, in place.
AutoTable(p) ==
  SubSeq(proc[p].table, 1, proc[p].at - 1) \o proc[p].configs
    \o SubSeq(proc[p].table, proc[p].at + 1, Len(proc[p].table))

\* Variant: the table that was planned against.
NewTableUnchanged(p) == proc[p].table

\* The new table: of a Split, a Join or a fit, the new shards and no other.
NewTable(p) == IF p = Scaler THEN AutoTable(p) ELSE proc[p].configs

\* Variant: every spare stays pooled.
SparesAll(table) == spares

\* The spares the new table does not place, in their order.
SparesLeft(table) ==
  LET left[n \in 0..Len(spares)] ==
        IF n = 0 THEN <<>>
        ELSE IF Serves(table, spares[n]) THEN left[n - 1]
        ELSE Append(left[n - 1], spares[n])
  IN left[Len(spares)]

\* Variant: no check of the generation planned against.
MayRebindAlways(p) == TRUE

\* rebind_if_unchanged, for the autoscaler; rebind, for everyone else.
MayRebind(p) == p = Scaler => generation = proc[p].expected

\* Variant: the file keeps the old generation number.
PersistTableSameGeneration(p) ==
  /\ At(p, "rebind") /\ writer = Free /\ MayRebind(p)
  /\ file' = [generation |-> generation, shards |-> NewTable(p),
              spares |-> SparesLeft(NewTable(p))]
  /\ writer' = p
  /\ Goto(p, "commit")
  /\ UNCHANGED <<topoVars, pinned, idx, envVars>>

\* Under the write lock, the next generation is renamed over the state file.
PersistTable(p) ==
  /\ At(p, "rebind") /\ writer = Free /\ MayRebind(p)
  /\ file' = [generation |-> generation + 1, shards |-> NewTable(p),
              spares |-> SparesLeft(NewTable(p))]
  /\ writer' = p
  /\ Goto(p, "commit")
  /\ UNCHANGED <<topoVars, pinned, idx, envVars>>

\* The topology moved since the autoscaler planned.
RefuseRebind(p) ==
  /\ At(p, "rebind") /\ writer = Free /\ ~MayRebind(p)
  /\ Fail(p)
  /\ UNCHANGED <<topoVars, pinned, writer, file, idx, envVars>>

\* persist_topology fails, before its rename or after it (the directory sync).
PersistTableFails(p) ==
  /\ Faults
  /\ At(p, "rebind") /\ writer = Free /\ MayRebind(p)
  /\ \/ UNCHANGED file
     \/ file' = [generation |-> generation + 1, shards |-> NewTable(p),
                 spares |-> SparesLeft(NewTable(p))]
  /\ Fail(p)
  /\ UNCHANGED <<topoVars, pinned, writer, idx, envVars>>

\* Variant: the topology lock is kept.
CommitTableKeepingLock(p) ==
  /\ At(p, "commit")
  /\ generation' = generation + 1
  /\ shards' = NewTable(p)
  /\ spares' = file.spares
  /\ Goto(p, "invalidate")
  /\ UNCHANGED <<writer, pinned, file, idx, envVars>>

\* The table, and then the spares that went to the file with it, in memory; the
\* lock is released.
CommitTable(p) ==
  /\ At(p, "commit")
  /\ generation' = generation + 1
  /\ shards' = NewTable(p)
  /\ spares' = file.spares
  /\ writer' = Free
  /\ Goto(p, "invalidate")
  /\ UNCHANGED <<pinned, file, idx, envVars>>

\* The binding is dropped after the lock; a fit and the autoscaler then bind.
InvalidatePin(p) ==
  /\ At(p, "invalidate")
  /\ pinned' = NoPin
  /\ IF proc[p].kind \in {"fit", "auto"} THEN Goto(p, "collect") ELSE End(p)
  /\ UNCHANGED <<topoVars, writer, file, idx, envVars>>

--------------------------------------------------------------------------------
(* collection(): the cached binding, or a new one.                         *)

StartSearch(p) ==
  /\ p \in Searcher /\ At(p, "idle")
  /\ proc' = [proc EXCEPT ![p] = [Idle EXCEPT !.kind = "search", !.pc = "collect"]]
  /\ UNCHANGED <<topoVars, pinned, writer, file, idx, envVars>>

\* collection() has returned a binding to p.
Bound(p, pin) ==
  CASE proc[p].kind = "search" -> proc' = [proc EXCEPT ![p].pc = "search", ![p].pin = pin]
    [] proc[p].kind = "auto"   -> proc' = [proc EXCEPT ![p].pc = "drop", ![p].pin = pin]
    [] OTHER                   -> End(p)

PinHit(p) ==
  /\ At(p, "collect") /\ pinned # NoPin
  /\ Bound(p, pinned)
  /\ UNCHANGED <<topoVars, pinned, writer, file, idx, envVars>>

\* The table is read when no rebind holds the lock, and then probed.
PinMiss(p) ==
  /\ At(p, "collect") /\ pinned = NoPin /\ Readable
  /\ proc' = [proc EXCEPT ![p].pc = "probe",
                          ![p].pin = [generation |-> generation, shards |-> shards,
                                      cals |-> <<>>]]
  /\ UNCHANGED <<topoVars, pinned, writer, file, idx, envVars>>

\* The next shard answers with its generation and calibration, or the binding fails.
ProbeNext(p) ==
  /\ At(p, "probe") /\ Len(proc[p].pin.cals) < Len(proc[p].pin.shards)
  /\ LET shard == proc[p].pin.shards[Len(proc[p].pin.cals) + 1] IN
     IF Eligible(shard)
     THEN proc' = [proc EXCEPT ![p].pin.cals = Append(@, idx[shard.index].cal)]
     ELSE End(p)
  /\ UNCHANGED <<topoVars, pinned, writer, file, idx, envVars>>

\* bind: every shard answered; they must agree, and the binding is cached.
StorePin(p) ==
  /\ At(p, "probe") /\ Len(proc[p].pin.cals) = Len(proc[p].pin.shards)
  /\ IF Cardinality(ToSet(proc[p].pin.cals)) = 1
     THEN pinned' = proc[p].pin /\ Bound(p, proc[p].pin)
     ELSE End(p) /\ UNCHANGED pinned
  /\ UNCHANGED <<topoVars, writer, file, idx, envVars>>

\* The search runs over the binding it was given, to an answer or an error.
Search(p) ==
  /\ At(p, "search")
  /\ End(p)
  /\ UNCHANGED <<topoVars, pinned, writer, file, idx, envVars>>

--------------------------------------------------------------------------------
(* The end of an autoscaler tick.                                          *)

Gone(set) == [i \in DOMAIN idx |-> [idx[i] EXCEPT !.live = @ /\ i \notin set]]

\* DropIndex of the source; a drop that fails leaves it behind.
DropSource ==
  /\ At(Scaler, "drop")
  /\ idx' \in {Gone(proc[Scaler].sources), idx}
  /\ End(Scaler)
  /\ UNCHANGED <<topoVars, pinned, writer, file, envVars>>

\* drop_staged, best effort.
Teardown ==
  /\ At(Scaler, "teardown")
  /\ \E set \in SUBSET ToSet(proc[Scaler].staged) : idx' = Gone(set)
  /\ End(Scaler)
  /\ UNCHANGED <<topoVars, pinned, writer, file, envVars>>

--------------------------------------------------------------------------------
(* RegisterNode, which holds the topology lock for reading throughout.     *)

\* Variant: the topology lock is not taken.
RegisterUnlocked(a) ==
  /\ ~Serves(shards, a) /\ a \notin ToSet(spares)
  /\ file' = [generation |-> generation, shards |-> shards,
              spares |-> Append(spares, a)]
  /\ writer' = a
  /\ UNCHANGED <<topoVars, pinned, idx, proc, envVars>>

\* Variant: only a node without an index is pooled.
RegisterEmptyOnly(a) ==
  /\ writer = Free
  /\ ~Serves(shards, a) /\ a \notin ToSet(spares)
  /\ \A i \in DOMAIN idx : Live(i) => idx[i].addr # a
  /\ file' = [generation |-> generation, shards |-> shards,
              spares |-> Append(spares, a)]
  /\ writer' = a
  /\ UNCHANGED <<topoVars, pinned, idx, proc, envVars>>

\* A node that serves no shard and is not pooled: the file first, and ...
Register(a) ==
  /\ writer = Free
  /\ ~Serves(shards, a) /\ a \notin ToSet(spares)
  /\ file' = [generation |-> generation, shards |-> shards,
              spares |-> Append(spares, a)]
  /\ writer' = a
  /\ UNCHANGED <<topoVars, pinned, idx, proc, envVars>>

\* ... if the directory sync fails, nothing more; a failure before the rename
\* changes nothing.
RegisterFails(a) ==
  /\ Faults
  /\ writer = Free
  /\ ~Serves(shards, a) /\ a \notin ToSet(spares)
  /\ file' = [generation |-> generation, shards |-> shards,
              spares |-> Append(spares, a)]
  /\ UNCHANGED <<topoVars, pinned, writer, idx, proc, envVars>>

\* ... or then the pool in memory.
CommitSpare(a) ==
  /\ writer = a
  /\ spares' = Append(spares, a)
  /\ writer' = Free
  /\ UNCHANGED <<generation, shards, pinned, file, idx, proc, envVars>>

--------------------------------------------------------------------------------
(* Clients of the nodes, and restarts.                                     *)

Moving(i) == \E p \in Proc : i \in proc[p].sources

\* An index made by an import carries the labels of its rows, which Add refuses:
\* only the startup shards, made by CreateIndex, still grow.
Labelled(i) == i \notin DOMAIN FirstShards

\* A client adds a row to a serving shard.
AddRow(i) ==
  /\ ingested < MaxRows /\ i \in Members(shards) /\ Live(i) /\ ~Labelled(i)
  /\ Ingest = "quiesced" => ~Moving(i)
  /\ ingested' = ingested + 1
  /\ idx' = [idx EXCEPT ![i].rows = Append(@, <<0, ingested + 1>>)]
  /\ UNCHANGED <<topoVars, pinned, writer, file, proc, moves, crashes>>

\* A client flushes a serving shard; a retry-safe Add does so itself.  Flushing
\* again with nothing new only raises the generation once more: left out.
FlushShard(i) ==
  /\ i \in Members(shards) /\ Live(i) /\ Unsaved(idx[i])
  /\ idx' = [idx EXCEPT ![i] = Flushed(@)]
  /\ UNCHANGED <<topoVars, pinned, writer, file, proc, envVars>>

\* A node restarts with what its indexes last saved.
RestartNode(a) ==
  /\ crashes < MaxCrashes
  /\ crashes' = crashes + 1
  /\ idx' = [i \in DOMAIN idx |->
               IF idx[i].addr = a
               THEN [idx[i] EXCEPT !.rows = idx[i].disk.rows, !.cal = idx[i].disk.cal,
                                   !.live = @ /\ idx[i].gen > 0]
               ELSE idx[i]]
  /\ UNCHANGED <<topoVars, pinned, writer, file, proc, moves, ingested>>

\* load_or_initialize: the coordinator restarts with its state file, which must
\* name a generation for every shard.
RestartCoordinator ==
  /\ crashes < MaxCrashes
  /\ \A j \in DOMAIN file.shards : file.shards[j].required > 0
  /\ crashes' = crashes + 1
  /\ generation' = file.generation /\ shards' = file.shards /\ spares' = file.spares
  /\ pinned' = NoPin /\ writer' = Free
  /\ proc' = [p \in Proc |-> Idle]
  /\ UNCHANGED <<file, idx, moves, ingested>>

--------------------------------------------------------------------------------
Start == StartAuto \/ \E p \in Admin : StartSplit(p) \/ StartJoin(p) \/ StartFit(p)

Rebind(p) ==
  \/ PersistTable(p) \/ RefuseRebind(p) \/ PersistTableFails(p) \/ CommitTable(p)
  \/ InvalidatePin(p)

Stage(p) == StageNext(p) \/ Staged(p) \/ FitNext(p) \/ FlushStaged(p) \/ FlushFails(p)

Collection(p) ==
  StartSearch(p) \/ PinHit(p) \/ PinMiss(p) \/ ProbeNext(p) \/ StorePin(p) \/ Search(p)

Next ==
  \/ Start \/ DropSource \/ Teardown \/ RestartCoordinator
  \/ \E p \in Proc : Stage(p) \/ Rebind(p) \/ Collection(p)
  \/ \E a \in Addr : Register(a) \/ RegisterFails(a) \/ CommitSpare(a) \/ RestartNode(a)
  \/ \E i \in DOMAIN idx : AddRow(i) \/ FlushShard(i)

Spec == Init /\ [][Next]_vars

\* The autoscaler ticks for ever, a tick that can go on does (its calls are
\* answered or fail), and the topology lock is only held across local work.
AutoStep == StartAuto \/ Stage(Scaler) \/ Rebind(Scaler) \/ Collection(Scaler)
            \/ DropSource \/ Teardown
Fairness == WF_vars(AutoStep) /\ \A a \in Addr : WF_vars(CommitSpare(a))

FairSpec == Spec /\ Fairness

\* Every node announces itself for ever, and gets the topology lock (which
\* std's RwLock hands out between rebinds) again and again.
Announcing ==
  /\ \A p \in Proc : WF_vars(CommitTable(p))
  /\ \A a \in Addr : SF_vars(Register(a)) /\ WF_vars(CommitSpare(a))
AnnouncingSpec == Spec /\ Announcing

--------------------------------------------------------------------------------
(* Properties.                                                             *)

Index == DOMAIN idx
PinType(pin) ==
  /\ pin.generation \in 0..generation
  /\ Members(pin.shards) \subseteq Index
  /\ Len(pin.cals) <= Len(pin.shards)

\* Every variable stays in its type: tables name indexes that were made, a
\* binding is of a generation published, and a task that will change the table
\* still has one to publish.
TypeOK ==
  /\ generation \in Nat \ {0} /\ file.generation \in Nat \ {0}
  /\ shards # <<>> /\ Members(shards) \subseteq Index
  /\ file.shards # <<>> /\ Members(file.shards) \subseteq Index
  /\ ToSet(spares) \subseteq Addr /\ ToSet(file.spares) \subseteq Addr
  /\ writer \in Proc \union Addr \union {Free}
  /\ \A i \in Index : idx[i].addr \in Addr /\ idx[i].live \in BOOLEAN
  /\ PinType(pinned)
  /\ \A p \in Proc :
       /\ PinType(proc[p].pin) /\ ToSet(proc[p].staged) \subseteq Index
       /\ proc[p].pc \in {"rebind", "commit"} => NewTable(p) # <<>>

\* "Durable before visible" (docs/scaling.md): whoever can read the topology
\* reads what a restart would restore, table and pool, with registrations,
\* rebinds and crashes in any order.
DurableBeforeVisible ==
  writer = Free =>
    file = [generation |-> generation, shards |-> shards, spares |-> spares]

\* No node is at once a spare and a member, in memory or in the file.
SparesServeNothing ==
  /\ \A a \in ToSet(spares) : ~Serves(shards, a)
  /\ \A a \in ToSet(file.spares) : ~Serves(file.shards, a)

\* "A durable topology may point only at durable shard generations"
\* (flush_before_durable_rebind): every shard of the table, and of the table a
\* restart would load, is an index that is still there and survives its node.
TopologyDurable ==
  \A i \in Members(shards) \union Members(file.shards) : Live(i) /\ idx[i].gen > 0

RowsOf(table) == UNION {ToSet(idx[i].rows) : i \in Members(table)}
SavedRows(table) ==
  UNION {ToSet(idx[i].disk.rows) : i \in {k \in Members(table) : Live(k)}}

\* "An operator Split or Join that lands mid-tick wins" (README.md): when the
\* autoscaler publishes, every row the collection held is still in it.
AutosplitKeepsRows ==
  [][At(Scaler, "commit") /\ generation' = generation + 1 =>
       RowsOf(shards) \subseteq RowsOf(shards)']_vars

\* A split or join moves every row to one place: no row of the serving
\* collection is there twice (plan_counts, stage_split, join).
EachRowOnce ==
  \A j, k \in DOMAIN shards :
    \A r \in DOMAIN idx[shards[j].index].rows, q \in DOMAIN idx[shards[k].index].rows :
      idx[shards[j].index].rows[r] = idx[shards[k].index].rows[q] => <<j, r>> = <<k, q>>

\* A generation names one table, and is never taken back: the table that is
\* served changes only with a higher generation, whatever failed or restarted
\* in between (rebind_inner, persist_topology, load_or_initialize).
GenerationNamesTable ==
  [][/\ generation' >= generation
     /\ shards' # shards => generation' > generation]_vars

\* Growing by the autoscaler never costs a row: what a flush has saved of the
\* serving collection stays in the serving collection.
SavedRowsStay == [][SavedRows(shards) \subseteq SavedRows(shards)']_vars

\* "A concurrent caller may have bound the collection first [...] either will
\* do" (collection): no cached binding is of an older topology, once the rebind
\* that published the newer one has dropped the cache.
PinIsCurrent ==
  pinned # NoPin /\ (\A p \in Proc : ~At(p, "invalidate")) =>
    pinned.generation = generation

\* A node that keeps announcing itself is known again and again, as a member or
\* as a spare: neither a Split or Join that moved everything off it, nor a
\* coordinator that restarted with an older pool, loses it for good
\* (self_register, register_node).
EveryNodeIsKnown ==
  \A a \in Addr : []<>(Serves(shards, a) \/ a \in ToSet(spares))

\* A row is never read under another pair than the one it was written with: an
\* index whose file holds rows has that file's pair in memory, so neither a fit
\* that some shards took and others refused, nor a restart of the node between
\* the fit and its flush, reinterprets what was saved.
SavedRowsKeepPair ==
  \A i \in Index : Live(i) /\ idx[i].disk.rows # <<>> => idx[i].cal = idx[i].disk.cal

\* "Keeps each serving shard under that row count itself [...] With no spare
\* registered, or with the collection not servable, it logs and waits" (README.md,
\* "Grow-only autoscaler"): a shard over the ceiling, of the startup table or
\* grown since, is eventually split, while a spare is pooled and every shard
\* answers at the generation the table requires.
CeilingKept ==
  (spares # <<>> /\ \E j \in DOMAIN shards : OverCeiling(shards[j]))
    ~> (\/ spares = <<>> \/ ~Servable(shards)
        \/ \A j \in DOMAIN shards : ~OverCeiling(shards[j]))

================================================================================
