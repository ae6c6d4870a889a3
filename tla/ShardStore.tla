------------------------------- MODULE ShardStore -------------------------------
(***************************************************************************)
(* One shard of a node with a data directory: IndexStore (store.rs) and    *)
(* the Add, Remove, Flush and DropIndex handlers over it (service.rs), and *)
(* the exit of the process (main.rs).                                      *)
(*                                                                         *)
(* A Task is one request in flight.  The steps of a handler are separate   *)
(* wherever it awaits, releases a lock, or touches the file system: the    *)
(* mutation lock serialises Add only, so a Flush, a DropIndex, or a        *)
(* persist left running by a disconnected client interleaves with it.      *)
(*                                                                         *)
(* A row is named by the operation that added it, one row per Add: the     *)
(* rows of one Add are appended under one write lock.  Labels, checksums   *)
(* and calibration are written and checked with the rows and left out.     *)
(* A crash loses memory and requests; a rename not yet synced may be lost  *)
(* with it, which is the crash before that rename.                         *)
(***************************************************************************)
EXTENDS Integers, FiniteSets, SequencesExt

CONSTANTS
  Op,          \* retry-safe operations, named by operation_id
  Plain,       \* stands for an Add without operation_id
  Task,        \* requests that may be in flight at once
  NoTask,      \* the mutation lock is free
  Kinds,       \* what is asked for: of "add", "plain", "remove", "flush",
               \* "delete", and "shutdown"
  Cancels,     \* kinds of request whose clients may disconnect
  Faults,      \* whether file operations may fail
  MaxCrashes,  \* bound on crashes
  MaxRows,     \* bound on the rows plain Adds bring the index to
  MaxGen       \* bound on the generation below which requests start, and at
               \* which the last exit does

ASSUME BoundAssumption ==
  /\ Plain \notin Op /\ NoTask \notin Task
  /\ IsFiniteSet(Op) /\ IsFiniteSet(Task)
  /\ Kinds \subseteq {"add", "plain", "remove", "flush", "delete", "shutdown"}
  /\ Cancels \subseteq Kinds \ {"remove", "shutdown"} /\ Faults \in BOOLEAN
  /\ MaxCrashes \in Nat /\ MaxRows \in Nat /\ MaxGen \in Nat

VARIABLES
  \* memory: whether the shard is registered, its rows, its generation and its
  \* last ingest record, and the holder of the mutation lock
  open, rows, generation, ingest, lock,
  \* disk: whether the shard directory exists, the generation directories in
  \* it, and the number in CURRENT (0 when there is none)
  dir, gens, current,
  \* requests in flight
  task,
  \* clients: the expected_len each operation was first sent with, those
  \* acknowledged, and whether a DropIndex was acknowledged
  expected, acked, dropped,
  \* environment: restarts, and whether the server has stopped to exit
  crashes, stopping

memVars == <<open, rows, generation, ingest>>
diskVars == <<dir, gens, current>>
clientVars == <<expected, acked, dropped>>
envVars == <<crashes, stopping>>
vars == <<memVars, lock, diskVars, task, clientVars, envVars>>

NotSent == -1
NoIngest == [op |-> Plain, expected |-> 0, len |-> 0, generation |-> 0]
NoSnapshot == [rows |-> <<>>, ingest |-> NoIngest]
NoGens == [g \in {} |-> NoSnapshot]

\* kind and op of the request; pc is the next step; target the generation it
\* persists, snap what it has read for it, temp whether its temporary directory
\* exists; orphan when its client is gone; from the number of rows an Add
\* found once it had the lock, or the exit found once the server had stopped.
Request(kind, op, pc) ==
  [kind |-> kind, op |-> op, pc |-> pc, target |-> 0, snap |-> NoSnapshot,
   temp |-> FALSE, orphan |-> FALSE, from |-> 0]
Idle == Request("none", Plain, "idle")

At(t, pc) == task[t].pc = pc
Goto(t, pc) == task' = [task EXCEPT ![t].pc = pc]

\* The request ends, with a reply or an error, and lets the lock go.
End(t) ==
  /\ task' = [task EXCEPT ![t] = Idle]
  /\ lock' = IF lock = t THEN NoTask ELSE lock

--------------------------------------------------------------------------------
\* A shard just created, or one already flushed while it was empty.
Init ==
  /\ open = TRUE /\ rows = <<>> /\ ingest = NoIngest /\ lock = NoTask
  /\ \E g \in {0, 1} :
       /\ generation = g /\ current = g /\ dir = (g = 1)
       /\ gens = [n \in 1..g |-> NoSnapshot]
  /\ task = [t \in Task |-> Idle]
  /\ expected = [op \in Op |-> NotSent]
  /\ acked = {} /\ dropped = FALSE /\ crashes = 0 /\ stopping = FALSE

--------------------------------------------------------------------------------
(* Requests arrive, until the server stops.  Each resolves the handle first: *)
(* NOT_FOUND when closed.                                                  *)

Accepts(t) == At(t, "idle") /\ ~stopping

\* The client sends an operation, or sends it again with the metadata it
\* declared first.  Retries may overlap.
StartAdd(t, op) ==
  /\ "add" \in Kinds /\ Accepts(t) /\ open /\ generation < MaxGen
  /\ expected' = [expected EXCEPT ![op] = IF @ = NotSent THEN Len(rows) ELSE @]
  /\ task' = [task EXCEPT ![t] = Request("add", op, "queued")]
  /\ UNCHANGED <<memVars, lock, diskVars, acked, dropped, envVars>>

StartPlain(t) ==
  /\ "plain" \in Kinds /\ Accepts(t) /\ open
  /\ Len(rows) + Cardinality({u \in Task : task[u].kind = "plain"}) < MaxRows
  /\ task' = [task EXCEPT ![t] = Request("plain", Plain, "queued")]
  /\ UNCHANGED <<memVars, lock, diskVars, clientVars, envVars>>

\* Flush takes no lock.
StartFlush(t) ==
  /\ "flush" \in Kinds /\ Accepts(t) /\ open /\ generation < MaxGen
  /\ task' = [task EXCEPT ![t] = Request("flush", Plain, "begin")]
  /\ UNCHANGED <<memVars, lock, diskVars, clientVars, envVars>>

\* DropIndex takes no lock and needs no live handle.
StartDelete(t) ==
  /\ "delete" \in Kinds /\ Accepts(t) /\ (open \/ dir)
  /\ task' = [task EXCEPT ![t] = Request("delete", Plain, "tombstone")]
  /\ UNCHANGED <<memVars, lock, diskVars, clientVars, envVars>>

\* Remove: one step under the index write lock, and nothing else.
RemoveRow ==
  /\ "remove" \in Kinds /\ open /\ ~stopping
  /\ \E i \in DOMAIN rows : rows' = RemoveAt(rows, i)
  /\ UNCHANGED <<open, generation, ingest, lock, diskVars, task, clientVars, envVars>>

\* Variant (sensitivity of ExitKeepsRows): a shard that has a durable
\* generation is taken for saved.
StartShutdownSkipping(t) ==
  /\ "shutdown" \in Kinds /\ Accepts(t) /\ open /\ generation <= MaxGen
  /\ \A u \in Task : At(u, "idle") \/ task[u].orphan
  /\ stopping' = TRUE
  /\ task' = [task EXCEPT ![t] =
                [Request("shutdown", Plain, IF generation = 0 THEN "begin" ELSE "commit")
                   EXCEPT !.from = Len(rows), !.target = generation]]
  /\ UNCHANGED <<memVars, lock, diskVars, clientVars, crashes>>

\* The server stops when its handlers have returned; what disconnected clients
\* left on the blocking pool may still run.  Then persist_all.
StartShutdown(t) ==
  /\ "shutdown" \in Kinds /\ Accepts(t) /\ open /\ generation <= MaxGen
  /\ \A u \in Task : At(u, "idle") \/ task[u].orphan
  /\ stopping' = TRUE
  /\ task' = [task EXCEPT ![t] =
                [Request("shutdown", Plain, "begin") EXCEPT !.from = Len(rows)]]
  /\ UNCHANGED <<memVars, lock, diskVars, clientVars, crashes>>

--------------------------------------------------------------------------------
(* Add.                                                                    *)

Recorded(t) == ingest.op = task[t].op
SameEnvelope(t) ==
  ingest.expected = expected[task[t].op] /\ ingest.len = Len(rows)

\* Variant (sensitivity of KeepsPromise): a recorded operation is acknowledged
\* whatever the generation.
ReplayAddUnflushed(t) ==
  /\ At(t, "queued") /\ lock = NoTask
  /\ task[t].kind = "add" /\ Recorded(t) /\ SameEnvelope(t)
  /\ acked' = acked \union {task[t].op}
  /\ End(t)
  /\ UNCHANGED <<memVars, diskVars, expected, dropped, envVars>>

\* The mutation lock is granted, and an operation already recorded, under the
\* same metadata, is a replay: acknowledged at once if its generation is the
\* current one, ...
ReplayAdd(t) ==
  /\ At(t, "queued") /\ lock = NoTask
  /\ task[t].kind = "add" /\ Recorded(t) /\ SameEnvelope(t)
  /\ generation = ingest.generation
  /\ acked' = acked \union {task[t].op}
  /\ End(t)
  /\ UNCHANGED <<memVars, diskVars, expected, dropped, envVars>>

\* ... and otherwise persisted again before it is acknowledged.
RepersistAdd(t) ==
  /\ At(t, "queued") /\ lock = NoTask
  /\ task[t].kind = "add" /\ Recorded(t) /\ SameEnvelope(t)
  /\ generation # ingest.generation
  /\ lock' = t
  /\ Goto(t, "begin")
  /\ UNCHANGED <<memVars, diskVars, clientVars, envVars>>

\* Refused: other metadata for the recorded operation, or an index whose
\* length is not the one the client observed.
RefuseAdd(t) ==
  /\ At(t, "queued") /\ lock = NoTask /\ task[t].kind = "add"
  /\ IF Recorded(t) THEN ~SameEnvelope(t)
                    ELSE Len(rows) # expected[task[t].op]
  /\ End(t)
  /\ UNCHANGED <<memVars, diskVars, clientVars, envVars>>

\* Variant (sensitivity of NoDuplicate and TypeOK): expected_len not compared.
AdmissibleAtAnyLength(t) == task[t].kind = "add" => ~Recorded(t)

\* Variant (sensitivity of RemovedStays): a recorded operation is not refused.
AdmissibleAgain(t) ==
  task[t].kind = "add" => Len(rows) = expected[task[t].op]

Admissible(t) ==
  task[t].kind = "add" => ~Recorded(t) /\ Len(rows) = expected[task[t].op]

AdmitAdd(t) ==
  /\ At(t, "queued") /\ lock = NoTask
  /\ Admissible(t)
  /\ lock' = t
  /\ task' = [task EXCEPT ![t].pc = "adding", ![t].from = Len(rows)]
  /\ UNCHANGED <<memVars, diskVars, clientVars, envVars>>

\* add_chunk on the blocking pool: it runs to its end once started, whether or
\* not its client is still there.
AddChunk(t) ==
  /\ At(t, "adding")
  /\ rows' = Append(rows, task[t].op)
  /\ IF task[t].orphan THEN End(t) ELSE Goto(t, "added") /\ UNCHANGED lock
  /\ UNCHANGED <<open, generation, ingest, diskVars, clientVars, envVars>>

\* add_chunk refuses the rows (their width, values or labels), or finds the
\* lock poisoned: nothing is appended.
RefuseChunk(t) ==
  /\ At(t, "adding")
  /\ End(t)
  /\ UNCHANGED <<memVars, diskVars, clientVars, envVars>>

\* set_ingest_record with the length computed from the one read under the lock,
\* and the generation the persist below should create; a
\* plain Add is acknowledged here, with nothing durable.
RecordIngest(t) ==
  /\ At(t, "added")
  /\ \/ /\ task[t].kind = "plain"
        /\ End(t)
        /\ UNCHANGED ingest
     \/ /\ task[t].kind = "add"
        /\ ingest' = [op |-> task[t].op, expected |-> expected[task[t].op],
                      len |-> task[t].from + 1, generation |-> generation + 1]
        /\ Goto(t, "begin")
        /\ UNCHANGED lock
  /\ UNCHANGED <<open, rows, generation, diskVars, clientVars, envVars>>

\* The client disconnects and its handler is dropped at an await.  Waiting for
\* the lock, or between add_chunk and set_ingest_record, the request is gone;
\* a step already on the blocking pool runs on without the lock.
Cancel(t) ==
  /\ task[t].kind \in Cancels
  /\ ~task[t].orphan
  /\ \/ task[t].pc \in {"queued", "added"} /\ End(t)
     \/ /\ task[t].pc \notin {"idle", "queued", "added"}
        /\ task' = [task EXCEPT ![t].orphan = TRUE]
        /\ lock' = IF lock = t THEN NoTask ELSE lock
  /\ UNCHANGED <<memVars, diskVars, clientVars, envVars>>

--------------------------------------------------------------------------------
(* IndexStore::persist, the same steps for Add, Flush and shutdown.        *)

BeginPersist(t) ==
  /\ At(t, "begin")
  /\ IF open
     THEN /\ task' = [task EXCEPT ![t].pc = "make",
                                  ![t].target = generation + 1]
          /\ UNCHANGED lock
     ELSE End(t)
  /\ UNCHANGED <<memVars, diskVars, clientVars, envVars>>

\* Variant (sensitivity of RequestsEnd): the refusal returns without releasing
\* the mutation lock.
MakeTempKeepingLock(t) ==
  /\ At(t, "make")
  /\ dir' = TRUE
  /\ IF task[t].target \in DOMAIN gens
     THEN task' = [task EXCEPT ![t] = Idle]
     ELSE task' = [task EXCEPT ![t].pc = "ingest", ![t].temp = TRUE]
  /\ UNCHANGED <<memVars, lock, gens, current, clientVars, envVars>>

\* create_dir_all, refuse an existing generation, create the temporary one.
MakeTemp(t) ==
  /\ At(t, "make")
  /\ dir' = TRUE
  /\ IF task[t].target \in DOMAIN gens
     THEN End(t)
     ELSE /\ task' = [task EXCEPT ![t].pc = "ingest", ![t].temp = TRUE]
          /\ UNCHANGED lock
  /\ UNCHANGED <<memVars, gens, current, clientVars, envVars>>

\* The ingest record is read before the index lock is taken.
ReadIngest(t) ==
  /\ At(t, "ingest")
  /\ task' = [task EXCEPT ![t].pc = "index", ![t].snap.ingest = ingest]
  /\ UNCHANGED <<memVars, lock, diskVars, clientVars, envVars>>

\* Rows written under the index read lock, then the manifest.
WriteIndex(t) ==
  /\ At(t, "index")
  /\ IF task[t].temp
     THEN /\ task' = [task EXCEPT ![t].pc = "rename", ![t].snap.rows = rows]
          /\ UNCHANGED lock
     ELSE End(t)
  /\ UNCHANGED <<memVars, diskVars, clientVars, envVars>>

WithGen(g, snap) == [n \in DOMAIN gens \union {g} |->
                       IF n = g THEN snap ELSE gens[n]]

\* Variant (sensitivity of SnapshotHonest): the ingest record read for the
\* manifest after the rows are written.
ActivateWithLateIngest(t) ==
  /\ At(t, "rename")
  /\ IF task[t].temp /\ task[t].target \notin DOMAIN gens
     THEN /\ gens' = WithGen(task[t].target, [task[t].snap EXCEPT !.ingest = ingest])
          /\ task' = [task EXCEPT ![t].pc = "pointer", ![t].temp = FALSE]
          /\ UNCHANGED lock
     ELSE End(t) /\ UNCHANGED gens
  /\ UNCHANGED <<memVars, dir, current, clientVars, envVars>>

\* Rename the temporary directory to gen-<target>; the rename fails when it is
\* gone, or when another persist has made that generation meanwhile.
Activate(t) ==
  /\ At(t, "rename")
  /\ IF task[t].temp /\ task[t].target \notin DOMAIN gens
     THEN /\ gens' = WithGen(task[t].target, task[t].snap)
          /\ task' = [task EXCEPT ![t].pc = "pointer", ![t].temp = FALSE]
          /\ UNCHANGED lock
     ELSE End(t) /\ UNCHANGED gens
  /\ UNCHANGED <<memVars, dir, current, clientVars, envVars>>

\* Rename the new CURRENT over the old one.
SwitchCurrent(t) ==
  /\ At(t, "pointer")
  /\ IF dir
     THEN /\ current' = task[t].target
          /\ Goto(t, "commit")
          /\ UNCHANGED lock
     ELSE End(t) /\ UNCHANGED current
  /\ UNCHANGED <<memVars, dir, gens, clientVars, envVars>>

\* Variant (sensitivity of OverlapRestorable): off by one, the new generation goes
\* too.
CleanedOneMore(g) == [n \in {m \in DOMAIN gens : m > g} |-> gens[n]]

\* cleanup_old_generations keeps the new generation and the one before it.
Cleaned(g) == [n \in {m \in DOMAIN gens : m + 1 >= g} |-> gens[n]]

\* The new generation is registered, the old ones are removed, and the client,
\* if it is still there, gets its reply.  One step: a crash in between loses the
\* reply or leaves an older generation behind, which restart does not look at.
CommitPersist(t) ==
  /\ At(t, "commit")
  /\ generation' = task[t].target
  /\ gens' = Cleaned(task[t].target)
  /\ acked' = IF task[t].kind = "add" /\ ~task[t].orphan
              THEN acked \union {task[t].op} ELSE acked
  /\ End(t)
  /\ UNCHANGED <<open, rows, ingest, dir, current, expected, dropped, envVars>>

\* A file operation fails and its error is returned: persist removes nothing but
\* its temporary directory, and a delete that cannot rename has done nothing.
FileFails(t) ==
  /\ Faults
  /\ task[t].pc \in {"make", "index", "rename", "pointer", "commit", "tombstone"}
  /\ End(t)
  /\ UNCHANGED <<memVars, diskVars, clientVars, envVars>>

--------------------------------------------------------------------------------
(* IndexStore::delete.                                                     *)

\* Variant (sensitivity of Restorable): removal in place, where a failure leaves
\* CURRENT behind.
TombstoneInPlace(t) ==
  /\ At(t, "tombstone")
  /\ gens' = NoGens
  /\ \/ dir' = FALSE /\ current' = 0 /\ Goto(t, "forget generation")
     \/ Faults /\ UNCHANGED <<dir, current>> /\ task' = [task EXCEPT ![t] = Idle]
  /\ UNCHANGED <<memVars, lock, clientVars, envVars>>

\* The shard directory is renamed to a tombstone, with whatever was being
\* written in it, and removed.
Tombstone(t) ==
  /\ At(t, "tombstone")
  /\ dir' = FALSE /\ gens' = NoGens /\ current' = 0
  /\ \E pc \in {"forget generation"} \union (IF Faults THEN {"failed"} ELSE {}) :
       task' = [u \in Task |->
                  IF u # t THEN [task[u] EXCEPT !.temp = FALSE]
                  ELSE IF pc = "failed" THEN Idle
                  ELSE [task[t] EXCEPT !.pc = pc]]
  /\ UNCHANGED <<memVars, lock, clientVars, envVars>>

ForgetGeneration(t) ==
  /\ At(t, "forget generation")
  /\ generation' = 0
  /\ Goto(t, "forget ingest")
  /\ UNCHANGED <<open, rows, ingest, lock, diskVars, clientVars, envVars>>

ForgetIngest(t) ==
  /\ At(t, "forget ingest")
  /\ ingest' = NoIngest
  /\ Goto(t, "forget handle")
  /\ UNCHANGED <<open, rows, generation, lock, diskVars, clientVars, envVars>>

ForgetHandle(t) ==
  /\ At(t, "forget handle")
  /\ open' = FALSE
  /\ dropped' = (dropped \/ ~task[t].orphan)
  /\ End(t)
  /\ UNCHANGED <<rows, generation, ingest, diskVars, expected, acked, envVars>>

--------------------------------------------------------------------------------
\* The process exits or dies, and starts again: restore_all skips a shard without a
\* CURRENT, and registers what the generation named by CURRENT holds.  A CURRENT
\* that names no generation fails the start.
Restart ==
  /\ \/ stopping /\ (\A t \in Task : At(t, "idle")) /\ UNCHANGED crashes
     \/ crashes < MaxCrashes /\ crashes' = crashes + 1
  /\ stopping' = FALSE
  /\ current = 0 \/ current \in DOMAIN gens
  /\ open' = (current # 0)
  /\ generation' = current
  /\ rows' = IF current = 0 THEN <<>> ELSE gens[current].rows
  /\ ingest' = IF current = 0 THEN NoIngest ELSE gens[current].ingest
  /\ lock' = NoTask
  /\ task' = [t \in Task |-> Idle]
  /\ UNCHANGED <<diskVars, clientVars>>

--------------------------------------------------------------------------------
AddStep(t) ==
  \/ ReplayAdd(t) \/ RepersistAdd(t) \/ RefuseAdd(t) \/ AdmitAdd(t)
  \/ AddChunk(t) \/ RefuseChunk(t) \/ RecordIngest(t)

PersistStep(t) ==
  \/ BeginPersist(t) \/ MakeTemp(t) \/ ReadIngest(t) \/ WriteIndex(t)
  \/ Activate(t) \/ SwitchCurrent(t) \/ CommitPersist(t)

DeleteStep(t) ==
  Tombstone(t) \/ ForgetGeneration(t) \/ ForgetIngest(t) \/ ForgetHandle(t)

Start(t) ==
  \/ \E op \in Op : StartAdd(t, op)
  \/ StartPlain(t) \/ StartFlush(t) \/ StartDelete(t) \/ StartShutdown(t)

Next ==
  \/ \E t \in Task : Start(t) \/ AddStep(t) \/ PersistStep(t) \/ DeleteStep(t)
                     \/ Cancel(t) \/ FileFails(t)
  \/ RemoveRow
  \/ Restart

Spec == Init /\ [][Next]_vars

\* A request that can run does; the mutation lock is granted in FIFO order
\* (tokio::sync::Mutex), so a waiting Add gets it.
Fairness ==
  \A t \in Task : WF_vars(PersistStep(t)) /\ SF_vars(AddStep(t))

FairSpec == Spec /\ Fairness

--------------------------------------------------------------------------------
(* Properties.                                                             *)

IngestType == [op : Op \union {Plain}, expected : Nat, len : Nat, generation : Nat]
SnapshotType == [rows : Seq(Op \union {Plain}), ingest : IngestType]

\* Every variable stays in its type, and the index never outgrows what clients
\* asked to add.
TypeOK ==
  /\ open \in BOOLEAN /\ rows \in Seq(Op \union {Plain})
  /\ Len(rows) <= MaxRows + Cardinality(Op)
  /\ generation \in Nat /\ ingest \in IngestType
  /\ lock \in Task \union {NoTask}
  /\ dir \in BOOLEAN /\ current \in Nat
  /\ DOMAIN gens \subseteq Nat \ {0}
  /\ \A g \in DOMAIN gens : gens[g] \in SnapshotType
  /\ \A t \in Task :
       /\ task[t].op \in Op \union {Plain} /\ task[t].snap \in SnapshotType
       /\ task[t].target \in Nat /\ task[t].from \in Nat
       /\ task[t].temp \in BOOLEAN /\ task[t].orphan \in BOOLEAN
  /\ expected \in [Op -> Nat \union {NotSent}]
  /\ acked \subseteq Op /\ dropped \in BOOLEAN /\ stopping \in BOOLEAN

\* The rows a restart would restore.
durable == IF current \in DOMAIN gens THEN gens[current].rows ELSE <<>>

\* CURRENT never names a generation that is not there, whatever the crash
\* point or the failing file operation: the node can always start again.
\* (Requests that overlap: OverlapRestorable.)
Restorable == current # 0 => current \in DOMAIN gens

\* No persist stays between looking its generation up and its rename while
\* three others complete.  Nothing in store.rs prevents it.
NoneStalled ==
  \A t \in Task :
    task[t].pc \in {"make", "ingest", "index", "rename"} => generation <= task[t].target + 1

\* However the persists of Adds, Flushes, abandoned Flushes and the exit overlap,
\* and wherever the process dies, the node can start again, as long as none of
\* them is overtaken three times: cleanup keeps the generation before the new one
\* for this (store.rs).
OverlapRestorable == []NoneStalled => []Restorable

\* Every generation on disk is honest about its ingest record: the operation it
\* says is committed is in its rows, at the length it says.
SnapshotHonest ==
  \A g \in DOMAIN gens :
    LET r == gens[g].ingest IN
    r # NoIngest => /\ r.len \in DOMAIN gens[g].rows
                    /\ gens[g].rows[r.len] = r.op

\* An operation's rows are never added twice, in memory or on disk, however
\* often it is retried, across lost responses and restarts.
NoDuplicate ==
  \A op \in Op : \A seq \in {rows} \union {gens[g].rows : g \in DOMAIN gens} :
    Cardinality({i \in DOMAIN seq : seq[i] = op}) <= 1

\* "Delete first renames the shard to a tombstone and syncs the data root, so
\* restart cannot resurrect it" (architecture.md): once DropIndex is
\* acknowledged, no CURRENT is left for a restart to find.
NoResurrection == dropped => current = 0

\* Every row that was in memory when the server stopped is on disk once
\* persist_all has switched CURRENT (main.rs).
CleanExitKeepsRows ==
  \A t \in Task :
    task[t].kind = "shutdown" /\ At(t, "commit") =>
      IsPrefix(SubSeq(rows, 1, task[t].from), durable)

\* A clean exit loses no row although persists that disconnected clients left
\* running take generations and switch CURRENT at the same time, before and
\* after persist_all reads the rows, as long as none of them is overtaken three
\* times.
ExitKeepsRows == []NoneStalled => []CleanExitKeepsRows

\* A row taken out by Remove is not brought back by a retry of the operation
\* that added it, as long as the ingest record still names it.
RemovedStays ==
  [][\A op \in Op :
       ingest.op = op /\ ingest'.op = op /\ op \notin ToSet(rows) /\ crashes' = crashes
         => op \notin ToSet(rows')]_vars

\* The store keeps the promise of DurableShard.
Promise == INSTANCE DurableShard
KeepsPromise == Promise!Spec

\* Every request ends: the mutation lock is never kept by one that is over.
RequestsEnd == \A t \in Task : task[t].pc # "idle" ~> task[t].pc = "idle"

================================================================================
