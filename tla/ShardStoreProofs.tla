---------------------------- MODULE ShardStoreProofs ----------------------------
(***************************************************************************)
(* Proofs about ShardStore, in this order.                                 *)
(*   - Types (StoreTyped), for every request, failure and crash.           *)
(*   - The frame: what a step does to one request and to each variable.    *)
(*     The invariants below are proved from it, not action by action.      *)
(*   - Adds that stay (AddInv): rows change under the mutation lock only.  *)
(*     StoreTypeOK, SnapshotsAreHonest, NothingAddedTwice.                 *)
(*   - One persist or delete at a time (DiskInv): AloneRestorable.         *)
(*   - The mutation lock, which gives that for Adds (AddsRestorable), and  *)
(*     RemovedRowsStay, about a Remove and a retry.                        *)
(*   - Both (PromiseInv): the store implements DurableShard.               *)
(*     StoreKeepsPromise, AddsKeepPromise.                                 *)
(*   - Persists that overlap (WindowInv), as long as none is overtaken     *)
(*     three times: OverlapsRestorable, CleanExitSaves.                    *)
(* What each theorem assumes of Kinds, Cancels, Task or the behaviour is   *)
(* what the code needs: README section 3 says how the property fails       *)
(* without it.                                                             *)
(***************************************************************************)
EXTENDS ShardStore, FiniteSetTheorems, TLAPS

--------------------------------------------------------------------------------
(* Types, whatever is asked of the shard.                                  *)

Entry == Op \union {Plain}

PersistSteps == {"begin", "make", "ingest", "index", "rename", "pointer", "commit"}
DeleteSteps == {"tombstone", "forget generation", "forget ingest", "forget handle"}
AddSteps == {"queued", "adding", "added"}

RequestType ==
  [kind : {"none", "add", "plain", "flush", "delete", "shutdown"}, op : Entry,
   pc : {"idle"} \union AddSteps \union PersistSteps \union DeleteSteps,
   target : Nat, snap : SnapshotType, temp : BOOLEAN, orphan : BOOLEAN,
   from : Nat]

\* The type invariant of every run: TypeOK without its bound on the rows, and
\* what kind of request can be at which step.
Typed ==
  /\ open \in BOOLEAN /\ rows \in Seq(Entry)
  /\ generation \in Nat /\ ingest \in IngestType
  /\ lock \in Task \union {NoTask}
  /\ dir \in BOOLEAN /\ current \in Nat
  /\ DOMAIN gens \subseteq Nat \ {0}
  /\ \A g \in DOMAIN gens : gens[g] \in SnapshotType
  /\ task \in [Task -> RequestType]
  /\ expected \in [Op -> Nat \union {NotSent}]
  /\ acked \subseteq Op /\ dropped \in BOOLEAN
  /\ crashes \in Nat /\ stopping \in BOOLEAN

KindOK(t) ==
  /\ task[t].kind = "add" => task[t].op \in Op /\ expected[task[t].op] # NotSent
  /\ task[t].kind = "plain" => task[t].op = Plain
  /\ task[t].pc \in AddSteps => task[t].kind \in {"add", "plain"}
  /\ task[t].pc \in PersistSteps => task[t].kind \in {"add", "flush", "shutdown"}
  /\ task[t].pc \in DeleteSteps <=> task[t].kind = "delete"
  /\ task[t].pc = "idle" <=> task[t].kind = "none"
  /\ task[t].pc \in PersistSteps \ {"begin"} => task[t].target > 0

KindsOK == \A t \in Task : KindOK(t)

LEMMA Requests ==
  /\ NoIngest \in IngestType /\ NoSnapshot \in SnapshotType
  /\ \A kind \in {"none", "add", "plain", "flush", "delete", "shutdown"},
        op \in Entry,
        pc \in {"idle"} \union AddSteps \union PersistSteps \union DeleteSteps :
       /\ Request(kind, op, pc) \in RequestType
       /\ Request(kind, op, pc).kind = kind
       /\ Request(kind, op, pc).op = op
       /\ Request(kind, op, pc).pc = pc
       /\ Request(kind, op, pc).orphan = FALSE
       /\ Request(kind, op, pc).temp = FALSE
  /\ Idle \in RequestType /\ Idle.kind = "none" /\ Idle.op = Plain
  /\ Idle.pc = "idle" /\ Idle.orphan = FALSE
<1>1. NoIngest \in IngestType
  BY DEF NoIngest, IngestType
<1>2. NoSnapshot \in SnapshotType
  BY <1>1 DEF NoSnapshot, SnapshotType
<1> QED
  BY <1>1, <1>2 DEF Request, RequestType, Entry, Idle, AddSteps, PersistSteps, DeleteSteps

LEMMA IdleFacts ==
  /\ Idle \in RequestType /\ Idle.kind = "none" /\ Idle.pc = "idle"
  /\ Idle.op = Plain /\ ~Idle.orphan /\ ~Idle.temp
  BY Requests DEF Idle, Request

LEMMA TypedInit == Init => Typed
<1> SUFFICES ASSUME Init PROVE Typed
  OBVIOUS
<1>1. rows \in Seq(Entry)
  BY DEF Init
<1>2. PICK g \in {0, 1} : /\ generation = g /\ current = g /\ dir = (g = 1)
                          /\ gens = [n \in 1..g |-> NoSnapshot]
  BY DEF Init
<1>3. DOMAIN gens \subseteq Nat \ {0} /\ \A n \in DOMAIN gens : gens[n] \in SnapshotType
  BY <1>2, Requests
<1>4. generation \in Nat /\ current \in Nat /\ dir \in BOOLEAN
  BY <1>2
<1>5. task \in [Task -> RequestType]
  BY Requests DEF Init
<1>6. expected \in [Op -> Nat \union {NotSent}]
  BY DEF Init
<1>7. ingest \in IngestType
  BY Requests DEF Init
<1> QED  BY <1>1, <1>3, <1>4, <1>5, <1>6, <1>7 DEF Init, Typed

\* What a request becomes: a step changes its pc and perhaps some fields.
LEMMA RequestFields ==
  ASSUME NEW r \in RequestType
  PROVE  /\ r.op \in Entry /\ r.snap \in SnapshotType /\ r.target \in Nat
         /\ r.from \in Nat /\ r.temp \in BOOLEAN /\ r.orphan \in BOOLEAN
         /\ r.snap.rows \in Seq(Entry) /\ r.snap.ingest \in IngestType
         /\ \A pc \in {"idle"} \union AddSteps \union PersistSteps \union DeleteSteps :
              /\ [r EXCEPT !.pc = pc] \in RequestType
              /\ \A n \in Nat :
                   /\ [r EXCEPT !.pc = pc, !.target = n] \in RequestType
                   /\ [r EXCEPT !.pc = pc, !.from = n] \in RequestType
              /\ \A b \in BOOLEAN : [r EXCEPT !.pc = pc, !.temp = b] \in RequestType
              /\ \A i \in IngestType :
                   [r EXCEPT !.pc = pc, !.snap.ingest = i] \in RequestType
              /\ \A q \in Seq(Entry) :
                   [r EXCEPT !.pc = pc, !.snap.rows = q] \in RequestType
         /\ [r EXCEPT !.orphan = TRUE] \in RequestType
         /\ [r EXCEPT !.temp = FALSE] \in RequestType
<1>1. r.snap \in SnapshotType /\ r.snap.rows \in Seq(Entry)
      /\ r.snap.ingest \in IngestType
  BY DEF RequestType, SnapshotType, Entry
<1>2. \A i \in IngestType : [r.snap EXCEPT !.ingest = i] \in SnapshotType
  BY <1>1 DEF SnapshotType
<1>3. \A q \in Seq(Entry) : [r.snap EXCEPT !.rows = q] \in SnapshotType
  BY <1>1 DEF SnapshotType, Entry
<1> HIDE DEF AddSteps, PersistSteps, DeleteSteps
<1>4. /\ r.op \in Entry /\ r.target \in Nat /\ r.from \in Nat
      /\ r.temp \in BOOLEAN /\ r.orphan \in BOOLEAN
  BY DEF RequestType
<1>5. ASSUME NEW pc \in {"idle"} \union AddSteps \union PersistSteps \union DeleteSteps
      PROVE  /\ [r EXCEPT !.pc = pc] \in RequestType
             /\ \A n \in Nat : [r EXCEPT !.pc = pc, !.target = n] \in RequestType
             /\ \A n \in Nat : [r EXCEPT !.pc = pc, !.from = n] \in RequestType
             /\ \A b \in BOOLEAN : [r EXCEPT !.pc = pc, !.temp = b] \in RequestType
             /\ \A s \in SnapshotType : [r EXCEPT !.pc = pc, !.snap = s] \in RequestType
  BY DEF RequestType
<1>6. ASSUME NEW pc \in {"idle"} \union AddSteps \union PersistSteps \union DeleteSteps
      PROVE  /\ \A i \in IngestType :
                  [r EXCEPT !.pc = pc, !.snap.ingest = i] \in RequestType
             /\ \A q \in Seq(Entry) :
                  [r EXCEPT !.pc = pc, !.snap.rows = q] \in RequestType
  <2>1. ASSUME NEW i \in IngestType
        PROVE  [r EXCEPT !.pc = pc, !.snap.ingest = i] \in RequestType
    <3>1. [r EXCEPT !.pc = pc, !.snap = [r.snap EXCEPT !.ingest = i]] \in RequestType
      BY <1>2, <1>5
    <3> QED  BY <3>1
  <2>2. ASSUME NEW q \in Seq(Entry)
        PROVE  [r EXCEPT !.pc = pc, !.snap.rows = q] \in RequestType
    <3>1. [r EXCEPT !.pc = pc, !.snap = [r.snap EXCEPT !.rows = q]] \in RequestType
      BY <1>3, <1>5
    <3> QED  BY <3>1
  <2> QED  BY <2>1, <2>2
<1>7. [r EXCEPT !.orphan = TRUE] \in RequestType /\ [r EXCEPT !.temp = FALSE] \in RequestType
  BY DEF RequestType
<1> QED  BY <1>1, <1>4, <1>5, <1>6, <1>7

LEMMA EndTyped ==
  ASSUME Typed, NEW t \in Task, End(t)
  PROVE  task' \in [Task -> RequestType] /\ lock' \in Task \union {NoTask}
  BY Requests DEF End, Typed

LEMMA GotoTyped ==
  ASSUME Typed, NEW t \in Task,
         NEW pc \in {"idle"} \union AddSteps \union PersistSteps \union DeleteSteps,
         Goto(t, pc)
  PROVE  task' \in [Task -> RequestType]
<1>1. [task[t] EXCEPT !.pc = pc] \in RequestType
  BY RequestFields DEF Typed
<1> QED  BY <1>1 DEF Goto, Typed

LEMMA FieldTypes ==
  ASSUME Typed, NEW t \in Task
  PROVE  /\ task[t] \in RequestType
         /\ task[t].op \in Entry /\ task[t].snap \in SnapshotType
         /\ task[t].target \in Nat /\ task[t].from \in Nat
         /\ task[t].temp \in BOOLEAN /\ task[t].orphan \in BOOLEAN
         /\ task[t].snap.rows \in Seq(Entry) /\ task[t].snap.ingest \in IngestType
<1>1. task[t] \in RequestType
  BY DEF Typed
<1> QED  BY <1>1, RequestFields

LEMMA TypedStep == Typed /\ KindsOK /\ [Next]_vars => Typed'
<1> SUFFICES ASSUME Typed, KindsOK, [Next]_vars PROVE Typed'
  OBVIOUS
<1> USE DEF memVars, diskVars, clientVars, envVars
<1>0. \A t \in Task : task[t] \in RequestType
  BY DEF Typed
<1>n. Len(rows) \in Nat
  BY DEF Typed
<1>1. ASSUME NEW t \in Task, NEW op \in Op, StartAdd(t, op) PROVE Typed'
  <2>1. Request("add", op, "queued") \in RequestType
    BY Requests DEF Entry, AddSteps
  <2>2. expected' \in [Op -> Nat \union {NotSent}]
    BY <1>1, <1>n DEF StartAdd, Typed
  <2> QED  BY <1>1, <2>1, <2>2 DEF StartAdd, Typed
<1>2. ASSUME NEW t \in Task, StartPlain(t) PROVE Typed'
  <2>1. Request("plain", Plain, "queued") \in RequestType
    BY Requests DEF Entry, AddSteps
  <2> QED  BY <1>2, <2>1 DEF StartPlain, Typed
<1>3. ASSUME NEW t \in Task, StartFlush(t) PROVE Typed'
  <2>1. Request("flush", Plain, "begin") \in RequestType
    BY Requests DEF Entry, PersistSteps
  <2> QED  BY <1>3, <2>1 DEF StartFlush, Typed
<1>4. ASSUME NEW t \in Task, StartDelete(t) PROVE Typed'
  <2>1. Request("delete", Plain, "tombstone") \in RequestType
    BY Requests DEF Entry, DeleteSteps
  <2> QED  BY <1>4, <2>1 DEF StartDelete, Typed
<1>5. ASSUME NEW t \in Task, StartShutdown(t) PROVE Typed'
  <2>1. Request("shutdown", Plain, "begin") \in RequestType
    BY Requests DEF Entry, PersistSteps
  <2>2. [Request("shutdown", Plain, "begin") EXCEPT !.from = Len(rows)] \in RequestType
    BY <1>n, <2>1 DEF RequestType
  <2> QED  BY <1>5, <2>2 DEF StartShutdown, Typed
<1>6. CASE RemoveRow
  <2>1. PICK i \in DOMAIN rows : rows' = RemoveAt(rows, i)
    BY <1>6 DEF RemoveRow
  <2>2. rows' \in Seq(Entry)
    BY <2>1 DEF RemoveAt, Typed
  <2> QED  BY <1>6, <2>2 DEF RemoveRow, Typed
<1>7. ASSUME NEW t \in Task, ReplayAdd(t) \/ RefuseAdd(t) \/ RefuseChunk(t) PROVE Typed'
  <2>1. acked' \subseteq Op
    BY <1>7 DEF ReplayAdd, RefuseAdd, RefuseChunk, Typed, KindsOK, KindOK
  <2>2. UNCHANGED <<memVars, diskVars, expected, dropped, envVars>> /\ End(t)
    BY <1>7 DEF ReplayAdd, RefuseAdd, RefuseChunk
  <2> QED  BY <2>1, <2>2, EndTyped DEF Typed
<1>8. ASSUME NEW t \in Task, RepersistAdd(t) PROVE Typed'
  BY <1>8, GotoTyped DEF RepersistAdd, Typed, PersistSteps
<1>9. ASSUME NEW t \in Task, AdmitAdd(t) PROVE Typed'
  <2>1. [task[t] EXCEPT !.pc = "adding", !.from = Len(rows)] \in RequestType
    BY <1>0, <1>n, RequestFields DEF AddSteps
  <2> QED  BY <1>9, <2>1 DEF AdmitAdd, Typed
<1>10. ASSUME NEW t \in Task, AddChunk(t) PROVE Typed'
  <2>1. rows' \in Seq(Entry)
    <3>1. task[t].op \in Entry
      BY FieldTypes
    <3> QED  BY <1>10, <3>1 DEF AddChunk, Typed
  <2>2. task' \in [Task -> RequestType] /\ lock' \in Task \union {NoTask}
    BY <1>10, EndTyped, GotoTyped DEF AddChunk, Typed, AddSteps
  <2> QED  BY <1>10, <2>1, <2>2 DEF AddChunk, Typed
<1>11. ASSUME NEW t \in Task, RecordIngest(t) PROVE Typed'
  <2>1. task' \in [Task -> RequestType] /\ lock' \in Task \union {NoTask}
    BY <1>11, EndTyped, GotoTyped DEF RecordIngest, Typed, PersistSteps
  <2>2. ingest' \in IngestType
    <3>1. task[t].from + 1 \in Nat /\ generation + 1 \in Nat
      <4>1. task[t].from \in Nat
        BY FieldTypes
      <4> QED  BY <4>1 DEF Typed
    <3>2. task[t].kind = "add" =>
            task[t].op \in Op \union {Plain} /\ expected[task[t].op] \in Nat
      BY DEF Typed, KindsOK, KindOK
    <3> QED  BY <1>11, <3>1, <3>2 DEF RecordIngest, IngestType, Typed
  <2> QED  BY <1>11, <2>1, <2>2 DEF RecordIngest, Typed
<1>12. ASSUME NEW t \in Task, Cancel(t) PROVE Typed'
  <2>1. task' \in [Task -> RequestType] /\ lock' \in Task \union {NoTask}
    <3>1. [task[t] EXCEPT !.orphan = TRUE] \in RequestType
      BY <1>0, RequestFields
    <3> QED  BY <1>12, <3>1, EndTyped DEF Cancel, Typed
  <2> QED  BY <1>12, <2>1 DEF Cancel, Typed
<1>13. ASSUME NEW t \in Task, BeginPersist(t) PROVE Typed'
  <2>1. [task[t] EXCEPT !.pc = "make", !.target = generation + 1] \in RequestType
    <3>1. generation + 1 \in Nat /\ "make" \in PersistSteps
      BY DEF Typed, PersistSteps
    <3> QED  BY <1>0, <3>1, RequestFields
  <2> QED  BY <1>13, <2>1, EndTyped DEF BeginPersist, Typed
<1>14. ASSUME NEW t \in Task, MakeTemp(t) PROVE Typed'
  <2>1. [task[t] EXCEPT !.pc = "ingest", !.temp = TRUE] \in RequestType
    BY <1>0, RequestFields DEF PersistSteps
  <2> QED  BY <1>14, <2>1, EndTyped DEF MakeTemp, Typed
<1>15. ASSUME NEW t \in Task, ReadIngest(t) PROVE Typed'
  <2>1. [task[t] EXCEPT !.pc = "index", !.snap.ingest = ingest] \in RequestType
    BY <1>0, RequestFields DEF PersistSteps, Typed
  <2> QED  BY <1>15, <2>1 DEF ReadIngest, Typed
<1>16. ASSUME NEW t \in Task, WriteIndex(t) PROVE Typed'
  <2>1. [task[t] EXCEPT !.pc = "rename", !.snap.rows = rows] \in RequestType
    BY <1>0, RequestFields DEF PersistSteps, Typed
  <2> QED  BY <1>16, <2>1, EndTyped DEF WriteIndex, Typed
<1>17. ASSUME NEW t \in Task, Activate(t) PROVE Typed'
  <2>1. [task[t] EXCEPT !.pc = "pointer", !.temp = FALSE] \in RequestType
    BY <1>0, RequestFields DEF PersistSteps
  <2>2. task' \in [Task -> RequestType] /\ lock' \in Task \union {NoTask}
    BY <1>17, <2>1, EndTyped DEF Activate, Typed
  <2>3. DOMAIN gens' \subseteq Nat \ {0} /\ \A g \in DOMAIN gens' : gens'[g] \in SnapshotType
    <3>1. task[t].target \in Nat \ {0} /\ task[t].snap \in SnapshotType
      <4>1. task[t].target \in Nat /\ task[t].snap \in SnapshotType
        BY FieldTypes
      <4>2. task[t].target > 0
        BY <1>17 DEF Activate, KindsOK, KindOK, At, PersistSteps
      <4> QED  BY <4>1, <4>2
    <3> QED  BY <1>17, <3>1 DEF Activate, WithGen, Typed
  <2> QED  BY <1>17, <2>2, <2>3 DEF Activate, Typed
<1>18. ASSUME NEW t \in Task, SwitchCurrent(t) PROVE Typed'
  BY <1>18, EndTyped, GotoTyped, FieldTypes DEF SwitchCurrent, Typed, PersistSteps
<1>19. ASSUME NEW t \in Task, CommitPersist(t) PROVE Typed'
  <2>1. acked' \subseteq Op /\ generation' \in Nat
    BY <1>19, FieldTypes DEF CommitPersist, Typed, KindsOK, KindOK
  <2>2. DOMAIN gens' \subseteq Nat \ {0} /\ \A g \in DOMAIN gens' : gens'[g] \in SnapshotType
    BY <1>19 DEF CommitPersist, Cleaned, Typed
  <2> QED  BY <1>19, <2>1, <2>2, EndTyped DEF CommitPersist, Typed
<1>20. ASSUME NEW t \in Task, FileFails(t) PROVE Typed'
  BY <1>20, EndTyped DEF FileFails, Typed
<1>21. ASSUME NEW t \in Task, Tombstone(t) PROVE Typed'
  <2>1. [task[t] EXCEPT !.pc = "forget generation"] \in RequestType
    BY <1>0, RequestFields DEF DeleteSteps
  <2>2. \A u \in Task : [task[u] EXCEPT !.temp = FALSE] \in RequestType
    BY <1>0, RequestFields
  <2>3. task' \in [Task -> RequestType]
    <3>1. PICK pc \in {"forget generation", "failed"} :
            task' = [u \in Task |->
                       IF u # t THEN [task[u] EXCEPT !.temp = FALSE]
                       ELSE IF pc = "failed" THEN Idle
                       ELSE [task[t] EXCEPT !.pc = pc]]
      BY <1>21 DEF Tombstone
    <3>2. Idle \in RequestType
      BY Requests
    <3> QED  BY <2>1, <2>2, <3>1, <3>2
  <2> QED  BY <1>21, <2>3 DEF Tombstone, Typed, NoGens
<1>22. ASSUME NEW t \in Task,
              ForgetGeneration(t) \/ ForgetIngest(t) \/ ForgetHandle(t)
       PROVE  Typed'
  <2>1. NoIngest \in IngestType /\ {"forget ingest", "forget handle"} \subseteq DeleteSteps
    BY Requests DEF DeleteSteps
  <2>2. CASE ForgetGeneration(t)
    BY <2>1, <2>2, GotoTyped DEF ForgetGeneration, Typed
  <2>3. CASE ForgetIngest(t)
    BY <2>1, <2>3, GotoTyped DEF ForgetIngest, Typed
  <2>4. CASE ForgetHandle(t)
    BY <2>4, EndTyped DEF ForgetHandle, Typed
  <2> QED  BY <1>22, <2>2, <2>3, <2>4
<1>23. CASE Restart
  <2>1. rows' \in Seq(Entry) /\ ingest' \in IngestType
    <3>1. \A g \in DOMAIN gens : gens[g].rows \in Seq(Entry) /\ gens[g].ingest \in IngestType
      BY DEF Typed, SnapshotType, Entry
    <3>2. NoIngest \in IngestType
      BY Requests
    <3>3. <<>> \in Seq(Entry)
      OBVIOUS
    <3> QED  BY <1>23, <3>1, <3>2, <3>3 DEF Restart
  <2>2. task' \in [Task -> RequestType]
    BY <1>23, Requests DEF Restart
  <2>3. open' \in BOOLEAN /\ stopping' \in BOOLEAN /\ crashes' \in Nat
    <3>1. stopping' = FALSE /\ open' = (current # 0)
      BY <1>23 DEF Restart
    <3>2. crashes' \in Nat
      BY <1>23 DEF Restart, Typed
    <3> QED  BY <3>1, <3>2
  <2>4. generation' \in Nat /\ lock' \in Task \union {NoTask}
        /\ UNCHANGED <<dir, gens, current, expected, acked, dropped>>
    BY <1>23 DEF Restart, Typed
  <2> QED  BY <2>1, <2>2, <2>3, <2>4 DEF Typed
<1>24. CASE UNCHANGED vars
  BY <1>24 DEF vars, Typed
<1> QED
  BY <1>1, <1>2, <1>3, <1>4, <1>5, <1>6, <1>7, <1>8, <1>9, <1>10, <1>11, <1>12,
     <1>13, <1>14, <1>15, <1>16, <1>17, <1>18, <1>19, <1>20, <1>21, <1>22,
     <1>23, <1>24
     DEF Next, Start, AddStep, PersistStep, DeleteStep

LEMMA KindsInit == Init => KindsOK
  BY IdleFacts DEF Init, KindsOK, KindOK, AddSteps, PersistSteps, DeleteSteps

LEMMA KindsStep == Typed /\ KindsOK /\ [Next]_vars => KindsOK'
<1> SUFFICES ASSUME Typed, KindsOK, [Next]_vars, NEW u \in Task
             PROVE  KindOK(u)'
  BY DEF KindsOK
<1> USE DEF memVars, diskVars, clientVars, envVars
<1>0. /\ KindOK(u) /\ task \in [Task -> RequestType]
      /\ expected \in [Op -> Nat \union {NotSent}]
      /\ Len(rows) \in Nat /\ generation \in Nat
  BY DEF KindsOK, Typed
<1>n. \A n \in Nat : n # NotSent
  BY DEF NotSent
<1>k. KindOK(u) /\ task'[u] = task[u] /\ UNCHANGED expected => KindOK(u)'
  BY DEF KindOK
<1>i. task'[u] = Idle => KindOK(u)'
  BY Requests DEF KindOK, AddSteps, PersistSteps, DeleteSteps
<1>e. ASSUME NEW t \in Task, End(t), UNCHANGED expected PROVE KindOK(u)'
  BY <1>0, <1>e, <1>k, <1>i DEF End
<1>g. ASSUME NEW t \in Task, NEW pc, UNCHANGED expected, Goto(t, pc),
             \/ task[t].pc \in AddSteps /\ pc \in AddSteps
             \/ task[t].kind = "add" /\ task[t].pc \in AddSteps /\ pc = "begin"
             \/ task[t].pc \in PersistSteps \ {"begin"} /\ pc \in PersistSteps \ {"begin"}
             \/ task[t].pc \in DeleteSteps /\ pc \in DeleteSteps
      PROVE  KindOK(u)'
  <2>1. CASE u = t
    <3>1. task'[u] = [task[u] EXCEPT !.pc = pc]
      BY <1>0, <1>g, <2>1 DEF Goto
    <3>2. /\ task'[u].pc = pc /\ task'[u].kind = task[u].kind
          /\ task'[u].op = task[u].op /\ task'[u].target = task[u].target
      BY <1>0, <3>1 DEF RequestType
    <3> QED  BY <1>0, <1>g, <2>1, <3>2 DEF KindOK, AddSteps, PersistSteps, DeleteSteps
  <2> QED  BY <1>0, <1>k, <1>g, <2>1 DEF Goto
<1>1. ASSUME NEW t \in Task, NEW op \in Op, StartAdd(t, op) PROVE KindOK(u)'
  <2>1. CASE u = t
    <3>1. task'[u] = Request("add", op, "queued")
      BY <1>0, <1>1, <2>1 DEF StartAdd
    <3>2. expected'[op] # NotSent
      BY <1>0, <1>1, <1>n DEF StartAdd
    <3> QED  BY <3>1, <3>2 DEF KindOK, Request, AddSteps, PersistSteps, DeleteSteps
  <2>2. CASE u # t
    <3>1. task'[u] = task[u] /\ \A o \in Op : expected[o] # NotSent => expected'[o] # NotSent
      BY <1>0, <1>1, <1>n, <2>2 DEF StartAdd
    <3> QED  BY <1>0, <3>1 DEF KindOK
  <2> QED  BY <2>1, <2>2
<1>2. ASSUME NEW t \in Task,
             StartPlain(t) \/ StartFlush(t) \/ StartDelete(t) \/ StartShutdown(t)
      PROVE KindOK(u)'
  <2>1. CASE u = t
    <3>0. task[u] \in RequestType
      BY <1>0
    <3>1. \/ task'[u] = Request("plain", Plain, "queued")
          \/ task'[u] = Request("flush", Plain, "begin")
          \/ task'[u] = Request("delete", Plain, "tombstone")
          \/ task'[u] = [Request("shutdown", Plain, "begin") EXCEPT !.from = Len(rows)]
      <4>1. CASE StartPlain(t)
        BY <1>0, <2>1, <4>1 DEF StartPlain
      <4>2. CASE StartFlush(t)
        BY <1>0, <2>1, <4>2 DEF StartFlush
      <4>3. CASE StartDelete(t)
        BY <1>0, <2>1, <4>3 DEF StartDelete
      <4>4. CASE StartShutdown(t)
        BY <1>0, <2>1, <4>4 DEF StartShutdown
      <4> QED  BY <1>2, <4>1, <4>2, <4>3, <4>4
    <3>2. CASE task'[u] = Request("plain", Plain, "queued")
      BY <3>2 DEF KindOK, Request, AddSteps, PersistSteps, DeleteSteps
    <3>3. CASE task'[u] = Request("flush", Plain, "begin")
      BY <3>3 DEF KindOK, Request, AddSteps, PersistSteps, DeleteSteps
    <3>4. CASE task'[u] = Request("delete", Plain, "tombstone")
      BY <3>4 DEF KindOK, Request, AddSteps, PersistSteps, DeleteSteps
    <3>5. CASE task'[u] = [Request("shutdown", Plain, "begin") EXCEPT !.from = Len(rows)]
      BY <3>5 DEF KindOK, Request, AddSteps, PersistSteps, DeleteSteps
    <3> QED  BY <3>1, <3>2, <3>3, <3>4, <3>5
  <2>2. CASE u # t
    BY <1>0, <1>2, <1>k, <2>2 DEF StartPlain, StartFlush, StartDelete, StartShutdown
  <2> QED  BY <2>1, <2>2
<1>3. CASE RemoveRow
  BY <1>0, <1>3, <1>k DEF RemoveRow
<1>4. ASSUME NEW t \in Task, ReplayAdd(t) \/ RefuseAdd(t) \/ RefuseChunk(t) \/ FileFails(t)
                             \/ CommitPersist(t) \/ ForgetHandle(t)
      PROVE KindOK(u)'
  BY <1>4, <1>e DEF ReplayAdd, RefuseAdd, RefuseChunk, FileFails, CommitPersist, ForgetHandle
<1>5. ASSUME NEW t \in Task, RepersistAdd(t) \/ AddChunk(t) \/ RecordIngest(t)
      PROVE  KindOK(u)'
  BY <1>5, <1>e, <1>g DEF RepersistAdd, AddChunk, RecordIngest, At, AddSteps
<1>6. ASSUME NEW t \in Task, SwitchCurrent(t) \/ ForgetGeneration(t) \/ ForgetIngest(t)
      PROVE  KindOK(u)'
  BY <1>6, <1>e, <1>g
     DEF SwitchCurrent, ForgetGeneration, ForgetIngest, At, PersistSteps, DeleteSteps
<1>7. ASSUME NEW t \in Task, AdmitAdd(t) PROVE KindOK(u)'
  <2>1. CASE u = t
    <3>1. task'[u] = [task[u] EXCEPT !.pc = "adding", !.from = Len(rows)]
      BY <1>0, <1>7, <2>1 DEF AdmitAdd
    <3>2. /\ task'[u].pc = "adding" /\ task'[u].kind = task[u].kind
          /\ task'[u].op = task[u].op /\ UNCHANGED expected
      <4>1. task[u] \in RequestType
        BY <1>0
      <4>2. UNCHANGED expected
        BY <1>7 DEF AdmitAdd
      <4> QED  BY <3>1, <4>1, <4>2 DEF RequestType
    <3> QED  BY <1>0, <1>7, <2>1, <3>2
                DEF KindOK, AdmitAdd, At, AddSteps, PersistSteps, DeleteSteps
  <2> QED  BY <1>0, <1>7, <1>k, <2>1 DEF AdmitAdd
<1>8. ASSUME NEW t \in Task, Cancel(t) PROVE KindOK(u)'
  <2>1. CASE task' = [task EXCEPT ![t].orphan = TRUE] /\ UNCHANGED expected
    <3>1. /\ task'[u].pc = task[u].pc /\ task'[u].kind = task[u].kind
          /\ task'[u].op = task[u].op /\ task'[u].target = task[u].target
      BY <1>0, <2>1 DEF RequestType
    <3> QED  BY <1>0, <2>1, <3>1 DEF KindOK
  <2> QED  BY <1>8, <1>e, <2>1 DEF Cancel
<1>9. ASSUME NEW t \in Task,
             \/ BeginPersist(t) \/ MakeTemp(t) \/ ReadIngest(t) \/ WriteIndex(t)
             \/ Activate(t)
      PROVE KindOK(u)'
  <2>1. /\ task[t].pc \in PersistSteps
        /\ task[t].pc = "begin" => BeginPersist(t)
        /\ UNCHANGED expected
    BY <1>9 DEF BeginPersist, MakeTemp, ReadIngest, WriteIndex, Activate, At, PersistSteps
  <2>2. CASE End(t)
    BY <1>e, <2>1, <2>2
  <2>3. CASE ~End(t) /\ u = t
    <3>1. \/ task'[u] = [task[u] EXCEPT !.pc = "make", !.target = generation + 1]
          \/ /\ task[t].pc # "begin"
             /\ \/ task'[u] = [task[u] EXCEPT !.pc = "ingest", !.temp = TRUE]
                \/ task'[u] = [task[u] EXCEPT !.pc = "index", !.snap.ingest = ingest]
                \/ task'[u] = [task[u] EXCEPT !.pc = "rename", !.snap.rows = rows]
                \/ task'[u] = [task[u] EXCEPT !.pc = "pointer", !.temp = FALSE]
      <4>1. CASE BeginPersist(t)
        BY <1>0, <2>3, <4>1 DEF BeginPersist
      <4>2. CASE MakeTemp(t)
        BY <1>0, <2>3, <4>2 DEF MakeTemp, At
      <4>3. CASE ReadIngest(t)
        BY <1>0, <2>3, <4>3 DEF ReadIngest, At
      <4>4. CASE WriteIndex(t)
        <5>1. task[t].pc = "index"
              /\ task' = [task EXCEPT ![t].pc = "rename", ![t].snap.rows = rows]
          BY <2>3, <4>4 DEF WriteIndex, At
        <5>2. task'[t] = [task[t] EXCEPT !.pc = "rename", !.snap.rows = rows]
          BY <1>0, <5>1
        <5> QED  BY <2>3, <5>1, <5>2
      <4>5. CASE Activate(t)
        BY <1>0, <2>3, <4>5 DEF Activate, At
      <4> QED  BY <1>9, <4>1, <4>2, <4>3, <4>4, <4>5
    <3>2. /\ task'[u].pc \in PersistSteps \ {"begin"} /\ task'[u].kind = task[u].kind
          /\ task'[u].op = task[u].op
          /\ \/ task'[u].target = generation + 1
             \/ task[t].pc # "begin" /\ task'[u].target = task[u].target
      <4>1. task[u] \in RequestType
        BY <1>0
      <4> DEFINE r == task[u]
      <4>2. /\ \A n : LET s == [r EXCEPT !.pc = "make", !.target = n] IN
                      /\ s.pc = "make" /\ s.kind = r.kind /\ s.op = r.op
                      /\ s.target = n
            /\ \A pc, b : LET s == [r EXCEPT !.pc = pc, !.temp = b] IN
                      /\ s.pc = pc /\ s.kind = r.kind /\ s.op = r.op
                      /\ s.target = r.target
            /\ \A pc, b : LET s == [r EXCEPT !.pc = pc, !.snap = b] IN
                      /\ s.pc = pc /\ s.kind = r.kind /\ s.op = r.op
                      /\ s.target = r.target
        BY <4>1 DEF RequestType
      <4>3. \/ task'[u] = [r EXCEPT !.pc = "make", !.target = generation + 1]
            \/ /\ task[t].pc # "begin"
               /\ \/ \E pc \in {"ingest", "pointer"} : \E b :
                       task'[u] = [r EXCEPT !.pc = pc, !.temp = b]
                  \/ \E pc \in {"index", "rename"} : \E b :
                       task'[u] = [r EXCEPT !.pc = pc, !.snap = b]
        BY <3>1
      <4>4. CASE task'[u] = [r EXCEPT !.pc = "make", !.target = generation + 1]
        BY <4>2, <4>4 DEF PersistSteps
      <4>5. ASSUME task[t].pc # "begin", NEW pc \in {"ingest", "pointer"}, NEW b,
                   task'[u] = [r EXCEPT !.pc = pc, !.temp = b]
            PROVE  /\ task'[u].pc \in PersistSteps \ {"begin"}
                   /\ task'[u].kind = r.kind /\ task'[u].op = r.op
                   /\ task'[u].target = r.target
        BY <4>2, <4>5 DEF PersistSteps
      <4>6. ASSUME task[t].pc # "begin", NEW pc \in {"index", "rename"}, NEW b,
                   task'[u] = [r EXCEPT !.pc = pc, !.snap = b]
            PROVE  /\ task'[u].pc \in PersistSteps \ {"begin"}
                   /\ task'[u].kind = r.kind /\ task'[u].op = r.op
                   /\ task'[u].target = r.target
        BY <4>2, <4>6 DEF PersistSteps
      <4> QED  BY <4>3, <4>4, <4>5, <4>6
    <3>3. task'[u].target \in Nat /\ task'[u].target > 0
      <4>1. task[t].pc # "begin" => task[u].target > 0 /\ task[u].target \in Nat
        BY <1>0, <2>1, <2>3 DEF KindOK, RequestType
      <4> QED  BY <1>0, <3>2, <4>1
    <3> QED  BY <1>0, <2>1, <2>3, <3>2, <3>3 DEF KindOK, AddSteps, PersistSteps, DeleteSteps
  <2>4. CASE ~End(t) /\ u # t
    <3>1. task'[u] = task[u]
      BY <1>0, <1>9, <2>4 DEF BeginPersist, MakeTemp, ReadIngest, WriteIndex, Activate
    <3> QED  BY <1>0, <1>k, <2>1, <3>1
  <2> QED  BY <2>2, <2>3, <2>4
<1>10. ASSUME NEW t \in Task, Tombstone(t) PROVE KindOK(u)'
  <2>1. /\ UNCHANGED expected
        /\ \/ task'[u] = [task[u] EXCEPT !.temp = FALSE]
           \/ task'[u] = Idle
           \/ u = t /\ task'[u] = [task[u] EXCEPT !.pc = "forget generation"]
    <3>1. PICK pc : pc \in {"forget generation", "failed"} /\
            task' = [v \in Task |-> IF v # t THEN [task[v] EXCEPT !.temp = FALSE]
                                  ELSE IF pc = "failed" THEN Idle
                                  ELSE [task[t] EXCEPT !.pc = pc]]
      BY <1>10 DEF Tombstone
    <3>2. CASE u # t
      BY <1>0, <1>10, <3>1, <3>2 DEF Tombstone
    <3>3. CASE u = t
      BY <1>0, <1>10, <3>1, <3>3 DEF Tombstone
    <3> QED  BY <3>2, <3>3
  <2>2. task[u] \in RequestType /\ task[t].pc = "tombstone"
    BY <1>0, <1>10 DEF Tombstone, At
  <2>3. CASE task'[u] = [task[u] EXCEPT !.temp = FALSE]
    BY <1>0, <2>1, <2>2, <2>3 DEF KindOK, RequestType
  <2>4. CASE u = t /\ task'[u] = [task[u] EXCEPT !.pc = "forget generation"]
    <3>1. /\ task'[u].pc = "forget generation" /\ task'[u].kind = task[u].kind
          /\ task'[u].op = task[u].op /\ task'[u].target = task[u].target
      BY <2>2, <2>4 DEF RequestType
    <3> QED  BY <1>0, <2>1, <2>2, <2>4, <3>1 DEF KindOK, AddSteps, PersistSteps, DeleteSteps
  <2> QED  BY <1>i, <2>1, <2>3, <2>4
<1>11. CASE Restart
  BY <1>11, <1>i DEF Restart
<1>12. CASE UNCHANGED vars
  BY <1>0, <1>12, <1>k DEF vars
<1> QED
  BY <1>1, <1>2, <1>3, <1>4, <1>5, <1>6, <1>7, <1>8, <1>9, <1>10, <1>11, <1>12
     DEF Next, Start, AddStep, PersistStep, DeleteStep

\* Every reachable state is well typed, whatever is asked of the shard, and no
\* request is at a step of another kind of request.
THEOREM StoreTyped == Spec => [](Typed /\ KindsOK)
<1>1. Init => Typed /\ KindsOK
  BY TypedInit, KindsInit
<1>2. (Typed /\ KindsOK) /\ [Next]_vars => (Typed /\ KindsOK)'
  BY TypedStep, KindsStep
<1> QED  BY <1>1, <1>2, PTL DEF Spec
--------------------------------------------------------------------------------
(* What a step does to one request, and to each variable: the frame of the *)
(* proofs below.                                                           *)

SameWho(u) == /\ task'[u].kind = task[u].kind /\ task'[u].op = task[u].op
              /\ task'[u].orphan = task[u].orphan
SameWork(u) == /\ task'[u].from = task[u].from /\ task'[u].target = task[u].target
               /\ task'[u].snap = task[u].snap
NewTemp(u) == task'[u].temp => task[u].temp

\* The step of another request: at most the temporary directory goes.
Bystands(u) == task'[u].pc = task[u].pc /\ SameWho(u) /\ SameWork(u) /\ NewTemp(u)

Starts(u) ==
  \/ \E op \in Op : StartAdd(u, op) /\ task'[u] = Request("add", op, "queued")
  \/ StartPlain(u) /\ task'[u] = Request("plain", Plain, "queued")
  \/ StartFlush(u) /\ task'[u] = Request("flush", Plain, "begin")
  \/ StartDelete(u) /\ task'[u] = Request("delete", Plain, "tombstone")
  \/ /\ StartShutdown(u)
     /\ task'[u] = [Request("shutdown", Plain, "begin") EXCEPT !.from = Len(rows)]

Orphaned(u) ==
  /\ Cancel(u) /\ task[u].pc \notin {"idle", "queued", "added"}
  /\ task'[u].kind = task[u].kind /\ task'[u].op = task[u].op
  /\ task'[u].orphan /\ task'[u].pc = task[u].pc /\ SameWork(u) /\ NewTemp(u)

\* The steps that leave a request where it was but for its pc.
Walks(u) ==
  /\ SameWho(u) /\ SameWork(u) /\ NewTemp(u)
  /\ \/ RepersistAdd(u) /\ task'[u].pc = "begin"
     \/ AddChunk(u) /\ ~task[u].orphan /\ task'[u].pc = "added"
     \/ RecordIngest(u) /\ task[u].kind = "add" /\ task'[u].pc = "begin"
     \/ /\ Activate(u) /\ task[u].temp /\ task[u].target \notin DOMAIN gens
        /\ task'[u].pc = "pointer"
     \/ SwitchCurrent(u) /\ dir /\ task'[u].pc = "commit"
     \/ Tombstone(u) /\ task'[u].pc = "forget generation"
     \/ ForgetGeneration(u) /\ task'[u].pc = "forget ingest"
     \/ ForgetIngest(u) /\ task'[u].pc = "forget handle"

Works(u) ==
  /\ SameWho(u)
  /\ \/ /\ AdmitAdd(u) /\ task'[u].pc = "adding" /\ task'[u].from = Len(rows)
        /\ task'[u].target = task[u].target /\ task'[u].snap = task[u].snap
        /\ NewTemp(u)
     \/ /\ BeginPersist(u) /\ open /\ task'[u].pc = "make"
        /\ task'[u].target = generation + 1 /\ task'[u].from = task[u].from
        /\ task'[u].snap = task[u].snap /\ NewTemp(u)
     \/ /\ MakeTemp(u) /\ task[u].target \notin DOMAIN gens
        /\ task'[u].pc = "ingest" /\ task'[u].temp /\ SameWork(u)
     \/ /\ ReadIngest(u) /\ task'[u].pc = "index"
        /\ task'[u].snap = [task[u].snap EXCEPT !.ingest = ingest]
        /\ task'[u].from = task[u].from /\ task'[u].target = task[u].target
        /\ NewTemp(u)
     \/ /\ WriteIndex(u) /\ task[u].temp /\ task'[u].pc = "rename"
        /\ task'[u].snap = [task[u].snap EXCEPT !.rows = rows]
        /\ task'[u].from = task[u].from /\ task'[u].target = task[u].target
        /\ NewTemp(u)

TaskStepFor(u) ==
  \/ Bystands(u) \/ task'[u] = Idle \/ Starts(u) \/ Orphaned(u) \/ Walks(u) \/ Works(u)

\* A new request has read nothing yet.
LEMMA StartFields ==
  ASSUME NEW u \in Task, Starts(u)
  PROVE  /\ task'[u].snap = NoSnapshot /\ ~task'[u].orphan /\ ~task'[u].temp
         /\ task'[u].target = 0
         /\ \/ /\ task'[u].kind = "add" /\ task'[u].op \in Op
               /\ task'[u].pc = "queued" /\ StartAdd(u, task'[u].op)
            \/ /\ task'[u].kind = "plain" /\ task'[u].op = Plain
               /\ task'[u].pc = "queued" /\ StartPlain(u)
            \/ task'[u].kind = "flush" /\ task'[u].pc = "begin" /\ StartFlush(u)
            \/ task'[u].kind = "delete" /\ task'[u].pc = "tombstone" /\ StartDelete(u)
            \/ /\ task'[u].kind = "shutdown" /\ task'[u].pc = "begin"
               /\ task'[u].from = Len(rows) /\ StartShutdown(u)
<1>1. ASSUME NEW op \in Op, StartAdd(u, op), task'[u] = Request("add", op, "queued")
      PROVE  /\ task'[u].snap = NoSnapshot /\ ~task'[u].orphan /\ ~task'[u].temp
             /\ task'[u].target = 0 /\ task'[u].kind = "add" /\ task'[u].op \in Op
             /\ task'[u].pc = "queued" /\ StartAdd(u, task'[u].op)
  BY <1>1 DEF Request
<1>2. ASSUME task'[u] = Request("plain", Plain, "queued")
      PROVE  /\ task'[u].snap = NoSnapshot /\ ~task'[u].orphan /\ ~task'[u].temp
             /\ task'[u].target = 0 /\ task'[u].kind = "plain" /\ task'[u].op = Plain
             /\ task'[u].pc = "queued"
  BY <1>2 DEF Request
<1>3. ASSUME task'[u] = Request("flush", Plain, "begin")
      PROVE  /\ task'[u].snap = NoSnapshot /\ ~task'[u].orphan /\ ~task'[u].temp
             /\ task'[u].target = 0 /\ task'[u].kind = "flush" /\ task'[u].pc = "begin"
  BY <1>3 DEF Request
<1>4. ASSUME task'[u] = Request("delete", Plain, "tombstone")
      PROVE  /\ task'[u].snap = NoSnapshot /\ ~task'[u].orphan /\ ~task'[u].temp
             /\ task'[u].target = 0 /\ task'[u].kind = "delete"
             /\ task'[u].pc = "tombstone"
  BY <1>4 DEF Request
<1>5. ASSUME task'[u] = [Request("shutdown", Plain, "begin") EXCEPT !.from = Len(rows)]
      PROVE  /\ task'[u].snap = NoSnapshot /\ ~task'[u].orphan /\ ~task'[u].temp
             /\ task'[u].target = 0 /\ task'[u].kind = "shutdown"
             /\ task'[u].pc = "begin" /\ task'[u].from = Len(rows)
  BY <1>5 DEF Request
<1> QED  BY <1>1, <1>2, <1>3, <1>4, <1>5 DEF Starts

LEMMA GotoFields ==
  ASSUME Typed, NEW u \in Task, NEW pc, Goto(u, pc)
  PROVE  task'[u].pc = pc /\ SameWho(u) /\ SameWork(u) /\ NewTemp(u)
<1>1. task \in [Task -> RequestType] /\ task[u] \in RequestType
  BY DEF Typed
<1>2. task'[u] = [task[u] EXCEPT !.pc = pc]
  BY <1>1 DEF Goto
<1> QED  BY <1>1, <1>2 DEF RequestType, SameWho, SameWork, NewTemp

\* A step of t: what it does to t, and to another request.
Steps(t) == Start(t) \/ AddStep(t) \/ PersistStep(t) \/ DeleteStep(t)
            \/ Cancel(t) \/ FileFails(t)

LEMMA OtherTasks ==
  ASSUME Typed, NEW t \in Task, NEW u \in Task, u # t, Steps(t)
  PROVE  Bystands(u)
<1>1. task \in [Task -> RequestType] /\ task[u] \in RequestType
  BY DEF Typed
<1>2. CASE task'[u] = task[u]
  BY <1>2 DEF Bystands, SameWho, SameWork, NewTemp
<1>3. CASE task'[u] = [task[u] EXCEPT !.temp = FALSE]
  BY <1>1, <1>3 DEF Bystands, SameWho, SameWork, NewTemp, RequestType
<1>4. CASE Tombstone(t)
  BY <1>3, <1>4 DEF Tombstone
<1>5. CASE Start(t)
  BY <1>1, <1>2, <1>5
     DEF Start, StartAdd, StartPlain, StartFlush, StartDelete, StartShutdown
<1>6. CASE AddStep(t)
  BY <1>1, <1>2, <1>6 DEF AddStep, ReplayAdd, RepersistAdd, RefuseAdd, RefuseChunk, AdmitAdd,
     AddChunk, RecordIngest, End, Goto
<1>7. CASE PersistStep(t)
  BY <1>1, <1>2, <1>7 DEF PersistStep, BeginPersist, MakeTemp, ReadIngest, WriteIndex,
     Activate, SwitchCurrent, CommitPersist, End, Goto
<1>8. CASE ForgetGeneration(t) \/ ForgetIngest(t) \/ ForgetHandle(t)
  BY <1>1, <1>2, <1>8 DEF ForgetGeneration, ForgetIngest, ForgetHandle, End, Goto
<1>9. CASE Cancel(t) \/ FileFails(t)
  BY <1>1, <1>2, <1>9 DEF Cancel, FileFails, End
<1> QED
  BY <1>4, <1>5, <1>6, <1>7, <1>8, <1>9 DEF Steps, DeleteStep

LEMMA OwnTask ==
  ASSUME Typed, NEW u \in Task, Steps(u)
  PROVE  TaskStepFor(u)
<1>0. task \in [Task -> RequestType] /\ task[u] \in RequestType
  BY DEF Typed
<1> DEFINE r == task[u]
<1>r. r \in RequestType
  BY <1>0
<1>e. ASSUME End(u) PROVE TaskStepFor(u)
  BY <1>0, <1>e DEF End, TaskStepFor
<1>1. CASE Start(u)
  <2>1. Starts(u)
    <3>1. ASSUME NEW op \in Op, StartAdd(u, op) PROVE Starts(u)
      BY <1>0, <3>1 DEF StartAdd, Starts
    <3>2. CASE StartPlain(u)
      BY <1>0, <3>2 DEF StartPlain, Starts
    <3>3. CASE StartFlush(u)
      BY <1>0, <3>3 DEF StartFlush, Starts
    <3>4. CASE StartDelete(u)
      BY <1>0, <3>4 DEF StartDelete, Starts
    <3>5. CASE StartShutdown(u)
      BY <1>0, <3>5 DEF StartShutdown, Starts
    <3> QED  BY <1>1, <3>1, <3>2, <3>3, <3>4, <3>5 DEF Start
  <2> QED  BY <2>1 DEF TaskStepFor
<1>2. CASE ReplayAdd(u) \/ RefuseAdd(u) \/ RefuseChunk(u) \/ CommitPersist(u) \/ ForgetHandle(u)
           \/ FileFails(u)
  BY <1>2, <1>e DEF ReplayAdd, RefuseAdd, RefuseChunk, CommitPersist, ForgetHandle, FileFails
<1>3. CASE RepersistAdd(u) \/ AddChunk(u) \/ RecordIngest(u)
  <2>1. CASE RepersistAdd(u)
    BY <2>1, GotoFields DEF RepersistAdd, Walks, TaskStepFor
  <2>2. CASE AddChunk(u)
    BY <2>2, <1>e, GotoFields DEF AddChunk, Walks, TaskStepFor
  <2>3. CASE RecordIngest(u)
    BY <2>3, <1>e, GotoFields DEF RecordIngest, Walks, TaskStepFor
  <2> QED  BY <1>3, <2>1, <2>2, <2>3
<1>4. CASE SwitchCurrent(u)
  BY <1>4, <1>e, GotoFields DEF SwitchCurrent, Walks, TaskStepFor
<1>5. CASE ForgetGeneration(u)
  BY <1>5, GotoFields DEF ForgetGeneration, Walks, TaskStepFor
<1>6. CASE ForgetIngest(u)
  BY <1>6, GotoFields DEF ForgetIngest, Walks, TaskStepFor
<1>7. CASE AdmitAdd(u)
  <2>1. task'[u] = [r EXCEPT !.pc = "adding", !.from = Len(rows)]
    BY <1>0, <1>7 DEF AdmitAdd
  <2> QED  BY <1>7, <1>r, <2>1 DEF TaskStepFor, Works, SameWho, NewTemp, RequestType
<1>8. CASE BeginPersist(u) /\ ~End(u)
  <2>1. open /\ task'[u] = [r EXCEPT !.pc = "make", !.target = generation + 1]
    BY <1>0, <1>8 DEF BeginPersist
  <2> QED  BY <1>8, <1>r, <2>1 DEF TaskStepFor, Works, SameWho, NewTemp, RequestType
<1>9. CASE MakeTemp(u) /\ ~End(u)
  <2>1. r.target \notin DOMAIN gens /\ task'[u] = [r EXCEPT !.pc = "ingest", !.temp = TRUE]
    BY <1>0, <1>9 DEF MakeTemp
  <2> QED  BY <1>9, <1>r, <2>1 DEF TaskStepFor, Works, SameWho, SameWork, RequestType
<1>10. CASE ReadIngest(u)
  <2>1. task'[u] = [r EXCEPT !.pc = "index", !.snap.ingest = ingest]
    BY <1>0, <1>10 DEF ReadIngest
  <2> QED  BY <1>10, <1>r, <2>1 DEF TaskStepFor, Works, SameWho, NewTemp, RequestType
<1>11. CASE WriteIndex(u) /\ ~End(u)
  <2>1. r.temp /\ task'[u] = [r EXCEPT !.pc = "rename", !.snap.rows = rows]
    BY <1>0, <1>11 DEF WriteIndex
  <2> QED  BY <1>11, <1>r, <2>1 DEF TaskStepFor, Works, SameWho, NewTemp, RequestType
<1>12. CASE Activate(u) /\ ~End(u)
  <2>1. /\ r.temp /\ r.target \notin DOMAIN gens
        /\ task'[u] = [r EXCEPT !.pc = "pointer", !.temp = FALSE]
    BY <1>0, <1>12 DEF Activate
  <2>2. task'[u].pc = "pointer" /\ SameWho(u) /\ SameWork(u) /\ NewTemp(u)
    BY <1>r, <2>1 DEF SameWho, SameWork, NewTemp, RequestType
  <2> QED  BY <1>12, <2>1, <2>2 DEF TaskStepFor, Walks
<1>13. CASE Tombstone(u)
  <2>1. PICK pc \in {"forget generation", "failed"} :
          task' = [v \in Task |->
                     IF v # u THEN [task[v] EXCEPT !.temp = FALSE]
                     ELSE IF pc = "failed" THEN Idle
                     ELSE [task[u] EXCEPT !.pc = pc]]
    BY <1>13 DEF Tombstone
  <2>2. CASE pc = "failed"
    BY <2>1, <2>2 DEF TaskStepFor
  <2>3. CASE pc = "forget generation"
    <3>1. task'[u] = [r EXCEPT !.pc = "forget generation"]
      BY <2>1, <2>3
    <3>2. task'[u].pc = "forget generation" /\ SameWho(u) /\ SameWork(u) /\ NewTemp(u)
      BY <1>r, <3>1 DEF SameWho, SameWork, NewTemp, RequestType
    <3> QED  BY <1>13, <3>2 DEF TaskStepFor, Walks
  <2> QED  BY <2>2, <2>3
<1>14. CASE Cancel(u) /\ ~End(u)
  <2>1. /\ task[u].pc \notin {"idle", "queued", "added"}
        /\ task'[u] = [r EXCEPT !.orphan = TRUE]
    BY <1>0, <1>14 DEF Cancel
  <2> QED
    BY <1>14, <1>r, <2>1 DEF TaskStepFor, Orphaned, SameWork, NewTemp, RequestType
<1> QED
  BY <1>e, <1>1, <1>2, <1>3, <1>4, <1>5, <1>6, <1>7, <1>8, <1>9, <1>10, <1>11,
     <1>12, <1>13, <1>14
     DEF Steps, AddStep, PersistStep, DeleteStep

LEMMA TaskStep ==
  ASSUME Typed, [Next]_vars, NEW u \in Task
  PROVE  TaskStepFor(u)
<1>1. ASSUME NEW t \in Task, Steps(t) PROVE TaskStepFor(u)
  BY <1>1, OtherTasks, OwnTask DEF TaskStepFor
<1>2. CASE RemoveRow \/ UNCHANGED vars
  BY <1>2 DEF RemoveRow, vars, TaskStepFor, Bystands, SameWho, SameWork, NewTemp
<1>3. CASE Restart
  BY <1>3 DEF Restart, TaskStepFor
<1> QED  BY <1>1, <1>2, <1>3 DEF Next, Steps

\* Most steps leave the store alone: the others are named here once, and what
\* each does to one variable is read off below.
storeVars == <<open, rows, generation, ingest, gens, current, clientVars, stopping>>

Changes(t) ==
  \/ (\E op \in Op : StartAdd(t, op)) \/ StartShutdown(t)
  \/ ReplayAdd(t) \/ AddChunk(t) \/ RecordIngest(t)
  \/ Activate(t) \/ SwitchCurrent(t) \/ CommitPersist(t)
  \/ DeleteStep(t)

LEMMA StoreStep ==
  ASSUME [Next]_vars
  PROVE  \/ UNCHANGED storeVars
         \/ \E t \in Task : Changes(t)
         \/ RemoveRow \/ Restart
<1> USE DEF memVars, diskVars, clientVars, envVars, storeVars
<1>1. ASSUME NEW t \in Task, Start(t) PROVE UNCHANGED storeVars \/ Changes(t)
  BY <1>1 DEF Start, StartPlain, StartFlush, StartDelete, Changes
<1>2. ASSUME NEW t \in Task, AddStep(t) PROVE UNCHANGED storeVars \/ Changes(t)
  BY <1>2 DEF AddStep, RepersistAdd, RefuseAdd, RefuseChunk, AdmitAdd, Changes
<1>3. ASSUME NEW t \in Task, PersistStep(t) PROVE UNCHANGED storeVars \/ Changes(t)
  BY <1>3 DEF PersistStep, BeginPersist, MakeTemp, ReadIngest, WriteIndex, Changes
<1>4. ASSUME NEW t \in Task, DeleteStep(t) PROVE Changes(t)
  BY <1>4 DEF Changes
<1>5. ASSUME NEW t \in Task, Cancel(t) \/ FileFails(t) PROVE UNCHANGED storeVars
  BY <1>5 DEF Cancel, FileFails
<1>6. ASSUME UNCHANGED vars PROVE UNCHANGED storeVars
  BY <1>6 DEF vars
<1> HIDE DEF memVars, diskVars, clientVars, envVars, storeVars
<1> QED  BY <1>1, <1>2, <1>3, <1>4, <1>5, <1>6 DEF Next

\* The generations on disk: one is added, the oldest or all of them go.
LEMMA GensStep ==
  ASSUME Typed, [Next]_vars
  PROVE  \/ /\ DOMAIN gens' \subseteq DOMAIN gens
            /\ \A g \in DOMAIN gens' : gens'[g] = gens[g]
         \/ \E t \in Task : /\ Activate(t) /\ task[t].temp
                            /\ task[t].target \notin DOMAIN gens
                            /\ gens' = WithGen(task[t].target, task[t].snap)
<1> USE DEF memVars, diskVars, clientVars, envVars
<1> DEFINE Goal ==
      \/ /\ DOMAIN gens' \subseteq DOMAIN gens
         /\ \A g \in DOMAIN gens' : gens'[g] = gens[g]
      \/ \E t \in Task : /\ Activate(t) /\ task[t].temp
                         /\ task[t].target \notin DOMAIN gens
                         /\ gens' = WithGen(task[t].target, task[t].snap)
<1>1. CASE UNCHANGED gens
  BY <1>1
<1>2. ASSUME NEW t \in Task, Activate(t) PROVE Goal
  BY <1>1, <1>2 DEF Activate
<1>3. ASSUME NEW t \in Task, CommitPersist(t) \/ Tombstone(t) PROVE Goal
  BY <1>3 DEF CommitPersist, Cleaned, Tombstone, NoGens
<1>4. \/ UNCHANGED gens
      \/ \E t \in Task : Activate(t) \/ CommitPersist(t) \/ Tombstone(t)
  BY StoreStep DEF storeVars, Changes, StartAdd, StartShutdown, ReplayAdd, AddChunk,
     RecordIngest, SwitchCurrent, DeleteStep, ForgetGeneration, ForgetIngest,
     ForgetHandle, RemoveRow, Restart
<1> HIDE DEF Goal
<1>5. Goal
  BY <1>1, <1>2, <1>3, <1>4 DEF Goal
<1> QED  BY <1>5 DEF Goal

\* The rows in memory: an Add appends, a Remove removes, a restart restores.
LEMMA MemoryStep ==
  ASSUME [Next]_vars
  PROVE  \/ UNCHANGED rows
         \/ \E t \in Task : AddChunk(t) /\ rows' = Append(rows, task[t].op)
         \/ RemoveRow
         \/ Restart /\ rows' = IF current = 0 THEN <<>> ELSE gens[current].rows
BY StoreStep DEF memVars, diskVars, clientVars, envVars, storeVars, Changes, StartAdd,
   StartShutdown, ReplayAdd, AddChunk, RecordIngest, Activate, SwitchCurrent,
   CommitPersist, DeleteStep, Tombstone, ForgetGeneration, ForgetIngest, ForgetHandle,
   Restart

\* The mutation lock: one Add takes it when it is free, and only its holder
\* lets it go, at its end or when its client leaves.
LEMMA LockStep ==
  ASSUME Typed, [Next]_vars
  PROVE  \/ UNCHANGED lock
         \/ /\ lock = NoTask
            /\ \E t \in Task : lock' = t /\ (AdmitAdd(t) \/ RepersistAdd(t))
         \/ lock' = NoTask /\ \A u \in Task : lock = u => task'[u] = Idle \/ Cancel(u)
<1> USE DEF memVars, diskVars, clientVars, envVars
<1> DEFINE Goal ==
      \/ UNCHANGED lock
      \/ /\ lock = NoTask
         /\ \E t \in Task : lock' = t /\ (AdmitAdd(t) \/ RepersistAdd(t))
      \/ lock' = NoTask /\ \A u \in Task : lock = u => task'[u] = Idle \/ Cancel(u)
<1>1. ASSUME NEW t \in Task, End(t) PROVE Goal
  BY <1>1 DEF End, Typed
<1>2. ASSUME NEW t \in Task, Cancel(t) PROVE Goal
  BY <1>1, <1>2 DEF Cancel
<1>3. ASSUME NEW t \in Task, AdmitAdd(t) \/ RepersistAdd(t) PROVE Goal
  BY <1>3 DEF AdmitAdd, RepersistAdd
<1>4. CASE Restart
  BY <1>4 DEF Restart
<1>5. ASSUME NEW t \in Task, Start(t) \/ PersistStep(t) \/ DeleteStep(t) \/ FileFails(t)
      PROVE  Goal
  <2>1. UNCHANGED lock \/ End(t)
    BY <1>5 DEF Start, StartAdd, StartPlain, StartFlush, StartDelete, StartShutdown,
       PersistStep, BeginPersist, MakeTemp, ReadIngest, WriteIndex, Activate,
       SwitchCurrent, CommitPersist, DeleteStep, Tombstone, ForgetGeneration,
       ForgetIngest, ForgetHandle, FileFails
  <2> QED  BY <1>1, <2>1
<1>6. ASSUME NEW t \in Task, AddStep(t) PROVE Goal
  <2>1. UNCHANGED lock \/ End(t) \/ AdmitAdd(t) \/ RepersistAdd(t)
    BY <1>6 DEF AddStep, ReplayAdd, RefuseAdd, RefuseChunk, AddChunk, RecordIngest
  <2> QED  BY <1>1, <1>3, <2>1
<1>7. CASE RemoveRow
  BY <1>7 DEF RemoveRow
<1>11. CASE UNCHANGED vars
  BY <1>11 DEF vars
<1> HIDE DEF Goal
<1>8. ASSUME NEW t \in Task, Steps(t) PROVE Goal
  BY <1>2, <1>5, <1>6, <1>8 DEF Steps
<1>9. \/ \E t \in Task : Steps(t)
      \/ RemoveRow \/ Restart \/ UNCHANGED vars
  BY DEF Next, Steps
<1>10. Goal
  BY <1>4, <1>7, <1>8, <1>9, <1>11 DEF Goal
<1> QED  BY <1>10 DEF Goal

\* The ingest record, and the length each operation was first sent with.
LEMMA IngestStep ==
  ASSUME [Next]_vars
  PROVE  \/ UNCHANGED ingest
         \/ \E t \in Task :
              /\ RecordIngest(t) /\ task[t].kind = "add"
              /\ ingest' = [op |-> task[t].op, expected |-> expected[task[t].op],
                            len |-> task[t].from + 1, generation |-> generation + 1]
         \/ ingest' = NoIngest /\ \E t \in Task : ForgetIngest(t)
         \/ Restart /\ ingest' = IF current = 0 THEN NoIngest ELSE gens[current].ingest
BY StoreStep DEF memVars, diskVars, clientVars, envVars, storeVars, Changes, StartAdd,
   StartShutdown, ReplayAdd, AddChunk, RecordIngest, Activate, SwitchCurrent,
   CommitPersist, DeleteStep, Tombstone, ForgetGeneration, ForgetIngest, ForgetHandle,
   RemoveRow, Restart

LEMMA ExpectedStep ==
  ASSUME [Next]_vars
  PROVE  \/ UNCHANGED expected
         \/ \E t \in Task, op \in Op :
              /\ StartAdd(t, op) /\ UNCHANGED rows
              /\ expected' = [expected EXCEPT ![op] = IF @ = NotSent THEN Len(rows) ELSE @]
BY StoreStep DEF memVars, diskVars, clientVars, envVars, storeVars, Changes, StartAdd,
   StartShutdown, ReplayAdd, AddChunk, RecordIngest, Activate, SwitchCurrent,
   CommitPersist, DeleteStep, Tombstone, ForgetGeneration, ForgetIngest, ForgetHandle,
   RemoveRow, Restart

--------------------------------------------------------------------------------
(* Adds that stay: nobody removes rows and no client leaves an Add.  Then   *)
(* rows are appended under the mutation lock only, and each operation has   *)
(* one place it can be appended at.                                         *)

AddsStay == "remove" \notin Kinds /\ "add" \notin Cancels /\ "plain" \notin Cancels

\* Every sequence of rows there is, in memory, on disk or on its way there.
Kept == {rows} \union {gens[g].rows : g \in DOMAIN gens}
               \union {task[t].snap.rows : t \in Task}

LEMMA SnapStep ==
  ASSUME Typed, [Next]_vars, NEW u \in Task
  PROVE  \/ task'[u].snap \in {task[u].snap, NoSnapshot}
         \/ task'[u].snap = [task[u].snap EXCEPT !.ingest = ingest]
         \/ task'[u].snap = [task[u].snap EXCEPT !.rows = rows]
<1>1. TaskStepFor(u)
  BY TaskStep
<1>2. CASE task'[u] = Idle
  BY <1>2 DEF Idle, Request
<1>3. CASE Starts(u)
  BY <1>3, StartFields
<1> QED
  BY <1>1, <1>2, <1>3 DEF TaskStepFor, Bystands, Orphaned, Walks, Works, SameWork

\* A sequence kept now was kept before, is empty, or has just been appended to.
LEMMA KeptStep ==
  ASSUME Typed, [Next]_vars, ~RemoveRow, NEW q \in Kept'
  PROVE  \/ q \in Kept \union {<<>>}
         \/ \E t \in Task : AddChunk(t) /\ q = Append(rows, task[t].op)
<1>1. CASE q = rows'
  <2>1. CASE Restart /\ rows' = IF current = 0 THEN <<>> ELSE gens[current].rows
    <3>1. current = 0 \/ current \in DOMAIN gens
      BY <2>1 DEF Restart
    <3> QED  BY <1>1, <2>1, <3>1 DEF Kept
  <2> QED  BY <1>1, <2>1, MemoryStep DEF Kept
<1>2. ASSUME NEW g \in DOMAIN gens', q = gens'[g].rows
      PROVE  q \in Kept
  <2>1. CASE g \in DOMAIN gens /\ gens'[g] = gens[g]
    BY <1>2, <2>1 DEF Kept
  <2>2. ASSUME NEW t \in Task, gens'[g] = task[t].snap PROVE q \in Kept
    BY <1>2, <2>2 DEF Kept
  <2> QED  BY <2>1, <2>2, GensStep DEF WithGen
<1>3. ASSUME NEW u \in Task, q = task'[u].snap.rows
      PROVE  q \in Kept \union {<<>>}
  <2>1. task[u].snap \in SnapshotType
    BY FieldTypes
  <2>2. /\ NoSnapshot.rows = <<>>
        /\ [task[u].snap EXCEPT !.ingest = ingest].rows = task[u].snap.rows
        /\ [task[u].snap EXCEPT !.rows = rows].rows = rows
    BY <2>1 DEF NoSnapshot, SnapshotType
  <2>3. \/ task'[u].snap \in {task[u].snap, NoSnapshot}
        \/ task'[u].snap = [task[u].snap EXCEPT !.ingest = ingest]
        \/ task'[u].snap = [task[u].snap EXCEPT !.rows = rows]
    BY SnapStep
  <2> QED  BY <1>3, <2>2, <2>3 DEF Kept
<1> QED  BY <1>1, <1>2, <1>3 DEF Kept

\* An Add appends where the client expected, and holds the lock from its
\* admission until its record is written.
AddPlace(t) ==
  /\ task[t].kind \in {"add", "plain"} => ~task[t].orphan
  /\ task[t].pc \in {"adding", "added"} => lock = t
  /\ task[t].pc = "adding" =>
       /\ task[t].from = Len(rows)
       /\ task[t].kind = "add" => expected[task[t].op] = task[t].from
  /\ task[t].pc = "added" => /\ task[t].from + 1 \in DOMAIN rows
                             /\ rows[task[t].from + 1] = task[t].op

AddPlaces == \A t \in Task : AddPlace(t)

\* An operation's row is where its client saw the end of the index.
Placed(seq) == \A i \in DOMAIN seq : seq[i] \in Op => expected[seq[i]] = i - 1
AllPlaced == \A seq \in Kept : Placed(seq)

LEMMA KeptTypes ==
  ASSUME Typed
  PROVE  \A q \in Kept : q \in Seq(Entry)
BY FieldTypes DEF Kept, Typed, SnapshotType, Entry

LEMMA AddPlaceInit == Init => AddPlaces /\ AllPlaced
<1> SUFFICES ASSUME Init PROVE AddPlaces /\ AllPlaced
  OBVIOUS
<1>1. AddPlaces
  BY IdleFacts DEF Init, AddPlaces, AddPlace
<1>2. \A q \in Kept : q = <<>>
  BY DEF Init, Kept, NoSnapshot, Idle, Request
<1> QED  BY <1>1, <1>2 DEF AllPlaced, Placed

LEMMA AddPlaceStep ==
  ASSUME AddsStay, Typed, KindsOK, AddPlaces, [Next]_vars
  PROVE  AddPlaces'
<1> SUFFICES ASSUME NEW u \in Task PROVE AddPlace(u)'
  BY DEF AddPlaces
<1> USE DEF memVars, diskVars, clientVars, envVars
<1>0. AddPlace(u) /\ KindOK(u) /\ KindOK(u)' /\ rows \in Seq(Entry)
  BY KindsStep DEF AddPlaces, KindsOK, Typed
<1>t. /\ task[u].op \in Entry /\ task[u].from \in Nat
      /\ task'[u].op \in Entry /\ task'[u].from \in Nat
  <2>1. Typed'
    BY TypedStep
  <2> QED  BY <2>1, FieldTypes DEF Typed, RequestType
<1>n. ~RemoveRow
  BY DEF AddsStay, RemoveRow
<1>1. CASE task'[u] = Idle
  BY <1>1, IdleFacts DEF AddPlace
<1>2. CASE Starts(u)
  BY <1>2, StartFields DEF AddPlace
<1>3. CASE Orphaned(u)
  <2>1. task[u].kind \notin {"add", "plain"}
    BY <1>3 DEF Orphaned, Cancel, AddsStay
  <2> QED  BY <1>0, <1>3, <2>1 DEF Orphaned, AddPlace, KindOK, AddSteps
<1>4. CASE Walks(u)
  <2>1. /\ task'[u].kind = task[u].kind /\ task'[u].orphan = task[u].orphan
        /\ task'[u].op = task[u].op /\ task'[u].from = task[u].from
        /\ \/ task'[u].pc \notin {"adding", "added"}
           \/ AddChunk(u) /\ ~task[u].orphan /\ task'[u].pc = "added"
    BY <1>4 DEF Walks, SameWho, SameWork
  <2>2. CASE AddChunk(u) /\ ~task[u].orphan /\ task'[u].pc = "added"
    <3>1. /\ rows' = Append(rows, task[u].op) /\ lock = u /\ lock' = lock
          /\ task[u].from = Len(rows)
      <4>1. At(u, "adding") /\ rows' = Append(rows, task[u].op) /\ lock' = lock
        BY <2>2 DEF AddChunk
      <4> QED  BY <1>0, <4>1 DEF AddPlace, At
    <3>2. task[u].from + 1 \in DOMAIN rows' /\ rows'[task[u].from + 1] = task[u].op
      BY <1>0, <1>t, <3>1
    <3> QED  BY <1>0, <2>1, <2>2, <3>1, <3>2 DEF AddPlace
  <2> QED  BY <1>0, <2>1, <2>2 DEF AddPlace
<1>5. CASE Works(u)
  <2>1. CASE AdmitAdd(u) /\ task'[u].pc = "adding" /\ task'[u].from = Len(rows)
    <3>1. /\ lock' = u /\ rows' = rows /\ expected' = expected
          /\ task[u].kind = "add" => expected[task[u].op] = Len(rows)
      BY <2>1 DEF AdmitAdd, Admissible
    <3> QED  BY <1>0, <1>5, <2>1, <3>1 DEF Works, SameWho, AddPlace
  <2>2. CASE task'[u].pc \notin {"adding", "added"}
    BY <1>0, <1>5, <2>2 DEF Works, SameWho, AddPlace
  <2> QED  BY <1>5, <2>1, <2>2 DEF Works
<1>6. CASE Bystands(u) /\ task'[u] # Idle
  <2>0. /\ task'[u].pc = task[u].pc /\ task'[u].kind = task[u].kind
        /\ task'[u].op = task[u].op /\ task'[u].from = task[u].from
        /\ task'[u].orphan = task[u].orphan
    BY <1>6 DEF Bystands, SameWho, SameWork
  <2>1. CASE task[u].pc \in {"adding", "added"}
    <3>1. /\ lock = u /\ task[u].kind \in {"add", "plain"} /\ ~task[u].orphan
          /\ task[u].kind = "add" => task[u].op \in Op /\ expected[task[u].op] # NotSent
      BY <1>0, <2>1 DEF AddPlace, KindOK, AddSteps
    <3>2. lock' = u
      <4>1. ~Cancel(u)
        BY <3>1 DEF Cancel, AddsStay
      <4> QED  BY <1>6, <3>1, <4>1, LockStep, BoundAssumption
    <3>3. rows' = rows
      <4>1. ASSUME NEW t \in Task, AddChunk(t) PROVE FALSE
        <5>1. t = u
          BY <3>1, <4>1 DEF AddChunk, At, AddPlaces, AddPlace
        <5>2. Goto(u, "added") /\ task[u].pc = "adding"
          BY <3>1, <4>1, <5>1 DEF AddChunk, At
        <5>3. task'[u].pc = "added"
          BY <5>2, GotoFields
        <5> QED  BY <2>0, <5>2, <5>3
      <4>2. ~Restart
        BY <1>6 DEF Restart
      <4> QED  BY <1>n, <4>1, <4>2, MemoryStep
    <3>4. task[u].kind = "add" => expected'[task[u].op] = expected[task[u].op]
      <4>1. expected \in [Op -> Nat \union {NotSent}]
        BY DEF Typed
      <4> QED  BY <3>1, <4>1, ExpectedStep
    <3> QED  BY <1>0, <2>0, <2>1, <3>2, <3>3, <3>4 DEF AddPlace
  <2> QED  BY <1>0, <2>0, <2>1 DEF AddPlace
<1> QED
  BY <1>1, <1>2, <1>3, <1>4, <1>5, <1>6, TaskStep DEF TaskStepFor

LEMMA PlacedStep ==
  ASSUME AddsStay, Typed, KindsOK, AddPlaces, AllPlaced, [Next]_vars
  PROVE  AllPlaced'
<1> SUFFICES ASSUME NEW q \in Kept', NEW i \in DOMAIN q, q[i] \in Op
             PROVE  expected'[q[i]] = i - 1
  BY DEF AllPlaced, Placed
<1>n. ~RemoveRow
  BY DEF AddsStay, RemoveRow
<1>0. expected \in [Op -> Nat \union {NotSent}] /\ rows \in Seq(Entry)
  BY DEF Typed
<1>1. CASE q \in Kept
  <2>1. expected[q[i]] = i - 1 /\ i \in Nat \ {0}
    <3>1. q \in Seq(Entry)
      BY <1>1, KeptTypes
    <3> QED  BY <1>1, <3>1 DEF AllPlaced, Placed
  <2>2. expected[q[i]] # NotSent
    BY <2>1 DEF NotSent
  <2> QED  BY <1>0, <2>1, <2>2, ExpectedStep
<1>2. ASSUME NEW t \in Task, AddChunk(t), q = Append(rows, task[t].op)
      PROVE  expected'[q[i]] = i - 1
  <2>0. UNCHANGED expected
    BY <1>2 DEF AddChunk, clientVars
  <2>1. CASE i \in DOMAIN rows
    <3>1. q[i] = rows[i] /\ rows \in Kept
      BY <1>0, <1>2, <2>1 DEF Kept
    <3> QED  BY <2>0, <2>1, <3>1 DEF AllPlaced, Placed
  <2>2. CASE i = Len(rows) + 1
    <3>1. q[i] = task[t].op
      BY <1>0, <1>2, <2>2
    <3>2. task[t].pc = "adding"
      BY <1>2 DEF AddChunk, At
    <3>3. task[t].kind = "add"
      BY <3>1, <3>2, BoundAssumption DEF KindsOK, KindOK, AddSteps
    <3>4. expected[task[t].op] = Len(rows)
      BY <3>2, <3>3 DEF AddPlaces, AddPlace
    <3>5. Len(rows) \in Nat
      BY <1>0
    <3> QED  BY <2>0, <2>2, <3>1, <3>4, <3>5
  <2>3. DOMAIN q = 1..(Len(rows) + 1) /\ DOMAIN rows = 1..Len(rows) /\ Len(rows) \in Nat
    BY <1>0, <1>2
  <2> QED  BY <2>1, <2>2, <2>3
<1> QED  BY <1>n, <1>1, <1>2, KeptStep

\* Without a row in two places there is no operation with two rows.
LEMMA PlacedOnce == Typed /\ AllPlaced => NoDuplicate
<1> SUFFICES ASSUME Typed, AllPlaced, NEW op \in Op,
                    NEW q \in {rows} \union {gens[g].rows : g \in DOMAIN gens}
             PROVE  Cardinality({i \in DOMAIN q : q[i] = op}) <= 1
  BY DEF NoDuplicate
<1> DEFINE S == {i \in DOMAIN q : q[i] = op}
<1>0. q \in Kept
  BY DEF Kept
<1>1. q \in Seq(Entry)
  BY <1>0, KeptTypes
<1>2. \A i, j \in S : i = j
  <2>1. \A i \in S : i \in Nat /\ expected[op] = i - 1
    BY <1>0, <1>1 DEF AllPlaced, Placed
  <2> QED  BY <2>1
<1>3. CASE S = {}
  BY <1>3, FS_EmptySet
<1>4. ASSUME NEW i \in S PROVE Cardinality(S) <= 1
  <2>1. S = {i}
    BY <1>2
  <2>2. Cardinality({i}) = 1
    BY FS_Singleton
  <2> HIDE DEF S
  <2>3. Cardinality(S) = 1
    BY <2>1, <2>2
  <2> QED  BY <2>3
<1> QED  BY <1>3, <1>4

\* A record names the row its operation added, when there is a record.
Honest(seq, rec) == rec # NoIngest => rec.len \in DOMAIN seq /\ seq[rec.len] = rec.op

\* A persist reads the record before the rows: rows appended in between do not
\* harm it, and nothing else can happen to them.
HonestWork(t) ==
  /\ task[t].pc = "index" => Honest(rows, task[t].snap.ingest)
  /\ task[t].pc = "rename" => Honest(task[t].snap.rows, task[t].snap.ingest)

AllHonest == /\ Honest(rows, ingest)
             /\ \A g \in DOMAIN gens : Honest(gens[g].rows, gens[g].ingest)
             /\ \A t \in Task : HonestWork(t)

LEMMA HonestInit == Init => AllHonest
<1> SUFFICES ASSUME Init PROVE AllHonest
  OBVIOUS
<1>1. ingest = NoIngest /\ \A g \in DOMAIN gens : gens[g].ingest = NoIngest
  BY DEF Init, NoSnapshot
<1>2. \A t \in Task : task[t].pc = "idle"
  BY IdleFacts DEF Init
<1> QED  BY <1>1, <1>2 DEF AllHonest, Honest, HonestWork

LEMMA HonestAppend ==
  ASSUME NEW q \in Seq(Entry), NEW x \in Entry, NEW rec, Honest(q, rec)
  PROVE  Honest(Append(q, x), rec)
BY DEF Honest

LEMMA HonestStep ==
  ASSUME AddsStay, Typed, KindsOK, AddPlaces, AllHonest, [Next]_vars
  PROVE  AllHonest'
<1> USE DEF memVars, diskVars, clientVars, envVars
<1>n. ~RemoveRow
  BY DEF AddsStay, RemoveRow
<1>0. rows \in Seq(Entry) /\ \A t \in Task : task[t].op \in Entry
  BY FieldTypes DEF Typed
<1>1. Honest(rows, ingest)
      /\ \A g \in DOMAIN gens : Honest(gens[g].rows, gens[g].ingest)
  BY DEF AllHonest
<1>2. ASSUME NEW rec, Honest(rows, rec), ~Restart PROVE Honest(rows', rec)
  <2>1. \/ rows' = rows
        \/ \E t \in Task : rows' = Append(rows, task[t].op)
    BY <1>n, <1>2, MemoryStep
  <2> QED  BY <1>0, <1>2, <2>1, HonestAppend
<1>3. Honest(rows', ingest')
  <2>1. CASE Restart
    <3>1. \/ current = 0 /\ ingest' = NoIngest
          \/ /\ current \in DOMAIN gens
             /\ rows' = gens[current].rows /\ ingest' = gens[current].ingest
      BY <2>1 DEF Restart
    <3> QED  BY <1>1, <3>1 DEF Honest
  <2>2. CASE UNCHANGED ingest /\ ~Restart
    BY <1>1, <1>2, <2>2
  <2>3. ASSUME NEW t \in Task, RecordIngest(t),
               ingest' = [op |-> task[t].op, expected |-> expected[task[t].op],
                          len |-> task[t].from + 1, generation |-> generation + 1]
        PROVE  Honest(rows', ingest')
    <3>1. rows' = rows /\ task[t].pc = "added"
      BY <2>3 DEF RecordIngest, At
    <3>2. task[t].from + 1 \in DOMAIN rows /\ rows[task[t].from + 1] = task[t].op
      BY <3>1 DEF AddPlaces, AddPlace
    <3> QED  BY <2>3, <3>1, <3>2 DEF Honest
  <2>4. CASE ingest' = NoIngest
    BY <2>4 DEF Honest
  <2> QED  BY <2>1, <2>2, <2>3, <2>4, IngestStep
<1>4. ASSUME NEW g \in DOMAIN gens' PROVE Honest(gens'[g].rows, gens'[g].ingest)
  <2>1. CASE g \in DOMAIN gens /\ gens'[g] = gens[g]
    BY <1>1, <2>1
  <2>2. ASSUME NEW t \in Task, Activate(t), gens'[g] = task[t].snap
        PROVE  Honest(gens'[g].rows, gens'[g].ingest)
    BY <2>2 DEF Activate, At, AllHonest, HonestWork
  <2> QED  BY <2>1, <2>2, GensStep DEF WithGen
<1>5. ASSUME NEW u \in Task PROVE HonestWork(u)'
  <2>0. HonestWork(u) /\ task[u].snap \in SnapshotType
    BY FieldTypes DEF AllHonest
  <2>1. CASE task'[u] = Idle
    BY <2>1, IdleFacts DEF HonestWork
  <2>2. CASE Starts(u)
    BY <2>2, StartFields DEF HonestWork
  <2>3. CASE Walks(u)
    BY <2>3 DEF Walks, HonestWork
  <2>4. CASE task'[u].pc = task[u].pc /\ task'[u].snap = task[u].snap /\ task'[u] # Idle
    <3>1. ~Restart
      BY <2>4 DEF Restart
    <3> QED  BY <1>2, <2>0, <2>4, <3>1 DEF HonestWork
  <2>5. CASE Works(u)
    <3>1. CASE ReadIngest(u) /\ task'[u].pc = "index"
               /\ task'[u].snap = [task[u].snap EXCEPT !.ingest = ingest]
      <4>1. task'[u].snap.ingest = ingest /\ rows' = rows
        BY <2>0, <3>1 DEF SnapshotType, ReadIngest
      <4> QED  BY <1>1, <3>1, <4>1 DEF HonestWork
    <3>2. CASE WriteIndex(u) /\ task'[u].pc = "rename"
               /\ task'[u].snap = [task[u].snap EXCEPT !.rows = rows]
      <4>1. task'[u].snap.ingest = task[u].snap.ingest /\ task'[u].snap.rows = rows
        BY <2>0, <3>2 DEF SnapshotType
      <4>2. Honest(rows, task[u].snap.ingest)
        BY <2>0, <3>2 DEF WriteIndex, At, HonestWork
      <4> QED  BY <3>2, <4>1, <4>2 DEF HonestWork
    <3> QED  BY <2>5, <3>1, <3>2 DEF Works, HonestWork
  <2> QED
    BY <2>1, <2>2, <2>3, <2>4, <2>5, TaskStep DEF TaskStepFor, Bystands, Orphaned, SameWork
<1> QED  BY <1>3, <1>4, <1>5 DEF AllHonest

\* TypeOK's bound on the index: rows of plain Adds, and Adds waiting to append.
Plains(seq) == {i \in DOMAIN seq : seq[i] = Plain}
Waiting == {t \in Task : task[t].kind = "plain" /\ task[t].pc \in {"queued", "adding"}}

PlainBound ==
  /\ Cardinality(Plains(rows)) + Cardinality(Waiting) <= MaxRows
  /\ \A q \in Kept : Cardinality(Plains(q)) <= MaxRows

LEMMA PlainsFinite ==
  ASSUME NEW q \in Seq(Entry)
  PROVE  /\ IsFiniteSet(Plains(q)) /\ Cardinality(Plains(q)) \in Nat
         /\ Cardinality(Plains(q)) <= Len(q)
<1>0. Len(q) \in Nat
  OBVIOUS
<1>1. IsFiniteSet(1..Len(q)) /\ Cardinality(1..Len(q)) = Len(q)
  BY <1>0, FS_Interval
<1>2. Plains(q) \subseteq 1..Len(q)
  BY DEF Plains
<1>3. IsFiniteSet(Plains(q)) /\ Cardinality(Plains(q)) <= Cardinality(1..Len(q))
  BY <1>1, <1>2, FS_Subset
<1> QED  BY <1>1, <1>3, FS_CardinalityType

LEMMA PlainsAppend ==
  ASSUME NEW q \in Seq(Entry), NEW x \in Entry
  PROVE  Cardinality(Plains(Append(q, x))) =
           Cardinality(Plains(q)) + IF x = Plain THEN 1 ELSE 0
<1>0. DOMAIN q = 1..Len(q) /\ Len(q) \in Nat
  BY DEF Entry
<1>1. CASE x = Plain
  <2>1. Plains(Append(q, x)) = Plains(q) \union {Len(q) + 1}
    BY <1>0, <1>1 DEF Plains
  <2>2. Len(q) + 1 \notin Plains(q)
    BY <1>0 DEF Plains
  <2>3. Cardinality(Plains(q) \union {Len(q) + 1}) = Cardinality(Plains(q)) + 1
    BY <2>2, PlainsFinite, FS_AddElement
  <2> QED  BY <1>1, <2>1, <2>3
<1>2. CASE x # Plain
  <2>1. Plains(Append(q, x)) = Plains(q)
    BY <1>0, <1>2 DEF Plains
  <2>2. Cardinality(Plains(q)) \in Nat
    BY PlainsFinite
  <2> QED  BY <1>2, <2>1, <2>2
<1> QED  BY <1>1, <1>2

LEMMA PlainInit == Init => PlainBound
<1> SUFFICES ASSUME Init PROVE PlainBound
  OBVIOUS
<1>1. \A q \in Kept : Plains(q) = {}
  BY DEF Init, Kept, NoSnapshot, Idle, Request, Plains
<1>2. Waiting = {}
  BY IdleFacts DEF Init, Waiting
<1>3. rows \in Kept /\ MaxRows \in Nat
  BY BoundAssumption DEF Kept
<1> QED  BY <1>1, <1>2, <1>3, FS_EmptySet DEF PlainBound

LEMMA PlainStep ==
  ASSUME AddsStay, Typed, KindsOK, PlainBound, [Next]_vars
  PROVE  PlainBound'
<1>n. ~RemoveRow /\ MaxRows \in Nat
  BY BoundAssumption DEF AddsStay, RemoveRow
<1>0. rows \in Seq(Entry) /\ Cardinality(Plains(rows)) \in Nat
  BY PlainsFinite DEF Typed
<1>1. IsFiniteSet(Waiting) /\ Cardinality(Waiting) \in Nat
      /\ IsFiniteSet(Waiting') /\ Cardinality(Waiting') \in Nat
  <2>1. Waiting \subseteq Task /\ Waiting' \subseteq Task
    BY DEF Waiting
  <2> QED  BY <2>1, BoundAssumption, FS_Subset, FS_CardinalityType
<1>2. ASSUME NEW u \in Waiting'
      PROVE  \/ u \in Waiting /\ ~AddChunk(u) /\ ~Restart
             \/ StartPlain(u)
  <2>0. u \in Task /\ task'[u].kind = "plain" /\ task'[u].pc \in {"queued", "adding"}
    BY <1>2 DEF Waiting
  <2>1. TaskStepFor(u) /\ ~Restart
    BY <2>0, TaskStep, IdleFacts DEF Restart
  <2>2. CASE AddChunk(u)
    <3>1. End(u) \/ Goto(u, "added")
      BY <2>2 DEF AddChunk
    <3>2. task'[u].pc \in {"idle", "added"}
      <4>1. CASE End(u)
        BY <2>0, <4>1, IdleFacts DEF End, Typed
      <4>2. CASE Goto(u, "added")
        BY <2>0, <4>2, GotoFields
      <4> QED  BY <3>1, <4>1, <4>2
    <3> QED  BY <2>0, <3>2
  <2>3. task'[u] # Idle
    BY <2>0, IdleFacts
  <2>4. CASE Starts(u)
    BY <2>0, <2>4, StartFields
  <2>5. CASE Bystands(u) \/ Orphaned(u)
    BY <2>0, <2>1, <2>2, <2>5 DEF Bystands, Orphaned, SameWho, Waiting
  <2>6. CASE Works(u)
    BY <2>0, <2>1, <2>2, <2>6 DEF Works, SameWho, Waiting, AdmitAdd, At
  <2>7. ~Walks(u)
    BY <2>0 DEF Walks
  <2> QED  BY <2>1, <2>3, <2>4, <2>5, <2>6, <2>7 DEF TaskStepFor
<1>3. CASE \E t \in Task : StartPlain(t)
  <2>1. PICK t \in Task : StartPlain(t)
    BY <1>3
  <2>2. rows' = rows /\ Len(rows) + Cardinality({u \in Task : task[u].kind = "plain"}) < MaxRows
    BY <2>1 DEF StartPlain, memVars
  <2> DEFINE P == {u \in Task : task[u].kind = "plain"}
  <2>3. Cardinality(Waiting') <= Cardinality(P) + 1 /\ Cardinality(P) \in Nat
    <3>1. Waiting' \subseteq P \union {t}
      <4>1. \A u \in Task : u # t => task'[u] = task[u]
        BY <2>1 DEF StartPlain, Typed
      <4> QED  BY <4>1 DEF Waiting
    <3>2. IsFiniteSet(P) /\ Cardinality(P) \in Nat
      BY BoundAssumption, FS_Subset, FS_CardinalityType
    <3> HIDE DEF P
    <3>3. IsFiniteSet(P \union {t}) /\ Cardinality(P \union {t}) <= Cardinality(P) + 1
      <4>1. Cardinality(P \union {t}) =
              IF t \in P THEN Cardinality(P) ELSE Cardinality(P) + 1
        BY <3>2, FS_AddElement
      <4> QED  BY <3>2, <4>1, FS_AddElement
    <3>4. Cardinality(Waiting') <= Cardinality(P \union {t})
      BY <3>1, <3>3, FS_Subset
    <3>5. Cardinality(P \union {t}) \in Nat
      BY <3>3, FS_CardinalityType
    <3> QED  BY <1>1, <3>2, <3>3, <3>4, <3>5
  <2>4. Cardinality(Plains(rows')) + Cardinality(Waiting') <= MaxRows
    <3>1. Cardinality(Plains(rows)) <= Len(rows) /\ Len(rows) \in Nat
      BY <1>0, PlainsFinite
    <3>2. Len(rows) + Cardinality(P) < MaxRows
      BY <2>2
    <3> HIDE DEF P
    <3> QED  BY <1>0, <1>1, <1>n, <2>2, <2>3, <3>1, <3>2
  <2>5. ASSUME NEW q \in Kept' PROVE q \in Kept \union {<<>>}
    <3>1. ~(\E u \in Task : AddChunk(u))
      BY <2>1, <2>2, <1>0, FieldTypes DEF AddChunk
    <3> QED  BY <1>n, <3>1, KeptStep
  <2>6. Cardinality(Plains(<<>>)) = 0
    BY FS_EmptySet DEF Plains
  <2>7. \A q \in Kept' : Cardinality(Plains(q)) <= MaxRows
    BY <1>n, <2>5, <2>6 DEF PlainBound
  <2> HIDE DEF P
  <2> QED  BY <2>4, <2>7 DEF PlainBound
<1>4. CASE ~(\E t \in Task : StartPlain(t))
  <2>1. Waiting' \subseteq Waiting
    BY <1>2, <1>4 DEF Waiting
  <2>2. Cardinality(Waiting') <= Cardinality(Waiting)
    BY <1>1, <2>1, FS_Subset
  <2>3. Cardinality(Plains(<<>>)) = 0
    BY FS_EmptySet DEF Plains
  <2>4. Cardinality(Plains(rows')) + Cardinality(Waiting') <= MaxRows
    <3>1. CASE rows' = rows
      BY <1>0, <1>1, <1>n, <2>2, <3>1 DEF PlainBound
    <3>2. ASSUME NEW t \in Task, AddChunk(t), rows' = Append(rows, task[t].op)
          PROVE  Cardinality(Plains(rows')) + Cardinality(Waiting') <= MaxRows
      <4>0. task[t].op \in Entry /\ task[t].pc = "adding" /\ KindOK(t)
        BY <3>2, FieldTypes DEF AddChunk, At, KindsOK
      <4>1. CASE task[t].op # Plain
        <5>1. Cardinality(Plains(rows')) = Cardinality(Plains(rows))
          BY <1>0, <3>2, <4>0, <4>1, PlainsAppend
        <5> QED  BY <1>0, <1>1, <1>n, <2>2, <5>1 DEF PlainBound
      <4>2. CASE task[t].op = Plain
        <5>1. Cardinality(Plains(rows')) = Cardinality(Plains(rows)) + 1
          BY <1>0, <3>2, <4>0, <4>2, PlainsAppend
        <5>2. task[t].kind = "plain"
          BY <4>0, <4>2, BoundAssumption DEF KindOK, AddSteps
        <5>3. t \in Waiting /\ t \notin Waiting'
          BY <1>2, <1>4, <3>2, <4>0, <5>2 DEF Waiting
        <5>4. /\ Cardinality(Waiting \ {t}) = Cardinality(Waiting) - 1
              /\ IsFiniteSet(Waiting \ {t})
          BY <1>1, <5>3, FS_RemoveElement
        <5>5. Waiting' \subseteq Waiting \ {t}
          BY <2>1, <5>3
        <5>6. Cardinality(Waiting') <= Cardinality(Waiting \ {t})
          BY <5>4, <5>5, FS_Subset
        <5> QED  BY <1>0, <1>1, <1>n, <5>1, <5>4, <5>6 DEF PlainBound
      <4> QED  BY <4>1, <4>2
    <3>3. CASE Restart
      <4>1. Waiting' = {}
        BY <1>2, <1>4, <3>3 DEF Waiting
      <4>2. rows' = <<>> \/ rows' \in Kept
        BY <3>3 DEF Restart, Kept
      <4>3. rows' \in Seq(Entry)
        <5>1. <<>> \in Seq(Entry)
          OBVIOUS
        <5>2. \A q \in Kept : q \in Seq(Entry)
          BY KeptTypes
        <5> QED  BY <4>2, <5>1, <5>2
      <4>4. Cardinality(Plains(rows')) <= MaxRows /\ Cardinality(Plains(rows')) \in Nat
        BY <1>n, <2>3, <4>2, <4>3, PlainsFinite DEF PlainBound
      <4> QED  BY <1>n, <4>1, <4>4, FS_EmptySet
    <3> QED  BY <1>n, <3>1, <3>2, <3>3, MemoryStep
  <2>5. ASSUME NEW q \in Kept' PROVE Cardinality(Plains(q)) <= MaxRows
    <3>1. CASE q \in Kept \union {<<>>}
      BY <1>n, <2>3, <3>1 DEF PlainBound
    <3>2. ASSUME NEW t \in Task, AddChunk(t), q = Append(rows, task[t].op)
          PROVE  Cardinality(Plains(q)) <= MaxRows
      <4>1. q = rows'
        BY <3>2 DEF AddChunk
      <4>2. q \in Seq(Entry)
        BY <1>0, <3>2, FieldTypes
      <4> QED  BY <1>1, <1>n, <2>4, <4>1, <4>2, PlainsFinite
    <3> QED  BY <1>n, <3>1, <3>2, KeptStep
  <2> QED  BY <2>4, <2>5 DEF PlainBound
<1> QED  BY <1>3, <1>4

\* TypeOK follows: a row is a plain Add's or the only one of its operation.
LEMMA RowsBounded ==
  ASSUME Typed, AllPlaced, PlainBound
  PROVE  Len(rows) <= MaxRows + Cardinality(Op)
<1> DEFINE O == {i \in DOMAIN rows : rows[i] \in Op}
<1>0. rows \in Seq(Entry) /\ rows \in Kept /\ Len(rows) \in Nat
      /\ DOMAIN rows = 1..Len(rows)
  BY DEF Typed, Kept
<1>1. IsFiniteSet(DOMAIN rows) /\ Cardinality(DOMAIN rows) = Len(rows)
  <2>1. IsFiniteSet(1..Len(rows)) /\ Cardinality(1..Len(rows)) = Len(rows)
    BY <1>0, FS_Interval
  <2> QED  BY <1>0, <2>1
<1>2. IsFiniteSet(O) /\ Cardinality(O) \in Nat
  BY <1>1, FS_Subset, FS_CardinalityType
<1>3. Cardinality(O) <= Cardinality(Op)
  <2> DEFINE place == [i \in O |-> rows[i]]
  <2>1. place \in Injection(O, Op)
    <3>1. place \in [O -> Op]
      OBVIOUS
    <3>2. ASSUME NEW i \in O, NEW j \in O, place[i] = place[j] PROVE i = j
      <4>1. /\ i \in Int /\ j \in Int /\ rows[i] = rows[j]
            /\ expected[rows[i]] = i - 1 /\ expected[rows[j]] = j - 1
        BY <1>0, <3>2 DEF AllPlaced, Placed
      <4> QED  BY <4>1
    <3> QED  BY <3>1, <3>2 DEF Injection, IsInjective
  <2> QED  BY <1>2, <2>1, BoundAssumption, FS_Injection
<1>4. DOMAIN rows = Plains(rows) \union O /\ Plains(rows) \intersect O = {}
  BY <1>0, BoundAssumption DEF Plains, Entry
<1>5. Cardinality(Plains(rows)) <= MaxRows /\ Cardinality(Plains(rows)) \in Nat
      /\ IsFiniteSet(Plains(rows))
  BY <1>0, PlainsFinite DEF PlainBound
<1>6. Len(rows) = Cardinality(Plains(rows)) + Cardinality(O)
  <2> HIDE DEF O
  <2>1. Cardinality(Plains(rows) \union O) =
          Cardinality(Plains(rows)) + Cardinality(O) - Cardinality(Plains(rows) \intersect O)
    BY <1>2, <1>5, FS_Union
  <2>2. Cardinality(Plains(rows) \intersect O) = 0
    BY <1>4, FS_EmptySet
  <2>3. Cardinality(Plains(rows) \union O) = Len(rows)
    BY <1>1, <1>4
  <2> QED  BY <1>0, <1>2, <1>5, <2>1, <2>2, <2>3
<1>7. Cardinality(Op) \in Nat /\ MaxRows \in Nat
  BY BoundAssumption, FS_CardinalityType
<1> HIDE DEF O
<1> QED  BY <1>2, <1>3, <1>5, <1>6, <1>7

AddInv == Typed /\ KindsOK /\ AddPlaces /\ AllPlaced /\ AllHonest /\ PlainBound

LEMMA AddInvariant == ASSUME AddsStay PROVE Spec => []AddInv
<1>1. Init => AddInv
  BY TypedInit, KindsInit, AddPlaceInit, HonestInit, PlainInit DEF AddInv
<1>2. AddInv /\ [Next]_vars => AddInv'
  BY TypedStep, KindsStep, AddPlaceStep, PlacedStep, HonestStep, PlainStep DEF AddInv
<1> QED  BY <1>1, <1>2, PTL DEF Spec

\* When rows stay and no client leaves an Add: every variable stays in its type
\* and the index within what was asked of it, ...
THEOREM StoreTypeOK == ASSUME AddsStay PROVE Spec => []TypeOK
<1>1. AddInv => TypeOK
  <2> SUFFICES ASSUME AddInv PROVE TypeOK
    OBVIOUS
  <2>1. Typed /\ Len(rows) <= MaxRows + Cardinality(Op)
    BY RowsBounded DEF AddInv
  <2>2. \A t \in Task : /\ task[t].op \in Op \union {Plain} /\ task[t].snap \in SnapshotType
                        /\ task[t].target \in Nat /\ task[t].from \in Nat
                        /\ task[t].temp \in BOOLEAN /\ task[t].orphan \in BOOLEAN
    BY <2>1, FieldTypes DEF Entry
  <2> QED  BY <2>1, <2>2 DEF Typed, TypeOK, Entry
<1> QED  BY <1>1, AddInvariant, PTL

\* ... every generation on disk is honest about its ingest record, whatever
\* flushes, disconnections, failures and restarts do, ...
THEOREM SnapshotsAreHonest == ASSUME AddsStay PROVE Spec => []SnapshotHonest
<1>1. AddInv => SnapshotHonest
  BY DEF AddInv, AllHonest, Honest, SnapshotHonest
<1> QED  BY <1>1, AddInvariant, PTL

\* ... and no operation has two rows, in memory or on disk.
THEOREM NothingAddedTwice == ASSUME AddsStay PROVE Spec => []NoDuplicate
<1>1. AddInv => NoDuplicate
  BY PlacedOnce DEF AddInv
<1> QED  BY <1>1, AddInvariant, PTL
\* The disk: the generation directories, CURRENT, and what it was at the start.
LEMMA GensKept ==
  ASSUME Typed, [Next]_vars
  PROVE  \/ \A g \in DOMAIN gens : g \in DOMAIN gens' /\ gens'[g] = gens[g]
         \/ \E t \in Task : CommitPersist(t)
         \/ \E t \in Task : Tombstone(t)
<1> USE DEF memVars, diskVars, clientVars, envVars
<1>1. ASSUME NEW t \in Task, Activate(t)
      PROVE  \A g \in DOMAIN gens : g \in DOMAIN gens' /\ gens'[g] = gens[g]
  BY <1>1 DEF Activate, WithGen
<1>2. \/ UNCHANGED gens
      \/ \E t \in Task : Activate(t) \/ CommitPersist(t) \/ Tombstone(t)
  BY StoreStep DEF storeVars, Changes, StartAdd, StartShutdown, ReplayAdd, AddChunk,
     RecordIngest, SwitchCurrent, DeleteStep, ForgetGeneration, ForgetIngest,
     ForgetHandle, RemoveRow, Restart
<1> QED  BY <1>1, <1>2

LEMMA CurrentStep ==
  ASSUME [Next]_vars
  PROVE  \/ UNCHANGED current
         \/ \E t \in Task : SwitchCurrent(t) /\ dir /\ current' = task[t].target
         \/ \E t \in Task : Tombstone(t) /\ current' = 0
BY StoreStep DEF memVars, diskVars, clientVars, envVars, storeVars, Changes, StartAdd,
   StartShutdown, ReplayAdd, AddChunk, RecordIngest, Activate, SwitchCurrent,
   CommitPersist, DeleteStep, Tombstone, ForgetGeneration, ForgetIngest, ForgetHandle,
   RemoveRow, Restart

\* Whether the shard is served, and whether its client knows it is dropped.
LEMMA OpenStep ==
  ASSUME [Next]_vars
  PROVE  /\ \/ UNCHANGED open
            \/ Restart /\ open' = (current # 0) /\ UNCHANGED current
            \/ open' = FALSE
         /\ \/ UNCHANGED dropped
            \/ \E t \in Task : ForgetHandle(t) /\ open' = FALSE /\ UNCHANGED current
BY StoreStep DEF memVars, diskVars, clientVars, envVars, storeVars, Changes, StartAdd,
   StartShutdown, ReplayAdd, AddChunk, RecordIngest, Activate, SwitchCurrent,
   CommitPersist, DeleteStep, Tombstone, ForgetGeneration, ForgetIngest, ForgetHandle,
   RemoveRow, Restart

\* What has been acknowledged, and the generation memory believes in.
LEMMA AckedStep ==
  ASSUME [Next]_vars
  PROVE  \/ UNCHANGED acked
         \/ \E t \in Task : (ReplayAdd(t) \/ CommitPersist(t))
                            /\ task[t].kind = "add"
                            /\ acked' = acked \union {task[t].op}
BY StoreStep DEF memVars, diskVars, clientVars, envVars, storeVars, Changes, StartAdd,
   StartShutdown, ReplayAdd, AddChunk, RecordIngest, Activate, SwitchCurrent,
   CommitPersist, DeleteStep, Tombstone, ForgetGeneration, ForgetIngest, ForgetHandle,
   RemoveRow, Restart

LEMMA GenerationStep ==
  ASSUME [Next]_vars
  PROVE  \/ UNCHANGED generation
         \/ \E t \in Task : CommitPersist(t) /\ generation' = task[t].target
         \/ \E t \in Task : ForgetGeneration(t)
         \/ Restart /\ generation' = current
BY StoreStep DEF memVars, diskVars, clientVars, envVars, storeVars, Changes, StartAdd,
   StartShutdown, ReplayAdd, AddChunk, RecordIngest, Activate, SwitchCurrent,
   CommitPersist, DeleteStep, Tombstone, ForgetGeneration, ForgetIngest, ForgetHandle,
   RemoveRow, Restart

--------------------------------------------------------------------------------
(* One persist or delete at a time.                                        *)

Busy(t) == task[t].pc \in PersistSteps \union DeleteSteps
Alone == \A t, u \in Task : Busy(t) /\ Busy(u) => t = u

\* What the request that is alone finds on disk.
OnDisk(t) ==
  /\ task[t].pc \in {"pointer", "commit"} => task[t].target \in DOMAIN gens
  /\ task[t].pc = "commit" => current = task[t].target
  /\ task[t].pc \in DeleteSteps \ {"tombstone"} => current = 0

DiskInv == Restorable /\ \A t \in Task : OnDisk(t)

LEMMA AloneInit == Init => DiskInv
<1> SUFFICES ASSUME Init PROVE DiskInv
  OBVIOUS
<1>1. PICK g \in {0, 1} : current = g /\ gens = [n \in 1..g |-> NoSnapshot]
  BY DEF Init
<1>2. Restorable
  <2>1. DOMAIN gens = 1..g
    BY <1>1
  <2> QED  BY <1>1, <2>1 DEF Restorable
<1>3. \A t \in Task : task[t].pc = "idle"
  BY IdleFacts DEF Init
<1> QED  BY <1>2, <1>3 DEF DiskInv, OnDisk, DeleteSteps

LEMMA AloneStep ==
  ASSUME Typed, KindsOK, Alone, DiskInv, [Next]_vars
  PROVE  DiskInv'
<1> USE DEF memVars, diskVars, clientVars, envVars
\* A step of t on the disk is the only one: no other request is on its way.
<1>a. ASSUME NEW t \in Task, NEW u \in Task, Busy(t), Busy(u) PROVE t = u
  BY <1>a DEF Alone
<1>b. ASSUME NEW t \in Task, CommitPersist(t)
      PROVE  /\ Busy(t) /\ task[t].pc = "commit" /\ UNCHANGED current
             /\ current = task[t].target /\ current \in DOMAIN gens'
             /\ task'[t] = Idle
  <2>1. task[t].pc = "commit" /\ gens' = Cleaned(task[t].target) /\ UNCHANGED current
        /\ End(t)
    BY <1>b DEF CommitPersist, At
  <2>2. current = task[t].target /\ task[t].target \in DOMAIN gens /\ task[t].target \in Nat
    BY <2>1, FieldTypes DEF DiskInv, OnDisk
  <2> QED  BY <2>1, <2>2 DEF Busy, PersistSteps, Cleaned, End, Typed
<1>c. ASSUME NEW t \in Task, Tombstone(t)
      PROVE  /\ Busy(t) /\ task[t].pc = "tombstone" /\ current' = 0
             /\ task'[t].pc \in {"idle", "forget generation"}
  <2>1. task[t].pc = "tombstone" /\ current' = 0
    BY <1>c DEF Tombstone, At
  <2>2. task'[t].pc \in {"idle", "forget generation"}
    <3>1. task'[t] = Idle \/ task'[t] = [task[t] EXCEPT !.pc = "forget generation"]
      BY <1>c DEF Tombstone
    <3>2. [task[t] EXCEPT !.pc = "forget generation"].pc = "forget generation"
      BY FieldTypes DEF RequestType
    <3> QED  BY <3>1, <3>2, IdleFacts
  <2> QED  BY <2>1, <2>2 DEF Busy, DeleteSteps
<1>d. ASSUME NEW t \in Task, SwitchCurrent(t), dir
      PROVE  /\ Busy(t) /\ task[t].pc = "pointer" /\ UNCHANGED gens
             /\ task[t].target \in DOMAIN gens /\ current' = task[t].target
             /\ task'[t].pc = "commit" /\ task'[t].target = task[t].target
  <2>1. /\ task[t].pc = "pointer" /\ UNCHANGED gens /\ current' = task[t].target
        /\ Goto(t, "commit")
    BY <1>d DEF SwitchCurrent, At
  <2> QED
    BY <2>1, GotoFields DEF Busy, PersistSteps, DiskInv, OnDisk, SameWork
<1>1. Restorable'
  <2>1. CASE UNCHANGED current /\ ~(\E t \in Task : CommitPersist(t) \/ Tombstone(t))
    BY <2>1, GensKept DEF DiskInv, Restorable
  <2>2. ASSUME NEW t \in Task, CommitPersist(t) PROVE Restorable'
    BY <1>b, <2>2 DEF Restorable
  <2>3. ASSUME NEW t \in Task, Tombstone(t) PROVE Restorable'
    BY <1>c, <2>3 DEF Restorable
  <2>4. ASSUME NEW t \in Task, SwitchCurrent(t), dir PROVE Restorable'
    BY <1>d, <2>4 DEF Restorable
  <2> QED  BY <2>1, <2>2, <2>3, <2>4, CurrentStep
<1>2. ASSUME NEW u \in Task PROVE OnDisk(u)'
  <2>0. OnDisk(u)
    BY DEF DiskInv
  <2>1. CASE task'[u] = Idle
    BY <2>1, IdleFacts DEF OnDisk, DeleteSteps
  <2>2. CASE Starts(u)
    BY <2>2, StartFields DEF OnDisk, DeleteSteps
  \* A request that keeps its place: the disk under it is touched by nobody else.
  <2>3. CASE /\ task'[u].pc = task[u].pc /\ task'[u].target = task[u].target
             /\ task'[u] # Idle
    <3>1. CASE Busy(u)
      <4>1. ASSUME NEW t \in Task, CommitPersist(t) PROVE FALSE
        BY <1>a, <1>b, <2>3, <3>1, <4>1
      <4>2. ASSUME NEW t \in Task, Tombstone(t) PROVE FALSE
        BY <1>a, <1>c, <2>3, <3>1, <4>2
      <4>3. ASSUME NEW t \in Task, SwitchCurrent(t), dir PROVE FALSE
        BY <1>a, <1>d, <2>3, <3>1, <4>3
      <4>4. UNCHANGED current
        BY <4>2, <4>3, CurrentStep
      <4> QED  BY <2>0, <2>3, <4>1, <4>2, <4>4, GensKept DEF OnDisk
    <3>2. CASE ~Busy(u)
      BY <2>3, <3>2 DEF OnDisk, Busy, PersistSteps, DeleteSteps
    <3> QED  BY <3>1, <3>2
  <2>4. CASE Walks(u)
    <3>1. CASE Activate(u) /\ task[u].temp /\ task[u].target \notin DOMAIN gens
               /\ task'[u].pc = "pointer"
      <4>1. gens' = WithGen(task[u].target, task[u].snap)
        BY <3>1 DEF Activate
      <4>2. task'[u].target = task[u].target
        BY <2>4 DEF Walks, SameWork
      <4> QED  BY <3>1, <4>1, <4>2 DEF OnDisk, WithGen, DeleteSteps
    <3>2. CASE SwitchCurrent(u) /\ dir /\ task'[u].pc = "commit"
      BY <1>d, <3>2 DEF OnDisk, DeleteSteps
    <3>3. CASE Tombstone(u) /\ task'[u].pc = "forget generation"
      BY <1>c, <3>3 DEF OnDisk
    <3>4. CASE \/ ForgetGeneration(u) /\ task'[u].pc = "forget ingest"
               \/ ForgetIngest(u) /\ task'[u].pc = "forget handle"
      <4>1. UNCHANGED current
        BY <3>4 DEF ForgetGeneration, ForgetIngest
      <4>2. task[u].pc \in DeleteSteps \ {"tombstone"}
        BY <3>4 DEF ForgetGeneration, ForgetIngest, At, DeleteSteps
      <4> QED  BY <2>0, <3>4, <4>1, <4>2 DEF OnDisk
    <3> QED
      BY <2>4, <3>1, <3>2, <3>3, <3>4 DEF Walks, OnDisk, DeleteSteps
  <2>5. CASE Works(u)
    BY <2>5 DEF Works, OnDisk, DeleteSteps
  <2> QED
    BY <2>1, <2>2, <2>3, <2>4, <2>5, TaskStep DEF TaskStepFor, Bystands, Orphaned, SameWork
<1> QED  BY <1>1, <1>2 DEF DiskInv

StoreInv == Typed /\ KindsOK

LEMMA AloneInvariant == Spec /\ []Alone => []DiskInv
<1>1. DiskInv /\ StoreInv /\ Alone /\ [Next]_vars => DiskInv'
  BY AloneStep DEF StoreInv
<1>2. Spec => []StoreInv
  BY StoreTyped DEF StoreInv
<1> QED  BY <1>1, <1>2, AloneInit, PTL DEF Spec

\* While persists and deletes do not overlap, CURRENT names a generation that is
\* there at every crash point.
THEOREM AloneRestorable == Spec /\ []Alone => []Restorable
<1>1. DiskInv => Restorable
  BY DEF DiskInv
<1> QED  BY <1>1, AloneInvariant, PTL

--------------------------------------------------------------------------------
(* The mutation lock.  When no client leaves an Add, an Add holds the lock  *)
(* from its admission to its end.                                          *)

NoAddLeaves == "add" \notin Cancels /\ "plain" \notin Cancels

Holds(t) ==
  task[t].kind \in {"add", "plain"} =>
    ~task[t].orphan /\ (task[t].pc # "queued" => lock = t)
KindAsked(t) == task[t].kind \in Kinds \union {"none"}

LEMMA LockInvariant == ASSUME NoAddLeaves PROVE Spec => [](\A t \in Task : Holds(t))
<1> DEFINE LockInv == \A t \in Task : Holds(t)
<1>1. Init => LockInv
  BY IdleFacts DEF Init, Holds
<1>2. ASSUME LockInv, StoreInv, [Next]_vars PROVE LockInv'
  <2> SUFFICES ASSUME NEW u \in Task, task'[u].kind \in {"add", "plain"}
               PROVE  ~task'[u].orphan /\ (task'[u].pc # "queued" => lock' = u)
    BY DEF Holds
  <2>0. Typed /\ KindsOK /\ Holds(u) /\ KindOK(u)
    BY <1>2 DEF StoreInv, KindsOK
  <2>1. task'[u] # Idle /\ TaskStepFor(u) /\ ~Restart
    BY <1>2, <2>0, TaskStep, IdleFacts DEF Restart
  <2>2. CASE Starts(u)
    BY <2>2, StartFields
  <2>3. ASSUME task'[u].kind = task[u].kind PROVE ~Cancel(u)
    BY <2>3 DEF Cancel, NoAddLeaves
  <2>4. CASE AdmitAdd(u) /\ SameWho(u)
    BY <2>0, <2>4 DEF AdmitAdd, SameWho, Holds
  <2>5. CASE RepersistAdd(u) /\ SameWho(u)
    BY <2>0, <2>5 DEF RepersistAdd, SameWho, Holds
  <2>6. CASE SameWho(u) /\ (task'[u].pc = task[u].pc \/ task[u].pc # "queued")
    <3>1. task'[u].kind = task[u].kind /\ task'[u].orphan = task[u].orphan
      BY <2>6 DEF SameWho
    <3>2. CASE task[u].pc = "queued" /\ task'[u].pc = "queued"
      BY <2>0, <3>1, <3>2 DEF Holds
    <3>3. CASE task[u].pc # "queued"
      <4>1. lock = u /\ ~Cancel(u)
        BY <2>0, <2>3, <3>1, <3>3 DEF Holds
      <4>2. lock' = u
        BY <1>2, <2>0, <2>1, <4>1, LockStep, BoundAssumption
      <4> QED  BY <2>0, <3>1, <4>2 DEF Holds
    <3> QED  BY <2>6, <3>2, <3>3
  <2>7. ~Orphaned(u)
    BY <2>3 DEF Orphaned
  <2>8. CASE Bystands(u)
    BY <2>6, <2>8 DEF Bystands
  <2>9. CASE Walks(u)
    BY <2>5, <2>6, <2>9
       DEF Walks, AddChunk, RecordIngest, Activate, SwitchCurrent, Tombstone,
           ForgetGeneration, ForgetIngest, At
  <2>10. CASE Works(u)
    BY <2>4, <2>6, <2>10
       DEF Works, BeginPersist, MakeTemp, ReadIngest, WriteIndex, At
  <2> QED  BY <2>1, <2>2, <2>7, <2>8, <2>9, <2>10 DEF TaskStepFor
<1>3. Spec => []StoreInv
  BY StoreTyped DEF StoreInv
<1> HIDE DEF LockInv
<1>4. Spec => []LockInv
  BY <1>1, <1>2, <1>3, PTL DEF Spec
<1> QED  BY <1>4 DEF LockInv

\* Requests are of the kinds that are asked for.
LEMMA KindsAsked == Spec => [](\A t \in Task : KindAsked(t))
<1> DEFINE KInv == \A t \in Task : KindAsked(t)
<1>1. Init => KInv
  BY IdleFacts DEF Init, KindAsked
<1>2. ASSUME KInv, StoreInv, [Next]_vars PROVE KInv'
  <2> SUFFICES ASSUME NEW u \in Task PROVE task'[u].kind \in Kinds \union {"none"}
    BY DEF KindAsked
  <2>1. TaskStepFor(u) /\ task[u].kind \in Kinds \union {"none"}
    BY <1>2, TaskStep DEF StoreInv, KindAsked
  <2>2. CASE Starts(u)
    BY <2>2, StartFields
       DEF StartAdd, StartPlain, StartFlush, StartDelete, StartShutdown
  <2>3. CASE task'[u] = Idle
    BY <2>3, IdleFacts
  <2> QED
    BY <2>1, <2>2, <2>3 DEF TaskStepFor, Bystands, Orphaned, Walks, Works, SameWho
<1>3. Spec => []StoreInv
  BY StoreTyped DEF StoreInv
<1> HIDE DEF KInv
<1>4. Spec => []KInv
  BY <1>1, <1>2, <1>3, PTL DEF Spec
<1> QED  BY <1>4 DEF KInv

AddsOnly == Kinds \subseteq {"add", "plain"} /\ Cancels = {}
OneTask == \A t, u \in Task : t = u

\* Adds alone never overlap: the mutation lock keeps their persists apart.
LEMMA AddsAreAlone == ASSUME AddsOnly PROVE Spec => []Alone
<1>1. NoAddLeaves
  BY DEF AddsOnly, NoAddLeaves
<1>2. (\A t \in Task : Holds(t)) /\ (\A t \in Task : KindAsked(t)) /\ StoreInv => Alone
  <2> SUFFICES ASSUME \A t \in Task : Holds(t), \A t \in Task : KindAsked(t), StoreInv,
                      NEW t \in Task, Busy(t)
               PROVE  lock = t
    BY DEF Alone
  <2>1. KindOK(t) /\ KindAsked(t) /\ Holds(t)
    BY DEF StoreInv, KindsOK
  <2>2. task[t].pc # "idle" /\ task[t].pc # "queued"
    BY DEF Busy, PersistSteps, DeleteSteps
  <2>3. task[t].kind # "none"
    BY <2>1, <2>2 DEF KindOK
  <2> QED  BY <2>1, <2>2, <2>3 DEF KindAsked, Holds, AddsOnly
<1>3. Spec => []StoreInv
  BY StoreTyped DEF StoreInv
<1> QED  BY <1>1, <1>2, <1>3, LockInvariant, KindsAsked, PTL

\* One request at a time, of every kind, with disconnects, failures and crashes.
THEOREM OneTaskRestorable == ASSUME OneTask PROVE Spec => []Restorable
<1>1. []Alone
  <2>1. Alone
    BY DEF Alone, OneTask
  <2> QED  BY <2>1, PTL
<1> QED  BY <1>1, AloneRestorable, PTL

\* Adds under the mutation lock, any number of them at once.
THEOREM AddsRestorable == ASSUME AddsOnly PROVE Spec => []Restorable
BY AddsAreAlone, AloneRestorable, PTL

--------------------------------------------------------------------------------
(* A removed row and the retry of the operation that added it.             *)

Adding(t) == task[t].pc \in {"adding", "added"}
AddsAlone == \A t, u \in Task : Adding(t) /\ Adding(u) => t = u

\* The record does not name the operation being added.
Unrecorded == \A t \in Task :
  task[t].pc = "adding" /\ task[t].kind = "add" => ingest.op # task[t].op
NotStopping == ~stopping

LEMMA UnrecordedStep ==
  ASSUME StoreInv, AddsAlone, Unrecorded, [Next]_vars
  PROVE  Unrecorded'
<1> USE DEF memVars, diskVars, clientVars, envVars
<1> SUFFICES ASSUME NEW u \in Task, task'[u].pc = "adding", task'[u].kind = "add"
             PROVE  ingest'.op # task'[u].op
  BY DEF Unrecorded
<1>0. Typed /\ KindsOK
  BY DEF StoreInv
<1>1. TaskStepFor(u) /\ task'[u] # Idle /\ ~Restart
  BY <1>0, TaskStep, IdleFacts DEF Restart
<1>2. ~Starts(u)
  BY StartFields
<1>3. CASE Bystands(u) \/ Orphaned(u)
  <2>1. task[u].pc = "adding" /\ task[u].kind = "add" /\ task'[u].op = task[u].op
    BY <1>3 DEF Bystands, Orphaned, SameWho
  <2>2. task[u].op \in Op /\ ingest.op # task[u].op
    BY <1>0, <2>1 DEF Unrecorded, KindsOK, KindOK
  <2>3. ASSUME NEW t \in Task, RecordIngest(t) PROVE FALSE
    BY <2>1, <2>3 DEF AddsAlone, Adding, RecordIngest, At
  <2>4. ingest' = ingest \/ ingest' = NoIngest
    BY <1>1, <2>3, IngestStep
  <2> QED  BY <2>1, <2>2, <2>4, BoundAssumption DEF NoIngest
<1>4. CASE Works(u)
  <2>1. AdmitAdd(u) /\ task'[u].op = task[u].op /\ task[u].kind = "add"
    BY <1>4 DEF Works, SameWho
  <2> QED  BY <2>1 DEF AdmitAdd, Admissible, Recorded
<1>5. ~Walks(u)
  BY DEF Walks
<1> QED  BY <1>1, <1>2, <1>3, <1>4, <1>5 DEF TaskStepFor

LEMMA NoStop == ASSUME "shutdown" \notin Kinds PROVE Spec => []NotStopping
<1>1. Init => NotStopping
  BY DEF Init, NotStopping
<1>2. NotStopping /\ [Next]_vars => NotStopping'
  BY StoreStep DEF NotStopping, memVars, diskVars, clientVars, envVars, storeVars, Changes,
     StartAdd, StartShutdown, ReplayAdd, AddChunk, RecordIngest, Activate, SwitchCurrent,
     CommitPersist, DeleteStep, Tombstone, ForgetGeneration, ForgetIngest, ForgetHandle,
     RemoveRow, Restart
<1> QED  BY <1>1, <1>2, PTL DEF Spec

RowStaysOut(op) ==
  ingest.op = op /\ ingest'.op = op /\ op \notin ToSet(rows) /\ crashes' = crashes
    => op \notin ToSet(rows')

LEMMA RemovedStep ==
  ASSUME StoreInv, Unrecorded, NotStopping, [Next]_vars, NEW op \in Op
  PROVE  RowStaysOut(op)
<1> SUFFICES ASSUME ingest.op = op, op \notin ToSet(rows), crashes' = crashes
             PROVE  op \notin ToSet(rows')
  BY DEF RowStaysOut
<1>0. rows \in Seq(Entry) /\ crashes \in Nat /\ KindsOK /\ Typed
  BY DEF StoreInv, Typed
<1>1. ~Restart
  BY <1>0 DEF Restart, NotStopping
<1>2. CASE UNCHANGED rows
  BY <1>2
<1>3. ASSUME NEW t \in Task, AddChunk(t), rows' = Append(rows, task[t].op)
      PROVE  op \notin ToSet(rows')
  <2>1. task[t].pc = "adding" /\ task[t].op \in Entry
    BY <1>0, <1>3, FieldTypes DEF AddChunk, At
  <2>2. task[t].op # op
    <3>1. CASE task[t].kind = "add"
      BY <2>1, <3>1 DEF Unrecorded
    <3>2. CASE task[t].kind = "plain"
      BY <1>0, <3>2, BoundAssumption DEF KindsOK, KindOK
    <3> QED  BY <1>0, <2>1, <3>1, <3>2 DEF KindsOK, KindOK, AddSteps
  <2> QED  BY <1>0, <1>3, <2>1, <2>2 DEF ToSet
<1>4. CASE RemoveRow
  <2>1. PICK i \in DOMAIN rows : rows' = RemoveAt(rows, i)
    BY <1>4 DEF RemoveRow
  <2>2. \A j \in DOMAIN rows' : rows'[j] \in ToSet(rows)
    <3> DEFINE a == SubSeq(rows, 1, i - 1)
               b == SubSeq(rows, i + 1, Len(rows))
    <3>1. i \in 1..Len(rows) /\ Len(rows) \in Nat
      BY <1>0
    <3>2. /\ a \in Seq(Entry) /\ Len(a) = i - 1
          /\ \A j \in 1..(i - 1) : a[j] = rows[j]
      BY <1>0, <3>1
    <3>3. /\ b \in Seq(Entry) /\ Len(b) = Len(rows) - i
          /\ \A j \in 1..(Len(rows) - i) : b[j] = rows[j + i]
      BY <1>0, <3>1
    <3>4. rows' = a \o b
      BY <2>1 DEF RemoveAt
    <3> HIDE DEF a, b
    <3>5. ASSUME NEW j \in DOMAIN rows' PROVE \E k \in DOMAIN rows : rows'[j] = rows[k]
      <4>1. j \in 1..(Len(a) + Len(b))
        BY <3>2, <3>3, <3>4
      <4>2. CASE j <= Len(a)
        <5>1. rows'[j] = a[j] /\ j \in 1..(i - 1)
          BY <3>1, <3>2, <3>3, <3>4, <4>1, <4>2
        <5>2. rows'[j] = rows[j] /\ j \in DOMAIN rows
          BY <3>1, <3>2, <5>1
        <5> QED  BY <5>2
      <4>3. CASE j > Len(a)
        <5>1. rows'[j] = b[j - Len(a)]
          BY <3>2, <3>3, <3>4, <4>1, <4>3
        <5>0. j \in Nat /\ j <= Len(a) + Len(b) /\ Len(a) \in Nat /\ Len(b) \in Nat
          BY <3>2, <3>3, <4>1
        <5>2. j - Len(a) \in 1..(Len(rows) - i)
          BY <3>1, <3>3, <4>3, <5>0
        <5>3. rows'[j] = rows[(j - Len(a)) + i] /\ (j - Len(a)) + i \in DOMAIN rows
          BY <3>1, <3>3, <5>1, <5>2
        <5> QED  BY <5>3
      <4> QED  BY <3>1, <3>2, <4>1, <4>2, <4>3
    <3>6. \A j \in DOMAIN rows' : \E k \in DOMAIN rows : rows'[j] = rows[k]
      BY <3>5
    <3> QED  BY <3>6 DEF ToSet
  <2> QED  BY <2>2 DEF ToSet
<1> QED  BY <1>1, <1>2, <1>3, <1>4, MemoryStep

\* A removed row is not brought back by a retry, as long as one Add at a time is
\* between its admission and its record and the process does not exit.
THEOREM RemovedRowsStay ==
  ASSUME "shutdown" \notin Kinds PROVE Spec /\ []AddsAlone => RemovedStays
<1>1. Init => Unrecorded
  BY IdleFacts DEF Init, Unrecorded
<1>2. Unrecorded /\ StoreInv /\ AddsAlone /\ [Next]_vars => Unrecorded'
  BY UnrecordedStep
<1>3. StoreInv /\ Unrecorded /\ NotStopping /\ [Next]_vars
        => [\A op \in Op :
              ingest.op = op /\ ingest'.op = op /\ op \notin ToSet(rows) /\ crashes' = crashes
                => op \notin ToSet(rows')]_vars
  BY RemovedStep DEF RowStaysOut
<1>4. Spec => []StoreInv
  BY StoreTyped DEF StoreInv
<1> QED  BY <1>1, <1>2, <1>3, <1>4, NoStop, PTL DEF Spec, RemovedStays

\* The mutation lock gives that when no client leaves an Add, ...
THEOREM LockedRowsStay ==
  ASSUME "shutdown" \notin Kinds, NoAddLeaves PROVE Spec => RemovedStays
<1>1. (\A t \in Task : Holds(t)) /\ StoreInv => AddsAlone
  BY DEF StoreInv, KindsOK, KindOK, Holds, AddsAlone, Adding, AddSteps
<1>2. Spec => []StoreInv
  BY StoreTyped DEF StoreInv
<1> QED  BY <1>1, <1>2, LockInvariant, RemovedRowsStay, PTL

\* ... and a single request at a time does, whoever leaves.
THEOREM OneTaskRowsStay ==
  ASSUME "shutdown" \notin Kinds, OneTask PROVE Spec => RemovedStays
<1>1. []AddsAlone
  <2>1. AddsAlone
    BY DEF AddsAlone, OneTask
  <2> QED  BY <2>1, PTL
<1> QED  BY <1>1, RemovedRowsStay, PTL
--------------------------------------------------------------------------------
(* What is durable only grows, and what is acknowledged is durable.  This   *)
(* holds while rows stay and persists do not overlap: without the second, a *)
(* slow persist can bring an older generation back.                        *)

\* IsPrefix, element by element.
Begins(s, t) == Len(s) <= Len(t) /\ \A i \in 1..Len(s) : s[i] = t[i]

LEMMA BeginsRefl == ASSUME NEW s \in Seq(Entry) PROVE Begins(s, s)
BY DEF Begins

LEMMA BeginsTrans ==
  ASSUME NEW s \in Seq(Entry), NEW t \in Seq(Entry), NEW v \in Seq(Entry),
         Begins(s, t), Begins(t, v)
  PROVE  Begins(s, v)
<1>1. Len(s) \in Nat /\ Len(t) \in Nat /\ Len(v) \in Nat
  OBVIOUS
<1> QED  BY <1>1 DEF Begins

LEMMA BeginsAppend ==
  ASSUME NEW s \in Seq(Entry), NEW x \in Entry
  PROVE  Begins(s, Append(s, x))
<1>1. Len(s) \in Nat
  OBVIOUS
<1> QED  BY <1>1 DEF Begins

LEMMA BeginsSet ==
  ASSUME NEW s \in Seq(Entry), NEW t \in Seq(Entry), Begins(s, t)
  PROVE  ToSet(s) \subseteq ToSet(t)
<1>1. DOMAIN s = 1..Len(s) /\ DOMAIN t = 1..Len(t) /\ Len(s) \in Nat /\ Len(t) \in Nat
  OBVIOUS
<1> QED  BY <1>1 DEF Begins, ToSet

LEMMA BeginsPrefix ==
  ASSUME NEW s \in Seq(Entry), NEW t \in Seq(Entry), Begins(s, t)
  PROVE  IsPrefix(s, t)
<1>1. Len(s) \in Nat /\ Len(t) \in Nat /\ Len(s) <= Len(t)
  BY DEF Begins
<1>2. /\ SubSeq(s, 1, Len(s)) \in Seq(Entry) /\ SubSeq(t, 1, Len(s)) \in Seq(Entry)
      /\ Len(SubSeq(s, 1, Len(s))) = Len(s) /\ Len(SubSeq(t, 1, Len(s))) = Len(s)
      /\ \A i \in 1..Len(s) : SubSeq(s, 1, Len(s))[i] = s[i]
      /\ \A i \in 1..Len(s) : SubSeq(t, 1, Len(s))[i] = t[i]
  BY <1>1
<1> DEFINE a == SubSeq(s, 1, Len(s))
           b == SubSeq(t, 1, Len(s))
<1>3. a = b
  <2>1. a \in Seq(Entry) /\ b \in Seq(Entry) /\ Len(a) = Len(b)
        /\ \A i \in 1..Len(a) : a[i] = b[i]
    BY <1>2 DEF Begins
  <2> HIDE DEF a, b
  <2> QED  BY <2>1
<1> QED  BY <1>1, <1>3 DEF IsPrefix

\* What a persist will make durable: nothing durable is lost, and its own row,
\* the row of the ingest record, and what the exit found, are there.
Reach(t, seq) ==
  /\ task[t].kind = "add" => task[t].op \in ToSet(seq)
  /\ task[t].kind = "shutdown" => task[t].from <= Len(seq)
  /\ ingest.op \in Op => ingest.op \in ToSet(seq)

Span(t, seq) == Begins(durable, seq) /\ Begins(seq, rows) /\ Reach(t, seq)

Saving(t) ==
  /\ task[t].pc \in PersistSteps => Reach(t, rows)
  /\ task[t].pc = "rename" => Span(t, task[t].snap.rows)
  /\ task[t].pc = "pointer" => Span(t, gens[task[t].target].rows)
  /\ task[t].pc = "commit" => Reach(t, durable)

PromiseInv ==
  /\ Begins(durable, rows)
  /\ acked \subseteq ToSet(durable)
  /\ ingest.op \in Op /\ ingest.generation = generation => ingest.op \in ToSet(durable)
  /\ \A t \in Task : Saving(t)

NoDeletes == \A t \in Task : task[t].kind # "delete"

LEMMA DurableType == ASSUME Typed PROVE durable \in Seq(Entry)
BY DEF Typed, SnapshotType, Entry, durable

LEMMA PromiseInit == Init => PromiseInv
<1> SUFFICES ASSUME Init PROVE PromiseInv
  OBVIOUS
<1>1. durable = <<>> /\ rows = <<>>
  BY DEF Init, durable, NoSnapshot
<1>2. Begins(durable, rows)
  BY <1>1 DEF Begins
<1>3. acked = {} /\ ingest.op \notin Op
  BY BoundAssumption DEF Init, NoIngest
<1>4. \A t \in Task : task[t].pc = "idle"
  BY IdleFacts DEF Init
<1> QED  BY <1>2, <1>3, <1>4 DEF PromiseInv, Saving, PersistSteps

\* What is durable changes when CURRENT is switched, and only then.
LEMMA DurableStep ==
  ASSUME StoreInv, StoreInv', Alone, DiskInv, NoDeletes, [Next]_vars
  PROVE  \/ durable' = durable
         \/ \E t \in Task : /\ SwitchCurrent(t) /\ dir
                            /\ durable' = gens[task[t].target].rows
<1>0. Typed /\ Typed' /\ KindsOK
  BY DEF StoreInv
<1>t. ASSUME NEW t \in Task PROVE ~Tombstone(t)
  <2>1. KindOK(t) /\ task[t].kind # "delete"
    BY <1>0 DEF KindsOK, NoDeletes
  <2> QED  BY <2>1 DEF Tombstone, At, KindOK, DeleteSteps
<1>1. ASSUME NEW t \in Task, SwitchCurrent(t), dir
      PROVE  durable' = gens[task[t].target].rows
  <2>1. current' = task[t].target /\ gens' = gens /\ task[t].target \in DOMAIN gens
    BY <1>1 DEF SwitchCurrent, At, DiskInv, OnDisk
  <2> QED  BY <2>1 DEF durable
<1>2. CASE UNCHANGED current
  <2>1. CASE current = 0
    <3>1. 0 \notin DOMAIN gens /\ 0 \notin DOMAIN gens'
      BY <1>0 DEF Typed
    <3> QED  BY <1>2, <2>1, <3>1 DEF durable
  <2>2. CASE current # 0
    <3>1. current \in DOMAIN gens
      BY <2>2 DEF DiskInv, Restorable
    <3>2. CASE \A g \in DOMAIN gens : g \in DOMAIN gens' /\ gens'[g] = gens[g]
      BY <1>2, <3>1, <3>2 DEF durable
    <3>3. ASSUME NEW t \in Task, CommitPersist(t) PROVE durable' = durable
      <4>1. /\ current = task[t].target /\ gens' = Cleaned(task[t].target)
            /\ task[t].target \in Nat
        BY <1>0, <3>3, FieldTypes DEF CommitPersist, At, DiskInv, OnDisk
      <4>2. current \in DOMAIN gens' /\ gens'[current] = gens[current]
        BY <3>1, <4>1 DEF Cleaned
      <4> QED  BY <1>2, <3>1, <4>2 DEF durable
    <3> QED  BY <1>0, <1>t, <3>2, <3>3, GensKept
  <2> QED  BY <2>1, <2>2
<1> QED  BY <1>t, <1>1, <1>2, CurrentStep

LEMMA RecordedRow ==
  ASSUME Typed, AllHonest, ingest.op \in Op
  PROVE  ingest.op \in ToSet(rows)
<1>1. ingest # NoIngest
  BY BoundAssumption DEF NoIngest
<1> QED  BY <1>1 DEF AllHonest, Honest, ToSet

LEMMA RowsGrow ==
  ASSUME Typed, ~RemoveRow, ~Restart, [Next]_vars
  PROVE  Begins(rows, rows') /\ Len(rows) <= Len(rows') /\ ToSet(rows) \subseteq ToSet(rows')
<1>1. rows \in Seq(Entry) /\ rows' \in Seq(Entry) /\ Begins(rows, rows')
  <2>1. CASE rows' = rows
    BY <2>1, BeginsRefl DEF Typed
  <2>2. ASSUME NEW t \in Task, rows' = Append(rows, task[t].op)
        PROVE  rows' \in Seq(Entry) /\ Begins(rows, rows')
    <3>1. task[t].op \in Entry /\ rows \in Seq(Entry)
      BY FieldTypes DEF Typed
    <3> QED  BY <2>2, <3>1, BeginsAppend
  <2> QED  BY <2>1, <2>2, MemoryStep DEF Typed
<1> QED  BY <1>1, BeginsSet DEF Begins

LEMMA SavingStep ==
  ASSUME AddsStay, AddInv, AddInv', Alone, Alone', DiskInv, DiskInv', NoDeletes,
         PromiseInv, [Next]_vars, NEW u \in Task
  PROVE  Saving(u)'
<1> USE DEF memVars, diskVars, clientVars, envVars
<1>0. /\ StoreInv /\ StoreInv' /\ Typed /\ Typed' /\ KindsOK /\ AllHonest /\ AllHonest'
      /\ AddPlaces /\ Saving(u)
  BY DEF AddInv, StoreInv, PromiseInv
<1>n. ~RemoveRow
  BY DEF AddsStay, RemoveRow
<1>s. /\ durable \in Seq(Entry) /\ rows \in Seq(Entry) /\ rows' \in Seq(Entry)
      /\ task[u].op \in Entry /\ task[u].from \in Nat /\ task[u].target \in Nat
      /\ task[u].snap \in SnapshotType /\ task[u].snap.rows \in Seq(Entry)
      /\ \A g \in DOMAIN gens : gens[g].rows \in Seq(Entry)
  BY <1>0, DurableType, FieldTypes DEF Typed, SnapshotType, Entry
<1> SUFFICES ASSUME task'[u].pc \in PersistSteps
             PROVE  Saving(u)'
  BY DEF Saving, PersistSteps
<1>1. ~Restart /\ task'[u] # Idle /\ TaskStepFor(u)
  BY <1>0, TaskStep, IdleFacts DEF Restart, PersistSteps
<1>2. Begins(rows, rows') /\ Len(rows) <= Len(rows') /\ ToSet(rows) \subseteq ToSet(rows')
  BY <1>0, <1>1, <1>n, RowsGrow
<1>3. ingest'.op \in Op => ingest'.op \in ToSet(rows')
  BY <1>0, BoundAssumption DEF AllHonest, Honest, ToSet, NoIngest
\* While u is on its way no other Add writes its record.
<1>4. CASE task[u].pc \in PersistSteps
  <2>1. ASSUME NEW t \in Task, RecordIngest(t), task[t].kind = "add" PROVE FALSE
    <3>1. task[t].pc = "added" /\ Goto(t, "begin")
      BY <2>1 DEF RecordIngest, At
    <3>2. task'[t].pc = "begin"
      BY <1>0, <3>1, GotoFields
    <3>3. t = u
      BY <3>2 DEF Alone, Busy, PersistSteps
    <3> QED  BY <1>4, <3>1, <3>3 DEF PersistSteps
  <2>2. ingest' = ingest \/ ingest' = NoIngest
    BY <1>1, <2>1, IngestStep
  <2>3. ingest'.op \in Op => ingest'.op = ingest.op
    BY <2>2, BoundAssumption DEF NoIngest
  <2>4. ~Starts(u) /\ ~AdmitAdd(u) /\ ~RepersistAdd(u) /\ ~AddChunk(u) /\ ~RecordIngest(u)
        /\ ~Tombstone(u) /\ ~ForgetGeneration(u) /\ ~ForgetIngest(u)
    BY <1>4 DEF Starts, StartAdd, StartPlain, StartFlush, StartDelete, StartShutdown,
       Accepts, AdmitAdd, RepersistAdd, AddChunk, RecordIngest, Tombstone,
       ForgetGeneration, ForgetIngest, At, PersistSteps
  <2>5. /\ task'[u].kind = task[u].kind /\ task'[u].op = task[u].op
        /\ task'[u].from = task[u].from
    BY <1>1, <2>4 DEF TaskStepFor, Bystands, Orphaned, Walks, Works, SameWho, SameWork
  <2>6. ASSUME NEW seq \in Seq(Entry), NEW more \in Seq(Entry), Begins(seq, more), Reach(u, seq)
        PROVE  /\ task'[u].kind = "add" => task'[u].op \in ToSet(more)
               /\ task'[u].kind = "shutdown" => task'[u].from <= Len(more)
               /\ ingest'.op \in Op => ingest'.op \in ToSet(more)
    <3>1. ToSet(seq) \subseteq ToSet(more) /\ Len(seq) <= Len(more)
          /\ Len(seq) \in Nat /\ Len(more) \in Nat
      BY <2>6, BeginsSet DEF Begins
    <3> QED  BY <1>s, <2>3, <2>5, <2>6, <3>1 DEF Reach
  <2>7. ASSUME NEW seq \in Seq(Entry), Reach(u, seq) PROVE Reach(u, seq)'
    BY <2>6, <2>7, BeginsRefl DEF Reach
  <2>8. Reach(u, rows)'
    BY <1>0, <1>2, <1>4, <1>s, <2>6 DEF Saving, Reach
  \* Its step but for switching CURRENT leaves what is durable.
  <2>9. task[u].pc # "pointer" \/ task'[u].pc = task[u].pc => durable' = durable
    <3>1. ASSUME NEW t \in Task, SwitchCurrent(t), dir
          PROVE  t = u /\ task[u].pc = "pointer" /\ task'[u].pc = "commit"
      <4>1. task[t].pc = "pointer" /\ Goto(t, "commit")
        BY <3>1 DEF SwitchCurrent, At
      <4>2. t = u
        BY <1>4, <4>1 DEF Alone, Busy, PersistSteps
      <4> QED  BY <1>0, <4>1, <4>2, GotoFields
    <3> QED  BY <1>0, <3>1, DurableStep
  <2>10. ASSUME NEW seq \in Seq(Entry), Span(u, seq), durable' = durable
         PROVE  /\ Begins(durable', seq) /\ Begins(seq, rows')
                /\ task'[u].kind = "add" => task'[u].op \in ToSet(seq)
                /\ task'[u].kind = "shutdown" => task'[u].from <= Len(seq)
                /\ ingest'.op \in Op => ingest'.op \in ToSet(seq)
    <3>1. Begins(seq, rows')
      BY <1>2, <1>s, <2>10, BeginsTrans DEF Span
    <3> QED  BY <2>6, <2>10, <3>1, BeginsRefl DEF Span
  <2>11. CASE task'[u].pc = task[u].pc
              /\ task'[u].snap = task[u].snap /\ task'[u].target = task[u].target
    <3>1. durable' = durable
      BY <2>9, <2>11
    <3>2. task[u].pc = "rename" => Span(u, task[u].snap.rows)'
      BY <1>0, <1>s, <2>10, <2>11, <3>1 DEF Saving, Span, Reach
    <3>3. task[u].pc = "pointer" => Span(u, gens[task[u].target].rows)'
      <4> SUFFICES ASSUME task[u].pc = "pointer"
                   PROVE  Span(u, gens[task[u].target].rows)'
        OBVIOUS
      <4>1. task[u].target \in DOMAIN gens
        BY DEF DiskInv, OnDisk
      <4>2. ASSUME NEW t \in Task PROVE ~CommitPersist(t) /\ ~Tombstone(t)
        <5>1. CommitPersist(t) \/ Tombstone(t) =>
                Busy(t) /\ task[t].pc \in {"commit", "tombstone"}
          BY DEF CommitPersist, Tombstone, At, Busy, PersistSteps, DeleteSteps
        <5> QED  BY <1>4, <5>1 DEF Alone, Busy
      <4>3. gens'[task[u].target] = gens[task[u].target]
        BY <1>0, <4>1, <4>2, GensKept
      <4>4. gens[task[u].target].rows \in Seq(Entry)
        BY <1>s, <4>1
      <4> QED  BY <1>0, <2>10, <2>11, <3>1, <4>3, <4>4 DEF Saving, Span, Reach
    <3>4. task[u].pc = "commit" => Reach(u, durable)'
      BY <1>0, <1>s, <2>6, <3>1, BeginsRefl DEF Saving, Reach
    <3> QED  BY <2>8, <2>11, <3>2, <3>3, <3>4 DEF Saving
  <2>12. CASE WriteIndex(u) /\ task'[u].pc = "rename"
              /\ task'[u].snap = [task[u].snap EXCEPT !.rows = rows]
    <3>1. task'[u].snap.rows = rows /\ rows' = rows /\ durable' = durable
      BY <1>s, <2>9, <2>12 DEF SnapshotType, WriteIndex, At
    <3>2. Span(u, task[u].snap.rows)'
      BY <1>0, <1>2, <1>s, <2>8, <3>1 DEF PromiseInv, Span
    <3> QED  BY <2>8, <2>12, <3>2 DEF Saving
  <2>13. CASE Activate(u) /\ task'[u].pc = "pointer" /\ task'[u].target = task[u].target
              /\ task[u].temp /\ task[u].target \notin DOMAIN gens
    <3>1. /\ gens' = WithGen(task[u].target, task[u].snap) /\ task[u].pc = "rename"
          /\ durable' = durable
      BY <2>9, <2>13 DEF Activate, At
    <3>2. gens'[task'[u].target].rows = task[u].snap.rows
      BY <2>13, <3>1 DEF WithGen
    <3>3. Span(u, gens[task[u].target].rows)'
      BY <1>0, <1>s, <2>10, <3>1, <3>2 DEF Saving, Span, Reach
    <3> QED  BY <2>8, <2>13, <3>3 DEF Saving
  <2>14. CASE SwitchCurrent(u) /\ dir /\ task'[u].pc = "commit"
    <3>1. /\ task[u].pc = "pointer" /\ current' = task[u].target /\ gens' = gens
          /\ task[u].target \in DOMAIN gens
      BY <2>14 DEF SwitchCurrent, At, DiskInv, OnDisk
    <3>2. durable' = gens[task[u].target].rows
      BY <3>1 DEF durable
    <3>3. Reach(u, durable)'
      BY <1>0, <1>s, <2>6, <3>1, <3>2, BeginsRefl DEF Saving, Span, Reach
    <3> QED  BY <2>8, <2>14, <3>3 DEF Saving
  <2>15. CASE task'[u].pc \in {"make", "ingest", "index"}
    BY <2>8, <2>15 DEF Saving
  <2>16. CASE Bystands(u) \/ Orphaned(u)
    BY <2>11, <2>16 DEF Bystands, Orphaned, SameWork
  <2>17. CASE Walks(u)
    BY <2>4, <2>13, <2>14, <2>17 DEF Walks, SameWork
  <2>18. CASE Works(u)
    BY <2>4, <2>12, <2>15, <2>18 DEF Works
  <2> QED  BY <1>1, <2>4, <2>16, <2>17, <2>18 DEF TaskStepFor
<1>5. CASE task[u].pc \notin PersistSteps
  <2>1. \/ Starts(u) /\ task'[u].kind \in {"flush", "shutdown"}
        \/ Walks(u) /\ RepersistAdd(u)
        \/ Walks(u) /\ RecordIngest(u) /\ task[u].kind = "add"
    <3>1. CASE Starts(u)
      BY <3>1, StartFields DEF PersistSteps
    <3>2. ~Bystands(u) /\ ~Orphaned(u)
      BY <1>5 DEF Bystands, Orphaned
    <3>3. CASE Walks(u)
      BY <1>5, <3>3 DEF Walks, Activate, SwitchCurrent, At, PersistSteps
    <3>4. ~Works(u)
      BY <1>5 DEF Works, BeginPersist, MakeTemp, ReadIngest, WriteIndex, At, PersistSteps
    <3> QED  BY <1>1, <3>1, <3>2, <3>3, <3>4 DEF TaskStepFor
  <2>2. CASE Starts(u) /\ task'[u].kind \in {"flush", "shutdown"}
    <3>1. /\ task'[u].pc = "begin"
          /\ task'[u].kind = "shutdown" => task'[u].from = Len(rows) /\ rows' = rows
      BY <2>2, StartFields DEF StartShutdown
    <3>2. Len(rows) \in Nat
      BY <1>s
    <3> QED  BY <1>3, <2>2, <3>1, <3>2 DEF Saving, Reach
  <2>3. CASE Walks(u) /\ RepersistAdd(u)
    <3>1. /\ task'[u].pc = "begin" /\ task'[u].kind = "add" /\ task'[u].op = task[u].op
          /\ rows' = rows /\ ingest.op = task[u].op
      BY <2>3 DEF Walks, SameWho, RepersistAdd, Recorded, At, AddChunk, RecordIngest,
         Activate, SwitchCurrent, Tombstone, ForgetGeneration, ForgetIngest
    <3>2. task[u].op \in Op
      BY <1>0, <2>3 DEF RepersistAdd, KindsOK, KindOK
    <3>3. task[u].op \in ToSet(rows)
      BY <1>0, <3>1, <3>2, RecordedRow
    <3> QED  BY <1>3, <3>1, <3>3 DEF Saving, Reach
  <2>4. CASE Walks(u) /\ RecordIngest(u) /\ task[u].kind = "add"
    <3>1. /\ task'[u].pc = "begin" /\ task'[u].kind = "add" /\ task'[u].op = task[u].op
          /\ rows' = rows /\ task[u].pc = "added"
      BY <2>4 DEF Walks, SameWho, RepersistAdd, At, AddChunk, RecordIngest,
         Activate, SwitchCurrent, Tombstone, ForgetGeneration, ForgetIngest
    <3>2. task[u].op \in ToSet(rows)
      BY <1>0, <3>1 DEF AddPlaces, AddPlace, ToSet
    <3> QED  BY <1>3, <3>1, <3>2 DEF Saving, Reach
  <2> QED  BY <2>1, <2>2, <2>3, <2>4
<1> QED  BY <1>4, <1>5

LEMMA PromiseStep ==
  ASSUME AddsStay, AddInv, AddInv', Alone, Alone', DiskInv, DiskInv', NoDeletes,
         PromiseInv, [Next]_vars
  PROVE  /\ PromiseInv'
         /\ Begins(durable, durable')
         /\ durable' # durable => acked' = acked
<1> USE DEF memVars, diskVars, clientVars, envVars
<1>0. /\ StoreInv /\ StoreInv' /\ Typed /\ Typed' /\ KindsOK /\ AllHonest
      /\ durable \in Seq(Entry) /\ rows \in Seq(Entry) /\ rows' \in Seq(Entry)
      /\ \A g \in DOMAIN gens : gens[g].rows \in Seq(Entry)
  BY DurableType DEF AddInv, StoreInv, Typed, SnapshotType, Entry
<1>n. ~RemoveRow
  BY DEF AddsStay, RemoveRow
<1>s. ASSUME NEW t \in Task, SwitchCurrent(t), dir, durable' = gens[task[t].target].rows
      PROVE  /\ Begins(durable, durable') /\ Begins(durable', rows) /\ durable' \in Seq(Entry)
             /\ rows' = rows /\ ingest' = ingest /\ acked' = acked
             /\ generation' = generation
  <2>1. /\ rows' = rows /\ ingest' = ingest /\ acked' = acked
        /\ generation' = generation /\ task[t].pc = "pointer"
    BY <1>s DEF SwitchCurrent, At
  <2>2. task[t].target \in DOMAIN gens
    BY <2>1 DEF DiskInv, OnDisk
  <2> QED  BY <1>0, <1>s, <2>1, <2>2 DEF PromiseInv, Saving, Span
<1>1. Begins(durable, durable') /\ durable' \in Seq(Entry)
      /\ (durable' # durable => acked' = acked)
  BY <1>0, <1>s, DurableStep, BeginsRefl
<1>2. ToSet(durable) \subseteq ToSet(durable')
  BY <1>0, <1>1, BeginsSet
<1>3. Begins(durable', rows')
  <2>1. CASE Restart
    <3>1. /\ current' = current /\ gens' = gens
          /\ \/ current = 0 /\ rows' = <<>>
             \/ current # 0 /\ current \in DOMAIN gens /\ rows' = gens[current].rows
      BY <2>1 DEF Restart
    <3>2. 0 \notin DOMAIN gens
      BY <1>0 DEF Typed
    <3>3. rows' = durable'
      BY <3>1, <3>2 DEF durable
    <3> QED  BY <1>0, <3>3, BeginsRefl
  <2>2. CASE ~Restart /\ durable' = durable
    BY <1>0, <1>n, <2>2, RowsGrow, BeginsTrans DEF PromiseInv
  <2> QED  BY <1>0, <1>s, <2>1, <2>2, DurableStep
<1>4. ASSUME ingest'.op \in Op, ingest'.generation = generation'
      PROVE  ingest'.op \in ToSet(durable')
  <2>1. CASE Restart
    <3>1. /\ current' = current /\ gens' = gens
          /\ \/ current = 0 /\ ingest' = NoIngest
             \/ current # 0 /\ current \in DOMAIN gens /\ ingest' = gens[current].ingest
      BY <2>1 DEF Restart
    <3>2. current \in DOMAIN gens /\ ingest' = gens[current].ingest /\ ingest' # NoIngest
      BY <1>4, <3>1, BoundAssumption DEF NoIngest
    <3>3. durable' = gens[current].rows
      BY <3>1, <3>2 DEF durable
    <3> QED  BY <1>0, <3>2, <3>3 DEF AllHonest, Honest, ToSet
  <2>2. ASSUME NEW t \in Task, CommitPersist(t) PROVE ingest'.op \in ToSet(durable')
    BY <1>2, <1>4, <2>2 DEF CommitPersist, At, PromiseInv, Saving, Reach
  <2>3. ASSUME NEW t \in Task PROVE ~ForgetGeneration(t)
    BY <1>0 DEF ForgetGeneration, At, KindsOK, KindOK, NoDeletes, DeleteSteps
  <2>4. CASE UNCHANGED generation /\ ~Restart
    <3>1. ingest' # NoIngest
      BY <1>4, BoundAssumption DEF NoIngest
    <3>2. ASSUME NEW t \in Task, RecordIngest(t), ingest'.generation = generation + 1
          PROVE  FALSE
      BY <1>0, <1>4, <2>4, <3>2 DEF Typed
    <3>3. ingest' = ingest
      BY <2>4, <3>1, <3>2, IngestStep
    <3> QED  BY <1>2, <1>4, <2>4, <3>3 DEF PromiseInv
  <2> QED  BY <2>1, <2>2, <2>3, <2>4, GenerationStep
<1>5. acked' \subseteq ToSet(durable')
  <2>1. CASE acked' = acked
    BY <1>2, <2>1 DEF PromiseInv
  <2>2. ASSUME NEW t \in Task, task[t].kind = "add", acked' = acked \union {task[t].op},
               ReplayAdd(t) \/ CommitPersist(t)
        PROVE  acked' \subseteq ToSet(durable')
    <3>1. task[t].op \in Op
      BY <1>0, <2>2 DEF KindsOK, KindOK
    <3>2. task[t].op \in ToSet(durable)
      BY <2>2, <3>1 DEF ReplayAdd, Recorded, CommitPersist, At, PromiseInv, Saving, Reach
    <3> QED  BY <1>2, <2>2, <3>2 DEF PromiseInv
  <2> QED  BY <2>1, <2>2, AckedStep
<1>6. \A t \in Task : Saving(t)'
  BY SavingStep
<1> QED  BY <1>1, <1>3, <1>4, <1>5, <1>6 DEF PromiseInv

LEMMA NothingDeleted == ASSUME "delete" \notin Kinds PROVE Spec => []NoDeletes
<1>1. (\A t \in Task : KindAsked(t)) => NoDeletes
  BY DEF KindAsked, NoDeletes
<1> QED  BY <1>1, KindsAsked, PTL

LEMMA PromiseInvariant ==
  ASSUME AddsStay, "delete" \notin Kinds
  PROVE  Spec /\ []Alone => []PromiseInv
<1>1. Init => PromiseInv
  BY PromiseInit
<1>2. /\ PromiseInv /\ AddInv /\ AddInv' /\ Alone /\ Alone' /\ DiskInv /\ DiskInv'
      /\ NoDeletes /\ [Next]_vars
      => PromiseInv'
  BY PromiseStep
<1> QED
  BY <1>1, <1>2, AddInvariant, AloneInvariant, NothingDeleted, PTL DEF Spec

\* The store implements DurableShard, with failures, crashes and replays, while
\* rows stay and persists do not overlap.
THEOREM StoreKeepsPromise ==
  ASSUME AddsStay, "delete" \notin Kinds
  PROVE  Spec /\ []Alone => KeepsPromise
<1>1. Init => Promise!Init
  <2> SUFFICES ASSUME Init PROVE Promise!Init
    OBVIOUS
  <2>1. durable = <<>>
    BY DEF Init, durable, NoSnapshot
  <2> QED  BY <2>1 DEF Init, Promise!Init
<1>2. ASSUME PromiseInv, AddInv, AddInv', Alone, Alone', DiskInv, DiskInv', NoDeletes,
             [Next]_vars
      PROVE  [Promise!Activate \/ Promise!Acknowledge]_<<durable, acked>>
  <2>0. /\ PromiseInv' /\ Begins(durable, durable')
        /\ durable' # durable => acked' = acked
    BY <1>2, PromiseStep
  <2>1. durable \in Seq(Entry) /\ durable' \in Seq(Entry)
    BY <1>2, DurableType DEF AddInv, Typed, SnapshotType, Entry, durable
  <2>2. CASE durable' # durable
    <3>1. IsPrefix(durable, durable')
      BY <2>0, <2>1, BeginsPrefix
    <3>c. \A S : Promise!Cardinality(S) = Cardinality(S)
      BY DEF Promise!Cardinality, Cardinality, Promise!IsFiniteSet, IsFiniteSet
    <3>2. Promise!Once(durable')
      <4>1. NoDuplicate'
        <5>1. Typed' /\ AllPlaced'
          BY <1>2 DEF AddInv
        <5>2. (Typed /\ AllPlaced => NoDuplicate)'
          BY PlacedOnce, PTL
        <5> QED  BY <5>1, <5>2
      <4>2. \/ durable' \in {gens'[g].rows : g \in DOMAIN gens'}
            \/ durable' = <<>>
        BY DEF durable
      <4>3. CASE durable' = <<>>
        <5>1. \A op \in Op : {i \in DOMAIN durable' : durable'[i] = op} = {}
          BY <4>3
        <5>2. \A op \in Op : Cardinality({i \in DOMAIN durable' : durable'[i] = op}) <= 1
          BY <5>1, FS_EmptySet
        <5> QED  BY <3>c, <5>2 DEF Promise!Once
      <4>4. CASE durable' # <<>>
        <5>1. \A op \in Op : Cardinality({i \in DOMAIN durable' : durable'[i] = op}) <= 1
          BY <4>1, <4>2, <4>4 DEF NoDuplicate
        <5> QED  BY <3>c, <5>1 DEF Promise!Once
      <4> QED  BY <4>3, <4>4
    <3> QED  BY <2>0, <2>2, <3>1, <3>2 DEF Promise!Activate, Promise!IsPrefix, IsPrefix
  <2>3. CASE durable' = durable /\ acked' # acked
    <3>1. acked' \subseteq Op /\ acked' \subseteq ToSet(durable)
      BY <1>2, <2>0, <2>3 DEF PromiseInv, AddInv, Typed
    <3>2. acked \subseteq acked'
      BY <1>2, AckedStep
    <3> QED
      BY <2>3, <3>1, <3>2 DEF Promise!Acknowledge, Promise!ToSet, ToSet
  <2> QED  BY <2>2, <2>3
<1> QED
  BY <1>1, <1>2, PromiseInvariant, AddInvariant, AloneInvariant, NothingDeleted, PTL
     DEF Spec, KeepsPromise, Promise!Spec

\* Adds alone, any number of them, with failures, crashes and replays: the
\* mutation lock keeps the promise.
THEOREM AddsKeepPromise == ASSUME AddsOnly PROVE Spec => KeepsPromise
<1>1. AddsStay /\ "delete" \notin Kinds
  BY DEF AddsOnly, AddsStay
<1> QED  BY <1>1, AddsAreAlone, StoreKeepsPromise, PTL

--------------------------------------------------------------------------------
(* Persists that overlap.  None is overtaken three times (NoneStalled), and  *)
(* then at most one of them has made its generation: the next one.  Those it *)
(* overtook find theirs among the two that cleanup keeps, and are refused.   *)

\* The persist has made its generation and not registered it.
Activated(t) == task[t].pc \in {"pointer", "commit"}

\* The generations on disk: the registered one, the one before, the next one.
Window ==
  /\ current \in {generation, generation + 1}
  /\ current # 0 => current \in DOMAIN gens
  /\ \A n \in DOMAIN gens : n <= generation + 1
  /\ \A n \in {generation - 1, generation} : n > 0 => n \in DOMAIN gens

InWindow(t) ==
  /\ task[t].pc \in {"make", "ingest", "index", "rename"} =>
       task[t].target <= generation + 1
  /\ Activated(t) => task[t].target = generation + 1 /\ task[t].target \in DOMAIN gens
  /\ task[t].pc = "commit" => current = task[t].target

OneActivated == \A t, u \in Task : Activated(t) /\ Activated(u) => t = u

\* The rows the exit found are at the start of what it writes.
Carries(t, seq) == task[t].from <= Len(seq) /\ \A i \in 1..task[t].from : seq[i] = rows[i]

Exits(t) ==
  task[t].kind = "shutdown" =>
    /\ stopping /\ task[t].from <= Len(rows)
    /\ task[t].pc = "rename" => Carries(t, task[t].snap.rows)
    /\ Activated(t) => Carries(t, gens[task[t].target].rows)

WindowInv == Window /\ OneActivated /\ \A t \in Task : InWindow(t) /\ Exits(t)

LEMMA WindowInit == Init => WindowInv
<1> SUFFICES ASSUME Init PROVE WindowInv
  OBVIOUS
<1>1. PICK g \in {0, 1} :
        generation = g /\ current = g /\ gens = [n \in 1..g |-> NoSnapshot]
  BY DEF Init
<1>2. DOMAIN gens = 1..g
  BY <1>1
<1>3. Window
  BY <1>1, <1>2 DEF Window
<1>4. \A t \in Task : task[t].pc = "idle" /\ task[t].kind = "none"
  BY IdleFacts DEF Init
<1> QED  BY <1>3, <1>4 DEF WindowInv, OneActivated, Activated, InWindow, Exits

\* What a step may do to the generations and CURRENT while nothing is deleted.
LEMMA WindowMoves ==
  ASSUME StoreInv, NoDeletes, [Next]_vars
  PROVE  \/ UNCHANGED <<generation, current, gens>>
         \/ \E t \in Task : /\ Activate(t) /\ task[t].temp
                            /\ task[t].target \notin DOMAIN gens
         \/ \E t \in Task : SwitchCurrent(t) /\ dir
         \/ \E t \in Task : CommitPersist(t)
         \/ Restart
<1> USE DEF memVars, diskVars, clientVars, envVars
<1>1. ASSUME NEW t \in Task PROVE ~DeleteStep(t)
  <2>1. KindOK(t) /\ task[t].kind # "delete"
    BY DEF StoreInv, KindsOK, NoDeletes
  <2> QED
    BY <2>1 DEF DeleteStep, Tombstone, ForgetGeneration, ForgetIngest, ForgetHandle,
       At, KindOK, DeleteSteps
<1>2. \/ UNCHANGED <<generation, current, gens>>
      \/ \E t \in Task : Activate(t) \/ SwitchCurrent(t) \/ CommitPersist(t)
      \/ Restart
  BY <1>1, StoreStep DEF storeVars, Changes, StartAdd, StartShutdown, ReplayAdd,
     AddChunk, RecordIngest, RemoveRow
<1>3. ASSUME NEW t \in Task, Activate(t), ~(task[t].temp /\ task[t].target \notin DOMAIN gens)
      PROVE  UNCHANGED <<generation, current, gens>>
  BY <1>3 DEF Activate
<1>4. ASSUME NEW t \in Task, SwitchCurrent(t), ~dir
      PROVE  UNCHANGED <<generation, current, gens>>
  BY <1>4 DEF SwitchCurrent
<1> QED  BY <1>2, <1>3, <1>4

\* A persist that makes its generation makes the next one, and is the only one
\* to have done so.
LEMMA ActivatesNext ==
  ASSUME StoreInv, NoneStalled, WindowInv, NEW t \in Task,
         Activate(t), task[t].temp, task[t].target \notin DOMAIN gens
  PROVE  /\ task[t].pc = "rename" /\ task[t].target = generation + 1
         /\ \A u \in Task : ~Activated(u)
         /\ gens' = WithGen(generation + 1, task[t].snap)
         /\ UNCHANGED <<generation, current>>
<1>1. task[t].pc = "rename" /\ task[t].target \in Nat /\ generation \in Nat
  BY FieldTypes DEF Activate, At, StoreInv, Typed
<1>2. generation <= task[t].target + 1 /\ task[t].target <= generation + 1
  BY <1>1 DEF NoneStalled, WindowInv, InWindow
<1>3. task[t].target > 0
  BY <1>1 DEF StoreInv, KindsOK, KindOK, PersistSteps
<1>4. task[t].target \notin {generation - 1, generation}
  BY <1>3 DEF WindowInv, Window
<1>5. task[t].target = generation + 1
  BY <1>1, <1>2, <1>4
<1>6. \A u \in Task : ~Activated(u)
  BY <1>5 DEF WindowInv, InWindow
<1> QED  BY <1>1, <1>5, <1>6 DEF Activate, memVars

LEMMA CommitsNext ==
  ASSUME StoreInv, WindowInv, NEW t \in Task, CommitPersist(t)
  PROVE  /\ generation' = generation + 1 /\ current = generation + 1
         /\ gens' = Cleaned(generation + 1) /\ current \in DOMAIN gens
         /\ task'[t] = Idle /\ Activated(t) /\ UNCHANGED <<current, rows, stopping>>
<1>1. task[t].pc = "commit" /\ generation' = task[t].target
      /\ gens' = Cleaned(task[t].target) /\ End(t) /\ UNCHANGED <<current, rows, stopping>>
  BY DEF CommitPersist, At, envVars
<1>2. Activated(t) /\ current = task[t].target /\ task[t].target = generation + 1
      /\ task[t].target \in DOMAIN gens
  BY <1>1 DEF Activated, WindowInv, InWindow
<1> QED  BY <1>1, <1>2 DEF End, StoreInv, Typed

LEMMA WindowStep ==
  ASSUME StoreInv, NoDeletes, NoneStalled, WindowInv, [Next]_vars
  PROVE  Window'
<1>0. generation \in Nat /\ current \in Nat /\ Window
  BY DEF StoreInv, Typed, WindowInv
<1>1. CASE UNCHANGED <<generation, current, gens>>
  BY <1>0, <1>1 DEF Window
<1>2. ASSUME NEW t \in Task, Activate(t), task[t].temp, task[t].target \notin DOMAIN gens
      PROVE  Window'
  <2>1. gens' = WithGen(generation + 1, task[t].snap) /\ UNCHANGED <<generation, current>>
    BY <1>2, ActivatesNext
  <2>2. DOMAIN gens' = DOMAIN gens \union {generation + 1}
    BY <2>1 DEF WithGen
  <2> QED  BY <1>0, <2>1, <2>2 DEF Window
<1>3. ASSUME NEW t \in Task, SwitchCurrent(t), dir PROVE Window'
  <2>1. task[t].pc = "pointer" /\ current' = task[t].target /\ UNCHANGED <<generation, gens>>
    BY <1>3 DEF SwitchCurrent, At, memVars
  <2>2. task[t].target = generation + 1 /\ task[t].target \in DOMAIN gens
    BY <2>1 DEF WindowInv, InWindow, Activated
  <2> QED  BY <1>0, <2>1, <2>2 DEF Window
<1>4. ASSUME NEW t \in Task, CommitPersist(t) PROVE Window'
  <2>1. /\ generation' = generation + 1 /\ current' = generation + 1
        /\ gens' = Cleaned(generation + 1) /\ generation + 1 \in DOMAIN gens
    BY <1>4, CommitsNext
  <2>2. DOMAIN gens' = {m \in DOMAIN gens : m + 1 >= generation + 1}
    BY <2>1 DEF Cleaned
  <2>3. \A n \in DOMAIN gens' : n \in DOMAIN gens /\ n \in Nat
    BY <2>2 DEF StoreInv, Typed
  <2>4. \A n \in DOMAIN gens' : n <= generation' + 1
    BY <1>0, <2>1, <2>3 DEF Window
  <2>5. generation > 0 => generation \in DOMAIN gens'
    BY <1>0, <2>2 DEF Window
  <2>6. generation + 1 \in DOMAIN gens'
    BY <1>0, <2>1, <2>2
  <2>7. generation' - 1 = generation
    BY <1>0, <2>1
  <2> QED  BY <1>0, <2>1, <2>4, <2>5, <2>6, <2>7 DEF Window
<1>5. CASE Restart
  <2>1. generation' = current /\ UNCHANGED <<current, gens>>
    BY <1>5 DEF Restart, diskVars
  <2>2. CASE current = generation
    BY <1>0, <2>1, <2>2 DEF Window
  <2>3. CASE current = generation + 1
    <3>1. DOMAIN gens \subseteq Nat
      BY DEF StoreInv, Typed
    <3>2. \A n \in DOMAIN gens : n <= current + 1
      BY <1>0, <2>3, <3>1 DEF Window
    <3>3. current - 1 = generation /\ current \in DOMAIN gens
      BY <1>0, <2>3 DEF Window
    <3>4. \A n \in {current - 1, current} : n > 0 => n \in DOMAIN gens
      BY <1>0, <3>3 DEF Window
    <3> QED  BY <2>1, <3>2, <3>3, <3>4 DEF Window
  <2> QED  BY <1>0, <2>2, <2>3 DEF Window
<1> QED  BY <1>1, <1>2, <1>3, <1>4, <1>5, WindowMoves

\* A persist is Activated when it was, or by its own rename.
LEMMA ActivatedStep ==
  ASSUME StoreInv, [Next]_vars, NEW u \in Task, Activated(u)'
  PROVE  /\ task'[u].target = task[u].target
         /\ \/ Activated(u)
            \/ Activate(u) /\ task[u].temp /\ task[u].target \notin DOMAIN gens
         /\ \/ task'[u].pc = task[u].pc
            \/ task'[u].pc = "pointer"
            \/ SwitchCurrent(u) /\ dir
<1>1. TaskStepFor(u) /\ task'[u].pc \in {"pointer", "commit"}
  BY TaskStep DEF StoreInv, Activated
<1>2. task'[u] # Idle /\ ~Starts(u) /\ ~Works(u)
  BY <1>1, IdleFacts, StartFields DEF Works
<1>3. CASE Bystands(u) \/ Orphaned(u)
  BY <1>1, <1>3 DEF Bystands, Orphaned, SameWork, Activated
<1>4. CASE Walks(u)
  BY <1>1, <1>4 DEF Walks, SameWork, Activated, SwitchCurrent, At
<1> QED  BY <1>1, <1>2, <1>3, <1>4 DEF TaskStepFor

LEMMA OneActivatedStep ==
  ASSUME StoreInv, NoDeletes, NoneStalled, WindowInv, [Next]_vars
  PROVE  OneActivated'
<1> SUFFICES ASSUME NEW t \in Task, NEW u \in Task, Activated(t)', Activated(u)', t # u
             PROVE  FALSE
  BY DEF OneActivated
<1>1. ASSUME NEW v \in Task, NEW w \in Task, v # w, Activated(w)',
             Activate(v), task[v].temp, task[v].target \notin DOMAIN gens
      PROVE  FALSE
  <2>1. Bystands(w)
    BY <1>1, OtherTasks DEF Steps, PersistStep, StoreInv
  <2>2. Activated(w)
    BY <1>1, <2>1 DEF Bystands, Activated
  <2> QED  BY <1>1, <2>2, ActivatesNext
<1>2. Activated(t) /\ Activated(u)
  BY <1>1, ActivatedStep
<1> QED  BY <1>2 DEF WindowInv, OneActivated

LEMMA InWindowStep ==
  ASSUME StoreInv, NoDeletes, NoneStalled, WindowInv, [Next]_vars, NEW u \in Task
  PROVE  InWindow(u)'
<1>0. generation \in Nat /\ task[u].target \in Nat /\ Typed /\ InWindow(u)
  BY FieldTypes DEF StoreInv, Typed, WindowInv
<1>i. CASE task'[u] = Idle
  BY <1>i, IdleFacts DEF InWindow, Activated
<1>r. Restart => task'[u] = Idle
  BY DEF Restart
<1>c. ASSUME NEW t \in Task, CommitPersist(t), Activated(u)' PROVE FALSE
  <2>1. Activated(t) /\ task'[t] = Idle
    BY <1>c, CommitsNext
  <2>2. ~(Activate(u) /\ task[u].temp /\ task[u].target \notin DOMAIN gens)
    BY <2>1, ActivatesNext
  <2>3. Activated(u)
    BY <1>c, <2>2, ActivatedStep
  <2>4. t = u
    BY <2>1, <2>3 DEF WindowInv, OneActivated
  <2> QED  BY <1>c, <2>1, <2>4, IdleFacts DEF Activated
<1>g. task'[u] = Idle \/ generation' = generation \/ generation' = generation + 1
  BY <1>r, CommitsNext, ActivatesNext, WindowMoves DEF SwitchCurrent, memVars
<1>1. ASSUME task'[u].pc \in {"make", "ingest", "index", "rename"}, task'[u] # Idle
      PROVE  task'[u].target <= generation' + 1
  <2>1. \/ /\ task[u].pc \in {"make", "ingest", "index", "rename"}
           /\ task'[u].target = task[u].target
        \/ task'[u].target = generation + 1
    <3>1. TaskStepFor(u) /\ ~Starts(u) /\ ~Walks(u)
      BY <1>0, <1>1, TaskStep, StartFields DEF Walks
    <3>2. CASE Bystands(u) \/ Orphaned(u)
      BY <1>1, <3>2 DEF Bystands, Orphaned, SameWork
    <3>3. CASE Works(u)
      BY <1>1, <3>3 DEF Works, SameWork, MakeTemp, ReadIngest, WriteIndex, At
    <3> QED  BY <1>1, <3>1, <3>2, <3>3 DEF TaskStepFor
  <2> QED  BY <1>0, <1>1, <1>g, <2>1 DEF InWindow
<1>2. ASSUME Activated(u)', task'[u] # Idle
      PROVE  /\ task'[u].target = generation' + 1 /\ task'[u].target \in DOMAIN gens'
             /\ task'[u].pc = "commit" => current' = task'[u].target
  <2>1. /\ task'[u].target = task[u].target
        /\ \/ Activated(u)
           \/ Activate(u) /\ task[u].temp /\ task[u].target \notin DOMAIN gens
        /\ \/ task'[u].pc = task[u].pc
           \/ task'[u].pc = "pointer"
           \/ SwitchCurrent(u) /\ dir
    BY <1>2, ActivatedStep
  <2>2. ~Restart /\ ~(\E t \in Task : CommitPersist(t))
    BY <1>2, <1>c, <1>r
  <2>3. CASE Activate(u) /\ task[u].temp /\ task[u].target \notin DOMAIN gens
    <3>1. /\ task[u].pc = "rename" /\ task[u].target = generation + 1
          /\ gens' = WithGen(generation + 1, task[u].snap) /\ generation' = generation
      BY <2>3, ActivatesNext
    <3>2. task'[u].pc # "commit"
      BY <2>1, <2>3, <3>1 DEF SwitchCurrent, At
    <3> QED  BY <2>1, <3>1, <3>2 DEF WithGen
  <2>4. CASE Activated(u)
    <3>1. task[u].target = generation + 1 /\ task[u].target \in DOMAIN gens
      BY <1>0, <2>4 DEF InWindow
    <3>2. ASSUME NEW t \in Task, Activate(t), task[t].temp, task[t].target \notin DOMAIN gens
          PROVE  FALSE
      BY <2>4, <3>2, ActivatesNext
    <3>3. UNCHANGED <<generation, gens>>
      BY <2>2, <3>2, WindowMoves DEF SwitchCurrent, memVars
    <3>4. ASSUME NEW t \in Task, SwitchCurrent(t), dir PROVE current' = task'[u].target
      <4>1. Activated(t) /\ current' = task[t].target
        BY <3>4 DEF SwitchCurrent, At, Activated
      <4>2. t = u
        BY <2>4, <4>1 DEF WindowInv, OneActivated
      <4> QED  BY <2>1, <4>1, <4>2
    <3>5. task'[u].pc = "commit" => current' = task'[u].target
      BY <1>0, <2>1, <2>2, <3>2, <3>4, WindowMoves DEF InWindow
    <3> QED  BY <2>1, <3>1, <3>3, <3>5
  <2> QED  BY <2>1, <2>3, <2>4
<1> QED  BY <1>i, <1>1, <1>2 DEF InWindow, Activated

\* The server stays stopped, and its rows only grow, until the process is gone.
LEMMA ExitFrame ==
  ASSUME StoreInv, [Next]_vars, stopping, ~Restart
  PROVE  stopping' /\ Begins(rows, rows') /\ Len(rows) <= Len(rows')
<1> USE DEF memVars, diskVars, clientVars, envVars
<1>1. stopping'
  BY StoreStep DEF storeVars, Changes, StartAdd, StartShutdown, ReplayAdd, AddChunk,
     RecordIngest, Activate, SwitchCurrent, CommitPersist, DeleteStep, Tombstone,
     ForgetGeneration, ForgetIngest, ForgetHandle, RemoveRow
<1>2. ~RemoveRow
  BY DEF RemoveRow
<1> QED  BY <1>1, <1>2, RowsGrow DEF StoreInv

LEMMA ExitsStep ==
  ASSUME StoreInv, StoreInv', NoDeletes, NoneStalled, WindowInv, [Next]_vars, NEW u \in Task
  PROVE  Exits(u)'
<1> SUFFICES ASSUME task'[u].kind = "shutdown" PROVE Exits(u)'
  BY DEF Exits
<1>0. /\ Typed /\ Exits(u) /\ rows \in Seq(Entry) /\ task[u].from \in Nat
      /\ task[u].snap \in SnapshotType /\ Len(rows) \in Nat
  BY FieldTypes DEF StoreInv, Typed, WindowInv
<1>1. TaskStepFor(u) /\ task'[u] # Idle /\ ~Restart
  BY <1>0, TaskStep, IdleFacts DEF Restart
<1>2. CASE Starts(u)
  <2>1. task'[u].pc = "begin" /\ task'[u].from = Len(rows) /\ StartShutdown(u)
    BY <1>2, StartFields
  <2>2. stopping' /\ rows' = rows
    BY <2>1 DEF StartShutdown, memVars
  <2> QED  BY <1>0, <2>1, <2>2 DEF Exits, Activated
<1>3. CASE ~Starts(u)
  <2>1. task[u].kind = "shutdown" /\ stopping /\ task[u].from <= Len(rows)
    BY <1>0, <1>1, <1>3
       DEF TaskStepFor, Bystands, Orphaned, Walks, Works, SameWho, Exits
  <2>2. stopping' /\ Begins(rows, rows') /\ Len(rows) <= Len(rows') /\ Len(rows') \in Nat
    <3>1. rows' \in Seq(Entry)
      BY DEF StoreInv, Typed
    <3> QED  BY <1>1, <2>1, <3>1, ExitFrame
  <2>k. KindOK(u) /\ task[u].pc \notin AddSteps
    BY <2>1 DEF StoreInv, KindsOK, KindOK
  <2>3. task'[u].from = task[u].from
    BY <1>1, <1>3, <2>k
       DEF TaskStepFor, Bystands, Orphaned, Walks, Works, SameWork, AdmitAdd, At, AddSteps
  <2>4. ASSUME NEW seq, Carries(u, seq)
        PROVE  task'[u].from <= Len(seq) /\ \A i \in 1..task'[u].from : seq[i] = rows'[i]
    BY <1>0, <2>1, <2>2, <2>3, <2>4 DEF Carries, Begins
  <2>5. ASSUME task'[u].pc = "rename" PROVE Carries(u, task'[u].snap.rows)
    <3>1. CASE task[u].pc = "rename" /\ task'[u].snap = task[u].snap
      BY <1>0, <2>1, <3>1 DEF Exits
    <3>2. CASE task'[u].snap = [task[u].snap EXCEPT !.rows = rows]
      <4>1. task'[u].snap.rows = rows
        BY <1>0, <3>2 DEF SnapshotType
      <4> QED  BY <2>1, <4>1 DEF Carries
    <3> QED
      BY <1>1, <1>3, <2>5, <3>1, <3>2
         DEF TaskStepFor, Bystands, Orphaned, Walks, Works, SameWork
  <2>6. ASSUME Activated(u)' PROVE Carries(u, gens'[task'[u].target].rows)
    <3>1. /\ task'[u].target = task[u].target
          /\ \/ Activated(u)
             \/ Activate(u) /\ task[u].temp /\ task[u].target \notin DOMAIN gens
      BY <2>6, ActivatedStep
    <3>2. CASE Activate(u) /\ task[u].temp /\ task[u].target \notin DOMAIN gens
      <4>1. /\ task[u].pc = "rename" /\ task[u].target = generation + 1
            /\ gens' = WithGen(generation + 1, task[u].snap)
        BY <3>2, ActivatesNext
      <4> QED  BY <1>0, <2>1, <3>1, <4>1 DEF Exits, WithGen
    <3>3. CASE Activated(u)
      <4>1. Carries(u, gens[task[u].target].rows) /\ task[u].target \in DOMAIN gens
        BY <1>0, <2>1, <3>3 DEF Exits, WindowInv, InWindow
      <4>2. ASSUME NEW t \in Task, CommitPersist(t) PROVE FALSE
        <5>1. Activated(t) /\ task'[t] = Idle
          BY <4>2, CommitsNext
        <5>2. t = u
          BY <3>3, <5>1 DEF WindowInv, OneActivated
        <5> QED  BY <1>1, <5>1, <5>2
      <4>3. ASSUME NEW t \in Task PROVE ~Tombstone(t)
        <5>1. KindOK(t) /\ task[t].kind # "delete"
          BY DEF StoreInv, KindsOK, NoDeletes
        <5> QED  BY <5>1 DEF Tombstone, At, KindOK, DeleteSteps
      <4>4. gens'[task[u].target] = gens[task[u].target]
        BY <1>0, <4>1, <4>2, <4>3, GensKept
      <4> QED  BY <3>1, <4>1, <4>4
    <3> QED  BY <3>1, <3>2, <3>3
  <2>7. task'[u].from <= Len(rows')
    BY <1>0, <2>1, <2>2, <2>3
  <2> HIDE DEF Carries
  <2> QED  BY <2>2, <2>4, <2>5, <2>6, <2>7 DEF Exits, Carries, Activated
<1> QED  BY <1>2, <1>3

LEMMA WindowInvariant ==
  ASSUME "delete" \notin Kinds
  PROVE  Spec /\ []NoneStalled => []WindowInv
<1>1. StoreInv /\ StoreInv' /\ NoDeletes /\ NoneStalled /\ WindowInv /\ [Next]_vars
      => WindowInv'
  BY WindowStep, OneActivatedStep, InWindowStep, ExitsStep DEF WindowInv
<1>2. Spec => []StoreInv
  BY StoreTyped DEF StoreInv
<1> QED  BY <1>1, <1>2, WindowInit, NothingDeleted, PTL DEF Spec

\* Any number of Adds, Flushes, abandoned persists, failures, crashes and an exit
\* may overlap: the node can always start again, unless one persist is overtaken
\* three times or the shard is deleted.
THEOREM OverlapsRestorable ==
  ASSUME "delete" \notin Kinds
  PROVE  Spec => OverlapRestorable
<1>1. WindowInv => Restorable
  BY DEF WindowInv, Window, Restorable
<1> QED  BY <1>1, WindowInvariant, PTL DEF OverlapRestorable

\* Under the same condition, every row that was in memory when the server stopped
\* is on disk when persist_all has switched CURRENT, whatever abandoned persists
\* do before, between and after.
THEOREM CleanExitSaves ==
  ASSUME "delete" \notin Kinds
  PROVE  Spec => ExitKeepsRows
<1>1. WindowInv /\ StoreInv => CleanExitKeepsRows
  <2> SUFFICES ASSUME WindowInv, StoreInv, NEW t \in Task,
                      task[t].kind = "shutdown", task[t].pc = "commit"
               PROVE  IsPrefix(SubSeq(rows, 1, task[t].from), durable)
    BY DEF CleanExitKeepsRows, At
  <2>1. durable = gens[task[t].target].rows
    BY DEF WindowInv, InWindow, Activated, durable
  <2>2. /\ durable \in Seq(Entry) /\ rows \in Seq(Entry) /\ task[t].from \in Nat
        /\ task[t].from <= Len(rows) /\ Carries(t, durable)
    BY <2>1, DurableType, FieldTypes DEF StoreInv, Typed, WindowInv, Exits, Activated
  <2> DEFINE n == task[t].from
             s == SubSeq(rows, 1, n)
  <2>3. Len(durable) \in Nat /\ Len(rows) \in Nat
    BY <2>2
  <2>4. s \in Seq(Entry) /\ Len(s) = n /\ \A i \in 1..n : s[i] = rows[i]
    BY <2>2, <2>3
  <2> HIDE DEF s
  <2>5. Begins(s, durable)
    BY <2>2, <2>3, <2>4 DEF Begins, Carries
  <2>6. IsPrefix(s, durable)
    BY <2>2, <2>4, <2>5, BeginsPrefix
  <2> QED  BY <2>6 DEF s
<1>2. Spec => []StoreInv
  BY StoreTyped DEF StoreInv
<1> QED  BY <1>1, <1>2, WindowInvariant, PTL DEF ExitKeepsRows
================================================================================
