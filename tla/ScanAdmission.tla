----------------------------- MODULE ScanAdmission -----------------------------
(***************************************************************************)
(* How searches share the nodes' scan permits.  A CollectionSearch request *)
(* runs a window of its queries at a time; each query opens its shards one *)
(* after another, waits at each node until the semaphore scan_slots admits *)
(* its scan, and takes no result before all are open.  A scan keeps its    *)
(* permit until it has sent everything or finds its query gone, and what   *)
(* it may send ahead of the collector is bounded.  Unary searches of a     *)
(* node take a permit from the same semaphore.                             *)
(*                                                                         *)
(* What a query finds is StreamQuery's subject; here a scan is the number  *)
(* of batches it has to send.  Nodes are numbered in an order in which     *)
(* every query visits them: queries of one table do, since they open its   *)
(* shards in table order, as long as no two of its shards share a node.    *)
(***************************************************************************)
EXTENDS Naturals, FiniteSets, Sequences

CONSTANTS
  Node,         \* the nodes, numbers in the order of visits
  Slots,        \* permits of each node (max_concurrent_scans)
  Request,      \* CollectionSearch requests
  Query,        \* the queries of all requests, numbers
  RequestOf,    \* the request of each query
  Route,        \* the nodes a request's queries open, in order
  Window,       \* max_concurrent_queries
  Batches,      \* how many batches a scan may have to send
  Buffer,       \* batches buffered between a scan and its collector
  Direct,       \* unary Search calls to nodes
  DirectNode    \* the node of each

ASSUME AdmissionAssumption ==
  /\ Node \subseteq Nat /\ Query \subseteq Nat
  /\ Slots \in [Node -> Nat \ {0}]
  /\ RequestOf \in [Query -> Request] /\ DirectNode \in [Direct -> Node]
  /\ {Window, Buffer} \subseteq Nat \ {0} /\ Batches \subseteq Nat

\* A route is not empty and follows the order of the nodes.
ASSUME RouteAssumption ==
  /\ Route \in [Request -> Seq(Node)]
  /\ \A r \in Request :
       /\ Len(Route[r]) > 0
       /\ \A i, j \in DOMAIN Route[r] : i < j => Route[r][i] < Route[r][j]

\* There are finitely many nodes, so any set of them has a last one.
ASSUME LastAssumption ==
  \A S \in SUBSET Node : S # {} => \E last \in S : \A n \in S : n <= last

VARIABLES
  request,    \* per request: "running", "ok" or "error"
  query,      \* per query: "unspawned", "opening", "collecting", "done", "dropped"
  opened,     \* per query: how many of its scans have been admitted
  running,    \* the scans that hold a permit, as <<query, position in route>>
  left,       \* per scan: batches still to send
  buffered,   \* per scan: batches sent and not collected
  direct      \* per unary search: "waiting", "scanning" or "done"

vars == <<request, query, opened, running, left, buffered, direct>>

RouteOf(q) == Route[RequestOf[q]]
Scan == UNION {{q} \X DOMAIN RouteOf(q) : q \in Query}
NodeOf(x) == RouteOf(x[1])[x[2]]

Init ==
  /\ request = [r \in Request |-> "running"]
  /\ query = [q \in Query |-> "unspawned"]
  /\ opened = [q \in Query |-> 0]
  /\ running = {}
  /\ left = [x \in Scan |-> 0]
  /\ buffered = [x \in Scan |-> 0]
  /\ direct = [d \in Direct |-> "waiting"]

--------------------------------------------------------------------------------
(* What each task is waiting for.                                          *)

\* Variant (sensitivity of NoStall): queries start at different shards, to
\* spread the load.
NextScanRotated(q) == <<q, ((opened[q] + q) % Len(RouteOf(q))) + 1>>

\* The scan a query that is still opening asks for.
NextScan(q) == <<q, opened[q] + 1>>

\* A permit of the node is free.
Free(n) ==
  Cardinality({x \in running : NodeOf(x) = n})
    + Cardinality({d \in Direct : direct[d] = "scanning" /\ DirectNode[d] = n})
    < Slots[n]

InFlight(r) ==
  {q \in Query : RequestOf[q] = r /\ query[q] \in {"opening", "collecting"}}

CanSpawn(q) ==
  /\ request[RequestOf[q]] = "running"
  /\ query[q] = "unspawned"
  /\ Cardinality(InFlight(RequestOf[q])) < Window

CanAdmit(q) == query[q] = "opening" /\ Free(NodeOf(NextScan(q)))

\* blocking_send has room.
CanSend(x) == query[x[1]] # "dropped" /\ left[x] > 0 /\ buffered[x] < Buffer

\* All is sent, or the scan can find that nobody listens.
CanReturn(x) == left[x] = 0 \/ query[x[1]] = "dropped"

\* Variant (sensitivity of Answered): results are taken once the scans are over.
CanCollectAfterwards(x) ==
  /\ query[x[1]] = "collecting" /\ buffered[x] > 0
  /\ \A y \in running : y[1] # x[1]

\* The collector runs when every shard is open.
CanCollect(x) == query[x[1]] = "collecting" /\ buffered[x] > 0

CanComplete(q) ==
  /\ query[q] = "collecting"
  /\ \A x \in Scan : x[1] = q => x \notin running /\ buffered[x] = 0

CanAnswer(r) ==
  /\ request[r] = "running"
  /\ \A q \in Query : RequestOf[q] = r => query[q] = "done"

--------------------------------------------------------------------------------
Spawn(q) ==
  /\ CanSpawn(q)
  /\ query' = [query EXCEPT ![q] = "opening"]
  /\ UNCHANGED <<request, opened, running, left, buffered, direct>>

\* The node admits the scan and answers; after its last shard a query collects.
Admit(q) ==
  /\ CanAdmit(q)
  /\ running' = running \union {NextScan(q)}
  /\ \E b \in Batches : left' = [left EXCEPT ![NextScan(q)] = b]
  /\ opened' = [opened EXCEPT ![q] = @ + 1]
  /\ query' = [query EXCEPT ![q] =
                 IF opened[q] + 1 = Len(RouteOf(q)) THEN "collecting" ELSE "opening"]
  /\ UNCHANGED <<request, buffered, direct>>

Send(x) ==
  /\ x \in running /\ CanSend(x)
  /\ left' = [left EXCEPT ![x] = @ - 1]
  /\ buffered' = [buffered EXCEPT ![x] = @ + 1]
  /\ UNCHANGED <<request, query, opened, running, direct>>

\* Variant (sensitivity of PermitsReturn): a scan that nobody listens to waits
\* for room like any other.
ReturnWhenSent(x) ==
  /\ x \in running /\ left[x] = 0
  /\ running' = running \ {x}
  /\ left' = [left EXCEPT ![x] = 0]
  /\ UNCHANGED <<request, query, opened, buffered, direct>>

\* The scan returns, and its permit with it.
Return(x) ==
  /\ x \in running /\ CanReturn(x)
  /\ running' = running \ {x}
  /\ left' = [left EXCEPT ![x] = 0]
  /\ UNCHANGED <<request, query, opened, buffered, direct>>

Collect(x) ==
  /\ x \in Scan /\ CanCollect(x)
  /\ buffered' = [buffered EXCEPT ![x] = @ - 1]
  /\ UNCHANGED <<request, query, opened, running, left, direct>>

Complete(q) ==
  /\ CanComplete(q)
  /\ query' = [query EXCEPT ![q] = "done"]
  /\ UNCHANGED <<request, opened, running, left, buffered, direct>>

Answer(r) ==
  /\ CanAnswer(r)
  /\ request' = [request EXCEPT ![r] = "ok"]
  /\ UNCHANGED <<query, opened, running, left, buffered, direct>>

\* A query's deadline or failure, or the caller leaving: the task set of the
\* request is dropped, with every wait for a permit; scans are not told at once.
Drop(r) ==
  /\ request[r] = "running"
  /\ request' = [request EXCEPT ![r] = "error"]
  /\ query' = [q \in Query |->
                 IF RequestOf[q] = r /\ query[q] # "done" THEN "dropped" ELSE query[q]]
  /\ buffered' = [x \in Scan |-> IF RequestOf[x[1]] = r THEN 0 ELSE buffered[x]]
  /\ UNCHANGED <<opened, running, left, direct>>

DirectAdmit(d) ==
  /\ direct[d] = "waiting" /\ Free(DirectNode[d])
  /\ direct' = [direct EXCEPT ![d] = "scanning"]
  /\ UNCHANGED <<request, query, opened, running, left, buffered>>

DirectReturn(d) ==
  /\ direct[d] = "scanning"
  /\ direct' = [direct EXCEPT ![d] = "done"]
  /\ UNCHANGED <<request, query, opened, running, left, buffered>>

--------------------------------------------------------------------------------
Next ==
  \/ \E q \in Query : Spawn(q) \/ Admit(q) \/ Complete(q)
  \/ \E x \in Scan : Send(x) \/ Return(x) \/ Collect(x)
  \/ \E r \in Request : Answer(r) \/ Drop(r)
  \/ \E d \in Direct : DirectAdmit(d) \/ DirectReturn(d)

Spec == Init /\ [][Next]_vars

\* Tasks that can run do run, and the semaphore is fair (tokio's is first come,
\* first served): a wait for a permit that keeps coming free ends.  Nothing is
\* assumed of deadlines and failures.
Fairness ==
  /\ \A q \in Query :
       WF_vars(Spawn(q)) /\ SF_vars(Admit(q)) /\ WF_vars(Complete(q))
  /\ \A x \in Scan : WF_vars(Send(x)) /\ WF_vars(Return(x)) /\ WF_vars(Collect(x))
  /\ \A r \in Request : WF_vars(Answer(r))
  /\ \A d \in Direct : SF_vars(DirectAdmit(d)) /\ WF_vars(DirectReturn(d))
FairSpec == Spec /\ Fairness

--------------------------------------------------------------------------------
(* Properties.                                                             *)

\* Every variable stays in its type.
TypeOK ==
  /\ request \in [Request -> {"running", "ok", "error"}]
  /\ query \in [Query -> {"unspawned", "opening", "collecting", "done", "dropped"}]
  /\ opened \in [Query -> Nat]
  /\ running \in SUBSET Scan
  /\ left \in [Scan -> Nat]
  /\ buffered \in [Scan -> 0..Buffer]
  /\ direct \in [Direct -> {"waiting", "scanning", "done"}]

\* No step but a deadline is left to help: nobody can go on.
Stalled ==
  /\ \A q \in Query : ~CanSpawn(q) /\ ~CanAdmit(q) /\ ~CanComplete(q)
  /\ \A x \in running : ~CanSend(x) /\ ~CanReturn(x)
  /\ \A x \in Scan : ~CanCollect(x)
  /\ \A r \in Request : ~CanAnswer(r)
  /\ \A d \in Direct : direct[d] # "scanning"

\* While a request runs somebody can go on: queries that hold permits on some
\* nodes while they wait for others, with scans that are blocked until those
\* queries collect, never wait for each other in a circle.
NoStall == (\E r \in Request : request[r] = "running") => ~Stalled

\* Every request is answered, though no deadline need fire.
Answered == \A r \in Request : <>(request[r] # "running")

\* Once a request has ended, however it did, the nodes get back every permit
\* its queries held.
PermitsReturn ==
  \A r \in Request :
    request[r] # "running" ~> \A x \in running : RequestOf[x[1]] # r

================================================================================
