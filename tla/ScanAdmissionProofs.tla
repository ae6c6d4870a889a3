-------------------------- MODULE ScanAdmissionProofs --------------------------
(***************************************************************************)
(* For any number of nodes, permits, requests, queries and windows, and    *)
(* any buffer: searches that visit nodes in one order never wait for each  *)
(* other in a circle, and a node never gives out more permits than it has. *)
(***************************************************************************)
EXTENDS ScanAdmission, FiniteSetTheorems, TLAPS

\* A query holds permits only of shards it has opened, and none before it starts
\* or after it is done; only a request that has ended drops queries.
HoldsInOrder ==
  \A q \in Query :
    /\ query[q] = "opening" => opened[q] < Len(RouteOf(q))
    /\ query[q] \in {"unspawned", "done"} => \A x \in running : x[1] # q
    /\ query[q] = "unspawned" => opened[q] = 0
    /\ query[q] = "dropped" => request[RequestOf[q]] # "running"
    /\ \A x \in running : x[1] = q => x[2] <= opened[q]

Inductive == TypeOK /\ HoldsInOrder

\* Routes and scans, typed.
LEMMA RouteFacts ==
  ASSUME NEW q \in Query
  PROVE  /\ RequestOf[q] \in Request
         /\ RouteOf(q) \in Seq(Node) /\ Len(RouteOf(q)) \in Nat \ {0}
         /\ \A p \in 1..Len(RouteOf(q)) : <<q, p>> \in Scan /\ RouteOf(q)[p] \in Node
<1>1. RequestOf[q] \in Request
  BY AdmissionAssumption
<1>2. RouteOf(q) \in Seq(Node) /\ Len(RouteOf(q)) > 0
  BY <1>1, RouteAssumption DEF RouteOf
<1>3. DOMAIN RouteOf(q) = 1..Len(RouteOf(q))
  BY <1>2
<1>4. \A p \in 1..Len(RouteOf(q)) : <<q, p>> \in Scan
  BY <1>3 DEF Scan
<1> QED BY <1>1, <1>2, <1>4

LEMMA ScanFacts ==
  ASSUME NEW x \in Scan
  PROVE  /\ x[1] \in Query /\ x[2] \in 1..Len(RouteOf(x[1]))
         /\ x = <<x[1], x[2]>>
         /\ NodeOf(x) \in Node
<1>1. PICK q \in Query : x \in {q} \X DOMAIN RouteOf(q)
  BY DEF Scan
<1>2. x[1] = q /\ x[2] \in DOMAIN RouteOf(q) /\ x = <<x[1], x[2]>>
  BY <1>1
<1>3. RouteOf(q) \in Seq(Node) /\ DOMAIN RouteOf(q) = 1..Len(RouteOf(q))
  BY RouteFacts
<1> QED BY <1>2, <1>3 DEF NodeOf

\* Types and the order of holding are kept by every step.
LEMMA InductiveHolds == Spec => []Inductive
<1>1. Init => Inductive
  <2> SUFFICES ASSUME Init PROVE Inductive
    OBVIOUS
  <2>1. TypeOK
    BY AdmissionAssumption DEF Init, TypeOK
  <2>2. HoldsInOrder
    BY DEF Init, HoldsInOrder
  <2> QED BY <2>1, <2>2 DEF Inductive
<1>2. Inductive /\ [Next]_vars => Inductive'
  <2> SUFFICES ASSUME TypeOK, HoldsInOrder, [Next]_vars
               PROVE  TypeOK' /\ HoldsInOrder'
    BY DEF Inductive
  <2>1. ASSUME NEW q \in Query, Spawn(q)
        PROVE  TypeOK' /\ HoldsInOrder'
    <3>1. TypeOK'
      BY <2>1 DEF Spawn, TypeOK
    <3>2. HoldsInOrder'
      <4>1. opened[q] = 0 /\ \A x \in running : x[1] # q
        BY <2>1 DEF Spawn, CanSpawn, HoldsInOrder
      <4>2. Len(RouteOf(q)) \in Nat \ {0}
        BY RouteFacts
      <4> QED BY <2>1, <4>1, <4>2 DEF Spawn, TypeOK, HoldsInOrder
    <3> QED BY <3>1, <3>2
  <2>2. ASSUME NEW q \in Query, Admit(q)
        PROVE  TypeOK' /\ HoldsInOrder'
    <3>1. /\ query[q] = "opening" /\ opened[q] \in Nat
          /\ opened[q] < Len(RouteOf(q)) /\ Len(RouteOf(q)) \in Nat
      BY <2>2, RouteFacts DEF Admit, CanAdmit, HoldsInOrder, TypeOK
    <3>2. NextScan(q) \in Scan
      BY <3>1, RouteFacts DEF NextScan
    <3>3. PICK b \in Batches : left' = [left EXCEPT ![NextScan(q)] = b]
      BY <2>2 DEF Admit
    <3>4. TypeOK'
      <4>1. b \in Nat
        BY AdmissionAssumption
      <4>2. left' \in [Scan -> Nat]
        BY <3>3, <4>1 DEF TypeOK
      <4> QED BY <2>2, <3>1, <3>2, <4>2 DEF Admit, TypeOK
    <3>5. HoldsInOrder'
      <4> SUFFICES ASSUME NEW r \in Query
                   PROVE  /\ query'[r] = "opening" => opened'[r] < Len(RouteOf(r))
                          /\ query'[r] \in {"unspawned", "done"} =>
                               \A x \in running' : x[1] # r
                          /\ query'[r] = "unspawned" => opened'[r] = 0
                          /\ query'[r] = "dropped" => request'[RequestOf[r]] # "running"
                          /\ \A x \in running' : x[1] = r => x[2] <= opened'[r]
        BY DEF HoldsInOrder
      <4>1. CASE r # q
        <5>1. query'[r] = query[r] /\ opened'[r] = opened[r] /\ request' = request
          BY <2>2, <4>1 DEF Admit, TypeOK
        <5>2. \A x \in running' : x[1] = r => x \in running
          BY <2>2, <4>1 DEF Admit, NextScan
        <5> QED BY <5>1, <5>2 DEF HoldsInOrder
      <4>2. CASE r = q
        <5>1. opened'[q] = opened[q] + 1
          BY <2>2 DEF Admit, TypeOK
        <5>2. query'[q] = IF opened[q] + 1 = Len(RouteOf(q)) THEN "collecting"
                                                           ELSE "opening"
          BY <2>2 DEF Admit, TypeOK
        <5>3. \A x \in running : x[1] = q => x[2] <= opened[q]
          BY DEF HoldsInOrder
        <5>4. ASSUME NEW x \in running', x[1] = q PROVE x[2] <= opened[q] + 1
          <6>1. CASE x = NextScan(q)
            BY <3>1, <6>1 DEF NextScan
          <6>2. CASE x \in running
            <7>1. x[2] \in 1..Len(RouteOf(x[1])) /\ x[2] <= opened[q]
              BY <5>3, <5>4, <6>2, ScanFacts DEF TypeOK
            <7> QED BY <3>1, <5>4, <7>1
          <6> QED BY <2>2, <5>4, <6>1, <6>2 DEF Admit
        <5> QED BY <3>1, <4>2, <5>1, <5>2, <5>4
      <4> QED BY <4>1, <4>2
    <3> QED BY <3>4, <3>5
  <2>3. ASSUME NEW q \in Query, Complete(q)
        PROVE  TypeOK' /\ HoldsInOrder'
    <3>1. TypeOK'
      BY <2>3 DEF Complete, TypeOK
    <3>2. \A x \in running : x[1] # q
      BY <2>3 DEF Complete, CanComplete, TypeOK
    <3> QED BY <2>3, <3>1, <3>2 DEF Complete, TypeOK, HoldsInOrder
  <2>4. ASSUME NEW x \in Scan, Send(x)
        PROVE  TypeOK' /\ HoldsInOrder'
    <3>1. left[x] - 1 \in Nat /\ buffered[x] + 1 \in 0..Buffer
      BY <2>4, AdmissionAssumption DEF Send, CanSend, TypeOK
    <3> QED BY <2>4, <3>1 DEF Send, TypeOK, HoldsInOrder
  <2>5. ASSUME NEW x \in Scan, Return(x)
        PROVE  TypeOK' /\ HoldsInOrder'
    BY <2>5 DEF Return, TypeOK, HoldsInOrder
  <2>6. ASSUME NEW x \in Scan, Collect(x)
        PROVE  TypeOK' /\ HoldsInOrder'
    <3>1. buffered[x] - 1 \in 0..Buffer
      BY <2>6, AdmissionAssumption DEF Collect, CanCollect, TypeOK
    <3> QED BY <2>6, <3>1 DEF Collect, TypeOK, HoldsInOrder
  <2>7. ASSUME NEW r \in Request, Answer(r)
        PROVE  TypeOK' /\ HoldsInOrder'
    BY <2>7 DEF Answer, TypeOK, HoldsInOrder
  <2>8. ASSUME NEW r \in Request, Drop(r)
        PROVE  TypeOK' /\ HoldsInOrder'
    <3>1. TypeOK'
      <4>1. query' \in [Query -> {"unspawned", "opening", "collecting", "done", "dropped"}]
        BY <2>8 DEF Drop, TypeOK
      <4>2. buffered' \in [Scan -> 0..Buffer]
        BY <2>8, AdmissionAssumption DEF Drop, TypeOK
      <4> QED BY <2>8, <4>1, <4>2 DEF Drop, TypeOK
    <3>2. HoldsInOrder'
      <4> SUFFICES ASSUME NEW q \in Query
                   PROVE  /\ query'[q] = "opening" => opened[q] < Len(RouteOf(q))
                          /\ query'[q] \in {"unspawned", "done"} =>
                               \A x \in running : x[1] # q
                          /\ query'[q] = "unspawned" => opened[q] = 0
                          /\ query'[q] = "dropped" => request'[RequestOf[q]] # "running"
                          /\ \A x \in running : x[1] = q => x[2] <= opened[q]
        BY <2>8 DEF Drop, HoldsInOrder
      <4>1. request'[r] = "error" /\ \A t \in Request : t # r => request'[t] = request[t]
        BY <2>8 DEF Drop, TypeOK
      <4>2. query'[q] = IF RequestOf[q] = r /\ query[q] # "done" THEN "dropped" ELSE query[q]
        BY <2>8 DEF Drop
      <4>3. RequestOf[q] \in Request
        BY RouteFacts
      <4> QED BY <4>1, <4>2, <4>3 DEF HoldsInOrder
    <3> QED BY <3>1, <3>2
  <2>9. ASSUME NEW d \in Direct, DirectAdmit(d) \/ DirectReturn(d)
        PROVE  TypeOK' /\ HoldsInOrder'
    BY <2>9 DEF DirectAdmit, DirectReturn, TypeOK, HoldsInOrder
  <2>10. CASE UNCHANGED vars
    BY <2>10 DEF vars, TypeOK, HoldsInOrder
  <2> QED BY <2>1, <2>2, <2>3, <2>4, <2>5, <2>6, <2>7, <2>8, <2>9, <2>10 DEF Next
<1> QED BY <1>1, <1>2, PTL DEF Spec

\* Every variable keeps its type, whatever the constants.
THEOREM ScanAdmissionType == Spec => []TypeOK
<1>1. Inductive => TypeOK
  BY DEF Inductive
<1> QED BY <1>1, InductiveHolds, PTL

\* In a stalled state a scan that holds a permit is blocked by a query that is
\* itself still opening, at a node further on.
LEMMA BlockedByOpening ==
  ASSUME Inductive, Stalled, NEW x \in running
  PROVE  /\ x[1] \in Query /\ query[x[1]] = "opening"
         /\ NextScan(x[1]) \in Scan /\ NodeOf(NextScan(x[1])) \in Node
         /\ NodeOf(x) \in Node /\ NodeOf(x) < NodeOf(NextScan(x[1]))
<1> DEFINE q == x[1]
<1>1. x \in Scan /\ q \in Query /\ x[2] \in 1..Len(RouteOf(q)) /\ NodeOf(x) \in Node
  BY ScanFacts DEF Inductive, TypeOK
<1>2. query[q] = "opening"
  <2>1. query[q] # "dropped" /\ left[x] # 0
    BY DEF Stalled, CanReturn
  <2>2. buffered[x] = Buffer /\ Buffer \in Nat \ {0}
    <3>1. left[x] \in Nat /\ buffered[x] \in 0..Buffer /\ Buffer \in Nat \ {0}
      BY <1>1, AdmissionAssumption DEF Inductive, TypeOK
    <3>2. ~CanSend(x)
      BY DEF Stalled
    <3>3. ~(left[x] > 0 /\ buffered[x] < Buffer)
      BY <2>1, <3>2 DEF CanSend
    <3> QED BY <2>1, <3>1, <3>3
  <2>3. ~CanCollect(x)
    BY <1>1 DEF Stalled
  <2>4. query[q] # "collecting"
    BY <2>2, <2>3 DEF CanCollect
  <2>5. query[q] \notin {"unspawned", "done"}
    BY <1>1 DEF Inductive, HoldsInOrder
  <2>6. query[q] \in {"unspawned", "opening", "collecting", "done", "dropped"}
    BY <1>1 DEF Inductive, TypeOK
  <2> QED BY <2>1, <2>4, <2>5, <2>6
<1>3. /\ opened[q] \in Nat /\ opened[q] < Len(RouteOf(q)) /\ x[2] <= opened[q]
  BY <1>1, <1>2 DEF Inductive, TypeOK, HoldsInOrder
<1>4. Len(RouteOf(q)) \in Nat
  BY <1>1, RouteFacts
<1>5. opened[q] + 1 \in 1..Len(RouteOf(q))
  BY <1>3, <1>4
<1>6. NextScan(q) \in Scan
  BY <1>1, <1>5, RouteFacts DEF NextScan
<1>7. NodeOf(NextScan(q)) = RouteOf(q)[opened[q] + 1] /\ NodeOf(x) = RouteOf(q)[x[2]]
  BY DEF NodeOf, NextScan
<1>8. RouteOf(q)[x[2]] < RouteOf(q)[opened[q] + 1]
  <2>1. RequestOf[q] \in Request /\ RouteOf(q) \in Seq(Node)
    BY <1>1, RouteFacts
  <2>2. x[2] \in DOMAIN RouteOf(q) /\ opened[q] + 1 \in DOMAIN RouteOf(q)
    BY <1>1, <1>5, <2>1
  <2>3. x[2] < opened[q] + 1
    BY <1>1, <1>3
  <2> QED BY <2>1, <2>2, <2>3, RouteAssumption DEF RouteOf
<1>9. NodeOf(NextScan(q)) \in Node
  BY <1>6, ScanFacts
<1> QED BY <1>1, <1>2, <1>6, <1>7, <1>8, <1>9

\* While a request runs and nobody can go on, some query is still opening.
LEMMA SomeoneOpens ==
  ASSUME Inductive, Stalled, NEW r \in Request, request[r] = "running"
  PROVE  \E q \in Query : query[q] = "opening"
<1>1. PICK q \in Query : RequestOf[q] = r /\ query[q] # "done"
  BY DEF Stalled, CanAnswer
<1>2. query[q] \in {"unspawned", "opening", "collecting"}
  <2>1. query[q] # "dropped"
    BY <1>1 DEF Inductive, HoldsInOrder
  <2> QED BY <1>1, <2>1 DEF Inductive, TypeOK
<1>3. \A c \in Query : query[c] # "collecting"
  <2> SUFFICES ASSUME NEW c \in Query, query[c] = "collecting" PROVE FALSE
    OBVIOUS
  <2>1. PICK x \in Scan : x[1] = c /\ (x \in running \/ buffered[x] # 0)
    BY DEF Stalled, CanComplete
  <2>2. x \notin running
    BY <2>1, BlockedByOpening
  <2>3. buffered[x] \in Nat /\ ~(buffered[x] > 0)
    BY <2>1, AdmissionAssumption DEF Inductive, TypeOK, Stalled, CanCollect
  <2> QED BY <2>1, <2>2, <2>3
<1>4. CASE query[q] = "unspawned"
  <2>1. ~(Cardinality(InFlight(r)) < Window)
    BY <1>1, <1>4 DEF Stalled, CanSpawn
  <2>2. InFlight(r) # {}
    BY <2>1, FS_EmptySet, AdmissionAssumption
  <2> QED BY <1>3, <2>2 DEF InFlight
<1> QED BY <1>2, <1>3, <1>4

\* In every reachable state in which a request runs, somebody can go on:
\* of the queries that are opening take one that waits at the last node; the
\* permits of that node are held by scans of queries that wait further on.
THEOREM SearchesNeverStall == Spec => []NoStall
<1>1. Inductive => NoStall
  <2> SUFFICES ASSUME Inductive, Stalled, NEW r \in Request, request[r] = "running"
               PROVE  FALSE
    BY DEF NoStall
  <2> DEFINE Waiting == {q \in Query : query[q] = "opening"}
             WaitsAt == {NodeOf(NextScan(q)) : q \in Waiting}
  <2>1. WaitsAt # {}
    BY SomeoneOpens
  <2>2. WaitsAt \subseteq Node
    <3> SUFFICES ASSUME NEW q \in Waiting PROVE NodeOf(NextScan(q)) \in Node
      OBVIOUS
    <3>1. opened[q] \in Nat /\ opened[q] < Len(RouteOf(q)) /\ Len(RouteOf(q)) \in Nat
      BY RouteFacts DEF Inductive, TypeOK, HoldsInOrder
    <3>2. NextScan(q) \in Scan
      BY <3>1, RouteFacts DEF NextScan
    <3> QED BY <3>2, ScanFacts
  <2>3. PICK last \in WaitsAt : \A n \in WaitsAt : n <= last
    BY <2>1, <2>2, LastAssumption
  <2>4. PICK q \in Waiting : NodeOf(NextScan(q)) = last
    BY <2>3
  <2>5. ~Free(last)
    BY <2>4 DEF Stalled, CanAdmit
  <2>6. {d \in Direct : direct[d] = "scanning" /\ DirectNode[d] = last} = {}
    BY DEF Stalled
  <2>7. {x \in running : NodeOf(x) = last} # {}
    <3> SUFFICES ASSUME {x \in running : NodeOf(x) = last} = {} PROVE FALSE
      OBVIOUS
    <3>1. Slots[last] \in Nat \ {0}
      BY <2>2, <2>3, AdmissionAssumption
    <3>2. Cardinality({}) = 0
      BY FS_EmptySet
    <3> QED BY <2>5, <2>6, <3>1, <3>2 DEF Free
  <2>8. PICK x \in running : NodeOf(x) = last
    BY <2>7
  <2>9. /\ x[1] \in Waiting /\ NodeOf(NextScan(x[1])) \in Node
        /\ last \in Node /\ last < NodeOf(NextScan(x[1]))
    BY <2>8, BlockedByOpening
  <2>10. NodeOf(NextScan(x[1])) <= last
    BY <2>3, <2>9
  <2>11. last \in Nat /\ NodeOf(NextScan(x[1])) \in Nat
    BY <2>9, AdmissionAssumption
  <2> HIDE DEF Waiting, WaitsAt
  <2>12. \A a, b \in Nat : a < b => ~(b <= a)
    OBVIOUS
  <2> QED BY <2>9, <2>10, <2>11, <2>12
<1> QED BY <1>1, InductiveHolds, PTL

--------------------------------------------------------------------------------
(* Permits.                                                                  *)

\* Who holds a permit of a node.
Scans(n) == {x \in running : NodeOf(x) = n}
Unaries(n) == {d \in Direct : direct[d] = "scanning" /\ DirectNode[d] = n}

PermitsKept ==
  \A n \in Node :
    /\ IsFiniteSet(Scans(n)) /\ IsFiniteSet(Unaries(n))
    /\ Cardinality(Scans(n)) + Cardinality(Unaries(n)) <= Slots[n]

\* Taking at most one permit where one is free, or giving some back, keeps to
\* the limit.
LEMMA PermitStep ==
  ASSUME TypeOK, PermitsKept, NEW n \in Node,
         \/ /\ Scans(n)' \subseteq Scans(n) /\ Unaries(n)' \subseteq Unaries(n)
         \/ /\ Free(n) /\ Unaries(n)' = Unaries(n)
            /\ \E x : Scans(n)' \subseteq Scans(n) \union {x}
         \/ /\ Free(n) /\ Scans(n)' = Scans(n)
            /\ \E d : Unaries(n)' \subseteq Unaries(n) \union {d}
  PROVE  /\ IsFiniteSet(Scans(n)') /\ IsFiniteSet(Unaries(n)')
         /\ Cardinality(Scans(n)') + Cardinality(Unaries(n)') <= Slots[n]
<1> DEFINE s == Scans(n)
           u == Unaries(n)
           t == Scans(n)'
           v == Unaries(n)'
<1>1. /\ IsFiniteSet(s) /\ IsFiniteSet(u) /\ Cardinality(s) + Cardinality(u) <= Slots[n]
      /\ Slots[n] \in Nat
  BY AdmissionAssumption DEF PermitsKept
<1>2. Free(n) => Cardinality(s) + Cardinality(u) < Slots[n]
  BY DEF Free, Scans, Unaries
<1> HIDE DEF s, u, t, v
<1>3. Cardinality(s) \in Nat /\ Cardinality(u) \in Nat
  BY <1>1, FS_CardinalityType
<1>4. ASSUME NEW S, NEW T, IsFiniteSet(S), T \subseteq S
      PROVE  IsFiniteSet(T) /\ Cardinality(T) \in Nat /\ Cardinality(T) <= Cardinality(S)
  BY <1>4, FS_Subset, FS_CardinalityType
<1>5. ASSUME NEW S, NEW T, NEW x, IsFiniteSet(S), T \subseteq S \union {x}
      PROVE  IsFiniteSet(T) /\ Cardinality(T) \in Nat /\ Cardinality(T) <= Cardinality(S) + 1
  <2>1. IsFiniteSet(S \union {x}) /\ Cardinality(S) \in Nat
        /\ (Cardinality(S \union {x}) = Cardinality(S)
              \/ Cardinality(S \union {x}) = Cardinality(S) + 1)
    BY <1>5, FS_AddElement, FS_CardinalityType
  <2>2. IsFiniteSet(T) /\ Cardinality(T) \in Nat
        /\ Cardinality(T) <= Cardinality(S \union {x})
    BY <1>4, <1>5, <2>1
  <2> QED BY <2>1, <2>2
<1>6. CASE t \subseteq s /\ v \subseteq u
  <2>1. /\ IsFiniteSet(t) /\ Cardinality(t) \in Nat /\ Cardinality(t) <= Cardinality(s)
        /\ IsFiniteSet(v) /\ Cardinality(v) \in Nat /\ Cardinality(v) <= Cardinality(u)
    BY <1>1, <1>4, <1>6
  <2> QED BY <1>1, <1>3, <2>1 DEF t, v
<1>7. CASE Free(n) /\ v = u /\ \E x : t \subseteq s \union {x}
  <2>1. IsFiniteSet(t) /\ Cardinality(t) \in Nat /\ Cardinality(t) <= Cardinality(s) + 1
    BY <1>1, <1>5, <1>7
  <2> QED BY <1>1, <1>2, <1>3, <1>7, <2>1 DEF t, v
<1>8. CASE Free(n) /\ t = s /\ \E d : v \subseteq u \union {d}
  <2>1. IsFiniteSet(v) /\ Cardinality(v) \in Nat /\ Cardinality(v) <= Cardinality(u) + 1
    BY <1>1, <1>5, <1>8
  <2> QED BY <1>1, <1>2, <1>3, <1>8, <2>1 DEF t, v
<1> QED BY <1>6, <1>7, <1>8 DEF s, u, t, v

\* A node never runs more scans than max_concurrent_scans, those of searches and
\* unary ones together: not when a query is dropped between its wait and its
\* answer, nor when a scan goes on after its query is gone (scan_slots, whose permit
\* each scan owns until it returns).
THEOREM PermitsNeverExceeded == Spec => []PermitsKept
<1>1. Init => PermitsKept
  <2> SUFFICES ASSUME Init, NEW n \in Node
               PROVE  /\ IsFiniteSet(Scans(n)) /\ IsFiniteSet(Unaries(n))
                      /\ Cardinality(Scans(n)) + Cardinality(Unaries(n)) <= Slots[n]
    BY DEF PermitsKept
  <2>1. Scans(n) = {} /\ Unaries(n) = {}
    BY DEF Init, Scans, Unaries
  <2>2. Slots[n] \in Nat
    BY AdmissionAssumption
  <2> QED BY <2>1, <2>2, FS_EmptySet
<1>2. TypeOK /\ PermitsKept /\ [Next]_vars => PermitsKept'
  <2> SUFFICES ASSUME TypeOK, PermitsKept, [Next]_vars, NEW n \in Node
               PROVE  /\ IsFiniteSet(Scans(n)') /\ IsFiniteSet(Unaries(n)')
                      /\ Cardinality(Scans(n)') + Cardinality(Unaries(n)') <= Slots[n]
    BY DEF PermitsKept
  <2>1. ASSUME running' \subseteq running, direct' = direct
        PROVE  Scans(n)' \subseteq Scans(n) /\ Unaries(n)' \subseteq Unaries(n)
    BY <2>1 DEF Scans, Unaries
  <2>2. ASSUME NEW q \in Query, Admit(q)
        PROVE  \/ Scans(n)' \subseteq Scans(n) /\ Unaries(n)' \subseteq Unaries(n)
               \/ /\ Free(n) /\ Unaries(n)' = Unaries(n)
                  /\ \E x : Scans(n)' \subseteq Scans(n) \union {x}
    <3>1. running' = running \union {NextScan(q)} /\ direct' = direct
          /\ Free(NodeOf(NextScan(q)))
      BY <2>2 DEF Admit, CanAdmit
    <3>2. Unaries(n)' = Unaries(n)
      BY <3>1 DEF Unaries
    <3>3. CASE NodeOf(NextScan(q)) = n
      BY <3>1, <3>2, <3>3 DEF Scans
    <3>4. CASE NodeOf(NextScan(q)) # n
      BY <3>1, <3>2, <3>4 DEF Scans
    <3> QED BY <3>3, <3>4
  <2>3. ASSUME NEW d \in Direct, DirectAdmit(d)
        PROVE  \/ Scans(n)' \subseteq Scans(n) /\ Unaries(n)' \subseteq Unaries(n)
               \/ /\ Free(n) /\ Scans(n)' = Scans(n)
                  /\ \E e : Unaries(n)' \subseteq Unaries(n) \union {e}
    <3>1. /\ running' = running /\ Free(DirectNode[d])
          /\ \A e \in Direct : e # d => direct'[e] = direct[e]
      BY <2>3 DEF DirectAdmit, TypeOK
    <3>2. Scans(n)' = Scans(n)
      BY <3>1 DEF Scans
    <3>3. CASE DirectNode[d] = n
      BY <3>1, <3>2, <3>3 DEF Unaries
    <3>4. CASE DirectNode[d] # n
      BY <3>1, <3>2, <3>4 DEF Unaries
    <3> QED BY <3>3, <3>4
  <2>4. ASSUME NEW d \in Direct, DirectReturn(d)
        PROVE  Scans(n)' \subseteq Scans(n) /\ Unaries(n)' \subseteq Unaries(n)
    BY <2>4 DEF DirectReturn, TypeOK, Scans, Unaries
  <2>5. \/ running' \subseteq running /\ direct' = direct
        \/ \E q \in Query : Admit(q)
        \/ \E d \in Direct : DirectAdmit(d) \/ DirectReturn(d)
    BY DEF Next, vars, Spawn, Complete, Send, Return, Collect, Answer, Drop
  <2> QED BY <2>1, <2>2, <2>3, <2>4, <2>5, PermitStep
<1> QED BY <1>1, <1>2, ScanAdmissionType, PTL DEF Spec

================================================================================
