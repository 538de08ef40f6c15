------------------------- MODULE UserTrackingProofs -------------------------
(***************************************************************************)
(* Proofs about UserTracking for any number of requests, users and         *)
(* connections, any faults and any earlier content of user_registry.       *)
(*                                                                         *)
(* TrackInv is inductive: one lemma per action shows that the action keeps *)
(* it.  The invariants a reader cares about are conjuncts of it, and the   *)
(* refinement of UserRegistry follows from it action by action.            *)
(***************************************************************************)
EXTENDS UserTracking, FiniteSetTheorems, TLAPS

LEMMA NoRowIsRow == NoRow \in Row /\ NoRow.id = 0
BY DEF NoRow, Row

(* A call is in progress exactly while its request is in phase "track",    *)
(* and then it is a call for some user.                                    *)
CallsMatchPhases ==
    \A r \in Requests :
        /\ step[r] # "idle" <=> phase[r] = "track"
        /\ phase[r] # "idle" => caller[r] \in Users

(* Ids come from the sequence, and only an absent row has id 0.            *)
IdsDrawn ==
    /\ \A u \in Users : registry[u].id <= regSeq
                        /\ (registry[u].id = 0 => registry[u] = NoRow)
    /\ \A r \in Requests : regWrite[r].id <= regSeq
                           /\ (regWrite[r].id = 0 => regWrite[r] = NoRow)

(* The inductive strengthening of the invariants of UserTracking.          *)
TrackInv ==
    /\ TrackTypeOK
    /\ ConnsAccounted
    /\ CallsMatchPhases
    /\ WritesExclusive
    /\ IdsDrawn
    /\ IdsDistinct
    /\ NoSilentLoss

(* The server starts with no call under way and a well-formed table.       *)
LEMMA TrackInit == DbInit => TrackInv
<1> SUFFICES ASSUME DbInit PROVE TrackInv
  OBVIOUS
<1> USE DEF DbInit
<1>1. TrackTypeOK
  BY RegistryAssumption, NoRowIsRow DEF TrackTypeOK, Steps
<1>2. ConnsAccounted
  BY FS_EmptySet, PoolAssumption DEF ConnsAccounted
<1>3. CallsMatchPhases
  BY DEF CallsMatchPhases
<1>4. WritesExclusive
  BY DEF WritesExclusive
<1>5. IdsDrawn
  BY RegistryAssumption, NoRowIsRow DEF IdsDrawn
<1>6. IdsDistinct
  BY RegistryAssumption DEF IdsDistinct, Registered
<1>7. NoSilentLoss
  BY DEF NoSilentLoss
<1> QED
  BY <1>1, <1>2, <1>3, <1>4, <1>5, <1>6, <1>7 DEF TrackInv

-----------------------------------------------------------------------------
(* Connections: taking one keeps the pool's bound, giving one back too.    *)

LEMMA ConnTaken ==
  ASSUME NEW r \in Requests, step \in [Requests -> Steps], ConnsAccounted, Checkout(r)
  PROVE  ConnsAccounted'
<1>1. IsFiniteSet(conns) /\ Cardinality(conns) \in Nat
  BY FS_CardinalityType DEF ConnsAccounted
<1>2. r \notin conns
  BY DEF ConnsAccounted, Checkout
<1>3. IsFiniteSet(conns') /\ Cardinality(conns') = Cardinality(conns) + 1
  BY <1>1, <1>2, FS_AddElement DEF Checkout
<1>4. Cardinality(conns') <= PoolSize
  BY <1>1, <1>3, PoolAssumption DEF Checkout
<1>5. conns' = {q \in Requests : step'[q] \notin {"idle", "wait"}}
  BY DEF ConnsAccounted, Checkout
<1> QED
  BY <1>3, <1>4, <1>5 DEF ConnsAccounted

LEMMA ConnReturned ==
  ASSUME NEW r \in Requests, NEW p, step \in [Requests -> Steps], ConnsAccounted,
         Leave(r, p)
  PROVE  ConnsAccounted'
<1>1. IsFiniteSet(conns) /\ Cardinality(conns) \in Nat
  BY FS_CardinalityType DEF ConnsAccounted
<1>2. IsFiniteSet(conns') /\ Cardinality(conns') <= Cardinality(conns)
  <2>1. conns' \subseteq conns
    BY DEF Leave
  <2> QED
    BY <1>1, <2>1, FS_Subset
<1>3. Cardinality(conns') \in Nat
  BY <1>2, FS_CardinalityType
<1>4. Cardinality(conns') <= PoolSize
  BY <1>1, <1>2, <1>3, PoolAssumption DEF ConnsAccounted
<1>5. conns' = {q \in Requests : step'[q] \notin {"idle", "wait"}}
  BY DEF ConnsAccounted, Leave
<1> QED
  BY <1>2, <1>4, <1>5 DEF ConnsAccounted

LEMMA ConnKept ==
  ASSUME ConnsAccounted, conns' = conns,
         \A q \in Requests : step'[q] \in {"idle", "wait"}
                               <=> step[q] \in {"idle", "wait"}
  PROVE  ConnsAccounted'
BY DEF ConnsAccounted

-----------------------------------------------------------------------------
(* The actions keep TrackInv.                                              *)

LEMMA StartTrackingKeeps ==
  ASSUME NEW r \in Requests, NEW u \in Users, TrackInv, StartTracking(r, u)
  PROVE  TrackInv'
<1> USE DEF TrackInv, StartTracking, Enter
<1>0. step[r] = "idle" /\ regWrite[r] = NoRow
  BY DEF CallsMatchPhases, WritesExclusive
<1>1. TrackTypeOK'
  BY DEF TrackTypeOK, Steps
<1>2. ConnsAccounted'
  <2>1. \A q \in Requests : step'[q] \in {"idle", "wait"}
                               <=> step[q] \in {"idle", "wait"}
    BY <1>0 DEF TrackTypeOK
  <2> QED
    BY <2>1, ConnKept
<1>3. CallsMatchPhases'
  BY DEF CallsMatchPhases, TrackTypeOK
<1>4. WritesExclusive'
  BY <1>0 DEF WritesExclusive, TrackTypeOK, Registered
<1>5. IdsDrawn'
  BY DEF IdsDrawn
<1>6. IdsDistinct'
  BY <1>0 DEF IdsDistinct, TrackTypeOK, Registered
<1>7. NoSilentLoss'
  BY DEF NoSilentLoss, TrackTypeOK, Registered
<1> QED
  BY <1>1, <1>2, <1>3, <1>4, <1>5, <1>6, <1>7

LEMMA CheckoutKeeps ==
  ASSUME NEW r \in Requests, TrackInv, Checkout(r)
  PROVE  TrackInv'
<1> USE DEF TrackInv, Checkout
<1>0. regWrite[r] = NoRow
  BY DEF WritesExclusive
<1>1. TrackTypeOK'
  BY DEF TrackTypeOK, Steps
<1>2. ConnsAccounted'
  BY ConnTaken DEF TrackTypeOK
<1>3. CallsMatchPhases'
  BY DEF CallsMatchPhases, TrackTypeOK
<1>4. WritesExclusive'
  BY <1>0 DEF WritesExclusive, TrackTypeOK, Registered
<1>5. IdsDrawn'
  BY DEF IdsDrawn
<1>6. IdsDistinct'
  BY DEF IdsDistinct, Registered
<1>7. NoSilentLoss'
  BY DEF NoSilentLoss, Registered
<1> QED
  BY <1>1, <1>2, <1>3, <1>4, <1>5, <1>6, <1>7

(* UpdateMiss and Fetched only move the call on.                           *)
LEMMA MoveKeeps ==
  ASSUME NEW r \in Requests, TrackInv, UpdateMiss(r) \/ Fetched(r)
  PROVE  TrackInv'
<1> USE DEF TrackInv, UpdateMiss, Fetched
<1>1. TrackTypeOK'
  BY DEF TrackTypeOK, Steps
<1>2. ConnsAccounted'
  <2>1. conns' = conns /\ \A q \in Requests :
          step'[q] \in {"idle", "wait"} <=> step[q] \in {"idle", "wait"}
    BY DEF TrackTypeOK
  <2> QED
    BY <2>1, ConnKept
<1>3. CallsMatchPhases'
  BY DEF CallsMatchPhases, TrackTypeOK
<1>4. WritesExclusive'
  BY DEF WritesExclusive, TrackTypeOK, Registered
<1>5. IdsDrawn'
  BY DEF IdsDrawn
<1>6. IdsDistinct'
  BY DEF IdsDistinct, Registered
<1>7. NoSilentLoss'
  BY DEF NoSilentLoss, Registered
<1> QED
  BY <1>1, <1>2, <1>3, <1>4, <1>5, <1>6, <1>7

LEMMA UpdateHitKeeps ==
  ASSUME NEW r \in Requests, TrackInv, UpdateHit(r)
  PROVE  TrackInv'
<1> USE DEF TrackInv, UpdateHit
<1> DEFINE u == caller[r]
<1>0. /\ u \in Users /\ registry[u] \in Row /\ registry[u].id # 0
      /\ regWrite[r] = NoRow /\ txStart[r] \in Nat
  BY DEF CallsMatchPhases, WritesExclusive, IdsDrawn, Registered, TrackTypeOK
<1>1. /\ regWrite'[r] \in Row
      /\ regWrite'[r].id = registry[u].id
      /\ regWrite'[r].first = registry[u].first
      /\ \A q \in Requests \ {r} : regWrite'[q] = regWrite[q]
  BY <1>0 DEF Row, TrackTypeOK
<1>2. regWrite'[r] # NoRow
  BY <1>0, <1>1, NoRowIsRow
<1>3. TrackTypeOK'
  BY <1>1 DEF TrackTypeOK, Steps
<1>4. ConnsAccounted'
  <2>1. conns' = conns /\ \A q \in Requests :
          step'[q] \in {"idle", "wait"} <=> step[q] \in {"idle", "wait"}
    BY DEF TrackTypeOK
  <2> QED
    BY <2>1, ConnKept
<1>5. CallsMatchPhases'
  BY DEF CallsMatchPhases, TrackTypeOK
<1>6. WritesExclusive'
  BY <1>1, <1>2 DEF WritesExclusive, TrackTypeOK, Registered, Locked
<1>7. IdsDrawn'
  BY <1>0, <1>1 DEF IdsDrawn
<1>8. IdsDistinct'
  <2>1. \A q \in Requests \ {r} : regWrite[q].id # registry[u].id
    <3> SUFFICES ASSUME NEW q \in Requests \ {r}
                 PROVE  regWrite[q].id # registry[u].id
      OBVIOUS
    <3>1. CASE regWrite[q] = NoRow
      BY <3>1, <1>0, NoRowIsRow
    <3>2. CASE regWrite[q] # NoRow
      BY <3>2, <1>0 DEF Locked, IdsDistinct
    <3> QED
      BY <3>1, <3>2
  <2>2. \A v \in Users \ {u} : registry[v].id # registry[u].id
    BY <1>0 DEF IdsDistinct, Registered
  <2> QED
    BY <1>1, <2>1, <2>2 DEF IdsDistinct, Registered
<1>9. NoSilentLoss'
  BY DEF NoSilentLoss, Registered
<1> QED
  BY <1>3, <1>4, <1>5, <1>6, <1>7, <1>8, <1>9

LEMMA InsertRowKeeps ==
  ASSUME NEW r \in Requests, TrackInv, InsertRow(r)
  PROVE  TrackInv'
<1> USE DEF TrackInv, InsertRow
<1> DEFINE u == caller[r]
<1>0. /\ u \in Users /\ registry[u] \in Row
      /\ regWrite[r] = NoRow /\ txStart[r] \in Nat /\ regSeq \in Nat
  BY DEF CallsMatchPhases, WritesExclusive, TrackTypeOK
<1>1. /\ regWrite'[r] = Upsert(u, txStart[r])
      /\ \A q \in Requests \ {r} : regWrite'[q] = regWrite[q]
  BY DEF TrackTypeOK
<1>2. /\ regWrite'[r] \in Row
      /\ regWrite'[r].id # 0
      /\ Registered(u) => /\ regWrite'[r].id = registry[u].id
                          /\ regWrite'[r].first = registry[u].first
      /\ ~Registered(u) => /\ regWrite'[r].id = regSeq + 1
                           /\ regWrite'[r].first = regWrite'[r].last
  BY <1>0, <1>1 DEF Upsert, Row, Registered, IdsDrawn
<1>3. regWrite'[r] # NoRow
  BY <1>2, NoRowIsRow
<1>4. TrackTypeOK'
  BY <1>0, <1>1, <1>2 DEF TrackTypeOK, Steps
<1>5. ConnsAccounted'
  <2>1. conns' = conns /\ \A q \in Requests :
          step'[q] \in {"idle", "wait"} <=> step[q] \in {"idle", "wait"}
    BY DEF TrackTypeOK
  <2> QED
    BY <2>1, ConnKept
<1>6. CallsMatchPhases'
  BY DEF CallsMatchPhases, TrackTypeOK
<1>7. WritesExclusive'
  BY <1>1, <1>2, <1>3 DEF WritesExclusive, TrackTypeOK, Registered, Locked
<1>8. IdsDrawn'
  <2>1. \A v \in Users : registry'[v].id <= regSeq'
    BY <1>0 DEF IdsDrawn, TrackTypeOK, Row
  <2>2. \A q \in Requests : regWrite'[q].id <= regSeq'
    BY <1>0, <1>1, <1>2 DEF IdsDrawn, TrackTypeOK, Row
  <2> QED
    BY <1>1, <1>2, <2>1, <2>2 DEF IdsDrawn
<1>9. IdsDistinct'
  <2>1. \A q \in Requests \ {r} : regWrite[q].id # regWrite'[r].id
    <3> SUFFICES ASSUME NEW q \in Requests \ {r}
                 PROVE  regWrite[q].id # regWrite'[r].id
      OBVIOUS
    <3>1. CASE regWrite[q] = NoRow
      BY <3>1, <1>2, NoRowIsRow
    <3>2. CASE regWrite[q] # NoRow /\ Registered(u)
      BY <3>2, <1>0, <1>2 DEF Locked, IdsDistinct
    <3>3. CASE regWrite[q] # NoRow /\ ~Registered(u)
      BY <3>3, <1>0, <1>2 DEF IdsDrawn, TrackTypeOK, Row
    <3> QED
      BY <3>1, <3>2, <3>3
  <2>2. \A v \in Users \ {u} : registry[v].id # regWrite'[r].id
    BY <1>0, <1>2 DEF IdsDistinct, IdsDrawn, Registered, TrackTypeOK, Row
  <2> QED
    BY <1>1, <2>1, <2>2 DEF IdsDistinct, Registered
<1>10. NoSilentLoss'
  BY DEF NoSilentLoss, Registered
<1> QED
  BY <1>4, <1>5, <1>6, <1>7, <1>8, <1>9, <1>10

(* A commit, acknowledged or not.                                          *)
LEMMA CommitKeeps ==
  ASSUME NEW r \in Requests, TrackInv, CommitTrack(r) \/ CommitTrackUnknown(r)
  PROVE  TrackInv'
<1> DEFINE u == caller[r]
<1>0. /\ phase[r] = "track" /\ step[r] = "commit"
      /\ registry' = [registry EXCEPT ![u] = regWrite[r]]
      /\ Leave(r, "tracked")
      /\ warned \subseteq warned' /\ warned' \subseteq warned \cup {<<r, "track">>}
      /\ UNCHANGED <<caller, clock, txStart, regSeq>>
  BY DEF CommitTrack, CommitTrackUnknown
<1> USE DEF TrackInv
<1>1. /\ u \in Users /\ regWrite[r] \in Row /\ regWrite[r] # NoRow
      /\ regWrite[r].id # 0
  BY <1>0 DEF CallsMatchPhases, WritesExclusive, IdsDrawn, TrackTypeOK
<1>2. /\ registry'[u] = regWrite[r]
      /\ \A v \in Users \ {u} : registry'[v] = registry[v]
      /\ regWrite'[r] = NoRow
      /\ \A q \in Requests \ {r} : regWrite'[q] = regWrite[q]
      /\ step'[r] = "idle" /\ phase'[r] = "tracked"
      /\ \A q \in Requests \ {r} : step'[q] = step[q] /\ phase'[q] = phase[q]
  BY <1>0, <1>1 DEF TrackTypeOK, Leave
<1>3. TrackTypeOK'
  <2>1. step' \in [Requests -> Steps] /\ conns' \subseteq Requests
    BY <1>0 DEF TrackTypeOK, Leave, Steps
  <2>2. phase' \in [Requests -> {"idle", "track", "tracked"}]
    BY <1>0 DEF TrackTypeOK, Leave
  <2>3. registry' \in [Users -> Row] /\ regWrite' \in [Requests -> Row]
    BY <1>0, <1>1, NoRowIsRow DEF TrackTypeOK, Leave
  <2> QED
    BY <1>0, <2>1, <2>2, <2>3 DEF TrackTypeOK
<1>4. ConnsAccounted'
  BY <1>0, ConnReturned DEF TrackTypeOK
<1>5. CallsMatchPhases'
  BY <1>0, <1>1, <1>2 DEF CallsMatchPhases
<1>6. WritesExclusive'
  BY <1>0, <1>1, <1>2 DEF WritesExclusive, Registered
<1>7. IdsDrawn'
  BY <1>0, <1>1, <1>2, NoRowIsRow DEF IdsDrawn, TrackTypeOK
<1>8. IdsDistinct'
  <2>1. \A v, w \in Users : Registered(v)' /\ v # w => registry'[v].id # registry'[w].id
    BY <1>1, <1>2 DEF IdsDistinct, Registered
  <2>2. ASSUME NEW q \in Requests, regWrite'[q] # NoRow
        PROVE  /\ \A v \in Users \ {caller'[q]} : registry'[v].id # regWrite'[q].id
               /\ \A p \in Requests \ {q} : regWrite'[p].id # regWrite'[q].id
    <3>1. q # r /\ regWrite[q] # NoRow /\ regWrite'[q] = regWrite[q]
      BY <1>2, <2>2
    <3>2. regWrite[r].id # regWrite[q].id
      BY <1>1, <3>1 DEF IdsDistinct
    <3>3. regWrite[q].id # 0
      BY <3>1 DEF IdsDrawn
    <3> QED
      BY <1>0, <1>2, <3>1, <3>2, <3>3, NoRowIsRow DEF IdsDistinct
  <2> QED
    BY <2>1, <2>2 DEF IdsDistinct
<1>9. NoSilentLoss'
  BY <1>0, <1>1, <1>2 DEF NoSilentLoss, Registered, TrackTypeOK, CallsMatchPhases
<1> QED
  BY <1>3, <1>4, <1>5, <1>6, <1>7, <1>8, <1>9

LEMMA FailTrackKeeps ==
  ASSUME NEW r \in Requests, TrackInv, FailTrack(r)
  PROVE  TrackInv'
<1> USE DEF TrackInv, FailTrack
<1>1. /\ regWrite'[r] = NoRow
      /\ \A q \in Requests \ {r} : regWrite'[q] = regWrite[q]
      /\ step'[r] = "idle" /\ phase'[r] = "tracked"
      /\ \A q \in Requests \ {r} : step'[q] = step[q] /\ phase'[q] = phase[q]
  BY DEF TrackTypeOK, Leave
<1>2. TrackTypeOK'
  BY NoRowIsRow DEF TrackTypeOK, Leave, Steps
<1>3. ConnsAccounted'
  BY ConnReturned DEF TrackTypeOK
<1>4. CallsMatchPhases'
  BY <1>1 DEF CallsMatchPhases
<1>5. WritesExclusive'
  BY <1>1 DEF WritesExclusive, Registered
<1>6. IdsDrawn'
  BY <1>1, NoRowIsRow DEF IdsDrawn, TrackTypeOK
<1>7. IdsDistinct'
  <2>1. \A q \in Requests : regWrite[q] # NoRow => regWrite[q].id # 0
    BY DEF IdsDrawn
  <2> QED
    BY <1>1, <2>1, NoRowIsRow DEF IdsDistinct, Registered
<1>8. NoSilentLoss'
  BY <1>1 DEF NoSilentLoss, Registered
<1> QED
  BY <1>2, <1>3, <1>4, <1>5, <1>6, <1>7, <1>8

LEMMA StutterKeeps ==
  ASSUME TrackInv, UNCHANGED dbVars
  PROVE  TrackInv'
BY DEF TrackInv, dbVars, TrackTypeOK, ConnsAccounted, CallsMatchPhases,
       WritesExclusive, IdsDrawn, IdsDistinct, NoSilentLoss, Registered

LEMMA TrackNextKeeps == TrackInv /\ [TrackNext]_dbVars => TrackInv'
<1> SUFFICES ASSUME TrackInv, [TrackNext]_dbVars
             PROVE  TrackInv'
  OBVIOUS
<1>1. ASSUME NEW r \in Requests, NEW u \in Users, StartTracking(r, u)
      PROVE  TrackInv'
  BY <1>1, StartTrackingKeeps
<1>2. ASSUME NEW r \in Requests, Checkout(r)
      PROVE  TrackInv'
  BY <1>2, CheckoutKeeps
<1>3. ASSUME NEW r \in Requests, TrackStep(r)
      PROVE  TrackInv'
  BY <1>3, UpdateHitKeeps, MoveKeeps, InsertRowKeeps, CommitKeeps, FailTrackKeeps
     DEF TrackStep, TrackProgress
<1>4. CASE UNCHANGED dbVars
  BY <1>4, StutterKeeps
<1> QED
  BY <1>1, <1>2, <1>3, <1>4 DEF TrackNext, TrackQuiet

-----------------------------------------------------------------------------
(* The results.                                                            *)

(* Every reachable state satisfies the inductive invariant.                *)
THEOREM Tracking == TrackSpec => []TrackInv
BY TrackInit, TrackNextKeeps, PTL DEF TrackSpec

(* Every variable of track_user() and its table stays in its type, and no  *)
(* call ever raises into its route.                                        *)
THEOREM TrackTyped == TrackSpec => []TrackTypeOK
<1>1. TrackInv => TrackTypeOK
  BY DEF TrackInv
<1> QED
  BY <1>1, Tracking, PTL

(* No call keeps a connection beyond its block, and the pool's size is     *)
(* respected, however the calls of track_user() overlap and fail.          *)
THEOREM PoolRespected == TrackSpec => []ConnsAccounted
<1>1. TrackInv => ConnsAccounted
  BY DEF TrackInv
<1> QED
  BY <1>1, Tracking, PTL

(* Overlapping upserts for one user exclude each other and carry on the    *)
(* committed row.                                                          *)
THEOREM UpsertsExclusive == TrackSpec => []WritesExclusive
<1>1. TrackInv => WritesExclusive
  BY DEF TrackInv
<1> QED
  BY <1>1, Tracking, PTL

(* A surrogate id names one user, in the table and in open transactions.   *)
THEOREM OneUserPerId == TrackSpec => []IdsDistinct
<1>1. TrackInv => IdsDistinct
  BY DEF TrackInv
<1> QED
  BY <1>1, Tracking, PTL

(* track_user() loses a user only with a warning in the log.               *)
THEOREM LossIsLogged == TrackSpec => []NoSilentLoss
<1>1. TrackInv => NoSilentLoss
  BY DEF TrackInv
<1> QED
  BY <1>1, Tracking, PTL

(* Every step of track_user() changes the table as UserRegistry allows:    *)
(* a commit lets a user appear or be seen, everything else stutters.       *)
LEMMA StepRefines == TrackInv /\ [TrackNext]_dbVars => [Registry!Next]_registry
<1> SUFFICES ASSUME TrackInv, TrackNext, registry' # registry
             PROVE  Registry!Next
  BY DEF dbVars
<1>1. PICK r \in Requests : CommitTrack(r) \/ CommitTrackUnknown(r)
  BY DEF TrackNext, TrackStep, TrackProgress, StartTracking, Checkout, UpdateHit,
         UpdateMiss, Fetched, InsertRow, FailTrack, TrackQuiet, dbVars
<1> DEFINE u == caller[r]
<1>2. /\ step[r] = "commit" /\ phase[r] = "track"
      /\ registry' = [registry EXCEPT ![u] = regWrite[r]]
  BY <1>1 DEF CommitTrack, CommitTrackUnknown
<1>3. u \in Users /\ regWrite[r] # NoRow /\ regWrite[r].id # 0
  BY <1>2 DEF TrackInv, CallsMatchPhases, WritesExclusive, IdsDrawn
<1>4. registry'[u] = regWrite[r] /\ \A v \in Users \ {u} : registry'[v] = registry[v]
  BY <1>2, <1>3 DEF TrackInv, TrackTypeOK
<1>5. CASE Registered(u)
  <2>1. registry[u].id # 0
    BY <1>3, <1>5 DEF TrackInv, IdsDrawn, Registered
  <2>2. registry'[u].id = registry[u].id /\ registry'[u].first = registry[u].first
    BY <1>3, <1>4, <1>5 DEF TrackInv, WritesExclusive
  <2> QED
    BY <1>3, <1>4, <2>1, <2>2 DEF Registry!Next, Registry!See, Registry!Present
<1>6. CASE ~Registered(u)
  <2>1. registry[u].id = 0
    BY <1>6, NoRowIsRow DEF Registered
  <2>2. \A v \in Users \ {u} : registry[v].id # registry'[u].id
    BY <1>3, <1>4 DEF TrackInv, IdsDistinct
  <2>3. registry'[u].first = registry'[u].last
    BY <1>3, <1>4, <1>6 DEF TrackInv, WritesExclusive
  <2> QED
    BY <1>3, <1>4, <2>1, <2>2, <2>3
       DEF Registry!Next, Registry!Appear, Registry!Present
<1> QED
  BY <1>5, <1>6

(* track_user() implements the abstract user registry.                     *)
THEOREM Refinement == TrackSpec => ImplementsRegistry
<1>1. DbInit => registry = Registry0
  BY DEF DbInit
<1> QED
  BY <1>1, StepRefines, Tracking, PTL DEF TrackSpec, ImplementsRegistry, Registry!Spec

-----------------------------------------------------------------------------
(* Whose transaction a last_seen_at dates.                                 *)

(* A call that has ended keeps its transaction's start, and an open one    *)
(* writes its own.                                                         *)
SeenInv ==
    /\ \A r \in Requests : regWrite[r] # NoRow => regWrite[r].last = txStart[r]
    /\ \A u \in Users : Registered(u) =>
          \/ registry[u].last = Registry0[u].last
          \/ \E r \in Requests : /\ phase[r] = "tracked" /\ caller[r] = u
                                 /\ txStart[r] = registry[u].last

LEMMA SeenKept ==
  ASSUME TrackInv, SeenInv, TrackNext, registry' = registry
  PROVE  SeenInv'
<1> USE DEF TrackInv, TrackTypeOK
<1>1. \A q \in Requests : phase[q] = "tracked" =>
        phase'[q] = "tracked" /\ caller'[q] = caller[q] /\ txStart'[q] = txStart[q]
  BY DEF TrackNext, TrackStep, TrackProgress, StartTracking, Checkout, UpdateHit, UpdateMiss,
         Fetched, InsertRow, CommitTrack, CommitTrackUnknown, FailTrack, TrackQuiet, dbVars,
         Enter, Leave, CallsMatchPhases
<1>2. ASSUME NEW q \in Requests, regWrite'[q] # NoRow
      PROVE  regWrite'[q].last = txStart'[q]
  <2>1. CASE \E r \in Requests : UpdateHit(r)
    BY <1>2, <2>1 DEF UpdateHit, SeenInv, Row, CallsMatchPhases
  <2>2. CASE \E r \in Requests : InsertRow(r)
    <3>1. PICK r \in Requests : InsertRow(r)
      BY <2>2
    <3>2. Upsert(caller[r], txStart[r]).last = txStart[r]
      BY <3>1 DEF Upsert, InsertRow, Row, CallsMatchPhases
    <3> QED
      BY <1>2, <3>1, <3>2 DEF InsertRow, SeenInv
  <2>3. CASE /\ regWrite' = regWrite \/ \E r \in Requests : regWrite' = [regWrite EXCEPT ![r] = NoRow]
             /\ txStart' = txStart
    BY <1>2, <2>3 DEF SeenInv
  <2>4. CASE \E r \in Requests : Checkout(r)
    BY <1>2, <2>4 DEF Checkout, SeenInv, WritesExclusive
  <2> QED
    BY <2>1, <2>2, <2>3, <2>4 DEF TrackNext, TrackStep, TrackProgress, StartTracking,
       UpdateMiss, Fetched, CommitTrack, CommitTrackUnknown, FailTrack, TrackQuiet, dbVars, Leave
<1> QED
  BY <1>1, <1>2 DEF SeenInv, Registered

LEMMA SeenCommitted ==
  ASSUME TrackInv, SeenInv, NEW r \in Requests, CommitTrack(r) \/ CommitTrackUnknown(r)
  PROVE  SeenInv'
<1> USE DEF TrackInv, TrackTypeOK
<1>1. /\ step[r] = "commit" /\ phase[r] = "track"
      /\ registry' = [registry EXCEPT ![caller[r]] = regWrite[r]]
      /\ Leave(r, "tracked") /\ UNCHANGED <<caller, txStart>>
  BY DEF CommitTrack, CommitTrackUnknown
<1>2. caller[r] \in Users /\ regWrite[r].last = txStart[r]
  BY <1>1 DEF CallsMatchPhases, WritesExclusive, SeenInv
<1>3. /\ phase'[r] = "tracked" /\ regWrite'[r] = NoRow
      /\ \A q \in Requests \ {r} : phase'[q] = phase[q] /\ regWrite'[q] = regWrite[q]
      /\ registry'[caller[r]] = regWrite[r]
      /\ \A u \in Users \ {caller[r]} : registry'[u] = registry[u]
  BY <1>1, <1>2 DEF Leave
<1> QED
  BY <1>1, <1>2, <1>3 DEF SeenInv, Registered

(* A user's last_seen_at is the start of a transaction made for that user, *)
(* whatever overlaps: never another user's (user_tracking.py).             *)
THEOREM SeenByOwn == TrackSpec => []SeenByOwnCall
<1>1. DbInit => SeenInv
  BY DEF DbInit, SeenInv
<1>2. TrackInv /\ SeenInv /\ [TrackNext]_dbVars => SeenInv'
  <2>1. CASE UNCHANGED dbVars
    BY <2>1 DEF dbVars, SeenInv, Registered
  <2>2. ASSUME TrackInv, SeenInv, TrackNext, registry' # registry
        PROVE  SeenInv'
    <3>1. PICK r \in Requests : CommitTrack(r) \/ CommitTrackUnknown(r)
      BY <2>2 DEF TrackNext, TrackStep, TrackProgress, StartTracking, Checkout, UpdateHit,
         UpdateMiss, Fetched, InsertRow, FailTrack, TrackQuiet, dbVars
    <3> QED
      BY <2>2, <3>1, SeenCommitted
  <2> QED
    BY <2>1, <2>2, SeenKept
<1>3. SeenInv => SeenByOwnCall
  BY DEF SeenInv, SeenByOwnCall
<1> QED
  BY <1>1, <1>2, <1>3, Tracking, PTL DEF TrackSpec

=============================================================================
