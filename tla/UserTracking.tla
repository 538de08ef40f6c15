---------------------------- MODULE UserTracking ----------------------------
(***************************************************************************)
(* track_user() of user_tracking.py: concurrent calls, made for requests   *)
(* of the same or of different users, against one pool and one             *)
(* user_registry table.                                                    *)
(*                                                                         *)
(* A call runs UPDATE ... last_seen_at; when that matched no row it awaits *)
(* /userinfo inside the still open transaction and then runs INSERT ... ON *)
(* CONFLICT DO UPDATE.  Every exception is logged and swallowed.  The      *)
(* profile columns (email, name) are left out: they are written once, by   *)
(* the INSERT, and no code reads them.                                     *)
(***************************************************************************)
EXTENDS UserDb

(* Mutation of Upsert: a conflicting INSERT replaces the row.              *)
UpsertReplacing(u, t) == [id |-> regSeq + 1, first |-> t, last |-> t]

(* Mutation of Upsert: the id is computed from the committed rows instead  *)
(* of drawn from the sequence.                                             *)
UpsertNumbering(u, t) ==
    LET ids == {registry[v].id : v \in Users}
        top == CHOOSE i \in ids : \A j \in ids : j <= i
    IN  IF Registered(u) THEN [registry[u] EXCEPT !.last = t]
                         ELSE [id |-> top + 1, first |-> t, last |-> t]

(* The row the INSERT leaves for user u in a transaction started at t:     *)
(* DEFAULT now() twice, or the existing row with a new last_seen_at.       *)
Upsert(u, t) ==
    IF Registered(u) THEN [registry[u] EXCEPT !.last = t]
                     ELSE [id |-> regSeq + 1, first |-> t, last |-> t]

(* Some request calls track_user() for user u. *)
StartTracking(r, u) ==
    /\ phase[r] = "idle"
    /\ Enter(r, "track")
    /\ caller' = [caller EXCEPT ![r] = u]
    /\ UNCHANGED <<conns, clock, txStart, registry, regWrite, regSeq, warned>>

(* The UPDATE matches the caller's row, once no other transaction holds it. *)
UpdateHit(r) ==
    /\ phase[r] = "track" /\ step[r] = "exec"
    /\ Registered(caller[r])
    /\ ~Locked(r, caller[r])
    /\ regWrite' = [regWrite EXCEPT
                       ![r] = [registry[caller[r]] EXCEPT !.last = txStart[r]]]
    /\ step' = [step EXCEPT ![r] = "commit"]
    /\ UNCHANGED <<phase, caller, conns, clock, txStart, registry, regSeq, warned>>

(* rowcount == 0.  A row another transaction has inserted but not yet      *)
(* committed is invisible to the UPDATE, which does not wait for it.       *)
UpdateMiss(r) ==
    /\ phase[r] = "track" /\ step[r] = "exec"
    /\ ~Registered(caller[r])
    /\ step' = [step EXCEPT ![r] = "fetch"]
    /\ UNCHANGED <<phase, caller, conns, clock, txStart, registry, regWrite,
                   regSeq, warned>>

(* /userinfo answered; the connection and the transaction were kept.       *)
Fetched(r) ==
    /\ phase[r] = "track" /\ step[r] = "fetch"
    /\ step' = [step EXCEPT ![r] = "insert"]
    /\ UNCHANGED <<phase, caller, conns, clock, txStart, registry, regWrite,
                   regSeq, warned>>

(* INSERT ... ON CONFLICT waits for another open transaction that wrote    *)
(* the same user_id; an id is drawn whichever way it goes.                 *)
InsertRow(r) ==
    /\ phase[r] = "track" /\ step[r] = "insert"
    /\ ~Locked(r, caller[r])
    /\ regWrite' = [regWrite EXCEPT ![r] = Upsert(caller[r], txStart[r])]
    /\ regSeq' = regSeq + 1
    /\ step' = [step EXCEPT ![r] = "commit"]
    /\ UNCHANGED <<phase, caller, conns, clock, txStart, registry, warned>>

(* Mutation of CommitTrack: the UPDATE has no WHERE clause.                *)
CommitTrackEverywhere(r) ==
    /\ phase[r] = "track" /\ step[r] = "commit"
    /\ registry' = [u \in Users |->
           IF u = caller[r] THEN regWrite[r]
           ELSE IF Registered(u) THEN [registry[u] EXCEPT !.last = txStart[r]]
           ELSE NoRow]
    /\ Leave(r, "tracked")
    /\ UNCHANGED <<caller, clock, txStart, regSeq, warned>>

(* The block ends: COMMIT, and track_user() returns.                       *)
CommitTrack(r) ==
    /\ phase[r] = "track" /\ step[r] = "commit"
    /\ registry' = [registry EXCEPT ![caller[r]] = regWrite[r]]
    /\ Leave(r, "tracked")
    /\ UNCHANGED <<caller, clock, txStart, regSeq, warned>>

(* The COMMIT took effect but its answer was lost: psycopg raises, the     *)
(* exception is logged, the row is there.                                  *)
CommitTrackUnknown(r) ==
    /\ phase[r] = "track" /\ step[r] = "commit"
    /\ "db" \in Faults
    /\ registry' = [registry EXCEPT ![caller[r]] = regWrite[r]]
    /\ Leave(r, "tracked")
    /\ warned' = warned \cup {<<r, "track">>}
    /\ UNCHANGED <<caller, clock, txStart, regSeq>>

(* Mutation of FailTrack: the connection is lost on the error path.        *)
FailTrackLeaking(r) ==
    /\ phase[r] = "track"
    /\ CanFail(step[r])
    /\ LeaveLeaking(r, "tracked")
    /\ warned' = warned \cup {<<r, "track">>}
    /\ UNCHANGED <<caller, clock, txStart, registry, regSeq>>

(* Mutation of FailTrack: the exception is swallowed without a warning.    *)
FailTrackQuietly(r) ==
    /\ phase[r] = "track"
    /\ CanFail(step[r])
    /\ Leave(r, "tracked")
    /\ UNCHANGED <<caller, clock, txStart, registry, regSeq, warned>>

(* Mutation of FailTrack: the exception reaches the route.                 *)
FailTrackRaising(r) ==
    /\ phase[r] = "track"
    /\ CanFail(step[r])
    /\ Leave(r, "raised")
    /\ UNCHANGED <<caller, clock, txStart, registry, regSeq, warned>>

(* Any exception: the transaction is rolled back, the connection returned, *)
(* the failure logged, and the request goes on all the same.               *)
FailTrack(r) ==
    /\ phase[r] = "track"
    /\ CanFail(step[r])
    /\ Leave(r, "tracked")
    /\ warned' = warned \cup {<<r, "track">>}
    /\ UNCHANGED <<caller, clock, txStart, registry, regSeq>>

(* What the call does when nothing goes wrong. *)
TrackProgress(r) ==
    \/ UpdateHit(r)
    \/ UpdateMiss(r)
    \/ Fetched(r)
    \/ InsertRow(r)
    \/ CommitTrack(r)

TrackStep(r) == TrackProgress(r) \/ CommitTrackUnknown(r) \/ FailTrack(r)

(* Every call has ended. *)
TrackQuiet == (\A r \in Requests : phase[r] = "tracked") /\ UNCHANGED dbVars

TrackNext ==
    \/ \E r \in Requests, u \in Users : StartTracking(r, u)
    \/ \E r \in Requests : Checkout(r) \/ TrackStep(r)
    \/ TrackQuiet

TrackSpec == DbInit /\ [][TrackNext]_dbVars

(* The event loop runs every ready task, the pool serves its waiters in    *)
(* order, the database answers, and /userinfo answers or times out.        *)
TrackFairSpec ==
    /\ TrackSpec
    /\ \A r \in Requests : WF_dbVars(Checkout(r)) /\ WF_dbVars(TrackProgress(r))

-----------------------------------------------------------------------------

(* Every variable stays in its type.  No call of track_user() ends by      *)
(* raising into its route: its phases have no "raised".                    *)
TrackTypeOK ==
    /\ phase \in [Requests -> {"idle", "track", "tracked"}]
    /\ step \in [Requests -> Steps]
    /\ caller \in [Requests -> Users \cup {NoUser}]
    /\ conns \subseteq Requests
    /\ clock \in Nat
    /\ txStart \in [Requests -> Nat]
    /\ registry \in [Users -> Row]
    /\ regWrite \in [Requests -> Row]
    /\ regSeq \in Nat
    /\ warned \subseteq Requests \X {"track"}

(* Connections are accounted for: exactly the calls between checkout and   *)
(* the end of their block hold one, whichever way the block was left, and  *)
(* never more than the pool owns (`async with pool.connection()` around    *)
(* an await of /userinfo).                                                 *)
ConnsAccounted ==
    /\ conns = {r \in Requests : step[r] \notin {"idle", "wait"}}
    /\ IsFiniteSet(conns) /\ Cardinality(conns) <= PoolSize

(* A row is written but not committed only while its writer is about to    *)
(* commit, by one writer per user, and the writer carries on the committed *)
(* row if there is one and dates a new row once: neither of two            *)
(* overlapping upserts is lost.                                            *)
WritesExclusive ==
    \A r \in Requests :
        /\ regWrite[r] # NoRow <=> step[r] = "commit"
        /\ regWrite[r] # NoRow =>
              /\ \A q \in Requests \ {r} :
                    regWrite[q] # NoRow => caller[q] # caller[r]
              /\ Registered(caller[r]) =>
                    /\ regWrite[r].id = registry[caller[r]].id
                    /\ regWrite[r].first = registry[caller[r]].first
              /\ ~Registered(caller[r]) => regWrite[r].first = regWrite[r].last

(* No two users share a surrogate id, counting the rows of open            *)
(* transactions, although ids are drawn by transactions that may conflict  *)
(* or roll back: user_sessions.user_registry_id names one user.            *)
IdsDistinct ==
    /\ \A u, v \in Users : Registered(u) /\ u # v => registry[u].id # registry[v].id
    /\ \A r \in Requests : regWrite[r] # NoRow =>
          /\ \A u \in Users \ {caller[r]} : registry[u].id # regWrite[r].id
          /\ \A q \in Requests \ {r} : regWrite[q].id # regWrite[r].id

(* A call that ended without a warning has left its user registered: an    *)
(* overlapping first request, a conflict or a rollback of the other one    *)
(* never makes it lose the row silently.                                   *)
NoSilentLoss ==
    \A r \in Requests :
        phase[r] = "tracked" /\ <<r, "track">> \notin warned
            => Registered(caller[r])

(* last_seen_at is always the start of a transaction made for that very    *)
(* user (or what an earlier run left), never another user's.               *)
SeenByOwnCall ==
    \A u \in Users : Registered(u) =>
        \/ registry[u].last = Registry0[u].last
        \/ \E r \in Requests : caller[r] = u /\ txStart[r] = registry[u].last

(* The table as track_user() changes it is a user registry.               *)
Registry == INSTANCE UserRegistry WITH rows <- registry, Rows0 <- Registry0

(* Concurrent first requests, conflicts, rollbacks and lost commits look   *)
(* from outside like users appearing one by one and then only being seen.  *)
ImplementsRegistry == Registry!Spec

(* Every call of track_user() ends, so no request hangs in it: neither a   *)
(* row lock, nor a full pool, nor a failure keeps it for ever.             *)
CallsEnd == \A r \in Requests : phase[r] = "track" ~> phase[r] = "tracked"

-----------------------------------------------------------------------------
(* What the repository says of track_user() and the code does not keep.    *)

(* README.md's user_registry table: first_seen_at is the first             *)
(* authenticated request, last_seen_at is updated on every one: the window *)
(* is never upside down.                                                   *)
SeenWindow == \A u \in Users : registry[u].first <= registry[u].last

(* copilotkit_server.py: track_user "never blocks" the actual request: a   *)
(* user already registered does not wait for a connection while every      *)
(* connection sits in a call that is waiting for /userinfo.                *)
NeverBlocks ==
    \A r \in Requests :
        phase[r] = "track" /\ step[r] = "wait" /\ Registered(caller[r])
        /\ Cardinality(conns) >= PoolSize
            => \E q \in conns : step[q] # "fetch"

=============================================================================
