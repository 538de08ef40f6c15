------------------------------ MODULE Sessions ------------------------------
(***************************************************************************)
(* list_sessions(), create_session() and touch_session() of sessions.py    *)
(* against the user_sessions table.  Each is one transaction of one        *)
(* statement; they share the pool, the clock and user_registry with        *)
(* track_user().                                                           *)
(*                                                                         *)
(* A call made for request r in phase "list", "create" or "touch" leaves r *)
(* in phase "listed", "created" or "touched" when it returns, "conflict"   *)
(* when it raises UniqueViolation and "raised" for any other exception.    *)
(* A row once committed is never deleted: no code does it.                 *)
(***************************************************************************)
EXTENDS UserDb, SequencesExt

CONSTANTS
    Names,       \* session names create_session() accepts
    NoName,      \* no name
    Sessions0    \* user_sessions as earlier runs of the server left it

SessionRow == [id : Nat, reg : Nat, name : Names \cup {NoName}, access : Nat]

NoSession == [id |-> 0, reg |-> 0, name |-> NoName, access |-> 0]

ASSUME NamesAssumption == NoName \notin Names

(* The table's own constraints hold of what is there: primary key, foreign *)
(* key, UNIQUE (user_registry_id, session_name).                           *)
ASSUME SessionsAssumption ==
    /\ Sessions0 \subseteq SessionRow /\ IsFiniteSet(Sessions0)
    /\ \A s \in Sessions0 : /\ s.id \in 1..Past /\ s.access <= Past
                            /\ s.name \in Names
                            /\ \E u \in Users : Registry0[u].id = s.reg /\ s.reg # 0
    /\ \A s, t \in Sessions0 :
          s.id = t.id \/ (s.reg = t.reg /\ s.name = t.name) => s = t

VARIABLES
    sessions,    \* committed rows of user_sessions
    sesWrite,    \* sesWrite[r]: row written by r's open transaction
    sesSeq,      \* the sequence behind user_sessions.id
    sesArg,      \* sesArg[r]: session_name (create) or session_id (touch)
    result       \* result[r]: the rows r's statement returned

sesVars == <<sessions, sesWrite, sesSeq, sesArg, result>>

SesInit ==
    /\ sessions = Sessions0
    /\ sesWrite = [r \in Requests |-> NoSession]
    /\ sesSeq = Past
    /\ sesArg = [r \in Requests |-> 0]
    /\ result = [r \in Requests |-> <<>>]

-----------------------------------------------------------------------------

(* Mutation of OwnSessions: the join's user_id condition is missing.       *)
AnyonesSessions(u) == sessions

(* The rows joined to the caller's committed user_registry row.            *)
OwnSessions(u) == {s \in sessions : Registered(u) /\ s.reg = registry[u].id}

SameKey(s, reg, name) == s.reg = reg /\ s.name = name

(* Mutation of Claimed: the table has no unique index.                     *)
ClaimedNever(r) == FALSE

(* Another open transaction has inserted the same name for the same user.  *)
Claimed(r) == \E q \in Requests \ {r} :
                  SameKey(sesWrite[q], registry[caller[r]].id, sesArg[r])

(* Mutation of Taken: rows not yet committed count as conflicts at once.   *)
TakenOrClaimed(r) ==
    \E s \in OwnSessions(caller[r]) \cup {sesWrite[q] : q \in Requests \ {r}} :
        SameKey(s, registry[caller[r]].id, sesArg[r])

Taken(r) == \E s \in OwnSessions(caller[r]) : s.name = sesArg[r]

(* The end of the block, for the calls of this module.                     *)
LeaveSession(r, p) ==
    /\ Leave(r, p)
    /\ sesWrite' = [sesWrite EXCEPT ![r] = NoSession]

(* ORDER BY access_ts DESC.                                                *)
LatestFirst(rows) == \A i, j \in DOMAIN rows : i < j => rows[i].access >= rows[j].access

SelectSessions(r) ==
    /\ phase[r] = "list" /\ step[r] = "exec"
    /\ \E rows \in SetToSeqs(OwnSessions(caller[r])) :
          LatestFirst(rows) /\ result' = [result EXCEPT ![r] = rows]
    /\ step' = [step EXCEPT ![r] = "commit"]
    /\ UNCHANGED <<phase, caller, conns, clock, txStart, registry, regWrite, regSeq,
                   warned, sessions, sesWrite, sesSeq, sesArg>>

(* INSERT ... SELECT ... RETURNING inserts the row.  The unique index      *)
(* makes it wait for another open transaction that inserted the same key.  *)
InsertSession(r) ==
    /\ phase[r] = "create" /\ step[r] = "exec"
    /\ Registered(caller[r]) /\ ~Taken(r) /\ ~Claimed(r)
    /\ LET row == [id |-> sesSeq + 1, reg |-> registry[caller[r]].id,
                   name |-> sesArg[r], access |-> txStart[r]]
       IN  /\ sesWrite' = [sesWrite EXCEPT ![r] = row]
           /\ result' = [result EXCEPT ![r] = <<row>>]
    /\ sesSeq' = sesSeq + 1
    /\ step' = [step EXCEPT ![r] = "commit"]
    /\ UNCHANGED <<phase, caller, conns, clock, txStart, registry, regWrite, regSeq,
                   warned, sessions, sesArg>>

(* The SELECT finds no user_registry row: nothing is inserted or returned. *)
InsertNothing(r) ==
    /\ phase[r] = "create" /\ step[r] = "exec"
    /\ ~Registered(caller[r])
    /\ result' = [result EXCEPT ![r] = <<>>]
    /\ step' = [step EXCEPT ![r] = "commit"]
    /\ UNCHANGED <<phase, caller, conns, clock, txStart, registry, regWrite, regSeq,
                   warned, sessions, sesWrite, sesSeq, sesArg>>

(* UniqueViolation; the id drawn for the row is lost.                      *)
InsertConflict(r) ==
    /\ phase[r] = "create" /\ step[r] = "exec"
    /\ Taken(r)
    /\ LeaveSession(r, "conflict")
    /\ sesSeq' = sesSeq + 1
    /\ UNCHANGED <<caller, clock, txStart, registry, regSeq, warned, sessions,
                   sesArg, result>>

(* Mutation of TouchTarget: the UPDATE is not scoped to the caller.        *)
TouchTargetUnscoped(r) == {s \in sessions : s.id = sesArg[r]}

(* The row a touch by r updates: by id, and only the caller's own.         *)
TouchTarget(r) == {s \in OwnSessions(caller[r]) : s.id = sesArg[r]}

TouchRow(r) ==
    /\ phase[r] = "touch" /\ step[r] = "exec"
    /\ \E s \in TouchTarget(r) :
          /\ \A q \in Requests \ {r} : sesWrite[q].id # s.id
          /\ sesWrite' = [sesWrite EXCEPT ![r] = [s EXCEPT !.access = txStart[r]]]
    /\ step' = [step EXCEPT ![r] = "commit"]
    /\ UNCHANGED <<phase, caller, conns, clock, txStart, registry, regWrite, regSeq,
                   warned, sessions, sesSeq, sesArg, result>>

(* The UPDATE matches no row, which touch_session() does not notice.       *)
TouchNothing(r) ==
    /\ phase[r] = "touch" /\ step[r] = "exec"
    /\ TouchTarget(r) = {}
    /\ step' = [step EXCEPT ![r] = "commit"]
    /\ UNCHANGED <<phase, caller, conns, clock, txStart, registry, regWrite, regSeq,
                   warned, sesVars>>

SessionPhases == {"list", "create", "touch"}

Returned(p) ==
    IF p = "list" THEN "listed" ELSE IF p = "create" THEN "created" ELSE "touched"

(* The table after r's transaction commits.                                *)
Committed(r) ==
    IF sesWrite[r] = NoSession THEN sessions
    ELSE {s \in sessions : s.id # sesWrite[r].id} \cup {sesWrite[r]}

(* Mutation of CommitSession: the block ends without a COMMIT.             *)
CommitSessionNever(r) ==
    /\ phase[r] \in SessionPhases /\ step[r] = "commit"
    /\ LeaveSession(r, Returned(phase[r]))
    /\ UNCHANGED <<caller, clock, txStart, registry, regSeq, warned, sessions, sesSeq,
                   sesArg, result>>

CommitSession(r) ==
    /\ phase[r] \in SessionPhases /\ step[r] = "commit"
    /\ sessions' = Committed(r)
    /\ LeaveSession(r, Returned(phase[r]))
    /\ UNCHANGED <<caller, clock, txStart, registry, regSeq, warned, sesSeq,
                   sesArg, result>>

(* touch_session() swallows and logs every exception, the others let it    *)
(* reach the route.                                                        *)
Raise(r) ==
    IF phase[r] = "touch"
    THEN LeaveSession(r, "touched") /\ warned' = warned \cup {<<r, "touch">>}
    ELSE LeaveSession(r, "raised") /\ warned' = warned

(* The COMMIT took effect but its answer was lost.                         *)
CommitSessionUnknown(r) ==
    /\ phase[r] \in SessionPhases /\ step[r] = "commit"
    /\ "db" \in Faults
    /\ sessions' = Committed(r)
    /\ Raise(r)
    /\ UNCHANGED <<caller, clock, txStart, registry, regSeq, sesSeq, sesArg, result>>

FailSession(r) ==
    /\ phase[r] \in SessionPhases
    /\ CanFail(step[r])
    /\ Raise(r)
    /\ UNCHANGED <<caller, clock, txStart, registry, regSeq, sessions, sesSeq,
                   sesArg, result>>

SessionProgress(r) ==
    \/ SelectSessions(r)
    \/ InsertSession(r)
    \/ InsertNothing(r)
    \/ InsertConflict(r)
    \/ TouchRow(r)
    \/ TouchNothing(r)
    \/ CommitSession(r)

SessionStep(r) == SessionProgress(r) \/ CommitSessionUnknown(r) \/ FailSession(r)

=============================================================================
