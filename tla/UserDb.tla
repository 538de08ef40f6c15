------------------------------- MODULE UserDb -------------------------------
(***************************************************************************)
(* What the web server's database calls share: user_pool, the connection   *)
(* pool opened by lifespan() in copilotkit_server.py, PostgreSQL's         *)
(* transactions as psycopg drives them, and the user_registry table that   *)
(* both track_user() and the functions of sessions.py read or write.       *)
(*                                                                         *)
(* A call made for a request r goes through the steps                      *)
(*   "wait"   asked the pool for a connection, none granted yet            *)
(*   "exec"   holds a connection, its first statement is under way         *)
(*   "fetch"  track_user only: awaiting /userinfo, transaction still open  *)
(*   "insert" track_user only: the INSERT is under way                     *)
(*   "commit" last statement done, leaving the `async with` block          *)
(* and is "idle" when r is in no database call.                            *)
(*                                                                         *)
(* Abstracted: psycopg sends BEGIN with the first statement, so taking the *)
(* connection and opening the transaction are one step; now() is the time  *)
(* of that step for the whole transaction, and no two transactions start   *)
(* at the same instant.  An id is drawn when the INSERT takes effect       *)
(* rather than before it waits for a lock.                                 *)
(***************************************************************************)
EXTENDS Naturals, FiniteSets

CONSTANTS
    Requests,    \* the requests the server may receive, each handled once
    Users,       \* verified `sub` claims
    NoUser,      \* no identity
    PoolSize,    \* connections of user_pool
    Faults,      \* the outside failures that may happen, see FaultKinds
    Registry0,   \* user_registry as earlier runs of the server left it
    Past         \* no id and no timestamp in the database exceeds it at first

(* "pool": no connection came free in time.  "db": a statement or a commit *)
(* fails, or the answer to a commit is lost.  "userinfo": Auth0 answers    *)
(* with an error or not within the 5 seconds _fetch_userinfo() allows.     *)
FaultKinds == {"pool", "db", "userinfo"}

Row == [id : Nat, first : Nat, last : Nat]

(* No row: the id column is a sequence that starts at 1. *)
NoRow == [id |-> 0, first |-> 0, last |-> 0]

ASSUME PoolAssumption == PoolSize \in Nat \ {0} /\ Faults \subseteq FaultKinds

ASSUME UserAssumption == NoUser \notin Users

ASSUME RegistryAssumption ==
    /\ Past \in Nat
    /\ Registry0 \in [Users -> Row]
    /\ \A u \in Users : /\ Registry0[u].id <= Past
                        /\ Registry0[u].first <= Past
                        /\ Registry0[u].last <= Past
                        /\ Registry0[u].id = 0 => Registry0[u] = NoRow
    /\ \A u, v \in Users :
          Registry0[u].id = Registry0[v].id /\ Registry0[u].id # 0 => u = v

VARIABLES
    phase,       \* phase[r]: where request r is in its handler
    step,        \* step[r]: where its current database call is
    caller,      \* caller[r]: the user_id argument of its database calls
    conns,       \* requests that hold a connection of user_pool
    clock,       \* the database's clock
    txStart,     \* txStart[r]: what now() returns in r's latest transaction
    registry,    \* committed rows of user_registry, by user_id
    regWrite,    \* regWrite[r]: row written by r's open transaction (row lock)
    regSeq,      \* the sequence behind user_registry.id
    warned       \* <<r, p>>: r's call in phase p ended in logger.warning

dbVars == <<phase, step, caller, conns, clock, txStart, registry, regWrite,
            regSeq, warned>>

Steps == {"idle", "wait", "exec", "fetch", "insert", "commit"}

DbInit ==
    /\ phase = [r \in Requests |-> "idle"]
    /\ step = [r \in Requests |-> "idle"]
    /\ caller = [r \in Requests |-> NoUser]
    /\ conns = {}
    /\ clock = Past
    /\ txStart = [r \in Requests |-> 0]
    /\ registry = Registry0
    /\ regWrite = [r \in Requests |-> NoRow]
    /\ regSeq = Past
    /\ warned = {}

-----------------------------------------------------------------------------

Registered(u) == registry[u] # NoRow

(* Another open transaction has written the row of user u.                 *)
Locked(r, u) == \E q \in Requests \ {r} : regWrite[q] # NoRow /\ caller[q] = u

(* The call p of request r asks the pool for a connection. *)
Enter(r, p) ==
    /\ phase' = [phase EXCEPT ![r] = p]
    /\ step' = [step EXCEPT ![r] = "wait"]

(* pool.connection() grants a connection; the first statement opens a      *)
(* transaction.                                                            *)
Checkout(r) ==
    /\ step[r] = "wait"
    /\ Cardinality(conns) < PoolSize
    /\ conns' = conns \cup {r}
    /\ clock' = clock + 1
    /\ txStart' = [txStart EXCEPT ![r] = clock + 1]
    /\ step' = [step EXCEPT ![r] = "exec"]
    /\ UNCHANGED <<phase, caller, registry, regWrite, regSeq, warned>>

(* Mutation of Leave: the connection is not returned to the pool.          *)
LeaveLeaking(r, p) ==
    /\ phase' = [phase EXCEPT ![r] = p]
    /\ step' = [step EXCEPT ![r] = "idle"]
    /\ conns' = conns
    /\ regWrite' = [regWrite EXCEPT ![r] = NoRow]

(* Leaving `async with pool.connection()`, normally or by an exception:    *)
(* the transaction is over and the connection is back in the pool.         *)
Leave(r, p) ==
    /\ phase' = [phase EXCEPT ![r] = p]
    /\ step' = [step EXCEPT ![r] = "idle"]
    /\ conns' = conns \ {r}
    /\ regWrite' = [regWrite EXCEPT ![r] = NoRow]

(* What may raise in a call at step s: the pool times out only while every *)
(* connection is out, the database only while it is spoken to.             *)
CanFail(s) ==
    \/ s = "wait" /\ Cardinality(conns) >= PoolSize /\ "pool" \in Faults
    \/ s \in {"exec", "insert", "commit"} /\ "db" \in Faults
    \/ s = "fetch" /\ "userinfo" \in Faults

=============================================================================
