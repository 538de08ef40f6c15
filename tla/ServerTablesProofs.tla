-------------------------- MODULE ServerTablesProofs --------------------------
(***************************************************************************)
(* What the web server's requests do to user_registry and user_sessions    *)
(* and are answered from them: for any number of requests, users,          *)
(* connections, names and failures, and any number of restarts.            *)
(***************************************************************************)
EXTENDS ServerProofs, UserTrackingProofs, DataLemmas

CallPhases == {"track"} \cup SessionPhases

(* A connection, a row lock and an uncommitted row exist only while their  *)
(* request is in the database call they belong to.                         *)
Calls ==
    /\ step \in [Requests -> Steps] /\ txStart \in [Requests -> Nat] /\ clock \in Nat
    /\ warned \subseteq Requests \X {"track", "touch"}
    /\ ConnsAccounted
    /\ \A r \in Requests :
          /\ step[r] # "idle" <=> phase[r] \in CallPhases
          /\ step[r] \in {"fetch", "insert"} => phase[r] = "track"
          /\ regWrite[r] # NoRow <=> phase[r] = "track" /\ step[r] = "commit"
          /\ sesWrite[r] # NoSession => phase[r] \in {"create", "touch"} /\ step[r] = "commit"

(* A row of user_registry is written by one transaction at a time, which   *)
(* carries on the committed row or dates a new one once.                   *)
RegRows ==
    /\ registry \in [Users -> Row] /\ regWrite \in [Requests -> Row] /\ regSeq \in Nat
    /\ \A r \in Requests : regWrite[r] # NoRow =>
          /\ caller[r] \in Users
          /\ \A q \in Requests \ {r} : regWrite[q] # NoRow => caller[q] # caller[r]
          /\ Registered(caller[r]) =>
                /\ regWrite[r].id = registry[caller[r]].id
                /\ regWrite[r].first = registry[caller[r]].first
          /\ ~Registered(caller[r]) => regWrite[r].first = regWrite[r].last
    /\ IdsDrawn /\ IdsDistinct

(* Two rows have one id exactly if they have one owner and name.           *)
KeyIsId(s, t) == s.id = t.id <=> SameKey(s, t.reg, t.name)

(* What an open transaction has written is the row it touches or a new one.*)
WrittenRow(r) ==
    /\ phase[r] = "touch" =>
          \E s \in sessions : /\ s.id = sesArg[r] /\ s.reg = registry[caller[r]].id
                              /\ sesWrite[r] = [s EXCEPT !.access = txStart[r]]
    /\ phase[r] = "create" =>
          /\ \A s \in sessions : s.id # sesWrite[r].id
          /\ result[r] = <<sesWrite[r]>>
          /\ sesWrite[r].reg = registry[caller[r]].id
          /\ sesWrite[r].name = sesArg[r]

OfUser(s) == \E u \in Users : Registered(u) /\ registry[u].id = s.reg

(* The rows of user_sessions, with those of open transactions, respect its *)
(* primary key, its foreign key and its unique index.                      *)
SesRows ==
    /\ sessions \subseteq SessionRow /\ IsFiniteSet(sessions) /\ sesSeq \in Nat
    /\ \A s \in sessions : s.id \in 1..sesSeq /\ s.name \in Names /\ OfUser(s)
    /\ \A s, t \in sessions : KeyIsId(s, t) /\ (s.id = t.id => s = t)
    /\ sesWrite \in [Requests -> SessionRow]
    /\ \A r \in Requests : sesWrite[r] # NoSession =>
          /\ sesWrite[r].id \in 1..sesSeq /\ sesWrite[r].name \in Names
          /\ Registered(caller[r]) /\ caller[r] \in Users
          /\ \A s \in sessions : KeyIsId(s, sesWrite[r])
          /\ \A q \in Requests \ {r} : sesWrite[q] # NoSession =>
                sesWrite[q].id # sesWrite[r].id /\ KeyIsId(sesWrite[q], sesWrite[r])
          /\ WrittenRow(r)

TableInv == Calls /\ RegRows /\ SesRows /\ Asked

-----------------------------------------------------------------------------

(* The row r's creation returned is in the table, as r's.                  *)
Kept(r) ==
    \E s \in sessions : OwnRow(s, r) /\ s.id = result[r][1].id /\ s.name = body[r]

TakenBefore(r) == \E s \in sessions : OwnRow(s, r) /\ s.name = body[r]

EachOnce(rows) == \A i, j \in DOMAIN rows : i # j => rows[i].id # rows[j].id

(* r's list has r's rows, each once and in order, and what earlier         *)
(* creations returned.                                                     *)
ListedWell(r) ==
    /\ \A s \in ToSet(result[r]) : OwnRow(s, r)
    /\ EachOnce(result[r]) /\ LatestFirst(result[r])
    /\ \A q \in before[r] : Done(q, "create", "ok") /\ owner[q] = owner[r] =>
          \E s \in ToSet(result[r]) : s.id = result[q][1].id /\ s.name = body[q]

Explained(r) == <<r, "track">> \in warned

(* What r knows of the tables stays true until and after it is answered.   *)
Facts(r) ==
    /\ result[r] \in Seq(SessionRow)
    /\ phase[r] \notin {"idle", "admitted", "track", "done"} =>
          Explained(r) \/ Registered(caller[r])
    /\ phase[r] = "create" /\ step[r] = "commit" /\ result[r] # <<>> =>
          sesWrite[r] # NoSession
    /\ (phase[r] = "create" /\ step[r] = "commit") \/ phase[r] = "created" =>
          result[r] # <<>> \/ Explained(r)
    /\ (phase[r] = "created" /\ result[r] # <<>>) \/ Done(r, "create", "ok") => Kept(r)
    /\ phase[r] = "conflict" \/ Done(r, "create", "conflict") => TakenBefore(r)
    /\ \/ phase[r] = "list" /\ step[r] = "commit"
       \/ phase[r] = "listed"
       \/ Done(r, "list", "ok")
       => ListedWell(r)

AnswerInv == \A r \in Requests : Facts(r)

-----------------------------------------------------------------------------
(* Calls, connections and locks.                                           *)

(* A request enters a call, or goes on outside of any.                     *)
LEMMA MoveKeepsCalls ==
  ASSUME NEW r \in Requests, NEW p \in Phases, NEW st \in {"idle", "wait"},
         ServerTypes, Calls, phase[r] \notin CallPhases, st = "wait" <=> p \in CallPhases,
         phase' = [phase EXCEPT ![r] = p], step' = [step EXCEPT ![r] = st],
         UNCHANGED <<conns, clock, txStart, regWrite, sesWrite, warned>>
  PROVE  Calls'
<1>1. step[r] = "idle" /\ regWrite[r] = NoRow /\ sesWrite[r] = NoSession
  BY DEF Calls, CallPhases, SessionPhases
<1>2. step' \in [Requests -> Steps]
  BY DEF Calls, Steps
<1>3. \A q \in Requests \ {r} : step'[q] = step[q] /\ phase'[q] = phase[q]
  BY DEF Calls, ServerTypes
<1>4. step'[r] = st /\ phase'[r] = p
  BY DEF Calls, ServerTypes
<1>5. ConnsAccounted'
  BY <1>1, <1>3, <1>4, ConnKept DEF Calls
<1> QED
  BY <1>1, <1>2, <1>3, <1>4, <1>5 DEF Calls

LEMMA CheckoutKeepsCalls ==
  ASSUME NEW r \in Requests, ServerTypes, Calls, Checkout(r), UNCHANGED sesWrite
  PROVE  Calls'
<1> USE DEF Checkout
<1>1. ConnsAccounted'
  BY ConnTaken DEF Calls
<1>2. step' \in [Requests -> Steps] /\ txStart' \in [Requests -> Nat] /\ clock' \in Nat
  BY DEF Calls, Steps
<1>3. /\ step'[r] = "exec" /\ regWrite[r] = NoRow /\ sesWrite[r] = NoSession
      /\ \A q \in Requests \ {r} : step'[q] = step[q]
  BY DEF Calls
<1> QED
  BY <1>1, <1>2, <1>3 DEF Calls

(* A statement is executed, in the call that is under way.                 *)
LEMMA StatementKeepsCalls ==
  ASSUME NEW r \in Requests, NEW st \in {"fetch", "insert", "commit"},
         ServerTypes, Calls, step[r] \notin {"idle", "wait"},
         st \in {"fetch", "insert"} => phase[r] = "track",
         step' = [step EXCEPT ![r] = st],
         \A q \in Requests \ {r} : regWrite'[q] = regWrite[q] /\ sesWrite'[q] = sesWrite[q],
         regWrite'[r] # NoRow <=> phase[r] = "track" /\ st = "commit",
         sesWrite'[r] # NoSession => phase[r] \in {"create", "touch"} /\ st = "commit",
         UNCHANGED <<phase, conns, clock, txStart, warned>>
  PROVE  Calls'
<1>1. /\ step'[r] = st /\ \A q \in Requests \ {r} : step'[q] = step[q]
      /\ step' \in [Requests -> Steps]
  BY DEF Calls, Steps
<1>2. ConnsAccounted'
  BY <1>1, ConnKept DEF Calls
<1> QED
  BY <1>1, <1>2 DEF Calls

(* A call ends, whichever way.                                             *)
LEMMA LeaveKeepsCalls ==
  ASSUME NEW r \in Requests, NEW p \in Phases \ CallPhases,
         ServerTypes, Calls, Leave(r, p), regWrite \in [Requests -> Row],
         \A q \in Requests \ {r} : sesWrite'[q] = sesWrite[q],
         sesWrite'[r] = NoSession,
         warned' \subseteq Requests \X {"track", "touch"},
         UNCHANGED <<clock, txStart>>
  PROVE  Calls'
<1>1. ConnsAccounted'
  BY ConnReturned DEF Calls
<1>2. /\ step' \in [Requests -> Steps] /\ step'[r] = "idle" /\ phase'[r] = p
      /\ regWrite'[r] = NoRow
      /\ \A q \in Requests \ {r} : /\ step'[q] = step[q] /\ phase'[q] = phase[q]
                                   /\ regWrite'[q] = regWrite[q]
  BY DEF Calls, Steps, Leave, ServerTypes
<1> QED
  BY <1>1, <1>2 DEF Calls

LEMMA CrashKeepsCalls ==
  ASSUME ServerTypes, Calls, Crash
  PROVE  Calls'
<1> USE DEF Crash
<1>1. ConnsAccounted'
  BY FS_EmptySet, PoolAssumption DEF ConnsAccounted
<1>2. \A r \in Requests : phase'[r] \notin CallPhases
  BY DEF InFlight, CallPhases, SessionPhases
<1> QED
  BY <1>1, <1>2 DEF Calls, Steps

-----------------------------------------------------------------------------
(* user_registry.                                                          *)

(* Rows of user_registry stay whose they are.                              *)
RegGrown == \A u \in Users : Registered(u) => /\ Registered(u)'
                                              /\ registry'[u].id = registry[u].id

(* No row is written or committed; some may be rolled back.                *)
LEMMA RegKept ==
  ASSUME RegRows, UNCHANGED <<registry, regSeq>>, regWrite' \in [Requests -> Row],
         \A q \in Requests :
            regWrite'[q] = NoRow \/ (regWrite'[q] = regWrite[q] /\ caller'[q] = caller[q])
  PROVE  RegRows' /\ RegGrown
<1>1. IdsDrawn' /\ RegGrown
  BY NoRowIsRow DEF RegRows, IdsDrawn, RegGrown, Registered
<1>2. IdsDistinct'
  <2>1. \A q \in Requests : regWrite[q] # NoRow => regWrite[q].id # 0
    BY DEF RegRows, IdsDrawn
  <2>2. \A u, v \in Users : Registered(u)' /\ u # v => registry'[u].id # registry'[v].id
    BY DEF RegRows, IdsDistinct, Registered
  <2>3. ASSUME NEW q \in Requests, regWrite'[q] # NoRow
        PROVE  /\ \A u \in Users \ {caller'[q]} : registry'[u].id # regWrite'[q].id
               /\ \A x \in Requests \ {q} : regWrite'[x].id # regWrite'[q].id
    <3>1. regWrite'[q] = regWrite[q] /\ caller'[q] = caller[q] /\ regWrite[q].id # 0
      BY <2>1, <2>3
    <3>2. \A x \in Requests \ {q} : regWrite[x].id # regWrite[q].id
      BY <2>3, <3>1 DEF RegRows, IdsDistinct
    <3> QED
      BY <2>3, <3>1, <3>2, NoRowIsRow DEF RegRows, IdsDistinct
  <2> QED
    BY <2>2, <2>3 DEF IdsDistinct
<1>3. \A r \in Requests : regWrite'[r] # NoRow =>
          /\ caller'[r] \in Users
          /\ \A q \in Requests \ {r} : regWrite'[q] # NoRow => caller'[q] # caller'[r]
          /\ registry'[caller'[r]] # NoRow =>
                /\ regWrite'[r].id = registry'[caller'[r]].id
                /\ regWrite'[r].first = registry'[caller'[r]].first
          /\ registry'[caller'[r]] = NoRow => regWrite'[r].first = regWrite'[r].last
  BY DEF RegRows, Registered
<1> QED
  BY <1>1, <1>2, <1>3 DEF RegRows, Registered

(* A transaction writes the row of a user no other one has written.        *)
LEMMA RegWritten ==
  ASSUME NEW r \in Requests, NEW w \in Row, RegRows,
         regWrite[r] = NoRow, caller[r] \in Users, ~Locked(r, caller[r]),
         regWrite' = [regWrite EXCEPT ![r] = w], UNCHANGED <<registry, caller>>,
         w.id # 0, regSeq' \in {regSeq, regSeq + 1},
         Registered(caller[r]) => /\ w.id = registry[caller[r]].id
                                  /\ w.first = registry[caller[r]].first,
         ~Registered(caller[r]) => /\ w.id = regSeq + 1 /\ regSeq' = regSeq + 1
                                   /\ w.first = w.last
  PROVE  RegRows' /\ RegGrown
<1> DEFINE u == caller[r]
<1>1. /\ regWrite'[r] = w /\ \A q \in Requests \ {r} : regWrite'[q] = regWrite[q]
      /\ regWrite' \in [Requests -> Row] /\ regSeq \in Nat /\ registry[u] \in Row
      /\ w # NoRow
  BY NoRowIsRow DEF RegRows
<1>2. IdsDrawn'
  <2>1. \A v \in Users : registry[v].id <= regSeq'
    BY <1>1 DEF RegRows, IdsDrawn, Row
  <2>2. \A q \in Requests : regWrite'[q].id <= regSeq'
    BY <1>1 DEF RegRows, IdsDrawn, Row
  <2> QED
    BY <1>1, <2>1, <2>2 DEF RegRows, IdsDrawn
<1>3. IdsDistinct'
  <2>1. \A q \in Requests \ {r} : regWrite[q].id # w.id
    <3> SUFFICES ASSUME NEW q \in Requests \ {r}
                 PROVE  regWrite[q].id # w.id
      OBVIOUS
    <3>1. CASE regWrite[q] = NoRow
      BY <3>1, NoRowIsRow
    <3>2. CASE regWrite[q] # NoRow /\ Registered(u)
      BY <3>2 DEF Locked, RegRows, IdsDistinct
    <3>3. CASE regWrite[q] # NoRow /\ ~Registered(u)
      BY <3>3, <1>1 DEF RegRows, IdsDrawn, Row
    <3> QED
      BY <3>1, <3>2, <3>3
  <2>2. \A v \in Users \ {u} : registry[v].id # w.id
    BY <1>1 DEF RegRows, IdsDistinct, IdsDrawn, Registered, Row
  <2> QED
    BY <1>1, <2>1, <2>2 DEF RegRows, IdsDistinct, Registered
<1>4. \A q \in Requests : regWrite'[q] # NoRow =>
          /\ caller[q] \in Users
          /\ \A x \in Requests \ {q} : regWrite'[x] # NoRow => caller[x] # caller[q]
          /\ Registered(caller[q]) => /\ regWrite'[q].id = registry[caller[q]].id
                                      /\ regWrite'[q].first = registry[caller[q]].first
          /\ ~Registered(caller[q]) => regWrite'[q].first = regWrite'[q].last
  BY <1>1 DEF RegRows, Locked
<1> QED
  BY <1>1, <1>2, <1>3, <1>4 DEF RegRows, RegGrown, Registered

(* The row a transaction has written is committed.                         *)
LEMMA RegCommitted ==
  ASSUME NEW r \in Requests, RegRows, regWrite[r] # NoRow,
         registry' = [registry EXCEPT ![caller[r]] = regWrite[r]],
         regWrite' = [regWrite EXCEPT ![r] = NoRow], UNCHANGED <<regSeq, caller>>
  PROVE  RegRows' /\ RegGrown
<1> DEFINE u == caller[r]
<1>1. u \in Users /\ regWrite[r] \in Row /\ regWrite[r].id # 0
  BY DEF RegRows, IdsDrawn
<1>2. /\ registry'[u] = regWrite[r]
      /\ \A v \in Users \ {u} : registry'[v] = registry[v]
      /\ regWrite'[r] = NoRow
      /\ \A q \in Requests \ {r} : regWrite'[q] = regWrite[q]
      /\ registry' \in [Users -> Row] /\ regWrite' \in [Requests -> Row]
  BY <1>1, NoRowIsRow DEF RegRows
<1>3. RegGrown
  BY <1>1, <1>2 DEF RegRows, RegGrown, Registered
<1>4. IdsDrawn'
  BY <1>1, <1>2, NoRowIsRow DEF RegRows, IdsDrawn
<1>5. IdsDistinct'
  <2>1. \A v, w \in Users : Registered(v)' /\ v # w => registry'[v].id # registry'[w].id
    BY <1>1, <1>2 DEF RegRows, IdsDistinct, Registered
  <2>2. ASSUME NEW q \in Requests, regWrite'[q] # NoRow
        PROVE  /\ \A v \in Users \ {caller'[q]} : registry'[v].id # regWrite'[q].id
               /\ \A x \in Requests \ {q} : regWrite'[x].id # regWrite'[q].id
    <3>1. q # r /\ regWrite[q] # NoRow /\ regWrite'[q] = regWrite[q]
      BY <1>2, <2>2
    <3>2. regWrite[r].id # regWrite[q].id /\ regWrite[q].id # 0
      BY <3>1 DEF RegRows, IdsDistinct, IdsDrawn
    <3> QED
      BY <1>2, <3>1, <3>2, NoRowIsRow DEF RegRows, IdsDistinct
  <2> QED
    BY <2>1, <2>2 DEF IdsDistinct
<1>6. \A q \in Requests : regWrite'[q] # NoRow =>
          /\ caller[q] \in Users
          /\ \A x \in Requests \ {q} : regWrite'[x] # NoRow => caller[x] # caller[q]
          /\ registry'[caller[q]] = registry[caller[q]]
  BY <1>2 DEF RegRows
<1> QED
  BY <1>2, <1>3, <1>4, <1>5, <1>6 DEF RegRows, Registered

-----------------------------------------------------------------------------
(* user_sessions.                                                          *)

(* Rows of user_sessions stay, as whose and under which name they are.     *)
SesGrown ==
    \A s \in sessions : \E t \in sessions' : t.id = s.id /\ t.reg = s.reg /\ t.name = s.name

LEMMA NoSessionIsRow == NoSession \in SessionRow /\ NoSession.id = 0
BY DEF NoSession, SessionRow

(* No row is written or committed; some may be rolled back.                *)
LEMMA SesKept ==
  ASSUME SesRows, RegGrown, UNCHANGED sessions, sesSeq' \in {sesSeq, sesSeq + 1},
         sesWrite' \in [Requests -> SessionRow],
         \A q \in Requests :
            \/ sesWrite'[q] = NoSession
            \/ /\ sesWrite'[q] = sesWrite[q] /\ phase'[q] = phase[q]
               /\ caller'[q] = caller[q] /\ sesArg'[q] = sesArg[q]
               /\ txStart'[q] = txStart[q] /\ result'[q] = result[q]
  PROVE  SesRows' /\ SesGrown
<1>1. SesGrown
  BY DEF SesGrown
<1>2. sesSeq' \in Nat /\ 1..sesSeq \subseteq 1..sesSeq'
  BY DEF SesRows
<1>3. \A s \in sessions : s.id \in 1..sesSeq' /\ s.name \in Names /\ OfUser(s)'
  BY <1>2 DEF SesRows, OfUser, RegGrown
<1>4. ASSUME NEW q \in Requests, sesWrite'[q] # NoSession
      PROVE  /\ sesWrite'[q] = sesWrite[q] /\ sesWrite'[q].id \in 1..sesSeq'
             /\ Registered(caller[q])' /\ caller'[q] \in Users /\ caller'[q] = caller[q]
             /\ WrittenRow(q)'
  <2>1. /\ sesWrite'[q] = sesWrite[q] /\ phase'[q] = phase[q]
        /\ caller'[q] = caller[q] /\ sesArg'[q] = sesArg[q]
        /\ txStart'[q] = txStart[q] /\ result'[q] = result[q]
    BY <1>4
  <2>2. /\ registry'[caller[q]] # NoRow /\ caller[q] \in Users
        /\ registry'[caller[q]].id = registry[caller[q]].id
    BY <1>4, <2>1 DEF SesRows, RegGrown, Registered
  <2>3. WrittenRow(q)'
    BY <1>4, <2>1, <2>2 DEF SesRows, WrittenRow
  <2> QED
    BY <1>2, <1>4, <2>1, <2>2, <2>3 DEF SesRows, Registered
<1> QED
  BY <1>1, <1>2, <1>3, <1>4 DEF SesRows, KeyIsId, SameKey

(* A transaction writes a row no other one has written, for its caller.    *)
LEMMA SesWritten ==
  ASSUME NEW r \in Requests, NEW w \in SessionRow, SesRows,
         sesWrite' = [sesWrite EXCEPT ![r] = w],
         UNCHANGED <<sessions, registry, caller, phase, sesArg, txStart>>,
         \A q \in Requests \ {r} : result'[q] = result[q],
         sesSeq' \in {sesSeq, sesSeq + 1}, w.id \in 1..sesSeq', w.name \in Names,
         Registered(caller[r]), caller[r] \in Users,
         \A s \in sessions : KeyIsId(s, w),
         \A q \in Requests \ {r} : sesWrite[q] # NoSession =>
             sesWrite[q].id # w.id /\ KeyIsId(sesWrite[q], w),
         WrittenRow(r)'
  PROVE  SesRows' /\ SesGrown
<1>1. SesGrown
  BY DEF SesGrown
<1>2. sesSeq' \in Nat /\ 1..sesSeq \subseteq 1..sesSeq'
  BY DEF SesRows
<1>3. /\ sesWrite'[r] = w /\ \A q \in Requests \ {r} : sesWrite'[q] = sesWrite[q]
      /\ sesWrite' \in [Requests -> SessionRow]
  BY DEF SesRows
<1>4. \A s \in sessions : s.id \in 1..sesSeq' /\ s.name \in Names /\ OfUser(s)'
  BY <1>2 DEF SesRows, OfUser, Registered
<1>5. ASSUME NEW q \in Requests \ {r}, sesWrite'[q] # NoSession
      PROVE  WrittenRow(q)'
  BY <1>3, <1>5 DEF SesRows, WrittenRow
<1>6. ASSUME NEW q \in Requests, sesWrite'[q] # NoSession
      PROVE  /\ sesWrite'[q].id \in 1..sesSeq' /\ sesWrite'[q].name \in Names
             /\ Registered(caller[q]) /\ caller[q] \in Users
             /\ \A s \in sessions : KeyIsId(s, sesWrite'[q])
             /\ \A x \in Requests \ {q} : sesWrite'[x] # NoSession =>
                   sesWrite'[x].id # sesWrite'[q].id /\ KeyIsId(sesWrite'[x], sesWrite'[q])
             /\ WrittenRow(q)'
  <2>1. CASE q = r
    BY <1>3, <2>1
  <2>2. CASE q # r
    <3>1. sesWrite'[q] = sesWrite[q] /\ sesWrite[q] # NoSession
      BY <1>3, <1>6, <2>2
    <3>2. \A x \in Requests \ {q} : sesWrite'[x] # NoSession =>
              sesWrite'[x].id # sesWrite[q].id /\ KeyIsId(sesWrite'[x], sesWrite[q])
      BY <1>3, <2>2, <3>1 DEF SesRows, KeyIsId, SameKey
    <3> QED
      BY <1>2, <1>5, <1>6, <2>2, <3>1, <3>2 DEF SesRows
  <2> QED
    BY <2>1, <2>2
<1> QED
  BY <1>1, <1>2, <1>3, <1>4, <1>6 DEF SesRows, Registered

(* A transaction that wrote a row commits it.                              *)
LEMMA SesCommitted ==
  ASSUME NEW r \in Requests, SesRows, sesWrite[r] # NoSession,
         phase[r] \in {"create", "touch"},
         sessions' = Committed(r), sesWrite' = [sesWrite EXCEPT ![r] = NoSession],
         UNCHANGED <<registry, caller, sesSeq, sesArg, txStart, result>>,
         \A q \in Requests \ {r} : phase'[q] = phase[q]
  PROVE  SesRows' /\ SesGrown
<1> DEFINE w == sesWrite[r]
           rest == {s \in sessions : s.id # w.id}
<1>1. sessions' = rest \cup {w}
  BY DEF Committed
<1>2. /\ w \in SessionRow /\ w.id \in 1..sesSeq /\ w.name \in Names /\ OfUser(w)
      /\ \A s \in sessions : KeyIsId(s, w)
  <2>1. OfUser(w)
    <3>1. Registered(caller[r]) /\ caller[r] \in Users
      BY DEF SesRows
    <3>2. w.reg = registry[caller[r]].id
      BY DEF SesRows, WrittenRow, SessionRow
    <3> QED
      BY <3>1, <3>2 DEF OfUser
  <2> QED
    BY <2>1 DEF SesRows
<1>3. SesGrown
  BY <1>1, <1>2 DEF SesGrown, KeyIsId, SameKey
<1>4. sessions' \subseteq SessionRow /\ IsFiniteSet(sessions')
  <2>1. IsFiniteSet(rest)
    BY FS_Subset DEF SesRows
  <2>2. IsFiniteSet(sessions')
    BY <1>1, <2>1, FS_AddElement
  <2> QED
    BY <1>1, <1>2, <2>2 DEF SesRows
<1>5. \A s \in sessions' : s.id \in 1..sesSeq /\ s.name \in Names /\ OfUser(s)'
  BY <1>1, <1>2 DEF SesRows, OfUser, Registered
<1>6. \A s, t \in sessions' : KeyIsId(s, t) /\ (s.id = t.id => s = t)
  BY <1>1, <1>2 DEF SesRows, KeyIsId, SameKey
<1>7. /\ sesWrite'[r] = NoSession /\ \A q \in Requests \ {r} : sesWrite'[q] = sesWrite[q]
      /\ sesWrite' \in [Requests -> SessionRow]
  BY NoSessionIsRow DEF SesRows
<1>8. ASSUME NEW q \in Requests, sesWrite'[q] # NoSession
      PROVE  /\ \A s \in sessions' : KeyIsId(s, sesWrite[q])
             /\ WrittenRow(q)'
  <2>1. q # r /\ sesWrite[q] # NoSession /\ sesWrite'[q] = sesWrite[q] /\ phase'[q] = phase[q]
    BY <1>7, <1>8
  <2>2. w.id # sesWrite[q].id /\ KeyIsId(w, sesWrite[q])
    BY <2>1 DEF SesRows
  <2>3. \A s \in sessions' : KeyIsId(s, sesWrite[q])
    BY <1>1, <2>1, <2>2 DEF SesRows
  <2>4. phase[q] = "touch" =>
          \E s \in sessions' : /\ s.id = sesArg[q] /\ s.reg = registry[caller[q]].id
                               /\ sesWrite[q] = [s EXCEPT !.access = txStart[q]]
    <3> SUFFICES ASSUME phase[q] = "touch"
                 PROVE  \E s \in sessions' :
                          /\ s.id = sesArg[q] /\ s.reg = registry[caller[q]].id
                          /\ sesWrite[q] = [s EXCEPT !.access = txStart[q]]
      OBVIOUS
    <3>1. PICK s \in sessions : /\ s.id = sesArg[q] /\ s.reg = registry[caller[q]].id
                                /\ sesWrite[q] = [s EXCEPT !.access = txStart[q]]
      BY <2>1 DEF SesRows, WrittenRow
    <3>2. s.id = sesWrite[q].id
      BY <3>1 DEF SesRows, SessionRow
    <3> QED
      BY <1>1, <2>2, <3>1, <3>2
  <2>5. phase[q] = "create" => /\ \A s \in sessions' : s.id # sesWrite[q].id
                               /\ result[q] = <<sesWrite[q]>>
                               /\ sesWrite[q].reg = registry[caller[q]].id
                               /\ sesWrite[q].name = sesArg[q]
    BY <1>1, <2>1, <2>2 DEF SesRows, WrittenRow
  <2> QED
    BY <2>1, <2>3, <2>4, <2>5 DEF WrittenRow
<1>9. \A q \in Requests : sesWrite'[q] # NoSession =>
        /\ sesWrite'[q] = sesWrite[q]
        /\ sesWrite[q].id \in 1..sesSeq /\ sesWrite[q].name \in Names
        /\ Registered(caller[q]) /\ caller[q] \in Users
        /\ \A x \in Requests \ {q} : sesWrite'[x] # NoSession =>
              sesWrite'[x].id # sesWrite[q].id /\ KeyIsId(sesWrite'[x], sesWrite[q])
  BY <1>7 DEF SesRows
<1> HIDE DEF rest, w
<1> QED
  BY <1>3, <1>4, <1>5, <1>6, <1>7, <1>8, <1>9 DEF SesRows, Registered

-----------------------------------------------------------------------------
(* The actions.                                                            *)

Grown == RegGrown /\ SesGrown

Tables == Calls /\ RegRows /\ SesRows

LEMMA TableInit == ServerInit => TableInv
<1> SUFFICES ASSUME ServerInit PROVE TableInv
  OBVIOUS
<1> USE DEF ServerInit, DbInit, SesInit
<1>1. Calls
  <2>1. ConnsAccounted
    BY FS_EmptySet, PoolAssumption DEF ConnsAccounted
  <2> QED
    BY <2>1, RegistryAssumption DEF Calls, Steps, CallPhases, SessionPhases
<1>2. RegRows
  BY RegistryAssumption, NoRowIsRow DEF RegRows, IdsDrawn, IdsDistinct, Registered
<1>3. SesRows
  <2>1. ASSUME NEW s \in Sessions0
        PROVE  s \in SessionRow /\ s.id \in 1..Past /\ s.name \in Names /\ OfUser(s)
    <3>1. /\ s \in SessionRow /\ s.id \in 1..Past /\ s.name \in Names
          /\ \E u \in Users : Registry0[u].id = s.reg /\ s.reg # 0
      BY SessionsAssumption
    <3> QED
      BY <3>1, NoRowIsRow DEF OfUser, Registered
  <2>2. \A s, t \in Sessions0 : KeyIsId(s, t) /\ (s.id = t.id => s = t)
    BY SessionsAssumption DEF KeyIsId, SameKey
  <2> QED
    BY <2>1, <2>2, SessionsAssumption, RegistryAssumption, NoSessionIsRow DEF SesRows
<1>4. Asked
  BY AskedInit
<1> QED
  BY <1>1, <1>2, <1>3, <1>4 DEF TableInv

(* Outside of its calls a request does nothing to the tables, and entering *)
(* one it only asks for a connection.                                      *)
LEMMA OutsideKeepsTables ==
  ASSUME NEW r \in Requests, NEW p \in Phases, NEW st \in {"idle", "wait"},
         ServerInv, Tables, phase[r] \notin CallPhases, st = "wait" <=> p \in CallPhases,
         phase' = [phase EXCEPT ![r] = p], step' = [step EXCEPT ![r] = st],
         \A q \in Requests \ {r} : caller'[q] = caller[q] /\ sesArg'[q] = sesArg[q],
         UNCHANGED <<conns, clock, txStart, registry, regWrite, regSeq, warned,
                     sessions, sesWrite, sesSeq, result>>
  PROVE  Tables' /\ Grown
<1> USE DEF Tables, ServerInv
<1>1. regWrite[r] = NoRow /\ sesWrite[r] = NoSession
  BY DEF Calls, CallPhases, SessionPhases
<1>2. Calls'
  BY MoveKeepsCalls
<1>3. RegRows' /\ RegGrown
  <2>1. regWrite' \in [Requests -> Row]
    BY DEF RegRows
  <2>2. \A q \in Requests : regWrite'[q] = NoRow
                            \/ (regWrite'[q] = regWrite[q] /\ caller'[q] = caller[q])
    BY <1>1
  <2> QED
    BY <2>1, <2>2, RegKept
<1>4. SesRows' /\ SesGrown
  <2>1. sesWrite' \in [Requests -> SessionRow]
    BY DEF SesRows
  <2>2. \A q \in Requests \ {r} : phase'[q] = phase[q]
    BY DEF ServerTypes
  <2>3. \A q \in Requests :
          \/ sesWrite'[q] = NoSession
          \/ /\ sesWrite'[q] = sesWrite[q] /\ phase'[q] = phase[q]
             /\ caller'[q] = caller[q] /\ sesArg'[q] = sesArg[q]
             /\ txStart'[q] = txStart[q] /\ result'[q] = result[q]
    BY <1>1, <2>2
  <2> QED
    BY <1>3, <2>1, <2>3, SesKept
<1> QED
  BY <1>2, <1>3, <1>4 DEF Grown

(* A statement that writes nothing of its own, or the end of a call that   *)
(* commits nothing.                                                        *)
LEMMA QuietKeepsRows ==
  ASSUME NEW r \in Requests, ServerInv, Tables,
         \A q \in Requests \ {r} : /\ phase'[q] = phase[q] /\ txStart'[q] = txStart[q]
                                   /\ result'[q] = result[q],
         UNCHANGED <<caller, registry, sessions, sesArg, regSeq>>,
         sesSeq' \in {sesSeq, sesSeq + 1},
         regWrite' = regWrite \/ regWrite' = [regWrite EXCEPT ![r] = NoRow],
         sesWrite' = sesWrite \/ sesWrite' = [sesWrite EXCEPT ![r] = NoSession],
         sesWrite[r] = NoSession \/ sesWrite'[r] = NoSession
  PROVE  RegRows' /\ SesRows' /\ Grown
<1> USE DEF Tables
<1>1. RegRows' /\ RegGrown
  <2>1. regWrite' \in [Requests -> Row]
    BY NoRowIsRow DEF RegRows
  <2>2. \A q \in Requests : regWrite'[q] = NoRow
                            \/ (regWrite'[q] = regWrite[q] /\ caller'[q] = caller[q])
    BY DEF RegRows
  <2> QED
    BY <2>1, <2>2, RegKept
<1>2. SesRows' /\ SesGrown
  <2>1. sesWrite' \in [Requests -> SessionRow]
    BY NoSessionIsRow DEF SesRows
  <2>2. sesWrite'[r] = NoSession /\ \A q \in Requests \ {r} : sesWrite'[q] = sesWrite[q]
    BY DEF SesRows
  <2>3. \A q \in Requests :
          \/ sesWrite'[q] = NoSession
          \/ /\ sesWrite'[q] = sesWrite[q] /\ phase'[q] = phase[q]
             /\ caller'[q] = caller[q] /\ sesArg'[q] = sesArg[q]
             /\ txStart'[q] = txStart[q] /\ result'[q] = result[q]
    BY <2>2
  <2> QED
    BY <1>1, <2>1, <2>3, SesKept
<1> QED
  BY <1>1, <1>2 DEF Grown

LEMMA TrackKeepsTables ==
  ASSUME NEW r \in Requests, ServerInv, Tables, Checkout(r) \/ TrackStep(r),
         UNCHANGED <<sesVars, srvVars>>
  PROVE  Tables' /\ Grown
<1> USE DEF Tables, ServerInv, sesVars
<1>0. /\ phase[r] = "track" /\ step[r] # "idle" => caller[r] \in Users /\ sesWrite[r] = NoSession
      /\ step[r] # "commit" => sesWrite[r] = NoSession /\ regWrite[r] = NoRow
      /\ \A q \in Requests \ {r} : Leave(r, "tracked") => phase'[q] = phase[q]
  BY DEF Calls, Identified, Leave, ServerTypes
<1>1. CASE Checkout(r)
  <2>1. Calls'
    BY <1>1, CheckoutKeepsCalls
  <2>2. \A q \in Requests \ {r} : txStart'[q] = txStart[q]
    BY <1>1 DEF Checkout, Calls
  <2> QED
    BY <1>0, <1>1, <2>1, <2>2, QuietKeepsRows DEF Checkout
<1>2. CASE UpdateMiss(r) \/ Fetched(r)
  <2>1. PICK st \in {"fetch", "insert"} : step' = [step EXCEPT ![r] = st]
    BY <1>2 DEF UpdateMiss, Fetched
  <2>2. Calls'
    BY <1>0, <1>2, <2>1, StatementKeepsCalls DEF UpdateMiss, Fetched
  <2> QED
    BY <1>0, <1>2, <2>2, QuietKeepsRows DEF UpdateMiss, Fetched
<1>3. CASE UpdateHit(r) \/ InsertRow(r)
  <2>1. /\ phase[r] = "track" /\ step[r] \in {"exec", "insert"} /\ ~Locked(r, caller[r])
        /\ step' = [step EXCEPT ![r] = "commit"]
        /\ UNCHANGED <<phase, caller, conns, clock, txStart, registry, warned>>
    BY <1>3 DEF UpdateHit, InsertRow
  <2>2. /\ caller[r] \in Users /\ regWrite[r] = NoRow /\ sesWrite[r] = NoSession
        /\ registry[caller[r]] \in Row /\ txStart[r] \in Nat /\ regSeq \in Nat
        /\ Registered(caller[r]) => registry[caller[r]].id # 0
    BY <1>0, <2>1 DEF RegRows, Calls, IdsDrawn, Registered
  <2>3. \E w \in Row :
          /\ regWrite' = [regWrite EXCEPT ![r] = w] /\ w.id # 0
          /\ regSeq' \in {regSeq, regSeq + 1}
          /\ Registered(caller[r]) => /\ w.id = registry[caller[r]].id
                                      /\ w.first = registry[caller[r]].first
          /\ ~Registered(caller[r]) => /\ w.id = regSeq + 1 /\ regSeq' = regSeq + 1
                                       /\ w.first = w.last
    <3>1. CASE UpdateHit(r)
      <4> DEFINE w == [registry[caller[r]] EXCEPT !.last = txStart[r]]
      <4>1. /\ w \in Row /\ w.id = registry[caller[r]].id
            /\ w.first = registry[caller[r]].first
        BY <2>2 DEF Row
      <4>2. Registered(caller[r]) /\ regWrite' = [regWrite EXCEPT ![r] = w] /\ regSeq' = regSeq
        BY <3>1 DEF UpdateHit
      <4> HIDE DEF w
      <4> QED
        BY <2>2, <4>1, <4>2
    <3>2. CASE InsertRow(r)
      <4> DEFINE w == Upsert(caller[r], txStart[r])
      <4>1. /\ w \in Row /\ w.id # 0
            /\ Registered(caller[r]) => /\ w.id = registry[caller[r]].id
                                        /\ w.first = registry[caller[r]].first
            /\ ~Registered(caller[r]) => w.id = regSeq + 1 /\ w.first = w.last
        BY <2>2 DEF Upsert, Row
      <4>2. regWrite' = [regWrite EXCEPT ![r] = w] /\ regSeq' = regSeq + 1
        BY <3>2 DEF InsertRow
      <4> HIDE DEF w
      <4> QED
        BY <2>2, <4>1, <4>2
    <3> QED
      BY <1>3, <3>1, <3>2
  <2>4. RegRows' /\ RegGrown
    BY <2>1, <2>2, <2>3, RegWritten
  <2>5. Calls'
    <3>1. /\ \A q \in Requests \ {r} : regWrite'[q] = regWrite[q]
          /\ regWrite'[r] # NoRow
      BY <2>3, NoRowIsRow DEF RegRows
    <3> QED
      BY <2>1, <2>2, <3>1, StatementKeepsCalls
  <2>6. SesRows' /\ SesGrown
    BY <2>1, <2>4, SesKept DEF SesRows
  <2> QED
    BY <2>4, <2>5, <2>6 DEF Grown
<1>4. CASE CommitTrack(r) \/ CommitTrackUnknown(r) \/ FailTrack(r)
  <2>1. /\ phase[r] = "track" /\ step[r] # "idle" /\ Leave(r, "tracked")
        /\ warned' \in {warned, warned \cup {<<r, "track">>}}
        /\ UNCHANGED <<caller, clock, txStart, regSeq>>
    BY <1>4 DEF CommitTrack, CommitTrackUnknown, FailTrack, CanFail
  <2>2. Calls'
    <3>1. warned' \subseteq Requests \X {"track", "touch"}
      BY <2>1 DEF Calls
    <3>2. "tracked" \in Phases \ CallPhases /\ sesWrite[r] = NoSession
      BY <1>0, <2>1 DEF Phases, CallPhases, SessionPhases
    <3> QED
      BY <2>1, <3>1, <3>2, LeaveKeepsCalls DEF RegRows
  <2>3. CASE FailTrack(r)
    BY <1>0, <2>1, <2>2, <2>3, QuietKeepsRows DEF FailTrack, Leave
  <2>4. CASE CommitTrack(r) \/ CommitTrackUnknown(r)
    <3>1. /\ regWrite[r] # NoRow
          /\ registry' = [registry EXCEPT ![caller[r]] = regWrite[r]]
          /\ regWrite' = [regWrite EXCEPT ![r] = NoRow]
      BY <2>1, <2>4 DEF CommitTrack, CommitTrackUnknown, Calls, Leave
    <3>2. RegRows' /\ RegGrown
      BY <2>1, <3>1, RegCommitted
    <3>3. SesRows' /\ SesGrown
      <4>1. \A q \in Requests :
              \/ sesWrite'[q] = NoSession
              \/ /\ sesWrite'[q] = sesWrite[q] /\ phase'[q] = phase[q]
                 /\ caller'[q] = caller[q] /\ sesArg'[q] = sesArg[q]
                 /\ txStart'[q] = txStart[q] /\ result'[q] = result[q]
        BY <1>0, <2>1
      <4> QED
        BY <3>2, <4>1, SesKept DEF SesRows
    <3> QED
      BY <2>2, <3>2, <3>3 DEF Grown
  <2> QED
    BY <1>4, <2>3, <2>4
<1> QED
  BY <1>1, <1>2, <1>3, <1>4 DEF TrackStep, TrackProgress

(* A session statement that writes no row.                                 *)
LEMMA ReadKeepsTables ==
  ASSUME NEW r \in Requests, ServerInv, Tables, Asked, UNCHANGED srvVars,
         SelectSessions(r) \/ InsertNothing(r) \/ TouchNothing(r)
  PROVE  Tables' /\ Grown
<1> USE DEF Tables, ServerInv
<1>1. /\ phase[r] \in SessionPhases /\ step[r] = "exec"
      /\ step' = [step EXCEPT ![r] = "commit"]
      /\ \E rows : result' = [result EXCEPT ![r] = rows]
      /\ UNCHANGED <<phase, caller, conns, clock, txStart, registry, regWrite, regSeq,
                     warned, sessions, sesWrite, sesSeq, sesArg>>
  <2>1. CASE SelectSessions(r)
    BY <2>1, Zenon DEF SelectSessions, SessionPhases
  <2>2. CASE InsertNothing(r)
    BY <2>2 DEF InsertNothing, SessionPhases
  <2>3. CASE TouchNothing(r)
    <3>1. result' = [result EXCEPT ![r] = result[r]]
      BY <2>3 DEF TouchNothing, sesVars, Asked
    <3> QED
      BY <2>3, <3>1 DEF TouchNothing, sesVars, SessionPhases
  <2> QED
    BY <2>1, <2>2, <2>3
<1>2. regWrite[r] = NoRow /\ sesWrite[r] = NoSession /\ phase[r] # "track"
  BY <1>1 DEF Calls, SessionPhases
<1>3. Calls'
  BY <1>1, <1>2, StatementKeepsCalls
<1>4. \A q \in Requests \ {r} : result'[q] = result[q]
  BY <1>1 DEF Asked
<1> QED
  BY <1>1, <1>2, <1>3, <1>4, QuietKeepsRows

(* A statement that inserts or updates a row.                              *)
LEMMA WriteKeepsTables ==
  ASSUME NEW r \in Requests, ServerInv, Tables, Asked, UNCHANGED srvVars,
         InsertSession(r) \/ TouchRow(r)
  PROVE  Tables' /\ Grown
<1> USE DEF Tables, ServerInv
<1>1. /\ phase[r] \in {"create", "touch"} /\ step[r] = "exec"
      /\ step' = [step EXCEPT ![r] = "commit"]
      /\ UNCHANGED <<phase, caller, conns, clock, txStart, registry, regWrite, regSeq,
                     warned, sessions, sesArg>>
  BY DEF InsertSession, TouchRow
<1>2. /\ regWrite[r] = NoRow /\ caller[r] \in Users /\ txStart[r] \in Nat /\ sesSeq \in Nat
      /\ registry[caller[r]].id \in Nat
  BY <1>1 DEF Calls, Identified, RegRows, SesRows, Row
<1>3. PICK w \in SessionRow : sesWrite' = [sesWrite EXCEPT ![r] = w]
  <2>1. CASE InsertSession(r)
    <3> DEFINE w == [id |-> sesSeq + 1, reg |-> registry[caller[r]].id,
                     name |-> sesArg[r], access |-> txStart[r]]
    <3>1. sesArg[r] \in Names
      BY <2>1 DEF InsertSession, Asked
    <3>2. w \in SessionRow
      BY <1>2, <3>1 DEF SessionRow
    <3>3. sesWrite' = [sesWrite EXCEPT ![r] = w]
      BY <2>1 DEF InsertSession
    <3> HIDE DEF w
    <3> QED
      BY <3>2, <3>3
  <2>2. CASE TouchRow(r)
    <3>1. PICK s \in TouchTarget(r) :
            sesWrite' = [sesWrite EXCEPT ![r] = [s EXCEPT !.access = txStart[r]]]
      BY <2>2 DEF TouchRow
    <3>2. s \in SessionRow
      BY DEF TouchTarget, OwnSessions, SesRows
    <3>3. [s EXCEPT !.access = txStart[r]] \in SessionRow
      BY <1>2, <3>2 DEF SessionRow
    <3> QED
      BY <3>1, <3>3
  <2> QED
    BY <2>1, <2>2
<1>4. /\ sesWrite'[r] = w /\ \A q \in Requests \ {r} : sesWrite'[q] = sesWrite[q]
      /\ \A q \in Requests \ {r} : result'[q] = result[q]
  BY <1>3 DEF SesRows, Asked, InsertSession, TouchRow
<1>5. Calls'
  BY <1>1, <1>2, <1>4, StatementKeepsCalls
<1>6. RegRows' /\ RegGrown
  BY <1>1, <1>2, RegKept DEF RegRows
<1>7. CASE InsertSession(r)
  <2>1. /\ phase[r] = "create" /\ sesSeq' = sesSeq + 1
        /\ w = [id |-> sesSeq + 1, reg |-> registry[caller[r]].id,
                name |-> sesArg[r], access |-> txStart[r]]
        /\ result' = [result EXCEPT ![r] = <<w>>]
    BY <1>4, <1>7 DEF InsertSession, SesRows
  <2>2. Registered(caller[r]) /\ sesArg[r] \in Names
    BY <1>7, <2>1 DEF InsertSession, Asked
  <2>3. ASSUME NEW s \in sessions PROVE s.id # w.id /\ KeyIsId(s, w)
    <3>1. s.id # w.id
      BY <1>2, <2>1 DEF SesRows
    <3>2. ~SameKey(s, w.reg, w.name)
      BY <1>7, <2>1, <2>2 DEF InsertSession, Taken, OwnSessions, SameKey
    <3> QED
      BY <3>1, <3>2 DEF KeyIsId
  <2>4. ASSUME NEW q \in Requests \ {r}, sesWrite[q] # NoSession
        PROVE  sesWrite[q].id # w.id /\ KeyIsId(sesWrite[q], w)
    <3>1. sesWrite[q].id # w.id
      BY <1>2, <2>1, <2>4 DEF SesRows
    <3>2. ~SameKey(sesWrite[q], w.reg, w.name)
      BY <1>7, <2>1 DEF InsertSession, Claimed
    <3> QED
      BY <3>1, <3>2 DEF KeyIsId
  <2>5. w.id \in 1..sesSeq' /\ w.name \in Names
    BY <1>2, <2>1, <2>2
  <2>6. WrittenRow(r)'
    <3>1. result'[r] = <<w>>
      BY <2>1 DEF Asked
    <3> QED
      BY <1>1, <1>4, <2>1, <2>3, <3>1 DEF WrittenRow
  <2>7. SesRows' /\ SesGrown
    BY <1>1, <1>2, <1>3, <1>4, <2>1, <2>2, <2>3, <2>4, <2>5, <2>6, SesWritten
  <2> QED
    BY <1>5, <1>6, <2>7 DEF Grown
<1>8. CASE TouchRow(r)
  <2>1. PICK s \in TouchTarget(r) :
          /\ \A q \in Requests \ {r} : sesWrite[q].id # s.id
          /\ sesWrite' = [sesWrite EXCEPT ![r] = [s EXCEPT !.access = txStart[r]]]
    BY <1>8 DEF TouchRow
  <2>2. /\ s \in sessions /\ s \in SessionRow /\ s.id = sesArg[r] /\ Registered(caller[r])
        /\ s.reg = registry[caller[r]].id /\ s.id \in 1..sesSeq /\ s.name \in Names
    BY <2>1 DEF TouchTarget, OwnSessions, SesRows
  <2>3. /\ w = [s EXCEPT !.access = txStart[r]]
        /\ w.id = s.id /\ w.reg = s.reg /\ w.name = s.name
        /\ phase[r] = "touch" /\ sesSeq' = sesSeq /\ result' = result
    BY <1>4, <1>8, <2>1, <2>2 DEF SesRows, SessionRow, TouchRow
  <2>4. \A t \in sessions : KeyIsId(t, w)
    BY <2>2, <2>3 DEF SesRows, KeyIsId, SameKey
  <2>5. \A q \in Requests \ {r} : sesWrite[q] # NoSession =>
            sesWrite[q].id # w.id /\ KeyIsId(sesWrite[q], w)
    BY <2>1, <2>2, <2>3 DEF SesRows, KeyIsId, SameKey
  <2>6. WrittenRow(r)'
    BY <1>1, <1>4, <2>2, <2>3 DEF WrittenRow
  <2>7. SesRows' /\ SesGrown
    BY <1>1, <1>2, <1>3, <1>4, <2>2, <2>3, <2>4, <2>5, <2>6, SesWritten
  <2> QED
    BY <1>5, <1>6, <2>7 DEF Grown
<1> QED
  BY <1>7, <1>8

(* The end of a call of sessions.py, with or without a commit.             *)
LEMMA SessionEndKeepsTables ==
  ASSUME NEW r \in Requests, ServerInv, Tables, Asked, UNCHANGED srvVars,
         \/ InsertConflict(r) \/ CommitSession(r) \/ CommitSessionUnknown(r)
         \/ FailSession(r)
  PROVE  Tables' /\ Grown
<1> USE DEF Tables, ServerInv
<1>1. /\ phase[r] \in SessionPhases /\ step[r] # "idle"
      /\ warned' \in {warned, warned \cup {<<r, "touch">>}}
      /\ UNCHANGED <<caller, clock, txStart, registry, regSeq, sesArg, result>>
      /\ sesSeq' \in {sesSeq, sesSeq + 1}
  BY DEF InsertConflict, CommitSession, CommitSessionUnknown, FailSession, Raise, CanFail,
         SessionPhases
<1>2. PICK p \in Phases \ CallPhases : LeaveSession(r, p)
  BY DEF InsertConflict, CommitSession, CommitSessionUnknown, FailSession, Raise, Returned,
         SessionPhases, Phases, CallPhases
<1>3. /\ sesWrite' = [sesWrite EXCEPT ![r] = NoSession] /\ Leave(r, p)
      /\ regWrite' = [regWrite EXCEPT ![r] = NoRow]
      /\ sesWrite'[r] = NoSession
      /\ \A q \in Requests \ {r} : sesWrite'[q] = sesWrite[q] /\ phase'[q] = phase[q]
  BY <1>2 DEF LeaveSession, Leave, ServerTypes, SesRows
<1>4. Calls'
  <2>1. warned' \subseteq Requests \X {"track", "touch"}
    BY <1>1 DEF Calls
  <2> QED
    BY <1>1, <1>3, <2>1, LeaveKeepsCalls DEF RegRows
<1>5. CASE sessions' = sessions
  BY <1>1, <1>3, <1>4, <1>5, QuietKeepsRows
<1>6. CASE sessions' # sessions
  <2>1. /\ sessions' = Committed(r) /\ sesWrite[r] # NoSession /\ sesSeq' = sesSeq
    BY <1>6 DEF InsertConflict, CommitSession, CommitSessionUnknown, FailSession, Committed
  <2>2. phase[r] \in {"create", "touch"} /\ regWrite[r] = NoRow
    BY <1>1, <2>1 DEF Calls, SessionPhases
  <2>3. SesRows' /\ SesGrown
    BY <1>1, <1>3, <2>1, <2>2, SesCommitted
  <2>4. RegRows' /\ RegGrown
    <3>1. regWrite' \in [Requests -> Row]
      BY <1>3, NoRowIsRow DEF RegRows
    <3>2. \A q \in Requests : regWrite'[q] = NoRow \/ regWrite'[q] = regWrite[q]
      BY <1>3 DEF RegRows
    <3> QED
      BY <1>1, <3>1, <3>2, RegKept
  <2> QED
    BY <1>4, <2>3, <2>4 DEF Grown
<1> QED
  BY <1>5, <1>6

LEMMA CrashKeepsTables ==
  ASSUME ServerInv, Tables, Crash
  PROVE  Tables' /\ Grown
<1> USE DEF Tables, ServerInv, Crash
<1>1. Calls'
  BY CrashKeepsCalls
<1>2. RegRows' /\ RegGrown
  <2>1. /\ regWrite' \in [Requests -> Row] /\ \A q \in Requests : regWrite'[q] = NoRow
        /\ UNCHANGED <<registry, regSeq>>
    BY NoRowIsRow
  <2> QED
    BY <2>1, RegKept
<1>3. SesRows' /\ SesGrown
  <2>1. /\ sesWrite' \in [Requests -> SessionRow] /\ \A q \in Requests : sesWrite'[q] = NoSession
        /\ UNCHANGED sessions /\ sesSeq' \in {sesSeq, sesSeq + 1}
    BY NoSessionIsRow
  <2> QED
    BY <1>2, <2>1, SesKept
<1> QED
  BY <1>1, <1>2, <1>3 DEF Grown

LEMMA RouteKeepsTables ==
  ASSUME NEW r \in Requests, ServerInv, Tables, Asked, RouteStep(r)
  PROVE  Tables' /\ Grown
<1>1. PICK p \in Phases :
        /\ phase[r] \notin CallPhases /\ phase' = [phase EXCEPT ![r] = p]
        /\ step' = IF p \in CallPhases THEN [step EXCEPT ![r] = "wait"] ELSE step
        /\ \A q \in Requests \ {r} : caller'[q] = caller[q] /\ sesArg'[q] = sesArg[q]
        /\ UNCHANGED <<conns, clock, txStart, registry, regWrite, regSeq, warned,
                       sessions, sesWrite, sesSeq, result>>
  <2> USE DEF Phases, CallPhases, SessionPhases, sesVars
  <2>1. CASE \/ Unauthenticated(r) \/ Refuse(r)
             \/ \E u \in Users, p \in Routes : \E b \in BodiesOf(p) : Admit(r, u, p, b)
    BY <2>1 DEF Unauthenticated, Refuse, Admit
  <2>2. CASE Dispatch(r)
    BY <2>2 DEF Dispatch, Enter, ServerInv, ServerTypes
  <2>3. CASE CallList(r) \/ CallCreate(r) \/ CallTouch(r)
    BY <2>3 DEF CallList, CallCreate, CallTouch, CallSessions, Enter, Asked
  <2>4. CASE RejectBody(r) \/ AnswerSessions(r) \/ EndRun(r) \/ BreakRun(r)
    BY <2>4 DEF RejectBody, AnswerSessions, EndRun, BreakRun, Answer
  <2>5. CASE StartRun(r)
    BY <2>5 DEF StartRun
  <2>6. CASE EmitEvent(r)
    <3>1. phase' = [phase EXCEPT ![r] = "stream"]
      BY <2>6 DEF EmitEvent, dbVars, ServerInv, ServerTypes
    <3> QED
      BY <2>6, <3>1 DEF EmitEvent, dbVars
  <2> QED
    BY <2>1, <2>2, <2>3, <2>4, <2>5, <2>6 DEF RouteStep, Progress
<1>2. step = [step EXCEPT ![r] = "idle"]
  BY <1>1 DEF Tables, Calls
<1>3. CASE p \in CallPhases
  BY <1>1, <1>3, OutsideKeepsTables
<1>4. CASE p \notin CallPhases
  BY <1>1, <1>2, <1>4, OutsideKeepsTables
<1> QED
  BY <1>3, <1>4

LEMMA DbKeepsTables ==
  ASSUME NEW r \in Requests, ServerInv, Tables, Asked,
         \/ (Checkout(r) \/ TrackStep(r)) /\ UNCHANGED <<sesVars, srvVars>>
         \/ SessionStep(r) /\ UNCHANGED srvVars
  PROVE  Tables' /\ Grown
BY TrackKeepsTables, ReadKeepsTables, WriteKeepsTables, SessionEndKeepsTables
   DEF SessionStep, SessionProgress

LEMMA TableStutter ==
  ASSUME TableInv, UNCHANGED vars
  PROVE  TableInv' /\ Grown
<1> USE DEF vars, dbVars, sesVars, srvVars
<1>1. Calls' /\ Asked'
  BY DEF TableInv, Calls, ConnsAccounted, Asked
<1>2. RegRows' /\ RegGrown
  BY DEF TableInv, RegRows, IdsDrawn, IdsDistinct, Registered, RegGrown
<1>3. SesRows' /\ SesGrown
  <2>1. UNCHANGED <<sessions, sesWrite, sesSeq, phase, caller, sesArg, txStart, result>>
    OBVIOUS
  <2> QED
    BY <1>2, <2>1, SesKept DEF TableInv, SesRows
<1> QED
  BY <1>1, <1>2, <1>3 DEF TableInv, Grown

LEMMA TableStep ==
  ASSUME ServerInv, TableInv, [ServerNext]_vars
  PROVE  TableInv' /\ Grown
<1>1. CASE UNCHANGED vars
  BY <1>1, TableStutter
<1>2. CASE ServerNext
  BY <1>1, <1>2, ServerSteps, RouteKeepsTables, RouteKeepsAsked, DbKeepsTables, DbKeepsAsked,
     CrashKeepsTables, CrashKeepsAsked DEF TableInv, Tables
<1> QED
  BY <1>1, <1>2

THEOREM TableInvariant == ServerSpec => []TableInv
<1>1. ServerInv /\ TableInv /\ [ServerNext]_vars => TableInv'
  BY TableStep
<1> QED
  BY <1>1, TableInit, ServerInvariant, PTL DEF ServerSpec

-----------------------------------------------------------------------------
(* What requests are told.                                                 *)

Told(r) == <<phase[r], step[r], caller[r], result[r], route[r], owner[r], body[r],
             answer[r], before[r], sesWrite[r]>>

LEMMA AnswerInit == ServerInit => AnswerInv
<1> SUFFICES ASSUME ServerInit, NEW r \in Requests PROVE Facts(r)
  BY DEF AnswerInv
<1> QED
  BY DEF ServerInit, DbInit, SesInit, Facts, Done

(* An own row stays an own row, under its id and name.                     *)
LEMMA OwnRowsStay ==
  ASSUME NEW r \in Requests, Grown, owner'[r] = owner[r], owner[r] \in Users
  PROVE  /\ \A s : OwnRow(s, r) => OwnRow(s, r)'
         /\ \A s \in sessions : OwnRow(s, r) =>
               \E t \in sessions' : OwnRow(t, r)' /\ t.id = s.id /\ t.name = s.name
<1>1. \A s, t : OwnRow(s, r) /\ t.reg = s.reg =>
                   registry'[owner'[r]] # NoRow /\ t.reg = registry'[owner'[r]].id
  BY DEF OwnRow, Registered, Grown, RegGrown
<1> QED
  BY <1>1 DEF OwnRow, Registered, Grown, SesGrown

(* What a request was told stays true while it stands still.               *)
LEMMA ToldStays ==
  ASSUME NEW r \in Requests, ServerInv, TableInv, Grown, AnswerInv,
         Told(r)' = Told(r), \A q \in before[r] : Told(q)' = Told(q),
         warned \subseteq warned'
  PROVE  Facts(r)'
<1> USE DEF Told
<1>1. Facts(r)
  BY DEF AnswerInv
<1>2. /\ Explained(r) => Explained(r)'
      /\ phase[r] \notin {"idle", "admitted", "track", "done"} /\ Registered(caller[r])
         => Registered(caller[r])'
  BY DEF Explained, Registered, ServerInv, Identified, Grown, RegGrown
<1>3. route[r] # "none" => owner[r] \in Users
  BY DEF TableInv, Asked
<1>4. \A p, a : Done(r, p, a)' <=> Done(r, p, a)
  BY DEF Done
<1>5. /\ phase[r] \in {"create", "created", "conflict"} \/ Done(r, "create", "ok")
         \/ Done(r, "create", "conflict") => route[r] = "create"
      /\ phase[r] \in {"list", "listed"} \/ Done(r, "list", "ok") => route[r] = "list"
  BY DEF ServerInv, OnRoute, Done
<1>6. ASSUME route[r] = "create"
      PROVE  (Kept(r) => Kept(r)') /\ (TakenBefore(r) => TakenBefore(r)')
  BY <1>3, <1>6, OwnRowsStay DEF Kept, TakenBefore
<1>7. ASSUME route[r] = "list", ListedWell(r)
      PROVE  ListedWell(r)'
  <2>1. result'[r] = result[r] /\ before'[r] = before[r] /\ owner'[r] = owner[r]
    OBVIOUS
  <2>2. \A s \in ToSet(result[r]) : OwnRow(s, r)'
    BY <1>3, <1>7, OwnRowsStay DEF ListedWell
  <2>3. \A q \in before[r] :
          /\ Done(q, "create", "ok")' <=> Done(q, "create", "ok")
          /\ owner'[q] = owner[q] /\ result'[q] = result[q] /\ body'[q] = body[q]
    BY DEF Done
  <2> QED
    BY <1>7, <2>1, <2>2, <2>3 DEF ListedWell, EachOnce, LatestFirst
<1> QED
  BY <1>1, <1>2, <1>4, <1>5, <1>6, <1>7 DEF Facts

(* Only the request that makes a step is told something by it.             *)
LEMMA OthersTold ==
  ASSUME NEW r \in Requests, ServerInv, TableInv,
         \/ RouteStep(r)
         \/ (Checkout(r) \/ TrackStep(r)) /\ UNCHANGED <<sesVars, srvVars>>
         \/ SessionStep(r) /\ UNCHANGED srvVars
  PROVE  /\ \A q \in Requests \ {r} : Told(q)' = Told(q)
         /\ warned \subseteq warned' /\ phase[r] # "done"
<1> USE DEF ServerInv, ServerTypes, TableInv, Calls, SesRows, Asked, Told
<1>1. CASE RouteStep(r)
  <2>1. CASE Unauthenticated(r) \/ Refuse(r)
    BY <2>1 DEF Unauthenticated, Refuse, sesVars
  <2>2. CASE \E u \in Users, p \in Routes : \E b \in BodiesOf(p) : Admit(r, u, p, b)
    BY <2>2 DEF Admit, sesVars
  <2>3. CASE Dispatch(r)
    BY <2>3 DEF Dispatch, Enter, sesVars, srvVars
  <2>4. CASE CallList(r) \/ CallCreate(r) \/ CallTouch(r)
    BY <2>4 DEF CallList, CallCreate, CallTouch, CallSessions, Enter, srvVars
  <2>5. CASE RejectBody(r) \/ AnswerSessions(r) \/ EndRun(r) \/ BreakRun(r)
    <3>1. phase[r] # "done" /\ \E a : Answer(r, a)
      BY <2>5 DEF RejectBody, AnswerSessions, EndRun, BreakRun
    <3> QED
      BY <3>1 DEF Answer, sesVars
  <2>6. CASE StartRun(r)
    BY <2>6 DEF StartRun, sesVars
  <2>7. CASE EmitEvent(r)
    BY <2>7 DEF EmitEvent, dbVars, sesVars
  <2> QED
    BY <1>1, <2>1, <2>2, <2>3, <2>4, <2>5, <2>6, <2>7 DEF RouteStep, Progress
<1>2. CASE ~RouteStep(r)
  <2>1. PICK p \in Onward(phase[r]) : /\ phase' = [phase EXCEPT ![r] = p]
                                      /\ caller' = caller /\ UNCHANGED srvVars
    BY <1>2, DbOnward
  <2>2. /\ step[r] # "idle" /\ warned \subseteq warned'
        /\ \E st : step' = [step EXCEPT ![r] = st]
        /\ \E rows : result' = [result EXCEPT ![r] = rows]
        /\ \E w : sesWrite' = [sesWrite EXCEPT ![r] = w]
    <3>0. result = [result EXCEPT ![r] = result[r]] /\ sesWrite = [sesWrite EXCEPT ![r] = sesWrite[r]]
      OBVIOUS
    <3>1. CASE SelectSessions(r)
      BY <3>0, <3>1, Zenon DEF SelectSessions
    <3>2. CASE Checkout(r) /\ UNCHANGED <<sesVars, srvVars>>
      BY <3>0, <3>2 DEF Checkout, sesVars
    <3>3. CASE TrackStep(r) /\ UNCHANGED <<sesVars, srvVars>>
      BY <3>0, <3>3 DEF TrackStep, TrackProgress, UpdateHit, UpdateMiss, Fetched, InsertRow,
                 CommitTrack, CommitTrackUnknown, FailTrack, CanFail, Leave, sesVars
    <3>4. CASE InsertSession(r) \/ InsertNothing(r) \/ TouchRow(r) \/ TouchNothing(r)
      BY <3>0, <3>4 DEF InsertSession, InsertNothing, TouchRow, TouchNothing, sesVars
    <3>5. CASE InsertConflict(r) \/ CommitSession(r) \/ CommitSessionUnknown(r)
               \/ FailSession(r)
      BY <3>0, <3>5 DEF InsertConflict, CommitSession, CommitSessionUnknown, FailSession,
                 CanFail, Raise, LeaveSession, Leave
    <3> QED
      BY <1>2, <3>1, <3>2, <3>3, <3>4, <3>5 DEF SessionStep, SessionProgress
  <2>3. phase[r] # "done"
    BY <2>2 DEF CallPhases, SessionPhases
  <2> QED
    BY <2>1, <2>2, <2>3 DEF srvVars
<1> QED
  BY <1>1, <1>2

(* The statements of sessions.py.                                          *)
LEMMA SelectTells ==
  ASSUME NEW r \in Requests, ServerInv, TableInv, AnswerInv, SelectSessions(r),
         UNCHANGED srvVars
  PROVE  Facts(r)'
<1> DEFINE own == OwnSessions(caller[r])
<1>1. /\ phase[r] = "list" /\ step[r] = "exec" /\ caller[r] = owner[r] /\ owner[r] \in Users
      /\ UNCHANGED <<phase, caller, registry, warned, sessions, answer, route, owner, body,
                     before>>
  <2>1. /\ phase[r] = "list" /\ step[r] = "exec"
        /\ UNCHANGED <<phase, caller, registry, warned, sessions>>
    BY Zenon DEF SelectSessions
  <2> QED
    BY <2>1 DEF ServerInv, Identified, srvVars
<1>2. PICK rows \in SetToSeqs(own) :
        LatestFirst(rows) /\ result' = [result EXCEPT ![r] = rows]
  BY Zenon DEF SelectSessions
<1>3. rows \in Seq(SessionRow) /\ ToSet(rows) = own /\ EachOnce(rows)
  <2>1. IsFiniteSet(own) /\ own \subseteq SessionRow
    BY FS_Subset DEF OwnSessions, TableInv, SesRows
  <2>2. \A s, t \in own : s.id = t.id => s = t
    BY DEF OwnSessions, TableInv, SesRows
  <2> HIDE DEF own
  <2>3. /\ rows \in Seq(own) /\ ToSet(rows) = own
        /\ \A i, j \in DOMAIN rows : i # j => rows[i] # rows[j]
    BY <2>1, SequencesOfSet
  <2>4. \A i \in DOMAIN rows : rows[i] \in own
    BY <2>3 DEF ToSet
  <2>5. EachOnce(rows)
    BY <2>2, <2>3, <2>4 DEF EachOnce
  <2> QED
    BY <2>1, <2>3, <2>5, SeqMonotonic
<1>4. result'[r] = rows /\ \A q \in Requests \ {r} : result'[q] = result[q]
  BY <1>2 DEF TableInv, Asked
<1>5. \A s \in own : OwnRow(s, r)'
  BY <1>1 DEF OwnSessions, OwnRow, Registered
<1>6. ASSUME NEW q \in before[r], Done(q, "create", "ok")', owner[q] = owner[r]
      PROVE  \E s \in own : s.id = result'[q][1].id /\ s.name = body[q]
  <2>1. q \in Requests /\ q # r /\ Done(q, "create", "ok")
    BY <1>1, <1>6 DEF TableInv, Asked, Done
  <2>2. Kept(q)
    BY <2>1 DEF AnswerInv, Facts
  <2> QED
    BY <1>1, <1>4, <1>6, <2>1, <2>2 DEF Kept, OwnRow, OwnSessions
<1>7. ListedWell(r)'
  <2>1. LatestFirst(rows) /\ result'[r] = rows /\ before' = before /\ owner' = owner
        /\ body' = body
    BY <1>1, <1>2, <1>4
  <2> HIDE DEF own
  <2> QED
    BY <1>3, <1>5, <1>6, <2>1 DEF ListedWell, EachOnce, LatestFirst
<1>8. Explained(r)' \/ Registered(caller[r])'
  BY <1>1 DEF AnswerInv, Facts, Explained, Registered
<1> QED
  BY <1>1, <1>3, <1>4, <1>7, <1>8 DEF Facts, Done

LEMMA InsertTells ==
  ASSUME NEW r \in Requests, ServerInv, TableInv, AnswerInv,
         \/ InsertSession(r) \/ InsertNothing(r) \/ InsertConflict(r),
         UNCHANGED srvVars
  PROVE  Facts(r)'
<1>1. /\ phase[r] = "create" /\ caller[r] = owner[r] /\ owner[r] \in Users
      /\ route[r] = "create" /\ sesArg[r] = body[r]
      /\ UNCHANGED <<caller, registry, warned, sessions, answer, route, owner, body>>
      /\ Explained(r) \/ Registered(caller[r])
      /\ result[r] \in Seq(SessionRow)
  BY DEF InsertSession, InsertNothing, InsertConflict, ServerInv, Identified, OnRoute, srvVars,
         TableInv, Asked, AnswerInv, Facts
<1>2. Explained(r)' \/ Registered(caller[r])'
  BY <1>1 DEF Explained, Registered
<1>3. CASE InsertSession(r)
  <2>1. PICK w : /\ sesWrite' = [sesWrite EXCEPT ![r] = w]
                 /\ result' = [result EXCEPT ![r] = <<w>>] /\ w.id = sesSeq + 1
    <3> DEFINE row == [id |-> sesSeq + 1, reg |-> registry[caller[r]].id,
                       name |-> sesArg[r], access |-> txStart[r]]
    <3>1. row.id = sesSeq + 1
      OBVIOUS
    <3>2. /\ sesWrite' = [sesWrite EXCEPT ![r] = row]
          /\ result' = [result EXCEPT ![r] = <<row>>]
      BY <1>3 DEF InsertSession
    <3> HIDE DEF row
    <3> QED
      BY <3>1, <3>2
  <2>2. phase' = phase /\ sesWrite'[r] = w /\ result'[r] = <<w>> /\ w.id # 0
    BY <1>3, <2>1 DEF InsertSession, TableInv, SesRows, Asked
  <2>3. w \in SessionRow
    <3>1. Tables'
      BY <1>3, WriteKeepsTables DEF TableInv, Tables
    <3> QED
      BY <2>2, <3>1 DEF Tables, SesRows
  <2>4. w # NoSession /\ <<w>> # <<>> /\ <<w>> \in Seq(SessionRow)
    BY <2>2, <2>3, NoSessionIsRow
  <2> QED
    BY <1>1, <1>2, <2>2, <2>4 DEF Facts, Done
<1>4. CASE InsertNothing(r)
  <2>1. phase' = phase /\ result'[r] = <<>> /\ Explained(r)'
    BY <1>1, <1>4 DEF InsertNothing, TableInv, Asked, Explained
  <2>2. <<>> \in Seq(SessionRow)
    BY EmptySeq
  <2> QED
    BY <1>1, <1>2, <2>1, <2>2 DEF Facts, Done
<1>5. CASE InsertConflict(r)
  <2>1. phase'[r] = "conflict" /\ result' = result
    BY <1>5 DEF InsertConflict, LeaveSession, Leave, ServerInv, ServerTypes
  <2>2. TakenBefore(r)'
    BY <1>1, <1>5 DEF InsertConflict, Taken, OwnSessions, TakenBefore, OwnRow, Registered
  <2> QED
    BY <1>1, <1>2, <2>1, <2>2 DEF Facts, Done
<1> QED
  BY <1>3, <1>4, <1>5

LEMMA TouchTells ==
  ASSUME NEW r \in Requests, ServerInv, TableInv, AnswerInv,
         \/ TouchRow(r) \/ TouchNothing(r), UNCHANGED srvVars
  PROVE  Facts(r)'
<1>1. /\ phase[r] = "touch"
      /\ UNCHANGED <<phase, caller, registry, warned, sessions, answer, route, result>>
  BY DEF TouchRow, TouchNothing, sesVars, srvVars
<1>2. (Explained(r) \/ Registered(caller[r]))' /\ result'[r] \in Seq(SessionRow)
  BY <1>1 DEF AnswerInv, Facts, Explained, Registered
<1> QED
  BY <1>1, <1>2 DEF Facts, Done

(* A call of sessions.py returns or raises: a commit that succeeds leaves  *)
(* in the table what the statement returned.                               *)
LEMMA SessionEndTells ==
  ASSUME NEW r \in Requests, ServerInv, TableInv, Grown, AnswerInv,
         \/ CommitSession(r) \/ CommitSessionUnknown(r) \/ FailSession(r),
         UNCHANGED srvVars
  PROVE  Facts(r)'
<1>1. /\ phase[r] \in SessionPhases /\ caller[r] = owner[r] /\ owner[r] \in Users
      /\ UNCHANGED <<caller, registry, answer, route, owner, body, before, result>>
      /\ warned \subseteq warned' /\ result[r] \in Seq(SessionRow)
      /\ Explained(r) \/ Registered(caller[r])
  BY DEF CommitSession, CommitSessionUnknown, FailSession, Raise, ServerInv, Identified, srvVars,
         SessionPhases, AnswerInv, Facts
<1>2. (Explained(r) \/ Registered(caller[r]))'
  BY <1>1 DEF Explained, Registered
<1>3. phase'[r] \in {"listed", "created", "touched", "raised"}
  BY DEF CommitSession, CommitSessionUnknown, FailSession, Raise, Returned, SessionPhases,
         LeaveSession, Leave, ServerInv, ServerTypes
<1>4. CASE phase'[r] \in {"touched", "raised"}
  BY <1>1, <1>2, <1>4 DEF Facts, Done
<1>5. CASE phase'[r] = "listed"
  <2>1. phase[r] = "list" /\ step[r] = "commit"
    BY <1>5 DEF CommitSession, CommitSessionUnknown, FailSession, Raise, Returned, SessionPhases,
                LeaveSession, Leave, ServerInv, ServerTypes
  <2>2. ListedWell(r)
    BY <2>1 DEF AnswerInv, Facts
  <2>3. \A s : OwnRow(s, r) => OwnRow(s, r)'
    BY <1>1, OwnRowsStay
  <2>4. \A q \in before[r] : Done(q, "create", "ok")' => Done(q, "create", "ok")
    BY <1>1 DEF TableInv, Asked, Done
  <2>5. ListedWell(r)'
    BY <1>1, <2>2, <2>3, <2>4 DEF ListedWell, EachOnce, LatestFirst
  <2> QED
    BY <1>1, <1>2, <1>5, <2>5 DEF Facts, Done
<1>6. CASE phase'[r] = "created"
  <2>1. phase[r] = "create" /\ step[r] = "commit" /\ CommitSession(r)
    BY <1>6 DEF CommitSession, CommitSessionUnknown, FailSession, Raise, Returned, SessionPhases,
                LeaveSession, Leave, ServerInv, ServerTypes
  <2>2. Facts(r)
    BY DEF AnswerInv
  <2>3. CASE result[r] = <<>>
    BY <1>1, <1>2, <1>6, <2>1, <2>2, <2>3 DEF Facts, Done, Explained
  <2>4. CASE result[r] # <<>>
    <3>1. sesWrite[r] # NoSession
      BY <2>1, <2>2, <2>4 DEF Facts
    <3>2. /\ Registered(caller[r]) /\ result[r] = <<sesWrite[r]>>
          /\ sesWrite[r].reg = registry[caller[r]].id /\ sesWrite[r].name = body[r]
      BY <2>1, <3>1 DEF TableInv, SesRows, WrittenRow, Asked
    <3>3. sesWrite[r] \in sessions'
      BY <2>1, <3>1 DEF CommitSession, Committed
    <3>4. Kept(r)'
      <4>1. result[r][1] = sesWrite[r]
        BY <3>2
      <4> QED
        BY <1>1, <3>2, <3>3, <4>1 DEF Kept, OwnRow, Registered
    <3> QED
      BY <1>1, <1>2, <1>6, <2>4, <3>4 DEF Facts, Done
  <2> QED
    BY <2>3, <2>4
<1> QED
  BY <1>3, <1>4, <1>5, <1>6

(* track_user() either leaves the caller registered or a warning.          *)
LEMMA TrackTells ==
  ASSUME NEW r \in Requests, ServerInv, TableInv, AnswerInv,
         Checkout(r) \/ TrackStep(r), UNCHANGED <<sesVars, srvVars>>
  PROVE  Facts(r)'
<1> USE DEF sesVars, srvVars
<1>1. /\ UNCHANGED <<caller, answer, route, owner, body, before, result, sessions>>
      /\ result[r] \in Seq(SessionRow) /\ phase[r] # "done"
  BY OthersTold DEF Checkout, TrackStep, TrackProgress, UpdateHit, UpdateMiss, Fetched, InsertRow,
         CommitTrack, CommitTrackUnknown, FailTrack, AnswerInv, Facts
<1>2. CASE Checkout(r)
  <2>1. /\ UNCHANGED <<phase, registry, warned, sesWrite>> /\ step'[r] = "exec"
        /\ step[r] = "wait"
    BY <1>2 DEF Checkout, TableInv, Calls
  <2>2. phase[r] \in CallPhases
    BY <2>1 DEF TableInv, Calls
  <2>3. phase[r] # "track" => (Explained(r) \/ Registered(caller[r]))'
    BY <1>1, <2>1, <2>2 DEF AnswerInv, Facts, CallPhases, SessionPhases, Explained, Registered
  <2> QED
    BY <1>1, <2>1, <2>2, <2>3 DEF Facts, Done, CallPhases, SessionPhases
<1>3. CASE UpdateHit(r) \/ UpdateMiss(r) \/ Fetched(r) \/ InsertRow(r)
  <2>1. phase'[r] = "track"
    BY <1>3 DEF UpdateHit, UpdateMiss, Fetched, InsertRow
  <2> QED
    BY <1>1, <2>1 DEF Facts, Done
<1>4. CASE CommitTrack(r) \/ CommitTrackUnknown(r) \/ FailTrack(r)
  <2>1. /\ phase[r] = "track" /\ phase'[r] = "tracked" /\ caller[r] \in Users
    BY <1>4 DEF CommitTrack, CommitTrackUnknown, FailTrack, Leave, ServerInv, ServerTypes,
                Identified
  <2>2. (Explained(r) \/ Registered(caller[r]))'
    <3>1. CASE FailTrack(r)
      BY <3>1 DEF FailTrack, Explained
    <3>2. CASE CommitTrack(r) \/ CommitTrackUnknown(r)
      <4>1. regWrite[r] # NoRow /\ registry' = [registry EXCEPT ![caller[r]] = regWrite[r]]
        BY <3>2 DEF CommitTrack, CommitTrackUnknown, TableInv, Calls
      <4> QED
        BY <1>1, <2>1, <4>1 DEF Registered, TableInv, RegRows
    <3> QED
      BY <1>4, <3>1, <3>2
  <2> QED
    BY <1>1, <2>1, <2>2 DEF Facts, Done
<1> QED
  BY <1>2, <1>3, <1>4 DEF TrackStep, TrackProgress

(* The middleware and the routes: an answer says what the call returned.   *)
LEMMA RouteTells ==
  ASSUME NEW r \in Requests, ServerInv, TableInv, AnswerInv, RouteStep(r)
  PROVE  Facts(r)'
<1> USE DEF sesVars
<1>0. Facts(r) /\ result[r] \in Seq(SessionRow)
  BY DEF AnswerInv, Facts
<1>1. CASE Unauthenticated(r) \/ Refuse(r)
  <2>1. phase'[r] = "done" /\ route'[r] = "none" /\ result' = result
    BY <1>1 DEF Unauthenticated, Refuse, ServerInv, ServerTypes, TableInv, Asked
  <2> QED
    BY <1>0, <2>1 DEF Facts, Done
<1>2. CASE \E u \in Users, p \in Routes : \E b \in BodiesOf(p) : Admit(r, u, p, b)
  <2>1. phase'[r] = "admitted" /\ result' = result
    BY <1>2 DEF Admit, ServerInv, ServerTypes
  <2> QED
    BY <1>0, <2>1 DEF Facts, Done
<1>3. CASE Dispatch(r)
  <2>1. phase'[r] = "track" /\ result' = result
    BY <1>3 DEF Dispatch, Enter, ServerInv, ServerTypes
  <2> QED
    BY <1>0, <2>1 DEF Facts, Done
<1>4. CASE CallList(r) \/ CallCreate(r) \/ CallTouch(r)
  <2>1. /\ phase[r] = "tracked" /\ phase'[r] \in SessionPhases /\ step'[r] = "wait"
        /\ UNCHANGED <<caller, registry, warned, result>>
    BY <1>4 DEF CallList, CallCreate, CallTouch, CallSessions, Enter, SessionPhases,
                ServerInv, ServerTypes, TableInv, Calls
  <2>2. (Explained(r) \/ Registered(caller[r]))'
    BY <1>0, <2>1 DEF Facts, Explained, Registered
  <2> QED
    BY <1>0, <2>1, <2>2 DEF Facts, Done, SessionPhases
<1>5. CASE StartRun(r) \/ EmitEvent(r)
  <2>1. /\ phase[r] \in {"touched", "stream"} /\ phase'[r] = "stream"
        /\ UNCHANGED <<caller, registry, warned, result>>
    BY <1>5 DEF StartRun, EmitEvent, dbVars, ServerInv, ServerTypes
  <2>2. (Explained(r) \/ Registered(caller[r]))'
    BY <1>0, <2>1 DEF Facts, Explained, Registered
  <2> QED
    BY <1>0, <2>1, <2>2 DEF Facts, Done
<1>6. CASE RejectBody(r) \/ EndRun(r) \/ BreakRun(r)
  <2>1. /\ phase'[r] = "done" /\ result' = result /\ route' = route
        /\ answer'[r] = "bad_request" \/ route[r] = "chat"
    BY <1>6 DEF RejectBody, EndRun, BreakRun, Answer, ServerInv, ServerTypes, OnRoute,
                TableInv, Asked
  <2> QED
    BY <1>0, <2>1 DEF Facts, Done
<1>7. CASE AnswerSessions(r)
  <2>1. /\ phase[r] \in {"listed", "created", "conflict", "raised"} /\ phase'[r] = "done"
        /\ answer'[r] = AnswerOf(r)
        /\ \A q \in Requests \ {r} : phase'[q] = phase[q] /\ answer'[q] = answer[q]
        /\ UNCHANGED <<registry, sessions, result, route, owner, body, before, warned>>
    BY <1>7 DEF AnswerSessions, Answer, ServerInv, ServerTypes, TableInv, Asked
  <2>2. /\ Done(r, "create", "ok")' => phase[r] = "created" /\ result[r] # <<>>
        /\ Done(r, "create", "conflict")' => phase[r] = "conflict"
        /\ Done(r, "list", "ok")' => phase[r] = "listed"
    BY <2>1 DEF Done, AnswerOf, ServerInv, OnRoute
  <2>3. Kept(r)' <=> Kept(r)
    BY <2>1 DEF Kept, OwnRow, Registered
  <2>4. TakenBefore(r)' <=> TakenBefore(r)
    BY <2>1 DEF TakenBefore, OwnRow, Registered
  <2>5. ListedWell(r) => ListedWell(r)'
    <3>1. \A q \in before[r] : Done(q, "create", "ok")' => Done(q, "create", "ok")
      BY <2>1 DEF TableInv, Asked, Done
    <3>2. \A s : OwnRow(s, r)' <=> OwnRow(s, r)
      BY <2>1 DEF OwnRow, Registered
    <3> QED
      BY <2>1, <3>1, <3>2 DEF ListedWell, EachOnce, LatestFirst
  <2> QED
    BY <1>0, <2>1, <2>2, <2>3, <2>4, <2>5 DEF Facts
<1> QED
  BY <1>1, <1>2, <1>3, <1>4, <1>5, <1>6, <1>7 DEF RouteStep, Progress

(* A restart answers nothing: the clients of what was in flight get none.  *)
LEMMA CrashTells ==
  ASSUME ServerInv, TableInv, AnswerInv, Crash
  PROVE  AnswerInv'
<1> SUFFICES ASSUME NEW r \in Requests PROVE Facts(r)'
  BY DEF AnswerInv
<1>1. /\ \A q \in Requests :
            /\ phase'[q] = IF phase[q] = "idle" THEN "idle" ELSE "done"
            /\ answer'[q] = IF phase[q] \in {"idle", "done"} THEN answer[q] ELSE "lost"
      /\ UNCHANGED <<registry, sessions, result, route, owner, body, before, warned>>
  BY DEF Crash, InFlight, ServerInv, ServerTypes
<1>2. \A q \in Requests : \A p, a : a # "lost" /\ Done(q, p, a)' => Done(q, p, a)
  BY <1>1 DEF Done
<1>3. Kept(r)' <=> Kept(r)
  BY <1>1 DEF Kept, OwnRow, Registered
<1>4. TakenBefore(r)' <=> TakenBefore(r)
  BY <1>1 DEF TakenBefore, OwnRow, Registered
<1>5. ListedWell(r) => ListedWell(r)'
  <2>1. \A q \in before[r] : Done(q, "create", "ok")' => Done(q, "create", "ok")
    BY <1>2 DEF TableInv, Asked
  <2>2. \A s : OwnRow(s, r)' <=> OwnRow(s, r)
    BY <1>1 DEF OwnRow, Registered
  <2> QED
    BY <1>1, <2>1, <2>2 DEF ListedWell, EachOnce, LatestFirst
<1>6. /\ Done(r, "create", "ok")' => Done(r, "create", "ok")
      /\ Done(r, "create", "conflict")' => Done(r, "create", "conflict")
      /\ Done(r, "list", "ok")' => Done(r, "list", "ok")
  BY <1>2
<1> QED
  BY <1>1, <1>3, <1>4, <1>5, <1>6 DEF AnswerInv, Facts

LEMMA AnswerStep ==
  ASSUME ServerInv, TableInv, AnswerInv, [ServerNext]_vars
  PROVE  AnswerInv'
<1>0. Grown
  BY TableStep
<1>1. CASE UNCHANGED vars
  BY <1>0, <1>1, ToldStays DEF vars, dbVars, sesVars, srvVars, Told, AnswerInv
<1>2. CASE Crash
  BY <1>2, CrashTells
<1>3. ASSUME NEW r \in Requests,
             \/ RouteStep(r)
             \/ (Checkout(r) \/ TrackStep(r)) /\ UNCHANGED <<sesVars, srvVars>>
             \/ SessionStep(r) /\ UNCHANGED srvVars
      PROVE  AnswerInv'
  <2>1. /\ \A q \in Requests \ {r} : Told(q)' = Told(q)
        /\ warned \subseteq warned' /\ phase[r] # "done"
    BY <1>3, OthersTold
  <2>2. ASSUME NEW q \in Requests \ {r} PROVE Facts(q)'
    <3>1. \A x \in before[q] : x \in Requests \ {r}
      BY <2>1 DEF TableInv, Asked
    <3> QED
      BY <1>0, <2>1, <3>1, ToldStays
  <2>3. Facts(r)'
    BY <1>0, <1>3, RouteTells, TrackTells, SelectTells, InsertTells, TouchTells, SessionEndTells
       DEF SessionStep, SessionProgress
  <2> QED
    BY <2>2, <2>3 DEF AnswerInv
<1> QED
  BY <1>1, <1>2, <1>3, ServerSteps

LEMMA AnswerInvariant == ServerSpec => []AnswerInv
<1>1. ServerInv /\ TableInv /\ AnswerInv /\ [ServerNext]_vars => AnswerInv'
  BY AnswerStep
<1> QED
  BY <1>1, AnswerInit, ServerInvariant, TableInvariant, PTL DEF ServerSpec

-----------------------------------------------------------------------------
(* The results.                                                            *)

(* GET /sessions answers the caller's own sessions, latest first, whatever *)
(* goes on between the statement and the answer.                           *)
THEOREM ListsAreOwn == ServerSpec => []ListOwn
<1>1. AnswerInv => ListOwn
  BY DEF AnswerInv, Facts, ListedWell, EachOnce, LatestFirst, ListOwn
<1> QED
  BY <1>1, AnswerInvariant, PTL

(* A confirmed creation is in every later list of its user, across failed  *)
(* requests and restarts.                                                  *)
THEOREM CreatesAreListed == ServerSpec => []ReadYourCreates
<1>1. AnswerInv => ReadYourCreates
  BY DEF AnswerInv, Facts, ListedWell, ReadYourCreates
<1> QED
  BY <1>1, AnswerInvariant, PTL

(* Whoever is answered 409 has a session of that name, in the committed    *)
(* table: an insert that waited for another one is not refused before that *)
(* one commits (the UniqueViolation handler of POST /sessions).            *)
THEOREM ConflictsJustified == ServerSpec => []ConflictJustified
<1>1. AnswerInv => ConflictJustified
  BY DEF AnswerInv, Facts, TakenBefore, ConflictJustified
<1> QED
  BY <1>1, AnswerInvariant, PTL

(* create_session() finds no user_registry row only after track_user() has *)
(* logged why.                                                             *)
THEOREM MissingExplained == ServerSpec => []MissingRowExplained
<1>1. AnswerInv => MissingRowExplained
  BY DEF AnswerInv, Facts, Explained, MissingRowExplained
<1> QED
  BY <1>1, AnswerInvariant, PTL

(* Every variable of the server stays in its type, and user_pool lends no  *)
(* more connections than it has, to the calls under way only.              *)
THEOREM ServerTyped == ServerSpec => []ServerTypeOK
<1>1. ServerInv /\ TableInv /\ AnswerInv /\ Inputs => ServerTypeOK
  <2> SUFFICES ASSUME ServerInv, TableInv, AnswerInv, Inputs
               PROVE  ServerTypeOK
    OBVIOUS
  <2>1. result \in [Requests -> Seq(SessionRow)]
    BY DEF TableInv, Asked, AnswerInv, Facts
  <2>2. before \in [Requests -> SUBSET Requests] /\ answer \in [Requests -> Answers]
    BY DEF TableInv, Asked
  <2>3. /\ phase \in [Requests -> Phases]
        /\ {caller, owner, ctx} \subseteq [Requests -> Users \cup {NoUser}]
        /\ checkpoints \in [Threads -> Seq(Requests)] /\ loaded \in [Requests -> Seq(Requests)]
    BY DEF ServerInv, ServerTypes
  <2>4. /\ step \in [Requests -> Steps] /\ ConnsAccounted
        /\ {clock, regSeq, sesSeq} \subseteq Nat /\ txStart \in [Requests -> Nat]
        /\ registry \in [Users -> Row] /\ regWrite \in [Requests -> Row]
        /\ warned \subseteq Requests \X {"track", "touch"}
        /\ sessions \subseteq SessionRow /\ sesWrite \in [Requests -> SessionRow]
    BY DEF TableInv, Calls, RegRows, SesRows
  <2> QED
    BY <2>1, <2>2, <2>3, <2>4 DEF Inputs, ServerTypeOK
<1> QED
  BY <1>1, ServerInvariant, TableInvariant, AnswerInvariant, InputsInvariant, PTL

-----------------------------------------------------------------------------
(* The tables.                                                             *)

CommitsUser(r) ==
    /\ regWrite[r] # NoRow /\ registry' = [registry EXCEPT ![caller[r]] = regWrite[r]]
    /\ sessions' = sessions

CommitsSession(r) ==
    sesWrite[r] # NoSession /\ sessions' = Committed(r) /\ registry' = registry

(* Only commits change a table.                                            *)
LEMMA OnlyCommits ==
  ASSUME TableInv, [ServerNext]_vars
  PROVE  \/ UNCHANGED <<registry, sessions>>
         \/ \E r \in Requests : CommitsUser(r) \/ CommitsSession(r)
<1> USE DEF sesVars
<1>1. CASE UNCHANGED vars \/ Crash
  BY <1>1 DEF vars, dbVars, Crash
<1>2. ASSUME NEW r \in Requests, RouteStep(r)
      PROVE  UNCHANGED <<registry, sessions>>
  <2>1. CASE \/ Unauthenticated(r) \/ Refuse(r)
             \/ \E u \in Users, p \in Routes : \E b \in BodiesOf(p) : Admit(r, u, p, b)
    BY <2>1 DEF Unauthenticated, Refuse, Admit
  <2>2. CASE Dispatch(r) \/ CallList(r) \/ CallCreate(r) \/ CallTouch(r)
    BY <2>2 DEF Dispatch, CallList, CallCreate, CallTouch, CallSessions
  <2>3. CASE RejectBody(r) \/ AnswerSessions(r) \/ EndRun(r) \/ BreakRun(r)
             \/ StartRun(r) \/ EmitEvent(r)
    BY <2>3 DEF RejectBody, AnswerSessions, EndRun, BreakRun, Answer, StartRun, EmitEvent, dbVars
  <2> QED
    BY <1>2, <2>1, <2>2, <2>3 DEF RouteStep, Progress
<1>3. ASSUME NEW r \in Requests, Checkout(r) \/ TrackStep(r), UNCHANGED sesVars
      PROVE  UNCHANGED <<registry, sessions>> \/ CommitsUser(r)
  BY <1>3 DEF Checkout, TrackStep, TrackProgress, UpdateHit, UpdateMiss, Fetched, InsertRow,
              CommitTrack, CommitTrackUnknown, FailTrack, CommitsUser, TableInv, Calls
<1>4. ASSUME NEW r \in Requests, SessionStep(r)
      PROVE  UNCHANGED <<registry, sessions>> \/ CommitsSession(r)
  <2>1. CASE SelectSessions(r)
    BY <2>1, Zenon DEF SelectSessions
  <2>2. CASE \/ InsertSession(r) \/ InsertNothing(r) \/ InsertConflict(r)
             \/ TouchRow(r) \/ TouchNothing(r) \/ FailSession(r)
    BY <2>2 DEF InsertSession, InsertNothing, InsertConflict, TouchRow, TouchNothing, FailSession
  <2>3. CASE CommitSession(r) \/ CommitSessionUnknown(r)
    BY <2>3 DEF CommitSession, CommitSessionUnknown, Committed, CommitsSession
  <2> QED
    BY <1>4, <2>1, <2>2, <2>3 DEF SessionStep, SessionProgress
<1> QED
  BY <1>1, <1>2, <1>3, <1>4, ServerSteps

(* user_registry is the abstract registry, also beside the calls of        *)
(* sessions.py and across restarts: users appear one by one, keep their id *)
(* and their first_seen_at, and are only seen again.                       *)
THEOREM ServerKeepsRegistry == ServerSpec => ImplementsRegistry
<1>1. ServerInit => registry = Registry0
  BY DEF ServerInit, DbInit
<1>2. TableInv /\ [ServerNext]_vars => [Registry!Next]_registry
  <2> SUFFICES ASSUME TableInv, [ServerNext]_vars, registry' # registry
               PROVE  Registry!Next
    OBVIOUS
  <2>1. PICK r \in Requests : CommitsUser(r)
    BY OnlyCommits DEF CommitsSession
  <2> DEFINE u == caller[r]
  <2>2. /\ u \in Users /\ regWrite[r].id # 0
        /\ registry'[u] = regWrite[r] /\ \A v \in Users \ {u} : registry'[v] = registry[v]
    BY <2>1 DEF CommitsUser, TableInv, RegRows, IdsDrawn
  <2>3. CASE Registered(u)
    <3>1. registry[u].id # 0
      BY <2>2, <2>3 DEF TableInv, RegRows, IdsDrawn, Registered
    <3>2. registry'[u].id = registry[u].id /\ registry'[u].first = registry[u].first
      BY <2>1, <2>2, <2>3 DEF CommitsUser, TableInv, RegRows
    <3> QED
      BY <2>2, <3>1, <3>2 DEF Registry!Next, Registry!See, Registry!Present
  <2>4. CASE ~Registered(u)
    <3>1. registry[u].id = 0
      BY <2>4, NoRowIsRow DEF Registered
    <3>2. \A v \in Users \ {u} : registry[v].id # registry'[u].id
      BY <2>1, <2>2 DEF CommitsUser, TableInv, RegRows, IdsDistinct
    <3>3. registry'[u].first = registry'[u].last
      BY <2>1, <2>2, <2>4 DEF CommitsUser, TableInv, RegRows
    <3> QED
      BY <2>2, <3>1, <3>2, <3>3 DEF Registry!Next, Registry!Appear, Registry!Present
  <2> QED
    BY <2>3, <2>4
<1> QED
  BY <1>1, <1>2, TableInvariant, PTL DEF ServerSpec, ImplementsRegistry, Registry!Spec

EntryOf(s) == [id |-> s.id, owner |-> OwnersOf(s), name |-> s.name]

Entries == {EntryOf(s) : s \in sessions}

(* Whatever is committed to user_registry, no session changes hands.       *)
LEMMA OwnersStay ==
  ASSUME TableInv, NEW r \in Requests, CommitsUser(r)
  PROVE  Entries' = Entries
<1> DEFINE u == caller[r]
<1>1. /\ u \in Users /\ registry'[u] = regWrite[r]
      /\ \A v \in Users \ {u} : registry'[v] = registry[v]
  BY DEF CommitsUser, TableInv, RegRows
<1>2. ASSUME NEW s \in sessions PROVE OwnersOf(s)' = OwnersOf(s)
  <2>1. PICK v \in Users : Registered(v) /\ registry[v].id = s.reg
    BY DEF TableInv, SesRows, OfUser
  <2>2. registry'[u].id = s.reg <=> registry[u].id = s.reg
    <3>1. CASE Registered(u)
      BY <1>1, <3>1 DEF CommitsUser, TableInv, RegRows
    <3>2. CASE ~Registered(u)
      <4>1. v # u /\ registry[v].id # 0 /\ registry[u].id = 0
        BY <2>1, <3>2, NoRowIsRow DEF TableInv, RegRows, IdsDrawn, Registered
      <4>2. registry[v].id # regWrite[r].id
        BY <4>1 DEF CommitsUser, TableInv, RegRows, IdsDistinct
      <4> QED
        BY <1>1, <2>1, <4>1, <4>2
    <3> QED
      BY <3>1, <3>2
  <2> QED
    BY <1>1, <2>2 DEF OwnersOf
<1>3. sessions' = sessions
  BY DEF CommitsUser
<1>4. \A s \in sessions : EntryOf(s)' = EntryOf(s)
  BY <1>2 DEF EntryOf
<1> QED
  BY <1>3, <1>4 DEF Entries

(* A commit to user_sessions changes no entry, or adds a new one.          *)
LEMMA SessionCreates ==
  ASSUME TableInv, NEW r \in Requests, CommitsSession(r)
  PROVE  \/ Entries' = Entries
         \/ \E e \in Entries' : /\ \A f \in Entries : ~Catalog!Clash(e, f)
                                /\ Entries' = Entries \cup {e}
<1> DEFINE w == sesWrite[r]
<1>1. /\ sessions' = {s \in sessions : s.id # w.id} \cup {w} /\ registry' = registry
      /\ \A s \in sessions : KeyIsId(s, w)
      /\ caller[r] \in Users /\ w.reg = registry[caller[r]].id
  <2>1. phase[r] \in {"create", "touch"}
    BY DEF CommitsSession, TableInv, Calls
  <2>2. w.reg = registry[caller[r]].id
    BY <2>1 DEF CommitsSession, TableInv, SesRows, WrittenRow, SessionRow
  <2> QED
    BY <2>2 DEF CommitsSession, Committed, TableInv, SesRows
<1>2. Entries' = {EntryOf(s) : s \in sessions'}
  BY <1>1 DEF Entries, EntryOf, OwnersOf
<1>3. CASE \E s \in sessions : s.id = w.id
  <2>1. PICK s \in sessions : s.id = w.id
    BY <1>3
  <2>2. EntryOf(s) = EntryOf(w)
    BY <1>1, <2>1 DEF KeyIsId, SameKey, EntryOf, OwnersOf
  <2>3. \A t \in sessions : t.id = w.id => t = s
    BY <2>1 DEF TableInv, SesRows
  <2> QED
    BY <1>1, <1>2, <2>1, <2>2, <2>3 DEF Entries
<1>4. CASE \A s \in sessions : s.id # w.id
  <2>1. sessions' = sessions \cup {w}
    BY <1>1, <1>4
  <2>2. Entries' = Entries \cup {EntryOf(w)} /\ EntryOf(w) \in Entries'
    BY <1>2, <2>1 DEF Entries
  <2>3. ASSUME NEW t \in sessions PROVE ~Catalog!Clash(EntryOf(w), EntryOf(t))
    <3>1. ~(t.reg = w.reg /\ t.name = w.name)
      BY <1>1, <1>4 DEF KeyIsId, SameKey
    <3>2. t.reg # w.reg => OwnersOf(w) # OwnersOf(t)
      BY <1>1 DEF OwnersOf
    <3> QED
      BY <1>4, <3>1, <3>2 DEF Catalog!Clash, EntryOf
  <2>4. \A f \in Entries : ~Catalog!Clash(EntryOf(w), f)
    BY <2>3 DEF Entries
  <2> QED
    BY <2>2, <2>4
<1> QED
  BY <1>3, <1>4

(* user_registry and user_sessions together are the catalog of sessions:   *)
(* concurrent creations, touches, failures and restarts add entries, each  *)
(* new to its owner, and change and lose none.                             *)
THEOREM TablesAreCatalog == ServerSpec => ImplementsCatalog
<1>1. ServerInit => Catalog!CatalogInit
  <2> SUFFICES ASSUME ServerInit, NEW s \in sessions, NEW t \in sessions,
                      Catalog!Clash(EntryOf(s), EntryOf(t))
               PROVE  EntryOf(s) = EntryOf(t)
    BY DEF Catalog!CatalogInit, EntryOf
  <2>1. OwnersOf(s) # {}
    BY TableInit DEF TableInv, SesRows, OfUser, OwnersOf
  <2>2. s.id = t.id \/ (OwnersOf(s) = OwnersOf(t) /\ s.name = t.name)
    BY DEF Catalog!Clash, EntryOf
  <2>3. OwnersOf(s) = OwnersOf(t) => s.reg = t.reg
    BY <2>1 DEF OwnersOf
  <2> QED
    BY <2>2, <2>3, TableInit DEF TableInv, SesRows, KeyIsId, SameKey
<1>2. TableInv /\ [ServerNext]_vars => Catalog!Create \/ UNCHANGED Entries
  <2> SUFFICES ASSUME TableInv, [ServerNext]_vars
               PROVE  Catalog!Create \/ UNCHANGED Entries
    OBVIOUS
  <2>1. CASE UNCHANGED <<registry, sessions>>
    BY <2>1 DEF Entries, EntryOf, OwnersOf
  <2>2. ASSUME NEW r \in Requests, CommitsUser(r)
        PROVE  UNCHANGED Entries
    BY <2>2, OwnersStay
  <2>3. ASSUME NEW r \in Requests, CommitsSession(r)
        PROVE  Catalog!Create \/ UNCHANGED Entries
    BY <2>3, SessionCreates DEF Catalog!Create, Entries, EntryOf
  <2> QED
    BY <2>1, <2>2, <2>3, OnlyCommits
<1> QED
  BY <1>1, <1>2, TableInvariant, PTL
     DEF ServerSpec, ImplementsCatalog, Catalog!CatalogSpec, Entries, EntryOf

(* A committed row is only ever touched by a chat of its owner sent to it, *)
(* and then only in its access_ts (touch_session()'s join on user_id).     *)
THEOREM TouchesAreOwn == ServerSpec => TouchOwn
<1> DEFINE Touched == \A s \in sessions \ sessions' : \E r \in Requests :
                         /\ route[r] = "chat" /\ OwnRow(s, r)
                         /\ body[r] \in DOMAIN IntOf /\ IntOf[body[r]] = s.id
                         /\ [s EXCEPT !.access = txStart[r]] \in sessions'
<1>1. ServerInv /\ TableInv /\ [ServerNext]_vars => [Touched]_vars
  <2> SUFFICES ASSUME ServerInv, TableInv, [ServerNext]_vars,
                      NEW s \in sessions, s \notin sessions'
               PROVE  \E r \in Requests :
                         /\ route[r] = "chat" /\ OwnRow(s, r)
                         /\ body[r] \in DOMAIN IntOf /\ IntOf[body[r]] = s.id
                         /\ [s EXCEPT !.access = txStart[r]] \in sessions'
    OBVIOUS
  <2>1. PICK r \in Requests : CommitsSession(r)
    BY OnlyCommits DEF CommitsUser
  <2> DEFINE w == sesWrite[r]
  <2>2. s.id = w.id /\ w \in sessions'
    BY <2>1 DEF CommitsSession, Committed
  <2>3. phase[r] = "touch"
    BY <2>1, <2>2 DEF CommitsSession, TableInv, Calls, SesRows, WrittenRow
  <2>4. PICK t \in sessions : /\ t.id = sesArg[r] /\ t.reg = registry[caller[r]].id
                              /\ w = [t EXCEPT !.access = txStart[r]]
    BY <2>1, <2>3 DEF CommitsSession, TableInv, SesRows, WrittenRow
  <2>5. t.id = w.id
    BY <2>4 DEF TableInv, SesRows, SessionRow
  <2>6. t = s
    BY <2>2, <2>5 DEF TableInv, SesRows
  <2>7. /\ route[r] = "chat" /\ caller[r] = owner[r] /\ Registered(caller[r])
        /\ body[r] \in DOMAIN IntOf /\ sesArg[r] = IntOf[body[r]]
    BY <2>1, <2>3 DEF ServerInv, OnRoute, Identified, CommitsSession, TableInv, SesRows, Asked
  <2> QED
    BY <2>2, <2>4, <2>6, <2>7 DEF OwnRow
<1> QED
  BY <1>1, ServerInvariant, TableInvariant, PTL DEF ServerSpec, TouchOwn

=============================================================================
