----------------------------- MODULE CliProofs -----------------------------
(***************************************************************************)
(* The sessions of the local program, for any number of processes, any     *)
(* names and any number of turns.                                          *)
(***************************************************************************)
EXTENDS CliSessions, DataLemmas

CliTypes ==
    /\ pc \in [Processes -> AtSession \cup {"new", "list", "end"}]
    /\ name \in [Processes -> Names \cup {NoName}]
    /\ found \in [Processes -> Nat] /\ sid \in [Processes -> Nat]
    /\ table = [n \in Names |-> table[n]]
    /\ \A n \in Names : table[n].id \in Nat
    /\ pending.id \in Nat /\ seq \in Nat

(* A process between its SELECT and its commit has a name; what it found   *)
(* is still there, as rows are only ever added.                            *)
FoundStays ==
    \A p \in Processes :
        /\ pc[p] \in AtSession => name[p] \in Names
        /\ pc[p] \in {"write", "commit"} /\ found[p] # 0 => table[name[p]].id = found[p]

(* Only the holder of the write lock is about to commit, and what it has   *)
(* written is the row it found, or a new id for a name without a row.      *)
LockHeld ==
    \A p \in Processes : pc[p] = "commit" =>
        /\ writer = p
        /\ found[p] # 0 => pending.id = found[p]
        /\ found[p] = 0 => pending.id = seq + 1 /\ table[name[p]].id = 0

(* Ids are drawn from the counter, each for one name.                      *)
IdsUnique ==
    /\ \A n \in Names : table[n].id <= seq
    /\ \A m, n \in Names : table[m].id = table[n].id /\ table[m].id # 0 => m = n

(* A process converses under the id its name has in the table.             *)
OpenedAs ==
    \A p \in Processes :
        /\ pc[p] = "new" => sid[p] = 0
        /\ sid[p] # 0 => name[p] \in Names /\ table[name[p]].id = sid[p]

CliInv == CliTypes /\ FoundStays /\ LockHeld /\ IdsUnique /\ OpenedAs

-----------------------------------------------------------------------------

LEMMA CliInitKeeps == CliInit => CliInv
<1> SUFFICES ASSUME CliInit PROVE CliInv
  OBVIOUS
<1> USE DEF CliInit, NoEntry
<1>1. CliTypes
  BY DEF CliTypes, AtSession
<1>2. FoundStays /\ LockHeld /\ IdsUnique /\ OpenedAs
  BY DEF FoundStays, LockHeld, IdsUnique, OpenedAs, AtSession
<1> QED
  BY <1>1, <1>2 DEF CliInv

(* A process is started: it had no part in anything.                       *)
LEMMA LaunchKeeps ==
  ASSUME NEW p \in Processes, NEW n \in Names \cup {NoName}, CliInv, Launch(p, n)
  PROVE  CliInv'
<1> USE DEF CliInv, Launch, Move, dbVars, chatVars, endVars
<1>1. CliTypes'
  BY DEF CliTypes, AtSession
<1>2. FoundStays' /\ LockHeld'
  BY CliAssumption DEF CliTypes, FoundStays, LockHeld, AtSession
<1>3. IdsUnique'
  BY DEF IdsUnique
<1>4. OpenedAs'
  BY DEF OpenedAs, CliTypes
<1> QED
  BY <1>1, <1>2, <1>3, <1>4

(* A process moves on, or ends, and the file stays as it is.               *)
LEMMA MoveKeeps ==
  ASSUME NEW p \in Processes, CliInv,
         NEW to \in {"graph", "chat", "think", "saved", "end"},
         pc[p] # "new", to # "end" => pc[p] \in AtSession,
         pc' = [pc EXCEPT ![p] = to],
         UNCHANGED <<name, found, sid, table, seq>>,
         \/ writer' = writer /\ pending' = pending
         \/ writer = p /\ pending' = NoEntry
  PROVE  CliInv'
<1> USE DEF CliInv, NoEntry
<1>1. CliTypes'
  BY DEF CliTypes, AtSession
<1>2. FoundStays'
  BY DEF CliTypes, FoundStays, AtSession
<1>3. LockHeld'
  BY DEF CliTypes, LockHeld
<1>4. IdsUnique' /\ OpenedAs'
  BY DEF IdsUnique, OpenedAs, CliTypes
<1> QED
  BY <1>1, <1>2, <1>3, <1>4

(* The SELECT reads the row of the name, or none.                          *)
LEMMA FindKeeps ==
  ASSUME NEW p \in Processes, CliInv, Find(p)
  PROVE  CliInv'
<1> USE DEF CliInv, Find, Move, argVars, dbVars, chatVars, endVars
<1>0. name[p] \in Names
  BY DEF FoundStays, AtSession
<1>1. CliTypes'
  BY <1>0 DEF CliTypes, AtSession
<1>2. FoundStays'
  BY <1>0 DEF CliTypes, FoundStays, AtSession
<1>3. LockHeld'
  BY DEF CliTypes, LockHeld
<1>4. IdsUnique' /\ OpenedAs'
  BY DEF IdsUnique, OpenedAs, CliTypes
<1> QED
  BY <1>1, <1>2, <1>3, <1>4

(* The UPDATE or the INSERT takes the write lock, which nobody has.        *)
LEMMA WriteKeeps ==
  ASSUME NEW p \in Processes, CliInv, UpdateFound(p) \/ InsertNew(p)
  PROVE  CliInv'
<1> DEFINE id == IF found[p] # 0 THEN found[p] ELSE seq + 1
<1>0. /\ name[p] \in Names /\ pc[p] = "write" /\ id \in Nat
      /\ found[p] = 0 => table[name[p]].id = 0
      /\ writer = NoProcess /\ writer' = p
      /\ pending' = [id |-> id, access |-> Now]
      /\ pc' = [pc EXCEPT ![p] = "commit"]
      /\ UNCHANGED <<name, found, sid, table, seq>>
  <2>0. pc[p] = "write"
    BY Zenon DEF UpdateFound, InsertNew
  <2>1. name[p] \in Names /\ pc[p] = "write" /\ id \in Nat
    <3>1. name[p] \in Names
      BY <2>0 DEF CliInv, FoundStays, AtSession
    <3>2. found[p] \in Nat /\ seq \in Nat
      BY DEF CliInv, CliTypes
    <3> QED
      BY <2>0, <3>1, <3>2
  <2>2. CASE UpdateFound(p)
    BY <2>1, <2>2 DEF UpdateFound, Write, Move, argVars
  <2>3. CASE InsertNew(p)
    BY <2>1, <2>3 DEF InsertNew, Exists, Write, Move, argVars
  <2> QED
    BY <2>2, <2>3
<1> HIDE DEF id
<1> USE DEF CliInv
<1>1. CliTypes'
  BY <1>0 DEF CliTypes, AtSession
<1>2. FoundStays'
  BY <1>0 DEF CliTypes, FoundStays, AtSession
<1>3. LockHeld'
  <2>1. NoProcess \notin Processes
    BY CliAssumption
  <2>2. \A q \in Processes : pc'[q] = "commit" => q = p
    BY <1>0, <2>1 DEF CliTypes, LockHeld
  <2> QED
    BY <1>0, <2>2 DEF CliTypes, LockHeld, id
<1>4. IdsUnique' /\ OpenedAs'
  BY <1>0 DEF IdsUnique, OpenedAs, CliTypes
<1> QED
  BY <1>1, <1>2, <1>3, <1>4

(* What a commit does to the table: an access of the row that was found,   *)
(* or a row with a new id for a name that had none.                        *)
LEMMA CommitEffect ==
  ASSUME NEW p \in Processes, CliInv, Commit(p)
  PROVE  /\ name[p] \in Names /\ pending.id \in Nat /\ pending.id # 0
         /\ table' = [table EXCEPT ![name[p]] = pending]
         /\ \/ /\ pending.id = table[name[p]].id /\ seq' = seq
            \/ /\ pending.id = seq + 1 /\ seq' = seq + 1
               /\ table[name[p]].id = 0
<1> USE DEF CliInv, CliTypes, FoundStays, LockHeld, AtSession, Commit, Move
<1>1. name[p] \in Names /\ pc[p] = "commit" /\ table' = [table EXCEPT ![name[p]] = pending]
  OBVIOUS
<1>2. CASE found[p] = 0
  <2>1. pending.id = seq + 1 /\ table[name[p]].id = 0 /\ seq \in Nat
    BY <1>1, <1>2 DEF LockHeld
  <2> QED
    BY <1>1, <1>2, <2>1
<1>3. CASE found[p] # 0
  BY <1>1, <1>3
<1> QED
  BY <1>2, <1>3

LEMMA CommitKeeps ==
  ASSUME NEW p \in Processes, CliInv, Commit(p)
  PROVE  CliInv'
<1> USE DEF CliInv, Commit, Move, argVars, chatVars, endVars, NoEntry
<1>0. /\ name[p] \in Names /\ pending.id \in Nat /\ pending.id # 0
      /\ table' = [table EXCEPT ![name[p]] = pending]
      /\ \/ /\ pending.id = table[name[p]].id /\ seq' = seq
         \/ /\ pending.id = seq + 1 /\ seq' = seq + 1
            /\ table[name[p]].id = 0
  BY CommitEffect
<1>1. \A n \in Names : table'[n].id = IF n = name[p] THEN pending.id ELSE table[n].id
  BY <1>0 DEF CliTypes
<1>2. \A n \in Names : table[n].id # 0 => table'[n].id = table[n].id
  BY <1>0, <1>1
<1>3. CliTypes'
  BY <1>0, <1>1 DEF CliTypes, AtSession
<1>4. \A q \in Processes : q # p => pc'[q] # "commit"
  <2>1. pc' = [pc EXCEPT ![p] = "graph"] /\ writer = p
    BY DEF LockHeld
  <2> QED
    BY <2>1 DEF CliTypes, LockHeld
<1>5. FoundStays'
  BY <1>2, <1>4 DEF CliTypes, FoundStays, AtSession
<1>6. LockHeld'
  BY <1>4 DEF CliTypes, LockHeld
<1>7. IdsUnique'
  BY <1>0, <1>1 DEF CliTypes, IdsUnique
<1>8. OpenedAs'
  BY <1>0, <1>1, <1>2 DEF CliTypes, OpenedAs
<1> QED
  BY <1>3, <1>5, <1>6, <1>7, <1>8

-----------------------------------------------------------------------------

LEMMA CliStepKeeps ==
  ASSUME CliInv, [CliNext]_cliVars
  PROVE  CliInv'
<1> USE DEF argVars, dbVars, chatVars, endVars
<1>1. CASE UNCHANGED cliVars
  BY <1>1 DEF cliVars, CliInv, CliTypes, FoundStays, LockHeld, IdsUnique, OpenedAs
<1>2. ASSUME NEW p \in Processes, NEW n \in Names \cup {NoName}, Launch(p, n)
      PROVE  CliInv'
  BY <1>2, LaunchKeeps
<1>3. ASSUME NEW p \in Processes, Find(p) \/ UpdateFound(p) \/ InsertNew(p) \/ Commit(p)
      PROVE  CliInv'
  BY <1>3, FindKeeps, WriteKeeps, CommitKeeps
<1>4. ASSUME NEW p \in Processes,
             \/ InsertClash(p) \/ GraphReady(p) \/ Save(p) \/ Reply(p) \/ Ask(p)
             \/ Leave(p) \/ Locked(p) \/ GraphFails(p) \/ TurnFails(p)
      PROVE  CliInv'
  <2>1. PICK to \in {"graph", "chat", "think", "saved", "end"} :
          /\ pc[p] # "new" /\ (to # "end" => pc[p] \in AtSession)
          /\ pc' = [pc EXCEPT ![p] = to]
    BY <1>4 DEF InsertClash, GraphReady, Save, Reply, Ask, Leave, Locked,
                GraphFails, TurnFails, Fail, Move, AtSession
  <2>2. /\ UNCHANGED <<name, found, sid, table, seq>>
        /\ \/ writer' = writer /\ pending' = pending
           \/ writer = p /\ pending' = NoEntry
    BY <1>4 DEF InsertClash, GraphReady, Save, Reply, Ask, Leave, Locked,
                GraphFails, TurnFails, Fail
  <2> QED
    BY <2>1, <2>2, MoveKeeps
<1>5. ASSUME NEW p \in Processes, List(p) PROVE CliInv'
  <2>1. /\ pc[p] # "new" /\ pc' = [pc EXCEPT ![p] = "end"]
        /\ UNCHANGED <<name, found, sid, table, seq>>
        /\ \/ writer' = writer /\ pending' = pending
           \/ writer = p /\ pending' = NoEntry
    BY <1>5, Zenon DEF List, Move
  <2> QED
    BY <2>1, MoveKeeps
<1>6. ASSUME NEW p \in Processes, Kill(p) PROVE CliInv'
  <2>1. pc[p] # "new" /\ pc' = [pc EXCEPT ![p] = "end"]
    BY <1>6 DEF Kill
  <2>2. /\ UNCHANGED <<name, found, sid, table, seq>>
        /\ \/ writer' = writer /\ pending' = pending
           \/ writer = p /\ pending' = NoEntry
    BY <1>6 DEF Kill
  <2> QED
    BY <2>1, <2>2, MoveKeeps
<1> QED
  BY <1>1, <1>2, <1>3, <1>4, <1>5, <1>6 DEF CliNext, CliProgress, CliTrouble, CliQuiet

LEMMA CliInvariant == CliSpec => []CliInv
BY CliInitKeeps, CliStepKeeps, PTL DEF CliSpec

(* Whatever processes race for, fail over or are killed in, processes with *)
(* one session name converse under one id, and with different names under  *)
(* different ones (_get_or_create_session()).                              *)
THEOREM OneSession == CliSpec => []OneNameOneSession
<1>1. CliInv => OneNameOneSession
  BY DEF CliInv, CliTypes, OpenedAs, IdsUnique, OneNameOneSession, Opened
<1> QED
  BY <1>1, CliInvariant, PTL

-----------------------------------------------------------------------------

LEMMA OnlyCommitsWrite ==
  ASSUME [CliNext]_cliVars
  PROVE  UNCHANGED table \/ \E p \in Processes : Commit(p)
<1>1. ASSUME NEW p \in Processes, List(p) PROVE UNCHANGED table
  BY <1>1, Zenon DEF List, dbVars
<1>2. ASSUME NEW p \in Processes, NEW n \in Names \cup {NoName},
             Launch(p, n) \/ Find(p) \/ UpdateFound(p) \/ InsertNew(p)
      PROVE  UNCHANGED table
  BY <1>2 DEF Launch, Find, UpdateFound, InsertNew, Write, dbVars
<1>3. ASSUME NEW p \in Processes,
             \/ InsertClash(p) \/ GraphReady(p) \/ Save(p) \/ Reply(p) \/ Ask(p)
             \/ Leave(p) \/ Locked(p) \/ GraphFails(p) \/ TurnFails(p) \/ Kill(p)
      PROVE  UNCHANGED table
  BY <1>3 DEF InsertClash, GraphReady, Save, Reply, Ask, Leave, Locked,
              GraphFails, TurnFails, Kill, Fail, dbVars
<1> QED
  BY <1>1, <1>2, <1>3
     DEF CliNext, CliProgress, CliTrouble, CliQuiet, cliVars, dbVars

Stored == {[id |-> table[n].id, owner |-> "user", name |-> n] :
                n \in {m \in Names : Exists(m)}}

(* A commit leaves the sessions as they are or adds one that is new.       *)
LEMMA CommitCreates ==
  ASSUME NEW p \in Processes, CliInv, Commit(p)
  PROVE  Stored' = Stored
         \/ \E e \in Stored' :
               /\ \A f \in Stored : e.id # f.id /\ e.name # f.name
               /\ Stored' = Stored \cup {e}
<1>0. /\ name[p] \in Names /\ pending.id \in Nat /\ pending.id # 0
      /\ table' = [table EXCEPT ![name[p]] = pending]
      /\ \/ /\ pending.id = table[name[p]].id /\ seq' = seq
         \/ /\ pending.id = seq + 1 /\ seq' = seq + 1
            /\ table[name[p]].id = 0
  BY CommitEffect
<1>1. \A n \in Names : table'[n].id = IF n = name[p] THEN pending.id ELSE table[n].id
  BY <1>0 DEF CliInv, CliTypes
<1>2. CASE pending.id = table[name[p]].id
  <2>1. \A n \in Names : table'[n].id = table[n].id
    BY <1>1, <1>2
  <2> QED
    BY <2>1 DEF Stored, Exists
<1>3. CASE pending.id = seq + 1 /\ table[name[p]].id = 0
  <2> DEFINE e == [id |-> pending.id, owner |-> "user", name |-> name[p]]
  <2>1. Stored' = Stored \cup {e}
    BY <1>0, <1>1, <1>3 DEF Stored, Exists
  <2>2. \A f \in Stored : e.id # f.id /\ e.name # f.name
    BY <1>0, <1>3 DEF CliInv, CliTypes, IdsUnique, Stored, Exists
  <2> QED
    BY <2>1, <2>2
<1> QED
  BY <1>0, <1>2, <1>3

(* The SQLite file implements the catalog of sessions: whatever processes  *)
(* race for, fail or are killed over, _get_or_create_session() replaces,   *)
(* renumbers and loses none.                                               *)
THEOREM FileIsCatalog == CliSpec => ImplementsCatalog
<1>1. CliInit => Catalog!CatalogInit
  BY DEF CliInit, NoEntry, Exists, Catalog!CatalogInit
<1>2. CliInv /\ [CliNext]_cliVars => Catalog!Create \/ UNCHANGED Stored
  <2> SUFFICES ASSUME CliInv, [CliNext]_cliVars
               PROVE  Catalog!Create \/ UNCHANGED Stored
    OBVIOUS
  <2>1. CASE UNCHANGED table
    BY <2>1 DEF Stored, Exists
  <2>2. ASSUME NEW p \in Processes, Commit(p)
        PROVE  Catalog!Create \/ UNCHANGED Stored
    BY <2>2, CommitCreates DEF Catalog!Create, Catalog!Clash, Stored
  <2> QED
    BY <2>1, <2>2, OnlyCommitsWrite
<1> QED
  BY <1>1, <1>2, CliInvariant, PTL
     DEF CliSpec, ImplementsCatalog, Catalog!CatalogSpec, Stored

=============================================================================
