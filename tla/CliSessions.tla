---------------------------- MODULE CliSessions ----------------------------
(***************************************************************************)
(* The local command line program, carqna_cli.py: processes of one person  *)
(* that share one SQLite file with the sessions table and the checkpoints. *)
(*                                                                         *)
(* A process started with --session runs find-or-create (SELECT, then      *)
(* UPDATE or INSERT, then commit), builds its graph and converses on the   *)
(* thread named by the session's id; one started with --list prints the    *)
(* sessions.  pc[p] is where process p stands:                             *)
(*   "new" -> "find" -> "write" -> "commit" -> "graph" -> "chat"           *)
(*         -> "list"               "chat" -> "think" -> "saved" -> "chat"  *)
(* and from anywhere to "end".                                             *)
(*                                                                         *)
(* External: SQLite.  sqlite3 opens a transaction before the UPDATE or the *)
(* INSERT, not before the SELECT; one process at a time has the write      *)
(* lock and others wait for it, up to five seconds; AUTOINCREMENT's        *)
(* counter is rolled back with the transaction.  LangGraph, as in          *)
(* CopilotServer: a turn extends the checkpoint it started from, and is    *)
(* saved before ainvoke() returns.                                         *)
(* Abstracted: CREATE TABLE IF NOT EXISTS, and the text of the answers.    *)
(***************************************************************************)
EXTENDS Naturals, SequencesExt

CONSTANTS
    Processes,   \* invocations of the program
    Names,       \* session names
    NoName,      \* no name: a process started with --list
    NoProcess,   \* nobody
    MaxTurns     \* how many messages a process sends at most

Entry == [id : Nat, access : Nat]

NoEntry == [id |-> 0, access |-> 0]

ASSUME CliAssumption ==
    /\ NoName \notin Names /\ NoProcess \notin Processes /\ MaxTurns \in Nat
    /\ IsFiniteSet(Names)

VARIABLES
    pc,
    name,        \* name[p]: the --session argument
    before,      \* before[p]: processes that had ended when p was started
    found,       \* found[p]: the session id the SELECT returned, 0 for none
    sid,         \* sid[p]: the session id p converses under
    table,       \* committed rows of sessions, by session_name
    writer,      \* the process with SQLite's write lock
    pending,     \* the row it has written
    seq,         \* AUTOINCREMENT's counter, as committed
    threads,     \* the turns saved on each thread, by session id
    loaded,      \* loaded[p]: the turns p's current turn started from
    turns,       \* turns[p]: messages p has sent
    answered,    \* answered[p]: the last of them whose answer was printed
    listed,      \* listed[p]: the names --list printed, in order
    clashed      \* processes that failed over a name

argVars == <<name, before>>
dbVars == <<table, writer, pending, seq>>
chatVars == <<threads, loaded, turns, answered>>
endVars == <<listed, clashed>>
cliVars == <<pc, argVars, found, sid, dbVars, chatVars, endVars>>

CliInit ==
    /\ pc = [p \in Processes |-> "new"]
    /\ name = [p \in Processes |-> NoName]
    /\ before = [p \in Processes |-> {}]
    /\ found = [p \in Processes |-> 0]
    /\ sid = [p \in Processes |-> 0]
    /\ table = [n \in Names |-> NoEntry]
    /\ writer = NoProcess
    /\ pending = NoEntry
    /\ seq = 0
    /\ threads = [k \in 0..Cardinality(Names) |-> <<>>]
    /\ loaded = [p \in Processes |-> <<>>]
    /\ turns = [p \in Processes |-> 0]
    /\ answered = [p \in Processes |-> 0]
    /\ listed = [p \in Processes |-> <<>>]
    /\ clashed = {}

-----------------------------------------------------------------------------

Ended(p) == pc[p] = "end"

Exists(n) == table[n].id # 0

Move(p, from, to) ==
    /\ pc[p] = from
    /\ pc' = [pc EXCEPT ![p] = to]

(* The operating system starts a process; the file is opened.              *)
Launch(p, n) ==
    /\ Move(p, "new", IF n = NoName THEN "list" ELSE "find")
    /\ name' = [name EXCEPT ![p] = n]
    /\ before' = [before EXCEPT ![p] = {q \in Processes : Ended(q)}]
    /\ UNCHANGED <<found, sid, dbVars, chatVars, endVars>>

(* ORDER BY access_ts DESC.                                                *)
LatestFirst(s) == \A i, j \in DOMAIN s : i < j => table[s[i]].access >= table[s[j]].access

(* --list: all sessions, most recently used first, and sys.exit(0).        *)
List(p) ==
    /\ Move(p, "list", "end")
    /\ \E s \in SetToSeqs({n \in Names : Exists(n)}) :
          LatestFirst(s) /\ listed' = [listed EXCEPT ![p] = s]
    /\ UNCHANGED <<argVars, found, sid, dbVars, chatVars, clashed>>

(* Mutant of Find: the None of a missing row is taken for an id.           *)
FindNone(p) ==
    /\ Move(p, "find", "write")
    /\ found' = [found EXCEPT ![p] =
          IF Exists(name[p]) THEN table[name[p]].id ELSE NoName]
    /\ UNCHANGED <<argVars, sid, dbVars, chatVars, endVars>>

(* Mutant of Find: only the most recently used session is looked at.       *)
FindLatest(p) ==
    /\ Move(p, "find", "write")
    /\ found' = [found EXCEPT ![p] =
          IF \A n \in Names : table[n].access <= table[name[p]].access
          THEN table[name[p]].id ELSE 0]
    /\ UNCHANGED <<argVars, sid, dbVars, chatVars, endVars>>

(* SELECT session_id ... WHERE session_name = ?                            *)
Find(p) ==
    /\ Move(p, "find", "write")
    /\ found' = [found EXCEPT ![p] = table[name[p]].id]
    /\ UNCHANGED <<argVars, sid, dbVars, chatVars, endVars>>

(* CURRENT_TIMESTAMP: later than every committed access.                   *)
Now == 1 + Max({table[n].access : n \in Names})

(* A statement that writes a row under the process's write lock.           *)
Write(p, id) ==
    /\ writer = NoProcess
    /\ writer' = p
    /\ pending' = [id |-> id, access |-> Now]
    /\ Move(p, "write", "commit")
    /\ UNCHANGED <<argVars, found, sid, table, seq, chatVars, endVars>>

(* The UPDATE of access_ts.                                                *)
UpdateFound(p) == pc[p] = "write" /\ found[p] # 0 /\ Write(p, found[p])

(* Mutant of InsertNew: session_name is not UNIQUE.                        *)
InsertTwice(p) == pc[p] = "write" /\ found[p] = 0 /\ Write(p, seq + 1)

(* The INSERT of a new row.                                                *)
InsertNew(p) ==
    /\ pc[p] = "write" /\ found[p] = 0 /\ ~Exists(name[p])
    /\ Write(p, seq + 1)

(* An exception: sys.exit(1), through the except clause of main().         *)
Fail(p, from) ==
    /\ Move(p, from, "end")
    /\ UNCHANGED <<argVars, found, sid, dbVars, chatVars, listed>>

(* IntegrityError: the name was inserted since the SELECT found none.      *)
InsertClash(p) ==
    /\ pc[p] = "write" /\ found[p] = 0 /\ Exists(name[p])
    /\ writer = NoProcess
    /\ clashed' = clashed \cup {p}
    /\ Fail(p, "write")

(* "database is locked": the lock was not free in time.                    *)
Locked(p) == writer # NoProcess /\ Fail(p, "write") /\ UNCHANGED clashed

(* Mutant of Commit: conn.commit() is missing.                             *)
CommitNever(p) ==
    /\ Move(p, "commit", "graph")
    /\ sid' = [sid EXCEPT ![p] = pending.id]
    /\ UNCHANGED <<argVars, found, dbVars, chatVars, endVars>>

(* conn.commit().                                                          *)
Commit(p) ==
    /\ Move(p, "commit", "graph")
    /\ table' = [table EXCEPT ![name[p]] = pending]
    /\ seq' = IF found[p] = 0 THEN pending.id ELSE seq
    /\ sid' = [sid EXCEPT ![p] = pending.id]
    /\ writer' = NoProcess
    /\ pending' = NoEntry
    /\ UNCHANGED <<argVars, found, chatVars, endVars>>

(* create_graph() returns.                                                 *)
GraphReady(p) ==
    /\ Move(p, "graph", "chat")
    /\ UNCHANGED <<argVars, found, sid, dbVars, chatVars, endVars>>

(* create_graph() raises; the session stays in the table.                  *)
GraphFails(p) == Fail(p, "graph") /\ UNCHANGED clashed

(* Mutant of Ask: config is not passed, every turn starts afresh.          *)
AskFresh(p) ==
    /\ turns[p] < MaxTurns
    /\ Move(p, "chat", "think")
    /\ turns' = [turns EXCEPT ![p] = @ + 1]
    /\ loaded' = [loaded EXCEPT ![p] = <<>>]
    /\ UNCHANGED <<argVars, found, sid, dbVars, threads, answered, endVars>>

(* A message is typed: agent.ainvoke() loads the thread.                   *)
Ask(p) ==
    /\ turns[p] < MaxTurns
    /\ Move(p, "chat", "think")
    /\ turns' = [turns EXCEPT ![p] = @ + 1]
    /\ loaded' = [loaded EXCEPT ![p] = threads[sid[p]]]
    /\ UNCHANGED <<argVars, found, sid, dbVars, threads, answered, endVars>>

(* The checkpointer saves the turn.                                        *)
Save(p) ==
    /\ Move(p, "think", "saved")
    /\ threads' = [threads EXCEPT ![sid[p]] = Append(loaded[p], <<p, turns[p]>>)]
    /\ UNCHANGED <<argVars, found, sid, dbVars, loaded, turns, answered, endVars>>

(* The answer is printed.                                                  *)
Reply(p) ==
    /\ Move(p, "saved", "chat")
    /\ answered' = [answered EXCEPT ![p] = turns[p]]
    /\ UNCHANGED <<argVars, found, sid, dbVars, threads, loaded, turns, endVars>>

(* An exception of the turn is printed and the loop goes on.               *)
TurnFails(p) ==
    /\ Move(p, "think", "chat")
    /\ UNCHANGED <<argVars, found, sid, dbVars, chatVars, endVars>>

(* /quit.                                                                  *)
Leave(p) ==
    /\ Move(p, "chat", "end")
    /\ UNCHANGED <<argVars, found, sid, dbVars, chatVars, endVars>>

(* The process is killed; SQLite rolls its transaction back.  (At its      *)
(* prompt it does the same as /quit; while it lists, nobody notices.)      *)
Kill(p) ==
    /\ pc[p] \in {"find", "write", "commit", "graph", "think", "saved"}
    /\ pc' = [pc EXCEPT ![p] = "end"]
    /\ writer' = IF writer = p THEN NoProcess ELSE writer
    /\ pending' = IF writer = p THEN NoEntry ELSE pending
    /\ UNCHANGED <<argVars, found, sid, table, seq, chatVars, endVars>>

(* The steps a process takes by itself before it is at its user's prompt.  *)
CliProgress(p) ==
    \/ List(p)
    \/ Find(p)
    \/ UpdateFound(p)
    \/ InsertNew(p)
    \/ InsertClash(p)
    \/ Commit(p)
    \/ GraphReady(p)
    \/ Save(p)
    \/ Reply(p)

CliTrouble(p) == Locked(p) \/ GraphFails(p) \/ TurnFails(p) \/ Kill(p)

CliQuiet == (\A p \in Processes : Ended(p)) /\ UNCHANGED cliVars

CliNext ==
    \/ \E p \in Processes :
          \/ \E n \in Names \cup {NoName} : Launch(p, n)
          \/ CliProgress(p)
          \/ Ask(p)
          \/ Leave(p)
          \/ CliTrouble(p)
    \/ CliQuiet

CliSpec == CliInit /\ [][CliNext]_cliVars

(* The operating system runs every process; SQLite gives its lock to a     *)
(* waiting process when it is free; the graph is built or its building     *)
(* fails; a turn ends.  The user may never type anything.                  *)
CliFairSpec == CliSpec /\ \A p \in Processes : WF_cliVars(CliProgress(p))

-----------------------------------------------------------------------------

AtSession == {"find", "write", "commit", "graph", "chat", "think", "saved"}

(* A turn of a conversation: whose message it is, and which of its sender. *)
Turn == Processes \X Nat

(* Every variable stays in its type.                                       *)
CliTypeOK ==
    /\ pc \in [Processes -> AtSession \cup {"new", "list", "end"}]
    /\ name \in [Processes -> Names \cup {NoName}]
    /\ before \in [Processes -> SUBSET Processes]
    /\ found \in [Processes -> Nat] /\ sid \in [Processes -> Nat]
    /\ table \in [Names -> Entry]
    /\ writer \in Processes \cup {NoProcess} /\ pending \in Entry
    /\ seq \in Nat
    /\ threads \in [0..Cardinality(Names) -> Seq(Turn)]
    /\ loaded \in [Processes -> Seq(Turn)]
    /\ turns \in [Processes -> 0..MaxTurns] /\ answered \in [Processes -> 0..MaxTurns]
    /\ listed \in [Processes -> Seq(Names)]
    /\ clashed \subseteq Processes

Opened(p) == sid[p] # 0

(* A session name stands for one session: processes that use the same name *)
(* converse under the same id and processes with different names under     *)
(* different ones, whatever races, is rolled back or is killed meanwhile.  *)
OneNameOneSession ==
    \A p, q \in Processes :
        Opened(p) /\ Opened(q) => (sid[p] = sid[q] <=> name[p] = name[q])

Catalog == INSTANCE SessionCatalog WITH
    catalog <- {[id |-> table[n].id, owner |-> "user", name |-> n] : n \in {m \in Names : Exists(m)}}

(* The file is a catalog of one owner's sessions: what processes race for, *)
(* fail or are killed over, no session is replaced, renumbered or lost.    *)
ImplementsCatalog == Catalog!CatalogSpec

(* Started one after the other, processes never fail over a name: a clash  *)
(* needs another process that opened the same name in the meantime.        *)
ClashNeedsRace ==
    \A p \in Processes : p \in clashed =>
        \E q \in Processes \ {p} : name[q] = name[p] /\ Opened(q) /\ q \notin before[p]

(* --list prints every session opened by a process that had ended before,  *)
(* also if that process failed to build its graph or was killed later.     *)
ListShowsOpened ==
    \A p, q \in Processes :
        /\ Ended(p) /\ name[p] = NoName /\ q \in before[p] /\ Opened(q)
      => name[q] \in ToSet(listed[p])

Overlap(p, q) == p \notin before[q] /\ q \notin before[p]

(* A session resumes: a process that starts after another one of the same  *)
(* session has ended continues the last turn that one answered, on top of  *)
(* what that one had continued, unless a third process ran beside the      *)
(* first (both then extend what they loaded, and the later save wins).     *)
(* And it never starts from another session's turns (no user_id and no     *)
(* name is in the thread id: it is just str(session_id)).                  *)
Resumes ==
    /\ \A p, q \in Processes :
          /\ pc[p] = "think" /\ q \in before[p] /\ name[q] = name[p]
          /\ \A x \in Processes \ {p, q} : name[x] = name[q] => ~Overlap(x, q)
        => /\ IsPrefix(loaded[q], loaded[p])
           /\ answered[q] > 0 => <<q, answered[q]>> \in ToSet(loaded[p])
    /\ \A p \in Processes : \A turn \in ToSet(loaded[p]) : name[turn[1]] = name[p]

(* Every process started with a session comes to its prompt or ends, and a *)
(* turn once asked ends.                                                   *)
Arrives ==
    \A p \in Processes :
        pc[p] \in {"find", "list", "think"} ~> (pc[p] = "chat" \/ Ended(p))

(* --session: "continue if it exists, or create if it doesn't": a process  *)
(* does not fail because the name exists.                                  *)
CreateOrContinue == clashed = {}

=============================================================================
