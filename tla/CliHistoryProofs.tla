-------------------------- MODULE CliHistoryProofs --------------------------
(***************************************************************************)
(* What processes of the local program do to one another over time: which  *)
(* races make one fail, what --list shows, and what a later process of a   *)
(* session continues.  For any number of processes, names and turns.       *)
(***************************************************************************)
EXTENDS CliProofs

(* Where a process stands tells whether it has a name, an id and a history;*)
(* the processes counted as ended before another one are ended.            *)
Stages ==
    /\ before \in [Processes -> SUBSET Processes]
    /\ \A p \in Processes :
          /\ \A q \in before[p] : Ended(q)
          /\ pc[p] \in {"new", "list"} => name[p] = NoName
          /\ pc[p] \in {"new", "list", "find", "write", "commit"} => sid[p] = 0
          /\ pc[p] \in {"graph", "chat", "think", "saved"} => sid[p] # 0
    /\ clashed \subseteq {p \in Processes : Ended(p)}

(* Every row was committed by a process; one that found no row started     *)
(* before all those that have opened the name.                             *)
Openers ==
    /\ \A n \in Names : Exists(n) => \E q \in Processes : name[q] = n /\ Opened(q)
    /\ \A p \in Processes :
          /\ pc[p] \in {"write", "commit"} /\ found[p] = 0
          => \A q \in before[p] : name[q] = name[p] => ~Opened(q)

Listed == listed \in [Processes -> Seq(Names)]

RaceInv == Stages /\ Openers /\ Listed /\ ClashNeedsRace /\ ListShowsOpened

LEMMA RaceInit == CliInit => RaceInv
<1> SUFFICES ASSUME CliInit PROVE RaceInv
  OBVIOUS
<1> USE DEF CliInit, NoEntry
<1>1. Stages
  BY DEF Stages, Ended
<1>2. Openers
  BY DEF Openers, Exists
<1>3. Listed
  BY DEF Listed
<1>4. ClashNeedsRace /\ ListShowsOpened
  BY DEF ClashNeedsRace, ListShowsOpened, Ended
<1> QED
  BY <1>1, <1>2, <1>3, <1>4 DEF RaceInv

(* A process is started: it has opened nothing, and those that have ended  *)
(* without opening its name never will.                                    *)
LEMMA LaunchKeepsRace ==
  ASSUME NEW p \in Processes, NEW n \in Names \cup {NoName},
         CliInv, RaceInv, Launch(p, n)
  PROVE  RaceInv'
<1> USE DEF CliInv, RaceInv, Launch, Move, dbVars, endVars, Ended, Opened
<1>0. pc[p] = "new" /\ name[p] = NoName /\ NoName \notin Names /\ sid[p] = 0
  BY CliAssumption DEF Stages
<1>1. Stages'
  BY <1>0 DEF Stages, CliTypes
<1>2. Openers'
  <2>1. ASSUME NEW m \in Names, Exists(m) PROVE \E q \in Processes : name'[q] = m /\ sid[q] # 0
    BY <1>0, <2>1 DEF Openers, CliTypes
  <2>2. ASSUME NEW q \in Processes, pc'[q] \in {"write", "commit"}, found[q] = 0,
               NEW x \in before'[q], name'[x] = name'[q]
        PROVE  sid[x] = 0
    <3>1. q # p /\ pc[q] \in {"write", "commit"} /\ before'[q] = before[q]
      BY <1>0, <2>2 DEF CliTypes, Stages
    <3>2. x # p
      BY <1>0, <3>1 DEF Stages
    <3> QED
      BY <2>2, <3>1, <3>2 DEF Openers, CliTypes, Stages
  <2> QED
    BY <2>1, <2>2 DEF Openers, Exists
<1>3. Listed'
  BY DEF Listed
<1>4. ClashNeedsRace'
  <2> SUFFICES ASSUME NEW q \in clashed
               PROVE  \E x \in Processes \ {q} :
                         name'[x] = name'[q] /\ sid[x] # 0 /\ x \notin before'[q]
    BY DEF ClashNeedsRace
  <2>1. q \in Processes /\ q # p
    BY <1>0 DEF Stages
  <2>2. PICK x \in Processes \ {q} : name[x] = name[q] /\ sid[x] # 0 /\ x \notin before[q]
    BY <2>1 DEF ClashNeedsRace
  <2>3. x # p
    BY <1>0, <2>2
  <2> QED
    BY <2>1, <2>2, <2>3 DEF CliTypes, Stages
<1>5. ListShowsOpened'
  <2> SUFFICES ASSUME NEW q \in Processes, NEW x \in Processes,
                      pc'[q] = "end", name'[q] = NoName, x \in before'[q], sid[x] # 0
               PROVE  name'[x] \in ToSet(listed[q])
    BY DEF ListShowsOpened
  <2>1. q # p /\ x # p /\ pc[q] = "end"
    BY <1>0 DEF CliTypes
  <2> QED
    BY <2>1 DEF ListShowsOpened, CliTypes, Stages
<1> QED
  BY <1>1, <1>2, <1>3, <1>4, <1>5

(* A process of a session moves on without touching the file or an id; it  *)
(* may end over a name that another one has opened meanwhile.              *)
LEMMA MoveKeepsRace ==
  ASSUME NEW p \in Processes, NEW to \in {"write", "commit", "chat", "think", "saved", "end"},
         CliInv, RaceInv,
         pc[p] \in AtSession, pc' = [pc EXCEPT ![p] = to],
         \/ to = "end"
         \/ pc[p] = "find" /\ to = "write"
         \/ pc[p] = "write" /\ to = "commit"
         \/ pc[p] \in {"graph", "chat", "think", "saved"} /\ to \in {"chat", "think", "saved"},
         UNCHANGED <<name, before, sid, table, listed>>,
         \/ found' = found /\ pc[p] # "find"
         \/ found' = found /\ to = "end"
         \/ /\ pc[p] = "find" /\ to = "write"
            /\ found' = [found EXCEPT ![p] = table[name[p]].id],
         \/ clashed' = clashed
         \/ /\ to = "end" /\ clashed' = clashed \cup {p}
            /\ \E q \in Processes \ {p} : name[q] = name[p] /\ Opened(q) /\ q \notin before[p]
  PROVE  RaceInv'
<1> USE DEF CliInv, RaceInv, Ended, Opened, AtSession
<1>0. name[p] \in Names /\ NoName \notin Names
  BY CliAssumption DEF FoundStays
<1>1. Stages'
  BY DEF Stages, CliTypes
<1>2. Openers'
  <2>1. ASSUME NEW q \in Processes, pc'[q] \in {"write", "commit"}, found'[q] = 0,
               NEW x \in before[q], name[x] = name[q]
        PROVE  sid[x] = 0
    <3>1. CASE q # p \/ pc[p] \in {"write", "commit"}
      BY <2>1, <3>1 DEF Openers, CliTypes
    <3>2. CASE q = p /\ pc[p] = "find"
      <4>1. table[name[p]].id = 0
        BY <2>1, <3>2 DEF CliTypes
      <4>2. x \in Processes
        BY DEF Stages
      <4> QED
        BY <2>1, <3>2, <4>1, <4>2 DEF OpenedAs
    <3> QED
      BY <2>1, <3>1, <3>2 DEF CliTypes
  <2> QED
    BY <2>1 DEF Openers, Exists
<1>3. Listed'
  BY DEF Listed
<1>4. ClashNeedsRace'
  BY DEF ClashNeedsRace
<1>5. ListShowsOpened'
  BY <1>0 DEF ListShowsOpened, CliTypes
<1> QED
  BY <1>1, <1>2, <1>3, <1>4, <1>5

(* --list ends with every session of a process that had ended before.      *)
LEMMA ListKeepsRace ==
  ASSUME NEW p \in Processes, CliInv, RaceInv, List(p)
  PROVE  RaceInv'
<1> DEFINE S == {n \in Names : Exists(n)}
<1>0. /\ pc[p] = "list" /\ pc' = [pc EXCEPT ![p] = "end"]
      /\ UNCHANGED <<name, before, found, sid, table, clashed>>
      /\ \E s \in SetToSeqs(S) : listed' = [listed EXCEPT ![p] = s]
  BY DEF List, Move, argVars, dbVars
<1>1. PICK s \in SetToSeqs(S) : listed' = [listed EXCEPT ![p] = s]
  BY <1>0
<1>2. s \in Seq(Names) /\ ToSet(s) = S
  <2>1. IsFiniteSet(S)
    BY CliAssumption, FS_Subset
  <2>2. s \in Seq(S) /\ ToSet(s) = S
    BY <2>1, SequencesOfSet
  <2> QED
    BY <2>2, SeqMonotonic
<1> HIDE DEF S
<1> USE DEF CliInv, RaceInv, Ended, Opened
<1>3. Stages'
  BY <1>0 DEF Stages, CliTypes
<1>4. Openers'
  BY <1>0 DEF Openers, Exists, CliTypes
<1>5. Listed'
  BY <1>1, <1>2 DEF Listed
<1>6. ClashNeedsRace'
  BY <1>0 DEF ClashNeedsRace
<1>7. ListShowsOpened'
  <2> SUFFICES ASSUME NEW q \in Processes, NEW x \in Processes,
                      pc'[q] = "end", name[q] = NoName, x \in before[q], sid[x] # 0
               PROVE  name[x] \in ToSet(listed'[q])
    BY <1>0 DEF ListShowsOpened
  <2>1. CASE q = p
    <3>1. name[x] \in S
      BY DEF OpenedAs, S, Exists
    <3> QED
      BY <1>1, <1>2, <2>1, <3>1 DEF Listed
  <2>2. CASE q # p
    BY <1>0, <1>1, <2>2 DEF ListShowsOpened, Listed, CliTypes
  <2> QED
    BY <2>1, <2>2
<1> QED
  BY <1>3, <1>4, <1>5, <1>6, <1>7

(* A commit opens the name for a process that has not ended.               *)
LEMMA CommitKeepsRace ==
  ASSUME NEW p \in Processes, CliInv, RaceInv, Commit(p)
  PROVE  RaceInv'
<1>0. /\ pc[p] = "commit" /\ pc' = [pc EXCEPT ![p] = "graph"]
      /\ sid' = [sid EXCEPT ![p] = pending.id]
      /\ UNCHANGED <<name, before, found, listed, clashed>>
  BY DEF Commit, Move, argVars, endVars
<1>1. /\ name[p] \in Names /\ pending.id # 0
      /\ table' = [table EXCEPT ![name[p]] = pending]
  BY CommitEffect
<1> USE DEF CliInv, RaceInv, Ended, Opened
<1>2. /\ sid'[p] # 0 /\ \A q \in Processes \ {p} : sid'[q] = sid[q]
      /\ \A q \in Processes : p \notin before[q]
      /\ pc'[p] = "graph" /\ \A q \in Processes \ {p} : pc'[q] = pc[q]
  BY <1>0, <1>1 DEF CliTypes, Stages
<1>3. Stages'
  BY <1>0, <1>2 DEF Stages
<1>4. Openers'
  <2>1. ASSUME NEW n \in Names, Exists(n)'
        PROVE  \E q \in Processes : name[q] = n /\ sid'[q] # 0
    <3>1. CASE n = name[p]
      BY <1>2, <3>1
    <3>2. CASE n # name[p]
      BY <1>0, <1>1, <1>2, <2>1, <3>2 DEF Openers, Exists, CliTypes
    <3> QED
      BY <3>1, <3>2
  <2>2. ASSUME NEW q \in Processes, pc'[q] \in {"write", "commit"}, found[q] = 0,
               NEW x \in before[q], name[x] = name[q]
        PROVE  sid'[x] = 0
    BY <1>2, <2>2 DEF Openers, Stages
  <2> QED
    BY <1>0, <2>1, <2>2 DEF Openers
<1>5. Listed'
  BY <1>0 DEF Listed
<1>6. ClashNeedsRace'
  BY <1>0, <1>2 DEF ClashNeedsRace
<1>7. ListShowsOpened'
  BY <1>0, <1>2 DEF ListShowsOpened, Stages
<1> QED
  BY <1>3, <1>4, <1>5, <1>6, <1>7

LEMMA RaceStepKeeps ==
  ASSUME CliInv, RaceInv, [CliNext]_cliVars
  PROVE  RaceInv'
<1> USE DEF argVars, dbVars, chatVars, endVars
<1>1. CASE UNCHANGED cliVars
  BY <1>1 DEF cliVars, RaceInv, Stages, Openers, Listed, ClashNeedsRace,
              ListShowsOpened, Ended, Opened, Exists
<1>2. ASSUME NEW p \in Processes, NEW n \in Names \cup {NoName}, Launch(p, n)
      PROVE  RaceInv'
  BY <1>2, LaunchKeepsRace
<1>3. ASSUME NEW p \in Processes, List(p) \/ Commit(p)
      PROVE  RaceInv'
  BY <1>3, ListKeepsRace, CommitKeepsRace
<1>4. ASSUME NEW p \in Processes, Find(p)
      PROVE  RaceInv'
  BY <1>4, MoveKeepsRace DEF Find, Move, AtSession
<1>5. ASSUME NEW p \in Processes,
             \/ UpdateFound(p) \/ InsertNew(p) \/ GraphReady(p) \/ Save(p) \/ Reply(p)
             \/ Ask(p) \/ TurnFails(p)
      PROVE  RaceInv'
  <2>1. PICK to \in {"commit", "chat", "think", "saved"} :
          /\ pc' = [pc EXCEPT ![p] = to]
          /\ \/ pc[p] = "write" /\ to = "commit"
             \/ pc[p] \in {"graph", "chat", "think", "saved"} /\ to \in {"chat", "think", "saved"}
    BY <1>5 DEF UpdateFound, InsertNew, Write, GraphReady, Save, Reply, Ask, TurnFails, Move
  <2>2. UNCHANGED <<name, before, found, sid, table, listed, clashed>>
    BY <1>5 DEF UpdateFound, InsertNew, Write, GraphReady, Save, Reply, Ask, TurnFails
  <2> QED
    BY <2>1, <2>2, MoveKeepsRace DEF AtSession
<1>6. ASSUME NEW p \in Processes, Leave(p) \/ Locked(p) \/ GraphFails(p) \/ Kill(p)
      PROVE  RaceInv'
  <2>1. /\ pc[p] \in AtSession /\ pc' = [pc EXCEPT ![p] = "end"]
        /\ UNCHANGED <<name, before, found, sid, table, listed, clashed>>
    BY <1>6 DEF Leave, Locked, GraphFails, Kill, Fail, Move, AtSession
  <2> QED
    BY <2>1, MoveKeepsRace
<1>7. ASSUME NEW p \in Processes, InsertClash(p)
      PROVE  RaceInv'
  <2>1. /\ pc[p] = "write" /\ found[p] = 0 /\ Exists(name[p])
        /\ pc' = [pc EXCEPT ![p] = "end"] /\ clashed' = clashed \cup {p}
        /\ UNCHANGED <<name, before, found, sid, table, listed>>
    BY <1>7 DEF InsertClash, Fail, Move
  <2>2. name[p] \in Names /\ ~Opened(p)
    BY <2>1 DEF CliInv, FoundStays, AtSession, RaceInv, Stages, Opened
  <2>3. PICK q \in Processes : name[q] = name[p] /\ Opened(q)
    BY <2>1, <2>2 DEF RaceInv, Openers
  <2>4. q # p /\ q \notin before[p]
    BY <2>1, <2>2, <2>3 DEF RaceInv, Openers
  <2> QED
    BY <2>1, <2>3, <2>4, MoveKeepsRace DEF AtSession
<1> QED
  BY <1>1, <1>2, <1>3, <1>4, <1>5, <1>6, <1>7
     DEF CliNext, CliProgress, CliTrouble, CliQuiet

LEMMA RaceInvariant == CliSpec => []RaceInv
<1>1. CliInv /\ RaceInv /\ [CliNext]_cliVars => RaceInv'
  BY RaceStepKeeps
<1> QED
  BY <1>1, RaceInit, CliInvariant, PTL DEF CliSpec

(* A process fails over a name only beside another one that opened it in   *)
(* the meantime (the SELECT and the INSERT of _get_or_create_session()     *)
(* are not one transaction).                                               *)
THEOREM ClashIsRace == CliSpec => []ClashNeedsRace
<1>1. RaceInv => ClashNeedsRace
  BY DEF RaceInv
<1> QED
  BY <1>1, RaceInvariant, PTL

(* What --list prints has every session a process had opened that ended    *)
(* before, however that process ended.                                     *)
THEOREM ListIsComplete == CliSpec => []ListShowsOpened
<1>1. RaceInv => ListShowsOpened
  BY DEF RaceInv
<1> QED
  BY <1>1, RaceInvariant, PTL

-----------------------------------------------------------------------------

(* Ids number the rows, and a thread without a row is empty.               *)
ThreadTypes ==
    /\ threads \in [0..Cardinality(Names) -> Seq(Turn)]
    /\ loaded \in [Processes -> Seq(Turn)]
    /\ turns \in [Processes -> Nat] /\ answered \in [Processes -> Nat]
    /\ seq = Cardinality({n \in Names : Exists(n)})
    /\ \A k \in 0..Cardinality(Names) : k > seq => threads[k] = <<>>
    /\ \A p \in Processes : ~Opened(p) => loaded[p] = <<>> /\ answered[p] = 0

(* Threads hold, and runs start from, turns of one session only.           *)
OwnTurns ==
    /\ \A n \in Names : Exists(n) =>
          \A turn \in ToSet(threads[table[n].id]) : name[turn[1]] = n
    /\ \A p \in Processes : \A turn \in ToSet(loaded[p]) : name[turn[1]] = name[p]

(* s goes on from what q continued and was answered.                       *)
Extends(q, s) ==
    /\ IsPrefix(loaded[q], s)
    /\ answered[q] > 0 => <<q, answered[q]>> \in ToSet(s)

(* No other process of the session ran beside q.                           *)
Alone(q) == \A x \in Processes \ {q} : name[x] = name[q] => ~Overlap(x, q)

Carried ==
    \A q \in Processes : Opened(q) /\ Alone(q) =>
        /\ Extends(q, threads[sid[q]])
        /\ pc[q] = "think" => loaded[q] = threads[sid[q]]
        /\ pc[q] = "saved" => <<q, turns[q]>> \in ToSet(threads[sid[q]])
        /\ \A p \in Processes :
              /\ q \in before[p] /\ name[p] = name[q] /\ pc[p] = "think"
              => Extends(q, loaded[p])

TurnInv == ThreadTypes /\ OwnTurns

LEMMA TurnInit == CliInit => TurnInv /\ Carried
<1> SUFFICES ASSUME CliInit PROVE TurnInv /\ Carried
  OBVIOUS
<1> USE DEF CliInit, NoEntry
<1>1. {n \in Names : Exists(n)} = {}
  BY DEF Exists
<1>2. ThreadTypes
  <2>1. <<>> \in Seq(Turn)
    BY EmptySeq
  <2>2. seq = Cardinality({n \in Names : Exists(n)})
    BY <1>1, FS_EmptySet
  <2> QED
    BY <2>1, <2>2 DEF ThreadTypes, Opened
<1>3. OwnTurns /\ Carried
  BY DEF OwnTurns, Exists, ToSet, Carried, Opened
<1> QED
  BY <1>2, <1>3 DEF TurnInv

(* An open session has a thread, and names that differ have different ones.*)
LEMMA OpenedThread ==
  ASSUME CliInv, TurnInv, NEW p \in Processes, Opened(p)
  PROVE  /\ name[p] \in Names /\ Exists(name[p]) /\ sid[p] = table[name[p]].id
         /\ Cardinality(Names) \in Nat /\ seq \in 0..Cardinality(Names)
         /\ sid[p] \in 0..Cardinality(Names) /\ sid[p] <= seq
         /\ \A n \in Names : Exists(n) /\ table[n].id = sid[p] => n = name[p]
<1>1. name[p] \in Names /\ Exists(name[p]) /\ sid[p] = table[name[p]].id
  BY DEF CliInv, OpenedAs, Opened, Exists
<1>2. /\ IsFiniteSet(Names) /\ Cardinality(Names) \in Nat
      /\ seq <= Cardinality(Names) /\ seq \in Nat
  <2>1. IsFiniteSet(Names) /\ {n \in Names : Exists(n)} \in SUBSET Names
    BY CliAssumption
  <2> QED
    BY <2>1, FS_Subset, FS_CardinalityType DEF TurnInv, ThreadTypes, CliInv, CliTypes
<1>3. sid[p] <= seq /\ sid[p] \in Nat
  BY <1>1 DEF CliInv, IdsUnique, CliTypes
<1>4. \A n \in Names : Exists(n) /\ table[n].id = sid[p] => n = name[p]
  BY <1>1 DEF CliInv, IdsUnique, Exists
<1> QED
  BY <1>1, <1>2, <1>3, <1>4

(* A row that is added gets the next number, whose thread is empty.        *)
LEMMA NextThread ==
  ASSUME CliInv, TurnInv, NEW m \in Names, table[m].id = 0
  PROVE  /\ seq + 1 \in 0..Cardinality(Names) /\ threads[seq + 1] = <<>>
         /\ Cardinality({n \in Names : Exists(n)} \cup {m}) = seq + 1
<1> DEFINE S == {n \in Names : Exists(n)}
<1>1. IsFiniteSet(Names) /\ S \cup {m} \in SUBSET Names /\ m \notin S /\ IsFiniteSet(S)
  BY CliAssumption, FS_Subset DEF Exists
<1>2. Cardinality(S \cup {m}) = seq + 1
  BY <1>1, FS_AddElement DEF TurnInv, ThreadTypes
<1>3. Cardinality(S \cup {m}) <= Cardinality(Names) /\ Cardinality(Names) \in Nat
  BY <1>1, FS_Subset, FS_CardinalityType
<1>4. seq \in Nat
  BY DEF CliInv, CliTypes
<1>5. seq + 1 \in 0..Cardinality(Names) /\ seq + 1 > seq
  BY <1>2, <1>3, <1>4
<1> QED
  BY <1>2, <1>5 DEF TurnInv, ThreadTypes

LEMMA LaunchKeepsTurns ==
  ASSUME NEW p \in Processes, NEW n \in Names \cup {NoName},
         CliInv, RaceInv, TurnInv, Carried, Launch(p, n)
  PROVE  TurnInv' /\ Carried'
<1>0. /\ pc[p] = "new" /\ name[p] = NoName /\ NoName \notin Names /\ sid[p] = 0
      /\ name' = [name EXCEPT ![p] = n] /\ pc'[p] \notin {"think", "saved"}
      /\ \A q \in Processes \ {p} : pc'[q] = pc[q] /\ before'[q] = before[q]
      /\ UNCHANGED <<sid, table, seq, threads, loaded, turns, answered>>
  BY CliAssumption DEF Launch, Move, dbVars, chatVars, RaceInv, Stages, CliInv, CliTypes
<1>1. /\ \A q \in Processes \ {p} : name'[q] = name[q]
      /\ \A q \in Processes : Opened(q) => q # p /\ name[q] \in Names
  BY <1>0 DEF CliInv, CliTypes, OpenedAs, Opened
<1>2. ThreadTypes'
  <2>1. {m \in Names : Exists(m)}' = {m \in Names : Exists(m)}
    BY <1>0 DEF Exists
  <2> QED
    BY <1>0, <2>1 DEF TurnInv, ThreadTypes, Opened
<1>3. OwnTurns'
  <2>1. ASSUME NEW m \in Names, Exists(m), NEW turn \in ToSet(threads[table[m].id])
        PROVE  name'[turn[1]] = m
    <3>1. name[turn[1]] = m
      BY <2>1 DEF TurnInv, OwnTurns
    <3> QED
      BY <1>0, <3>1 DEF CliInv, CliTypes
  <2>2. ASSUME NEW q \in Processes, NEW turn \in ToSet(loaded[q])
        PROVE  name'[turn[1]] = name'[q]
    <3>1. Opened(q)
      BY DEF TurnInv, ThreadTypes, ToSet
    <3>2. name[turn[1]] = name[q]
      BY DEF TurnInv, OwnTurns
    <3> QED
      BY <1>0, <1>1, <3>1, <3>2 DEF CliInv, CliTypes
  <2> QED
    BY <1>0, <2>1, <2>2 DEF OwnTurns, Exists
<1>4. Carried'
  <2> SUFFICES ASSUME NEW q \in Processes, Opened(q)', Alone(q)'
               PROVE  /\ Extends(q, threads[sid[q]])'
                      /\ (pc[q] = "think" => loaded[q] = threads[sid[q]])'
                      /\ (pc[q] = "saved" => <<q, turns[q]>> \in ToSet(threads[sid[q]]))'
                      /\ \A x \in Processes :
                            (/\ q \in before[x] /\ name[x] = name[q] /\ pc[x] = "think"
                             => Extends(q, loaded[x]))'
    BY DEF Carried
  <2>1. Opened(q) /\ q # p
    BY <1>0, <1>1 DEF Opened
  <2>2. Alone(q)
    BY <1>0, <1>1, <2>1 DEF Alone, Overlap
  <2> QED
    BY <1>0, <1>1, <2>1, <2>2 DEF Carried, Extends
<1> QED
  BY <1>2, <1>3, <1>4 DEF TurnInv

(* A process moves on or ends and nothing is said.                         *)
LEMMA QuietKeepsTurns ==
  ASSUME NEW p \in Processes, CliInv, TurnInv, Carried,
         NEW to \in {"find", "write", "commit", "chat", "end"}, pc' = [pc EXCEPT ![p] = to],
         UNCHANGED <<name, before, sid, table, seq, threads, loaded, turns, answered>>
  PROVE  TurnInv' /\ Carried'
<1>1. ThreadTypes' /\ OwnTurns'
  <2>1. {m \in Names : Exists(m)}' = {m \in Names : Exists(m)}
    BY DEF Exists
  <2> QED
    BY <2>1 DEF TurnInv, ThreadTypes, OwnTurns, Opened, Exists
<1>2. \A q \in Processes : pc'[q] \in {"think", "saved"} => pc'[q] = pc[q]
  BY DEF CliInv, CliTypes
<1>3. Carried'
  BY <1>2 DEF Carried, Alone, Overlap, Opened, Extends
<1> QED
  BY <1>1, <1>3 DEF TurnInv

(* A commit gives a name its thread: the one it had, or an empty one.      *)
LEMMA CommitKeepsTurns ==
  ASSUME NEW p \in Processes, CliInv, RaceInv, TurnInv, Carried, Commit(p)
  PROVE  TurnInv' /\ Carried'
<1>0. /\ pc[p] = "commit" /\ pc' = [pc EXCEPT ![p] = "graph"]
      /\ sid' = [sid EXCEPT ![p] = pending.id]
      /\ UNCHANGED <<name, before, threads, loaded, turns, answered>>
  BY DEF Commit, Move, argVars, chatVars
<1>1. /\ name[p] \in Names /\ pending.id \in Nat /\ pending.id # 0
      /\ table' = [table EXCEPT ![name[p]] = pending]
      /\ \/ pending.id = table[name[p]].id /\ seq' = seq
         \/ /\ pending.id = seq + 1 /\ seq' = seq + 1
            /\ table[name[p]].id = 0
  BY CommitEffect
<1>2. /\ ~Opened(p) /\ loaded[p] = <<>> /\ answered[p] = 0
      /\ \A q \in Processes : p \notin before[q]
  BY <1>0 DEF RaceInv, Stages, Opened, TurnInv, ThreadTypes, Ended
<1>3. \A n \in Names : table'[n].id = IF n = name[p] THEN pending.id ELSE table[n].id
  BY <1>1 DEF CliInv, CliTypes
<1>4. {n \in Names : Exists(n)}' = {n \in Names : Exists(n)} \cup {name[p]}
  BY <1>1, <1>3 DEF Exists
<1>5. /\ seq' = Cardinality({n \in Names : Exists(n)}')
      /\ threads[pending.id] = <<>> \/ pending.id = table[name[p]].id
  <2>1. CASE pending.id = table[name[p]].id /\ seq' = seq
    <3>1. {n \in Names : Exists(n)} \cup {name[p]} = {n \in Names : Exists(n)}
      BY <1>1, <2>1 DEF Exists
    <3> QED
      BY <1>4, <2>1, <3>1 DEF TurnInv, ThreadTypes
  <2>2. CASE pending.id = seq + 1 /\ seq' = seq + 1 /\ table[name[p]].id = 0
    BY <1>1, <1>4, <2>2, NextThread
  <2> QED
    BY <1>1, <2>1, <2>2
<1>6. ThreadTypes'
  <2>1. \A k \in 0..Cardinality(Names) : k > seq' => k > seq
    <3>1. seq \in Nat /\ seq <= seq' /\ seq' \in Nat
      BY <1>1 DEF CliInv, CliTypes
    <3> QED
      BY <3>1
  <2>2. \A q \in Processes : sid'[q] = 0 => sid[q] = 0 \/ q = p
    BY <1>0 DEF CliInv, CliTypes
  <2> QED
    BY <1>0, <1>2, <1>5, <2>1, <2>2 DEF TurnInv, ThreadTypes, Opened
<1>7. OwnTurns'
  <2>1. ASSUME NEW n \in Names, Exists(n)', NEW turn \in ToSet(threads[table'[n].id])
        PROVE  name[turn[1]] = n
    <3>1. CASE Exists(n) /\ table'[n].id = table[n].id
      BY <2>1, <3>1 DEF TurnInv, OwnTurns
    <3>2. CASE n = name[p] /\ threads[pending.id] = <<>>
      BY <1>3, <2>1, <3>2 DEF ToSet
    <3> QED
      BY <1>1, <1>3, <1>5, <2>1, <3>1, <3>2 DEF Exists
  <2> QED
    BY <1>0, <2>1 DEF OwnTurns, TurnInv
<1>8. Carried'
  <2> SUFFICES ASSUME NEW q \in Processes, Opened(q)', Alone(q)'
               PROVE  /\ Extends(q, threads[sid[q]])'
                      /\ (pc[q] = "think" => loaded[q] = threads[sid[q]])'
                      /\ (pc[q] = "saved" => <<q, turns[q]>> \in ToSet(threads[sid[q]]))'
                      /\ \A x \in Processes :
                            (/\ q \in before[x] /\ name[x] = name[q] /\ pc[x] = "think"
                             => Extends(q, loaded[x]))'
    BY DEF Carried
  <2>1. pc'[p] = "graph" /\ \A x \in Processes \ {p} : pc'[x] = pc[x] /\ sid'[x] = sid[x]
    BY <1>0 DEF CliInv, CliTypes
  <2>2. CASE q = p
    <3>1. Opened(p)' /\ sid'[p] = pending.id
      BY <1>0, <2>2 DEF CliInv, CliTypes
    <3>2. pending.id \in 0..Cardinality(Names)
      <4>1. CASE pending.id = seq + 1 /\ table[name[p]].id = 0
        BY <1>1, <4>1, NextThread
      <4>2. CASE pending.id = table[name[p]].id
        <5>1. PICK x \in Processes : name[x] = name[p] /\ Opened(x)
          BY <1>1, <4>2 DEF RaceInv, Openers, Exists
        <5> QED
          BY <4>2, <5>1, OpenedThread
      <4> QED
        BY <1>1, <4>1, <4>2
    <3>3. threads[pending.id] \in Seq(Turn)
      BY <3>2 DEF TurnInv, ThreadTypes
    <3>4. IsPrefix(<<>>, threads[pending.id])
      BY <3>3, PrefixOfItself
    <3> QED
      BY <1>0, <1>2, <2>1, <2>2, <3>1, <3>4 DEF Extends
  <2>3. CASE q # p
    <3>1. Opened(q) /\ Alone(q)
      BY <1>0, <2>1, <2>3 DEF Opened, Alone, Overlap
    <3> QED
      BY <1>0, <2>1, <2>3, <3>1 DEF Carried, Extends
  <2> QED
    BY <2>2, <2>3
<1> QED
  BY <1>6, <1>7, <1>8 DEF TurnInv

(* Where no other process of the session ran beside q, one that speaks     *)
(* started after q had ended.                                              *)
LEMMA Successor ==
  ASSUME RaceInv, NEW q \in Processes, Alone(q), NEW x \in Processes \ {q},
         name[x] = name[q], pc[x] # "end"
  PROVE  q \in before[x] /\ pc[q] = "end"
BY DEF RaceInv, Stages, Alone, Overlap, Ended

(* A message is typed: the run starts from the thread as it is.            *)
LEMMA AskKeepsTurns ==
  ASSUME NEW p \in Processes, CliInv, RaceInv, TurnInv, Carried, Ask(p)
  PROVE  TurnInv' /\ Carried'
<1>0. /\ pc[p] = "chat" /\ pc' = [pc EXCEPT ![p] = "think"]
      /\ loaded' = [loaded EXCEPT ![p] = threads[sid[p]]]
      /\ turns' = [turns EXCEPT ![p] = @ + 1]
      /\ UNCHANGED <<name, before, sid, table, seq, threads, answered>>
  BY DEF Ask, Move, argVars, dbVars
<1>1. /\ Opened(p) /\ \A q \in Processes : p \notin before[q]
      /\ Opened(p)'
  BY <1>0 DEF RaceInv, Stages, Opened, Ended
<1>2. /\ name[p] \in Names /\ Exists(name[p]) /\ sid[p] = table[name[p]].id
      /\ sid[p] \in 0..Cardinality(Names)
  BY <1>1, OpenedThread
<1>3. /\ threads[sid[p]] \in Seq(Turn)
      /\ pc'[p] = "think" /\ loaded'[p] = threads[sid[p]]
      /\ \A q \in Processes \ {p} :
            pc'[q] = pc[q] /\ loaded'[q] = loaded[q] /\ turns'[q] = turns[q]
  BY <1>0, <1>2 DEF CliInv, CliTypes, TurnInv, ThreadTypes
<1>4. ThreadTypes'
  <2>1. {m \in Names : Exists(m)}' = {m \in Names : Exists(m)}
    BY <1>0 DEF Exists
  <2>2. loaded' \in [Processes -> Seq(Turn)] /\ turns' \in [Processes -> Nat]
    BY <1>0, <1>3 DEF TurnInv, ThreadTypes
  <2>3. \A q \in Processes : sid[q] = 0 => loaded'[q] = <<>> /\ answered[q] = 0
    BY <1>1, <1>3 DEF TurnInv, ThreadTypes, Opened
  <2> QED
    BY <1>0, <2>1, <2>2, <2>3 DEF TurnInv, ThreadTypes, Opened
<1>5. OwnTurns'
  <2>1. \A turn \in ToSet(threads[sid[p]]) : name[turn[1]] = name[p]
    BY <1>2 DEF TurnInv, OwnTurns
  <2> QED
    BY <1>0, <1>3, <2>1 DEF TurnInv, OwnTurns, Exists
<1>6. Carried'
  <2> SUFFICES ASSUME NEW q \in Processes, Opened(q)', Alone(q)'
               PROVE  /\ Extends(q, threads[sid[q]])'
                      /\ (pc[q] = "think" => loaded[q] = threads[sid[q]])'
                      /\ (pc[q] = "saved" => <<q, turns[q]>> \in ToSet(threads[sid[q]]))'
                      /\ \A x \in Processes :
                            (/\ q \in before[x] /\ name[x] = name[q] /\ pc[x] = "think"
                             => Extends(q, loaded[x]))'
    BY DEF Carried
  <2>1. Opened(q) /\ Alone(q)
    BY <1>0 DEF Opened, Alone, Overlap
  <2>2. /\ Extends(q, threads[sid[q]])
        /\ pc[q] = "think" => loaded[q] = threads[sid[q]]
        /\ pc[q] = "saved" => <<q, turns[q]>> \in ToSet(threads[sid[q]])
        /\ \A x \in Processes :
              q \in before[x] /\ name[x] = name[q] /\ pc[x] = "think" => Extends(q, loaded[x])
    BY <2>1 DEF Carried
  <2>3. CASE q = p
    <3>1. IsPrefix(threads[sid[p]], threads[sid[p]])
      BY <1>3, PrefixOfItself
    <3> QED
      BY <1>0, <1>1, <1>3, <2>2, <2>3, <3>1 DEF Extends
  <2>4. CASE q # p
    <3>1. ASSUME NEW x \in Processes, q \in before[x], name[x] = name[q], pc'[x] = "think"
          PROVE  Extends(q, loaded'[x])
      <4>1. CASE x = p
        <5>1. sid[q] = sid[p]
          BY <1>2, <2>1, <3>1, <4>1, OpenedThread
        <5> QED
          BY <1>3, <2>2, <4>1, <5>1
      <4>2. CASE x # p
        BY <1>3, <2>2, <3>1, <4>2
      <4> QED
        BY <4>1, <4>2
    <3> QED
      BY <1>0, <1>3, <2>2, <2>4, <3>1 DEF Extends
  <2> QED
    BY <2>3, <2>4
<1> QED
  BY <1>4, <1>5, <1>6 DEF TurnInv

(* The turn is saved on top of what the run started from.                  *)
LEMMA SaveKeepsTurns ==
  ASSUME NEW p \in Processes, CliInv, RaceInv, TurnInv, Carried, Save(p)
  PROVE  TurnInv' /\ Carried'
<1> DEFINE new == Append(loaded[p], <<p, turns[p]>>)
<1>0. /\ pc[p] = "think" /\ pc' = [pc EXCEPT ![p] = "saved"]
      /\ threads' = [threads EXCEPT ![sid[p]] = new]
      /\ UNCHANGED <<name, before, sid, table, seq, loaded, turns, answered>>
  BY DEF Save, Move, argVars, dbVars
<1>1. Opened(p) /\ \A q \in Processes : p \notin before[q]
  BY <1>0 DEF RaceInv, Stages, Opened, Ended
<1>2. /\ name[p] \in Names /\ Exists(name[p]) /\ sid[p] = table[name[p]].id
      /\ sid[p] \in 0..Cardinality(Names) /\ sid[p] <= seq /\ seq \in Nat
      /\ \A n \in Names : Exists(n) /\ table[n].id = sid[p] => n = name[p]
  BY <1>1, OpenedThread
<1>3. /\ loaded[p] \in Seq(Turn) /\ <<p, turns[p]>> \in Turn
      /\ new \in Seq(Turn) /\ ToSet(new) = ToSet(loaded[p]) \cup {<<p, turns[p]>>}
  <2>1. loaded[p] \in Seq(Turn) /\ <<p, turns[p]>> \in Turn
    BY DEF TurnInv, ThreadTypes, Turn
  <2> QED
    BY <2>1, Appended
<1> HIDE DEF new
<1>4. /\ threads'[sid[p]] = new
      /\ \A k \in 0..Cardinality(Names) : k # sid[p] => threads'[k] = threads[k]
  BY <1>0, <1>2 DEF TurnInv, ThreadTypes
<1>5. ThreadTypes'
  <2>1. {m \in Names : Exists(m)}' = {m \in Names : Exists(m)}
    BY <1>0 DEF Exists
  <2>2. threads' \in [0..Cardinality(Names) -> Seq(Turn)]
    BY <1>0, <1>3 DEF TurnInv, ThreadTypes
  <2>3. \A k \in 0..Cardinality(Names) : k > seq => threads'[k] = <<>>
    BY <1>2, <1>4 DEF TurnInv, ThreadTypes
  <2> QED
    BY <1>0, <2>1, <2>2, <2>3 DEF TurnInv, ThreadTypes, Opened
<1>6. OwnTurns'
  <2>1. \A turn \in ToSet(new) : name[turn[1]] = name[p]
    BY <1>3 DEF TurnInv, OwnTurns
  <2>2. ASSUME NEW n \in Names, Exists(n), NEW turn \in ToSet(threads'[table[n].id])
        PROVE  name[turn[1]] = n
    <3>1. CASE n = name[p]
      BY <1>2, <1>4, <2>1, <2>2, <3>1
    <3>2. CASE n # name[p]
      <4>1. PICK x \in Processes : name[x] = n /\ Opened(x)
        BY <2>2 DEF RaceInv, Openers
      <4>2. table[n].id \in 0..Cardinality(Names) /\ table[n].id # sid[p]
        BY <1>2, <2>2, <3>2, <4>1, OpenedThread
      <4> QED
        BY <1>4, <2>2, <4>2 DEF TurnInv, OwnTurns
    <3> QED
      BY <3>1, <3>2
  <2> QED
    BY <1>0, <2>2 DEF TurnInv, OwnTurns, Exists
<1>7. Carried'
  <2> SUFFICES ASSUME NEW q \in Processes, Opened(q)', Alone(q)'
               PROVE  /\ Extends(q, threads[sid[q]])'
                      /\ (pc[q] = "think" => loaded[q] = threads[sid[q]])'
                      /\ (pc[q] = "saved" => <<q, turns[q]>> \in ToSet(threads[sid[q]]))'
                      /\ \A x \in Processes :
                            (/\ q \in before[x] /\ name[x] = name[q] /\ pc[x] = "think"
                             => Extends(q, loaded[x]))'
    BY DEF Carried
  <2>1. Opened(q) /\ Alone(q)
    BY <1>0 DEF Opened, Alone, Overlap
  <2>2. /\ Extends(q, threads[sid[q]])
        /\ pc[q] = "think" => loaded[q] = threads[sid[q]]
        /\ pc[q] = "saved" => <<q, turns[q]>> \in ToSet(threads[sid[q]])
        /\ \A x \in Processes :
              q \in before[x] /\ name[x] = name[q] /\ pc[x] = "think" => Extends(q, loaded[x])
    BY <2>1 DEF Carried
  <2>3. \A x \in Processes : pc'[x] = "think" => pc[x] = "think" /\ x # p
    BY <1>0 DEF CliInv, CliTypes
  <2>4. /\ loaded[q] \in Seq(Turn)
        /\ IsPrefix(loaded[q], loaded[p]) => IsPrefix(loaded[q], new)
    <3>1. loaded[q] \in Seq(Turn)
      BY DEF TurnInv, ThreadTypes
    <3> QED
      BY <1>3, <3>1, PrefixKept DEF new
  <2>5. CASE q = p
    <3>1. loaded[p] = threads[sid[p]]
      BY <1>0, <2>2, <2>5
    <3>2. IsPrefix(loaded[p], new)
      BY <1>3, <2>4, <2>5, PrefixOfItself
    <3> QED
      BY <1>0, <1>1, <1>3, <1>4, <2>2, <2>3, <2>5, <3>1, <3>2 DEF Extends
  <2>6. CASE q # p /\ name[q] = name[p]
    <3>1. q \in before[p] /\ pc[q] = "end" /\ sid[q] = sid[p]
      BY <1>0, <1>2, <2>1, <2>6, Successor, OpenedThread
    <3>2. Extends(q, loaded[p])
      BY <1>0, <2>2, <2>6, <3>1
    <3>3. Extends(q, new)
      BY <1>3, <2>4, <3>2 DEF Extends
    <3>4. pc'[q] = "end"
      BY <1>0, <2>6, <3>1 DEF CliInv, CliTypes
    <3> QED
      BY <1>0, <1>4, <2>2, <2>3, <3>1, <3>3, <3>4 DEF Extends
  <2>7. CASE name[q] # name[p]
    <3>1. sid[q] \in 0..Cardinality(Names) /\ sid[q] # sid[p]
      BY <1>2, <2>1, <2>7, OpenedThread
    <3>2. threads'[sid[q]] = threads[sid[q]] /\ pc'[q] = pc[q]
      BY <1>0, <1>4, <2>7, <3>1 DEF CliInv, CliTypes
    <3> QED
      BY <1>0, <2>2, <2>3, <3>2 DEF Extends
  <2> QED
    BY <2>5, <2>6, <2>7
<1> QED
  BY <1>5, <1>6, <1>7 DEF TurnInv

(* The answer is printed: the turn is in the thread.                       *)
LEMMA ReplyKeepsTurns ==
  ASSUME NEW p \in Processes, CliInv, RaceInv, TurnInv, Carried, Reply(p)
  PROVE  TurnInv' /\ Carried'
<1>0. /\ pc[p] = "saved" /\ pc' = [pc EXCEPT ![p] = "chat"]
      /\ answered' = [answered EXCEPT ![p] = turns[p]]
      /\ UNCHANGED <<name, before, sid, table, seq, threads, loaded, turns>>
  BY DEF Reply, Move, argVars, dbVars
<1>1. Opened(p) /\ \A q \in Processes : p \notin before[q]
  BY <1>0 DEF RaceInv, Stages, Opened, Ended
<1>2. /\ answered'[p] = turns[p] /\ pc'[p] = "chat"
      /\ \A q \in Processes \ {p} : pc'[q] = pc[q] /\ answered'[q] = answered[q]
  BY <1>0 DEF CliInv, CliTypes, TurnInv, ThreadTypes
<1>3. TurnInv'
  <2>1. {m \in Names : Exists(m)}' = {m \in Names : Exists(m)}
    BY <1>0 DEF Exists
  <2>2. answered' \in [Processes -> Nat]
    BY <1>0 DEF TurnInv, ThreadTypes
  <2>3. \A q \in Processes : sid[q] = 0 => loaded[q] = <<>> /\ answered'[q] = 0
    BY <1>1, <1>2 DEF TurnInv, ThreadTypes, Opened
  <2> QED
    BY <1>0, <2>1, <2>2, <2>3 DEF TurnInv, ThreadTypes, OwnTurns, Opened, Exists
<1>4. Carried'
  <2> SUFFICES ASSUME NEW q \in Processes, Opened(q)', Alone(q)'
               PROVE  /\ Extends(q, threads[sid[q]])'
                      /\ (pc[q] = "think" => loaded[q] = threads[sid[q]])'
                      /\ (pc[q] = "saved" => <<q, turns[q]>> \in ToSet(threads[sid[q]]))'
                      /\ \A x \in Processes :
                            (/\ q \in before[x] /\ name[x] = name[q] /\ pc[x] = "think"
                             => Extends(q, loaded[x]))'
    BY DEF Carried
  <2>1. Opened(q) /\ Alone(q)
    BY <1>0 DEF Opened, Alone, Overlap
  <2>2. \A x \in Processes : pc'[x] = "think" => pc[x] = "think"
    BY <1>2
  <2>3. CASE q = p
    BY <1>0, <1>1, <1>2, <2>1, <2>3 DEF Carried, Extends
  <2>4. CASE q # p
    BY <1>0, <1>2, <2>1, <2>2, <2>4 DEF Carried, Extends
  <2> QED
    BY <2>3, <2>4
<1> QED
  BY <1>3, <1>4

LEMMA TurnStepKeeps ==
  ASSUME CliInv, RaceInv, TurnInv, Carried, [CliNext]_cliVars
  PROVE  TurnInv' /\ Carried'
<1> USE DEF argVars, dbVars, chatVars, endVars
<1>1. CASE UNCHANGED cliVars
  BY <1>1 DEF cliVars, TurnInv, ThreadTypes, OwnTurns, Carried, Alone, Overlap,
              Extends, Opened, Exists
<1>2. ASSUME NEW p \in Processes, NEW n \in Names \cup {NoName}, Launch(p, n)
      PROVE  TurnInv' /\ Carried'
  BY <1>2, LaunchKeepsTurns
<1>3. ASSUME NEW p \in Processes, Commit(p) \/ Ask(p) \/ Save(p) \/ Reply(p)
      PROVE  TurnInv' /\ Carried'
  BY <1>3, CommitKeepsTurns, AskKeepsTurns, SaveKeepsTurns, ReplyKeepsTurns
<1>4. ASSUME NEW p \in Processes, List(p)
      PROVE  TurnInv' /\ Carried'
  <2>1. /\ pc' = [pc EXCEPT ![p] = "end"]
        /\ UNCHANGED <<name, before, sid, table, seq, threads, loaded, turns, answered>>
    BY <1>4, Zenon DEF List, Move
  <2> QED
    BY <2>1, QuietKeepsTurns
<1>5. ASSUME NEW p \in Processes,
             \/ Find(p) \/ UpdateFound(p) \/ InsertNew(p) \/ InsertClash(p) \/ GraphReady(p)
             \/ Leave(p) \/ Locked(p) \/ GraphFails(p) \/ TurnFails(p) \/ Kill(p)
      PROVE  TurnInv' /\ Carried'
  <2>1. PICK to \in {"write", "commit", "chat", "end"} : pc' = [pc EXCEPT ![p] = to]
    BY <1>5 DEF Find, UpdateFound, InsertNew, Write, InsertClash, GraphReady, Leave,
                Locked, GraphFails, TurnFails, Kill, Fail, Move
  <2>2. UNCHANGED <<name, before, sid, table, seq, threads, loaded, turns, answered>>
    BY <1>5 DEF Find, UpdateFound, InsertNew, Write, InsertClash, GraphReady, Leave,
                Locked, GraphFails, TurnFails, Kill, Fail
  <2> QED
    BY <2>1, <2>2, QuietKeepsTurns
<1> QED
  BY <1>1, <1>2, <1>3, <1>4, <1>5 DEF CliNext, CliProgress, CliTrouble, CliQuiet

LEMMA TurnInvariant == CliSpec => [](TurnInv /\ Carried)
<1>1. CliInv /\ RaceInv /\ (TurnInv /\ Carried) /\ [CliNext]_cliVars => (TurnInv /\ Carried)'
  BY TurnStepKeeps
<1> QED
  BY <1>1, TurnInit, CliInvariant, RaceInvariant, PTL DEF CliSpec

(* A process resumes what an earlier one of its session was answered, and  *)
(* never another session's turns (the thread id is str(session_id)).       *)
THEOREM SessionsResume == CliSpec => []Resumes
<1>1. CliInv /\ RaceInv /\ (TurnInv /\ Carried) => Resumes
  <2> SUFFICES ASSUME CliInv, RaceInv, TurnInv, Carried PROVE Resumes
    OBVIOUS
  <2>1. ASSUME NEW p \in Processes, NEW q \in Processes,
               pc[p] = "think", q \in before[p], name[q] = name[p],
               \A x \in Processes \ {p, q} : name[x] = name[q] => ~Overlap(x, q)
        PROVE  Extends(q, loaded[p])
    <3>1. CASE Opened(q)
      BY <2>1, <3>1 DEF Carried, Alone, Overlap
    <3>2. CASE ~Opened(q)
      <4>1. loaded[q] = <<>> /\ answered[q] = 0 /\ loaded[p] \in Seq(Turn)
        BY <3>2 DEF TurnInv, ThreadTypes
      <4>2. IsPrefix(<<>>, loaded[p])
        BY <4>1, PrefixOfItself
      <4> QED
        BY <4>1, <4>2 DEF Extends
    <3> QED
      BY <3>1, <3>2
  <2> QED
    BY <2>1 DEF Resumes, TurnInv, OwnTurns, Extends
<1> QED
  BY <1>1, CliInvariant, RaceInvariant, TurnInvariant, PTL

-----------------------------------------------------------------------------

(* The types that CliInv, RaceInv and TurnInv leave open.                  *)
RowTypes ==
    /\ table \in [Names -> Entry] /\ pending \in Entry
    /\ writer \in Processes \cup {NoProcess}
    /\ turns \in [Processes -> 0..MaxTurns] /\ answered \in [Processes -> 0..MaxTurns]

(* CURRENT_TIMESTAMP is a time: there are finitely many rows to be after.  *)
LEMMA NowType ==
  ASSUME table \in [Names -> Entry], Names # {}
  PROVE  Now \in Nat
<1> DEFINE S == {table[n].access : n \in Names}
           f == [n \in Names |-> table[n].access]
<1>1. S \in SUBSET Nat /\ S # {} /\ f \in [Names -> S]
  BY DEF Entry
<1>2. f \in Surjection(Names, S)
  BY <1>1 DEF Surjection
<1>3. IsFiniteSet(S)
  BY <1>2, CliAssumption, FS_Surjection
<1> HIDE DEF S, f
<1>4. Max(S) \in Nat
  BY <1>1, <1>3, MaxOfFinite
<1> QED
  BY <1>4 DEF Now, S

LEMMA RowTypesKept ==
  ASSUME CliInv, RowTypes, [CliNext]_cliVars
  PROVE  RowTypes'
<1> USE DEF RowTypes, argVars, dbVars, chatVars, endVars
<1>0. NoEntry \in Entry
  BY DEF NoEntry, Entry
<1>1. CASE UNCHANGED cliVars
  BY <1>1 DEF cliVars
<1>2. ASSUME NEW p \in Processes, NEW n \in Names \cup {NoName}, Launch(p, n)
      PROVE  RowTypes'
  BY <1>2 DEF Launch
<1>3. ASSUME NEW p \in Processes, List(p)
      PROVE  RowTypes'
  BY <1>3, Zenon DEF List
<1>4. ASSUME NEW p \in Processes, UpdateFound(p) \/ InsertNew(p)
      PROVE  RowTypes'
  <2>0. pc[p] = "write"
    BY <1>4, Zenon DEF UpdateFound, InsertNew
  <2>1. name[p] \in Names /\ found[p] \in Nat /\ seq \in Nat
    BY <2>0 DEF CliInv, CliTypes, FoundStays, AtSession
  <2>2. Now \in Nat
    BY <2>1, NowType
  <2>3. UNCHANGED <<table, turns, answered>> /\ writer' = p
    BY <1>4 DEF UpdateFound, InsertNew, Write
  <2>4. \E id \in Nat : pending' = [id |-> id, access |-> Now]
    BY <1>4, <2>1 DEF UpdateFound, InsertNew, Write
  <2> QED
    BY <2>2, <2>3, <2>4 DEF Entry
<1>5. ASSUME NEW p \in Processes, Commit(p)
      PROVE  RowTypes'
  BY <1>0, <1>5 DEF Commit
<1>6. ASSUME NEW p \in Processes, Kill(p)
      PROVE  RowTypes'
  BY <1>0, <1>6 DEF Kill
<1>7. ASSUME NEW p \in Processes,
             \/ Find(p) \/ InsertClash(p) \/ GraphReady(p) \/ Save(p)
             \/ Leave(p) \/ Locked(p) \/ GraphFails(p) \/ TurnFails(p)
      PROVE  RowTypes'
  BY <1>7 DEF Find, InsertClash, GraphReady, Save, Leave, Locked, GraphFails, TurnFails, Fail
<1>8. ASSUME NEW p \in Processes, Ask(p) \/ Reply(p)
      PROVE  RowTypes'
  <2>1. MaxTurns \in Nat /\ turns[p] \in 0..MaxTurns
    BY CliAssumption
  <2>2. turns[p] < MaxTurns => turns[p] + 1 \in 0..MaxTurns
    BY <2>1
  <2> QED
    BY <1>8, <2>1, <2>2 DEF Ask, Reply
<1> QED
  BY <1>1, <1>2, <1>3, <1>4, <1>5, <1>6, <1>7, <1>8
     DEF CliNext, CliProgress, CliTrouble, CliQuiet

(* Every variable of the local program stays in its type.                  *)
THEOREM CliTyped == CliSpec => []CliTypeOK
<1>1. CliInit => RowTypes
  BY CliAssumption DEF CliInit, RowTypes, Entry, NoEntry
<1>2. CliInv /\ RowTypes /\ [CliNext]_cliVars => RowTypes'
  BY RowTypesKept
<1>3. CliInv /\ RaceInv /\ (TurnInv /\ Carried) /\ RowTypes => CliTypeOK
  BY DEF CliInv, CliTypes, RaceInv, Stages, Listed, TurnInv, ThreadTypes, RowTypes, CliTypeOK
<1> QED
  BY <1>1, <1>2, <1>3, CliInvariant, RaceInvariant, TurnInvariant, PTL DEF CliSpec

=============================================================================
