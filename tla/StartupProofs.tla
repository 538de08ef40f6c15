---------------------------- MODULE StartupProofs ----------------------------
(***************************************************************************)
(* What a process loads, serves with and leaves behind, for any number of  *)
(* starts, any kinds of processes and any signing keys.                    *)
(***************************************************************************)
EXTENDS ServerProcess, TLAPS

(* The stages in which the saver has been opened and not yet closed.       *)
Held == {"setup", "tools", "assemble", "serving", "closing"}

(* The inductive invariant.  What is open follows from host and stage,     *)
(* which is what makes the order of closing right; and the tools cannot    *)
(* change once there are any, which keeps a graph made at import valid.    *)
StartInv ==
    /\ stage \in Stages /\ host \in {"server", "cli", "api"}
    /\ client \in Nat /\ tools \in Nat
    /\ host = "api" => stage \in {"off", "import", "serving"}
    /\ host = "cli" => stage \notin {"connect", "setup", "pool"}
    /\ pool = (host = "server" /\ stage \in Held \cup {"saver", "pool"})
    /\ saver \in {"closed", "open", "ready", "dead"}
    /\ saver # "closed" <=> host # "api" /\ stage \in Held
    /\ host = "cli" => saver \in {"closed", "open"}
    /\ host = "server" /\ stage \in {"tools", "assemble", "serving"} => saver # "open"
    /\ tools \in {0, client}
    /\ instance = NoGraph \/ (tools # 0 /\ instance = [tools |-> tools, saver |-> "none"])
    /\ agent = NoGraph \/ agent = [tools |-> tools, saver |-> "main"]
    /\ agent # NoGraph => stage \in {"serving", "closing", "pool", "off"}
    /\ host # "api" /\ stage = "assemble" => tools # 0
    /\ host # "api" /\ stage = "serving" => tools # 0 /\ agent # NoGraph

-----------------------------------------------------------------------------

LEMMA StartInitKeeps == StartInit => StartInv
<1> SUFFICES ASSUME StartInit PROVE StartInv
  OBVIOUS
<1> USE DEF StartInit, Held
<1>1. host \in {"server", "cli", "api"} /\ stage = "off" /\ stage \in Stages
  BY StartAssumption DEF Stages
<1>2. pool = (host = "server" /\ stage \in Held \cup {"saver", "pool"})
  <2>1. ~(stage \in Held \cup {"saver", "pool"})
    BY <1>1
  <2> QED
    BY <2>1, Zenon
<1> QED
  BY <1>1, <1>2 DEF StartInv

(* A process that is started or ended has everything closed.               *)
LEMMA LifeKeeps ==
  ASSUME StartInv, (\E h \in Hosts : Launch(h)) \/ Stop \/ Kill
  PROVE  StartInv'
<1>1. ASSUME NEW h \in Hosts, Launch(h) PROVE StartInv'
  BY <1>1, StartAssumption DEF StartInv, Launch, Stages, Held, NoGraph
<1>2. CASE Stop
  BY <1>2 DEF StartInv, Stop, Fails, Unwind, Stages, Held
<1>3. CASE Kill
  BY <1>3 DEF StartInv, Kill, Stages, Held
<1> QED
  BY <1>1, <1>2, <1>3

(* The import: it leaves the tools and its graph, or neither.              *)
LEMMA ImportKeeps ==
  ASSUME StartInv, ImportInLoop \/ ImportOutsideLoop
  PROVE  StartInv'
<1> USE DEF AfterImport, Stages, Held
<1>1. CASE ImportInLoop
  BY <1>1 DEF StartInv, ImportInLoop
<1>2. CASE ImportOutsideLoop /\ LoadTools
  <2>1. tools' \in Nat /\ client' \in Nat /\ tools' = client' /\ tools' # 0
    BY <1>2 DEF StartInv, LoadTools
  <2>2. agent = NoGraph
    BY <1>2 DEF StartInv, ImportOutsideLoop
  <2>3. instance' = NoGraph \/ instance' = [tools |-> tools', saver |-> "none"]
    <3>1. CASE instance' \in {NoGraph, GraphWith("none")}
      BY <3>1 DEF GraphWith
    <3>2. CASE LoadToolsFails /\ instance' = NoGraph
      BY <3>2
    <3> QED
      BY <1>2, <3>1, <3>2 DEF ImportOutsideLoop
  <2> QED
    BY <1>2, <2>1, <2>2, <2>3 DEF StartInv, ImportOutsideLoop
<1>3. CASE ImportOutsideLoop /\ LoadToolsFails
  <2>1. CASE instance' = NoGraph
    BY <1>3, <2>1 DEF StartInv, ImportOutsideLoop, LoadToolsFails
  <2>2. CASE LoadTools
    BY <1>2, <1>3, <2>2
  <2> QED
    BY <1>3, <2>1, <2>2 DEF ImportOutsideLoop
<1> QED
  BY <1>1, <1>2, <1>3 DEF ImportOutsideLoop

(* The steps up to the yield: each may fail, which leaves what is open to  *)
(* the stages that close it.                                               *)
LEMMA BuildKeeps ==
  ASSUME StartInv,
         \/ Connect \/ ConnectFails \/ OpenSaver \/ OpenSaverFails
         \/ Setup \/ SetupFails \/ GetTools \/ GetToolsFails
         \/ Assemble \/ AssembleFails
  PROVE  StartInv'
<1> USE DEF StartInv, Stages, Held
<1>1. CASE Connect \/ OpenSaver \/ Setup
  BY <1>1 DEF Connect, OpenSaver, Setup
<1>2. CASE ConnectFails \/ OpenSaverFails \/ SetupFails \/ AssembleFails
  BY <1>2 DEF ConnectFails, OpenSaverFails, SetupFails, AssembleFails, Fails, Unwind
<1>3. CASE GetTools
  <2>1. agent = NoGraph
    BY <1>3 DEF GetTools
  <2>2. tools' \in Nat /\ client' \in Nat /\ tools' = client' /\ tools' # 0
    BY <1>3 DEF GetTools, LoadTools
  <2>3. instance # NoGraph => tools' = tools
    BY <1>3 DEF GetTools, LoadTools
  <2> QED
    BY <1>3, <2>1, <2>2, <2>3 DEF GetTools
<1>4. CASE GetToolsFails
  BY <1>4 DEF GetToolsFails, LoadToolsFails, Unwind
<1>5. CASE Assemble
  <2>1. agent' # NoGraph
    BY <1>5 DEF Assemble, NoGraph
  <2> QED
    BY <1>5, <2>1 DEF Assemble
<1> QED
  BY <1>1, <1>2, <1>3, <1>4, <1>5

LEMMA CloseKeeps ==
  ASSUME StartInv, CloseSaver \/ ClosePool
  PROVE  StartInv'
BY DEF StartInv, CloseSaver, ClosePool, Stages, Held

LEMMA OutageKeeps ==
  ASSUME StartInv, NEW service \in Services, GoesDown(service) \/ ComesBack(service)
  PROVE  StartInv'
BY DEF StartInv, GoesDown, ComesBack, Services, Stages, Held

LEMMA StartNextKeeps ==
  ASSUME StartInv, [StartNext]_startVars
  PROVE  StartInv'
<1>1. CASE UNCHANGED startVars
  BY <1>1 DEF startVars, StartInv
<1> QED
  BY <1>1, LifeKeeps, ImportKeeps, BuildKeeps, CloseKeeps, OutageKeeps
     DEF StartNext, StartProgress

(* Verifying tokens leaves the process as it is.                           *)
LEMMA ProcIsStart ==
  ASSUME [ProcNext]_procVars
  PROVE  [StartNext]_startVars
BY DEF ProcNext, procVars, StartNext, Request

(* Everywhere in its life, a process has open what its stage says, and the *)
(* tools of the client it keeps (graph.py, lifespan() and main()).         *)
THEOREM ProcInvariant == ProcSpec => []StartInv
<1>1. ProcInit => StartInv
  BY StartInitKeeps DEF ProcInit
<1>2. StartInv /\ [ProcNext]_procVars => StartInv'
  BY ProcIsStart, StartNextKeeps
<1> QED
  BY <1>1, <1>2, PTL DEF ProcSpec

-----------------------------------------------------------------------------

(* However imports and starts fail and follow each other, the tools and    *)
(* the graphs a process has are those of the client it keeps alive         *)
(* (_initialize_mcp_tools()).                                              *)
THEOREM ToolsAreKept == ProcSpec => []ToolsKept
<1>1. StartInv => ToolsKept
  BY DEF StartInv, ToolsKept, NoGraph
<1> QED
  BY <1>1, ProcInvariant, PTL

(* A server at its yield and a CLI at its prompt have a graph with tools   *)
(* that was made with the process's checkpointer, never the graph made at  *)
(* import nor one whose checkpointer was closed; the server's tables are   *)
(* set up, but its connection may have been ended by an outage.            *)
THEOREM CompleteWhenServing == ProcSpec => []ServingComplete
<1>1. StartInv => ServingComplete
  <2> SUFFICES ASSUME StartInv, stage = "serving", host # "api"
               PROVE  ServingComplete
    BY DEF ServingComplete
  <2>1. agent.tools # 0 /\ agent.saver = "main"
    BY DEF StartInv
  <2>2. host = "server" => pool /\ saver \in {"ready", "dead"}
    BY DEF StartInv, Held
  <2>3. host = "cli" => saver = "open"
    BY DEF StartInv, Held
  <2> QED
    BY <2>1, <2>2, <2>3 DEF ServingComplete
<1> QED
  BY <1>1, ProcInvariant, PTL

(* lifespan() closes the saver and then the pool on every path.            *)
THEOREM AllClosed == ProcSpec => []NothingLeftOpen
<1>1. StartInv => NothingLeftOpen
  BY DEF StartInv, NothingLeftOpen, Held
<1> QED
  BY <1>1, ProcInvariant, PTL

(* What a verdict rests on is fixed with it: a token is judged by a cached *)
(* key or by Auth0's current ones (authenticate_request()).                *)
LEMMA VerifyJudges ==
  ASSUME NEW k \in Keys, NEW claims \in Claims, NEW reachable \in BOOLEAN,
         Verify(k, claims, reachable)
  PROVE  TokensJudged'
<1> DEFINE answer == IF ~configured THEN "error"
                     ELSE IF k \in cache' /\ claims = "good" THEN "accepted"
                          ELSE "refused"
<1>1. verdict' = [key |-> k, claims |-> claims, reachable |-> reachable,
                  cached |-> k \in cache, current |-> k \in published,
                  answer |-> answer]
  BY DEF Verify
<1>2. CASE ~configured
  BY <1>1, <1>2 DEF TokensJudged
<1>3. CASE configured
  <2>1. cache' \in KeysAsked(k, reachable)
    BY <1>3 DEF Verify
  <2>2. /\ k \in cache \/ (reachable /\ k \in published) => k \in cache'
        /\ k \in cache' => k \in cache \/ k \in published
    BY <2>1 DEF KeysAsked
  <2> QED
    BY <1>1, <1>3, <2>2 DEF TokensJudged
<1> QED
  BY <1>2, <1>3

(* Whatever keys Auth0 replaces and whenever it is down, a good token of a *)
(* current key is refused only in an outage, for want of its key, and none *)
(* is accepted on a key neither current nor cached.                        *)
THEOREM Judged == ProcSpec => []TokensJudged
<1>1. ProcInit => TokensJudged
  BY DEF ProcInit, TokenInit, NoVerdict, TokensJudged
<1>2. TokensJudged /\ [ProcNext]_procVars => TokensJudged'
  <2> SUFFICES ASSUME TokensJudged, [ProcNext]_procVars PROVE TokensJudged'
    OBVIOUS
  <2>1. ASSUME NEW k \in Keys, NEW claims \in Claims, Request(k, claims)
        PROVE  TokensJudged'
    <3>1. Up("auth0") \in BOOLEAN
      BY DEF Up
    <3>2. Verify(k, claims, Up("auth0"))
      BY <2>1 DEF Request
    <3> QED
      BY <3>1, <3>2, VerifyJudges
  <2>2. CASE verdict' = verdict
    BY <2>2 DEF TokensJudged
  <2>3. verdict' = verdict \/ \E k \in Keys, claims \in Claims : Request(k, claims)
    BY DEF ProcNext, procVars, tokenVars, TokenStart, Rotate, Expire
  <2> QED
    BY <2>1, <2>2, <2>3
<1> QED
  BY <1>1, <1>2, PTL DEF ProcSpec

-----------------------------------------------------------------------------
(* The types of what a process keeps.                                      *)

Kept ==
    /\ host \in Hosts /\ starts \in 0..MaxStarts /\ down \subseteq Services
    /\ published \subseteq Keys /\ cache \subseteq Keys
    /\ configured \in BOOLEAN /\ verdict \in Verdict \cup {NoVerdict}

(* What is remembered of a token that was checked.                         *)
LEMMA VerdictTyped ==
  ASSUME NEW k \in Keys, NEW claims \in Claims, Request(k, claims)
  PROVE  verdict' \in Verdict
<1> DEFINE answer == IF ~configured THEN "error"
                     ELSE IF k \in cache' /\ claims = "good" THEN "accepted"
                          ELSE "refused"
<1>1. verdict' = [key |-> k, claims |-> claims, reachable |-> Up("auth0"),
                  cached |-> k \in cache, current |-> k \in published,
                  answer |-> answer]
  BY Zenon DEF Request, Verify
<1>2. answer \in {"accepted", "refused", "error"}
  OBVIOUS
<1>3. Up("auth0") \in BOOLEAN
  BY DEF Up
<1>4. (k \in cache) \in BOOLEAN
  OBVIOUS
<1>5. (k \in published) \in BOOLEAN
  OBVIOUS
<1> HIDE DEF answer
<1> QED
  BY <1>1, <1>2, <1>3, <1>4, <1>5, Zenon DEF Verdict

LEMMA KeptStep ==
  ASSUME StartInv, Kept, [ProcNext]_procVars
  PROVE  Kept'
<1>1. host' \in Hosts /\ starts' \in 0..MaxStarts /\ down' \subseteq Services
  <2>1. [StartNext]_startVars
    BY ProcIsStart
  <2>2. CASE \E h \in Hosts : Launch(h)
    BY <2>2, StartAssumption DEF Launch, Kept
  <2>3. CASE \E service \in Services : GoesDown(service) \/ ComesBack(service)
    BY <2>3 DEF GoesDown, ComesBack, Kept
  <2>4. CASE UNCHANGED <<host, starts, down>>
    BY <2>4 DEF Kept
  <2>5. Stop \/ Kill \/ StartProgress => UNCHANGED <<host, starts, down>>
    BY DEF Stop, Kill, StartProgress, ImportInLoop, ImportOutsideLoop, Connect, ConnectFails,
           OpenSaver, OpenSaverFails, Setup, SetupFails, GetTools, GetToolsFails, Assemble,
           AssembleFails, CloseSaver, ClosePool, Fails, Unwind, AfterImport
  <2> QED
    BY <2>1, <2>2, <2>3, <2>4, <2>5 DEF StartNext, startVars
<1>2. published' \subseteq Keys /\ cache' \subseteq Keys
  <2>1. ASSUME NEW k \in Keys, NEW claims \in Claims, Request(k, claims)
        PROVE  published' \subseteq Keys /\ cache' \subseteq Keys
    BY <2>1 DEF Request, Verify, KeysAsked, Kept
  <2>2. CASE ~\E k \in Keys, claims \in Claims : Request(k, claims)
    BY <2>2 DEF ProcNext, procVars, tokenVars, TokenStart, Rotate, Expire, Kept
  <2> QED
    BY <2>1, <2>2
<1>3. configured' \in BOOLEAN /\ verdict' \in Verdict \cup {NoVerdict}
  <2>1. ASSUME NEW k \in Keys, NEW claims \in Claims, Request(k, claims)
        PROVE  configured' \in BOOLEAN /\ verdict' \in Verdict \cup {NoVerdict}
    <3>1. configured' = configured
      BY <2>1, Zenon DEF Request, Verify
    <3> QED
      BY <2>1, <3>1, VerdictTyped DEF Kept
  <2>2. ASSUME NEW env \in BOOLEAN, TokenStart(env)
        PROVE  configured' \in BOOLEAN /\ verdict' \in Verdict \cup {NoVerdict}
    BY <2>2 DEF TokenStart, Kept
  <2>3. CASE UNCHANGED <<configured, verdict>>
    BY <2>3 DEF Kept
  <2> QED
    BY <2>1, <2>2, <2>3 DEF ProcNext, procVars, tokenVars, Rotate, Expire
<1> QED
  BY <1>1, <1>2, <1>3 DEF Kept

(* Every variable of a process stays in its type, the starts within their  *)
(* bound and the cached keys within those Auth0 ever used.                 *)
THEOREM ProcTyped == ProcSpec => []ProcTypeOK
<1>1. ProcInit => Kept
  BY StartAssumption DEF ProcInit, StartInit, TokenInit, Kept, Services
<1>2. StartInv /\ Kept /\ [ProcNext]_procVars => Kept'
  BY KeptStep
<1>3. StartInv /\ Kept => ProcTypeOK
  <2> SUFFICES ASSUME StartInv, Kept PROVE ProcTypeOK
    OBVIOUS
  <2>1. /\ host \in Hosts /\ stage \in Stages /\ starts \in 0..MaxStarts
        /\ client \in Nat /\ tools \in Nat /\ down \subseteq Services
        /\ published \subseteq Keys /\ cache \subseteq Keys
        /\ configured \in BOOLEAN /\ verdict \in Verdict \cup {NoVerdict}
        /\ saver \in {"closed", "open", "ready", "dead"}
    BY DEF StartInv, Kept
  <2>2. \A g \in {instance, agent} : g.tools \in Nat /\ g.saver \in {"none", "main"}
    BY DEF StartInv, NoGraph
  <2>3. pool \in BOOLEAN
    <3>1. (host = "server" /\ stage \in Held \cup {"saver", "pool"}) \in BOOLEAN
      BY Zenon
    <3>2. pool = (host = "server" /\ stage \in Held \cup {"saver", "pool"})
      BY Zenon DEF StartInv
    <3> QED
      BY <3>1, <3>2, Zenon
  <2> QED
    BY <2>1, <2>2, <2>3 DEF ProcTypeOK
<1> QED
  BY <1>1, <1>2, <1>3, ProcInvariant, PTL DEF ProcSpec
=============================================================================
