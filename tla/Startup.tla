------------------------------- MODULE Startup -------------------------------
(***************************************************************************)
(* A process of the repository from its start to its end, as graph.py,     *)
(* lifespan() of copilotkit_server.py and main() of carqna_cli.py order    *)
(* it.  host says whose process it is:                                     *)
(*   "server"  lifespan() imports graph.py, inside the running event loop  *)
(*   "cli"     carqna_cli.py imports it first, outside any loop            *)
(*   "api"     LangGraph's server (langgraph.json) only imports it         *)
(* and stage where it stands:                                              *)
(*   off -> import -> connect -> saver -> setup -> tools -> assemble ->    *)
(*   serving -> closing -> pool -> off                                     *)
(* The import of graph.py tries to build a graph at once and swallows      *)
(* every failure; what it left in the module's globals is still there when *)
(* main() or lifespan() build theirs.  A process may fail in any step, be  *)
(* killed, and be started again.                                           *)
(*                                                                         *)
(* External: asyncio.run() raises when a loop is running; a pool opens     *)
(* without waiting for the database; AsyncPostgresSaver.from_conn_string() *)
(* is one connection, which an outage of the database ends for good (the   *)
(* CLI's is to a local file); an await of a service that is down fails.    *)
(***************************************************************************)
EXTENDS Naturals, FiniteSets

CONSTANTS
    Hosts,       \* kinds of processes: {"server", "cli", "api"}
    MaxStarts    \* how often a process is started

ASSUME StartAssumption ==
    /\ Hosts \subseteq {"server", "cli", "api"}
    /\ MaxStarts \in Nat

VARIABLES
    host,
    stage,
    client,      \* how many MCP clients _mcp_client has been, this start
    tools,       \* _mcp_tools: the client they came from, 0 for none
    instance,    \* _graph_instance, which the module exports as graph
    pool,        \* user_pool is open
    saver,       \* the checkpointer's connection
    agent,       \* the graph create_graph(checkpointer) returned
    down,        \* services that cannot be reached
    starts

startVars == <<host, stage, client, tools, instance, pool, saver, agent, down, starts>>

Stages == {"off", "import", "connect", "saver", "setup", "tools", "assemble",
           "serving", "closing", "pool"}

Services == {"db", "mcp", "auth0"}

NoGraph == [tools |-> 0, saver |-> "none"]

StartInit ==
    /\ host \in Hosts /\ stage = "off"
    /\ client = 0 /\ tools = 0
    /\ instance = NoGraph /\ agent = NoGraph
    /\ pool = FALSE /\ saver = "closed"
    /\ down = {} /\ starts = 0

-----------------------------------------------------------------------------

Up(service) == service \notin down

(* A new process: the globals of graph.py are None.                        *)
Launch(h) ==
    /\ stage = "off" /\ starts < MaxStarts
    /\ host' = h /\ stage' = "import" /\ starts' = starts + 1
    /\ client' = 0 /\ tools' = 0 /\ instance' = NoGraph /\ agent' = NoGraph
    /\ UNCHANGED <<pool, saver, down>>

(* Mutant of LoadTools: the tools that are there already are not reused.   *)
LoadToolsAgain ==
    /\ Up("mcp") /\ client' = client + 1 /\ tools' = client'

(* _initialize_mcp_tools() returns: with the tools of an earlier call, or  *)
(* with those of a new client.                                             *)
LoadTools ==
    \/ tools # 0 /\ UNCHANGED <<client, tools>>
    \/ tools = 0 /\ Up("mcp") /\ client' = client + 1 /\ tools' = client'

(* It raises: no configuration, or get_tools() fails or finds none, when   *)
(* the global already holds the new client.                                *)
LoadToolsFails ==
    /\ tools = 0
    /\ client' \in {client, client + 1}
    /\ UNCHANGED tools

(* Mutant of GraphWith: a graph always has the connection of the process.  *)
GraphWithSaver(c) == [tools |-> tools', saver |-> saver]

GraphWith(c) == [tools |-> tools', saver |-> c]

AfterImport ==
    IF host = "server" THEN "connect" ELSE IF host = "cli" THEN "saver" ELSE "serving"

(* get_graph() at import, in a running loop.  Its own RuntimeError does    *)
(* not contain "asyncio.run()", so it falls through to asyncio.run(),      *)
(* which raises; the import swallows that.                                 *)
ImportInLoop ==
    /\ stage = "import" /\ host # "cli"
    /\ stage' = AfterImport
    /\ UNCHANGED <<host, client, tools, instance, pool, saver, agent, down, starts>>

(* get_graph() at import, outside a loop: create_graph() without a         *)
(* checkpointer.  It may raise before or after the tools are loaded.       *)
ImportOutsideLoop ==
    /\ stage = "import" /\ host # "server"
    /\ \/ LoadTools /\ instance' \in {NoGraph, GraphWith("none")}
       \/ LoadToolsFails /\ instance' = NoGraph
    /\ stage' = AfterImport
    /\ UNCHANGED <<host, pool, saver, agent, down, starts>>

(* Mutant of Unwind: the pool is not closed in a finally block.            *)
UnwindLeaking ==
    stage' = IF saver # "closed" THEN "closing" ELSE "off"

(* An exception leaves the blocks of lifespan() or main(): first the       *)
(* saver's async with, then the finally block of the pool.                 *)
Unwind ==
    stage' = IF saver # "closed" THEN "closing" ELSE IF pool THEN "pool" ELSE "off"

Fails(s) ==
    /\ stage = s
    /\ Unwind
    /\ UNCHANGED <<host, client, tools, instance, pool, saver, agent, down, starts>>

(* langsmith.Client(), then user_pool.open().                              *)
Connect ==
    /\ stage = "connect"
    /\ pool' = TRUE /\ stage' = "saver"
    /\ UNCHANGED <<host, client, tools, instance, saver, agent, down, starts>>

ConnectFails == Fails("connect")

(* async with ...Saver.from_conn_string().                                 *)
OpenSaver ==
    /\ stage = "saver" /\ (host = "server" => Up("db"))
    /\ saver' = "open"
    /\ stage' = IF host = "server" THEN "setup" ELSE "tools"
    /\ UNCHANGED <<host, client, tools, instance, pool, agent, down, starts>>

OpenSaverFails == Fails("saver")

(* await checkpointer.setup(); the CLI's saver does it when first used.    *)
Setup ==
    /\ stage = "setup" /\ saver = "open"
    /\ saver' = "ready" /\ stage' = "tools"
    /\ UNCHANGED <<host, client, tools, instance, pool, agent, down, starts>>

SetupFails == Fails("setup")

(* create_graph(checkpointer): the tools first.                            *)
GetTools ==
    /\ stage = "tools"
    /\ LoadTools
    /\ stage' = "assemble"
    /\ UNCHANGED <<host, instance, pool, saver, agent, down, starts>>

(* Mutant of GetToolsFails: wait for the MCP servers instead of raising.   *)
GetToolsWaits ==
    /\ stage = "tools" /\ Up("mcp")
    /\ LoadToolsFails
    /\ Unwind
    /\ UNCHANGED <<host, instance, pool, saver, agent, down, starts>>

GetToolsFails ==
    /\ stage = "tools"
    /\ LoadToolsFails
    /\ Unwind
    /\ UNCHANGED <<host, instance, pool, saver, agent, down, starts>>

(* Mutant of Assemble: the graph made at import is used if there is one.   *)
AssembleReusing ==
    /\ stage = "assemble"
    /\ agent' = IF instance # NoGraph THEN instance ELSE [tools |-> tools, saver |-> "main"]
    /\ stage' = "serving"
    /\ UNCHANGED <<host, client, tools, instance, pool, saver, down, starts>>

(* The backend, the prompts and create_deep_agent(); the routes mounted.   *)
Assemble ==
    /\ stage = "assemble"
    /\ agent' = [tools |-> tools, saver |-> "main"]
    /\ stage' = "serving"
    /\ UNCHANGED <<host, client, tools, instance, pool, saver, down, starts>>

(* No documents root, no S3 settings, or no prompt file.                   *)
AssembleFails == Fails("assemble")

(* The lifespan's yield returns, the conversation ends, the API stops.     *)
Stop == Fails("serving")

(* The saver's async with ends, with or without a further exception.       *)
CloseSaver ==
    /\ stage = "closing"
    /\ saver' = "closed"
    /\ stage' = IF pool THEN "pool" ELSE "off"
    /\ UNCHANGED <<host, client, tools, instance, pool, agent, down, starts>>

ClosePool ==
    /\ stage = "pool"
    /\ pool' = FALSE /\ stage' = "off"
    /\ UNCHANGED <<host, client, tools, instance, saver, agent, down, starts>>

(* The process is killed; its sockets are closed with it.                  *)
Kill ==
    /\ stage # "off"
    /\ stage' = "off" /\ pool' = FALSE /\ saver' = "closed"
    /\ UNCHANGED <<host, client, tools, instance, agent, down, starts>>

(* A service goes away, the database with the saver's connection.          *)
GoesDown(service) ==
    /\ Up(service)
    /\ down' = down \cup {service}
    /\ saver' = IF service = "db" /\ host = "server" /\ saver # "closed"
                THEN "dead" ELSE saver
    /\ UNCHANGED <<host, stage, client, tools, instance, pool, agent, starts>>

(* It is back, the saver's connection is not.                              *)
ComesBack(service) ==
    /\ ~Up(service)
    /\ down' = down \ {service}
    /\ UNCHANGED <<host, stage, client, tools, instance, pool, saver, agent, starts>>

(* The steps of the process itself.                                        *)
StartProgress ==
    \/ ImportInLoop \/ ImportOutsideLoop
    \/ Connect \/ ConnectFails
    \/ OpenSaver \/ OpenSaverFails
    \/ Setup \/ SetupFails
    \/ GetTools \/ GetToolsFails
    \/ Assemble \/ AssembleFails
    \/ CloseSaver \/ ClosePool

StartNext ==
    \/ \E h \in Hosts : Launch(h)
    \/ StartProgress
    \/ Stop \/ Kill
    \/ \E service \in Services : GoesDown(service) \/ ComesBack(service)

-----------------------------------------------------------------------------

(* The tools in use are those of the client that is kept alive ("KEEP IT   *)
(* ALIVE"), although the import and main() both load them and either may   *)
(* fail half-way with the client replaced; and both graphs have them.      *)
ToolsKept ==
    /\ tools \in {0, client}
    /\ instance # NoGraph => instance.tools = tools
    /\ agent # NoGraph => agent.tools = tools

(* The server answers requests, or the CLI prompts, only with a graph that *)
(* has tools and was made with the process's own checkpointer: never with  *)
(* the one made at import, and never with a checkpointer that was closed.  *)
(* The server's tables are set up by then, although an outage may since    *)
(* have ended the connection ("dead": nobody opens it again); the CLI's    *)
(* checkpointer is open and sets its tables up when it is first used.      *)
ServingComplete ==
    stage = "serving" /\ host # "api" =>
        /\ agent.tools # 0 /\ agent.saver = "main"
        /\ host = "server" => pool /\ saver \in {"ready", "dead"}
        /\ host = "cli" => saver = "open"

(* Whatever step fails, the process ends with the pool and the saver       *)
(* closed, and the server's pool outlives its saver.                       *)
NothingLeftOpen ==
    /\ stage = "off" => ~pool /\ saver = "closed"
    /\ saver # "closed" /\ host = "server" => pool

(* A start ends, served or given up, and so does a stop, also when the     *)
(* services it needs never come back.                                      *)
StartEnds == stage \notin {"off", "serving"} ~> stage \in {"off", "serving"}
=============================================================================
