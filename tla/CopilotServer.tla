---------------------------- MODULE CopilotServer ----------------------------
(***************************************************************************)
(* The web server: AuthMiddleware (auth_middleware.py, auth_context.py)    *)
(* around the routes POST /, GET /sessions and POST /sessions of           *)
(* copilotkit_server.py, which call track_user() and the functions of      *)
(* sessions.py and run the agent on a checkpointed thread.                 *)
(*                                                                         *)
(* One request is one asyncio task.  Its phase is where its handler stands *)
(*   "idle" -> "admitted" -> "track" -> "tracked" -> "list"   -> "listed"  *)
(*                                                -> "create" -> "created" *)
(*                                                -> "touch"  -> "touched" *)
(*                                                            -> "stream"  *)
(* and "done" once it is answered.  Tasks interleave at every await.       *)
(*                                                                         *)
(* External, modelled from how the server uses it: LangGraph.  A run loads *)
(* its thread's checkpoint when it starts and saves it extended by its own *)
(* turn when it ends, so of two overlapping runs of a thread the last one  *)
(* to end decides what the thread holds.  LangGraphAGUIAgent keeps the     *)
(* current run in self.active_run.  Uvicorn runs each request in its own   *)
(* context.                                                                *)
(***************************************************************************)
EXTENDS UserTracking, Sessions

CONSTANTS
    Routes,      \* the routes requests arrive at: {"chat", "list", "create"}
    BadNames,    \* session names that are empty or too long
    RawIds,      \* what clients send as thread_id
    IntOf,       \* int(), on the raw ids it accepts
    MaxCrashes   \* how often the process may die and be restarted

ASSUME InputAssumption ==
    /\ Routes \subseteq {"chat", "list", "create"}
    /\ BadNames \cap Names = {}
    /\ DOMAIN IntOf \subseteq RawIds /\ \A raw \in DOMAIN IntOf : IntOf[raw] \in Nat
    /\ MaxCrashes \in Nat

VARIABLES
    owner,       \* owner[r]: whom r's token was verified for (never read back)
    route,       \* route[r]: the route r was sent to
    body,        \* body[r]: its session_name or thread_id
    ctx,         \* the ContextVar _ctx, one value per context
    answer,      \* answer[r]: what the client got
    before,      \* before[r]: requests answered before r arrived
    checkpoints, \* the turns saved on each thread
    loaded,      \* loaded[r]: the turns r's run started from
    activeRun,   \* active_run of each agent instance
    emitted,     \* emitted[r]: the runs whose events r's stream carried
    crashes

srvVars == <<owner, route, body, ctx, answer, before, checkpoints, loaded,
             activeRun, emitted, crashes>>

vars == <<dbVars, sesVars, srvVars>>

NoRun == [turn |-> 0, thread |-> <<>>]

Answers == {"none", "ok", "bad_request", "unauthorized", "conflict", "error",
            "broken", "lost"}

(* Mutation of Context: one value per process, not per task.               *)
ContextShared(r) == CHOOSE c \in Requests : TRUE

(* The context of the task that handles r.                                 *)
Context(r) == r

(* agent.clone(): the instance that runs r.                                *)
AgentOf(r) == r

(* Mutation of ThreadKey: the thread id is used as the client sent it.     *)
ThreadKeyRaw(u, raw) == <<NoUser, raw>>

(* f"{user_id}:{input_data.thread_id}"                                     *)
ThreadKey(u, raw) == <<u, raw>>

ServerInit ==
    /\ DbInit /\ SesInit
    /\ owner = [r \in Requests |-> NoUser]
    /\ route = [r \in Requests |-> "none"]
    /\ body = [r \in Requests |-> NoName]
    /\ ctx = [c \in Requests |-> NoUser]
    /\ answer = [r \in Requests |-> "none"]
    /\ before = [r \in Requests |-> {}]
    /\ checkpoints = [k \in {ThreadKey(u, raw) : u \in Users, raw \in RawIds} |-> <<>>]
    /\ loaded = [r \in Requests |-> <<>>]
    /\ activeRun = [a \in Requests |-> NoRun]
    /\ emitted = [r \in Requests |-> {}]
    /\ crashes = 0

-----------------------------------------------------------------------------
(* AuthMiddleware.                                                         *)

(* /health and the other paths of the allowlist: no identity is set.       *)
Unauthenticated(r) ==
    /\ phase[r] = "idle"
    /\ phase' = [phase EXCEPT ![r] = "done"]
    /\ answer' = [answer EXCEPT ![r] = "ok"]
    /\ UNCHANGED <<step, caller, conns, clock, txStart, registry, regWrite, regSeq,
                   warned, sesVars, owner, route, body, ctx, before, checkpoints,
                   loaded, activeRun, emitted, crashes>>

(* No bearer token, or one that does not verify: 401, no route is reached. *)
Refuse(r) ==
    /\ phase[r] = "idle"
    /\ phase' = [phase EXCEPT ![r] = "done"]
    /\ answer' = [answer EXCEPT ![r] = "unauthorized"]
    /\ UNCHANGED <<step, caller, conns, clock, txStart, registry, regWrite, regSeq,
                   warned, sesVars, owner, route, body, ctx, before, checkpoints,
                   loaded, activeRun, emitted, crashes>>

BodiesOf(p) == CASE p = "chat"   -> RawIds
                 [] p = "create" -> Names \cup BadNames
                 [] p = "list"   -> {NoName}

(* The token is u's: set_auth_context() and await self.app(...).           *)
Admit(r, u, p, b) ==
    /\ phase[r] = "idle"
    /\ phase' = [phase EXCEPT ![r] = "admitted"]
    /\ owner' = [owner EXCEPT ![r] = u]
    /\ route' = [route EXCEPT ![r] = p]
    /\ body' = [body EXCEPT ![r] = b]
    /\ ctx' = [ctx EXCEPT ![Context(r)] = u]
    /\ before' = [before EXCEPT ![r] = {q \in Requests : phase[q] = "done"}]
    /\ UNCHANGED <<step, caller, conns, clock, txStart, registry, regWrite, regSeq,
                   warned, sesVars, answer, checkpoints, loaded, activeRun, emitted,
                   crashes>>

(* The response is complete; reset_auth_context() in the finally block.    *)
Answer(r, a) ==
    /\ phase' = [phase EXCEPT ![r] = "done"]
    /\ answer' = [answer EXCEPT ![r] = a]
    /\ ctx' = [ctx EXCEPT ![Context(r)] = NoUser]
    /\ UNCHANGED <<step, caller, conns, clock, txStart, registry, regWrite, regSeq,
                   warned, sesVars, owner, route, body, before>>

-----------------------------------------------------------------------------
(* The routes.                                                             *)

(* The body is read and the route entered: user_id and the token come from *)
(* the context, and track_user() is awaited.                               *)
Dispatch(r) ==
    /\ phase[r] = "admitted"
    /\ ctx[Context(r)] # NoUser
    /\ caller' = [caller EXCEPT ![r] = ctx[Context(r)]]
    /\ Enter(r, "track")
    /\ UNCHANGED <<conns, clock, txStart, registry, regWrite, regSeq, warned, sesVars,
                   srvVars>>

(* The route goes on with a call of sessions.py.                           *)
CallSessions(r, p, arg) ==
    /\ phase[r] = "tracked"
    /\ Enter(r, p)
    /\ sesArg' = [sesArg EXCEPT ![r] = arg]
    /\ UNCHANGED <<caller, conns, clock, txStart, registry, regWrite, regSeq, warned,
                   sessions, sesWrite, sesSeq, result, srvVars>>

CallList(r) == route[r] = "list" /\ CallSessions(r, "list", NoName)

CallCreate(r) ==
    route[r] = "create" /\ body[r] \in Names /\ CallSessions(r, "create", body[r])

CallTouch(r) ==
    /\ route[r] = "chat" /\ body[r] \in DOMAIN IntOf
    /\ CallSessions(r, "touch", IntOf[body[r]])

(* create_session() raises ValueError, or int(thread_id) does: 400.        *)
RejectBody(r) ==
    /\ phase[r] = "tracked"
    /\ \/ route[r] = "create" /\ body[r] \in BadNames
       \/ route[r] = "chat" /\ body[r] \notin DOMAIN IntOf
    /\ Answer(r, "bad_request")
    /\ UNCHANGED <<checkpoints, loaded, activeRun, emitted, crashes>>

AnswerOf(r) ==
    IF phase[r] = "listed" \/ (phase[r] = "created" /\ result[r] # <<>>) THEN "ok"
    ELSE IF phase[r] = "conflict" THEN "conflict"
    ELSE "error"

AnswerSessions(r) ==
    /\ phase[r] \in {"listed", "created", "conflict", "raised"}
    /\ Answer(r, AnswerOf(r))
    /\ UNCHANGED <<checkpoints, loaded, activeRun, emitted, crashes>>

(* The thread of r's run: built from the verified id and the raw thread id. *)
ThreadOf(r) == ThreadKey(caller[r], body[r])

(* Mutation of StartRun: the graph was created without the checkpointer.   *)
StartRunFresh(r) ==
    /\ phase[r] = "touched"
    /\ phase' = [phase EXCEPT ![r] = "stream"]
    /\ activeRun' = [activeRun EXCEPT ![AgentOf(r)] = [turn |-> r, thread |-> ThreadOf(r)]]
    /\ loaded' = [loaded EXCEPT ![r] = <<>>]
    /\ UNCHANGED <<step, caller, conns, clock, txStart, registry, regWrite, regSeq,
                   warned, sesVars, owner, route, body, ctx, answer, before,
                   checkpoints, emitted, crashes>>

(* The agent is cloned and the clone's run starts from the checkpoint.     *)
StartRun(r) ==
    /\ phase[r] = "touched"
    /\ phase' = [phase EXCEPT ![r] = "stream"]
    /\ activeRun' = [activeRun EXCEPT ![AgentOf(r)] = [turn |-> r, thread |-> ThreadOf(r)]]
    /\ loaded' = [loaded EXCEPT ![r] = checkpoints[ThreadOf(r)]]
    /\ UNCHANGED <<step, caller, conns, clock, txStart, registry, regWrite, regSeq,
                   warned, sesVars, owner, route, body, ctx, answer, before,
                   checkpoints, emitted, crashes>>

(* An event of the agent's active run is encoded and sent.                 *)
EmitEvent(r) ==
    /\ phase[r] = "stream"
    /\ emitted' = [emitted EXCEPT ![r] = @ \cup {activeRun[AgentOf(r)]}]
    /\ UNCHANGED <<dbVars, sesVars, owner, route, body, ctx, answer, before,
                   checkpoints, loaded, activeRun, crashes>>

(* The checkpoints after the turn of r's run is saved.                     *)
Saved(r) ==
    [checkpoints EXCEPT ![activeRun[AgentOf(r)].thread] = Append(loaded[r], r)]

(* The run ends: the turn is saved and the stream closed.                  *)
EndRun(r) ==
    /\ phase[r] = "stream"
    /\ checkpoints' = Saved(r)
    /\ Answer(r, "ok")
    /\ UNCHANGED <<loaded, activeRun, emitted, crashes>>

(* The client goes away, or the model or a tool fails: LangGraph saves as  *)
(* it goes, so the turn may be in the checkpoint or not.                   *)
BreakRun(r) ==
    /\ phase[r] = "stream"
    /\ checkpoints' \in {checkpoints, Saved(r)}
    /\ Answer(r, "broken")
    /\ UNCHANGED <<loaded, activeRun, emitted, crashes>>

-----------------------------------------------------------------------------

InFlight == {r \in Requests : phase[r] \notin {"idle", "done"}}

(* The process dies and is restarted: the tasks, their context, their      *)
(* agents and their connections are gone, PostgreSQL rolls back what was   *)
(* not committed.                                                          *)
Crash ==
    /\ crashes < MaxCrashes /\ InFlight # {}
    /\ crashes' = crashes + 1
    /\ phase' = [r \in Requests |-> IF r \in InFlight THEN "done" ELSE phase[r]]
    /\ answer' = [r \in Requests |-> IF r \in InFlight THEN "lost" ELSE answer[r]]
    /\ step' = [r \in Requests |-> "idle"]
    /\ conns' = {}
    /\ regWrite' = [r \in Requests |-> NoRow]
    /\ sesWrite' = [r \in Requests |-> NoSession]
    /\ ctx' = [c \in Requests |-> NoUser]
    /\ activeRun' = [a \in Requests |-> NoRun]
    /\ UNCHANGED <<caller, clock, txStart, registry, regSeq, warned, sessions, sesSeq,
                   sesArg, result, owner, route, body, before, checkpoints, loaded,
                   emitted>>

Progress(r) ==
    \/ Dispatch(r)
    \/ CallList(r)
    \/ CallCreate(r)
    \/ CallTouch(r)
    \/ RejectBody(r)
    \/ AnswerSessions(r)
    \/ StartRun(r)
    \/ EndRun(r)

DbProgress(r) ==
    \/ Checkout(r) /\ UNCHANGED <<sesVars, srvVars>>
    \/ TrackProgress(r) /\ UNCHANGED <<sesVars, srvVars>>
    \/ SessionProgress(r) /\ UNCHANGED srvVars

Failure(r) ==
    \/ (CommitTrackUnknown(r) \/ FailTrack(r)) /\ UNCHANGED <<sesVars, srvVars>>
    \/ (CommitSessionUnknown(r) \/ FailSession(r)) /\ UNCHANGED srvVars
    \/ BreakRun(r)

Quiet == (\A r \in Requests : phase[r] = "done") /\ UNCHANGED vars

ServerNext ==
    \/ \E r \in Requests :
          \/ Unauthenticated(r)
          \/ Refuse(r)
          \/ \E u \in Users, p \in Routes : \E b \in BodiesOf(p) : Admit(r, u, p, b)
          \/ Progress(r)
          \/ DbProgress(r)
          \/ EmitEvent(r)
          \/ Failure(r)
    \/ Crash
    \/ Quiet

ServerSpec == ServerInit /\ [][ServerNext]_vars

(* The event loop runs every ready task, the pool and the database serve   *)
(* every caller, /userinfo answers or times out, and a run ends.           *)
ServerFairSpec ==
    ServerSpec /\ \A r \in Requests : WF_vars(Progress(r)) /\ WF_vars(DbProgress(r))

=============================================================================
