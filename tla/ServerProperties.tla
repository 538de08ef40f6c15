-------------------------- MODULE ServerProperties --------------------------
(***************************************************************************)
(* What makes the web server correct, stated of CopilotServer.             *)
(***************************************************************************)
EXTENDS CopilotServer

Done(r, p, a) == phase[r] = "done" /\ route[r] = p /\ answer[r] = a

Phases == {"idle", "admitted", "track", "tracked", "list", "listed", "create",
           "created", "conflict", "raised", "touch", "touched", "stream", "done"}

Threads == {ThreadKey(u, raw) : u \in Users, raw \in RawIds}

Run == [turn : Requests, thread : Threads]

Bodies == RawIds \cup Names \cup BadNames \cup {NoName}

(* Every variable of the server stays in its type; the connections in use  *)
(* are those of the calls in progress, whichever function makes them.      *)
ServerTypeOK ==
    /\ phase \in [Requests -> Phases]
    /\ step \in [Requests -> Steps]
    /\ ConnsAccounted
    /\ {caller, owner, ctx} \subseteq [Requests -> Users \cup {NoUser}]
    /\ {clock, regSeq, sesSeq} \subseteq Nat /\ txStart \in [Requests -> Nat]
    /\ registry \in [Users -> Row] /\ regWrite \in [Requests -> Row]
    /\ warned \subseteq Requests \X {"track", "touch"}
    /\ sessions \subseteq SessionRow /\ sesWrite \in [Requests -> SessionRow]
    /\ sesArg \in [Requests -> Nat \cup Names \cup {NoName}]
    /\ result \in [Requests -> Seq(SessionRow)]
    /\ route \in [Requests -> Routes \cup {"none"}] /\ body \in [Requests -> Bodies]
    /\ answer \in [Requests -> Answers] /\ before \in [Requests -> SUBSET Requests]
    /\ checkpoints \in [Threads -> Seq(Requests)]
    /\ loaded \in [Requests -> Seq(Requests)]
    /\ activeRun \in [Requests -> Run \cup {NoRun}]
    /\ emitted \in [Requests -> SUBSET Run]
    /\ crashes \in 0..MaxCrashes

-----------------------------------------------------------------------------
(* Identity.                                                               *)

(* The handler works for the user whose token the middleware verified,     *)
(* although other requests are admitted and answered between the           *)
(* middleware and the handler (auth_context.py: a ContextVar, because one  *)
(* worker interleaves many requests).                                      *)
OwnIdentity ==
    \A r \in Requests :
        phase[r] \notin {"idle", "admitted", "done"} => caller[r] = owner[r]

(* A chat run starts only from turns of the same user and thread: one user *)
(* can never read or continue another's conversation, whatever thread_id   *)
(* it sends.  And a stream carries the events of its own request's run     *)
(* only (the comment on agent.clone(): sharing one instance corrupts it).  *)
ThreadsIsolated ==
    \A r \in Requests :
        /\ \A turn \in ToSet(loaded[r]) : owner[turn] = owner[r] /\ body[turn] = body[r]
        /\ \A run \in emitted[r] : run = [turn |-> r, thread |-> ThreadKey(owner[r], body[r])]

-----------------------------------------------------------------------------
(* Conversations.                                                          *)

(* Both were in flight at some moment, as far as their answers tell.       *)
Overlap(q, r) == q \notin before[r] /\ r \notin before[q]

SameThread(q, r) ==
    /\ route[q] = "chat" /\ route[r] = "chat"
    /\ owner[q] = owner[r] /\ body[q] = body[r]

(* A turn that was answered before the next message of its thread was sent *)
(* is part of the conversation that message continues, also after a        *)
(* restart, provided nothing else ran on the thread at the same time.      *)
ConversationContinues ==
    \A q, r \in Requests :
        /\ SameThread(q, r) /\ q \in before[r] /\ answer[q] = "ok"
        /\ phase[r] = "stream"
        /\ ~\E x \in Requests \ {q} : SameThread(x, q) /\ Overlap(x, q)
      => q \in ToSet(loaded[r])

(* A chat request is answered by its run unless its thread id is no        *)
(* session id: tracking the user or touching the session may fail, block   *)
(* or conflict, it never turns the chat into an error.                     *)
ChatUnhindered ==
    \A r \in Requests :
        phase[r] = "done" /\ route[r] = "chat" =>
            \/ answer[r] \in {"ok", "broken", "lost"}
            \/ answer[r] = "bad_request" /\ body[r] \notin DOMAIN IntOf

-----------------------------------------------------------------------------
(* Named sessions.                                                         *)

OwnRow(s, r) == Registered(owner[r]) /\ s.reg = registry[owner[r]].id

(* GET /sessions shows the caller's sessions only, each of them once, the  *)
(* most recently accessed first.                                           *)
ListOwn ==
    \A r \in Requests : Done(r, "list", "ok") =>
        /\ \A s \in ToSet(result[r]) : OwnRow(s, r)
        /\ \A i, j \in DOMAIN result[r] : i < j =>
              /\ result[r][i].id # result[r][j].id
              /\ result[r][i].access >= result[r][j].access

(* A session whose creation was confirmed to a user is in every list the   *)
(* user asks for afterwards, also when the server crashed in between.      *)
ReadYourCreates ==
    \A q, r \in Requests :
        /\ Done(q, "create", "ok") /\ Done(r, "list", "ok")
        /\ owner[q] = owner[r] /\ q \in before[r]
      => \E s \in ToSet(result[r]) : s.id = result[q][1].id /\ s.name = body[q]

(* The users registered under the id a session row refers to.              *)
OwnersOf(s) == {u \in Users : registry[u].id = s.reg}

Catalog == INSTANCE SessionCatalog WITH
    catalog <- {[id |-> s.id, owner |-> OwnersOf(s), name |-> s.name] : s \in sessions}

(* The tables are a catalog of sessions: of concurrent requests of one     *)
(* user to create the same name at most one ever takes effect, other users *)
(* may have that name too, and no touch, failure or restart, nor what      *)
(* happens to user_registry, ever changes whose session it is.             *)
ImplementsCatalog == Catalog!CatalogSpec

(* 409 is answered only when the caller really has a session of that name: *)
(* never because of another user's, nor of one whose creation is rolled    *)
(* back after all.                                                         *)
ConflictJustified ==
    \A r \in Requests : Done(r, "create", "conflict") =>
        \E s \in sessions : OwnRow(s, r) /\ s.name = body[r]

(* POST /sessions fails for want of a user_registry row only when          *)
(* track_user() has logged why there is none.                              *)
MissingRowExplained ==
    \A r \in Requests :
        phase[r] = "created" /\ result[r] = <<>> => <<r, "track">> \in warned

(* A committed session row changes only in its access_ts, and only for a   *)
(* chat its owner sent to it: a thread_id naming another user's session    *)
(* touches nothing.                                                        *)
TouchOwn ==
    [][\A s \in sessions \ sessions' : \E r \in Requests :
          /\ route[r] = "chat" /\ OwnRow(s, r)
          /\ body[r] \in DOMAIN IntOf /\ IntOf[body[r]] = s.id
          /\ [s EXCEPT !.access = txStart[r]] \in sessions']_vars

-----------------------------------------------------------------------------
(* Every request that is admitted is answered: no row lock, unique-index   *)
(* wait, or pool whose every connection is out keeps it for ever.          *)
Answered == \A r \in Requests : phase[r] = "admitted" ~> phase[r] = "done"

-----------------------------------------------------------------------------
(* What the repository says and the code does not keep.                    *)

(* copilotkit_server.py, POST /sessions: finding no user_registry row      *)
(* "shouldn't happen -- track_user already upserts the caller's row".      *)
RegisteredBeforeCreate ==
    \A r \in Requests : phase[r] = "created" => result[r] # <<>>

(* sessions.py: the checkpoint is keyed by {user_id}:{session_id}, so two  *)
(* requests of a user for one session id run on one thread.                *)
SameSessionSameThread ==
    \A q, r \in Requests :
        /\ phase[q] = "stream" /\ phase[r] = "stream" /\ owner[q] = owner[r]
        /\ IntOf[body[q]] = IntOf[body[r]]
      => ThreadOf(q) = ThreadOf(r)

=============================================================================
