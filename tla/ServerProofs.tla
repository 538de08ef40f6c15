---------------------------- MODULE ServerProofs ----------------------------
(***************************************************************************)
(* Whose conversations the web server reads and extends, for any number of *)
(* requests, users, threads, connections, failures and restarts.           *)
(***************************************************************************)
EXTENDS ServerProperties, TLAPS

ServerTypes ==
    /\ phase \in [Requests -> Phases]
    /\ caller \in [Requests -> Users \cup {NoUser}]
    /\ owner \in [Requests -> Users \cup {NoUser}]
    /\ ctx \in [Requests -> Users \cup {NoUser}]
    /\ route = [r \in Requests |-> route[r]]
    /\ body = [r \in Requests |-> body[r]]
    /\ answer = [r \in Requests |-> answer[r]]
    /\ activeRun = [r \in Requests |-> activeRun[r]]
    /\ emitted = [r \in Requests |-> emitted[r]]
    /\ checkpoints \in [Threads -> Seq(Requests)]
    /\ loaded \in [Requests -> Seq(Requests)]

(* From admission to answer the context holds the verified user, and the   *)
(* handler works for whom it found there.                                  *)
Identified ==
    \A r \in Requests :
        /\ phase[r] \notin {"idle", "done"} => owner[r] \in Users /\ ctx[r] = owner[r]
        /\ phase[r] \notin {"idle", "admitted", "done"} => caller[r] = owner[r]

(* Each phase belongs to one route; a chat past int() has a raw id.        *)
OnRoute ==
    \A r \in Requests :
        /\ phase[r] \in {"list", "listed"} => route[r] = "list"
        /\ phase[r] \in {"create", "created", "conflict"} => route[r] = "create"
        /\ phase[r] \in {"idle", "raised"} => route[r] # "chat"
        /\ phase[r] \in {"touch", "touched", "stream"} =>
              route[r] = "chat" /\ body[r] \in RawIds

(* Saved and loaded turns are of admitted requests, of the thread's user   *)
(* and id.                                                                 *)
TurnsInPlace ==
    /\ \A k \in Threads : \A turn \in ToSet(checkpoints[k]) :
          /\ turn \in Requests /\ phase[turn] # "idle"
          /\ ThreadKey(owner[turn], body[turn]) = k
    /\ \A r \in Requests : \A turn \in ToSet(loaded[r]) :
          /\ turn \in Requests /\ phase[turn] # "idle" /\ phase[r] # "idle"
          /\ owner[turn] = owner[r] /\ body[turn] = body[r]

OwnRun(r) == [turn |-> r, thread |-> ThreadKey(owner[r], body[r])]

(* The clone that streams for a request runs that request's turn.          *)
StreamsOwn ==
    \A r \in Requests :
        /\ phase[r] = "stream" => activeRun[r] = OwnRun(r)
        /\ \A run \in emitted[r] : phase[r] # "idle" /\ run = OwnRun(r)

ServerInv ==
    ServerTypes /\ Identified /\ OnRoute /\ TurnsInPlace /\ StreamsOwn /\ ChatUnhindered

-----------------------------------------------------------------------------

LEMMA ServerInitKeeps == ServerInit => ServerInv
<1> SUFFICES ASSUME ServerInit PROVE ServerInv
  OBVIOUS
<1> USE DEF ServerInit, DbInit
<1>1. ServerTypes
  BY DEF ServerTypes, Phases, Threads
<1>2. Identified /\ OnRoute /\ StreamsOwn /\ ChatUnhindered
  BY DEF Identified, OnRoute, StreamsOwn, ChatUnhindered
<1>3. TurnsInPlace
  BY DEF TurnsInPlace, Threads, ToSet
<1> QED
  BY <1>1, <1>2, <1>3 DEF ServerInv

(* Where a call of r may be after one of its database steps.               *)
Onward(p) ==
    IF p = "track" THEN {"track", "tracked"}
    ELSE IF p = "list" THEN {"list", "listed", "raised"}
    ELSE IF p = "create" THEN {"create", "created", "conflict", "raised"}
    ELSE IF p = "touch" THEN {"touch", "touched"}
    ELSE {p}

(* A database step moves a request on in its route and changes nothing of  *)
(* whose it is or of any conversation.                                     *)
LEMMA OnwardKeeps ==
  ASSUME ServerInv, NEW r \in Requests, NEW p \in Onward(phase[r]),
         phase' = [phase EXCEPT ![r] = p], caller' = caller, UNCHANGED srvVars
  PROVE  ServerInv'
<1> USE DEF ServerInv, srvVars
<1>0. /\ p \in Phases /\ (phase[r] = "idle" <=> p = "idle") /\ (phase[r] = "done" <=> p = "done")
      /\ p = "admitted" <=> phase[r] = "admitted"
      /\ p = "stream" <=> phase[r] = "stream"
  BY DEF Onward, ServerTypes, Phases
<1>1. ServerTypes'
  BY <1>0 DEF ServerTypes
<1>2. Identified'
  BY <1>0 DEF Identified, ServerTypes
<1>3. OnRoute'
  BY DEF OnRoute, Onward, ServerTypes
<1>4. TurnsInPlace'
  BY <1>0 DEF TurnsInPlace, ServerTypes
<1>5. StreamsOwn' /\ ChatUnhindered'
  BY <1>0 DEF StreamsOwn, OwnRun, ChatUnhindered, ServerTypes
<1> QED
  BY <1>1, <1>2, <1>3, <1>4, <1>5

(* A step of a database call moves its own request on, and only that.      *)
LEMMA DbOnward ==
  ASSUME ServerInv, NEW r \in Requests,
         \/ (Checkout(r) \/ TrackStep(r)) /\ UNCHANGED <<sesVars, srvVars>>
         \/ SessionStep(r) /\ UNCHANGED srvVars
  PROVE  \E p \in Onward(phase[r]) : /\ phase' = [phase EXCEPT ![r] = p]
                                     /\ caller' = caller /\ sesArg' = sesArg
                                     /\ UNCHANGED srvVars
<1> DEFINE Outcome(p) == /\ phase' = [phase EXCEPT ![r] = p]
                         /\ caller' = caller /\ sesArg' = sesArg
                         /\ UNCHANGED srvVars
<1>0. phase = [phase EXCEPT ![r] = phase[r]] /\ phase[r] \in Onward(phase[r])
  BY DEF ServerInv, ServerTypes, Onward
<1>1. CASE /\ UNCHANGED <<sesVars, srvVars>>
           /\ Checkout(r) \/ UpdateHit(r) \/ UpdateMiss(r) \/ Fetched(r) \/ InsertRow(r)
  BY <1>0, <1>1 DEF Checkout, UpdateHit, UpdateMiss, Fetched, InsertRow, sesVars
<1>2. CASE /\ UNCHANGED <<sesVars, srvVars>>
           /\ CommitTrack(r) \/ CommitTrackUnknown(r) \/ FailTrack(r)
  <2>1. "tracked" \in Onward(phase[r]) /\ Outcome("tracked")
    BY <1>2 DEF CommitTrack, CommitTrackUnknown, FailTrack, Leave, Onward, sesVars
  <2> QED
    BY <2>1
<1>3. CASE UNCHANGED srvVars /\ SelectSessions(r)
  <2>1. phase' = phase /\ caller' = caller /\ sesArg' = sesArg
    BY <1>3, Zenon DEF SelectSessions
  <2> QED
    BY <1>0, <1>3, <2>1
<1>4. CASE /\ UNCHANGED srvVars
           /\ InsertSession(r) \/ InsertNothing(r) \/ TouchRow(r) \/ TouchNothing(r)
  BY <1>0, <1>4 DEF InsertSession, InsertNothing, TouchRow, TouchNothing, sesVars
<1>5. CASE UNCHANGED srvVars /\ InsertConflict(r)
  <2>1. "conflict" \in Onward(phase[r]) /\ Outcome("conflict")
    BY <1>5 DEF InsertConflict, LeaveSession, Leave, Onward
  <2> QED
    BY <2>1
<1>6. CASE UNCHANGED srvVars /\ CommitSession(r)
  <2>1. Returned(phase[r]) \in Onward(phase[r]) /\ Outcome(Returned(phase[r]))
    BY <1>6 DEF CommitSession, SessionPhases, Returned, LeaveSession, Leave, Onward
  <2> QED
    BY <2>1
<1>7. CASE UNCHANGED srvVars /\ (CommitSessionUnknown(r) \/ FailSession(r))
  BY <1>7 DEF CommitSessionUnknown, FailSession, SessionPhases, Raise, LeaveSession,
              Leave, Onward
<1> QED
  BY <1>1, <1>2, <1>3, <1>4, <1>5, <1>6, <1>7
     DEF TrackStep, TrackProgress, SessionStep, SessionProgress

LEMMA DbStepKeeps ==
  ASSUME ServerInv, NEW r \in Requests,
         \/ (Checkout(r) \/ TrackStep(r)) /\ UNCHANGED <<sesVars, srvVars>>
         \/ SessionStep(r) /\ UNCHANGED srvVars
  PROVE  ServerInv'
BY DbOnward, OnwardKeeps

(* A request that is answered before any route is reached.                 *)
LEMMA TurnedAwayKeeps ==
  ASSUME ServerInv, NEW r \in Requests, Unauthenticated(r) \/ Refuse(r)
  PROVE  ServerInv'
<1> USE DEF ServerInv, Unauthenticated, Refuse
<1>1. ServerTypes'
  BY DEF ServerTypes, Phases
<1>2. Identified' /\ OnRoute'
  BY DEF Identified, OnRoute, ServerTypes
<1>3. TurnsInPlace'
  BY DEF TurnsInPlace, ServerTypes
<1>4. StreamsOwn'
  BY DEF StreamsOwn, OwnRun, ServerTypes
<1>5. ChatUnhindered'
  <2>1. /\ \A q \in Requests \ {r} : phase'[q] = phase[q] /\ answer'[q] = answer[q]
        /\ route' = route /\ body' = body /\ route[r] # "chat"
    BY DEF ServerTypes, OnRoute
  <2> QED
    BY <2>1 DEF ChatUnhindered
<1> QED
  BY <1>1, <1>2, <1>3, <1>4, <1>5

(* A request that is admitted has no turn, run or event yet.               *)
LEMMA AdmitKeeps ==
  ASSUME ServerInv, NEW r \in Requests, NEW u \in Users, NEW p, NEW b, Admit(r, u, p, b)
  PROVE  ServerInv'
<1> USE DEF ServerInv, Admit, Context
<1>1. ServerTypes'
  BY DEF ServerTypes, Phases
<1>2. Identified' /\ OnRoute'
  BY DEF Identified, OnRoute, ServerTypes
<1>3. TurnsInPlace'
  BY DEF TurnsInPlace, ServerTypes
<1>4. StreamsOwn' /\ ChatUnhindered'
  BY DEF StreamsOwn, OwnRun, ChatUnhindered, ServerTypes
<1> QED
  BY <1>1, <1>2, <1>3, <1>4

(* The route asks the context who is calling.                              *)
LEMMA DispatchKeeps ==
  ASSUME ServerInv, NEW r \in Requests, Dispatch(r)
  PROVE  ServerInv'
<1> USE DEF ServerInv, Dispatch, Enter, Context, srvVars
<1>1. ServerTypes'
  BY DEF ServerTypes, Phases
<1>2. Identified' /\ OnRoute'
  BY DEF Identified, OnRoute, ServerTypes
<1>3. TurnsInPlace'
  BY DEF TurnsInPlace, ServerTypes
<1>4. StreamsOwn' /\ ChatUnhindered'
  BY DEF StreamsOwn, OwnRun, ChatUnhindered, ServerTypes
<1> QED
  BY <1>1, <1>2, <1>3, <1>4

LEMMA CallKeeps ==
  ASSUME ServerInv, NEW r \in Requests, CallList(r) \/ CallCreate(r) \/ CallTouch(r)
  PROVE  ServerInv'
<1>0. PICK p \in {"list", "create", "touch"} :
        /\ phase[r] = "tracked" /\ phase' = [phase EXCEPT ![r] = p]
        /\ caller' = caller /\ UNCHANGED srvVars
        /\ p = "list" => route[r] = "list"
        /\ p = "create" => route[r] = "create"
        /\ p = "touch" => route[r] = "chat" /\ body[r] \in RawIds
  BY InputAssumption DEF CallList, CallCreate, CallTouch, CallSessions, Enter
<1> USE <1>0 DEF ServerInv, srvVars
<1>1. ServerTypes'
  BY DEF ServerTypes, Phases
<1>2. Identified' /\ OnRoute'
  BY DEF Identified, OnRoute, ServerTypes
<1>3. TurnsInPlace'
  BY DEF TurnsInPlace, ServerTypes
<1>4. StreamsOwn' /\ ChatUnhindered'
  BY DEF StreamsOwn, OwnRun, ChatUnhindered, ServerTypes
<1> QED
  BY <1>1, <1>2, <1>3, <1>4

(* An answer, with the turns saved that it may save.                       *)
LEMMA AnswerKeeps ==
  ASSUME ServerInv, NEW r \in Requests, NEW a, Answer(r, a), phase[r] # "idle",
         UNCHANGED <<loaded, activeRun, emitted>>,
         route[r] = "chat" =>
             a \in {"ok", "broken", "lost"} \/ (a = "bad_request" /\ body[r] \notin DOMAIN IntOf),
         checkpoints' \in [Threads -> Seq(Requests)],
         \A k \in Threads : \A turn \in ToSet(checkpoints'[k]) \ ToSet(checkpoints[k]) :
             /\ turn \in Requests /\ phase[turn] # "idle"
             /\ ThreadKey(owner[turn], body[turn]) = k
  PROVE  ServerInv'
<1> USE DEF ServerInv, Answer, Context
<1>1. ServerTypes'
  BY DEF ServerTypes, Phases
<1>2. Identified' /\ OnRoute'
  BY DEF Identified, OnRoute, ServerTypes
<1>3. TurnsInPlace'
  BY DEF TurnsInPlace, ServerTypes
<1>4. StreamsOwn' /\ ChatUnhindered'
  BY DEF StreamsOwn, OwnRun, ChatUnhindered, ServerTypes
<1> QED
  BY <1>1, <1>2, <1>3, <1>4

LEMMA RouteAnswerKeeps ==
  ASSUME ServerInv, NEW r \in Requests, RejectBody(r) \/ AnswerSessions(r)
  PROVE  ServerInv'
<1>1. CASE RejectBody(r)
  BY <1>1, AnswerKeeps DEF RejectBody, ServerInv, ServerTypes
<1>2. CASE AnswerSessions(r)
  <2>1. route[r] # "chat"
    BY <1>2 DEF AnswerSessions, ServerInv, OnRoute
  <2> QED
    BY <1>2, <2>1, AnswerKeeps DEF AnswerSessions, ServerInv, ServerTypes
<1> QED
  BY <1>1, <1>2

(* A run starts from the turns of the thread of its user and raw id.       *)
LEMMA StartRunKeeps ==
  ASSUME ServerInv, NEW r \in Requests, StartRun(r)
  PROVE  ServerInv'
<1> USE DEF ServerInv, StartRun, AgentOf, ThreadOf
<1>0. /\ phase[r] = "touched" /\ ThreadOf(r) = ThreadKey(owner[r], body[r])
      /\ ThreadKey(owner[r], body[r]) \in Threads
  BY DEF Identified, OnRoute, Threads
<1>1. ServerTypes'
  BY <1>0 DEF ServerTypes, Phases
<1>2. Identified' /\ OnRoute'
  BY <1>0 DEF Identified, OnRoute, ServerTypes
<1>3. TurnsInPlace'
  <2>1. \A turn \in ToSet(checkpoints[ThreadOf(r)]) :
          /\ turn \in Requests /\ phase[turn] # "idle"
          /\ owner[turn] = owner[r] /\ body[turn] = body[r]
    BY <1>0 DEF TurnsInPlace, ThreadKey
  <2>2. \A q \in Requests : ToSet(loaded'[q]) =
          IF q = r THEN ToSet(checkpoints[ThreadOf(r)]) ELSE ToSet(loaded[q])
    BY DEF ServerTypes
  <2>3. \A q \in Requests : phase'[q] = "idle" <=> phase[q] = "idle"
    BY <1>0 DEF ServerTypes
  <2> QED
    BY <1>0, <2>1, <2>2, <2>3 DEF TurnsInPlace
<1>4. StreamsOwn' /\ ChatUnhindered'
  BY <1>0 DEF StreamsOwn, OwnRun, ChatUnhindered, ServerTypes
<1> QED
  BY <1>1, <1>2, <1>3, <1>4

LEMMA EmitKeeps ==
  ASSUME ServerInv, NEW r \in Requests, EmitEvent(r)
  PROVE  ServerInv'
<1> USE DEF ServerInv, EmitEvent, AgentOf, dbVars
<1>1. ServerTypes'
  BY DEF ServerTypes
<1>2. Identified' /\ OnRoute' /\ TurnsInPlace' /\ ChatUnhindered'
  BY DEF Identified, OnRoute, TurnsInPlace, ChatUnhindered
<1>3. StreamsOwn'
  BY DEF StreamsOwn, OwnRun, ServerTypes
<1> QED
  BY <1>1, <1>2, <1>3

LEMMA AppendedTurns ==
  ASSUME NEW s \in Seq(Requests), NEW r \in Requests
  PROVE  Append(s, r) \in Seq(Requests) /\ ToSet(Append(s, r)) \subseteq ToSet(s) \cup {r}
BY DEF ToSet

(* The turn of a run is appended to what it had loaded, in its own thread. *)
LEMMA SavedInPlace ==
  ASSUME ServerInv, NEW r \in Requests, phase[r] = "stream"
  PROVE  /\ Saved(r) \in [Threads -> Seq(Requests)]
         /\ \A k \in Threads : \A turn \in ToSet(Saved(r)[k]) \ ToSet(checkpoints[k]) :
               /\ turn \in Requests /\ phase[turn] # "idle"
               /\ ThreadKey(owner[turn], body[turn]) = k
<1> DEFINE own == ThreadKey(owner[r], body[r])
<1>1. /\ Saved(r) = [checkpoints EXCEPT ![own] = Append(loaded[r], r)]
      /\ checkpoints \in [Threads -> Seq(Requests)] /\ loaded[r] \in Seq(Requests)
  <2>1. activeRun[AgentOf(r)].thread = own
    <3>1. activeRun[r] = OwnRun(r)
      BY DEF ServerInv, StreamsOwn
    <3>2. OwnRun(r).thread = own
      BY DEF OwnRun
    <3> QED
      BY <3>1, <3>2 DEF AgentOf
  <2>2. Saved(r) = [checkpoints EXCEPT ![own] = Append(loaded[r], r)]
    BY <2>1, Zenon DEF Saved
  <2>3. checkpoints \in [Threads -> Seq(Requests)] /\ loaded[r] \in Seq(Requests)
    BY DEF ServerInv, ServerTypes
  <2> QED
    BY <2>2, <2>3
<1>2. /\ Append(loaded[r], r) \in Seq(Requests)
      /\ ToSet(Append(loaded[r], r)) \subseteq ToSet(loaded[r]) \cup {r}
  BY <1>1, AppendedTurns
<1>3. \A turn \in ToSet(Append(loaded[r], r)) :
        /\ turn \in Requests /\ phase[turn] # "idle"
        /\ ThreadKey(owner[turn], body[turn]) = own
  BY <1>2 DEF ServerInv, TurnsInPlace
<1> HIDE DEF own
<1> QED
  BY <1>1, <1>2, <1>3

LEMMA RunEndKeeps ==
  ASSUME ServerInv, NEW r \in Requests, EndRun(r) \/ BreakRun(r)
  PROVE  ServerInv'
<1>1. /\ phase[r] = "stream" /\ checkpoints' \in {checkpoints, Saved(r)}
      /\ UNCHANGED <<loaded, activeRun, emitted>>
  BY DEF EndRun, BreakRun
<1>2. PICK a \in {"ok", "broken"} : Answer(r, a)
  BY DEF EndRun, BreakRun
<1>3. /\ checkpoints' \in [Threads -> Seq(Requests)]
      /\ \A k \in Threads : \A turn \in ToSet(checkpoints'[k]) \ ToSet(checkpoints[k]) :
             /\ turn \in Requests /\ phase[turn] # "idle"
             /\ ThreadKey(owner[turn], body[turn]) = k
  BY <1>1, SavedInPlace DEF ServerInv, ServerTypes
<1> QED
  BY <1>1, <1>2, <1>3, AnswerKeeps

LEMMA CrashKeeps ==
  ASSUME ServerInv, Crash
  PROVE  ServerInv'
<1> USE DEF ServerInv, Crash, InFlight
<1>0. \A r \in Requests : phase'[r] = IF phase[r] = "idle" THEN "idle" ELSE "done"
  BY DEF ServerTypes
<1>1. ServerTypes'
  BY DEF ServerTypes, Phases
<1>2. Identified' /\ OnRoute'
  BY <1>0 DEF Identified, OnRoute
<1>3. TurnsInPlace'
  BY <1>0 DEF TurnsInPlace
<1>4. StreamsOwn' /\ ChatUnhindered'
  BY <1>0 DEF StreamsOwn, OwnRun, ChatUnhindered
<1> QED
  BY <1>1, <1>2, <1>3, <1>4

-----------------------------------------------------------------------------

LEMMA ServerStepKeeps ==
  ASSUME ServerInv, [ServerNext]_vars
  PROVE  ServerInv'
<1>1. CASE UNCHANGED vars
  BY <1>1 DEF vars, dbVars, srvVars, ServerInv, ServerTypes, Identified, OnRoute,
              TurnsInPlace, StreamsOwn, OwnRun, ChatUnhindered
<1>2. CASE Crash
  BY <1>2, CrashKeeps
<1>3. ASSUME NEW r \in Requests,
             \/ Unauthenticated(r) \/ Refuse(r)
             \/ \E u \in Users, p \in Routes : \E b \in BodiesOf(p) : Admit(r, u, p, b)
             \/ Progress(r) \/ EmitEvent(r) \/ BreakRun(r)
      PROVE  ServerInv'
  BY <1>3, TurnedAwayKeeps, AdmitKeeps, DispatchKeeps, CallKeeps, RouteAnswerKeeps,
     StartRunKeeps, EmitKeeps, RunEndKeeps DEF Progress
<1>4. ASSUME NEW r \in Requests, DbProgress(r) \/ (Failure(r) /\ ~BreakRun(r))
      PROVE  ServerInv'
  BY <1>4, DbStepKeeps DEF DbProgress, Failure, TrackStep, SessionStep
<1> QED
  BY <1>1, <1>2, <1>3, <1>4 DEF ServerNext, Failure, Quiet

(* Every state of the server satisfies the inductive invariant, whatever   *)
(* requests interleave, fail or are lost in a restart.                     *)
THEOREM ServerInvariant == ServerSpec => []ServerInv
BY ServerInitKeeps, ServerStepKeeps, PTL DEF ServerSpec

(* A handler never works for another user than the one whose token its     *)
(* request carried (auth_context.py).                                      *)
THEOREM IdentityKept == ServerSpec => []OwnIdentity
<1>1. ServerInv => OwnIdentity
  BY DEF ServerInv, Identified, OwnIdentity
<1> QED
  BY <1>1, ServerInvariant, PTL

(* No run starts from, and no stream carries, anything of another user's   *)
(* conversation (the rewritten thread_id and agent.clone()).               *)
THEOREM Isolation == ServerSpec => []ThreadsIsolated
<1>1. ServerInv => ThreadsIsolated
  BY DEF ServerInv, TurnsInPlace, StreamsOwn, OwnRun, ThreadsIsolated
<1> QED
  BY <1>1, ServerInvariant, PTL

(* A chat is answered by its run or because its thread id is no session    *)
(* id, never because track_user() or touch_session() failed.               *)
THEOREM ChatGoesOn == ServerSpec => []ChatUnhindered
<1>1. ServerInv => ChatUnhindered
  BY DEF ServerInv
<1> QED
  BY <1>1, ServerInvariant, PTL

-----------------------------------------------------------------------------
(* Whose turn came before whose.                                           *)

(* What a call was asked to do is what its request says.                   *)
Asked ==
    /\ sesArg = [r \in Requests |-> sesArg[r]] /\ result = [r \in Requests |-> result[r]]
    /\ before \in [Requests -> SUBSET Requests]
    /\ answer \in [Requests -> Answers]
    /\ \A r \in Requests :
          /\ \A q \in before[r] : phase[q] = "done"
          /\ phase[r] = "idle" => route[r] = "none"
          /\ route[r] # "none" => owner[r] \in Users
          /\ phase[r] # "done" => answer[r] = "none"
          /\ phase[r] = "touch" => body[r] \in DOMAIN IntOf /\ sesArg[r] = IntOf[body[r]]
          /\ phase[r] = "create" => body[r] \in Names /\ sesArg[r] = body[r]

LEMMA AskedInit == ServerInit => Asked
BY DEF ServerInit, DbInit, SesInit, Asked, Answers

(* A step of the middleware, a route or a run.                             *)
RouteStep(r) ==
    \/ Unauthenticated(r) \/ Refuse(r)
    \/ \E u \in Users, p \in Routes : \E b \in BodiesOf(p) : Admit(r, u, p, b)
    \/ Progress(r) \/ EmitEvent(r) \/ BreakRun(r)

LEMMA RouteKeepsAsked ==
  ASSUME NEW r \in Requests, ServerInv, Asked, RouteStep(r)
  PROVE  Asked'
<1> USE DEF ServerInv, ServerTypes, Asked, sesVars, srvVars
<1>1. CASE Unauthenticated(r) \/ Refuse(r)
  <2>1. PICK a \in Answers : answer' = [answer EXCEPT ![r] = a]
    BY <1>1 DEF Unauthenticated, Refuse, Answers
  <2>2. /\ phase[r] = "idle" /\ phase' = [phase EXCEPT ![r] = "done"]
        /\ UNCHANGED <<sesArg, result, before, route, owner, body>>
    BY <1>1 DEF Unauthenticated, Refuse
  <2> QED
    BY <2>1, <2>2
<1>2. ASSUME NEW u \in Users, NEW p \in Routes, NEW b, Admit(r, u, p, b)
      PROVE  Asked'
  BY <1>2, InputAssumption DEF Admit
<1>3. CASE Dispatch(r)
  BY <1>3 DEF Dispatch, Enter
<1>4. CASE CallList(r) \/ CallCreate(r) \/ CallTouch(r)
  BY <1>4 DEF CallList, CallCreate, CallTouch, CallSessions, Enter
<1>5. CASE RejectBody(r) \/ AnswerSessions(r) \/ EndRun(r) \/ BreakRun(r)
  <2>1. PICK a \in Answers : Answer(r, a)
    BY <1>5 DEF RejectBody, AnswerSessions, AnswerOf, EndRun, BreakRun, Answers
  <2>2. phase[r] # "idle"
    BY <1>5 DEF RejectBody, AnswerSessions, EndRun, BreakRun
  <2> QED
    BY <2>1, <2>2 DEF Answer
<1>6. CASE StartRun(r)
  BY <1>6 DEF StartRun
<1>7. CASE EmitEvent(r)
  BY <1>7 DEF EmitEvent, dbVars
<1> QED
  BY <1>1, <1>2, <1>3, <1>4, <1>5, <1>6, <1>7 DEF RouteStep, Progress

LEMMA DbKeepsAsked ==
  ASSUME NEW r \in Requests, ServerInv, Asked,
         \/ (Checkout(r) \/ TrackStep(r)) /\ UNCHANGED <<sesVars, srvVars>>
         \/ SessionStep(r) /\ UNCHANGED srvVars
  PROVE  Asked'
<1>1. PICK p \in Onward(phase[r]) : /\ phase' = [phase EXCEPT ![r] = p]
                                    /\ caller' = caller /\ sesArg' = sesArg
                                    /\ UNCHANGED srvVars
  BY DbOnward
<1>2. /\ p = "done" <=> phase[r] = "done"
      /\ p = "idle" <=> phase[r] = "idle"
      /\ p \in {"touch", "create"} => p = phase[r]
  BY DEF Onward, ServerInv, ServerTypes, Phases
<1>3. result' = [q \in Requests |-> result'[q]]
  <2>1. CASE SelectSessions(r)
    <3>1. \E rows : result' = [result EXCEPT ![r] = rows]
      BY <2>1, Zenon DEF SelectSessions
    <3> QED
      BY <3>1 DEF Asked
  <2>2. CASE InsertSession(r) \/ InsertNothing(r)
    BY <2>2 DEF InsertSession, InsertNothing, Asked
  <2>3. CASE ~(SelectSessions(r) \/ InsertSession(r) \/ InsertNothing(r))
    <3>1. result' = result
      BY <2>3 DEF SessionStep, SessionProgress, InsertConflict, TouchRow, TouchNothing,
                  CommitSession, CommitSessionUnknown, FailSession, sesVars
    <3> QED
      BY <3>1 DEF Asked
  <2> QED
    BY <2>1, <2>2, <2>3
<1>4. \A q \in Requests : /\ phase'[q] = "done" <=> phase[q] = "done"
                          /\ phase'[q] = "idle" <=> phase[q] = "idle"
                          /\ phase'[q] \in {"touch", "create"} => phase'[q] = phase[q]
  BY <1>1, <1>2 DEF ServerInv, ServerTypes
<1>5. UNCHANGED <<sesArg, before, route, owner, body, answer>>
  BY <1>1 DEF srvVars
<1> QED
  BY <1>3, <1>4, <1>5 DEF Asked

LEMMA CrashKeepsAsked ==
  ASSUME ServerInv, Asked, Crash
  PROVE  Asked'
<1>1. \A r \in Requests : phase'[r] = IF phase[r] = "idle" THEN "idle" ELSE "done"
  BY DEF Crash, InFlight, ServerInv, ServerTypes
<1> QED
  BY <1>1 DEF Asked, Crash, Answers

(* How a step of the server is a step of one request, or a restart.        *)
LEMMA ServerSteps ==
  ASSUME ServerNext
  PROVE  \/ UNCHANGED vars \/ Crash
         \/ \E r \in Requests :
               \/ RouteStep(r)
               \/ (Checkout(r) \/ TrackStep(r)) /\ UNCHANGED <<sesVars, srvVars>>
               \/ SessionStep(r) /\ UNCHANGED srvVars
BY DEF ServerNext, Quiet, RouteStep, DbProgress, Failure, TrackStep, SessionStep

LEMMA AskedStep ==
  ASSUME ServerInv, Asked, [ServerNext]_vars
  PROVE  Asked'
<1>1. CASE UNCHANGED vars
  BY <1>1 DEF vars, dbVars, sesVars, srvVars, Asked
<1> QED
  BY <1>1, ServerSteps, RouteKeepsAsked, DbKeepsAsked, CrashKeepsAsked

LEMMA AskedInvariant == ServerSpec => []Asked
<1>1. ServerInv /\ Asked /\ [ServerNext]_vars => Asked'
  BY AskedStep
<1> QED
  BY <1>1, AskedInit, ServerInvariant, PTL DEF ServerSpec

(* The types of what ServerTypes and Asked leave open.                     *)
Inputs ==
    /\ route \in [Requests -> Routes \cup {"none"}] /\ body \in [Requests -> Bodies]
    /\ sesArg \in [Requests -> Nat \cup Names \cup {NoName}]
    /\ activeRun \in [Requests -> Run \cup {NoRun}]
    /\ emitted \in [Requests -> SUBSET Run]
    /\ crashes \in 0..MaxCrashes

LEMMA InputsInit == ServerInit => Inputs
BY InputAssumption DEF ServerInit, SesInit, Inputs, Bodies

(* A run is a request's turn on a thread, and only runs are streamed.      *)
LEMMA RunTyped ==
  ASSUME ServerInv, NEW r \in Requests
  PROVE  /\ phase[r] = "touched" => [turn |-> r, thread |-> ThreadOf(r)] \in Run
         /\ phase[r] = "stream" => activeRun[AgentOf(r)] \in Run
<1>1. CASE phase[r] \in {"touched", "stream"}
  <2>1. owner[r] \in Users /\ caller[r] = owner[r] /\ body[r] \in RawIds
    BY <1>1 DEF ServerInv, Identified, OnRoute
  <2>2. ThreadKey(owner[r], body[r]) \in Threads
    BY <2>1 DEF Threads
  <2>3. phase[r] = "stream" => activeRun[r] = OwnRun(r)
    BY DEF ServerInv, StreamsOwn
  <2> QED
    BY <2>1, <2>2, <2>3 DEF OwnRun, Run, ThreadOf, AgentOf
<1> QED
  BY <1>1

LEMMA RouteKeepsInputs ==
  ASSUME NEW r \in Requests, ServerInv, Inputs, RouteStep(r)
  PROVE  Inputs'
<1> USE DEF Inputs, sesVars, srvVars
<1>1. CASE Unauthenticated(r) \/ Refuse(r)
  BY <1>1 DEF Unauthenticated, Refuse
<1>2. ASSUME NEW u \in Users, NEW p \in Routes, NEW b \in BodiesOf(p), Admit(r, u, p, b)
      PROVE  Inputs'
  <2>1. b \in Bodies
    BY InputAssumption DEF BodiesOf, Bodies
  <2> QED
    BY <1>2, <2>1 DEF Admit
<1>3. CASE Dispatch(r)
  BY <1>3 DEF Dispatch
<1>4. CASE CallList(r) \/ CallCreate(r) \/ CallTouch(r)
  <2>1. PICK arg \in Nat \cup Names \cup {NoName} : sesArg' = [sesArg EXCEPT ![r] = arg]
    BY <1>4, InputAssumption DEF CallList, CallCreate, CallTouch, CallSessions
  <2>2. UNCHANGED srvVars
    BY <1>4 DEF CallList, CallCreate, CallTouch, CallSessions
  <2> QED
    BY <2>1, <2>2
<1>5. CASE RejectBody(r) \/ AnswerSessions(r) \/ EndRun(r) \/ BreakRun(r)
  BY <1>5 DEF RejectBody, AnswerSessions, EndRun, BreakRun, Answer
<1>6. CASE StartRun(r)
  <2>1. [turn |-> r, thread |-> ThreadOf(r)] \in Run
    BY <1>6, RunTyped DEF StartRun
  <2> QED
    BY <1>6, <2>1 DEF StartRun
<1>7. CASE EmitEvent(r)
  <2>1. activeRun[AgentOf(r)] \in Run
    BY <1>7, RunTyped DEF EmitEvent
  <2> QED
    BY <1>7, <2>1 DEF EmitEvent
<1> QED
  BY <1>1, <1>2, <1>3, <1>4, <1>5, <1>6, <1>7 DEF RouteStep, Progress

LEMMA InputsStep ==
  ASSUME ServerInv, Inputs, [ServerNext]_vars
  PROVE  Inputs'
<1>1. CASE UNCHANGED vars
  BY <1>1 DEF vars, sesVars, srvVars, Inputs
<1>2. CASE Crash
  <2>1. MaxCrashes \in Nat
    BY InputAssumption
  <2>2. crashes' \in 0..MaxCrashes
    BY <1>2, <2>1 DEF Crash, Inputs
  <2> QED
    BY <1>2, <2>2 DEF Crash, Inputs
<1>3. ASSUME NEW r \in Requests,
             \/ (Checkout(r) \/ TrackStep(r)) /\ UNCHANGED <<sesVars, srvVars>>
             \/ SessionStep(r) /\ UNCHANGED srvVars
      PROVE  Inputs'
  <2>1. sesArg' = sesArg /\ UNCHANGED srvVars
    BY <1>3, DbOnward
  <2> QED
    BY <2>1 DEF Inputs, srvVars
<1> QED
  BY <1>1, <1>2, <1>3, ServerSteps, RouteKeepsInputs

LEMMA InputsInvariant == ServerSpec => []Inputs
<1>1. ServerInv /\ Inputs /\ [ServerNext]_vars => Inputs'
  BY InputsStep
<1> QED
  BY <1>1, InputsInit, ServerInvariant, PTL DEF ServerSpec

KeyOf(r) == ThreadKey(owner[r], body[r])

(* No other chat of the thread was in flight beside q's.                   *)
Alone(q) == \A x \in Requests \ {q} : SameThread(x, q) => ~Overlap(x, q)

(* A turn that ran alone on its thread stays in its checkpoint, and every  *)
(* later run of the thread has loaded it.                                  *)
Carried ==
    \A q \in Requests : route[q] = "chat" /\ answer[q] = "ok" =>
        /\ KeyOf(q) \in Threads
        /\ Alone(q) =>
              /\ q \in ToSet(checkpoints[KeyOf(q)])
              /\ \A r \in Requests :
                    SameThread(q, r) /\ q \in before[r] /\ phase[r] = "stream"
                    => q \in ToSet(loaded[r])

(* Steps that end no run, start none and admit no one.                     *)
LEMMA CarriedOn ==
  ASSUME ServerInv, Carried,
         UNCHANGED <<route, owner, body, before, checkpoints, loaded>>,
         \A q \in Requests : route[q] = "chat" /\ answer'[q] = "ok" => answer[q] = "ok",
         \A q \in Requests : phase'[q] = "stream" => phase[q] = "stream"
  PROVE  Carried'
BY DEF Carried, Alone, SameThread, Overlap, KeyOf

LEMMA AdmitCarries ==
  ASSUME ServerInv, Asked, Carried, NEW r \in Requests, NEW u \in Users, NEW p, NEW b,
         Admit(r, u, p, b)
  PROVE  Carried'
<1>1. /\ phase[r] = "idle" /\ route[r] = "none" /\ answer[r] = "none" /\ phase'[r] = "admitted"
      /\ \A q \in Requests \ {r} : /\ route'[q] = route[q] /\ owner'[q] = owner[q]
                                   /\ body'[q] = body[q] /\ before'[q] = before[q]
                                   /\ phase'[q] = phase[q]
      /\ UNCHANGED <<answer, checkpoints, loaded>>
  BY DEF Admit, ServerInv, ServerTypes, Asked
<1> SUFFICES ASSUME NEW q \in Requests, route'[q] = "chat", answer'[q] = "ok"
             PROVE  /\ KeyOf(q)' \in Threads
                    /\ Alone(q)' =>
                          /\ (q \in ToSet(checkpoints[KeyOf(q)]))'
                          /\ \A x \in Requests :
                                (SameThread(q, x) /\ q \in before[x] /\ phase[x] = "stream"
                                 => q \in ToSet(loaded[x]))'
  BY DEF Carried
<1>2. q # r
  BY <1>1
<1>3. KeyOf(q)' = KeyOf(q) /\ KeyOf(q) \in Threads
  BY <1>1, <1>2 DEF KeyOf, ThreadKey, Carried
<1>4. \A x \in Requests \ {r} : /\ SameThread(x, q)' <=> SameThread(x, q)
                                /\ SameThread(q, x)' <=> SameThread(q, x)
                                /\ Overlap(x, q)' <=> Overlap(x, q)
  BY <1>1, <1>2 DEF SameThread, Overlap
<1>5. Alone(q)' => Alone(q)
  BY <1>1, <1>4 DEF Alone, SameThread
<1> QED
  BY <1>1, <1>2, <1>3, <1>4, <1>5 DEF Carried

(* A run starts from its thread's checkpoint, which has the turn.          *)
LEMMA StartCarries ==
  ASSUME ServerInv, Carried, NEW r \in Requests, StartRun(r)
  PROVE  Carried'
<1>1. /\ phase[r] = "touched" /\ loaded' = [loaded EXCEPT ![r] = checkpoints[KeyOf(r)]]
      /\ phase' = [phase EXCEPT ![r] = "stream"]
      /\ UNCHANGED <<route, owner, body, before, answer, checkpoints>>
  <2>1. phase[r] = "touched" /\ caller[r] = owner[r]
    BY DEF StartRun, ServerInv, Identified
  <2> QED
    BY <2>1 DEF StartRun, ThreadOf, KeyOf
<1>2. /\ loaded'[r] = checkpoints[KeyOf(r)]
      /\ \A q \in Requests \ {r} : loaded'[q] = loaded[q] /\ phase'[q] = phase[q]
  BY <1>1 DEF ServerInv, ServerTypes
<1>3. \A q \in Requests : SameThread(q, r) => KeyOf(q) = KeyOf(r)
  BY DEF SameThread, KeyOf
<1>4. \A q, x \in Requests : /\ SameThread(q, x)' <=> SameThread(q, x)
                             /\ Overlap(q, x)' <=> Overlap(q, x)
  BY <1>1 DEF SameThread, Overlap
<1>5. \A q \in Requests : KeyOf(q)' = KeyOf(q) /\ (Alone(q)' <=> Alone(q))
  BY <1>1, <1>4 DEF KeyOf, ThreadKey, Alone
<1> QED
  BY <1>1, <1>2, <1>3, <1>4, <1>5 DEF Carried

(* A run saves what it loaded and its own turn.                            *)
LEMMA EndCarries ==
  ASSUME ServerInv, Asked, Carried, NEW r \in Requests, EndRun(r) \/ BreakRun(r)
  PROVE  Carried'
<1>1. /\ phase[r] = "stream" /\ route[r] = "chat" /\ KeyOf(r) \in Threads
      /\ activeRun[r] = OwnRun(r)
  BY DEF EndRun, BreakRun, ServerInv, OnRoute, Identified, StreamsOwn, KeyOf, Threads
<1>2. /\ phase' = [phase EXCEPT ![r] = "done"]
      /\ UNCHANGED <<route, owner, body, before, loaded>>
      /\ \A q \in Requests \ {r} : answer'[q] = answer[q]
  BY DEF EndRun, BreakRun, Answer, Asked
<1>3. /\ \/ checkpoints' = [checkpoints EXCEPT ![KeyOf(r)] = Append(loaded[r], r)]
         \/ checkpoints' = checkpoints /\ answer'[r] # "ok"
      /\ loaded[r] \in Seq(Requests) /\ checkpoints \in [Threads -> Seq(Requests)]
  <2>1. Saved(r) = [checkpoints EXCEPT ![KeyOf(r)] = Append(loaded[r], r)]
    <3>1. activeRun[r].thread = KeyOf(r)
      BY <1>1 DEF OwnRun, KeyOf
    <3> QED
      BY <3>1 DEF Saved, AgentOf
  <2>2. EndRun(r) => checkpoints' = Saved(r)
    BY DEF EndRun
  <2>3. BreakRun(r) => checkpoints' \in {checkpoints, Saved(r)} /\ answer'[r] = "broken"
    BY DEF BreakRun, Answer, Asked
  <2> QED
    BY <2>1, <2>2, <2>3 DEF ServerInv, ServerTypes
<1>4. \A x \in Requests : x \in ToSet(Append(loaded[r], r)) <=> x = r \/ x \in ToSet(loaded[r])
  <2>1. /\ Len(Append(loaded[r], r)) = Len(loaded[r]) + 1
        /\ Append(loaded[r], r)[Len(loaded[r]) + 1] = r
        /\ \A i \in 1..Len(loaded[r]) : Append(loaded[r], r)[i] = loaded[r][i]
        /\ DOMAIN Append(loaded[r], r) = 1..(Len(loaded[r]) + 1)
        /\ DOMAIN loaded[r] = 1..Len(loaded[r]) /\ Len(loaded[r]) \in Nat
    BY <1>3
  <2> QED
    BY <2>1 DEF ToSet
<1>5. \A q, x \in Requests : /\ SameThread(q, x)' <=> SameThread(q, x)
                             /\ Overlap(q, x)' <=> Overlap(q, x)
  BY <1>2 DEF SameThread, Overlap
<1>6. \A q \in Requests : KeyOf(q)' = KeyOf(q) /\ (Alone(q)' <=> Alone(q))
  BY <1>2, <1>5 DEF KeyOf, ThreadKey, Alone
<1>7. \A x \in Requests : /\ r \notin before[x]
                          /\ phase'[x] = "stream" => phase[x] = "stream" /\ x # r
  BY <1>1, <1>2 DEF Asked, ServerInv, ServerTypes
<1> SUFFICES ASSUME NEW q \in Requests, route[q] = "chat", answer'[q] = "ok"
             PROVE  /\ KeyOf(q) \in Threads
                    /\ Alone(q) =>
                          /\ q \in ToSet(checkpoints'[KeyOf(q)])
                          /\ \A x \in Requests :
                                SameThread(q, x) /\ q \in before[x] /\ phase'[x] = "stream"
                                => q \in ToSet(loaded[x])
  BY <1>2, <1>5, <1>6 DEF Carried
<1>8. CASE q = r
  BY <1>1, <1>3, <1>4, <1>7, <1>8
<1>9. CASE q # r
  <2>1. /\ answer[q] = "ok" /\ KeyOf(q) \in Threads
        /\ Alone(q) => /\ q \in ToSet(checkpoints[KeyOf(q)])
                       /\ \A x \in Requests :
                             SameThread(q, x) /\ q \in before[x] /\ phase[x] = "stream"
                             => q \in ToSet(loaded[x])
    BY <1>2, <1>9 DEF Carried
  <2>2. ASSUME Alone(q), KeyOf(q) = KeyOf(r)
        PROVE  q \in ToSet(loaded[r])
    <3>1. SameThread(q, r) /\ SameThread(r, q)
      BY <1>1, <2>2 DEF SameThread, KeyOf, ThreadKey
    <3>2. r \notin before[q]
      BY <1>7
    <3>3. q \in before[r]
      BY <1>9, <2>2, <3>1, <3>2 DEF Alone, Overlap
    <3> QED
      BY <1>1, <2>1, <2>2, <3>1, <3>3
  <2> QED
    BY <1>1, <1>3, <1>4, <1>7, <2>1, <2>2
<1> QED
  BY <1>8, <1>9

LEMMA CarriedStep ==
  ASSUME ServerInv, Asked, Carried, [ServerNext]_vars
  PROVE  Carried'
<1> USE DEF sesVars, srvVars
<1>1. CASE UNCHANGED vars
  BY <1>1, CarriedOn DEF vars, dbVars
<1>2. CASE Crash
  BY <1>2, CarriedOn DEF Crash, InFlight
<1>3. ASSUME NEW r \in Requests,
             \/ (Checkout(r) \/ TrackStep(r)) /\ UNCHANGED <<sesVars, srvVars>>
             \/ SessionStep(r) /\ UNCHANGED srvVars
      PROVE  Carried'
  <2>1. PICK p \in Onward(phase[r]) : phase' = [phase EXCEPT ![r] = p] /\ UNCHANGED srvVars
    BY <1>3, DbOnward
  <2>2. p = "stream" <=> phase[r] = "stream"
    BY DEF Onward
  <2>3. \A q \in Requests : phase'[q] = "stream" => phase[q] = "stream"
    BY <2>1, <2>2 DEF ServerInv, ServerTypes
  <2> QED
    BY <2>1, <2>3, CarriedOn
<1>4. ASSUME NEW r \in Requests, RouteStep(r)
      PROVE  Carried'
  <2>1. CASE \E u \in Users, p \in Routes : \E b \in BodiesOf(p) : Admit(r, u, p, b)
    BY <2>1, AdmitCarries
  <2>2. CASE StartRun(r) \/ EndRun(r) \/ BreakRun(r)
    BY <2>2, StartCarries, EndCarries
  <2>3. CASE \/ Unauthenticated(r) \/ Refuse(r) \/ Dispatch(r) \/ EmitEvent(r)
             \/ CallList(r) \/ CallCreate(r) \/ CallTouch(r)
    <3>1. /\ UNCHANGED <<route, owner, body, before, checkpoints, loaded>>
          /\ \A q \in Requests : phase'[q] = "stream" => phase[q] = "stream"
      BY <2>3 DEF Unauthenticated, Refuse, Dispatch, EmitEvent, CallList, CallCreate, CallTouch,
                  CallSessions, Enter, dbVars, ServerInv, ServerTypes
    <3>2. \A q \in Requests : route[q] = "chat" /\ answer'[q] = "ok" => answer[q] = "ok"
      BY <2>3 DEF Unauthenticated, Refuse, Dispatch, EmitEvent, CallList, CallCreate, CallTouch,
                  CallSessions, Asked
    <3> QED
      BY <3>1, <3>2, CarriedOn
  <2>4. CASE RejectBody(r) \/ AnswerSessions(r)
    <3>1. \E a : Answer(r, a) /\ (route[r] = "chat" => a = "bad_request")
      BY <2>4 DEF RejectBody, AnswerSessions, ServerInv, OnRoute
    <3>2. UNCHANGED <<checkpoints, loaded>>
      BY <2>4 DEF RejectBody, AnswerSessions
    <3> QED
      BY <3>1, <3>2, CarriedOn DEF Answer, ServerInv, ServerTypes, Asked
  <2> QED
    BY <1>4, <2>1, <2>2, <2>3, <2>4 DEF RouteStep, Progress
<1> QED
  BY <1>1, <1>2, <1>3, <1>4, ServerSteps

(* A conversation goes on from every turn that was answered and ran alone, *)
(* for any number of later turns, restarts and failures between (the       *)
(* checkpointer under the thread id user:session).                         *)
THEOREM ConversationsContinue == ServerSpec => []ConversationContinues
<1>1. ServerInit => Carried
  BY DEF ServerInit, Carried
<1>2. ServerInv /\ Asked /\ Carried /\ [ServerNext]_vars => Carried'
  BY CarriedStep
<1>3. Carried => ConversationContinues
  BY DEF Carried, Alone, SameThread, ConversationContinues
<1> QED
  BY <1>1, <1>2, <1>3, ServerInvariant, AskedInvariant, PTL DEF ServerSpec

=============================================================================
