---------------------------- MODULE ServerProcess ----------------------------
(***************************************************************************)
(* A process with the tokens it verifies while it serves: Startup and      *)
(* TokenCheck with one Auth0 that may be down or change its keys, and a    *)
(* process that loses what it has cached when it is started again.         *)
(***************************************************************************)
EXTENDS Startup, TokenCheck

procVars == <<startVars, tokenVars>>

ProcInit == StartInit /\ TokenInit

(* Requests reach the middleware while the lifespan is at its yield.       *)
Request(k, claims) ==
    /\ host = "server" /\ stage = "serving"
    /\ Verify(k, claims, Up("auth0"))
    /\ UNCHANGED startVars

ProcNext ==
    \/ \E h \in Hosts, env \in BOOLEAN : Launch(h) /\ TokenStart(env)
    \/ StartProgress /\ UNCHANGED tokenVars
    \/ (Stop \/ Kill) /\ UNCHANGED tokenVars
    \/ \E service \in Services :
          (GoesDown(service) \/ ComesBack(service)) /\ UNCHANGED tokenVars
    \/ \E k \in Keys, claims \in Claims : Request(k, claims)
    \/ \E keys \in SUBSET Keys : keys # {} /\ Rotate(keys) /\ UNCHANGED startVars
    \/ Expire /\ UNCHANGED startVars

ProcSpec == ProcInit /\ [][ProcNext]_procVars

(* The process runs, and what it awaits succeeds or raises.                *)
ProcFairSpec == ProcSpec /\ WF_procVars(StartProgress /\ UNCHANGED tokenVars)

-----------------------------------------------------------------------------

(* Every variable stays in its type.                                       *)
ProcTypeOK ==
    /\ host \in Hosts /\ stage \in Stages /\ starts \in 0..MaxStarts
    /\ client \in Nat /\ tools \in Nat /\ pool \in BOOLEAN
    /\ \A g \in {instance, agent} : g.tools \in Nat /\ g.saver \in {"none", "main"}
    /\ saver \in {"closed", "open", "ready", "dead"}
    /\ down \subseteq Services
    /\ published \subseteq Keys /\ cache \subseteq Keys
    /\ configured \in BOOLEAN /\ verdict \in Verdict \cup {NoVerdict}

(* A token of a current key with good claims is refused only while Auth0   *)
(* is down and only if its key was not cached: a key known to the process  *)
(* carries its users over an outage, a new key needs no restart.  A token  *)
(* is accepted only with good claims and a key that is, or when it was     *)
(* last asked for was, one of Auth0's.                                     *)
TokensJudged ==
    /\ verdict.answer = "refused" /\ verdict.claims = "good" /\ verdict.current =>
          ~verdict.reachable /\ ~verdict.cached
    /\ verdict.answer = "accepted" =>
          verdict.claims = "good" /\ (verdict.current \/ verdict.cached)
=============================================================================
