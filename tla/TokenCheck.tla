----------------------------- MODULE TokenCheck -----------------------------
(***************************************************************************)
(* authenticate_request() of auth.py, as AuthMiddleware calls it for every *)
(* request: the signing key of the token is looked up in the key set that  *)
(* the one PyJWKClient of the process has cached, which asks Auth0 when it *)
(* has none or does not know the key.  There is no await in it: from the   *)
(* look-up to the verdict no other request of the process runs, and a slow *)
(* Auth0 delays them all.                                                  *)
(*                                                                         *)
(* External: Auth0 replaces its signing keys; PyJWKClient forgets its set  *)
(* after five minutes, and may forget it when it could not fetch another.  *)
(***************************************************************************)
EXTENDS FiniteSets

CONSTANT Keys    \* signing keys Auth0 ever uses

VARIABLES
    published,   \* the keys Auth0 signs with and shows in its key set
    cache,       \* the key set the process has cached, {} for none
    configured,  \* AUTH0_DOMAIN and AUTH0_AUDIENCE are set
    verdict      \* the last token and what became of it

tokenVars == <<published, cache, configured, verdict>>

Claims == {"good", "bad"}

NoVerdict == [answer |-> "none"]

Verdict == [key : Keys, claims : Claims, reachable : BOOLEAN, cached : BOOLEAN,
            current : BOOLEAN, answer : {"accepted", "refused", "error"}]

TokenInit ==
    /\ published \in (SUBSET Keys) \ {{}}
    /\ cache = {} /\ configured \in BOOLEAN
    /\ verdict = NoVerdict

-----------------------------------------------------------------------------

(* Mutant of KeysAsked: a PyJWKClient for every request.                   *)
KeysAskedAnew(k, reachable) == IF reachable THEN {published} ELSE {{}}

(* What get_signing_key_from_jwt() looks for k in, and leaves in the cache. *)
KeysAsked(k, reachable) ==
    IF k \in cache THEN {cache}
    ELSE IF reachable THEN {published} ELSE {{}, cache}

(* A token signed with k arrives.  Without its two variables the function  *)
(* raises RuntimeError, which the middleware does not catch: status 500.   *)
(* What PyJWT raises, a failed fetch included, and a missing sub are 401.  *)
Verify(k, claims, reachable) ==
    /\ cache' \in IF configured THEN KeysAsked(k, reachable) ELSE {cache}
    /\ verdict' =
          [key |-> k, claims |-> claims, reachable |-> reachable,
           cached |-> k \in cache, current |-> k \in published,
           answer |-> IF ~configured THEN "error"
                      ELSE IF k \in cache' /\ claims = "good" THEN "accepted"
                           ELSE "refused"]
    /\ UNCHANGED <<published, configured>>

Rotate(keys) ==
    /\ published' = keys
    /\ UNCHANGED <<cache, configured, verdict>>

Expire ==
    /\ cache' = {}
    /\ UNCHANGED <<published, configured, verdict>>

(* A new process knows no key and has an environment of its own.           *)
TokenStart(env) ==
    /\ cache' = {} /\ configured' = env
    /\ UNCHANGED <<published, verdict>>
=============================================================================
