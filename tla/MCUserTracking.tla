--------------------------- MODULE MCUserTracking ---------------------------
(***************************************************************************)
(* A small instance of UserTracking: two of the three requests must share  *)
(* a user or a connection; bob is known from an earlier run, ann and cat   *)
(* are new.                                                                *)
(***************************************************************************)
EXTENDS UserTracking

CONSTANTS r1, r2, r3, ann, bob, cat, nobody

MCPast == 5
MCRegistry0 ==
    [u \in {ann, bob, cat} |-> IF u = bob THEN [id |-> 3, first |-> 2, last |-> 5]
                                     ELSE NoRow]
=============================================================================
