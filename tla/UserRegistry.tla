---------------------------- MODULE UserRegistry ----------------------------
(***************************************************************************)
(* What user_registry promises to everything that refers to it, whatever   *)
(* track_user()'s callers do at the same time: users appear one at a time, *)
(* each under an id nobody else ever had, with first_seen_at equal to      *)
(* last_seen_at; from then on only last_seen_at changes.                   *)
(***************************************************************************)
EXTENDS Naturals

CONSTANTS Users, Rows0

VARIABLE rows

Present(u) == rows[u].id # 0

Appear(u) ==
    /\ ~Present(u)
    /\ rows'[u].id # 0
    /\ rows'[u].first = rows'[u].last
    /\ \A v \in Users \ {u} : rows[v].id # rows'[u].id

See(u) ==
    /\ Present(u)
    /\ rows'[u].id = rows[u].id
    /\ rows'[u].first = rows[u].first

Next ==
    \E u \in Users :
        /\ Appear(u) \/ See(u)
        /\ \A v \in Users \ {u} : rows'[v] = rows[v]

Spec == rows = Rows0 /\ [][Next]_rows
=============================================================================
