--------------------------- MODULE SessionCatalog ---------------------------
(***************************************************************************)
(* What both session tables of the repository promise, user_sessions of    *)
(* the web server and sessions of the local program: a catalog of          *)
(* conversations by owner and name.  An entry, once there, stays as it is  *)
(* for ever; a new one has a new id, and a name its owner has not used.    *)
(* When a session was last accessed is not part of the catalog.            *)
(***************************************************************************)
VARIABLE catalog    \* a set of entries [id, owner, name]

Clash(e, f) == e.id = f.id \/ (e.owner = f.owner /\ e.name = f.name)

CatalogInit == \A e, f \in catalog : Clash(e, f) => e = f

Create ==
    \E e \in catalog' :
        /\ \A f \in catalog : ~Clash(e, f)
        /\ catalog' = catalog \cup {e}

CatalogSpec == CatalogInit /\ [][Create]_catalog
=============================================================================
