------------------------------ MODULE MCServer ------------------------------
(***************************************************************************)
(* Small instances of the web server.  Bob is known from an earlier run    *)
(* and owns session 1; ann is new.                                         *)
(***************************************************************************)
EXTENDS ServerProperties

CONSTANTS r1, r2, r3, ann, bob, nobody, trip, work, noname, toolong

MCPast == 4
MCRegistry0 ==
    [u \in Users |-> IF u = bob THEN [id |-> 3, first |-> 2, last |-> 4]
                                     ELSE NoRow]
MCSessions0 == {[id |-> 1, reg |-> 3, name |-> trip, access |-> 3]}

(* Two spellings of one session id, and one raw id int() refuses.          *)
MCRawIds == {"1", "01", "abc"}
MCIntOf == [raw \in {"1", "01"} |-> 1]

(* One session id and one raw id int() refuses.                            *)
MCFewRawIds == {"1", "abc"}
MCFewInts == [raw \in {"1"} |-> 1]
=============================================================================
