-------------------------------- MODULE MCS3 --------------------------------
(***************************************************************************)
(* A small bucket: a file, one with "\r\n" and "\r" line ends and a        *)
(* directory marker under the root "r", a file that is not text, and a     *)
(* file of another root whose name begins alike.  The maintainer syncs a   *)
(* file that the agent writes too.                                         *)
(***************************************************************************)
EXTENDS S3Properties

CONSTANTS w1, w2, nobody, notext

MCDocsRoot == <<"bucket", "/", "r">>
MCSyncDest == <<"bucket", "/", "r", "/">>
MCSyncFiles == [f \in {<<"n", "/", "h">>} |-> <<"y">>]

MCKeys0 == {<<"r", "/", "g">>, <<"r", "/", "d", "/", "f">>, <<"r", "/", "d", "/">>,
            <<"r", "/", "b">>, <<"r", "b", "/", "g">>}

MCObjects0 ==
    [k \in MCKeys0 |->
        CASE IsMarker(k) -> <<>>
          [] Last(k) = "f" -> <<"x", "\r\n", "y", "\r", "y", "\r\n", "x">>
          [] Last(k) = "b" -> <<"z">>
          [] OTHER -> <<"x">>]

(* A file, one in a directory without leading slash, one that is new, a    *)
(* directory, and a directory with a doubled slash.                        *)
MCPaths == {<<"/", "g">>, <<"d", "/", "f">>, <<"/", "n", "/", "h">>, <<"/", "d", "/">>,
            <<"/", "/", "d">>}

MCTexts == {<<"x", "\n", "y", "\n", "y">>}

(* A word, and three lines.                                                *)
MCOlds == {<<"x">>, <<"x", "\r\n", "y", "\r", "y">>}
MCNews == {<<"y", "\r", "y">>}

ASSUME MCSyncsRoot == SyncsRoot

Symmetric == Permutations(Workers)
=============================================================================
