------------------------------ MODULE S3Paths ------------------------------
(***************************************************************************)
(* How s3_backend.py maps the agent's virtual paths to keys of the bucket  *)
(* and back, and the two listings it asks the store for.  A path or a key  *)
(* is a sequence of pieces: "/" and fragments of names, which join when    *)
(* they are neighbours: <<"d", "x", "/", "f">> is "dx/f".                  *)
(***************************************************************************)
EXTENDS Naturals, SequencesExt

CONSTANTS
    DocsRoot,    \* INSURANCE_DOCS_ROOT without "s3://": bucket, "/", prefix
    SyncDest     \* S3_DEST of sync-docs.sh without "s3://"

ASSUME UriAssumption ==
    /\ DocsRoot \in Seq(STRING) \ {<<>>} /\ SyncDest \in Seq(STRING) \ {<<>>}

(* str.lstrip("/") and str.strip("/")                                      *)
LeadingSlashes(s) == Max({n \in 0..Len(s) : \A i \in 1..n : s[i] = "/"})

LStrip(s) == SubSeq(s, LeadingSlashes(s) + 1, Len(s))

Strip(s) == Reverse(LStrip(Reverse(LStrip(s))))

EndsWithSlash(s) == s # <<>> /\ Last(s) = "/"

(* urlsplit(uri).path: what follows the bucket, from the first slash on.   *)
UriPath(uri) ==
    LET slashes == {i \in DOMAIN uri : uri[i] = "/"}
    IN  IF slashes = {} THEN <<>> ELSE SubSeq(uri, Min(slashes), Len(uri))

(* self.prefix, of the prefix that _create_insurance_backend() passes.     *)
prefix == Strip(LStrip(UriPath(DocsRoot)))

(* "${s3_dest%/}/" and the name of a file in the source directory: the key *)
(* s3cmd sync uploads that file to.                                        *)
SyncKey(file) ==
    LET dest == IF EndsWithSlash(SyncDest) THEN Front(SyncDest) ELSE SyncDest
    IN  Tail(UriPath(dest \o <<"/">>)) \o file

(* Mutant of RootPrefix: the separator is forgotten.                       *)
RootPrefixOpen == prefix

(* The prefix all keys of this backend start with.                         *)
RootPrefix == IF prefix = <<>> THEN <<>> ELSE prefix \o <<"/">>

(* A path of the agent to a key.                                           *)
KeyFor(path) == RootPrefix \o LStrip(path)

(* Mutant of PathFor: the prefix stays in the path.                        *)
PathForWhole(key) == <<"/">> \o key

(* A key to a path of the agent.                                           *)
PathFor(key) ==
    IF IsPrefix(RootPrefix, key)
    THEN <<"/">> \o SubSeq(key, Len(RootPrefix) + 1, Len(key))
    ELSE <<"/">> \o (IF key = prefix THEN <<>> ELSE key)

(* Mutant of DirKeyPrefix: a directory named below a prefix loses it.      *)
DirKeyPrefixRootless(path) ==
    IF Strip(path) = <<>> THEN RootPrefix ELSE Strip(path) \o <<"/">>

(* A directory of the agent to the key prefix that lists it.               *)
DirKeyPrefix(path) ==
    IF Strip(path) = <<>> THEN RootPrefix ELSE RootPrefix \o Strip(path) \o <<"/">>

(* An object that only marks a directory.                                  *)
IsMarker(key) == EndsWithSlash(key)

(* list_objects_v2 with Delimiter="/": what it folds into common prefixes, *)
(* and what it lists as contents.                                          *)
Below(keys, dir) == {k \in keys : IsPrefix(dir, k)}

Slashes(k, dir) == {i \in Len(dir) + 1 .. Len(k) : k[i] = "/"}

CommonPrefixesOf(keys, dir) ==
    {SubSeq(k, 1, Min(Slashes(k, dir))) : k \in {j \in Below(keys, dir) : Slashes(j, dir) # {}}}

ContentsOf(keys, dir) == {k \in Below(keys, dir) : Slashes(k, dir) = {}}

(* Entries of ls(): directories and files, by virtual path.                *)
LsDirs(keys, path) == {PathFor(c) : c \in CommonPrefixesOf(keys, DirKeyPrefix(path))}

LsFiles(keys, path) ==
    {PathFor(k) : k \in ContentsOf(keys, DirKeyPrefix(path)) \ {DirKeyPrefix(path)}}

(* What grep and glob go through: every object of the root but markers.    *)
SearchedKeys(keys) == {k \in Below(keys, RootPrefix) : ~IsMarker(k)}
=============================================================================
