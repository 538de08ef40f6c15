------------------------------ MODULE S3Store ------------------------------
(***************************************************************************)
(* s3_backend.py: file tools of concurrent agent runs (each in a worker    *)
(* thread, asyncio.to_thread) over one bucket.  A worker w makes one call: *)
(*   "idle" -> "get" -> "done"              read                           *)
(*   "idle" -> "put" -> "done"              write                          *)
(*   "idle" -> "get" -> "put" -> "done"     edit                           *)
(*   "idle" -> "list" -> "done"             ls, glob                       *)
(*   "idle" -> "list" -> "scan" -> "done"   grep                           *)
(* Each step is one request to the store.  The boto3 client sends a put    *)
(* again when the answer is lost: it may be stored more than once before   *)
(* the call returns (that a copy arrives still later is left out).         *)
(*                                                                         *)
(* External: the store (a request is atomic, a read returns the last       *)
(* write; a failed put may have taken effect); perform_string_replacement, *)
(* grep_matches_from_files and _glob_search_files of deepagents.           *)
(* Abstracted: a text is a sequence of words and line ends; pagination,    *)
(* line ranges, base64, and the path and glob filters of grep and glob,    *)
(* which both search the whole root.                                       *)
(*                                                                         *)
(* Meanwhile a maintainer may run tools/sync-docs.sh, which uploads the    *)
(* files of a directory (s3cmd sync, external: it never deletes).          *)
(***************************************************************************)
EXTENDS S3Paths

CONSTANTS
    Workers,
    Calls,        \* the operations in use
    Paths,        \* paths the agent passes
    Texts,        \* texts the agent writes
    Words,        \* words the agent searches for
    Olds, News,   \* texts an edit looks for, and puts in their place
    Garbled,      \* words that are not UTF-8
    Resends,      \* how often boto3 sends a put again
    SyncFiles,    \* the source directory: a function from names to texts
    Objects0,     \* the bucket at first: a function from keys to texts
    NoWorker,     \* the writer of those
    NoText

StoreKeys == DOMAIN Objects0 \cup {KeyFor(p) : p \in Paths}
                             \cup {SyncKey(f) : f \in DOMAIN SyncFiles}

Operations == {"ls", "read", "write", "edit", "grep", "glob"}

ASSUME StoreAssumption ==
    /\ Calls \subseteq Operations
    /\ NoWorker \notin Workers /\ NoText \notin Texts
    /\ Resends \in Nat
    /\ Words \cap Garbled = {}
    /\ Paths \subseteq Seq(STRING)
    /\ \A names \in {DOMAIN Objects0, DOMAIN SyncFiles} : names \subseteq Seq(STRING)
    /\ \A k \in DOMAIN Objects0 : Objects0[k] \in Seq(STRING)
    /\ \A f \in DOMAIN SyncFiles : SyncFiles[f] \in Seq(STRING)
    /\ Texts \cup News \subseteq Seq(STRING)
    /\ Olds \subseteq Seq(STRING) \ {<<>>} /\ Words \subseteq STRING

VARIABLES
    versions,    \* versions[k]: all contents object k ever had, last one current
    pc,
    call,        \* call[w]: the operation and its arguments
    got,         \* got[w]: the content w has read
    todo,        \* todo[w]: keys grep has still to download
    found,       \* found[w]: paths listed, or paths and texts searched
    skipped,     \* skipped[w]: keys grep left out
    answer,      \* answer[w]: how the call ended
    since,       \* since[w][k]: versions of k when the call began
    until,       \* until[w][k]: versions of k when it ended
    synced       \* files sync-docs.sh has uploaded

callVars == <<call, since, synced>>
s3Vars == <<versions, pc, callVars, got, todo, found, skipped, answer, until>>

Count == [k \in StoreKeys |-> Len(versions[k])]

NoCall == [op |-> "none"]

S3Init ==
    /\ versions = [k \in StoreKeys |->
          IF k \in DOMAIN Objects0
          THEN <<[by |-> NoWorker, text |-> Objects0[k]]>> ELSE <<>>]
    /\ pc = [w \in Workers |-> "idle"]
    /\ call = [w \in Workers |-> NoCall]
    /\ got = [w \in Workers |-> NoText]
    /\ todo = [w \in Workers |-> {}]
    /\ found = [w \in Workers |-> {}]
    /\ skipped = [w \in Workers |-> {}]
    /\ answer = [w \in Workers |-> "none"]
    /\ since = [w \in Workers |-> Count]
    /\ until = [w \in Workers |-> Count]
    /\ synced = {}

-----------------------------------------------------------------------------

Objects == {k \in StoreKeys : versions[k] # <<>>}

(* Mutant of Current: a client that answers from its first download.       *)
CurrentCached(k) == versions[k][1].text

Current(k) == Last(versions[k]).text

Decodes(text) == ToSet(text) \cap Garbled = {}

(* A line end is one word of a text: "\r\n", "\r" or "\n".                 *)
CarriageReturns == {"\r\n", "\r"}

(* old_string and new_string: every line end becomes "\n".                 *)
Normalised(t) == [i \in DOMAIN t |-> IF t[i] \in CarriageReturns THEN "\n" ELSE t[i]]

(* What makes Places exact: no text of Olds overlaps itself, or begins     *)
(* with a line end (its "\n" would be found inside a "\r\n").              *)
ASSUME OldsAssumption ==
    \A t \in Olds :
        /\ t[1] \notin CarriageReturns \cup {"\n"}
        /\ \A n \in 1..Len(t) - 1 :
              SubSeq(Normalised(t), 1, n) # SubSeq(Normalised(t), Len(t) - n + 1, Len(t))

(* Where t occurs in a text.                                               *)
Places(text, t) ==
    {i \in 1..Len(text) - Len(t) + 1 : SubSeq(text, i, i + Len(t) - 1) = t}

Occurrences(text, t) == Cardinality(Places(text, t))

(* perform_string_replacement: when it returns a text and not a message.   *)
Replaces(c, text) ==
    LET n == Occurrences(text, Normalised(c.old)) IN n = 1 \/ (c.all /\ n > 1)

Replaced(c, text) ==
    LET at == Places(text, Normalised(c.old))
    IN  FlattenSeq([i \in DOMAIN text |->
            IF i \in at THEN Normalised(c.new)
            ELSE IF \E j \in at : j < i /\ i < j + Len(c.old) THEN <<>>
            ELSE <<text[i]>>])

KeyOf(w) == KeyFor(call[w].path)

(* The request an operation begins with.                                   *)
FirstRequest(o) ==
    IF o \in {"read", "edit"} THEN "get" ELSE IF o = "write" THEN "put" ELSE "list"

(* A tool calls an operation with arguments c.                             *)
Start(w, c) ==
    /\ pc[w] = "idle"
    /\ pc' = [pc EXCEPT ![w] = FirstRequest(c.op)]
    /\ call' = [call EXCEPT ![w] = c]
    /\ since' = [since EXCEPT ![w] = Count]
    /\ UNCHANGED <<versions, got, todo, found, skipped, answer, until, synced>>

(* The call returns.                                                       *)
Return(w, how) ==
    /\ pc' = [pc EXCEPT ![w] = "done"]
    /\ answer' = [answer EXCEPT ![w] = how]
    /\ until' = [until EXCEPT ![w] = [k \in StoreKeys |-> Len(versions'[k])]]

(* get_object answers NoSuchKey, a content that decodes, or one that does  *)
(* not (edit wants text; read returns a binary file as it is).             *)
GetMissing(w) ==
    /\ pc[w] = "get" /\ KeyOf(w) \notin Objects
    /\ UNCHANGED versions
    /\ Return(w, "missing")
    /\ UNCHANGED <<callVars, got, todo, found, skipped>>

ReadFile(w) ==
    /\ pc[w] = "get" /\ call[w].op = "read" /\ KeyOf(w) \in Objects
    /\ got' = [got EXCEPT ![w] = Current(KeyOf(w))]
    /\ UNCHANGED versions
    /\ Return(w, "ok")
    /\ UNCHANGED <<callVars, todo, found, skipped>>

EditGet(w) ==
    /\ pc[w] = "get" /\ call[w].op = "edit" /\ KeyOf(w) \in Objects
    /\ Decodes(Current(KeyOf(w))) /\ Replaces(call[w], Current(KeyOf(w)))
    /\ got' = [got EXCEPT ![w] = Current(KeyOf(w))]
    /\ pc' = [pc EXCEPT ![w] = "put"]
    /\ UNCHANGED <<versions, callVars, todo, found, skipped, answer, until>>

EditRefused(w) ==
    /\ pc[w] = "get" /\ call[w].op = "edit" /\ KeyOf(w) \in Objects
    /\ ~(Decodes(Current(KeyOf(w))) /\ Replaces(call[w], Current(KeyOf(w))))
    /\ UNCHANGED versions
    /\ Return(w, "refused")
    /\ UNCHANGED <<callVars, got, todo, found, skipped>>

(* The content w puts: write's own, or the edited one.                     *)
Body(w) == IF call[w].op = "write" THEN call[w].text ELSE Replaced(call[w], got[w])

(* The store takes a put.                                                  *)
Stored(w) ==
    [versions EXCEPT ![KeyOf(w)] = Append(@, [by |-> w, text |-> Body(w)])]

Sent(w) == {i \in DOMAIN versions[KeyOf(w)] : versions[KeyOf(w)][i].by = w}

(* The store takes a put whose answer is lost: boto3 sends it again.       *)
PutAgain(w) ==
    /\ pc[w] = "put" /\ Cardinality(Sent(w)) < Resends
    /\ versions' = Stored(w)
    /\ UNCHANGED <<pc, callVars, got, todo, found, skipped, answer, until>>

PutOk(w) ==
    /\ pc[w] = "put"
    /\ versions' = Stored(w)
    /\ Return(w, "ok")
    /\ UNCHANGED <<callVars, got, todo, found, skipped>>

(* Mutant of PutFails: the error is dropped.                               *)
PutFailsQuietly(w) ==
    /\ pc[w] = "put"
    /\ versions' \in {versions, Stored(w)}
    /\ Return(w, "ok")
    /\ UNCHANGED <<callVars, got, todo, found, skipped>>

(* put_object raises, maybe after the store has taken the put.             *)
PutFails(w) ==
    /\ pc[w] = "put"
    /\ versions' \in {versions, Stored(w)}
    /\ Return(w, "error")
    /\ UNCHANGED <<callVars, got, todo, found, skipped>>

(* ls: the entries directly under the path.                                *)
Ls(w) ==
    /\ pc[w] = "list" /\ call[w].op = "ls"
    /\ found' = [found EXCEPT ![w] = LsFiles(Objects, call[w].path)]
    /\ UNCHANGED versions
    /\ Return(w, "ok")
    /\ UNCHANGED <<callVars, got, todo, skipped>>

(* glob: the paths of the root, from one listing.                          *)
Glob(w) ==
    /\ pc[w] = "list" /\ call[w].op = "glob"
    /\ found' = [found EXCEPT ![w] = {PathFor(k) : k \in SearchedKeys(Objects)}]
    /\ UNCHANGED versions
    /\ Return(w, "ok")
    /\ UNCHANGED <<callVars, got, todo, skipped>>

(* Mutant of GrepList: paths are downloaded in place of keys.              *)
GrepListPaths(w) ==
    /\ pc[w] = "list" /\ call[w].op = "grep"
    /\ todo' = [todo EXCEPT ![w] = {PathFor(k) : k \in SearchedKeys(Objects)}]
    /\ pc' = [pc EXCEPT ![w] = "scan"]
    /\ UNCHANGED <<versions, callVars, got, found, skipped, answer, until>>

(* grep: the listing first, then one download after another.               *)
GrepList(w) ==
    /\ pc[w] = "list" /\ call[w].op = "grep"
    /\ todo' = [todo EXCEPT ![w] = SearchedKeys(Objects)]
    /\ pc' = [pc EXCEPT ![w] = "scan"]
    /\ UNCHANGED <<versions, callVars, got, found, skipped, answer, until>>

GrepFile(w, k) ==
    /\ pc[w] = "scan" /\ k \in todo[w]
    /\ Decodes(Current(k))
    /\ todo' = [todo EXCEPT ![w] = @ \ {k}]
    /\ found' = [found EXCEPT ![w] = @ \cup {[path |-> PathFor(k), text |-> Current(k)]}]
    /\ UNCHANGED <<versions, pc, callVars, got, skipped, answer, until>>

(* A content that does not decode, or a failed download, is skipped.       *)
GrepSkip(w, k) ==
    /\ pc[w] = "scan" /\ k \in todo[w]
    /\ todo' = [todo EXCEPT ![w] = @ \ {k}]
    /\ skipped' = [skipped EXCEPT ![w] = @ \cup {k}]
    /\ UNCHANGED <<versions, pc, callVars, got, found, answer, until>>

(* Mutant of GrepMatch: the search stops at an unreadable file.            *)
GrepMatchEarly(w) ==
    /\ pc[w] = "scan" /\ (todo[w] = {} \/ skipped[w] # {})
    /\ found' = [found EXCEPT ![w] = {f \in @ : Occurrences(f.text, call[w].old) > 0}]
    /\ UNCHANGED versions
    /\ Return(w, "ok")
    /\ UNCHANGED <<callVars, got, todo, skipped>>

(* grep: the files that hold the pattern.                                  *)
GrepMatch(w) ==
    /\ pc[w] = "scan" /\ todo[w] = {}
    /\ found' = [found EXCEPT ![w] = {f \in @ : Occurrences(f.text, call[w].old) > 0}]
    /\ UNCHANGED versions
    /\ Return(w, "ok")
    /\ UNCHANGED <<callVars, got, todo, skipped>>

(* A get or a listing (one of grep's later pages too) raises, or read gets *)
(* a text file that does not decode.                                       *)
RequestFails(w) ==
    /\ pc[w] \in {"get", "list", "scan"}
    /\ UNCHANGED versions
    /\ Return(w, "error")
    /\ UNCHANGED <<callVars, got, todo, found, skipped>>

(* sync-docs.sh uploads a file; each is synced once.                       *)
Sync(f) ==
    /\ f \notin synced
    /\ synced' = synced \cup {f}
    /\ versions' = [versions EXCEPT ![SyncKey(f)] =
          Append(@, [by |-> NoWorker, text |-> SyncFiles[f]])]
    /\ UNCHANGED <<pc, call, since, got, todo, found, skipped, answer, until>>

-----------------------------------------------------------------------------

(* The operations with their arguments.                                    *)
ToolCalls ==
    [op : {"ls", "read"}, path : Paths]
    \cup [op : {"write"}, path : Paths, text : Texts]
    \cup [op : {"edit"}, path : Paths, old : Olds, new : News, all : BOOLEAN]
    \cup [op : {"grep"}, old : {<<x>> : x \in Words}]
    \cup [op : {"glob"}]

S3Quiet == (\A w \in Workers : pc[w] = "done") /\ UNCHANGED s3Vars

S3Next ==
    \/ \E w \in Workers :
          \/ \E c \in ToolCalls : c.op \in Calls /\ Start(w, c)
          \/ GetMissing(w) \/ ReadFile(w) \/ EditGet(w) \/ EditRefused(w)
          \/ PutAgain(w) \/ PutOk(w) \/ PutFails(w)
          \/ Ls(w) \/ Glob(w) \/ GrepList(w) \/ GrepMatch(w)
          \/ \E k \in todo[w] : GrepFile(w, k) \/ GrepSkip(w, k)
          \/ RequestFails(w)
    \/ \E f \in DOMAIN SyncFiles : Sync(f)
    \/ S3Quiet

S3Spec == S3Init /\ [][S3Next]_s3Vars
=============================================================================
