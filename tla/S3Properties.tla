---------------------------- MODULE S3Properties ----------------------------
(***************************************************************************)
(* What s3_backend.py promises to the agent's file tools.                  *)
(***************************************************************************)
EXTENDS S3Store

(* Names, paths, keys and texts.  (The provers do not know that a literal  *)
(* is a string.)                                                           *)
Pieces == STRING \cup {"/", "\n"}

Names == Seq(Pieces)

Version == [by : Workers \cup {NoWorker}, text : Names]

(* Every variable stays in its type.                                       *)
S3TypeOK ==
    /\ versions \in [StoreKeys -> Seq(Version)]
    /\ pc \in [Workers -> {"idle", "get", "put", "list", "scan", "done"}]
    /\ call \in [Workers -> ToolCalls \cup {NoCall}]
    /\ got \in [Workers -> {NoText} \cup Names]
    /\ todo \in [Workers -> SUBSET StoreKeys] /\ skipped \in [Workers -> SUBSET StoreKeys]
    /\ DOMAIN found = Workers
    /\ \A w \in Workers : found[w] \subseteq
          (IF call[w].op = "grep" THEN [path : Names, text : Names] ELSE Names)
    /\ answer \in [Workers -> {"none", "ok", "missing", "refused", "error"}]
    /\ since \in [Workers -> [StoreKeys -> Nat]] /\ until \in [Workers -> [StoreKeys -> Nat]]
    /\ synced \subseteq DOMAIN SyncFiles

InRoot(k) == prefix = <<>> \/ IsPrefix(Append(prefix, "/"), k)

PathsFound(w) == IF call[w].op = "grep" THEN {f.path : f \in found[w]} ELSE found[w]

(* The prefix lets one bucket hold several roots: no call of this backend  *)
(* changes another root's object, not even one whose name begins alike, or *)
(* downloads it in a search, and every file that ls, glob and grep return  *)
(* is an object of this root.                                              *)
RootIsolated ==
    /\ \A k \in Objects : ~InRoot(k) =>
          \A i \in DOMAIN versions[k] : versions[k][i].by = NoWorker
    /\ \A w \in Workers :
          /\ todo[w] \cup skipped[w] \subseteq {k \in StoreKeys : InRoot(k)}
          /\ PathsFound(w) \subseteq {PathFor(k) : k \in {o \in Objects : InRoot(o)}}

(* A path that ls, glob or grep returned can be read: it maps back to the  *)
(* object that was listed.  (The exception is an object whose name in the  *)
(* root begins with a slash: _key_for() strips it.)                        *)
FoundIsReadable ==
    \A w \in Workers : \A p \in PathsFound(w) :
        LeadingSlashes(p) = 1 => KeyFor(p) \in Objects

DoubledSlash(p) == \E i \in 1..Len(p) - 1 : p[i] = "/" /\ p[i + 1] = "/"

(* S3_DEST is what INSURANCE_DOCS_ROOT is, but for a slash at the end, and *)
(* the source directory has file names.                                    *)
SyncsRoot ==
    LET bucket == <<Head(DocsRoot)>>
        root == IF prefix = <<>> THEN bucket ELSE bucket \o <<"/">> \o prefix
    IN  /\ Head(DocsRoot) # "/"
        /\ SyncDest \in {root, root \o <<"/">>}
        /\ \A f \in DOMAIN SyncFiles :
              f # <<>> /\ ~EndsWithSlash(f) /\ ~DoubledSlash(<<"/">> \o f)

Depth == Max({Cardinality(Slashes(k, <<>>)) : k \in StoreKeys})

(* Directories reached from "/" by listing level by level.                 *)
Walk[n \in Nat] ==
    IF n = 0 THEN {<<"/">>}
    ELSE LET above == Walk[n - 1]
         IN  above \cup UNION {LsDirs(Objects, d) : d \in above}

(* Browsing with ls from "/" shows the files that glob and grep search, in *)
(* every state of the bucket, and what sync-docs.sh uploaded under its     *)
(* name in the source directory, whether the trailing slash is given or    *)
(* not.  (An object with an empty name on its path is the exception: ls    *)
(* strips what it is given; and a store has no object without a key.)      *)
WalkFindsAll ==
    LET keys == {k \in SearchedKeys(Objects) \ {<<>>} : ~DoubledSlash(PathFor(k))}
        seen == UNION {LsFiles(Objects, d) : d \in Walk[Depth]}
    IN  /\ \A k \in keys : PathFor(k) \in seen
        /\ \A f \in synced : <<"/">> \o f \in seen /\ KeyFor(<<"/">> \o f) = SyncKey(f)

Without(text, from, n) ==
    [before |-> SubSeq(text, 1, from - 1), after |-> SubSeq(text, from + n, Len(text))]

(* Whatever overlaps, an edit's result is its replacement in a content     *)
(* the same file had after the edit began: the text before and after the   *)
(* only occurrence stays as it was, and of several each is replaced, or    *)
(* none.  No edit mixes files or contents or edits a blind guess.          *)
EditsDerive ==
    \A k \in StoreKeys : \A i \in DOMAIN versions[k] :
        LET c == call[versions[k][i].by]
            old == Normalised(c.old)
            new == Normalised(c.new)
        IN  versions[k][i].by \in Workers /\ c.op = "edit" =>
                \E j \in 1..i - 1 :
                    LET text == versions[k][j].text
                    IN  /\ j >= since[versions[k][i].by][k]
                        /\ \/ /\ Occurrences(text, old) = 1
                              /\ LET rest == Without(text, Min(Places(text, old)), Len(old))
                                 IN  versions[k][i].text = rest.before \o new \o rest.after
                           \/ /\ c.all /\ Occurrences(text, old) > 1
                              /\ versions[k][i].text = Replaced(c, text)

(* An edit that is refused was not possible in some content the file had   *)
(* during the call: what it asks to replace does not occur there, or more  *)
(* than once, or the content is not text.  The exception is a text with    *)
(* "\r\n" or "\r" line ends, which a file with such ends holds and the     *)
(* edit does not find, as it normalises the one but not the other.         *)
RefusedRightly(w) ==
    \E i \in DOMAIN versions[KeyOf(w)] :
        LET text == versions[KeyOf(w)][i].text
        IN  /\ i >= since[w][KeyOf(w)] /\ i <= until[w][KeyOf(w)]
            /\ \/ ~Decodes(text)
               \/ Occurrences(text, call[w].old) = 0
               \/ Occurrences(text, call[w].old) > 1 /\ ~call[w].all
               \/ \A t \in {text, call[w].old} : ToSet(t) \cap CarriageReturns # {}

(* The answer tells what happened: after "ok" the file had the call's      *)
(* content while the call ran, and whatever copies boto3 sent, nothing     *)
(* else of this call; after a refusal, which needs a reason, it never had  *)
(* it; and only after an error the agent cannot know.                      *)
AnswerTells ==
    \A w \in Workers : pc[w] = "done" /\ call[w].op \in {"write", "edit"} =>
        /\ answer[w] = "ok" =>
              /\ Sent(w) # {}
              /\ \A i \in Sent(w) :
                    /\ i > since[w][KeyOf(w)] /\ i <= until[w][KeyOf(w)]
                    /\ versions[KeyOf(w)][i].text = Body(w)
        /\ answer[w] \in {"missing", "refused"} => Sent(w) = {}
        /\ answer[w] = "refused" => RefusedRightly(w)

(* What grep returns held the pattern at some moment of the search, in     *)
(* that file (with the exception above); and a file that stayed the same,  *)
(* could be read and held it, is returned, however the downloads of the    *)
(* others went.                                                            *)
GrepTruthful ==
    \A w \in Workers : pc[w] = "done" /\ answer[w] = "ok" /\ call[w].op = "grep" =>
        /\ \A f \in found[w] :
              LET k == KeyFor(f.path)
              IN  /\ Occurrences(f.text, call[w].old) > 0
                  /\ LeadingSlashes(f.path) = 1 => \E i \in DOMAIN versions[k] :
                        /\ i >= since[w][k] /\ i <= until[w][k]
                        /\ versions[k][i].text = f.text
        /\ \A k \in SearchedKeys(Objects) \ skipped[w] :
              since[w][k] > 0 /\ since[w][k] = until[w][k]
              /\ Occurrences(versions[k][since[w][k]].text, call[w].old) > 0
                  => PathFor(k) \in PathsFound(w)
=============================================================================
