------------------------------- MODULE S3Proofs -------------------------------
(***************************************************************************)
(* What s3_backend.py keeps apart, answers, finds and overwrites: for any  *)
(* number of overlapping calls of the file tools, any paths, texts, roots  *)
(* and contents of the bucket, and any uploads by sync-docs.sh meanwhile.  *)
(***************************************************************************)
EXTENDS S3Properties, DataLemmas

-----------------------------------------------------------------------------
(* Paths and keys.                                                         *)

LEMMA StringsArePieces ==
  ASSUME NEW s \in Seq(STRING)
  PROVE  s \in Names
<1>1. Len(s) \in Nat /\ s \in [1..Len(s) -> STRING]
  BY LenProperties
<1>2. s \in [1..Len(s) -> Pieces]
  BY <1>1 DEF Pieces
<1> QED
  BY <1>1, <1>2, SeqDef DEF Names

LEMMA Pieced == /\ <<"/">> \in Names /\ <<>> \in Names /\ Len(<<"/">>) = 1
                /\ "/" \in Pieces /\ "\n" \in Pieces
<1>1. "/" \in Pieces /\ "\n" \in Pieces
  BY DEF Pieces
<1> QED
  BY <1>1 DEF Names

LEMMA SlashesStripped ==
  ASSUME NEW s \in Names
  PROVE  /\ LeadingSlashes(s) \in 0..Len(s)
         /\ \A i \in 1..LeadingSlashes(s) : s[i] = "/"
         /\ \A n \in 0..Len(s) : (\A i \in 1..n : s[i] = "/") => n <= LeadingSlashes(s)
         /\ LStrip(s) \in Names
<1> DEFINE M == {n \in 0..Len(s) : \A i \in 1..n : s[i] = "/"}
<1>1. Len(s) \in Nat
  BY LenProperties DEF Names
<1>2. M \in SUBSET Nat /\ IsFiniteSet(M) /\ 0 \in M
  <2>1. IsFiniteSet(0..Len(s))
    BY <1>1, FS_Interval
  <2>2. M \subseteq 0..Len(s)
    OBVIOUS
  <2>3. IsFiniteSet(M)
    BY <2>1, <2>2, FS_Subset
  <2> QED
    BY <1>1, <2>3
<1>3. LeadingSlashes(s) = Max(M)
  BY DEF LeadingSlashes
<1>4. Max(M) \in M /\ \A x \in M : x <= Max(M)
  <2> HIDE DEF M
  <2> QED
    BY <1>2, MaxOfFinite
<1>5. LStrip(s) \in Names
  <2>1. LeadingSlashes(s) + 1 \in Nat \ {0}
    BY <1>1, <1>3, <1>4
  <2> QED
    BY <2>1, PartOfSeq DEF LStrip, Names
<1> QED
  BY <1>3, <1>4, <1>5

LEMMA StripIsName ==
  ASSUME NEW s \in Names
  PROVE  Strip(s) \in Names
BY SlashesStripped, ReverseOfSeq DEF Strip, Names

LEMMA UriPathIsName == UriPath(DocsRoot) \in Names
<1> DEFINE slashes == {i \in DOMAIN DocsRoot : DocsRoot[i] = "/"}
<1>1. /\ DocsRoot \in Seq(Pieces)
      /\ DOMAIN DocsRoot = 1..Len(DocsRoot) /\ Len(DocsRoot) \in Nat
  BY UriAssumption, StringsArePieces, LenProperties DEF Names
<1>2. CASE slashes = {}
  BY <1>2, EmptySeq DEF UriPath, Names
<1>3. CASE slashes # {}
  <2>1. slashes \in SUBSET Nat
    BY <1>1
  <2>2. Min(slashes) \in slashes
    <3> HIDE DEF slashes
    <3> QED
      BY <1>3, <2>1, MinOfSet
  <2>3. Min(slashes) \in Nat \ {0}
    BY <1>1, <2>2
  <2>4. UriPath(DocsRoot) = SubSeq(DocsRoot, Min(slashes), Len(DocsRoot))
    BY <1>3 DEF UriPath
  <2>5. SubSeq(DocsRoot, Min(slashes), Len(DocsRoot)) \in Names
    <3> HIDE DEF slashes
    <3> QED
      BY <1>1, <2>3, PartOfSeq DEF Names
  <2> QED
    BY <2>4, <2>5
<1> QED
  BY <1>2, <1>3

LEMMA RootIsName == prefix \in Names /\ RootPrefix \in Names
<1>1. prefix \in Names
  BY UriPathIsName, SlashesStripped, StripIsName DEF prefix
<1> QED
  BY <1>1, Pieced, ConcatProperties DEF RootPrefix, Names

(* A key that begins with RootPrefix is in the root.                       *)
LEMMA RootHolds ==
  ASSUME NEW k, IsPrefix(RootPrefix, k)
  PROVE  InRoot(k)
<1>1. prefix # <<>> => RootPrefix = Append(prefix, "/")
  <2>1. prefix \in Seq(Pieces) /\ "/" \in Pieces
    BY RootIsName, Pieced DEF Names
  <2>2. prefix \o <<"/">> = Append(prefix, "/")
    BY <2>1, AppendIsConcat
  <2> QED
    BY <2>2 DEF RootPrefix
<1> QED
  BY <1>1 DEF InRoot

(* _key_for() and _dir_key_prefix() stay in the root, whatever the path.   *)
LEMMA KeysInRoot ==
  ASSUME NEW p \in Names
  PROVE  /\ KeyFor(p) \in Names /\ IsPrefix(RootPrefix, KeyFor(p))
         /\ DirKeyPrefix(p) \in Names /\ IsPrefix(RootPrefix, DirKeyPrefix(p))
<1>1. KeyFor(p) \in Names /\ IsPrefix(RootPrefix, KeyFor(p))
  BY RootIsName, SlashesStripped, PrefixOfConcat DEF KeyFor, Names
<1>2. CASE Strip(p) = <<>>
  BY <1>1, <1>2, RootIsName, PrefixOfItself DEF DirKeyPrefix, Names
<1>3. CASE Strip(p) # <<>>
  <2>1. Strip(p) \o <<"/">> \in Names
    BY Pieced, StripIsName, ConcatProperties DEF Names
  <2>2. RootPrefix \o (Strip(p) \o <<"/">>) = RootPrefix \o Strip(p) \o <<"/">>
    BY RootIsName, StripIsName, Pieced, ConcatAssociative DEF Names
  <2>3. /\ RootPrefix \o (Strip(p) \o <<"/">>) \in Names
        /\ IsPrefix(RootPrefix, RootPrefix \o (Strip(p) \o <<"/">>))
    <3> DEFINE q == Strip(p) \o <<"/">>
    <3>1. q \in Names
      BY <2>1
    <3> HIDE DEF q
    <3>2. RootPrefix \o q \in Names /\ IsPrefix(RootPrefix, RootPrefix \o q)
      BY <3>1, RootIsName, PrefixOfConcat DEF Names
    <3> QED
      BY <3>2 DEF q
  <2> QED
    BY <1>1, <1>3, <2>2, <2>3 DEF DirKeyPrefix
<1> QED
  BY <1>2, <1>3

(* _path_for() is undone by _key_for() for a key of the root whose name    *)
(* there does not begin with a slash.                                      *)
LEMMA RoundTrip ==
  ASSUME NEW k \in Names, IsPrefix(RootPrefix, k), LeadingSlashes(PathFor(k)) = 1
  PROVE  KeyFor(PathFor(k)) = k
<1> DEFINE n == Len(RootPrefix)
           rest == SubSeq(k, n + 1, Len(k))
           p == <<"/">> \o rest
<1>1. /\ n \in Nat /\ Len(k) \in Nat /\ n <= Len(k)
      /\ k \in Seq(Pieces) /\ RootPrefix \in Seq(Pieces)
      /\ \A i \in 1..n : RootPrefix[i] = k[i]
  BY RootIsName, LenProperties, PrefixPieces DEF Names
<1>2. PathFor(k) = p
  BY DEF PathFor
<1>3. rest \in Seq(Pieces) /\ Len(rest) = Len(k) - n /\ \A i \in 1..Len(rest) : rest[i] = k[n + i]
  BY <1>1
<1>4. <<"/">> \in Seq(Pieces) /\ Len(<<"/">>) = 1
  BY Pieced DEF Names
<1>5. LStrip(p) = rest
  <2> HIDE DEF rest
  <2>1. /\ p \in Seq(Pieces) /\ Len(p) = Len(rest) + 1 /\ Len(rest) \in Nat
        /\ \A i \in 1..Len(rest) : p[i + 1] = rest[i]
    BY <1>3, <1>4, ConcatProperties, LenProperties
  <2>2. LStrip(p) = SubSeq(p, 2, Len(p))
    BY <1>2 DEF LStrip
  <2>3. /\ LStrip(p) \in Seq(Pieces) /\ Len(LStrip(p)) = Len(rest)
        /\ \A i \in 1..Len(rest) : LStrip(p)[i] = rest[i]
    <3> HIDE DEF p
    <3> QED
      BY <2>1, <2>2
  <2> QED
    BY <1>3, <2>1, <2>3, SeqEqual
<1>6. RootPrefix \o rest = k
  <2> HIDE DEF rest
  <2>1. /\ RootPrefix \o rest \in Seq(Pieces) /\ Len(RootPrefix \o rest) = Len(k)
        /\ \A i \in 1..Len(k) : (RootPrefix \o rest)[i] = k[i]
    BY <1>1, <1>3, ConcatProperties
  <2> QED
    BY <1>1, <2>1, SeqEqual
<1> QED
  BY <1>2, <1>5, <1>6 DEF KeyFor

-----------------------------------------------------------------------------
(* The inductive invariant.                                                *)

RootKeys == {k \in StoreKeys : IsPrefix(RootPrefix, k)}

Searchable == SearchedKeys(StoreKeys)

StoreTypes ==
    /\ versions \in [StoreKeys -> Seq(Version)]
    /\ pc \in [Workers -> {"idle", "get", "put", "list", "scan", "done"}]
    /\ call \in [Workers -> ToolCalls \cup {NoCall}]
    /\ got \in [Workers -> Names \cup {NoText}]
    /\ todo \in [Workers -> SUBSET Searchable]
    /\ skipped \in [Workers -> SUBSET Searchable]
    /\ found = [w \in Workers |-> found[w]]
    /\ answer \in [Workers -> {"none", "ok", "missing", "refused", "error"}]
    /\ since \in [Workers -> [StoreKeys -> Nat]]
    /\ until \in [Workers -> [StoreKeys -> Nat]]

(* Where a call stands follows from its operation.                         *)
Called(w) ==
    /\ pc[w] = "idle" <=> call[w] = NoCall
    /\ pc[w] = "get" => call[w].op \in {"read", "edit"}
    /\ pc[w] = "put" => call[w].op \in {"write", "edit"}
    /\ pc[w] = "list" => call[w].op \in {"ls", "glob", "grep"}
    /\ pc[w] = "scan" => call[w].op = "grep"
    /\ pc[w] \in {"idle", "get", "put", "list"} =>
          found[w] = {} /\ todo[w] = {} /\ skipped[w] = {}

(* An object only gains versions.                                          *)
Timed(w) ==
    \A k \in StoreKeys : /\ since[w][k] <= Len(versions[k])
                          /\ until[w][k] <= Len(versions[k])

(* A text that was edited is one the object had during the call.           *)
EditedFrom(w, k, i, text) ==
    \E j \in 1..i - 1 : /\ j >= since[w][k] /\ Replaces(call[w], versions[k][j].text)
                        /\ text = Replaced(call[w], versions[k][j].text)

(* What an edit is about to put rests on a version it has read.            *)
Grounded(w) ==
    pc[w] = "put" /\ call[w].op = "edit" =>
        \E j \in DOMAIN versions[KeyOf(w)] :
            /\ j >= since[w][KeyOf(w)] /\ versions[KeyOf(w)][j].text = got[w]
            /\ Replaces(call[w], got[w])

(* What a call has put is its content, at its own key, while it ran.       *)
Wrote(w) ==
    /\ \A k \in StoreKeys : \A i \in DOMAIN versions[k] : versions[k][i].by = w =>
          /\ pc[w] \in {"put", "done"} /\ call[w].op \in {"write", "edit"} /\ k = KeyOf(w)
          /\ i > since[w][k] /\ versions[k][i].text = Body(w)
          /\ pc[w] = "done" => answer[w] \in {"ok", "error"} /\ i <= until[w][k]
          /\ call[w].op = "edit" => EditedFrom(w, k, i, versions[k][i].text)
    /\ pc[w] = "done" /\ call[w].op \in {"write", "edit"} /\ answer[w] = "ok" =>
          \E i \in DOMAIN versions[KeyOf(w)] : versions[KeyOf(w)][i].by = w

Refused(w) ==
    pc[w] = "done" /\ call[w].op \in {"write", "edit"} /\ answer[w] = "refused" =>
        RefusedRightly(w)

(* Version i of k was there while the call ran.                            *)
During(w, k, i) ==
    /\ i \in DOMAIN versions[k] /\ i >= since[w][k]
    /\ pc[w] = "done" => i <= until[w][k]

Hit(k, i) == [path |-> PathFor(k), text |-> versions[k][i].text]

Listed(w) ==
    /\ \A k \in todo[w] : versions[k] # <<>>
    /\ call[w].op # "grep" =>
          \A p \in found[w] : \E k \in RootKeys : versions[k] # <<>> /\ p = PathFor(k)
    /\ call[w].op = "grep" =>
          \A f \in found[w] : \E k \in RootKeys : \E i \in DOMAIN versions[k] :
              During(w, k, i) /\ f = Hit(k, i)

(* A grep has every object that was there before it still to do, has       *)
(* skipped it, or has its text, which it drops only if it holds no match.  *)
Searched(w) ==
    LET over == pc[w] = "done" /\ call[w].op = "grep" /\ answer[w] = "ok"
        Matches(text) == Occurrences(text, call[w].old) > 0
    IN  /\ pc[w] = "scan" \/ over =>
              \A k \in Searchable : since[w][k] > 0 =>
                  \/ k \in todo[w] \cup skipped[w]
                  \/ \E i \in DOMAIN versions[k] :
                        /\ During(w, k, i)
                        /\ Hit(k, i) \in found[w] \/ (over /\ ~Matches(versions[k][i].text))
        /\ over => todo[w] = {} /\ \A f \in found[w] : Matches(f.text)

WorkerFacts(w) ==
    /\ Called(w) /\ Timed(w) /\ Grounded(w) /\ Wrote(w) /\ Refused(w) /\ Listed(w) /\ Searched(w)

S3Inv == StoreTypes /\ \A w \in Workers : WorkerFacts(w)

-----------------------------------------------------------------------------
(* The arguments of the operations.                                        *)

LEMMA CallShapes ==
  ASSUME NEW c \in ToolCalls
  PROVE  /\ c # NoCall
         /\ c.op \in Operations
         /\ c.op \in {"ls", "read", "write", "edit"} => c.path \in Paths
         /\ c.op = "write" => c.text \in Texts
         /\ c.op = "edit" => c.old \in Olds /\ c.new \in News
BY DEF ToolCalls, NoCall, Operations

(* A call on a file is a call on a key of the store.                       *)
LEMMA CallHasKey ==
  ASSUME StoreTypes, NEW w \in Workers, call[w].op \in {"ls", "read", "write", "edit"}
  PROVE  /\ call[w] \in ToolCalls /\ call[w].path \in Names
         /\ KeyOf(w) \in RootKeys
<1>1. call[w] \in ToolCalls
  BY DEF StoreTypes, NoCall
<1>2. call[w].path \in Paths
  BY <1>1, CallShapes
<1>3. call[w].path \in Names
  BY <1>2, StoreAssumption, StringsArePieces
<1>4. KeyOf(w) \in StoreKeys
  BY <1>2 DEF KeyOf, StoreKeys
<1> QED
  BY <1>1, <1>3, <1>4, KeysInRoot DEF KeyOf, RootKeys

-----------------------------------------------------------------------------
(* What a step leaves alone.                                               *)

(* No version is lost or changed.                                          *)
Grown ==
    \A k \in StoreKeys :
        /\ Len(versions[k]) <= Len(versions'[k])
        /\ \A i \in DOMAIN versions[k] : /\ i \in DOMAIN versions'[k]
                                         /\ versions'[k][i] = versions[k][i]

(* A put adds one version to one object.                                   *)
LEMMA PutGrows ==
  ASSUME versions \in [StoreKeys -> Seq(Version)], NEW k \in StoreKeys, NEW v \in Version,
         versions' = [versions EXCEPT ![k] = Append(@, v)]
  PROVE  /\ versions' \in [StoreKeys -> Seq(Version)]
         /\ Grown
         /\ \A x \in StoreKeys : \A i \in DOMAIN versions'[x] :
               \/ i \in DOMAIN versions[x] /\ versions'[x][i] = versions[x][i]
               \/ x = k /\ i = Len(versions[k]) + 1 /\ versions'[x][i] = v
         /\ Len(versions[k]) + 1 \in DOMAIN versions'[k]
         /\ versions'[k][Len(versions[k]) + 1] = v
<1>1. /\ versions[k] \in Seq(Version) /\ versions'[k] = Append(versions[k], v)
      /\ \A x \in StoreKeys \ {k} : versions'[x] = versions[x]
  OBVIOUS
<1>2. /\ Len(versions[k]) \in Nat /\ DOMAIN versions[k] = 1..Len(versions[k])
      /\ versions'[k] \in Seq(Version) /\ Len(versions'[k]) = Len(versions[k]) + 1
      /\ DOMAIN versions'[k] = 1..Len(versions[k]) + 1
      /\ \A i \in 1..Len(versions[k]) : versions'[k][i] = versions[k][i]
      /\ versions'[k][Len(versions[k]) + 1] = v
  BY <1>1, LenProperties, AppendProperties
<1>3. \A x \in StoreKeys : Len(versions[x]) \in Nat
  BY LenProperties
<1>4. versions' \in [StoreKeys -> Seq(Version)]
  BY <1>1, <1>2
<1>5. Grown
  BY <1>1, <1>2, <1>3 DEF Grown
<1>6. ASSUME NEW x \in StoreKeys, NEW i \in DOMAIN versions'[x]
      PROVE  \/ i \in DOMAIN versions[x] /\ versions'[x][i] = versions[x][i]
             \/ x = k /\ i = Len(versions[k]) + 1 /\ versions'[x][i] = v
  <2>1. CASE x # k
    BY <1>1, <2>1
  <2>2. CASE x = k
    BY <1>2, <2>2
  <2> QED
    BY <2>1, <2>2
<1> QED
  BY <1>2, <1>4, <1>5, <1>6

LEMMA SameGrows ==
  ASSUME versions \in [StoreKeys -> Seq(Version)], versions' = versions
  PROVE  Grown
<1>1. \A k \in StoreKeys : Len(versions[k]) \in Nat
  BY LenProperties
<1> QED
  BY <1>1 DEF Grown

LEMMA VersionsAreSeqs ==
  ASSUME StoreTypes, NEW k \in StoreKeys
  PROVE  /\ versions[k] \in Seq(Version) /\ Len(versions[k]) \in Nat
         /\ DOMAIN versions[k] = 1..Len(versions[k])
         /\ \A i \in DOMAIN versions[k] : versions[k][i] \in Version
BY LenProperties DEF StoreTypes

Same(w) ==
    /\ pc'[w] = pc[w] /\ call'[w] = call[w] /\ got'[w] = got[w] /\ todo'[w] = todo[w]
    /\ found'[w] = found[w] /\ skipped'[w] = skipped[w] /\ answer'[w] = answer[w]
    /\ since'[w] = since[w] /\ until'[w] = until[w]

(* A worker is not concerned by versions that are not its own.             *)
LEMMA OthersKeep ==
  ASSUME StoreTypes, StoreTypes', Grown, NEW w \in Workers, WorkerFacts(w), Same(w),
         \A k \in StoreKeys : \A i \in DOMAIN versions'[k] :
             versions'[k][i].by = w => i \in DOMAIN versions[k]
  PROVE  WorkerFacts(w)'
<1> USE DEF WorkerFacts, Same
<1>0. \A k \in StoreKeys : /\ Len(versions[k]) \in Nat /\ Len(versions'[k]) \in Nat
                           /\ since[w][k] \in Nat /\ until[w][k] \in Nat
                           /\ DOMAIN versions[k] = 1..Len(versions[k])
  BY VersionsAreSeqs, LenProperties DEF StoreTypes
<1>1. Called(w)'
  BY DEF Called
<1>2. Timed(w)'
  BY <1>0 DEF Timed, Grown
<1>3. KeyOf(w)' = KeyOf(w)
  BY DEF KeyOf
<1>4. call[w].op \in {"write", "edit"} => KeyOf(w) \in StoreKeys
  BY CallHasKey DEF RootKeys
<1>5. Grounded(w)'
  BY <1>3, <1>4 DEF Grounded, Grown
<1>6. Wrote(w)'
  <2>1. ASSUME NEW k \in StoreKeys, NEW i \in DOMAIN versions[k],
               EditedFrom(w, k, i, versions[k][i].text)
        PROVE  EditedFrom(w, k, i, versions[k][i].text)'
    <3>1. PICK j \in 1..i - 1 : /\ j >= since[w][k] /\ Replaces(call[w], versions[k][j].text)
                              /\ versions[k][i].text = Replaced(call[w], versions[k][j].text)
      BY <2>1 DEF EditedFrom
    <3>2. j \in DOMAIN versions[k]
      BY <1>0
    <3> QED
      BY <3>1, <3>2 DEF EditedFrom, Grown
  <2>2. ASSUME NEW k \in StoreKeys, NEW i \in DOMAIN versions'[k], versions'[k][i].by = w
        PROVE  /\ pc[w] \in {"put", "done"} /\ call[w].op \in {"write", "edit"} /\ k = KeyOf(w)
               /\ i > since[w][k] /\ versions'[k][i].text = Body(w)
               /\ pc[w] = "done" => answer[w] \in {"ok", "error"} /\ i <= until[w][k]
               /\ call[w].op = "edit" => EditedFrom(w, k, i, versions[k][i].text)'
    <3>1. i \in DOMAIN versions[k] /\ versions'[k][i] = versions[k][i]
      BY <2>2 DEF Grown
    <3> QED
      BY <2>1, <2>2, <3>1 DEF Wrote
  <2>3. Body(w)' = Body(w)
    BY DEF Body
  <2>4. \A k \in StoreKeys : \A i \in DOMAIN versions[k] :
           versions[k][i].by = w => i \in DOMAIN versions'[k] /\ versions'[k][i].by = w
    BY DEF Grown
  <2> QED
    BY <1>3, <1>4, <2>2, <2>3, <2>4 DEF Wrote
<1>7. Refused(w)'
  BY <1>3, <1>4 DEF Refused, RefusedRightly, Grown
<1>8. \A k \in StoreKeys : \A i \in DOMAIN versions[k] :
        /\ Hit(k, i)' = Hit(k, i)
        /\ During(w, k, i) => During(w, k, i)'
  BY DEF Hit, During, Grown
<1>9. Listed(w)'
  <2>1. ASSUME NEW f, NEW k \in RootKeys, NEW i \in DOMAIN versions[k],
               During(w, k, i), f = Hit(k, i)
        PROVE  i \in DOMAIN versions'[k] /\ During(w, k, i)' /\ f = Hit(k, i)'
    BY <1>8, <2>1 DEF Grown, RootKeys
  <2>2. \A k \in RootKeys : versions[k] # <<>> => versions'[k] # <<>>
    BY <1>0, EmptySeq DEF Grown, RootKeys, StoreTypes
  <2>3. todo[w] \subseteq RootKeys
    BY DEF StoreTypes, Searchable, SearchedKeys, Below, RootKeys
  <2> QED
    BY <2>1, <2>2, <2>3 DEF Listed
<1>10. Searched(w)'
  BY <1>8 DEF Searched, Grown, Searchable, SearchedKeys, Below
<1> QED
  BY <1>1, <1>2, <1>5, <1>6, <1>7, <1>9, <1>10

-----------------------------------------------------------------------------
(* Every call keeps the invariant: first what a worker's step must show.   *)

LEMMA Acts ==
  ASSUME S3Inv, NEW w \in Workers, StoreTypes', Grown,
         \A q \in Workers \ {w} : Same(q),
         \A k \in StoreKeys : \A i \in DOMAIN versions'[k] :
             i \in DOMAIN versions[k] \/ versions'[k][i].by = w,
         WorkerFacts(w)'
  PROVE  S3Inv'
<1>1. ASSUME NEW q \in Workers \ {w} PROVE WorkerFacts(q)'
  BY <1>1, OthersKeep DEF S3Inv
<1> QED
  BY <1>1 DEF S3Inv

LEMMA Returned ==
  ASSUME StoreTypes, versions' \in [StoreKeys -> Seq(Version)], NEW w \in Workers, NEW how,
         Return(w, how)
  PROVE  /\ pc'[w] = "done" /\ answer'[w] = how
         /\ pc' = [pc EXCEPT ![w] = "done"] /\ answer' = [answer EXCEPT ![w] = how]
         /\ until'[w] \in [StoreKeys -> Nat] /\ \A k \in StoreKeys : until'[w][k] = Len(versions'[k])
         /\ until' \in [Workers -> [StoreKeys -> Nat]]
         /\ \A q \in Workers \ {w} : /\ pc'[q] = pc[q] /\ answer'[q] = answer[q]
                                     /\ until'[q] = until[q]
<1>1. \A k \in StoreKeys : Len(versions'[k]) \in Nat
  BY LenProperties
<1> QED
  BY <1>1 DEF Return, StoreTypes

LEMMA NormalisedIsName ==
  ASSUME NEW t \in Names
  PROVE  Normalised(t) \in Names /\ Len(Normalised(t)) = Len(t) /\ Len(t) \in Nat
<1>1. /\ Len(t) \in Nat /\ t \in [1..Len(t) -> Pieces]
      /\ DOMAIN t = 1..Len(t)
  BY LenProperties DEF Names
<1>2. Normalised(t) \in [1..Len(t) -> Pieces]
  BY <1>1, Pieced DEF Normalised
<1>3. Normalised(t) \in Names
  BY <1>1, <1>2, SeqDef DEF Names
<1>4. DOMAIN Normalised(t) = 1..Len(t) /\ DOMAIN Normalised(t) = 1..Len(Normalised(t))
  BY <1>2, <1>3, LenProperties DEF Names
<1>5. Len(Normalised(t)) = Len(t)
  BY <1>1, <1>3, <1>4, LenProperties DEF Names
<1> QED
  BY <1>1, <1>3, <1>5

(* What Replaced joins: one part for each place of the text.               *)
PartsOf(c, text) ==
    LET at == Places(text, Normalised(c.old))
    IN  [i \in DOMAIN text |->
            IF i \in at THEN Normalised(c.new)
            ELSE IF \E j \in at : j < i /\ i < j + Len(c.old) THEN <<>>
            ELSE <<text[i]>>]

LEMMA PartsAreNames ==
  ASSUME NEW c, c.new \in Names, NEW text \in Names
  PROVE  /\ PartsOf(c, text) \in Seq(Names) /\ Len(PartsOf(c, text)) = Len(text)
         /\ Replaced(c, text) = FlattenSeq(PartsOf(c, text))
<1> DEFINE at == Places(text, Normalised(c.old))
           part(i) == IF i \in at THEN Normalised(c.new)
                      ELSE IF \E j \in at : j < i /\ i < j + Len(c.old) THEN <<>>
                      ELSE <<text[i]>>
           parts == [i \in DOMAIN text |-> part(i)]
<1>1. Normalised(c.new) \in Names
  BY NormalisedIsName
<1>2. Len(text) \in Nat /\ DOMAIN text = 1..Len(text) /\ \A i \in DOMAIN text : text[i] \in Pieces
  BY LenProperties, ElementOfSeq DEF Names
<1>3. \A i \in DOMAIN text : <<text[i]>> \in Names /\ <<>> \in Names
  BY <1>2 DEF Names
<1>4. \A i \in DOMAIN text : part(i) \in Names
  <2> HIDE DEF at
  <2> QED
    BY <1>1, <1>3
<1>5. parts \in [1..Len(text) -> Names]
  <2> HIDE DEF part
  <2> QED
    BY <1>2, <1>4
<1>6. parts \in Seq(Names)
  BY <1>2, <1>5, SeqDef
<1>7. Len(parts) = Len(text)
  <2> HIDE DEF part
  <2> QED
    BY <1>2, <1>6, LenProperties
<1> QED
  BY <1>6, <1>7 DEF PartsOf, Replaced

LEMMA TextsReplaced ==
  ASSUME NEW c, c.new \in Names, NEW text \in Names
  PROVE  Replaced(c, text) \in Names
BY PartsAreNames, FlattenedIsSeq DEF Names

(* Nothing has been called, and every object has one version.              *)
LEMMA S3InitKeeps == S3Init => S3Inv
<1> SUFFICES ASSUME S3Init PROVE S3Inv
  OBVIOUS
<1>1. ASSUME NEW k \in StoreKeys
      PROVE  /\ versions[k] \in Seq(Version)
             /\ \A i \in DOMAIN versions[k] : versions[k][i].by = NoWorker
  <2>1. CASE k \in DOMAIN Objects0
    <3> DEFINE v == [by |-> NoWorker, text |-> Objects0[k]]
    <3>1. versions[k] = <<v>>
      BY <2>1 DEF S3Init
    <3>2. v \in Version
      BY <2>1, StoreAssumption, StringsArePieces DEF Version
    <3>3. v.by = NoWorker
      OBVIOUS
    <3> HIDE DEF v
    <3> QED
      BY <3>1, <3>2, <3>3
  <2>2. CASE k \notin DOMAIN Objects0
    BY <2>2 DEF S3Init
  <2> QED
    BY <2>1, <2>2
<1>2. versions = [k \in StoreKeys |-> versions[k]]
  BY DEF S3Init
<1>3. versions \in [StoreKeys -> Seq(Version)]
  BY <1>1, <1>2
<1>4. \A k \in StoreKeys : Count[k] = Len(versions[k]) /\ Len(versions[k]) \in Nat
  BY <1>1, LenProperties DEF Count
<1>5. Count \in [StoreKeys -> Nat]
  BY <1>4 DEF Count
<1>6. StoreTypes
  BY <1>3, <1>5 DEF S3Init, StoreTypes
<1>7. ASSUME NEW w \in Workers PROVE WorkerFacts(w)
  <2>1. /\ pc[w] = "idle" /\ call[w] = NoCall /\ since[w] = Count /\ until[w] = Count
        /\ found[w] = {} /\ todo[w] = {} /\ skipped[w] = {}
    BY DEF S3Init
  <2>2. Wrote(w)
    BY <1>1, <2>1, StoreAssumption DEF Wrote
  <2>3. Timed(w)
    BY <1>4, <2>1 DEF Timed
  <2>4. Called(w) /\ Grounded(w) /\ Refused(w) /\ Listed(w) /\ Searched(w)
    BY <2>1 DEF Called, Grounded, Refused, Listed, Searched
  <2> QED
    BY <2>2, <2>3, <2>4 DEF WorkerFacts
<1> QED
  BY <1>6, <1>7 DEF S3Inv

LEMMA StartKeeps ==
  ASSUME S3Inv, NEW w \in Workers, NEW c \in ToolCalls, Start(w, c)
  PROVE  S3Inv'
<1>1. StoreTypes /\ WorkerFacts(w)
  BY DEF S3Inv
<1>2. /\ pc[w] = "idle" /\ pc'[w] = FirstRequest(c.op) /\ call'[w] = c
      /\ \A k \in StoreKeys : since'[w][k] = Len(versions[k])
      /\ found'[w] = {} /\ todo'[w] = {} /\ skipped'[w] = {}
      /\ until' = until /\ versions' = versions
  BY <1>1 DEF Start, StoreTypes, Count, WorkerFacts, Called
<1>3. \A k \in StoreKeys : Len(versions[k]) \in Nat
  BY <1>1, VersionsAreSeqs
<1>4. StoreTypes'
  <2>1. FirstRequest(c.op) \in {"get", "put", "list"}
    BY DEF FirstRequest
  <2>2. Count \in [StoreKeys -> Nat]
    BY <1>3 DEF Count
  <2> QED
    BY <1>1, <2>1, <2>2 DEF Start, StoreTypes
<1>5. Called(w)'
  BY <1>2, CallShapes DEF Called, FirstRequest, Operations
<1>6. Timed(w)'
  BY <1>1, <1>2, <1>3 DEF Timed, WorkerFacts
<1>7. Wrote(w)'
  BY <1>1, <1>2 DEF Wrote, WorkerFacts, FirstRequest
<1>8. Grounded(w)' /\ Refused(w)' /\ Listed(w)' /\ Searched(w)'
  BY <1>2 DEF Grounded, Refused, Listed, Searched, FirstRequest
<1>9. \A q \in Workers \ {w} : Same(q)
  BY <1>1 DEF Start, StoreTypes, Same
<1> QED
  BY <1>1, <1>2, <1>4, <1>5, <1>6, <1>7, <1>8, <1>9, Acts, SameGrows DEF WorkerFacts, StoreTypes

(* A worker that has not put yet has written nothing.                      *)
LEMMA UnwrittenKeeps ==
  ASSUME S3Inv, NEW w \in Workers, pc[w] \notin {"idle", "put", "done"}, versions' = versions,
         pc'[w] = "done" /\ call'[w].op \in {"write", "edit"} => answer'[w] # "ok"
  PROVE  Wrote(w)'
BY DEF S3Inv, WorkerFacts, Wrote

(* An edit that is refused saw a content it could not be made in.          *)
LEMMA RefusalHasGrounds ==
  ASSUME S3Inv, NEW w \in Workers, EditRefused(w)
  PROVE  RefusedRightly(w)'
<1> DEFINE k == KeyOf(w)
           n == Len(versions[k])
           text == Current(k)
           c == call[w]
<1>1. StoreTypes /\ k \in StoreKeys /\ c \in ToolCalls /\ c.op = "edit" /\ c.old \in Olds
  <2>1. StoreTypes /\ c.op = "edit"
    BY DEF S3Inv, EditRefused
  <2>2. k \in StoreKeys /\ c \in ToolCalls
    BY <2>1, CallHasKey DEF RootKeys
  <2> QED
    BY <2>1, <2>2, CallShapes
<1>2. /\ n \in Nat /\ n \in DOMAIN versions[k] /\ versions[k][n].text = text
      /\ since[w][k] <= n
      /\ text \in Names
  <2>1. n \in Nat /\ DOMAIN versions[k] = 1..n /\ \A i \in 1..n : versions[k][i] \in Version
    BY <1>1, VersionsAreSeqs
  <2>2. n # 0
    BY <1>1, EmptySeq DEF EditRefused, Objects, StoreTypes
  <2> QED
    BY <1>1, <2>1, <2>2 DEF Current, Last, S3Inv, WorkerFacts, Timed, Version
<1>3. /\ versions' = versions /\ call' = call /\ since' = since /\ KeyOf(w)' = k
      /\ until'[w][k] = n
  <2>1. versions' = versions /\ call' = call /\ since' = since /\ Return(w, "refused")
    BY DEF EditRefused, callVars
  <2> QED
    BY <1>1, <2>1, Returned DEF KeyOf, StoreTypes
<1>4. \/ ~Decodes(text)
      \/ Occurrences(text, c.old) = 0
      \/ Occurrences(text, c.old) > 1 /\ ~c.all
      \/ \A t \in {text, c.old} : ToSet(t) \cap CarriageReturns # {}
  <2> DEFINE old == Normalised(c.old)
  <2>1. ~Decodes(text) \/ ~Replaces(c, text)
    BY DEF EditRefused
  <2>2. c.old \in Names /\ Len(c.old) \in Nat /\ Len(text) \in Nat
    BY <1>1, <1>2, StoreAssumption, StringsArePieces, LenProperties DEF Names
  <2>3. \A t \in Names : Occurrences(text, t) \in Nat
    <3> SUFFICES ASSUME NEW t \in Names PROVE Occurrences(text, t) \in Nat
      OBVIOUS
    <3>1. Len(t) \in Nat
      BY LenProperties DEF Names
    <3>2. IsFiniteSet(1..Len(text) - Len(t) + 1)
      BY <2>2, <3>1, FS_Interval
    <3>3. IsFiniteSet(Places(text, t))
      BY <3>2, FS_Subset DEF Places
    <3> QED
      BY <3>3, FS_CardinalityType DEF Occurrences
  <2>4. CASE ToSet(c.old) \cap CarriageReturns = {}
    <3>1. old = c.old
      BY <2>2, <2>4, LenProperties DEF Normalised, ToSet, Names
    <3> QED
      BY <2>1, <2>2, <2>3, <3>1 DEF Replaces
  <2>5. CASE ToSet(c.old) \cap CarriageReturns # {} /\ ToSet(text) \cap CarriageReturns = {}
    <3>1. PICK j \in 1..Len(c.old) : c.old[j] \in CarriageReturns
      BY <2>2, <2>5, LenProperties DEF ToSet, Names
    <3>2. ASSUME NEW i \in Places(text, c.old) PROVE FALSE
      <4>1. /\ i \in Nat \ {0} /\ i + Len(c.old) - 1 <= Len(text)
            /\ SubSeq(text, i, i + Len(c.old) - 1) = c.old
        BY <2>2, <3>2 DEF Places
      <4>2. SubSeq(text, i, i + Len(c.old) - 1)[j] = text[i + j - 1] /\ i + j - 1 \in 1..Len(text)
        BY <2>2, <3>1, <4>1
      <4>3. i + j - 1 \in DOMAIN text
        BY <1>2, <4>2, LenProperties DEF Names
      <4> QED
        BY <2>5, <3>1, <4>1, <4>2, <4>3 DEF ToSet
    <3>3. Places(text, c.old) = {}
      BY <3>2
    <3> QED
      BY <3>3, FS_EmptySet DEF Occurrences
  <2> QED
    BY <2>4, <2>5
<1> HIDE DEF k, n, text, c
<1> QED
  BY <1>1, <1>2, <1>3, <1>4 DEF RefusedRightly, c

LEMMA GetKeeps ==
  ASSUME S3Inv, NEW w \in Workers,
         GetMissing(w) \/ ReadFile(w) \/ EditGet(w) \/ EditRefused(w)
  PROVE  S3Inv'
<1>1. /\ StoreTypes /\ WorkerFacts(w) /\ versions' = versions /\ call' = call /\ since' = since
      /\ todo' = todo /\ found' = found /\ skipped' = skipped
      /\ pc[w] = "get" /\ call[w].op \in {"read", "edit"}
      /\ found[w] = {} /\ todo[w] = {} /\ skipped[w] = {}
  BY DEF S3Inv, GetMissing, ReadFile, EditGet, EditRefused, callVars, WorkerFacts, Called
<1>2. KeyOf(w) \in StoreKeys /\ KeyOf(w)' = KeyOf(w) /\ call[w] # NoCall
  BY <1>1, CallHasKey, CallShapes DEF RootKeys, KeyOf
<1>3. \A k \in StoreKeys : Len(versions[k]) \in Nat
  BY <1>1, VersionsAreSeqs
<1> DEFINE n == Len(versions[KeyOf(w)])
<1>4. KeyOf(w) \in Objects => n \in DOMAIN versions[KeyOf(w)]
                              /\ Current(KeyOf(w)) = versions[KeyOf(w)][n].text
                              /\ Current(KeyOf(w)) \in Names
  <2>1. n \in Nat /\ DOMAIN versions[KeyOf(w)] = 1..n
        /\ \A i \in 1..n : versions[KeyOf(w)][i] \in Version
    BY <1>1, <1>2, VersionsAreSeqs
  <2>2. KeyOf(w) \in Objects => n # 0
    BY <1>1, <1>2, EmptySeq DEF Objects, StoreTypes
  <2> QED
    BY <2>1, <2>2 DEF Current, Last, Version
<1>5. \A q \in Workers \ {w} : Same(q)
  BY <1>1, Returned DEF GetMissing, ReadFile, EditGet, EditRefused, Same, StoreTypes
<1>6. CASE \E how \in {"missing", "ok", "refused"} : Return(w, how)
  <2>1. PICK how \in {"missing", "ok", "refused"} : Return(w, how)
    BY <1>6
  <2>2. /\ pc'[w] = "done" /\ answer'[w] = how
        /\ \A k \in StoreKeys : until'[w][k] = Len(versions[k])
        /\ pc' = [pc EXCEPT ![w] = "done"] /\ answer' = [answer EXCEPT ![w] = how]
        /\ until' \in [Workers -> [StoreKeys -> Nat]]
    BY <1>1, <2>1, Returned DEF StoreTypes
  <2>3. /\ how = "ok" => call[w].op = "read"
        /\ how = "refused" => EditRefused(w)
    <3>1. GetMissing(w) => answer'[w] = "missing"
      BY <1>1, Returned DEF GetMissing, StoreTypes
    <3>2. ReadFile(w) => answer'[w] = "ok" /\ call[w].op = "read"
      BY <1>1, Returned DEF ReadFile, StoreTypes
    <3>3. ~EditGet(w)
      BY <1>1, <2>2 DEF EditGet, StoreTypes
    <3>4. EditRefused(w) => answer'[w] = "refused"
      BY <1>1, Returned DEF EditRefused, StoreTypes
    <3> QED
      BY <2>2, <3>1, <3>2, <3>3, <3>4
  <2>4. got' \in [Workers -> Names \cup {NoText}]
    BY <1>1, <1>4 DEF GetMissing, ReadFile, EditGet, EditRefused, StoreTypes
  <2>5. StoreTypes'
    BY <1>1, <2>2, <2>4 DEF StoreTypes
  <2>6. Called(w)'
    BY <1>1, <1>2, <2>2 DEF Called
  <2>7. Timed(w)'
    BY <1>1, <1>3, <2>2 DEF Timed, WorkerFacts
  <2>8. Wrote(w)'
    BY <1>1, <2>2, <2>3, UnwrittenKeeps
  <2>9. Refused(w)'
    BY <2>2, <2>3, RefusalHasGrounds DEF Refused
  <2>10. Grounded(w)' /\ Listed(w)' /\ Searched(w)'
    BY <1>1, <2>2 DEF Grounded, Listed, Searched
  <2> QED
    BY <1>1, <1>5, <2>5, <2>6, <2>7, <2>8, <2>9, <2>10, Acts, SameGrows DEF WorkerFacts, StoreTypes
<1>7. CASE EditGet(w)
  <2>1. /\ pc'[w] = "put" /\ got'[w] = Current(KeyOf(w)) /\ until' = until /\ answer' = answer
        /\ KeyOf(w) \in Objects /\ Replaces(call[w], Current(KeyOf(w)))
        /\ call[w].op = "edit"
    BY <1>1, <1>7 DEF EditGet, StoreTypes
  <2>2. StoreTypes'
    BY <1>1, <1>4, <1>7 DEF EditGet, StoreTypes
  <2>3. Called(w)'
    BY <1>1, <1>2, <2>1 DEF Called
  <2>4. Timed(w)'
    BY <1>1, <2>1 DEF Timed, WorkerFacts
  <2>5. Grounded(w)'
    <3>1. n >= since[w][KeyOf(w)]
      BY <1>1, <1>2, <1>3 DEF WorkerFacts, Timed, StoreTypes
    <3> QED
      BY <1>1, <1>2, <1>4, <2>1, <3>1 DEF Grounded
  <2>6. Wrote(w)'
    BY <1>1, <2>1, UnwrittenKeeps
  <2>7. Refused(w)' /\ Listed(w)' /\ Searched(w)'
    BY <1>1, <2>1 DEF Refused, Listed, Searched
  <2> QED
    BY <1>1, <1>5, <2>2, <2>3, <2>4, <2>5, <2>6, <2>7, Acts, SameGrows DEF WorkerFacts, StoreTypes
<1> QED
  BY <1>6, <1>7 DEF GetMissing, ReadFile, EditRefused

(* Every copy of a put is the call's content, at its own key.              *)
LEMMA PutKeeps ==
  ASSUME S3Inv, NEW w \in Workers, PutAgain(w) \/ PutOk(w) \/ PutFails(w)
  PROVE  S3Inv'
<1> DEFINE k == KeyOf(w)
           n == Len(versions[k])
           v == [by |-> w, text |-> Body(w)]
           Put == versions' = [versions EXCEPT ![k] = Append(@, v)]
<1>1. /\ StoreTypes /\ WorkerFacts(w) /\ call' = call /\ since' = since /\ got' = got
      /\ todo' = todo /\ found' = found /\ skipped' = skipped
      /\ pc[w] = "put" /\ call[w].op \in {"write", "edit"}
      /\ found[w] = {} /\ todo[w] = {} /\ skipped[w] = {}
  BY DEF S3Inv, PutAgain, PutOk, PutFails, callVars, WorkerFacts, Called
<1>2. /\ k \in StoreKeys /\ k' = k /\ call[w] # NoCall /\ call[w] \in ToolCalls
      /\ n \in Nat /\ DOMAIN versions[k] = 1..n
      /\ \A i \in 1..n : versions[k][i] \in Version
  BY <1>1, CallHasKey, CallShapes, VersionsAreSeqs DEF RootKeys, KeyOf
<1>3. v \in Version
  <2>1. CASE call[w].op = "write"
    <3>1. call[w].text \in Names
      BY <1>2, <2>1, CallShapes, StoreAssumption, StringsArePieces
    <3> QED
      BY <2>1, <3>1 DEF Body, Version
  <2>2. CASE call[w].op = "edit"
    <3>1. call[w].new \in Names
      BY <1>2, <2>2, CallShapes, StoreAssumption, StringsArePieces
    <3>2. got[w] \in Names
      BY <1>1, <1>2, <2>2 DEF WorkerFacts, Grounded, Version
    <3>3. Replaced(call[w], got[w]) \in Names
      BY <3>1, <3>2, TextsReplaced
    <3> QED
      BY <2>2, <3>3 DEF Body, Version
  <2> QED
    BY <1>1, <2>1, <2>2
<1>4. versions' = versions \/ Put
  BY DEF PutAgain, PutOk, PutFails, Stored
<1>5. versions' \in [StoreKeys -> Seq(Version)] /\ Grown
  <2> HIDE DEF k, v
  <2> QED
    BY <1>1, <1>2, <1>3, <1>4, SameGrows, PutGrows DEF StoreTypes
<1>6. /\ StoreTypes'
      /\ \A q \in Workers \ {w} : Same(q)
      /\ \/ pc'[w] = "put" /\ until'[w] = until[w] /\ Put
         \/ /\ pc'[w] = "done" /\ answer'[w] \in {"ok", "error"}
            /\ answer'[w] = "ok" => Put
            /\ \A x \in StoreKeys : until'[w][x] = Len(versions'[x])
  <2>1. CASE PutAgain(w)
    BY <1>1, <1>5, <2>1 DEF PutAgain, Stored, Same, StoreTypes
  <2>2. CASE PutOk(w) \/ PutFails(w)
    <3>1. PICK how \in {"ok", "error"} : Return(w, how) /\ (how = "ok" => Put)
      BY <2>2 DEF PutOk, PutFails, Stored
    <3>2. /\ pc'[w] = "done" /\ answer'[w] = how
          /\ pc' = [pc EXCEPT ![w] = "done"] /\ answer' = [answer EXCEPT ![w] = how]
          /\ \A x \in StoreKeys : until'[w][x] = Len(versions'[x])
          /\ until' \in [Workers -> [StoreKeys -> Nat]]
          /\ \A q \in Workers \ {w} : Same(q)
      <4>1. Return(w, how)
        BY <3>1
      <4> QED
        BY <1>1, <1>5, <4>1, Returned DEF Same
    <3>3. StoreTypes'
      BY <1>1, <1>5, <3>2 DEF StoreTypes
    <3> QED
      BY <3>1, <3>2, <3>3
  <2> QED
    BY <2>1, <2>2
<1>7. Called(w)' /\ Refused(w)' /\ Listed(w)' /\ Searched(w)'
  BY <1>1, <1>2, <1>6 DEF Called, Refused, Listed, Searched
<1>8. Grounded(w)'
  BY <1>1, <1>2, <1>5 DEF WorkerFacts, Grounded, Grown
<1>9. Timed(w)'
  <2>1. \A x \in StoreKeys : /\ Len(versions[x]) \in Nat /\ Len(versions'[x]) \in Nat
                             /\ since[w][x] \in Nat /\ until[w][x] \in Nat
    BY <1>1, <1>5, LenProperties DEF StoreTypes
  <2>2. \A x \in StoreKeys : since[w][x] <= Len(versions[x]) /\ until[w][x] <= Len(versions[x])
    BY <1>1 DEF Timed, WorkerFacts
  <2>3. \A x \in StoreKeys : Len(versions[x]) <= Len(versions'[x])
    BY <1>5 DEF Grown
  <2>4. \A x \in StoreKeys : since[w][x] <= Len(versions'[x]) /\ until[w][x] <= Len(versions'[x])
    BY <2>1, <2>2, <2>3
  <2> QED
    BY <1>1, <1>6, <2>1, <2>4 DEF Timed
<1>10. ASSUME NEW x \in StoreKeys, NEW i \in DOMAIN versions'[x]
       PROVE  \/ i \in DOMAIN versions[x] /\ versions'[x][i] = versions[x][i]
              \/ Put /\ x = k /\ i = n + 1 /\ versions'[x][i] = v
  <2> HIDE DEF k, v
  <2>1. CASE versions' = versions
    BY <2>1
  <2>2. CASE Put
    BY <1>1, <1>2, <1>3, <2>2, PutGrows DEF StoreTypes, n
  <2> QED
    BY <1>4, <2>1, <2>2
<1>11. v.by = w /\ v.text = Body(w) /\ Body(w)' = Body(w)
  BY <1>1 DEF Body
<1>12. ASSUME NEW x \in StoreKeys, NEW i \in DOMAIN versions'[x], versions'[x][i].by = w
       PROVE  /\ x = k /\ i \in Nat /\ i > since[w][x] /\ versions'[x][i].text = Body(w)
              /\ call[w].op = "edit" => EditedFrom(w, x, i, versions[x][i].text)'
  <2>1. CASE i \in DOMAIN versions[x] /\ versions'[x][i] = versions[x][i]
    <3>1. /\ x = k /\ i > since[w][x] /\ versions[x][i].text = Body(w)
          /\ call[w].op = "edit" => EditedFrom(w, x, i, versions[x][i].text)
      BY <1>1, <1>12, <2>1 DEF WorkerFacts, Wrote
    <3>2. ASSUME call[w].op = "edit" PROVE EditedFrom(w, x, i, versions[x][i].text)'
      <4>1. PICK j \in 1..i - 1 :
               /\ j >= since[w][x] /\ Replaces(call[w], versions[x][j].text)
               /\ versions[x][i].text = Replaced(call[w], versions[x][j].text)
        BY <3>1, <3>2 DEF EditedFrom
      <4>2. i \in 1..n /\ j \in DOMAIN versions[x]
        BY <1>2, <2>1, <3>1, <4>1
      <4>3. versions'[x][j] = versions[x][j]
        BY <1>5, <4>2 DEF Grown
      <4> QED
        BY <1>1, <2>1, <4>1, <4>3 DEF EditedFrom
    <3> QED
      BY <1>2, <2>1, <3>1, <3>2
  <2>2. CASE x = k /\ i = n + 1 /\ versions'[x][i] = v
    <3>1. since[w][k] \in Nat /\ since[w][k] <= n
      BY <1>1, <1>2 DEF WorkerFacts, Timed, StoreTypes
    <3>2. ASSUME call[w].op = "edit" PROVE EditedFrom(w, x, i, versions[x][i].text)'
      <4>1. PICK j \in DOMAIN versions[k] :
               /\ j >= since[w][k] /\ versions[k][j].text = got[w]
               /\ Replaces(call[w], got[w])
        BY <1>1, <3>2 DEF WorkerFacts, Grounded
      <4>2. versions'[k][j] = versions[k][j] /\ j \in 1..i - 1
        BY <1>2, <1>5, <2>2, <4>1 DEF Grown
      <4>3. versions'[x][i].text = Replaced(call[w], got[w])
        BY <1>1, <1>11, <2>2, <3>2 DEF Body
      <4> HIDE DEF k, n, v
      <4> QED
        BY <1>1, <2>2, <4>1, <4>2, <4>3 DEF EditedFrom
    <3> QED
      BY <1>2, <1>11, <2>2, <3>1, <3>2
  <2> QED
    BY <1>10, <2>1, <2>2
<1>13. Put => n + 1 \in DOMAIN versions'[k] /\ versions'[k][n + 1].by = w
  <2> SUFFICES ASSUME Put PROVE n + 1 \in DOMAIN versions'[k] /\ versions'[k][n + 1] = v
    BY <1>11
  <2> HIDE DEF k, v
  <2> QED
    BY <1>1, <1>2, <1>3, PutGrows DEF StoreTypes, n
<1>14. Wrote(w)'
  <2>1. \A x \in StoreKeys : Len(versions'[x]) \in Nat /\ DOMAIN versions'[x] = 1..Len(versions'[x])
    BY <1>5, LenProperties
  <2>2. \A x \in StoreKeys : \A i \in DOMAIN versions'[x] :
           pc'[w] = "done" => answer'[w] \in {"ok", "error"} /\ i <= until'[w][x]
    BY <1>6, <2>1
  <2>3. pc'[w] \in {"put", "done"}
    BY <1>6
  <2>4. call'[w] = call[w] /\ since'[w] = since[w] /\ KeyOf(w)' = KeyOf(w)
    BY <1>1, <1>2
  <2>5. pc'[w] = "done" /\ answer'[w] = "ok" =>
          \E i \in DOMAIN versions'[k] : versions'[k][i].by = w
    BY <1>6, <1>13
  <2> HIDE DEF n, v, Put
  <2> QED
    BY <1>1, <1>11, <1>12, <2>2, <2>3, <2>4, <2>5 DEF Wrote
<1>15. \A x \in StoreKeys : \A i \in DOMAIN versions'[x] :
         i \in DOMAIN versions[x] \/ versions'[x][i].by = w
  BY <1>10, <1>11
<1> QED
  BY <1>1, <1>5, <1>6, <1>7, <1>8, <1>9, <1>14, <1>15, Acts DEF WorkerFacts

-----------------------------------------------------------------------------
(* The calls that search.                                                  *)

LEMMA SyncKeyIsName ==
  ASSUME NEW f \in DOMAIN SyncFiles
  PROVE  SyncKey(f) \in Names
<1> DEFINE dest == IF EndsWithSlash(SyncDest) THEN Front(SyncDest) ELSE SyncDest
           uri == dest \o <<"/">>
           slashes == {i \in DOMAIN uri : uri[i] = "/"}
<1>1. dest \in Names
  <2>1. SyncDest \in Names /\ Len(SyncDest) \in Nat
    BY UriAssumption, StringsArePieces, LenProperties DEF Names
  <2>2. Front(SyncDest) \in Names
    BY <2>1 DEF Front, Names
  <2> QED
    BY <2>1, <2>2
<1>2. /\ uri \in Names /\ Len(uri) = Len(dest) + 1 /\ Len(dest) \in Nat
      /\ DOMAIN uri = 1..Len(uri) /\ uri[Len(dest) + 1] = "/"
  <2> HIDE DEF dest
  <2>1. uri \in Names /\ Len(uri) = Len(dest) + 1 /\ Len(dest) \in Nat /\ uri[Len(dest) + 1] = "/"
    BY <1>1, Pieced, ConcatProperties, LenProperties DEF Names
  <2> HIDE DEF uri
  <2> QED
    BY <2>1, LenProperties DEF Names
<1> HIDE DEF uri, dest
<1>3. Min(slashes) \in slashes
  <2>1. slashes \in SUBSET Nat /\ slashes # {}
    BY <1>2
  <2> HIDE DEF slashes
  <2> QED
    BY <2>1, MinOfSet
<1>4. UriPath(uri) = SubSeq(uri, Min(slashes), Len(uri)) /\ slashes # {}
  BY <1>3 DEF UriPath
<1>5. Min(slashes) \in 1..Len(uri)
  BY <1>2, <1>3
<1>6. UriPath(uri) \in Names /\ UriPath(uri) # <<>>
  <2> HIDE DEF slashes
  <2> DEFINE m == Min(slashes)
  <2> HIDE DEF m
  <2>1. m \in 1..Len(uri) /\ Len(uri) \in Nat /\ uri \in Seq(Pieces)
    BY <1>2, <1>5 DEF m, Names
  <2>2. SubSeq(uri, m, Len(uri)) \in Seq(Pieces) /\ Len(SubSeq(uri, m, Len(uri))) > 0
    BY <2>1
  <2>3. UriPath(uri) = SubSeq(uri, m, Len(uri))
    BY <1>4 DEF m
  <2> DEFINE t == SubSeq(uri, m, Len(uri))
  <2>5. t # <<>>
    <3> HIDE DEF t
    <3>1. t \in Seq(Pieces) /\ Len(t) > 0
      BY <2>2 DEF t
    <3> QED
      BY <3>1
  <2> QED
    BY <2>2, <2>3, <2>5 DEF Names
<1>7. Tail(UriPath(uri)) \in Names
  BY <1>6, HeadTailProperties DEF Names
<1>8. f \in Names
  BY StoreAssumption, StringsArePieces
<1> QED
  BY <1>7, <1>8, ConcatProperties DEF SyncKey, Names, uri, dest

LEMMA KeysAreNames ==
  ASSUME NEW k \in StoreKeys
  PROVE  k \in Names
BY StoreAssumption, StringsArePieces, KeysInRoot, SyncKeyIsName DEF StoreKeys

(* What a directory of the root lists is in the root.                      *)
LEMMA LsInRoot ==
  ASSUME NEW p \in Names, NEW f \in LsFiles(Objects, p)
  PROVE  \E k \in RootKeys : versions[k] # <<>> /\ f = PathFor(k)
<1>1. PICK k \in ContentsOf(Objects, DirKeyPrefix(p)) : f = PathFor(k)
  BY DEF LsFiles
<1>2. k \in StoreKeys /\ versions[k] # <<>> /\ IsPrefix(DirKeyPrefix(p), k)
  BY <1>1 DEF ContentsOf, Below, Objects
<1>3. IsPrefix(RootPrefix, k)
  BY <1>2, KeysAreNames, KeysInRoot, RootIsName, PrefixTrans DEF Names
<1> QED
  BY <1>1, <1>2, <1>3 DEF RootKeys

(* A call that ends without a put: what its answer must not claim.         *)
LEMMA ReadsEnd ==
  ASSUME S3Inv, NEW w \in Workers, NEW how \in {"ok", "error"}, Return(w, how),
         pc[w] \in {"get", "list", "scan"}, how = "ok" => call[w].op \notin {"write", "edit"},
         versions' = versions, call' = call, since' = since, got' = got, todo' = todo,
         skipped' = skipped, found' = [found EXCEPT ![w] = found'[w]],
         (Listed(w) /\ Searched(w))'
  PROVE  S3Inv'
<1>1. StoreTypes /\ WorkerFacts(w)
  BY DEF S3Inv
<1>2. /\ pc'[w] = "done" /\ answer'[w] = how
      /\ pc' = [pc EXCEPT ![w] = "done"] /\ answer' = [answer EXCEPT ![w] = how]
      /\ \A k \in StoreKeys : until'[w][k] = Len(versions[k])
      /\ until' \in [Workers -> [StoreKeys -> Nat]]
      /\ \A q \in Workers \ {w} : Same(q)
  <2>1. \A q \in Workers \ {w} : found'[q] = found[q]
    BY <1>1 DEF StoreTypes
  <2> QED
    BY <1>1, <2>1, Returned DEF Same, StoreTypes
<1>3. found' = [q \in Workers |-> found'[q]]
  BY <1>1 DEF StoreTypes
<1>4. StoreTypes'
  BY <1>1, <1>2, <1>3 DEF StoreTypes
<1>5. Called(w)' /\ Grounded(w)' /\ Refused(w)'
  BY <1>1, <1>2 DEF WorkerFacts, Called, Grounded, Refused
<1>6. Timed(w)'
  <2>1. \A k \in StoreKeys : Len(versions[k]) \in Nat
    BY <1>1, VersionsAreSeqs
  <2> QED
    BY <1>1, <1>2, <2>1 DEF Timed, WorkerFacts
<1>7. Wrote(w)'
  BY <1>2, UnwrittenKeeps
<1> QED
  BY <1>1, <1>2, <1>4, <1>5, <1>6, <1>7, Acts, SameGrows DEF WorkerFacts, StoreTypes

LEMMA ListKeeps ==
  ASSUME S3Inv, NEW w \in Workers, Ls(w) \/ Glob(w)
  PROVE  S3Inv'
<1>1. /\ StoreTypes /\ pc[w] = "list" /\ call[w].op \in {"ls", "glob"}
      /\ versions' = versions /\ call' = call /\ since' = since /\ got' = got /\ todo' = todo
      /\ skipped' = skipped /\ Return(w, "ok")
  BY DEF S3Inv, Ls, Glob, callVars
<1>2. found' = [found EXCEPT ![w] = found'[w]]
  BY <1>1 DEF Ls, Glob, StoreTypes
<1>3. ASSUME NEW p \in found'[w]
      PROVE  \E k \in RootKeys : versions[k] # <<>> /\ p = PathFor(k)
  <2>1. CASE Ls(w)
    <3>1. p \in LsFiles(Objects, call[w].path)
      BY <1>1, <1>3, <2>1 DEF Ls, StoreTypes
    <3>2. call[w].path \in Names
      BY <1>1, <2>1, CallHasKey DEF Ls
    <3> QED
      BY <3>1, <3>2, LsInRoot
  <2>2. CASE Glob(w)
    <3>1. p \in {PathFor(k) : k \in SearchedKeys(Objects)}
      BY <1>1, <1>3, <2>2 DEF Glob, StoreTypes
    <3> QED
      BY <3>1 DEF SearchedKeys, Below, Objects, RootKeys
  <2> QED
    BY <2>1, <2>2
<1>4. Listed(w)' /\ Searched(w)'
  <2>1. pc'[w] = "done"
    BY <1>1, Returned DEF StoreTypes
  <2>2. todo[w] = {}
    BY <1>1 DEF S3Inv, WorkerFacts, Called
  <2> QED
    BY <1>1, <1>3, <2>1, <2>2 DEF Listed, Searched
<1> QED
  BY <1>1, <1>2, <1>4, ReadsEnd

LEMMA FailKeeps ==
  ASSUME S3Inv, NEW w \in Workers, RequestFails(w)
  PROVE  S3Inv'
<1>1. /\ StoreTypes /\ WorkerFacts(w) /\ pc[w] \in {"get", "list", "scan"}
      /\ versions' = versions /\ call' = call /\ since' = since /\ got' = got /\ todo' = todo
      /\ skipped' = skipped /\ found' = found /\ Return(w, "error")
  BY DEF S3Inv, RequestFails, callVars
<1>2. /\ pc'[w] = "done" /\ answer'[w] = "error"
      /\ \A k \in StoreKeys : until'[w][k] = Len(versions[k])
  BY <1>1, Returned DEF StoreTypes
<1>3. Listed(w)'
  <2>1. \A k \in StoreKeys : \A i \in DOMAIN versions[k] :
           During(w, k, i) => During(w, k, i)' /\ Hit(k, i)' = Hit(k, i)
    <3>1. \A k \in StoreKeys : \A i \in DOMAIN versions[k] : i <= Len(versions[k])
      BY <1>1, VersionsAreSeqs
    <3> QED
      BY <1>1, <1>2, <3>1 DEF During, Hit
  <2> QED
    BY <1>1, <2>1 DEF Listed, WorkerFacts, RootKeys
<1>4. Searched(w)'
  BY <1>2 DEF Searched
<1>5. found' = [found EXCEPT ![w] = found'[w]]
  BY <1>1 DEF StoreTypes
<1> QED
  BY <1>1, <1>3, <1>4, <1>5, ReadsEnd

(* The listing: every object is still to do, and nothing is found yet.     *)
LEMMA GrepListKeeps ==
  ASSUME S3Inv, NEW w \in Workers, GrepList(w)
  PROVE  S3Inv'
<1>1. /\ StoreTypes /\ WorkerFacts(w) /\ pc'[w] = "scan" /\ call[w].op = "grep"
      /\ todo'[w] = SearchedKeys(Objects) /\ found[w] = {}
      /\ versions' = versions /\ call' = call /\ since' = since /\ got' = got
      /\ skipped' = skipped /\ found' = found /\ answer' = answer /\ until' = until
      /\ \A q \in Workers \ {w} : Same(q)
  BY DEF S3Inv, GrepList, callVars, StoreTypes, WorkerFacts, Called, Same
<1>2. SearchedKeys(Objects) = {k \in Searchable : versions[k] # <<>>}
  BY DEF SearchedKeys, Searchable, Below, Objects
<1>3. StoreTypes'
  BY <1>1, <1>2 DEF StoreTypes, GrepList
<1>4. Called(w)' /\ Grounded(w)' /\ Refused(w)' /\ Timed(w)' /\ Listed(w)'
  BY <1>1, <1>2 DEF NoCall, Called, Grounded, Refused, Timed, Listed, WorkerFacts
<1>5. Wrote(w)'
  BY <1>1, UnwrittenKeeps DEF GrepList
<1>6. Searched(w)'
  <2>1. ASSUME NEW k \in Searchable, since[w][k] > 0 PROVE versions[k] # <<>>
    <3>1. k \in StoreKeys /\ since[w][k] \in Nat
      BY <1>1 DEF Searchable, SearchedKeys, Below, StoreTypes
    <3>2. Len(versions[k]) > 0
      BY <1>1, <2>1, <3>1, VersionsAreSeqs DEF WorkerFacts, Timed
    <3>3. Len(<<>>) = 0
      BY EmptySeq
    <3> QED
      BY <3>2, <3>3
  <2> QED
    BY <1>1, <1>2, <2>1 DEF Searched
<1> QED
  BY <1>1, <1>3, <1>4, <1>5, <1>6, Acts, SameGrows DEF WorkerFacts, StoreTypes

(* One download more: the object's text is found, or the object skipped.   *)
LEMMA GrepScanKeeps ==
  ASSUME S3Inv, NEW w \in Workers, NEW k \in todo[w], GrepFile(w, k) \/ GrepSkip(w, k)
  PROVE  S3Inv'
<1> DEFINE n == Len(versions[k])
<1>1. /\ StoreTypes /\ WorkerFacts(w) /\ pc[w] = "scan" /\ pc' = pc /\ call[w].op = "grep"
      /\ todo' = [todo EXCEPT ![w] = @ \ {k}]
      /\ versions' = versions /\ call' = call /\ since' = since /\ got' = got
      /\ answer' = answer /\ until' = until
  BY DEF S3Inv, GrepFile, GrepSkip, callVars, WorkerFacts, Called
<1>2. k \in Searchable /\ k \in StoreKeys /\ k \in RootKeys
  BY <1>1 DEF StoreTypes, Searchable, SearchedKeys, Below, RootKeys
<1>3. /\ todo'[w] = todo[w] \ {k}
      /\ \/ found' = found /\ skipped'[w] = skipped[w] \cup {k}
         \/ /\ skipped' = skipped
            /\ found'[w] = found[w] \cup {[path |-> PathFor(k), text |-> Current(k)]}
      /\ \A q \in Workers \ {w} : Same(q)
  BY <1>1 DEF GrepFile, GrepSkip, StoreTypes, Same
<1>4. StoreTypes'
  <2>1. found' = [q \in Workers |-> found'[q]]
    BY <1>1 DEF GrepFile, GrepSkip, StoreTypes
  <2>2. skipped' \in [Workers -> SUBSET Searchable]
    <3>1. k \in Searchable /\ skipped \in [Workers -> SUBSET Searchable]
      BY <1>1 DEF StoreTypes
    <3>2. skipped[w] \cup {k} \in SUBSET Searchable
      BY <3>1
    <3>3. \/ skipped' = skipped
          \/ skipped' = [skipped EXCEPT ![w] = skipped[w] \cup {k}]
      BY DEF GrepFile, GrepSkip
    <3> QED
      BY <3>1, <3>2, <3>3
  <2>3. todo' \in [Workers -> SUBSET Searchable]
    BY <1>1 DEF StoreTypes
  <2> QED
    BY <1>1, <2>1, <2>2, <2>3 DEF StoreTypes
<1>5. Called(w)' /\ Grounded(w)' /\ Refused(w)' /\ Timed(w)'
  BY <1>1 DEF NoCall, Called, Grounded, Refused, Timed, WorkerFacts
<1>6. Wrote(w)'
  BY <1>1, UnwrittenKeeps
<1>7. \A x \in StoreKeys : \A i \in DOMAIN versions[x] :
         During(w, x, i)' = During(w, x, i) /\ Hit(x, i)' = Hit(x, i)
  BY <1>1 DEF During, Hit
<1>7a. /\ n \in DOMAIN versions[k] /\ During(w, k, n)
       /\ [path |-> PathFor(k), text |-> Current(k)] = Hit(k, n)
  <2>1. versions[k] # <<>>
    BY <1>1 DEF Listed, WorkerFacts
  <2>2. n # 0
    BY <1>1, <1>2, <2>1, EmptySeq DEF StoreTypes
  <2>3. n \in DOMAIN versions[k] /\ n >= since[w][k]
    BY <1>1, <1>2, <2>2, VersionsAreSeqs DEF WorkerFacts, Timed, StoreTypes
  <2> QED
    BY <1>1, <2>3 DEF During, Hit, Current, Last
<1>8. found' = found \/ found'[w] = found[w] \cup {Hit(k, n)}
  BY <1>3, <1>7a
<1>9. Listed(w)'
  <2>1. ASSUME NEW f \in found'[w]
        PROVE  \E x \in RootKeys : \E i \in DOMAIN versions[x] : During(w, x, i) /\ f = Hit(x, i)
    <3>1. CASE f \in found[w]
      BY <1>1, <3>1 DEF Listed, WorkerFacts
    <3>2. CASE f \notin found[w]
      BY <1>2, <1>8, <1>7a, <2>1, <3>2
    <3> QED
      BY <3>1, <3>2
  <2>2. RootKeys \subseteq StoreKeys
    BY DEF RootKeys
  <2>3. \A x \in todo'[w] : versions'[x] # <<>>
    BY <1>1, <1>3 DEF Listed, WorkerFacts
  <2> QED
    BY <1>1, <1>7, <2>1, <2>2, <2>3 DEF Listed
<1>10. Searched(w)'
  <2> SUFFICES ASSUME NEW x \in Searchable, since[w][x] > 0
               PROVE  \/ x \in todo'[w] \cup skipped'[w]
                      \/ \E i \in DOMAIN versions[x] : During(w, x, i) /\ Hit(x, i) \in found'[w]
    <3>1. Searchable \subseteq StoreKeys
      BY DEF Searchable, SearchedKeys, Below
    <3> QED
      BY <1>1, <1>7, <3>1 DEF Searched
  <2>1. \/ x \in todo[w] \cup skipped[w]
        \/ \E i \in DOMAIN versions[x] : During(w, x, i) /\ Hit(x, i) \in found[w]
    BY <1>1 DEF Searched, WorkerFacts
  <2>2. found[w] \subseteq found'[w] /\ skipped[w] \subseteq skipped'[w]
    BY <1>3, <1>8
  <2>3. CASE x = k
    <3>1. CASE skipped'[w] = skipped[w] \cup {k}
      BY <2>3, <3>1
    <3>2. CASE found'[w] = found[w] \cup {[path |-> PathFor(k), text |-> Current(k)]}
      BY <1>7a, <2>3, <3>2
    <3> QED
      BY <1>3, <3>1, <3>2
  <2>4. CASE x # k
    BY <1>3, <2>1, <2>2, <2>4
  <2> QED
    BY <2>3, <2>4
<1> QED
  BY <1>1, <1>3, <1>4, <1>5, <1>6, <1>9, <1>10, Acts, SameGrows DEF WorkerFacts, StoreTypes

(* The end of the search: what holds the pattern stays.                    *)
LEMMA GrepMatchKeeps ==
  ASSUME S3Inv, NEW w \in Workers, GrepMatch(w)
  PROVE  S3Inv'
<1>1. /\ StoreTypes /\ WorkerFacts(w) /\ pc[w] = "scan" /\ call[w].op = "grep" /\ todo[w] = {}
      /\ versions' = versions /\ call' = call /\ since' = since /\ got' = got /\ todo' = todo
      /\ skipped' = skipped /\ Return(w, "ok")
      /\ found' = [found EXCEPT ![w] = found'[w]]
      /\ found'[w] = {f \in found[w] : Occurrences(f.text, call[w].old) > 0}
  BY DEF S3Inv, GrepMatch, callVars, WorkerFacts, Called, StoreTypes
<1>2. /\ pc'[w] = "done" /\ answer'[w] = "ok"
      /\ \A k \in StoreKeys : until'[w][k] = Len(versions[k])
  BY <1>1, Returned DEF StoreTypes
<1>3. \A k \in StoreKeys : \A i \in DOMAIN versions[k] :
         During(w, k, i) => During(w, k, i)' /\ Hit(k, i)' = Hit(k, i)
  <2>1. \A k \in StoreKeys : \A i \in DOMAIN versions[k] : i <= Len(versions[k])
    BY <1>1, VersionsAreSeqs
  <2> QED
    BY <1>1, <1>2, <2>1 DEF During, Hit
<1>4. Listed(w)'
  BY <1>1, <1>3 DEF Listed, WorkerFacts, RootKeys
<1>5. Searched(w)'
  <2>1. ASSUME NEW k \in Searchable, since[w][k] > 0, k \notin skipped[w]
        PROVE  \E i \in DOMAIN versions[k] :
                  /\ During(w, k, i)'
                  /\ Hit(k, i)' \in found'[w] \/ ~(Occurrences(versions[k][i].text, call[w].old) > 0)
    <3>1. k \in StoreKeys
      BY DEF Searchable, SearchedKeys, Below
    <3>2. PICK i \in DOMAIN versions[k] : During(w, k, i) /\ Hit(k, i) \in found[w]
      BY <1>1, <2>1 DEF Searched, WorkerFacts
    <3>3. Hit(k, i).text = versions[k][i].text
      BY DEF Hit
    <3> QED
      BY <1>1, <1>3, <3>1, <3>2, <3>3
  <2> QED
    BY <1>1, <1>2, <2>1 DEF Searched
<1> QED
  BY <1>1, <1>4, <1>5, ReadsEnd

-----------------------------------------------------------------------------
(* The invariant.                                                          *)

(* An upload is nobody's put.                                              *)
LEMMA SyncKeeps ==
  ASSUME S3Inv, NEW f \in DOMAIN SyncFiles, Sync(f)
  PROVE  S3Inv'
<1> DEFINE k == SyncKey(f)
           v == [by |-> NoWorker, text |-> SyncFiles[f]]
<1>1. StoreTypes /\ k \in StoreKeys
  BY DEF S3Inv, StoreKeys
<1>2. v \in Version /\ v.by \notin Workers
  BY StoreAssumption, StringsArePieces DEF Version
<1>3. versions' = [versions EXCEPT ![k] = Append(@, v)]
  BY DEF Sync
<1>4. /\ versions' \in [StoreKeys -> Seq(Version)] /\ Grown
      /\ \A x \in StoreKeys : \A i \in DOMAIN versions'[x] :
            i \in DOMAIN versions[x] \/ versions'[x][i].by \notin Workers
  <2> HIDE DEF k, v
  <2>1. /\ versions' \in [StoreKeys -> Seq(Version)] /\ Grown
        /\ \A x \in StoreKeys : \A i \in DOMAIN versions'[x] :
              \/ i \in DOMAIN versions[x]
              \/ versions'[x][i] = v
    <3>1. versions \in [StoreKeys -> Seq(Version)]
      BY <1>1 DEF StoreTypes
    <3>2. versions' \in [StoreKeys -> Seq(Version)] /\ Grown
      BY <1>1, <1>2, <1>3, <3>1, PutGrows
    <3>3. \A x \in StoreKeys : \A i \in DOMAIN versions'[x] :
             \/ i \in DOMAIN versions[x] /\ versions'[x][i] = versions[x][i]
             \/ x = k /\ i = Len(versions[k]) + 1 /\ versions'[x][i] = v
      BY <1>1, <1>2, <1>3, <3>1, PutGrows
    <3> QED
      BY <3>2, <3>3
  <2> QED
    BY <1>2, <2>1
<1>5. StoreTypes'
  BY <1>1, <1>4 DEF StoreTypes, Sync
<1>6. \A w \in Workers : Same(w)
  BY DEF Sync, Same
<1>7. \A w \in Workers : WorkerFacts(w)'
  BY <1>1, <1>4, <1>5, <1>6, OthersKeep DEF S3Inv
<1> QED
  BY <1>5, <1>7 DEF S3Inv

LEMMA S3Step == S3Inv /\ [S3Next]_s3Vars => S3Inv'
<1> SUFFICES ASSUME S3Inv, [S3Next]_s3Vars PROVE S3Inv'
  OBVIOUS
<1>1. ASSUME UNCHANGED s3Vars PROVE S3Inv'
  <2>1. StoreTypes'
    BY <1>1 DEF S3Inv, StoreTypes, s3Vars, callVars
  <2>2. Grown /\ \A w \in Workers : Same(w)
    BY <1>1, SameGrows DEF S3Inv, StoreTypes, s3Vars, callVars, Same
  <2>3. versions' = versions
    BY <1>1 DEF s3Vars
  <2> QED
    BY <2>1, <2>2, <2>3, OthersKeep DEF S3Inv
<1>2. ASSUME NEW w \in Workers,
             \/ \E c \in ToolCalls : Start(w, c)
             \/ GetMissing(w) \/ ReadFile(w) \/ EditGet(w) \/ EditRefused(w)
             \/ PutAgain(w) \/ PutOk(w) \/ PutFails(w)
             \/ Ls(w) \/ Glob(w) \/ GrepList(w) \/ GrepMatch(w)
             \/ \E k \in todo[w] : GrepFile(w, k) \/ GrepSkip(w, k)
             \/ RequestFails(w)
      PROVE  S3Inv'
  BY <1>2, StartKeeps, GetKeeps, PutKeeps, ListKeeps, GrepListKeeps, GrepScanKeeps,
     GrepMatchKeeps, FailKeeps
<1> QED
  BY <1>1, <1>2, SyncKeeps DEF S3Next, S3Quiet

(* Every reachable state of the store and its callers satisfies S3Inv.     *)
THEOREM Storing == S3Spec => []S3Inv
BY S3InitKeeps, S3Step, PTL DEF S3Spec

-----------------------------------------------------------------------------
(* What an edit writes.                                                    *)

LEMMA OnePlace ==
  ASSUME NEW text \in Names, NEW t \in Names, t # <<>>, Occurrences(text, t) = 1
  PROVE  \E a \in 1..Len(text) : /\ Places(text, t) = {a} /\ a + Len(t) - 1 <= Len(text)
                                 /\ Min(Places(text, t)) = a
<1>1. Len(t) \in Nat \ {0} /\ Len(text) \in Nat
  BY LenProperties, EmptySeq DEF Names
<1>2. IsFiniteSet(Places(text, t))
  <2>1. IsFiniteSet(1..Len(text) - Len(t) + 1)
    BY <1>1, FS_Interval
  <2> QED
    BY <2>1, FS_Subset DEF Places
<1>3. PICK a : Places(text, t) = {a}
  BY <1>2, FS_Singleton DEF Occurrences
<1>4. a \in 1..Len(text) - Len(t) + 1
  BY <1>3 DEF Places
<1>5. {a} \in SUBSET Nat /\ {a} # {}
  BY <1>1, <1>4
<1>6. Min(Places(text, t)) = a
  BY <1>3, <1>5, MinOfSet
<1> QED
  BY <1>1, <1>3, <1>4, <1>6

(* Replacing the only occurrence keeps what is before and after it.        *)
LEMMA OnePlaceReplaced ==
  ASSUME NEW c, c.new \in Names, c.old \in Names, c.old # <<>>, NEW text \in Names,
         Occurrences(text, Normalised(c.old)) = 1
  PROVE  LET old == Normalised(c.old)
             rest == Without(text, Min(Places(text, old)), Len(old))
         IN  Replaced(c, text) = rest.before \o Normalised(c.new) \o rest.after
<1> DEFINE old == Normalised(c.old)
           new == Normalised(c.new)
           n == Len(c.old)
           N == Len(text)
           parts == PartsOf(c, text)
<1>1. n \in Nat \ {0} /\ old \in Names /\ Len(old) = n /\ old # <<>> /\ new \in Names
  <2>1. old \in Names /\ Len(old) = n /\ n \in Nat /\ new \in Names
    BY NormalisedIsName
  <2>2. n # 0
    BY EmptySeq DEF Names
  <2> QED
    BY <2>1, <2>2, EmptySeq
<1>2. N \in Nat /\ Len(text) = N /\ DOMAIN text = 1..N /\ text \in Seq(Pieces) /\ \A i \in 1..N : text[i] \in Pieces
  BY LenProperties, ElementOfSeq DEF Names
<1>3. PICK a \in 1..N : Places(text, old) = {a} /\ a + n - 1 <= N /\ Min(Places(text, old)) = a
  BY <1>1, OnePlace
<1>4. \A i \in 1..N : parts[i] = IF i = a THEN new
                                 ELSE IF a < i /\ i < a + n THEN <<>> ELSE <<text[i]>>
  BY <1>2, <1>3 DEF PartsOf
<1>5. parts \in Seq(Names) /\ Len(parts) = N /\ Replaced(c, text) = FlattenSeq(parts)
  BY PartsAreNames
<1> DEFINE before == SubSeq(text, 1, a - 1)
           After(m) == SubSeq(text, a + n, m)
           g == [m \in 1..N |-> IF m < a THEN SubSeq(text, 1, m) ELSE before \o new \o After(m)]
<1> HIDE DEF old, new, n, N, parts, g
<1>6. before \in Names
  BY <1>2, <1>3 DEF Names
<1>6a. ASSUME NEW m \in 0..N PROVE After(m) \in Names
  <2>1. a + n \in Nat \ {0} /\ m \in Nat /\ m <= N
    BY <1>1, <1>2, <1>3
  <2> QED
    BY <1>2, <2>1 DEF Names
<1>7. ASSUME NEW m \in 0..N, m < a + n PROVE After(m) = <<>>
  <2>1. a + n \in Int /\ m \in Int
    BY <1>1, <1>2, <1>3
  <2> QED
    BY <1>7, <2>1, SubSeqEmpty
<1>8. ASSUME NEW m \in 0..N, ~(m < a + n) PROVE After(m) = After(m - 1) \o <<text[m]>>
  <2>1. a + n \in 1..Len(text) /\ m \in a + n..Len(text)
    BY <1>1, <1>2, <1>3, <1>8
  <2> QED
    BY <1>2, <2>1, SubSeqRecursiveSecond
<1>9. ASSUME NEW m \in 1..N PROVE SubSeq(text, 1, m) = SubSeq(text, 1, m - 1) \o <<text[m]>>
  <2>1. 1 \in 1..Len(text) /\ m \in 1..Len(text)
    BY <1>2
  <2> QED
    BY <1>2, <2>1, SubSeqRecursiveSecond
<1>10. before \o new \in Names /\ <<>> \in Names
  BY <1>1, <1>6, ConcatProperties DEF Names
<1> HIDE DEF before, After
<1>11. \A m \in 1..N : g[m] = IF m < a THEN SubSeq(text, 1, m) ELSE before \o new \o After(m)
  BY DEF g
<1>11a. before \o new \o <<>> = before \o new
  BY <1>10, ConcatEmptySeq DEF Names
<1>11b. ASSUME NEW m \in 1..N, m = 1 PROVE g[m] = parts[m]
  <2>1. CASE m = a
    <3>1. before = <<>> /\ After(m) = <<>>
      <4>1. before = <<>>
        BY <1>11b, <2>1, SubSeqEmpty DEF before
      <4>2. m \in 0..N /\ m < a + n
        BY <1>1, <1>2, <2>1
      <4> QED
        BY <1>7, <4>1, <4>2
    <3>2. <<>> \o new = new
      BY <1>1, ConcatEmptySeq DEF Names
    <3>3. ~(m < a)
      BY <1>3, <2>1
    <3>4. g[m] = before \o new \o After(m)
      BY <1>11, <3>3
    <3>5. g[m] = new
      BY <1>11a, <3>1, <3>2, <3>4, Zenon
    <3> QED
      BY <1>4, <2>1, <3>5
  <2>2. CASE m # a
    <3>1. m < a /\ m - 1 < 1 /\ ~(a < m)
      BY <1>2, <1>3, <1>11b, <2>2
    <3>2. g[m] = SubSeq(text, 1, m) /\ parts[m] = <<text[m]>>
      BY <1>4, <1>11, <2>2, <3>1
    <3>3. SubSeq(text, 1, m - 1) = <<>>
      BY <1>2, <3>1, SubSeqEmpty
    <3>4. <<>> \o <<text[m]>> = <<text[m]>>
      BY <1>2, ConcatEmptySeq
    <3> QED
      BY <1>9, <3>2, <3>3, <3>4
  <2> QED
    BY <2>1, <2>2
<1>12. ASSUME NEW m \in 2..N PROVE g[m] = g[m - 1] \o parts[m]
  <2>0. /\ m \in 1..N /\ m - 1 \in 1..N /\ m \in 0..N /\ m - 1 \in 0..N
        /\ m \in Nat /\ a \in Nat /\ n \in Nat \ {0}
    BY <1>1, <1>2, <1>3
  <2>1. CASE m < a
    <3>1. m - 1 < a /\ m # a /\ ~(a < m)
      BY <2>0, <2>1
    <3>2. g[m] = SubSeq(text, 1, m) /\ g[m - 1] = SubSeq(text, 1, m - 1)
      BY <1>11, <2>0, <2>1, <3>1
    <3>3. parts[m] = <<text[m]>>
      BY <1>4, <2>0, <3>1
    <3> QED
      BY <1>9, <2>0, <3>2, <3>3
  <2>2. CASE m = a
    <3>1. m - 1 < a /\ ~(m < a) /\ m < a + n
      BY <2>0, <2>2
    <3>2. g[m - 1] = before
      BY <1>11, <2>0, <2>2, <3>1 DEF before
    <3>3. g[m] = before \o new \o <<>>
      BY <1>7, <1>11, <2>0, <3>1
    <3>4. parts[m] = new
      BY <1>4, <2>0, <2>2
    <3> QED
      BY <1>11a, <3>2, <3>3, <3>4
  <2>3. CASE a < m /\ m < a + n
    <3>1. ~(m < a) /\ ~(m - 1 < a) /\ m - 1 < a + n /\ m # a
      BY <2>0, <2>3
    <3>2. After(m) = <<>> /\ After(m - 1) = <<>>
      BY <1>7, <2>0, <2>3, <3>1
    <3>3. g[m] = before \o new \o <<>> /\ g[m - 1] = before \o new \o <<>>
      BY <1>11, <2>0, <3>1, <3>2
    <3>4. parts[m] = <<>>
      BY <1>4, <2>0, <2>3, <3>1
    <3> QED
      BY <1>11a, <3>3, <3>4
  <2>4. CASE ~(m < a + n)
    <3>1. ~(m < a) /\ ~(m - 1 < a) /\ m # a
      BY <2>0, <2>4
    <3>2. After(m) = After(m - 1) \o <<text[m]>>
      BY <1>8, <2>0, <2>4
    <3>3. parts[m] = <<text[m]>>
      BY <1>4, <2>0, <2>4, <3>1
    <3>4. g[m] = before \o new \o After(m) /\ g[m - 1] = before \o new \o After(m - 1)
      BY <1>11, <2>0, <3>1
    <3>5. /\ before \o new \in Seq(Pieces) /\ After(m - 1) \in Seq(Pieces)
          /\ <<text[m]>> \in Seq(Pieces)
      BY <1>2, <1>6a, <1>10, <2>0 DEF Names
    <3>6. before \o new \o (After(m - 1) \o <<text[m]>>) = (before \o new \o After(m - 1)) \o <<text[m]>>
      BY <3>5, ConcatAssociative
    <3> QED
      BY <3>2, <3>3, <3>4, <3>6, Zenon
  <2>5. m < a \/ m = a \/ (a < m /\ m < a + n) \/ ~(m < a + n)
    BY <2>0
  <2> QED
    BY <2>1, <2>2, <2>3, <2>4, <2>5, Zenon
<1>13. FlattenSeq(parts) = g[N]
  <2>1. parts \in Seq(Seq(Pieces)) /\ parts # <<>>
    BY <1>2, <1>3, <1>5, EmptySeq DEF Names
  <2>2. 1 \in 1..N
    BY <1>2, <1>3
  <2>3. g[1] = parts[1]
    BY <1>11b, <2>2
  <2> QED
    BY <1>5, <2>3, <1>12, <2>1, FlattenedIs
<1>14. g[N] = before \o new \o After(N)
  <2>1. N \in 1..N /\ ~(N < a)
    BY <1>2, <1>3
  <2> QED
    BY <1>11, <2>1
<1> QED
  BY <1>1, <1>3, <1>5, <1>13, <1>14 DEF Without, before, After, old, new, N

-----------------------------------------------------------------------------
(* Browsing from "/" level by level.                                       *)

(* One slash is stripped where there is one.                               *)
LEMMA OneSlash ==
  ASSUME NEW s \in Names, Len(s) > 0, s[1] = "/", Len(s) > 1 => s[2] # "/"
  PROVE  LeadingSlashes(s) = 1 /\ LStrip(s) = SubSeq(s, 2, Len(s))
<1> DEFINE m == LeadingSlashes(s)
<1>1. /\ Len(s) \in Nat /\ m \in 0..Len(s) /\ \A i \in 1..m : s[i] = "/"
      /\ \A n \in 0..Len(s) : (\A i \in 1..n : s[i] = "/") => n <= m
  BY SlashesStripped, LenProperties DEF Names
<1>2. m >= 1
  <2>1. 1 \in 0..Len(s) /\ \A i \in 1..1 : s[i] = "/"
    BY <1>1
  <2> QED
    BY <1>1, <2>1
<1>3. ~(m > 1)
  <2> SUFFICES ASSUME m > 1 PROVE FALSE
    OBVIOUS
  <2>1. 2 \in 1..m /\ Len(s) > 1
    BY <1>1
  <2> QED
    BY <1>1, <2>1
<1>4. m = 1
  BY <1>1, <1>2, <1>3
<1> QED
  BY <1>4 DEF LStrip

LEMMA NoSlash ==
  ASSUME NEW s \in Names, Len(s) > 0 => s[1] # "/"
  PROVE  LStrip(s) = s
<1> DEFINE m == LeadingSlashes(s)
<1>1. Len(s) \in Nat /\ m \in 0..Len(s) /\ \A i \in 1..m : s[i] = "/"
  BY SlashesStripped, LenProperties DEF Names
<1>2. m = 0
  <2> SUFFICES ASSUME m # 0 PROVE FALSE
    OBVIOUS
  <2>1. 1 \in 1..m /\ Len(s) > 0
    BY <1>1
  <2> QED
    BY <1>1, <2>1
<1> QED
  BY <1>2, SubSeqFull DEF LStrip, Names

(* A name between two slashes is all that Strip leaves.                    *)
LEMMA Stripped ==
  ASSUME NEW t \in Names, t # <<>>, t[1] # "/", t[Len(t)] # "/"
  PROVE  Strip(<<"/">> \o t \o <<"/">>) = t
<1> DEFINE n == Len(t)
           s == <<"/">> \o t \o <<"/">>
           r == t \o <<"/">>
<1>1. n \in Nat \ {0} /\ t \in Seq(Pieces) /\ <<"/">> \in Seq(Pieces) /\ Len(<<"/">>) = 1
  BY Pieced, LenProperties, EmptySeq DEF Names
<1>2. /\ r \in Seq(Pieces) /\ Len(r) = n + 1 /\ r[n + 1] = "/"
      /\ \A i \in 1..n : r[i] = t[i]
  BY <1>1, ConcatProperties
<1>3. s = <<"/">> \o r
  BY <1>1, ConcatAssociative
<1> HIDE DEF r
<1>4. /\ s \in Names /\ Len(s) = n + 2 /\ s[1] = "/" /\ s[2] # "/"
      /\ \A i \in 1..n + 1 : s[i + 1] = r[i]
  <2> DEFINE u == <<"/">> \o r
  <2>1. u \in Seq(Pieces) /\ Len(u) = n + 2 /\ u[1] = "/" /\ \A i \in 1..n + 1 : u[i + 1] = r[i]
    BY <1>1, <1>2, ConcatProperties
  <2>2. u[2] # "/"
    <3>1. 1 \in 1..n /\ 1 \in 1..n + 1 /\ 1 + 1 = 2
      BY <1>1
    <3>2. u[1 + 1] = r[1] /\ r[1] = t[1]
      BY <1>2, <2>1, <3>1
    <3> QED
      BY <3>1, <3>2
  <2> QED
    BY <1>3, <2>1, <2>2 DEF Names
<1> HIDE DEF s, n
<1>5. LStrip(s) = r
  <2>1. LStrip(s) = SubSeq(s, 2, Len(s))
    <3>1. Len(s) > 0
      BY <1>1, <1>4
    <3> QED
      BY <1>4, <3>1, OneSlash
  <2>2. /\ LStrip(s) \in Seq(Pieces) /\ Len(LStrip(s)) = n + 1
        /\ \A i \in 1..n + 1 : LStrip(s)[i] = s[i + 1]
    BY <1>1, <1>4, <2>1 DEF Names
  <2> QED
    BY <1>2, <1>4, <2>2, SeqEqual
<1> DEFINE v == Reverse(r)
<1>6. /\ v \in Names /\ Len(v) = n + 1 /\ v[1] = "/" /\ v[2] # "/"
      /\ \A i \in 1..n + 1 : v[i] = r[(n + 1) - i + 1]
  <2>1. v \in Seq(Pieces)
    BY <1>2, ReverseOfSeq
  <2>2. v = [i \in 1..n + 1 |-> r[(n + 1) - i + 1]]
    BY <1>2 DEF Reverse
  <2>3. Len(v) = n + 1
    BY <1>1, <2>1, <2>2, LenProperties
  <2>4. 1 \in 1..n + 1 /\ 2 \in 1..n + 1 /\ (n + 1) - 1 + 1 = n + 1 /\ (n + 1) - 2 + 1 = n
    BY <1>1
  <2>5. v[1] = r[n + 1] /\ v[2] = r[n]
    BY <2>2, <2>4
  <2>6. n \in 1..n /\ r[n] = t[n] /\ t[n] # "/"
    BY <1>1, <1>2 DEF n
  <2> QED
    BY <1>2, <2>1, <2>2, <2>3, <2>5, <2>6 DEF Names
<1> HIDE DEF v
<1> DEFINE x == LStrip(v)
<1>7. x \in Seq(Pieces) /\ Len(x) = n /\ \A i \in 1..n : x[i] = v[i + 1]
  <2>1. LStrip(v) = SubSeq(v, 2, Len(v))
    <3>1. Len(v) > 0
      BY <1>1, <1>6
    <3> QED
      BY <1>6, <3>1, OneSlash
  <2> QED
    BY <1>1, <1>6, <2>1 DEF Names
<1> HIDE DEF x
<1>8. Reverse(x) = t
  <2>1. Reverse(x) \in Seq(Pieces) /\ Reverse(x) = [i \in 1..n |-> x[n - i + 1]]
    BY <1>7, ReverseOfSeq DEF Reverse
  <2>2. Len(Reverse(x)) = n
    BY <1>1, <2>1, LenProperties
  <2>3. ASSUME NEW i \in 1..n PROVE Reverse(x)[i] = t[i]
    <3>1. n - i + 1 \in 1..n /\ (n - i + 1) + 1 \in 1..n + 1 /\ (n + 1) - ((n - i + 1) + 1) + 1 = i
      BY <1>1
    <3>2. Reverse(x)[i] = v[(n - i + 1) + 1]
      BY <1>7, <2>1, <3>1
    <3>3. v[(n - i + 1) + 1] = r[i]
      BY <1>6, <3>1
    <3> QED
      BY <1>2, <3>2, <3>3
  <2> QED
    BY <1>1, <2>1, <2>2, <2>3, SeqEqual DEF n
<1> QED
  BY <1>5, <1>8 DEF Strip, s, v, x

(* The root is listed by RootPrefix.                                       *)
LEMMA RootDir == DirKeyPrefix(<<"/">>) = RootPrefix
<1>1. <<"/">> \in Names /\ <<"/">>[1] = "/" /\ Len(<<"/">>) = 1
  BY Pieced
<1>2. LStrip(<<"/">>) = <<>>
  <2>1. LStrip(<<"/">>) = SubSeq(<<"/">>, 2, 1)
    BY <1>1, OneSlash
  <2> QED
    BY <2>1, SubSeqEmpty
<1>3. <<>> \in Names /\ Len(<<>>) = 0
  BY Pieced
<1>4. Reverse(<<>>) = <<>>
  <2>1. Reverse(<<>>) \in Seq(Pieces) /\ Reverse(<<>>) = [i \in 1..0 |-> <<>>[(0 - i) + 1]]
    BY <1>3, ReverseOfSeq DEF Reverse, Names
  <2>2. Len(Reverse(<<>>)) = 0
    BY <2>1, LenProperties
  <2> QED
    BY <2>1, <2>2, EmptySeq
<1>5. LStrip(<<>>) = <<>>
  BY <1>3, NoSlash
<1> QED
  BY <1>2, <1>4, <1>5 DEF Strip, DirKeyPrefix

LEMMA SlashBefore ==
  ASSUME NEW r \in Names
  PROVE  /\ <<"/">> \o r \in Names /\ Len(<<"/">> \o r) = Len(r) + 1
         /\ (<<"/">> \o r)[1] = "/" /\ \A i \in 1..Len(r) : (<<"/">> \o r)[i + 1] = r[i]
<1> DEFINE sl == <<"/">>
           p == sl \o r
<1>1. /\ sl \in Seq(Pieces) /\ Len(sl) = 1 /\ sl[1] = "/"
      /\ r \in Seq(Pieces) /\ Len(r) \in Nat
  BY Pieced, LenProperties DEF Names
<1> HIDE DEF sl
<1>2. p \in Seq(Pieces) /\ Len(p) = Len(r) + 1
  <2>1. sl \o r \in Seq(Pieces) /\ Len(sl \o r) = Len(sl) + Len(r)
    BY <1>1, ConcatProperties
  <2> QED
    BY <1>1, <2>1
<1>3. ASSUME NEW j \in 1..Len(sl) PROVE p[j] = sl[j]
  BY <1>1, ConcatProperties
<1>4. ASSUME NEW i \in 1..Len(r) PROVE p[i + 1] = r[i]
  <2>1. \A j \in 1..Len(sl) + Len(r) : p[j] = IF j <= Len(sl) THEN sl[j] ELSE r[j - Len(sl)]
    BY <1>1, ConcatProperties
  <2>2. i + 1 \in 1..Len(sl) + Len(r) /\ ~(i + 1 <= Len(sl)) /\ (i + 1) - Len(sl) = i
    BY <1>1
  <2>3. p[i + 1] = r[(i + 1) - Len(sl)]
    BY <2>1, <2>2
  <2> QED
    BY <2>2, <2>3
<1>5. p[1] = sl[1]
  <2>1. 1 \in 1..Len(sl)
    BY <1>1
  <2> QED
    BY <1>3, <2>1
<1> QED
  BY <1>1, <1>2, <1>4, <1>5 DEF Names, sl

(* A key of the root begins with RootPrefix, and PathFor drops that.       *)
LEMMA PathOfKey ==
  ASSUME NEW k \in Names, IsPrefix(RootPrefix, k)
  PROVE  /\ Len(RootPrefix) \in Nat /\ Len(k) \in Nat /\ Len(RootPrefix) <= Len(k)
         /\ RootPrefix = SubSeq(k, 1, Len(RootPrefix))
         /\ PathFor(k) = <<"/">> \o SubSeq(k, Len(RootPrefix) + 1, Len(k))
         /\ PathFor(k) \in Names /\ Len(PathFor(k)) = Len(k) - Len(RootPrefix) + 1
         /\ PathFor(k)[1] = "/"
         /\ \A i \in Len(RootPrefix) + 1..Len(k) : PathFor(k)[i - Len(RootPrefix) + 1] = k[i]
<1> DEFINE n == Len(RootPrefix)
           r == SubSeq(k, n + 1, Len(k))
           p == <<"/">> \o r
<1>1. n \in Nat /\ Len(k) \in Nat /\ n <= Len(k) /\ RootPrefix = SubSeq(k, 1, n)
  BY RootIsName, LenProperties, SubSeqFull DEF Names, IsPrefix
<1>2. r \in Seq(Pieces) /\ Len(r) = Len(k) - n /\ \A i \in 1..Len(k) - n : r[i] = k[n + i]
  BY <1>1 DEF Names
<1>3. <<"/">> \in Seq(Pieces) /\ Len(<<"/">>) = 1 /\ <<"/">>[1] = "/"
  BY Pieced DEF Names
<1> HIDE DEF r
<1>4. /\ p \in Seq(Pieces) /\ Len(p) = Len(k) - n + 1 /\ p[1] = "/"
      /\ \A i \in 1..Len(k) - n : p[i + 1] = r[i]
  <2>1. Len(r) \in Nat /\ Len(r) = Len(k) - n
    BY <1>1, <1>2
  <2> QED
    BY <1>2, <2>1, SlashBefore DEF Names
<1>5. PathFor(k) = p
  BY DEF PathFor, r
<1> HIDE DEF p, n
<1>6. ASSUME NEW i \in n + 1..Len(k) PROVE p[i - n + 1] = k[i]
  <2>1. i - n \in 1..Len(k) - n /\ n + (i - n) = i
    BY <1>1
  <2> QED
    BY <1>2, <1>4, <2>1
<1> QED
  BY <1>1, <1>4, <1>5, <1>6 DEF Names, n, p, r

(* No slash of a plain name is the first of its root or follows another.   *)
LEMMA PlainName ==
  ASSUME NEW k \in Names, IsPrefix(RootPrefix, k), ~DoubledSlash(PathFor(k)),
         NEW i \in Len(RootPrefix) + 1..Len(k), k[i] = "/"
  PROVE  i - 1 \in Len(RootPrefix) + 1..Len(k) /\ k[i - 1] # "/"
<1> DEFINE n == Len(RootPrefix)
           p == PathFor(k)
<1>1. /\ n \in Nat /\ Len(k) \in Nat /\ Len(p) = Len(k) - n + 1 /\ p[1] = "/"
      /\ \A j \in n + 1..Len(k) : p[j - n + 1] = k[j]
  BY PathOfKey
<1> HIDE DEF n, p
<1>2. i - n \in 1..Len(p) - 1 /\ i \in n + 1..Len(k)
  BY <1>1 DEF n
<1>3. p[(i - n) + 1] = "/"
  BY <1>1, <1>2
<1>4. p[i - n] # "/"
  BY <1>2, <1>3 DEF DoubledSlash, p
<1>5. i - n # 1
  BY <1>1, <1>4
<1>6. i - 1 \in n + 1..Len(k) /\ (i - 1) - n + 1 = i - n
  BY <1>1, <1>2, <1>5
<1>7. p[i - n] = k[i - 1]
  BY <1>1, <1>6
<1> QED
  BY <1>4, <1>6, <1>7 DEF n

(* A directory that ls() has listed is listed by its own key.              *)
LEMMA ListedDir ==
  ASSUME NEW k \in Names, IsPrefix(RootPrefix, k), ~DoubledSlash(PathFor(k)),
         NEW q \in Len(RootPrefix) + 1..Len(k), k[q] = "/"
  PROVE  DirKeyPrefix(PathFor(SubSeq(k, 1, q))) = SubSeq(k, 1, q)
<1> DEFINE n == Len(RootPrefix)
           c == SubSeq(k, 1, q)
           t == SubSeq(k, n + 1, q - 1)
           sl == <<"/">>
<1>1. n \in Nat /\ Len(k) \in Nat /\ n <= Len(k) /\ RootPrefix = SubSeq(k, 1, n) /\ k \in Seq(Pieces)
  BY PathOfKey DEF Names
<1>2. q - 1 \in n + 1..Len(k) /\ k[q - 1] # "/" /\ q \in Nat /\ n + 1 \in 1..Len(k)
  BY <1>1, PlainName
<1>3. k[n + 1] # "/"
  <2> SUFFICES ASSUME k[n + 1] = "/" PROVE FALSE
    OBVIOUS
  <2>1. n + 1 \in n + 1..Len(k)
    BY <1>1, <1>2
  <2>2. (n + 1) - 1 \in n + 1..Len(k)
    BY <2>1, PlainName
  <2> QED
    BY <1>1, <2>2
<1>4. /\ t \in Seq(Pieces) /\ Len(t) = q - 1 - n /\ Len(t) \in Nat \ {0}
      /\ \A i \in 1..q - 1 - n : t[i] = k[n + i]
  BY <1>1, <1>2
<1>5. t # <<>> /\ t[1] # "/" /\ t[Len(t)] # "/"
  <2>1. 1 \in 1..q - 1 - n /\ q - 1 - n \in 1..q - 1 - n /\ n + (q - 1 - n) = q - 1
    BY <1>1, <1>2
  <2>2. t[1] = k[n + 1] /\ t[Len(t)] = k[q - 1]
    BY <1>4, <2>1
  <2> QED
    BY <1>2, <1>3, <1>4, <2>2, EmptySeq
<1>6. SubSeq(k, n + 1, q) = t \o sl
  <2>1. n + 1 \in 1..Len(k) /\ q \in n + 1..Len(k)
    BY <1>1, <1>2
  <2> QED
    BY <1>1, <2>1, SubSeqRecursiveSecond
<1>7. c \in Seq(Pieces) /\ Len(c) = q /\ \A i \in 1..q : c[i] = k[i]
  BY <1>1, <1>2
<1>8. IsPrefix(RootPrefix, c)
  <2>1. RootPrefix \in Seq(Pieces) /\ \A i \in 1..n : RootPrefix[i] = k[i]
    BY <1>1, RootIsName, PrefixPieces DEF Names
  <2>2. n <= q /\ \A i \in 1..n : i \in 1..q
    BY <1>1, <1>2
  <2>3. \A i \in 1..n : RootPrefix[i] = c[i]
    BY <1>7, <2>1, <2>2
  <2> HIDE DEF c
  <2> QED
    BY <1>7, <2>1, <2>2, <2>3, PrefixPieces
<1>9. SubSeq(c, n + 1, q) = SubSeq(k, n + 1, q)
  <2> DEFINE a == SubSeq(c, n + 1, q)
             b == SubSeq(k, n + 1, q)
  <2>1. a \in Seq(Pieces) /\ Len(a) = q - n /\ \A i \in 1..q - n : a[i] = c[n + i]
    <3> HIDE DEF c
    <3> QED
      BY <1>1, <1>2, <1>7
  <2>2. b \in Seq(Pieces) /\ Len(b) = q - n /\ \A i \in 1..q - n : b[i] = k[n + i]
    BY <1>1, <1>2
  <2>3. \A i \in 1..q - n : n + i \in 1..q
    BY <1>1, <1>2
  <2> HIDE DEF a, b, c
  <2>4. \A i \in 1..q - n : a[i] = b[i]
    BY <1>7, <2>1, <2>2, <2>3
  <2>5. a = b
    BY <2>1, <2>2, <2>4, SeqEqual
  <2> QED
    BY <2>5 DEF a, b
<1> HIDE DEF c, t
<1>10. PathFor(c) = sl \o t \o sl
  <2>1. PathFor(c) = sl \o SubSeq(c, n + 1, q)
    BY <1>7, <1>8 DEF PathFor
  <2>2. sl \o (t \o sl) = sl \o t \o sl
    BY <1>4, Pieced, ConcatAssociative DEF Names
  <2> QED
    BY <1>6, <1>9, <2>1, <2>2
<1>11. Strip(PathFor(c)) = t
  BY <1>4, <1>5, <1>10, Stripped DEF Names
<1>12. DirKeyPrefix(PathFor(c)) = RootPrefix \o t \o sl
  BY <1>5, <1>11 DEF DirKeyPrefix
<1>13. RootPrefix \o t \o sl = RootPrefix \o (t \o sl)
  <2>1. RootPrefix \in Seq(Pieces) /\ sl \in Seq(Pieces)
    BY RootIsName, Pieced DEF Names
  <2> HIDE DEF sl
  <2>2. t \in Seq(Pieces)
    BY <1>4
  <2> QED
    BY <2>1, <2>2, ConcatAssociative
<1>14. SubSeq(k, 1, n) \o SubSeq(k, n + 1, q) = SubSeq(k, 1, q)
  <2>1. 1 \in 1..Len(k) + 1 /\ n \in 1 - 1..Len(k) /\ q \in n..Len(k)
    BY <1>1, <1>2
  <2> QED
    BY <1>1, <2>1, ConcatAdjacentSubSeq
<1> QED
  BY <1>1, <1>6, <1>12, <1>13, <1>14 DEF c

LEMMA LsDirsAreNames ==
  ASSUME NEW p \in Names
  PROVE  LsDirs(Objects, p) \subseteq Names
<1> DEFINE dir == DirKeyPrefix(p)
<1>1. dir \in Names
  BY KeysInRoot
<1> HIDE DEF dir
<1>2. ASSUME NEW k \in Objects, Slashes(k, dir) # {}
      PROVE  SubSeq(k, 1, Min(Slashes(k, dir))) \in Names
  <2>1. k \in Seq(Pieces) /\ Len(k) \in Nat /\ Len(dir) \in Nat
    BY <1>1, KeysAreNames, LenProperties DEF Objects, Names
  <2>2. Slashes(k, dir) \subseteq 1..Len(k)
    BY <2>1 DEF Slashes
  <2>3. Min(Slashes(k, dir)) \in 1..Len(k)
    BY <1>2, <2>1, <2>2, MinOfSet
  <2> QED
    BY <2>1, <2>3 DEF Names
<1>3. ASSUME NEW c \in Names PROVE PathFor(c) \in Names
  <2>1. CASE IsPrefix(RootPrefix, c)
    BY <2>1, PathOfKey
  <2>2. CASE ~IsPrefix(RootPrefix, c)
    BY <2>2, Pieced, SlashBefore DEF PathFor
  <2> QED
    BY <2>1, <2>2
<1> QED
  BY <1>2, <1>3 DEF LsDirs, CommonPrefixesOf, Below, dir

Listings(S) == S \cup UNION {LsDirs(Objects, d) : d \in S}

(* Walk is what its definition says.                                       *)
LEMMA Walked ==
  /\ Walk[0] = {<<"/">>}
  /\ \A n \in Nat : Walk[n + 1] = Listings(Walk[n])
<1> DEFINE D == SUBSET Names
           F == [S \in D |-> Listings(S)]
<1>1. F \in [D -> D] /\ {<<"/">>} \in D
  BY LsDirsAreNames, Pieced DEF Listings
<1>2. PICK g : Iterates(g, F, {<<"/">>}) /\ \A n \in Nat : g[n] \in D
  <2> DEFINE x == {<<"/">>}
  <2>1. F \in [D -> D] /\ x \in D
    BY <1>1
  <2> HIDE DEF D, F, x
  <2>2. \E g : Iterates(g, F, x) /\ \A n \in Nat : g[n] \in D
    BY <2>1, Iterated
  <2> QED
    BY <2>2 DEF x
<1>3. /\ g = [n \in Nat |-> g[n]] /\ g[0] = {<<"/">>}
      /\ \A n \in Nat : g[n + 1] = Listings(g[n])
  BY <1>2 DEF Iterates
<1> HIDE DEF D, F
<1>4. g = [n \in Nat |-> IF n = 0 THEN {<<"/">>}
                         ELSE LET above == g[n - 1]
                              IN  above \cup UNION {LsDirs(Objects, d) : d \in above}]
  <2>1. ASSUME NEW n \in Nat
        PROVE  g[n] = IF n = 0 THEN {<<"/">>} ELSE Listings(g[n - 1])
    <3>1. CASE n = 0
      BY <1>3, <3>1
    <3>2. CASE n # 0
      <4>1. n - 1 \in Nat /\ (n - 1) + 1 = n
        BY <3>2
      <4> QED
        BY <1>3, <3>2, <4>1
    <3> QED
      BY <3>1, <3>2
  <2>2. g = [n \in Nat |-> g[n]]
    BY <1>3
  <2>3. g = [n \in Nat |-> IF n = 0 THEN {<<"/">>} ELSE Listings(g[n - 1])]
    BY <2>1, <2>2
  <2> QED
    BY <2>3 DEF Listings
<1> DEFINE Works(h) == h = [n \in Nat |-> IF n = 0 THEN {<<"/">>}
                                          ELSE LET above == h[n - 1]
                                               IN  above \cup UNION {LsDirs(Objects, d) : d \in above}]
<1>5. Walk = CHOOSE h : Works(h)
  BY DEF Walk
<1>6. Works(Walk)
  <2>1. Works(g)
    BY <1>4
  <2> HIDE DEF Works
  <2> QED
    BY <1>5, <2>1
<1>7. Walk = [n \in Nat |-> IF n = 0 THEN {<<"/">>} ELSE Listings(Walk[n - 1])]
  BY <1>6 DEF Listings
<1>8. Walk[0] = {<<"/">>}
  BY <1>7
<1>9. ASSUME NEW n \in Nat PROVE Walk[n + 1] = Listings(Walk[n])
  <2>1. n + 1 \in Nat /\ n + 1 # 0 /\ (n + 1) - 1 = n
    OBVIOUS
  <2> QED
    BY <1>7, <2>1
<1> QED
  BY <1>8, <1>9

LEMMA WalkGrows ==
  ASSUME NEW m \in Nat, NEW n \in Nat, m <= n
  PROVE  Walk[m] \subseteq Walk[n]
<1> DEFINE Bad == {i \in Nat : m <= i /\ ~(Walk[m] \subseteq Walk[i])}
<1> SUFFICES ASSUME Bad # {} PROVE FALSE
  OBVIOUS
<1>1. PICK i \in Bad : \A j \in Bad : i <= j
  <2>1. Bad \in SUBSET Nat
    OBVIOUS
  <2> HIDE DEF Bad
  <2> QED
    BY <2>1, NatLeast
<1>2. i # m /\ i - 1 \in Nat /\ m <= i - 1 /\ (i - 1) + 1 = i
  BY <1>1
<1>3. Walk[m] \subseteq Walk[i - 1]
  BY <1>1, <1>2
<1>4. Walk[i - 1] \subseteq Walk[i]
  BY <1>2, Walked DEF Listings
<1> QED
  BY <1>1, <1>3, <1>4

(* The part of a key up to a place is a prefix of it.                      *)
LEMMA KeyPart ==
  ASSUME NEW k \in Names, NEW q \in 1..Len(k)
  PROVE  /\ SubSeq(k, 1, q) \in Names /\ Len(SubSeq(k, 1, q)) = q
         /\ SubSeq(k, 1, q)[q] = k[q]
         /\ IsPrefix(SubSeq(k, 1, q), k)
<1> DEFINE c == SubSeq(k, 1, q)
<1>1. k \in Seq(Pieces) /\ Len(k) \in Nat /\ q \in 1..q
  BY LenProperties DEF Names
<1>2. c \in Seq(Pieces) /\ Len(c) = q /\ \A i \in 1..q : c[i] = k[i]
  BY <1>1
<1> HIDE DEF c
<1>3. IsPrefix(c, k)
  BY <1>1, <1>2, PrefixPieces
<1> QED
  BY <1>1, <1>2, <1>3 DEF c, Names

(* A listing of a directory leads one level down.                          *)
LEMMA OneLevel ==
  ASSUME NEW k \in Objects, NEW d, IsPrefix(DirKeyPrefix(d), k), DirKeyPrefix(d) \in Names,
         NEW q \in Slashes(k, DirKeyPrefix(d)), \A x \in Slashes(k, DirKeyPrefix(d)) : q <= x,
         NEW m \in Nat, d \in Walk[m]
  PROVE  PathFor(SubSeq(k, 1, q)) \in Walk[m + 1]
<1> DEFINE dir == DirKeyPrefix(d)
           S == Slashes(k, dir)
<1>1. Len(k) \in Nat /\ Len(dir) \in Nat
  BY KeysAreNames, LenProperties DEF Objects, Names
<1>2. S \subseteq Nat /\ q \in S
  BY <1>1 DEF Slashes
<1>3. Min(S) \in S /\ Min(S) <= q
  BY <1>2, MinOfSet
<1>4. Min(S) = q
  <2>1. q <= Min(S) /\ q \in Nat /\ Min(S) \in Nat
    BY <1>2, <1>3
  <2> QED
    BY <1>3, <2>1
<1>5. SubSeq(k, 1, q) \in CommonPrefixesOf(Objects, dir)
  BY <1>2, <1>4 DEF CommonPrefixesOf, Below
<1>6. PathFor(SubSeq(k, 1, q)) \in LsDirs(Objects, d)
  BY <1>5 DEF LsDirs
<1> QED
  BY <1>6, Walked DEF Listings

(* Every directory on a plain path is reached, at its level.               *)
LEMMA DirsReached ==
  ASSUME NEW k \in Objects, IsPrefix(RootPrefix, k), ~DoubledSlash(PathFor(k)),
         NEW q \in Slashes(k, RootPrefix)
  PROVE  PathFor(SubSeq(k, 1, q)) \in Walk[Cardinality({x \in Slashes(k, RootPrefix) : x <= q})]
<1> DEFINE S == Slashes(k, RootPrefix)
           n == Len(RootPrefix)
           Upto(p) == {x \in S : x <= p}
           Reached(p) == PathFor(SubSeq(k, 1, p)) \in Walk[Cardinality(Upto(p))]
           Bad == {p \in S : ~Reached(p)}
<1>1. k \in Names /\ Len(k) \in Nat /\ n \in Nat /\ n <= Len(k)
  BY KeysAreNames, PathOfKey DEF Objects
<1>2. /\ S \subseteq n + 1..Len(k) /\ S \in SUBSET Nat /\ IsFiniteSet(S)
      /\ \A x \in S : k[x] = "/"
  <2>1. S \subseteq n + 1..Len(k) /\ \A x \in S : k[x] = "/"
    BY DEF Slashes
  <2>2. IsFiniteSet(n + 1..Len(k))
    BY <1>1, FS_Interval
  <2> DEFINE R == n + 1..Len(k)
  <2>3. IsFiniteSet(R) /\ S \in SUBSET R
    BY <2>1, <2>2
  <2>4. R \subseteq Nat
    BY <1>1
  <2>5. IsFiniteSet(S) /\ S \in SUBSET Nat
    <3> HIDE DEF S, R
    <3> QED
      BY <2>3, <2>4, FS_Subset
  <2> HIDE DEF S
  <2> QED
    BY <2>1, <2>5
<1> HIDE DEF S, n
<1> SUFFICES ASSUME Bad # {} PROVE FALSE
  BY DEF S
<1>3. PICK p \in Bad : \A x \in Bad : p <= x
  <2>1. Bad \in SUBSET Nat
    BY <1>2
  <2> HIDE DEF Bad
  <2> QED
    BY <2>1, NatLeast
<1>4. p \in S /\ ~Reached(p) /\ p \in Nat
  BY <1>2, <1>3
<1> DEFINE T == {x \in S : x < p}
<1>5. CASE T = {}
  <2>1. Upto(p) = {p}
    <3>1. \A x \in S : x <= p <=> x = p
      BY <1>2, <1>4, <1>5
    <3> QED
      BY <1>4, <3>1
  <2>2. Cardinality(Upto(p)) = 1
    BY <2>1, FS_Singleton
  <2>3. \A x \in S : p <= x
    BY <1>2, <1>4, <1>5
  <2>4. <<"/">> \in Walk[0] /\ 0 \in Nat /\ 0 + 1 = 1
    BY Walked
  <2>5. PathFor(SubSeq(k, 1, p)) \in Walk[0 + 1]
    <3>1. DirKeyPrefix(<<"/">>) = RootPrefix /\ RootPrefix \in Names
      BY RootDir, RootIsName
    <3> QED
      BY <1>4, <2>3, <2>4, <3>1, OneLevel DEF S
  <2> QED
    BY <1>4, <2>2, <2>4, <2>5
<1>6. CASE T # {}
  <2>1. T \in SUBSET Nat /\ IsFiniteSet(T)
    BY <1>2, FS_Subset
  <2>2. PICK r \in T : \A x \in T : x <= r
    <3> HIDE DEF T
    <3> QED
      BY <1>6, <2>1, MaxOfFinite
  <2>3. r \in S /\ r < p /\ r \in Nat
    BY <1>2, <2>2
  <2>4. Reached(r)
    <3>1. r \notin Bad
      BY <1>3, <1>4, <2>3
    <3> HIDE DEF Reached
    <3> QED
      BY <2>3, <3>1
  <2>5. Upto(p) = Upto(r) \cup {p} /\ p \notin Upto(r)
    <3>1. \A x \in S : x <= p <=> x <= r \/ x = p
      BY <1>2, <1>4, <2>2, <2>3
    <3>2. ~(p <= r)
      BY <1>4, <2>3
    <3> QED
      BY <1>4, <3>1, <3>2
  <2>6. /\ Cardinality(Upto(p)) = Cardinality(Upto(r)) + 1
        /\ Cardinality(Upto(r)) \in Nat
    <3>1. IsFiniteSet(Upto(r))
      BY <1>2, FS_Subset
    <3> HIDE DEF Upto
    <3> QED
      BY <2>5, <3>1, FS_AddElement, FS_CardinalityType
  <2> DEFINE c == SubSeq(k, 1, r)
  <2>7. r \in n + 1..Len(k) /\ r \in 1..Len(k) /\ k[r] = "/"
    BY <1>1, <1>2, <2>3
  <2>8. DirKeyPrefix(PathFor(c)) = c
    BY <1>1, <2>7, ListedDir DEF n
  <2>9. c \in Names /\ Len(c) = r /\ IsPrefix(c, k)
    BY <1>1, <2>7, KeyPart
  <2> HIDE DEF c
  <2>10. p \in Slashes(k, c) /\ \A x \in Slashes(k, c) : p <= x
    <3>1. Slashes(k, c) = {x \in r + 1..Len(k) : k[x] = "/"}
      BY <2>9 DEF Slashes
    <3>2. S = {x \in n + 1..Len(k) : k[x] = "/"}
      BY DEF S, Slashes, n
    <3>3. p \in r + 1..Len(k) /\ k[p] = "/"
      BY <1>1, <1>2, <1>4, <2>3
    <3>4. ASSUME NEW x \in r + 1..Len(k), k[x] = "/" PROVE p <= x
      <4>1. x \in S /\ x \in Nat /\ ~(x <= r)
        BY <1>1, <2>3, <2>7, <3>2, <3>4
      <4>2. x \notin T
        BY <2>2, <4>1
      <4> QED
        BY <1>4, <4>1, <4>2
    <3> QED
      BY <3>1, <3>3, <3>4
  <2>11. PathFor(c) \in Walk[Cardinality(Upto(r))]
    BY <2>4 DEF c
  <2>12. PathFor(SubSeq(k, 1, p)) \in Walk[Cardinality(Upto(r)) + 1]
    <3> DEFINE m == Cardinality(Upto(r))
               d == PathFor(c)
    <3>1. m \in Nat /\ d \in Walk[m] /\ DirKeyPrefix(d) = c
      BY <2>6, <2>8, <2>11
    <3> HIDE DEF m, d
    <3>2. PathFor(SubSeq(k, 1, p)) \in Walk[m + 1]
      BY <2>9, <2>10, <3>1, OneLevel
    <3> QED
      BY <3>2 DEF m
  <2> QED
    BY <1>4, <2>6, <2>12
<1> QED
  BY <1>5, <1>6

(* No key has more slashes than Depth.                                     *)
LEMMA DepthBounds ==
  ASSUME IsFiniteSet(StoreKeys), NEW k \in StoreKeys
  PROVE  /\ Depth \in Nat /\ IsFiniteSet(Slashes(k, <<>>))
         /\ Cardinality(Slashes(k, <<>>)) <= Depth
<1> DEFINE level(x) == Cardinality(Slashes(x, <<>>))
           L == {level(x) : x \in StoreKeys}
           f == [x \in StoreKeys |-> level(x)]
<1>1. ASSUME NEW x \in StoreKeys PROVE IsFiniteSet(Slashes(x, <<>>)) /\ level(x) \in Nat
  <2>1. Len(x) \in Nat /\ Len(<<>>) = 0
    BY KeysAreNames, LenProperties, EmptySeq DEF Names
  <2>2. IsFiniteSet(0 + 1..Len(x))
    BY <2>1, FS_Interval
  <2>3. Slashes(x, <<>>) \in SUBSET (0 + 1..Len(x))
    BY <2>1 DEF Slashes
  <2> QED
    BY <2>2, <2>3, FS_Subset, FS_CardinalityType
<1>2. L \in SUBSET Nat /\ level(k) \in L
  BY <1>1
<1> HIDE DEF level
<1>3. f \in Surjection(StoreKeys, L)
  BY DEF Surjection
<1>4. IsFiniteSet(L)
  <2> HIDE DEF L, f
  <2> QED
    BY <1>3, FS_Surjection DEF ExistsSurjection
<1>5. Max(L) \in L /\ level(k) <= Max(L)
  <2> HIDE DEF L
  <2> QED
    BY <1>2, <1>4, MaxOfFinite
<1>6. Depth = Max(L)
  BY DEF Depth, level
<1> QED
  BY <1>1, <1>2, <1>5, <1>6 DEF level

(* A file with a plain path is listed in its directory.                    *)
LEMMA FilesReached ==
  ASSUME IsFiniteSet(StoreKeys), NEW k \in Objects,
         IsPrefix(RootPrefix, k), ~IsMarker(k), ~DoubledSlash(PathFor(k)), k # <<>>
  PROVE  PathFor(k) \in UNION {LsFiles(Objects, d) : d \in Walk[Depth]}
<1> DEFINE S == Slashes(k, RootPrefix)
           n == Len(RootPrefix)
<1>1. /\ k \in Names /\ k \in StoreKeys /\ Len(k) \in Nat \ {0} /\ n \in Nat /\ n <= Len(k)
      /\ k[Len(k)] # "/"
  <2>1. k \in Names /\ k \in StoreKeys /\ Len(k) \in Nat /\ n \in Nat /\ n <= Len(k)
    BY KeysAreNames, PathOfKey DEF Objects
  <2>2. Len(k) # 0
    BY <2>1, EmptySeq DEF Names
  <2>3. k[Len(k)] # "/"
    BY DEF IsMarker, EndsWithSlash, Last
  <2> QED
    BY <2>1, <2>2, <2>3
<1>2. Depth \in Nat /\ IsFiniteSet(Slashes(k, <<>>)) /\ Cardinality(Slashes(k, <<>>)) <= Depth
  BY <1>1, DepthBounds
<1>3. /\ S \subseteq n + 1..Len(k) /\ S \in SUBSET Nat /\ S \in SUBSET Slashes(k, <<>>)
      /\ \A x \in n + 1..Len(k) : x \in S <=> k[x] = "/"
  <2>1. Len(<<>>) = 0
    BY EmptySeq
  <2> QED
    BY <1>1, <2>1 DEF Slashes
<1>4. ASSUME NEW m \in Nat, m <= Depth, NEW d \in Walk[m], NEW dir, dir = DirKeyPrefix(d),
             IsPrefix(dir, k), Slashes(k, dir) = {}, dir # k
      PROVE  PathFor(k) \in UNION {LsFiles(Objects, e) : e \in Walk[Depth]}
  <2>1. PathFor(k) \in LsFiles(Objects, d)
    BY <1>4 DEF LsFiles, ContentsOf, Below
  <2>2. d \in Walk[Depth]
    BY <1>2, <1>4, WalkGrows
  <2> QED
    BY <2>1, <2>2
<1> HIDE DEF S, n
<1>5. CASE S = {}
  <2>1. RootPrefix # k
    <3>1. prefix = <<>> => RootPrefix = <<>>
      BY DEF RootPrefix
    <3>2. prefix # <<>> => EndsWithSlash(RootPrefix)
      <4> SUFFICES ASSUME prefix # <<>> PROVE EndsWithSlash(RootPrefix)
        OBVIOUS
      <4>1. RootPrefix = prefix \o <<"/">>
        BY DEF RootPrefix
      <4>2. prefix \in Seq(Pieces) /\ "/" \in Pieces
        BY RootIsName, Pieced DEF Names
      <4>3. RootPrefix = Append(prefix, "/")
        BY <4>1, <4>2, AppendIsConcat
      <4>4. /\ RootPrefix \in Seq(Pieces) /\ Len(RootPrefix) = Len(prefix) + 1 /\ Len(prefix) \in Nat
            /\ RootPrefix[Len(prefix) + 1] = "/"
        BY <4>2, <4>3, AppendProperties, LenProperties
      <4> QED
        BY <4>4, EmptySeq DEF EndsWithSlash, Last
    <3> QED
      BY <3>1, <3>2 DEF IsMarker
  <2>2. <<"/">> \in Walk[0] /\ 0 \in Nat /\ 0 <= Depth
    BY <1>2, Walked
  <2> QED
    BY <1>4, <1>5, <2>1, <2>2, RootDir DEF S
<1>6. CASE S # {}
  <2>1. IsFiniteSet(S) /\ Cardinality(S) <= Cardinality(Slashes(k, <<>>))
    BY <1>2, <1>3, FS_Subset
  <2>2. PICK q \in S : \A x \in S : x <= q
    BY <1>3, <1>6, <2>1, MaxOfFinite
  <2>3. {x \in S : x <= q} = S
    BY <2>2
  <2>4. Cardinality(S) \in Nat /\ Cardinality(S) <= Depth
    BY <1>2, <2>1, FS_CardinalityType
  <2> DEFINE c == SubSeq(k, 1, q)
             d == PathFor(c)
  <2>5. d \in Walk[Cardinality(S)]
    BY <2>2, <2>3, DirsReached DEF S
  <2>6. q \in n + 1..Len(k) /\ q \in 1..Len(k) /\ k[q] = "/" /\ q \in Nat
    BY <1>1, <1>3, <2>2
  <2>7. DirKeyPrefix(d) = c
    BY <1>1, <2>6, ListedDir DEF n
  <2>8. IsPrefix(c, k) /\ Len(c) = q
    BY <1>1, <2>6, KeyPart
  <2>9. c # k
    BY <1>1, <2>6, <2>8
  <2> HIDE DEF c, d
  <2>10. Slashes(k, c) = {}
    <3> SUFFICES ASSUME NEW x \in q + 1..Len(k), k[x] = "/" PROVE FALSE
      BY <2>8 DEF Slashes
    <3>1. x \in n + 1..Len(k) /\ ~(x <= q)
      BY <1>1, <2>6
    <3> QED
      BY <1>3, <2>2, <3>1
  <2> QED
    BY <1>4, <2>4, <2>5, <2>7, <2>8, <2>9, <2>10
<1> QED
  BY <1>5, <1>6

(* What is left of a string does not begin, or end, with what it lost.     *)
LEMMA LStripStops ==
  ASSUME NEW s \in Names, LStrip(s) # <<>>
  PROVE  LStrip(s)[1] # "/"
<1> DEFINE m == LeadingSlashes(s)
<1>1. /\ Len(s) \in Nat /\ m \in 0..Len(s) /\ \A i \in 1..m : s[i] = "/"
      /\ \A n \in 0..Len(s) : (\A i \in 1..n : s[i] = "/") => n <= m
      /\ s \in Seq(Pieces)
  BY SlashesStripped, LenProperties DEF Names
<1>2. LStrip(s) = SubSeq(s, m + 1, Len(s))
  BY DEF LStrip
<1> HIDE DEF m
<1>3. m # Len(s)
  <2> SUFFICES ASSUME m = Len(s) PROVE FALSE
    OBVIOUS
  <2>1. m + 1 \in Int /\ Len(s) \in Int /\ Len(s) < m + 1
    BY <1>1
  <2> QED
    BY <1>2, <2>1, SubSeqEmpty
<1>4. m + 1 \in 0..Len(s) /\ m + 1 \in Nat
  BY <1>1, <1>3
<1>5. s[m + 1] # "/"
  <2> SUFFICES ASSUME s[m + 1] = "/" PROVE FALSE
    OBVIOUS
  <2>1. \A i \in 1..m + 1 : i \in 1..m \/ i = m + 1
    BY <1>1
  <2>2. \A i \in 1..m + 1 : s[i] = "/"
    BY <1>1, <2>1
  <2>3. m + 1 <= m
    BY <1>1, <1>4, <2>2
  <2> QED
    BY <1>1, <2>3
<1>6. SubSeq(s, m + 1, Len(s))[1] = s[m + 1]
  BY <1>1, <1>4
<1> QED
  BY <1>2, <1>5, <1>6

LEMMA StripStops ==
  ASSUME NEW s \in Names, Strip(s) # <<>>
  PROVE  ~EndsWithSlash(Strip(s))
<1> DEFINE z == LStrip(Reverse(LStrip(s)))
<1>1. Reverse(LStrip(s)) \in Names
  BY SlashesStripped, ReverseOfSeq DEF Names
<1>2. z \in Names
  BY <1>1, SlashesStripped
<1>3. z # <<>> => z[1] # "/"
  BY <1>1, LStripStops
<1>4. Strip(s) = Reverse(z)
  BY DEF Strip
<1> HIDE DEF z
<1>5. Len(z) \in Nat /\ z \in Seq(Pieces) /\ Reverse(z) \in Seq(Pieces)
  BY <1>2, LenProperties, ReverseOfSeq DEF Names
<1>6. Reverse(z) = [i \in 1..Len(z) |-> z[(Len(z) - i) + 1]]
  BY DEF Reverse
<1>7. Len(Reverse(z)) = Len(z)
  BY <1>5, <1>6, LenProperties
<1>8. Len(z) # 0
  BY <1>4, <1>5, <1>7, EmptySeq
<1>9. Len(z) \in 1..Len(z) /\ (Len(z) - Len(z)) + 1 = 1
  BY <1>5, <1>8
<1>10. Reverse(z)[Len(z)] = z[1]
  BY <1>6, <1>9
<1>11. z # <<>>
  BY <1>8, EmptySeq
<1> QED
  BY <1>3, <1>4, <1>7, <1>10, <1>11 DEF EndsWithSlash, Last

LEMMA PrefixStops == prefix # <<>> => ~EndsWithSlash(prefix)
<1>1. LStrip(UriPath(DocsRoot)) \in Names
  BY UriPathIsName, SlashesStripped
<1> QED
  BY <1>1, StripStops DEF prefix

(* The path of a URI is what follows the bucket.                           *)
LEMMA UriPathOf ==
  ASSUME NEW b \in Pieces, b # "/", NEW t \in Names
  PROVE  Tail(UriPath(<<b>> \o (<<"/">> \o t))) = t
<1> DEFINE u == <<"/">> \o t
           bk == <<b>>
           uri == bk \o u
           slashes == {i \in DOMAIN uri : uri[i] = "/"}
<1>1. /\ u \in Seq(Pieces) /\ Len(u) = Len(t) + 1 /\ u[1] = "/"
      /\ \A i \in 1..Len(t) : u[i + 1] = t[i]
      /\ Len(t) \in Nat /\ t \in Seq(Pieces)
  BY SlashBefore, LenProperties DEF Names
<1>2. bk \in Seq(Pieces) /\ Len(bk) = 1 /\ bk[1] = b
  OBVIOUS
<1> HIDE DEF u, bk
<1>3. /\ uri \in Seq(Pieces) /\ Len(uri) = Len(t) + 2 /\ DOMAIN uri = 1..Len(t) + 2
      /\ \A j \in 1..Len(t) + 2 : uri[j] = IF j <= 1 THEN bk[j] ELSE u[j - 1]
  <2>1. /\ uri \in Seq(Pieces) /\ Len(uri) = Len(bk) + Len(u)
        /\ \A j \in 1..Len(bk) + Len(u) : uri[j] = IF j <= Len(bk) THEN bk[j] ELSE u[j - Len(bk)]
    BY <1>1, <1>2, ConcatProperties
  <2>2. Len(bk) + Len(u) = Len(t) + 2
    BY <1>1, <1>2
  <2> HIDE DEF uri
  <2> QED
    BY <1>2, <2>1, <2>2, LenProperties
<1> HIDE DEF uri
<1>4. \A j \in 2..Len(t) + 2 : uri[j] = u[j - 1]
  <2>1. \A j \in 2..Len(t) + 2 : j \in 1..Len(t) + 2 /\ ~(j <= 1)
    BY <1>1
  <2> QED
    BY <1>3, <2>1
<1>5. Min(slashes) = 2 /\ slashes # {}
  <2>1. 2 \in slashes
    <3>1. 2 \in 2..Len(t) + 2 /\ 2 - 1 = 1 /\ 2 \in 1..Len(t) + 2
      BY <1>1
    <3>2. uri[2] = u[1]
      BY <1>4, <3>1
    <3> QED
      BY <1>1, <1>3, <3>1, <3>2
  <2>2. 1 \notin slashes
    <3>1. 1 \in 1..Len(t) + 2 /\ 1 <= 1
      BY <1>1
    <3>2. uri[1] = bk[1]
      BY <1>3, <3>1
    <3> QED
      BY <1>2, <3>2
  <2>3. slashes \in SUBSET Nat /\ \A i \in slashes : i >= 1
    BY <1>1, <1>3
  <2> HIDE DEF slashes
  <2>4. Min(slashes) \in slashes /\ Min(slashes) <= 2
    BY <2>1, <2>3, MinOfSet
  <2>5. Min(slashes) # 1 /\ Min(slashes) >= 1 /\ Min(slashes) \in Nat
    BY <2>2, <2>3, <2>4
  <2> QED
    BY <2>1, <2>4, <2>5
<1>6. UriPath(uri) = SubSeq(uri, 2, Len(uri))
  BY <1>5 DEF UriPath
<1> DEFINE v == SubSeq(uri, 2, Len(uri))
<1>7. v \in Seq(Pieces) /\ Len(v) = Len(t) + 1 /\ \A j \in 1..Len(t) + 1 : v[j] = uri[j + 1]
  BY <1>1, <1>3
<1> HIDE DEF v
<1>8. \A j \in 1..Len(t) + 1 : v[j] = u[j]
  <2>1. \A j \in 1..Len(t) + 1 : j + 1 \in 2..Len(t) + 2 /\ (j + 1) - 1 = j
    BY <1>1
  <2>2. \A j \in 1..Len(t) + 1 : uri[j + 1] = u[(j + 1) - 1]
    BY <1>4, <2>1
  <2> QED
    BY <1>7, <2>1, <2>2
<1>9. v = u
  BY <1>1, <1>7, <1>8, SeqEqual
<1>10. Tail(u) = t
  <2>1. u # <<>>
    BY <1>1, EmptySeq
  <2> DEFINE w == Tail(u)
  <2>2. w \in Seq(Pieces) /\ Len(w) = Len(t) /\ \A i \in 1..Len(t) : w[i] = u[i + 1]
    BY <1>1, <2>1
  <2> HIDE DEF w
  <2> QED
    BY <1>1, <2>2, SeqEqual DEF w
<1> QED
  BY <1>6, <1>9, <1>10 DEF v, uri, u, bk

(* An upload lands where the backend looks for it.                         *)
LEMMA SyncedKey ==
  ASSUME SyncsRoot, NEW f \in DOMAIN SyncFiles
  PROVE  SyncKey(f) = RootPrefix \o f
<1> DEFINE b == Head(DocsRoot)
           sl == <<"/">>
           root == IF prefix = <<>> THEN <<b>> ELSE <<b>> \o sl \o prefix
<1>1. b \in Pieces /\ b # "/" /\ SyncDest \in {root, root \o sl}
  <2>1. b \in STRING
    BY UriAssumption
  <2> QED
    BY <2>1 DEF SyncsRoot, Pieces
<1>2. /\ sl \in Seq(Pieces) /\ <<b>> \in Seq(Pieces) /\ prefix \in Seq(Pieces) /\ RootPrefix \in Names
      /\ sl[1] = "/" /\ Len(sl) = 1
  BY <1>1, Pieced, RootIsName DEF Names
<1>3. prefix # <<>> => prefix[Len(prefix)] # "/"
  <2>1. prefix # <<>> => ~EndsWithSlash(prefix)
    BY PrefixStops
  <2> QED
    BY <2>1 DEF EndsWithSlash, Last
<1> HIDE DEF b, sl
<1>4. root \in Seq(Pieces) /\ root # <<>> /\ root[Len(root)] # "/"
  <2>1. CASE prefix = <<>>
    <3>1. root = <<b>> /\ <<b>>[1] = b /\ Len(<<b>>) = 1
      BY <2>1
    <3> QED
      BY <1>1, <1>2, <3>1
  <2>2. CASE prefix # <<>>
    <3> DEFINE x == <<b>> \o sl
    <3>1. x \in Seq(Pieces)
      BY <1>2, ConcatProperties
    <3> HIDE DEF x
    <3>2. Len(x) \in Nat /\ Len(prefix) \in Nat /\ Len(prefix) # 0
      BY <1>2, <2>2, <3>1, LenProperties, EmptySeq
    <3>3. x \o prefix \in Seq(Pieces) /\ Len(x \o prefix) = Len(x) + Len(prefix)
      BY <1>2, <3>1, ConcatProperties
    <3>4. \A j \in 1..Len(x) + Len(prefix) :
             (x \o prefix)[j] = IF j <= Len(x) THEN x[j] ELSE prefix[j - Len(x)]
      BY <1>2, <3>1, ConcatProperties
    <3>5. /\ Len(x) + Len(prefix) \in 1..Len(x) + Len(prefix)
          /\ ~(Len(x) + Len(prefix) <= Len(x)) /\ (Len(x) + Len(prefix)) - Len(x) = Len(prefix)
      BY <3>2
    <3>6. (x \o prefix)[Len(x) + Len(prefix)] = prefix[Len(prefix)]
      BY <3>4, <3>5
    <3>7. root = x \o prefix
      BY <2>2 DEF x
    <3>8. Len(root) # 0
      BY <3>2, <3>3, <3>7
    <3> QED
      BY <1>3, <2>2, <3>3, <3>6, <3>7, <3>8, EmptySeq
  <2> QED
    BY <2>1, <2>2
<1>5. root \o sl = <<b>> \o (sl \o RootPrefix)
  <2>1. CASE prefix = <<>>
    <3>1. sl \o <<>> = sl
      BY <1>2, ConcatEmptySeq
    <3> QED
      BY <2>1, <3>1 DEF RootPrefix
  <2>2. CASE prefix # <<>>
    <3>1. root = <<b>> \o sl \o prefix /\ RootPrefix = prefix \o sl
      BY <2>2 DEF RootPrefix, sl
    <3>2. /\ <<b>> \o sl \in Seq(Pieces) /\ prefix \o sl \in Seq(Pieces)
      BY <1>2, ConcatProperties
    <3>3. (<<b>> \o sl \o prefix) \o sl = (<<b>> \o sl) \o (prefix \o sl)
      BY <1>2, <3>2, ConcatAssociative
    <3>4. (<<b>> \o sl) \o (prefix \o sl) = <<b>> \o (sl \o (prefix \o sl))
      BY <1>2, <3>2, ConcatAssociative
    <3> QED
      BY <3>1, <3>3, <3>4, Zenon
  <2> QED
    BY <2>1, <2>2
<1> HIDE DEF root
<1> DEFINE dest == IF EndsWithSlash(SyncDest) THEN Front(SyncDest) ELSE SyncDest
<1>6. dest = root
  <2>1. CASE SyncDest = root
    BY <1>4, <2>1 DEF EndsWithSlash, Last
  <2>2. CASE SyncDest = root \o sl
    <3> DEFINE y == root \o sl
    <3>1. y \in Seq(Pieces) /\ Len(y) = Len(root) + 1 /\ Len(root) \in Nat \ {0}
      <4>1. Len(root) \in Nat /\ Len(root) # 0
        BY <1>4, LenProperties, EmptySeq
      <4>2. y \in Seq(Pieces) /\ Len(y) = Len(root) + Len(sl)
        BY <1>2, <1>4, ConcatProperties
      <4> QED
        BY <1>2, <4>1, <4>2
    <3>2. \A j \in 1..Len(root) + 1 : y[j] = IF j <= Len(root) THEN root[j] ELSE sl[j - Len(root)]
      <4>1. \A j \in 1..Len(root) + Len(sl) :
               y[j] = IF j <= Len(root) THEN root[j] ELSE sl[j - Len(root)]
        BY <1>2, <1>4, ConcatProperties
      <4> QED
        BY <1>2, <4>1
    <3>3. Len(root) + 1 \in 1..Len(root) + 1 /\ ~(Len(root) + 1 <= Len(root))
          /\ (Len(root) + 1) - Len(root) = 1
      BY <3>1
    <3>4. y[Len(root) + 1] = "/"
      BY <1>2, <3>2, <3>3
    <3>5. SubSeq(y, 1, Len(root)) = root
      <4>1. 1 \in 1..Len(root) /\ Len(root) \in 1..Len(root)
        BY <3>1
      <4>2. SubSeq(y, 1, Len(root)) = SubSeq(root, 1, Len(root))
        BY <1>2, <1>4, <4>1, SubSeqOfConcat1
      <4> QED
        BY <1>4, <4>2, SubSeqFull
    <3> HIDE DEF y
    <3>6. y # <<>>
      BY <3>1, EmptySeq
    <3>7. EndsWithSlash(y)
      BY <3>1, <3>4, <3>6 DEF EndsWithSlash, Last
    <3>8. Front(y) = root
      <4>1. Len(y) - 1 = Len(root)
        BY <3>1
      <4> QED
        BY <3>5, <4>1 DEF Front
    <3> QED
      BY <2>2, <3>7, <3>8 DEF y
  <2> QED
    BY <1>1, <2>1, <2>2
<1>7. Tail(UriPath(root \o sl)) = RootPrefix
  BY <1>1, <1>2, <1>5, UriPathOf DEF sl
<1> QED
  BY <1>6, <1>7 DEF SyncKey, sl

-----------------------------------------------------------------------------
(* The properties.                                                         *)

(* What a call has found are objects of the root.                          *)
LEMMA FoundInRoot ==
  ASSUME S3Inv, NEW w \in Workers, NEW p \in PathsFound(w)
  PROVE  \E k \in RootKeys : versions[k] # <<>> /\ p = PathFor(k)
<1>1. StoreTypes /\ Listed(w)
  BY DEF S3Inv, WorkerFacts
<1>2. CASE call[w].op # "grep"
  BY <1>1, <1>2 DEF PathsFound, Listed
<1>3. CASE call[w].op = "grep"
  <2>1. PICK f \in found[w] : p = f.path
    BY <1>3 DEF PathsFound
  <2>2. PICK k \in RootKeys : \E i \in DOMAIN versions[k] : f = Hit(k, i)
    BY <1>1, <1>3, <2>1 DEF Listed
  <2>3. versions[k] # <<>>
    BY <2>2
  <2> QED
    BY <2>1, <2>2, <2>3 DEF Hit
<1> QED
  BY <1>2, <1>3

LEMMA InvRootIsolated == S3Inv => RootIsolated
<1> SUFFICES ASSUME S3Inv PROVE RootIsolated
  OBVIOUS
<1>1. StoreTypes /\ \A w \in Workers : Wrote(w)
  BY DEF S3Inv, WorkerFacts
<1>2. ASSUME NEW k \in Objects, ~InRoot(k), NEW i \in DOMAIN versions[k]
      PROVE  versions[k][i].by = NoWorker
  <2>1. k \in StoreKeys /\ k \notin RootKeys
    BY <1>2, RootHolds DEF Objects, RootKeys
  <2>2. versions[k][i].by \in Workers \cup {NoWorker}
    BY <1>1, <1>2, <2>1, VersionsAreSeqs DEF Version
  <2>3. ASSUME NEW w \in Workers, versions[k][i].by = w PROVE FALSE
    <3>1. k = KeyOf(w) /\ call[w].op \in {"write", "edit"}
      BY <1>1, <1>2, <2>1, <2>3 DEF Wrote
    <3> QED
      BY <1>1, <2>1, <3>1, CallHasKey
  <2> QED
    BY <2>2, <2>3
<1>3. Searchable \subseteq {k \in StoreKeys : InRoot(k)}
  BY RootHolds DEF Searchable, SearchedKeys, Below
<1>4. \A w \in Workers : todo[w] \cup skipped[w] \subseteq Searchable
  BY <1>1 DEF StoreTypes
<1>5. ASSUME NEW w \in Workers, NEW p \in PathsFound(w)
      PROVE  p \in {PathFor(k) : k \in {o \in Objects : InRoot(o)}}
  <2>1. PICK k \in RootKeys : versions[k] # <<>> /\ p = PathFor(k)
    BY <1>5, FoundInRoot
  <2>2. k \in Objects /\ InRoot(k)
    BY <2>1, RootHolds DEF RootKeys, Objects
  <2> QED
    BY <2>1, <2>2
<1> QED
  BY <1>2, <1>3, <1>4, <1>5 DEF RootIsolated

LEMMA InvFoundIsReadable == S3Inv => FoundIsReadable
<1> SUFFICES ASSUME S3Inv, NEW w \in Workers, NEW p \in PathsFound(w), LeadingSlashes(p) = 1
             PROVE  KeyFor(p) \in Objects
  BY DEF FoundIsReadable
<1>2. PICK k \in RootKeys : versions[k] # <<>> /\ p = PathFor(k)
  BY FoundInRoot
<1>3. k \in StoreKeys /\ k \in Names /\ IsPrefix(RootPrefix, k)
  BY KeysAreNames DEF RootKeys
<1>4. KeyFor(p) = k
  BY <1>2, <1>3, RoundTrip
<1> QED
  BY <1>2, <1>3, <1>4 DEF Objects

LEMMA InvAnswerTells == S3Inv => AnswerTells
<1> SUFFICES ASSUME S3Inv, NEW w \in Workers, pc[w] = "done", call[w].op \in {"write", "edit"}
             PROVE  /\ answer[w] = "ok" =>
                          /\ Sent(w) # {}
                          /\ \A i \in Sent(w) :
                                /\ i > since[w][KeyOf(w)] /\ i <= until[w][KeyOf(w)]
                                /\ versions[KeyOf(w)][i].text = Body(w)
                    /\ answer[w] \in {"missing", "refused"} => Sent(w) = {}
                    /\ answer[w] = "refused" => RefusedRightly(w)
  BY DEF AnswerTells
<1>1. Wrote(w) /\ Refused(w) /\ KeyOf(w) \in StoreKeys
  BY CallHasKey DEF S3Inv, WorkerFacts, RootKeys
<1>2. ASSUME NEW i \in Sent(w)
      PROVE  /\ answer[w] \in {"ok", "error"}
             /\ i > since[w][KeyOf(w)] /\ i <= until[w][KeyOf(w)]
             /\ versions[KeyOf(w)][i].text = Body(w)
  BY <1>1, <1>2 DEF Wrote, Sent
<1>3. answer[w] = "ok" => Sent(w) # {}
  BY <1>1 DEF Wrote, Sent
<1>4. answer[w] = "refused" => RefusedRightly(w)
  BY <1>1 DEF Refused
<1> QED
  BY <1>2, <1>3, <1>4

LEMMA InvEditsDerive == S3Inv => EditsDerive
<1> SUFFICES ASSUME S3Inv, NEW k \in StoreKeys, NEW i \in DOMAIN versions[k],
                    NEW w \in Workers, versions[k][i].by = w, call[w].op = "edit"
             PROVE  LET c == call[w]
                        old == Normalised(c.old)
                        new == Normalised(c.new)
                    IN  \E j \in 1..i - 1 :
                            LET text == versions[k][j].text
                            IN  /\ j >= since[w][k]
                                /\ \/ /\ Occurrences(text, old) = 1
                                      /\ LET rest == Without(text, Min(Places(text, old)), Len(old))
                                         IN  versions[k][i].text = rest.before \o new \o rest.after
                                   \/ /\ c.all /\ Occurrences(text, old) > 1
                                      /\ versions[k][i].text = Replaced(c, text)
  BY DEF EditsDerive
<1> DEFINE c == call[w]
           old == Normalised(c.old)
           new == Normalised(c.new)
<1>1. StoreTypes /\ Wrote(w)
  BY DEF S3Inv, WorkerFacts
<1>2. c.old \in Names /\ c.old # <<>> /\ c.new \in Names
  <2>1. c \in ToolCalls /\ c.op = "edit"
    BY <1>1, CallHasKey
  <2>2. c.old \in Olds /\ c.new \in News
    BY <2>1, CallShapes
  <2> QED
    BY <2>2, StoreAssumption, StringsArePieces
<1>3. PICK j \in 1..i - 1 : /\ j >= since[w][k] /\ Replaces(c, versions[k][j].text)
                            /\ versions[k][i].text = Replaced(c, versions[k][j].text)
  BY <1>1 DEF Wrote, EditedFrom
<1> DEFINE text == versions[k][j].text
<1>4. text \in Names
  BY <1>1, VersionsAreSeqs DEF Version
<1>5. CASE Occurrences(text, old) = 1
  <2> DEFINE rest == Without(text, Min(Places(text, old)), Len(old))
  <2>1. Replaced(c, text) = rest.before \o new \o rest.after
    <3> HIDE DEF text, c
    <3> QED
      BY <1>2, <1>4, <1>5, OnePlaceReplaced
  <2>2. versions[k][i].text = rest.before \o new \o rest.after
    BY <1>3, <2>1
  <2> QED
    BY <1>3, <1>5, <2>2
<1>6. CASE c.all /\ Occurrences(text, old) > 1
  BY <1>3, <1>6
<1>7. Occurrences(text, old) = 1 \/ (c.all /\ Occurrences(text, old) > 1)
  BY <1>3 DEF Replaces
<1> QED
  BY <1>5, <1>6, <1>7

LEMMA InvGrepTruthful == S3Inv => GrepTruthful
<1> SUFFICES ASSUME S3Inv, NEW w \in Workers,
                    pc[w] = "done", answer[w] = "ok", call[w].op = "grep"
             PROVE  /\ \A f \in found[w] :
                          LET k == KeyFor(f.path)
                          IN  /\ Occurrences(f.text, call[w].old) > 0
                              /\ LeadingSlashes(f.path) = 1 => \E i \in DOMAIN versions[k] :
                                    /\ i >= since[w][k] /\ i <= until[w][k]
                                    /\ versions[k][i].text = f.text
                    /\ \A k \in SearchedKeys(Objects) \ skipped[w] :
                          since[w][k] > 0 /\ since[w][k] = until[w][k]
                          /\ Occurrences(versions[k][since[w][k]].text, call[w].old) > 0
                              => PathFor(k) \in PathsFound(w)
  BY DEF GrepTruthful
<1>1. StoreTypes /\ Listed(w) /\ Searched(w)
  BY DEF S3Inv, WorkerFacts
<1>2. ASSUME NEW f \in found[w]
      PROVE  /\ Occurrences(f.text, call[w].old) > 0
             /\ LeadingSlashes(f.path) = 1 => \E i \in DOMAIN versions[KeyFor(f.path)] :
                   /\ i >= since[w][KeyFor(f.path)] /\ i <= until[w][KeyFor(f.path)]
                   /\ versions[KeyFor(f.path)][i].text = f.text
  <2>1. Occurrences(f.text, call[w].old) > 0
    BY <1>1, <1>2 DEF Searched
  <2>2. PICK k \in RootKeys : \E i \in DOMAIN versions[k] : During(w, k, i) /\ f = Hit(k, i)
    BY <1>1, <1>2 DEF Listed
  <2>3. PICK i \in DOMAIN versions[k] : During(w, k, i) /\ f = Hit(k, i)
    BY <2>2
  <2>4. f.path = PathFor(k) /\ versions[k][i].text = f.text
    BY <2>3 DEF Hit
  <2>5. k \in Names /\ IsPrefix(RootPrefix, k)
    BY KeysAreNames DEF RootKeys
  <2>6. LeadingSlashes(f.path) = 1 => KeyFor(f.path) = k
    BY <2>4, <2>5, RoundTrip
  <2> QED
    BY <2>1, <2>3, <2>4, <2>6 DEF During
<1>3. ASSUME NEW k \in SearchedKeys(Objects) \ skipped[w],
             since[w][k] > 0, since[w][k] = until[w][k],
             Occurrences(versions[k][since[w][k]].text, call[w].old) > 0
      PROVE  PathFor(k) \in PathsFound(w)
  <2>1. k \in Searchable /\ k \in StoreKeys
    BY DEF Searchable, SearchedKeys, Below, Objects
  <2>2. todo[w] = {}
    BY <1>1 DEF Searched
  <2>3. PICK i \in DOMAIN versions[k] :
           /\ During(w, k, i)
           /\ Hit(k, i) \in found[w] \/ ~(Occurrences(versions[k][i].text, call[w].old) > 0)
    BY <1>1, <1>3, <2>1, <2>2 DEF Searched
  <2>4. i = since[w][k]
    <3>1. i \in Nat /\ since[w][k] \in Nat
      BY <1>1, <2>1, VersionsAreSeqs DEF StoreTypes
    <3>2. i >= since[w][k] /\ i <= until[w][k]
      BY <2>3 DEF During
    <3> QED
      BY <1>3, <3>1, <3>2
  <2>5. Hit(k, i) \in found[w]
    BY <1>3, <2>3, <2>4
  <2> QED
    BY <2>5 DEF PathsFound, Hit
<1> QED
  BY <1>2, <1>3

(* Whatever the paths of the agent's calls: no call changes or downloads   *)
(* an object of another root of the bucket in a search, and every file     *)
(* that ls, glob and grep return is an object of this root.                *)
THEOREM RootsApart == S3Spec => []RootIsolated
BY Storing, InvRootIsolated, PTL

(* Every path that ls, glob or grep answers reads the object it stands for. *)
THEOREM FoundReads == S3Spec => []FoundIsReadable
BY Storing, InvFoundIsReadable, PTL

(* The answer of write and edit tells what has become of the file, however *)
(* often boto3 sends a put again.                                          *)
THEOREM AnswersTell == S3Spec => []AnswerTells
BY Storing, InvAnswerTells, PTL

(* Whatever overlaps an edit: what it writes is its replacement in a       *)
(* content the same file had during the call.                              *)
THEOREM EditsKeepTheRest == S3Spec => []EditsDerive
BY Storing, InvEditsDerive, PTL

(* A grep that overlaps anything returns what was there, and all of it.    *)
THEOREM GrepTells == S3Spec => []GrepTruthful
BY Storing, InvGrepTruthful, PTL

(* What has been uploaded is in the store.                                 *)
Uploaded == \A f \in synced : f \in DOMAIN SyncFiles /\ versions[SyncKey(f)] # <<>>

LEMMA AppendedIsNotEmpty ==
  ASSUME NEW s \in Seq(Version), NEW v
  PROVE  Append(s, v) # <<>>
<1> DEFINE T == Version \cup {v}
<1>1. s \in Seq(T)
  <2>1. Len(s) \in Nat /\ s \in [1..Len(s) -> Version]
    BY LenProperties
  <2>2. s \in [1..Len(s) -> T]
    BY <2>1
  <2> QED
    BY <2>1, <2>2, SeqDef
<1>2. v \in T
  OBVIOUS
<1> HIDE DEF T
<1>3. Append(s, v) \in Seq(T) /\ Len(Append(s, v)) = Len(s) + 1 /\ Len(s) \in Nat
  BY <1>1, <1>2, AppendProperties, LenProperties
<1>4. Len(Append(s, v)) # 0
  BY <1>3
<1> QED
  BY <1>4, EmptySeq

LEMMA UploadedStep ==
  ASSUME StoreTypes, Uploaded, [S3Next]_s3Vars
  PROVE  Uploaded'
<1>1. ASSUME versions' = versions, synced' = synced
      PROVE  Uploaded'
  BY <1>1 DEF Uploaded
<1>2. ASSUME NEW k, NEW v, versions' = [versions EXCEPT ![k] = Append(@, v)]
      PROVE  \A x \in StoreKeys : versions[x] # <<>> \/ x = k => versions'[x] # <<>>
  BY <1>2, AppendedIsNotEmpty DEF StoreTypes
<1>3. \A f \in DOMAIN SyncFiles : SyncKey(f) \in StoreKeys
  BY DEF StoreKeys
<1>4. ASSUME NEW w \in Workers, PutAgain(w) \/ PutOk(w) \/ PutFails(w) PROVE Uploaded'
  <2>1. synced' = synced
    BY <1>4 DEF PutAgain, PutOk, PutFails, callVars
  <2>2. versions' = versions \/ versions' = Stored(w)
    BY <1>4 DEF PutAgain, PutOk, PutFails
  <2>3. CASE versions' = Stored(w)
    <3>1. \A x \in StoreKeys : versions[x] # <<>> => versions'[x] # <<>>
      BY <1>2, <2>3 DEF Stored
    <3> QED
      BY <1>3, <2>1, <3>1 DEF Uploaded
  <2> QED
    BY <1>1, <2>1, <2>2, <2>3
<1>5. ASSUME NEW f \in DOMAIN SyncFiles, Sync(f) PROVE Uploaded'
  <2>1. /\ synced' = synced \cup {f}
        /\ versions' = [versions EXCEPT ![SyncKey(f)] =
              Append(@, [by |-> NoWorker, text |-> SyncFiles[f]])]
    BY <1>5 DEF Sync
  <2>2. \A x \in StoreKeys : versions[x] # <<>> \/ x = SyncKey(f) => versions'[x] # <<>>
    BY <1>2, <2>1
  <2> QED
    BY <1>3, <2>1, <2>2 DEF Uploaded
<1>6. ASSUME NEW w \in Workers,
             \/ \E c \in ToolCalls : Start(w, c)
             \/ GetMissing(w) \/ ReadFile(w) \/ EditGet(w) \/ EditRefused(w)
             \/ Ls(w) \/ Glob(w) \/ GrepList(w) \/ GrepMatch(w)
             \/ \E k \in todo[w] : GrepFile(w, k) \/ GrepSkip(w, k)
             \/ RequestFails(w)
      PROVE  Uploaded'
  <2>1. versions' = versions /\ synced' = synced
    BY <1>6 DEF Start, GetMissing, ReadFile, EditGet, EditRefused, Ls, Glob, GrepList, GrepMatch,
                GrepFile, GrepSkip, RequestFails, callVars
  <2> QED
    BY <1>1, <2>1
<1>7. ASSUME UNCHANGED s3Vars PROVE Uploaded'
  BY <1>1, <1>7 DEF s3Vars, callVars
<1> QED
  BY <1>4, <1>5, <1>6, <1>7 DEF S3Next, S3Quiet

LEMMA Uploading == S3Spec => []Uploaded
<1>1. S3Init => Uploaded
  BY DEF S3Init, Uploaded
<1>2. S3Inv /\ Uploaded /\ [S3Next]_s3Vars => Uploaded'
  BY UploadedStep DEF S3Inv
<1> QED
  BY <1>1, <1>2, Storing, PTL DEF S3Spec

LEMMA InvS3TypeOK == S3Inv /\ Uploaded => S3TypeOK
<1> SUFFICES ASSUME S3Inv, Uploaded PROVE S3TypeOK
  OBVIOUS
<1>1. StoreTypes
  BY DEF S3Inv
<1>2. Searchable \subseteq StoreKeys
  BY DEF Searchable, SearchedKeys, Below
<1>3. ASSUME NEW k \in RootKeys PROVE PathFor(k) \in Names
  BY KeysAreNames, PathOfKey DEF RootKeys
<1>4. ASSUME NEW w \in Workers
      PROVE  found[w] \subseteq
               (IF call[w].op = "grep" THEN [path : Names, text : Names] ELSE Names)
  <2>1. Listed(w)
    BY DEF S3Inv, WorkerFacts
  <2>2. CASE call[w].op # "grep"
    BY <1>3, <2>1, <2>2 DEF Listed
  <2>3. ASSUME call[w].op = "grep", NEW f \in found[w]
        PROVE  f \in [path : Names, text : Names]
    <3>1. PICK k \in RootKeys : \E i \in DOMAIN versions[k] : f = Hit(k, i)
      BY <2>1, <2>3 DEF Listed
    <3>2. PICK i \in DOMAIN versions[k] : f = Hit(k, i)
      BY <3>1
    <3>3. versions[k][i].text \in Names
      BY <1>1, VersionsAreSeqs DEF Version, RootKeys
    <3> QED
      BY <1>3, <3>2, <3>3 DEF Hit
  <2> QED
    BY <2>2, <2>3
<1>5. DOMAIN found = Workers
  BY <1>1 DEF StoreTypes
<1>6. synced \subseteq DOMAIN SyncFiles
  BY DEF Uploaded
<1>7. todo \in [Workers -> SUBSET StoreKeys] /\ skipped \in [Workers -> SUBSET StoreKeys]
  BY <1>1, <1>2 DEF StoreTypes
<1> QED
  BY <1>1, <1>4, <1>5, <1>6, <1>7 DEF StoreTypes, S3TypeOK

(* Every variable of the store and its callers stays in its type.          *)
THEOREM S3Typed == S3Spec => []S3TypeOK
BY Storing, Uploading, InvS3TypeOK, PTL

LEMMA InvWalkFindsAll ==
  ASSUME IsFiniteSet(StoreKeys), SyncsRoot
  PROVE  Uploaded => WalkFindsAll
<1> DEFINE seen == UNION {LsFiles(Objects, d) : d \in Walk[Depth]}
<1> SUFFICES ASSUME Uploaded PROVE WalkFindsAll
  OBVIOUS
<1>1. ASSUME NEW k \in SearchedKeys(Objects) \ {<<>>}, ~DoubledSlash(PathFor(k))
      PROVE  PathFor(k) \in seen
  BY <1>1, FilesReached DEF SearchedKeys, Below
<1>2. ASSUME NEW f \in synced
      PROVE  <<"/">> \o f \in seen /\ KeyFor(<<"/">> \o f) = SyncKey(f)
  <2> DEFINE k == SyncKey(f)
             p == <<"/">> \o f
  <2>1. f \in DOMAIN SyncFiles /\ k \in Objects /\ k = RootPrefix \o f
    <3>1. f \in DOMAIN SyncFiles /\ versions[k] # <<>>
      BY <1>2 DEF Uploaded
    <3> QED
      BY <3>1, SyncedKey DEF Objects, StoreKeys
  <2>2. f \in Names /\ f # <<>> /\ ~EndsWithSlash(f) /\ ~DoubledSlash(p)
    BY <2>1, StoreAssumption, StringsArePieces DEF SyncsRoot
  <2>3. k \in Names /\ IsPrefix(RootPrefix, k)
    BY <2>1, <2>2, RootIsName, PrefixOfConcat DEF Names
  <2> HIDE DEF k, p
  <2>4. /\ Len(f) \in Nat \ {0} /\ Len(RootPrefix) \in Nat /\ Len(k) = Len(RootPrefix) + Len(f)
        /\ \A j \in 1..Len(RootPrefix) + Len(f) :
              k[j] = IF j <= Len(RootPrefix) THEN RootPrefix[j] ELSE f[j - Len(RootPrefix)]
    <3>1. f \in Seq(Pieces) /\ RootPrefix \in Seq(Pieces)
      BY <2>2, RootIsName DEF Names
    <3>2. Len(f) \in Nat /\ Len(f) # 0 /\ Len(RootPrefix) \in Nat
      BY <2>2, <3>1, LenProperties, EmptySeq
    <3> QED
      BY <2>1, <3>1, <3>2, ConcatProperties
  <2>5. \A i \in 1..Len(f) : k[Len(RootPrefix) + i] = f[i]
    <3>1. \A i \in 1..Len(f) : /\ Len(RootPrefix) + i \in 1..Len(RootPrefix) + Len(f)
                               /\ ~(Len(RootPrefix) + i <= Len(RootPrefix))
                               /\ (Len(RootPrefix) + i) - Len(RootPrefix) = i
      BY <2>4
    <3> QED
      BY <2>4, <3>1
  <2>6. PathFor(k) = p
    <3> DEFINE r == SubSeq(k, Len(RootPrefix) + 1, Len(k))
    <3>1. r \in Seq(Pieces) /\ Len(r) = Len(f) /\ \A i \in 1..Len(f) : r[i] = k[Len(RootPrefix) + i]
      BY <2>3, <2>4 DEF Names
    <3> HIDE DEF r
    <3>2. r = f
      BY <2>2, <2>5, <3>1, SeqEqual DEF Names
    <3> QED
      BY <2>3, <3>2 DEF PathFor, r, p
  <2>7. k # <<>> /\ ~IsMarker(k)
    <3>1. Len(f) \in 1..Len(f) /\ Len(k) # 0
      BY <2>4
    <3>2. k[Len(k)] = f[Len(f)]
      BY <2>4, <2>5, <3>1
    <3>3. f[Len(f)] # "/"
      BY <2>2 DEF EndsWithSlash, Last
    <3> QED
      BY <3>1, <3>2, <3>3, EmptySeq DEF IsMarker, EndsWithSlash, Last
  <2>8. p \in seen
    BY <2>1, <2>2, <2>3, <2>6, <2>7, FilesReached
  <2>9. LStrip(p) = f
    <3>1. p \in Names /\ Len(p) = Len(f) + 1 /\ p[1] = "/" /\ \A i \in 1..Len(f) : p[i + 1] = f[i]
      BY <2>2, SlashBefore DEF p
    <3>2. p[2] # "/"
      <4>1. 1 \in 1..Len(p) - 1 /\ 1 + 1 = 2
        BY <2>4, <3>1
      <4> QED
        BY <2>2, <3>1, <4>1 DEF DoubledSlash
    <3>3. Len(p) > 0
      BY <2>4, <3>1
    <3>4. LStrip(p) = SubSeq(p, 2, Len(p))
      BY <3>1, <3>2, <3>3, OneSlash
    <3> DEFINE r == SubSeq(p, 2, Len(p))
    <3>5. r \in Seq(Pieces) /\ Len(r) = Len(f) /\ \A i \in 1..Len(f) : r[i] = p[i + 1]
      BY <2>4, <3>1 DEF Names
    <3> HIDE DEF r
    <3>6. r = f
      BY <2>2, <3>1, <3>5, SeqEqual DEF Names
    <3> QED
      BY <3>4, <3>6 DEF r
  <2>10. KeyFor(p) = k
    BY <2>1, <2>9 DEF KeyFor
  <2> QED
    BY <2>8, <2>10 DEF k, p
<1> QED
  BY <1>1, <1>2 DEF WalkFindsAll

(* Where sync-docs.sh is given the place the backend reads, browsing with  *)
(* ls shows every file that can be searched, at any depth, and every       *)
(* upload under its name.                                                  *)
THEOREM WalkingFinds ==
  ASSUME IsFiniteSet(StoreKeys), SyncsRoot
  PROVE  S3Spec => []WalkFindsAll
<1>1. Uploaded => WalkFindsAll
  BY InvWalkFindsAll
<1> QED
  BY <1>1, Uploading, PTL

=============================================================================
