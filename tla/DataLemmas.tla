----------------------------- MODULE DataLemmas -----------------------------
(***************************************************************************)
(* Facts about the library operators the models are built from, stated     *)
(* once for the proofs that cite them.                                     *)
(*                                                                         *)
(* Induction is by the least counterexample: WFMin takes a set where the   *)
(* library's induction theorems take an operator.                          *)
(***************************************************************************)
EXTENDS SequencesExt, FunctionTheorems, FiniteSetTheorems, SequenceTheorems,
        WellFoundedInduction, TLAPS

(* Every set of naturals that is not empty has a least member.             *)
LEMMA NatLeast ==
  ASSUME NEW T \in SUBSET Nat, T # {}
  PROVE  \E n \in T : \A m \in T : n <= m
<1>1. PICK n \in T : \A m \in T : ~ (<<m, n>> \in OpToRel(<, Nat))
  BY NatLessThanWellFounded, WFMin
<1>2. \A m \in T : ~ (m < n)
  BY <1>1 DEF OpToRel
<1> QED
  BY <1>2

(* A finite set of naturals is bounded, and Max takes its greatest member. *)
LEMMA MaxOfFinite ==
  ASSUME NEW S \in SUBSET Nat, IsFiniteSet(S), S # {}
  PROVE  Max(S) \in S /\ \A x \in S : x <= Max(S)
<1> DEFINE k == Cardinality(S)
<1>1. k \in Nat /\ \E f : f \in Bijection(1..k, S)
  BY FS_CardinalityType DEF ExistsBijection
<1>2. PICK f \in [1..k -> S] : \A x \in S : \E i \in 1..k : f[i] = x
  BY <1>1, Fun_BijectionProperties, Fun_SurjectionProperties
<1> DEFINE Top(i, x) == \A j \in 1..i : f[j] <= x
           Bad == {i \in 1..k : ~ \E x \in S : Top(i, x)}
<1>3. Bad = {}
  <2> SUFFICES ASSUME Bad # {} PROVE FALSE
    OBVIOUS
  <2>0. Bad \in SUBSET Nat
    BY <1>1
  <2>1. PICK i \in Bad : \A j \in Bad : i <= j
    <3> HIDE DEF Bad
    <3> QED
      BY <2>0, NatLeast
  <2>2. f[i] \in S /\ f[i] \in Nat
    BY <1>2
  <2>3. i # 1
    BY <2>2
  <2>4. i - 1 \in 1..k /\ i - 1 \notin Bad
    BY <2>1, <2>3, <1>1
  <2>5. PICK x \in S : Top(i - 1, x)
    BY <2>4
  <2>6. \A j \in 1..i : j = i \/ j \in 1..(i - 1)
    OBVIOUS
  <2>7. CASE f[i] <= x
    BY <2>5, <2>6, <2>7
  <2>8. CASE x <= f[i]
    <3>1. ASSUME NEW j \in 1..i PROVE f[j] <= f[i]
      <4>1. CASE j = i
        BY <4>1, <2>2
      <4>2. CASE j \in 1..(i - 1)
        <5>1. j \in 1..k
          <6> HIDE DEF k
          <6> QED
            BY <4>2, <2>4, <1>1
        <5>2. f[j] \in Nat /\ x \in Nat
          BY <5>1, <1>2
        <5>3. f[j] <= x
          BY <4>2, <2>5
        <5> QED
          BY <5>2, <5>3, <2>2, <2>8
      <4> QED
        BY <2>6, <4>1, <4>2
    <3> QED
      BY <2>2, <3>1
  <2> QED
    BY <2>2, <2>7, <2>8
<1>4. k \in 1..k
  <2>1. PICK x \in S : TRUE
    OBVIOUS
  <2>2. PICK i \in 1..k : f[i] = x
    BY <1>2, <2>1
  <2> HIDE DEF k
  <2> QED
    BY <1>1, <2>2
<1>5. PICK x \in S : Top(k, x)
  BY <1>3, <1>4
<1>6. \A y \in S : x >= y
  BY <1>2, <1>5
<1> QED
  BY <1>6 DEF Max

(* A sequence of all members of a finite set has just those, each once.    *)
LEMMA SequencesOfSet ==
  ASSUME NEW S, IsFiniteSet(S), NEW s \in SetToSeqs(S)
  PROVE  s \in Seq(S) /\ ToSet(s) = S /\ \A i, j \in DOMAIN s : i # j => s[i] # s[j]
<1> DEFINE D == 1..Cardinality(S)
<1>1. Cardinality(S) \in Nat
  BY FS_CardinalityType
<1>2. s \in [D -> S] /\ \A i, j \in D : i # j => s[i] # s[j]
  BY DEF SetToSeqs
<1>3. s \in Injection(D, S)
  BY <1>2, Fun_IsInj
<1>4. IsFiniteSet(D) /\ Cardinality(D) = Cardinality(S)
  BY <1>1, FS_Interval
<1>5. s \in Surjection(D, S)
  BY <1>3, <1>4, FS_Injection
<1>6. ToSet(s) = S
  <2>1. DOMAIN s = D /\ \A x \in S : \E i \in D : s[i] = x
    BY <1>2, <1>5 DEF Surjection
  <2> QED
    BY <1>2, <2>1 DEF ToSet
<1>7. s \in Seq(S)
  BY <1>1, <1>2, SeqDef
<1>8. \A i, j \in DOMAIN s : i # j => s[i] # s[j]
  BY <1>2
<1> QED
  BY <1>6, <1>7, <1>8

(* Appending adds one member, at the end.                                  *)
LEMMA Appended ==
  ASSUME NEW S, NEW s \in Seq(S), NEW e \in S
  PROVE  /\ Append(s, e) \in Seq(S)
         /\ ToSet(Append(s, e)) = ToSet(s) \cup {e}
<1>1. /\ Append(s, e) \in Seq(S) /\ DOMAIN Append(s, e) = 1..(Len(s) + 1)
      /\ DOMAIN s = 1..Len(s) /\ Len(s) \in Nat
  BY AppendProperties, LenProperties
<1>2. /\ \A i \in 1..Len(s) : Append(s, e)[i] = s[i]
      /\ Append(s, e)[Len(s) + 1] = e
  BY AppendProperties
<1> QED
  BY <1>1, <1>2 DEF ToSet

(* What is appended to keeps its prefixes.                                 *)
LEMMA PrefixKept ==
  ASSUME NEW S, NEW s \in Seq(S), NEW t \in Seq(S), NEW e \in S, IsPrefix(s, t)
  PROVE  IsPrefix(s, Append(t, e))
<1>1. Len(s) \in Nat /\ Len(t) \in Nat /\ Len(Append(t, e)) = Len(t) + 1
  BY LenProperties, AppendProperties
<1>2. Len(s) <= Len(t) /\ SubSeq(s, 1, Len(s)) = SubSeq(t, 1, Len(s))
  BY DEF IsPrefix
<1>3. SubSeq(Append(t, e), 1, Len(s)) = SubSeq(t, 1, Len(s))
  <2>1. CASE Len(s) = 0
    BY <2>1, SubSeqEmpty
  <2>2. CASE Len(s) # 0
    <3>1. Append(t, e) = t \o <<e>>
      BY AppendIsConcat
    <3>2. <<e>> \in Seq(S)
      OBVIOUS
    <3>3. 1 \in 1..Len(t) /\ Len(s) \in 1..Len(t)
      BY <1>1, <1>2, <2>2
    <3> QED
      BY <3>1, <3>2, <3>3, SubSeqOfConcat1
  <2> QED
    BY <2>1, <2>2
<1> QED
  BY <1>1, <1>2, <1>3 DEF IsPrefix

LEMMA PrefixOfItself ==
  ASSUME NEW S, NEW s \in Seq(S)
  PROVE  IsPrefix(s, s) /\ IsPrefix(<<>>, s)
<1>1. Len(s) \in Nat /\ Len(<<>>) = 0
  BY LenProperties, EmptySeq
<1>2. SubSeq(<<>>, 1, 0) = SubSeq(s, 1, 0)
  BY SubSeqEmpty
<1> QED
  BY <1>1, <1>2 DEF IsPrefix

(* Min takes the least member of a set of naturals.                        *)
LEMMA MinOfSet ==
  ASSUME NEW S \in SUBSET Nat, S # {}
  PROVE  Min(S) \in S /\ \A x \in S : Min(S) <= x
<1>1. \E n \in S : \A m \in S : n <= m
  BY NatLeast
<1> QED
  BY <1>1 DEF Min

(* A prefix says what the sequence begins with, piece by piece.            *)
LEMMA PrefixPieces ==
  ASSUME NEW S, NEW s \in Seq(S), NEW t \in Seq(S)
  PROVE  IsPrefix(s, t) <=> /\ Len(s) <= Len(t)
                            /\ \A i \in 1..Len(s) : s[i] = t[i]
<1>1. Len(s) \in Nat /\ Len(t) \in Nat
  BY LenProperties
<1>2. ASSUME Len(s) <= Len(t)
      PROVE  /\ SubSeq(s, 1, Len(s)) = [i \in 1..Len(s) |-> s[i]]
             /\ SubSeq(t, 1, Len(s)) = [i \in 1..Len(s) |-> t[i]]
  BY <1>1, <1>2
<1>3. ASSUME Len(s) <= Len(t), SubSeq(s, 1, Len(s)) = SubSeq(t, 1, Len(s)),
             NEW i \in 1..Len(s)
      PROVE  s[i] = t[i]
  <2>1. SubSeq(s, 1, Len(s))[i] = s[i] /\ SubSeq(t, 1, Len(s))[i] = t[i]
    BY <1>2, <1>3
  <2> QED
    BY <1>3, <2>1
<1>4. ASSUME Len(s) <= Len(t), \A i \in 1..Len(s) : s[i] = t[i]
      PROVE  SubSeq(s, 1, Len(s)) = SubSeq(t, 1, Len(s))
  <2>1. [i \in 1..Len(s) |-> s[i]] = [i \in 1..Len(s) |-> t[i]]
    BY <1>4
  <2> QED
    BY <1>2, <1>4, <2>1
<1> QED
  BY <1>3, <1>4 DEF IsPrefix

LEMMA PrefixTrans ==
  ASSUME NEW S, NEW s \in Seq(S), NEW t \in Seq(S), NEW u \in Seq(S),
         IsPrefix(s, t), IsPrefix(t, u)
  PROVE  IsPrefix(s, u)
<1>1. Len(s) \in Nat /\ Len(t) \in Nat /\ Len(u) \in Nat
  BY LenProperties
<1>2. /\ Len(s) <= Len(t) /\ \A i \in 1..Len(s) : s[i] = t[i]
      /\ Len(t) <= Len(u) /\ \A i \in 1..Len(t) : t[i] = u[i]
  BY PrefixPieces
<1>3. \A i \in 1..Len(s) : i \in 1..Len(t)
  BY <1>1, <1>2
<1>4. Len(s) <= Len(u) /\ \A i \in 1..Len(s) : s[i] = u[i]
  BY <1>1, <1>2, <1>3
<1> QED
  BY <1>4, PrefixPieces

(* A concatenation begins with its first part.                             *)
LEMMA PrefixOfConcat ==
  ASSUME NEW S, NEW s \in Seq(S), NEW t \in Seq(S)
  PROVE  s \o t \in Seq(S) /\ IsPrefix(s, s \o t)
<1>1. /\ s \o t \in Seq(S) /\ Len(s \o t) = Len(s) + Len(t)
      /\ Len(s) \in Nat /\ Len(t) \in Nat
      /\ \A i \in 1..Len(s) : s[i] = (s \o t)[i]
  BY ConcatProperties, LenProperties
<1> DEFINE u == s \o t
<1>2. u \in Seq(S) /\ Len(s) <= Len(u) /\ \A i \in 1..Len(s) : s[i] = u[i]
  BY <1>1
<1>3. IsPrefix(s, u)
  <2> HIDE DEF u
  <2> QED
    BY <1>2, PrefixPieces
<1> QED
  BY <1>2, <1>3

(* A part of a sequence is a sequence.                                     *)
LEMMA PartOfSeq ==
  ASSUME NEW S, NEW s \in Seq(S), NEW m \in Nat \ {0}
  PROVE  SubSeq(s, m, Len(s)) \in Seq(S)
<1>1. Len(s) \in Nat
  BY LenProperties
<1> QED
  BY <1>1

LEMMA ReverseOfSeq ==
  ASSUME NEW S, NEW s \in Seq(S)
  PROVE  Reverse(s) \in Seq(S)
<1>1. Len(s) \in Nat /\ \A i \in 1..Len(s) : s[(Len(s) - i) + 1] \in S
  BY LenProperties
<1>2. Reverse(s) \in [1..Len(s) -> S]
  BY <1>1 DEF Reverse
<1> QED
  BY <1>1, <1>2, SeqDef

(* FlattenSeq joins the parts one after the other.                         *)
LEMMA Flattened ==
  ASSUME NEW S, NEW ss \in Seq(Seq(S)), ss # <<>>
  PROVE  \E f \in [1..Len(ss) -> Seq(S)] :
            /\ f[1] = ss[1]
            /\ \A i \in 2..Len(ss) : f[i] = f[i - 1] \o ss[i]
            /\ FlattenSeq(ss) = f[Len(ss)]
<1> DEFINE N == Len(ss)
           Joins(g, m) == /\ g \in [1..m -> Seq(S)] /\ g[1] = ss[1]
                          /\ \A i \in 2..m : g[i] = g[i - 1] \o ss[i]
           F == CHOOSE f : f = [i \in 1..N |-> IF i = 1 THEN ss[i] ELSE f[i - 1] \o ss[i]]
<1>1. N \in Nat \ {0} /\ \A i \in 1..N : ss[i] \in Seq(S)
  BY LenProperties, EmptySeq
<1>2. FlattenSeq(ss) = F[N]
  BY <1>1 DEF FlattenSeq
<1> HIDE DEF N, F, Joins
<1>3. \E g : Joins(g, N)
  <2> DEFINE Good(m) == \E g : Joins(g, m)
             Bad == {m \in 1..N : ~Good(m)}
  <2> HIDE DEF Good
  <2> SUFFICES ASSUME Bad # {} PROVE FALSE
    <3>1. N \in 1..N
      BY <1>1
    <3>2. Bad = {} => Good(N)
      BY <3>1
    <3> QED
      BY <3>2 DEF Good
  <2>1. PICK m \in Bad : \A n \in Bad : m <= n
    <3>1. Bad \in SUBSET Nat
      BY <1>1
    <3> HIDE DEF Bad
    <3> QED
      BY <3>1, NatLeast
  <2>2. m \in 1..N /\ ~Good(m)
    BY <2>1
  <2>3. CASE m = 1
    <3>1. Joins([i \in 1..1 |-> ss[1]], 1)
      BY <1>1 DEF Joins
    <3> QED
      BY <2>2, <2>3, <3>1 DEF Good
  <2>4. CASE m # 1
    <3>1. m - 1 \in 1..N /\ m - 1 \notin Bad
      BY <1>1, <2>1, <2>2, <2>4
    <3>2. PICK g : Joins(g, m - 1)
      BY <3>1 DEF Good
    <3> DEFINE h == [i \in 1..m |-> IF i = m THEN g[m - 1] \o ss[m] ELSE g[i]]
    <3>3. m - 1 \in 1..m - 1 /\ 1 \in 1..m - 1 /\ m \in Nat
      BY <2>2, <3>1, <1>1
    <3>4. g[m - 1] \o ss[m] \in Seq(S)
      <4>1. g[m - 1] \in Seq(S) /\ ss[m] \in Seq(S)
        BY <1>1, <2>2, <3>2, <3>3 DEF Joins
      <4> QED
        BY <4>1, ConcatProperties
    <3>5. h \in [1..m -> Seq(S)]
      BY <3>2, <3>3, <3>4 DEF Joins
    <3>6. h[1] = ss[1]
      BY <3>2, <3>3, <2>4 DEF Joins
    <3>7. ASSUME NEW i \in 2..m PROVE h[i] = h[i - 1] \o ss[i]
      <4>0. i \in 1..m /\ i - 1 \in 1..m /\ i - 1 # m
        BY <3>3
      <4>1. CASE i = m
        BY <4>0, <4>1
      <4>2. CASE i # m
        <5>1. i \in 2..m - 1
          BY <3>3, <4>2
        <5>2. g[i] = g[i - 1] \o ss[i]
          BY <3>2, <5>1 DEF Joins
        <5> QED
          BY <4>0, <4>2, <5>2
      <4> QED
        BY <4>1, <4>2
    <3> QED
      BY <2>2, <3>5, <3>6, <3>7 DEF Joins, Good
  <2> QED
    BY <2>3, <2>4
<1>4. PICK g : Joins(g, N)
  BY <1>3
<1>5. F = [i \in 1..N |-> IF i = 1 THEN ss[i] ELSE F[i - 1] \o ss[i]]
  <2>1. ASSUME NEW i \in 1..N PROVE g[i] = IF i = 1 THEN ss[i] ELSE g[i - 1] \o ss[i]
    <3>1. i = 1 \/ i \in 2..N
      BY <1>1
    <3>2. i \in 2..N => i # 1
      BY <1>1
    <3> QED
      BY <1>4, <3>1, <3>2 DEF Joins
  <2>2. g = [i \in 1..N |-> g[i]]
    BY <1>4 DEF Joins
  <2>3. g = [i \in 1..N |-> IF i = 1 THEN ss[i] ELSE g[i - 1] \o ss[i]]
    BY <2>1, <2>2
  <2> QED
    BY <2>3 DEF F
<1>6. \A i \in 1..N : F[i] = g[i]
  <2> DEFINE Off == {m \in 1..N : F[m] # g[m]}
  <2> SUFFICES ASSUME Off # {} PROVE FALSE
    OBVIOUS
  <2>1. PICK m \in Off : \A n \in Off : m <= n
    <3>1. Off \in SUBSET Nat
      BY <1>1
    <3> HIDE DEF Off
    <3> QED
      BY <3>1, NatLeast
  <2>2. F[1] = ss[1]
    BY <1>1, <1>5
  <2>3. m # 1 /\ m \in 1..N
    BY <1>4, <2>1, <2>2 DEF Joins
  <2>4. m - 1 \in 1..N /\ m \in 2..N /\ m - 1 \notin Off
    BY <1>1, <2>1, <2>3
  <2>5. F[m] = F[m - 1] \o ss[m]
    BY <1>5, <2>3
  <2>6. g[m] = g[m - 1] \o ss[m]
    BY <1>4, <2>4 DEF Joins
  <2> QED
    BY <2>1, <2>4, <2>5, <2>6
<1>7. FlattenSeq(ss) = g[N]
  BY <1>1, <1>2, <1>6
<1> QED
  BY <1>4, <1>7 DEF N, Joins

LEMMA FlattenedIsSeq ==
  ASSUME NEW S, NEW ss \in Seq(Seq(S))
  PROVE  FlattenSeq(ss) \in Seq(S)
<1>1. CASE ss = <<>>
  <2>1. Len(ss) = 0
    BY <1>1, EmptySeq
  <2>2. FlattenSeq(ss) = ss
    BY <2>1, Zenon DEF FlattenSeq
  <2> QED
    BY <1>1, <2>2, EmptySeq
<1>2. CASE ss # <<>>
  <2>1. Len(ss) \in 1..Len(ss)
    BY <1>2, LenProperties, EmptySeq
  <2>2. PICK f \in [1..Len(ss) -> Seq(S)] : FlattenSeq(ss) = f[Len(ss)]
    BY <1>2, Flattened
  <2> QED
    BY <2>1, <2>2
<1> QED
  BY <1>1, <1>2

(* What is built the way the parts are joined is the flattened sequence.   *)
LEMMA FlattenedIs ==
  ASSUME NEW S, NEW ss \in Seq(Seq(S)), ss # <<>>, NEW g, g[1] = ss[1],
         \A i \in 2..Len(ss) : g[i] = g[i - 1] \o ss[i]
  PROVE  FlattenSeq(ss) = g[Len(ss)]
<1> DEFINE N == Len(ss)
<1>1. N \in Nat \ {0}
  BY LenProperties, EmptySeq
<1>2. PICK f \in [1..N -> Seq(S)] : /\ f[1] = ss[1]
                                    /\ \A i \in 2..N : f[i] = f[i - 1] \o ss[i]
                                    /\ FlattenSeq(ss) = f[N]
  BY Flattened
<1> DEFINE Off == {m \in 1..N : f[m] # g[m]}
<1> HIDE DEF N
<1>3. Off = {}
  <2> SUFFICES ASSUME Off # {} PROVE FALSE
    OBVIOUS
  <2>1. PICK m \in Off : \A n \in Off : m <= n
    <3>1. Off \in SUBSET Nat
      BY <1>1
    <3> HIDE DEF Off
    <3> QED
      BY <3>1, NatLeast
  <2>2. m # 1 /\ m \in 1..N
    BY <1>2, <2>1
  <2>3. m - 1 \in 1..N /\ m \in 2..N /\ m - 1 \notin Off
    BY <1>1, <2>1, <2>2
  <2>4. f[m] = f[m - 1] \o ss[m]
    BY <1>2, <2>3
  <2>5. g[m] = g[m - 1] \o ss[m]
    BY <2>3 DEF N
  <2> QED
    BY <2>1, <2>3, <2>4, <2>5
<1>4. f[N] = g[N]
  <2>1. N \in 1..N
    BY <1>1
  <2> QED
    BY <1>3, <2>1
<1> QED
  BY <1>2, <1>4 DEF N

(* g[n] is F applied n times to x.                                         *)
Iterates(g, F, x) ==
    /\ g = [n \in Nat |-> g[n]]
    /\ g[0] = x /\ \A n \in Nat : g[n + 1] = F[g[n]]

(* A function of a set into itself can be applied again and again.         *)
LEMMA Iterated ==
  ASSUME NEW D, NEW F \in [D -> D], NEW x \in D
  PROVE  \E g : Iterates(g, F, x) /\ \A n \in Nat : g[n] \in D
<1> DEFINE Steps(h, m) == /\ h \in [0..m -> D] /\ h[0] = x
                          /\ \A i \in 1..m : h[i] = F[h[i - 1]]
<1> HIDE DEF Steps
<1>1. ASSUME NEW m \in Nat PROVE \E h : Steps(h, m)
  <2> DEFINE Good(n) == \E h : Steps(h, n)
             Bad == {n \in Nat : ~Good(n)}
  <2> HIDE DEF Good
  <2> SUFFICES ASSUME Bad # {} PROVE FALSE
    BY DEF Good
  <2>1. PICK n \in Bad : \A i \in Bad : n <= i
    <3>1. Bad \in SUBSET Nat
      OBVIOUS
    <3> HIDE DEF Bad
    <3> QED
      BY <3>1, NatLeast
  <2>2. n \in Nat /\ ~Good(n)
    BY <2>1
  <2>3. CASE n = 0
    <3>1. Steps([i \in 0..0 |-> x], 0)
      BY DEF Steps
    <3> QED
      BY <2>2, <2>3, <3>1 DEF Good
  <2>4. CASE n # 0
    <3>1. n - 1 \in Nat /\ n - 1 \notin Bad
      BY <2>1, <2>2, <2>4
    <3>2. PICK h : Steps(h, n - 1)
      BY <3>1 DEF Good
    <3> DEFINE k == [i \in 0..n |-> IF i = n THEN F[h[n - 1]] ELSE h[i]]
    <3>3. h \in [0..n - 1 -> D] /\ n - 1 \in 0..n - 1 /\ F[h[n - 1]] \in D
      BY <2>2, <3>1, <3>2 DEF Steps
    <3>4. \A i \in 0..n : i = n \/ i \in 0..n - 1
      BY <2>2
    <3>5. k \in [0..n -> D]
      BY <3>3, <3>4
    <3>6. k[0] = x
      BY <2>2, <2>4, <3>2 DEF Steps
    <3>7. ASSUME NEW i \in 1..n PROVE k[i] = F[k[i - 1]]
      <4>0. i \in 0..n /\ i - 1 \in 0..n /\ i - 1 # n
        BY <2>2
      <4>1. CASE i = n
        BY <4>0, <4>1
      <4>2. CASE i # n
        <5>1. i \in 1..n - 1
          BY <2>2, <4>2
        <5>2. h[i] = F[h[i - 1]]
          BY <3>2, <5>1 DEF Steps
        <5> QED
          BY <4>0, <4>2, <5>2
      <4> QED
        BY <4>1, <4>2
    <3> HIDE DEF k
    <3> QED
      BY <2>2, <3>5, <3>6, <3>7 DEF Steps, Good
  <2> QED
    BY <2>3, <2>4
<1>2. ASSUME NEW m \in Nat, NEW n \in Nat, NEW h, NEW k, Steps(h, m), Steps(k, n), m <= n,
             NEW j \in 0..m
      PROVE  h[j] = k[j]
  <2> DEFINE Off == {i \in 0..m : h[i] # k[i]}
  <2> SUFFICES ASSUME Off # {} PROVE FALSE
    OBVIOUS
  <2>1. PICK i \in Off : \A l \in Off : i <= l
    <3>1. Off \in SUBSET Nat
      OBVIOUS
    <3> HIDE DEF Off
    <3> QED
      BY <3>1, NatLeast
  <2>2. i # 0 /\ i \in 0..m
    BY <1>2, <2>1 DEF Steps
  <2>3. i - 1 \in 0..m /\ i \in 1..m /\ i \in 1..n /\ i - 1 \notin Off
    BY <1>2, <2>1, <2>2
  <2>4. h[i] = F[h[i - 1]] /\ k[i] = F[k[i - 1]]
    BY <1>2, <2>3 DEF Steps
  <2> QED
    BY <2>1, <2>3, <2>4
<1> DEFINE H(m) == CHOOSE h : Steps(h, m)
           g == [m \in Nat |-> H(m)[m]]
<1>3. \A m \in Nat : Steps(H(m), m)
  BY <1>1
<1> HIDE DEF H
<1>4. g \in [Nat -> D] /\ g[0] = x
  <2>1. \A m \in Nat : m \in 0..m
    OBVIOUS
  <2> QED
    BY <1>3, <2>1 DEF Steps
<1>5. ASSUME NEW n \in Nat PROVE g[n + 1] = F[g[n]]
  <2>1. n \in 0..n /\ n + 1 \in Nat /\ n + 1 \in 1..n + 1 /\ n <= n + 1 /\ (n + 1) - 1 = n
    OBVIOUS
  <2>2. H(n)[n] = H(n + 1)[n]
    BY <1>2, <1>3, <2>1
  <2>3. H(n + 1)[n + 1] = F[H(n + 1)[n]]
    BY <1>3, <2>1 DEF Steps
  <2> QED
    BY <2>1, <2>2, <2>3
<1>6. g = [n \in Nat |-> g[n]]
  OBVIOUS
<1> HIDE DEF g
<1> QED
  BY <1>4, <1>5, <1>6 DEF Iterates

=============================================================================
