------------------------ MODULE SceneCacheStoreProofs ------------------------
(***************************************************************************)
(* Proofs about SceneCacheStore, for any managers, processes, generations   *)
(* and settings, any bound on the caches and anything that earlier windows  *)
(* left: its types, that a cache holds what its name says                   *)
(* (CacheMatchesSource), that a session leaves nothing behind               *)
(* (SessionLeavesNothing), that the caches fit their bound when the last    *)
(* window has gone (WithinBoundAtRest), and that what a crashed window left *)
(* is swept (CrashLeftoversSwept).                                          *)
(*                                                                         *)
(* First what the file operations do to a directory, then the inductive     *)
(* invariant StoreInv, then one lemma for each part of it.  The bound is    *)
(* the hard part: a generation may exceed it as long as some manager with   *)
(* storage is still to look at it (WillFit), and a manager may leave without *)
(* pruning only because the fresh lease it saw is of another such manager   *)
(* (LeasesHold).                                                            *)
(***************************************************************************)
EXTENDS SceneCacheStore, SequenceTheorems, FiniteSetTheorems, TLAPS

-----------------------------------------------------------------------------
(* The files of a directory.                                               *)

\* What a file is made of.
LEMMA FileFacts ==
    \A f \in File :
        /\ f.kind \in {"cache", "preview"}
        /\ f.id \in Versions /\ f.holds \in Versions
BY DEF File

\* A directory holds as many files as there are names in it.
LEMMA LenCounts ==
    ASSUME NEW files \in Seq(File), FilesApart(files)
    PROVE  /\ IsFiniteSet(ToSet(files))
           /\ Len(files) = Cardinality(ToSet(files))
<1> DEFINE S == 1..Len(files)
           T == ToSet(files)
<1>1. Len(files) \in Nat /\ DOMAIN files = S /\ files \in [S -> T]
  BY LenProperties DEF ToSet
<1>2. IsFiniteSet(S) /\ Cardinality(S) = Len(files)
  BY <1>1, FS_Interval
<1>3. files \in Bijection(S, T)
  <2>1. files \in Injection(S, T)
    BY <1>1 DEF Injection, IsInjective, FilesApart
  <2>2. files \in Surjection(S, T)
    BY <1>1 DEF Surjection, ToSet
  <2> QED BY <2>1, <2>2 DEF Bijection
<1> QED BY <1>2, <1>3, FS_Bijection DEF ExistsBijection

\* Removing a file leaves the others.
LEMMA WithoutFacts ==
    ASSUME NEW files \in Seq(File), FilesApart(files), NEW kind, NEW id
    PROVE  /\ Without(files, kind, id) \in Seq(File)
           /\ FilesApart(Without(files, kind, id))
           /\ ToSet(Without(files, kind, id)) =
                {f \in ToSet(files) : ~(f.kind = kind /\ f.id = id)}
<1>1. CASE ~Occurs(files, kind, id)
  BY <1>1 DEF Without, Occurs, ToSet
<1>2. CASE Occurs(files, kind, id)
  <2> DEFINE p == Position(files, kind, id)
             n == Len(files)
             rest == RemoveAt(files, p)
  <2>1. n \in Nat /\ DOMAIN files = 1..n
    BY LenProperties
  <2>2. p \in 1..n /\ files[p].kind = kind /\ files[p].id = id
    BY <1>2, <2>1 DEF Occurs, Position
  <2> HIDE DEF p
  <2>3. rest = SubSeq(files, 1, p - 1) \o SubSeq(files, p + 1, n)
    BY DEF RemoveAt
  <2>4. /\ rest \in Seq(File) /\ Len(rest) = n - 1
        /\ \A i \in 1..n-1 : rest[i] = IF i < p THEN files[i] ELSE files[i + 1]
    <3> DEFINE a == SubSeq(files, 1, p - 1)
               b == SubSeq(files, p + 1, n)
    <3>1. /\ a \in Seq(File) /\ Len(a) = p - 1
          /\ \A i \in 1..p-1 : a[i] = files[i]
      <4>1. \A i \in 1..p-1 : files[i] \in File
        BY <2>1, <2>2, ElementOfSeq
      <4>2. p - 1 \in Int /\ 1 \in Int
        BY <2>1, <2>2
      <4>3. /\ a \in Seq(File) /\ Len(a) = IF 1 <= p - 1 THEN (p - 1) - 1 + 1 ELSE 0
            /\ \A i \in 1..(p-1)-1+1 : a[i] = files[1 + i - 1]
        BY <4>1, <4>2, SubSeqProperties
      <4>4. Len(a) = p - 1 /\ (p - 1) - 1 + 1 = p - 1
        BY <4>3, <2>1, <2>2
      <4>5. \A i \in 1..p-1 : 1 + i - 1 = i
        OBVIOUS
      <4> QED BY <4>3, <4>4, <4>5
    <3>2. /\ b \in Seq(File) /\ Len(b) = n - p
          /\ \A i \in 1..n-p : b[i] = files[p + i]
      <4>1. \A i \in p+1..n : files[i] \in File
        BY <2>1, <2>2, ElementOfSeq
      <4>2. p + 1 \in Int /\ n \in Int
        BY <2>1, <2>2
      <4>3. /\ b \in Seq(File)
            /\ Len(b) = IF p + 1 <= n THEN n - (p + 1) + 1 ELSE 0
            /\ \A i \in 1..n-(p+1)+1 : b[i] = files[(p + 1) + i - 1]
        BY <4>1, <4>2, SubSeqProperties
      <4>4. n - (p + 1) + 1 = n - p
        BY <2>1, <2>2
      <4>5. \A i \in 1..n-p : (p + 1) + i - 1 = p + i
        BY <2>1, <2>2
      <4>7. CASE p + 1 <= n
        BY <4>3, <4>4, <4>5, <4>7
      <4>8. CASE ~(p + 1 <= n)
        <5>1. n = p
          <6>1. p \in Int /\ n \in Int /\ p <= n
            BY <2>1, <2>2
          <6> HIDE DEF n
          <6> QED BY <6>1, <4>8
        <5> QED BY <4>3, <4>4, <4>5, <4>8, <5>1, <2>1, <2>2
      <4> QED BY <4>7, <4>8
    <3> HIDE DEF a, b
    <3>3. /\ a \o b \in Seq(File) /\ Len(a \o b) = n - 1
          /\ \A i \in 1..n-1 :
               (a \o b)[i] = IF i <= p - 1 THEN a[i] ELSE b[i - (p - 1)]
      <4>1. /\ a \o b \in Seq(File) /\ Len(a \o b) = Len(a) + Len(b)
            /\ \A i \in 1..Len(a)+Len(b) :
                 (a \o b)[i] = IF i <= Len(a) THEN a[i] ELSE b[i - Len(a)]
        BY <3>1, <3>2, ConcatProperties
      <4>2. Len(a) + Len(b) = n - 1
        BY <3>1, <3>2, <2>1, <2>2
      <4> QED BY <4>1, <4>2, <3>1
    <3>4. ASSUME NEW i \in 1..n-1
          PROVE  (a \o b)[i] = IF i < p THEN files[i] ELSE files[i + 1]
      <4>1. CASE i < p
        BY <4>1, <3>1, <3>3, <2>1, <2>2
      <4>2. CASE ~(i < p)
        <5>1. i - (p - 1) \in 1..n-p /\ p + (i - (p - 1)) = i + 1
          BY <4>2, <2>1, <2>2
        <5> QED BY <5>1, <4>2, <3>2, <3>3, <2>1, <2>2
      <4> QED BY <4>1, <4>2
    <3> QED BY <3>3, <3>4, <2>3 DEF a, b
  <2> HIDE DEF rest
  <2> DEFINE Was(i) == IF i < p THEN i ELSE i + 1
  <2>a. \A i \in 1..n-1 : Was(i) \in 1..n /\ rest[i] = files[Was(i)]
    <3>1. ASSUME NEW i \in 1..n-1 PROVE Was(i) \in 1..n
      BY <2>1, <2>2
    <3>2. ASSUME NEW i \in 1..n-1 PROVE rest[i] = files[Was(i)]
      BY <2>4
    <3> QED BY <3>1, <3>2
  <2>b. \A i, j \in 1..n-1 : Was(i) = Was(j) => i = j
    BY <2>1, <2>2
  <2> HIDE DEF Was
  <2>5. FilesApart(rest)
    <3>1. DOMAIN rest = 1..n-1
      BY <2>4, <2>1
    <3> QED BY <3>1, <2>1, <2>a, <2>b DEF FilesApart
  <2>6. ASSUME NEW i \in 1..n, i # p
        PROVE  ~(files[i].kind = kind /\ files[i].id = id)
    BY <2>1, <2>2, <2>6 DEF FilesApart
  <2>7. ASSUME NEW i \in 1..n, i # p
        PROVE  \E j \in 1..n-1 : rest[j] = files[i]
    <3>1. CASE i < p
      BY <3>1, <2>1, <2>2, <2>4
    <3>2. CASE i > p
      <4>1. i - 1 \in 1..n-1 /\ ~(i - 1 < p)
        BY <3>2, <2>1, <2>2
      <4> QED BY <4>1, <2>4, <2>1
    <3> QED BY <3>1, <3>2, <2>7, <2>1, <2>2
  <2>8. ASSUME NEW j \in 1..n-1
        PROVE  \E i \in 1..n : i # p /\ rest[j] = files[i]
    <3>1. CASE j < p
      BY <3>1, <2>1, <2>2, <2>4
    <3>2. CASE ~(j < p)
      <4>1. j + 1 \in 1..n /\ j + 1 # p
        BY <3>2, <2>1, <2>2
      <4> QED BY <3>2, <4>1, <2>4, <2>1
    <3> QED BY <3>1, <3>2
  <2>9. DOMAIN rest = 1..n-1
    BY <2>4, <2>1
  <2>10. ToSet(rest) = {f \in ToSet(files) : ~(f.kind = kind /\ f.id = id)}
    <3>1. ASSUME NEW f \in ToSet(rest)
          PROVE  f \in ToSet(files) /\ ~(f.kind = kind /\ f.id = id)
      <4>1. PICK j \in 1..n-1 : f = rest[j]
        BY <2>9 DEF ToSet
      <4>2. PICK i \in 1..n : i # p /\ rest[j] = files[i]
        BY <2>8
      <4> QED BY <4>1, <4>2, <2>1, <2>6 DEF ToSet
    <3>2. ASSUME NEW f \in ToSet(files), ~(f.kind = kind /\ f.id = id)
          PROVE  f \in ToSet(rest)
      <4>1. PICK i \in 1..n : f = files[i]
        BY <2>1 DEF ToSet
      <4>2. i # p
        BY <4>1, <3>2, <2>2
      <4>3. PICK j \in 1..n-1 : rest[j] = files[i]
        BY <4>2, <2>7
      <4> QED BY <4>1, <4>3, <2>9 DEF ToSet
    <3> QED BY <3>1, <3>2
  <2>11. Without(files, kind, id) = rest
    BY <1>2 DEF Without, rest, p
  <2> QED BY <2>4, <2>5, <2>10, <2>11
<1> QED BY <1>1, <1>2

\* A file that is stored replaces that of its name.
LEMMA StoredFacts ==
    ASSUME NEW files \in Seq(File), FilesApart(files), NEW f \in File
    PROVE  /\ Stored(files, f) \in Seq(File)
           /\ FilesApart(Stored(files, f))
           /\ ToSet(Stored(files, f)) =
                {g \in ToSet(files) : ~(g.kind = f.kind /\ g.id = f.id)} \cup {f}
<1> DEFINE rest == Without(files, f.kind, f.id)
           n == Len(rest)
<1>1. /\ rest \in Seq(File) /\ FilesApart(rest)
      /\ ToSet(rest) = {g \in ToSet(files) : ~(g.kind = f.kind /\ g.id = f.id)}
  BY WithoutFacts
<1>2. Stored(files, f) = Append(rest, f)
  BY DEF Stored
<1> HIDE DEF rest
<1>3. n \in Nat /\ DOMAIN rest = 1..n
  BY <1>1, LenProperties
<1>4. /\ Append(rest, f) \in Seq(File) /\ Len(Append(rest, f)) = n + 1
      /\ \A i \in 1..n : Append(rest, f)[i] = rest[i]
      /\ Append(rest, f)[n + 1] = f
  BY <1>1, <1>3, AppendProperties
<1>5. DOMAIN Append(rest, f) = 1..n+1
  BY <1>4, <1>3, LenProperties
<1>6. \A i \in 1..n : ~(rest[i].kind = f.kind /\ rest[i].id = f.id)
  BY <1>1, <1>3 DEF ToSet
<1>7. FilesApart(Append(rest, f))
  BY <1>1, <1>3, <1>4, <1>5, <1>6 DEF FilesApart
<1>8. ToSet(Append(rest, f)) = ToSet(rest) \cup {f}
  BY <1>3, <1>4, <1>5 DEF ToSet
<1> QED BY <1>1, <1>2, <1>4, <1>7, <1>8

\* A file that is used stays.
LEMMA TouchedFacts ==
    ASSUME NEW files \in Seq(File), FilesApart(files), NEW kind, NEW id
    PROVE  /\ Touched(files, kind, id) \in Seq(File)
           /\ FilesApart(Touched(files, kind, id))
           /\ ToSet(Touched(files, kind, id)) = ToSet(files)
<1>1. CASE ~Occurs(files, kind, id)
  BY <1>1 DEF Touched
<1>2. CASE Occurs(files, kind, id)
  <2> DEFINE p == Position(files, kind, id)
  <2>1. p \in DOMAIN files /\ files[p].kind = kind /\ files[p].id = id
    BY <1>2 DEF Occurs, Position
  <2>2. Touched(files, kind, id) = Stored(files, files[p])
    BY <1>2 DEF Touched
  <2> HIDE DEF p
  <2>3. files[p] \in File /\ files[p] \in ToSet(files)
    BY <2>1 DEF ToSet
  <2>4. \A g \in ToSet(files) : g.kind = kind /\ g.id = id => g = files[p]
    BY <2>1 DEF ToSet, FilesApart
  <2>5. \A g \in ToSet(files) : g = files[p] => g.kind = kind /\ g.id = id
    BY <2>1
  <2>6. ToSet(Stored(files, files[p])) =
          {g \in ToSet(files) : ~(g.kind = kind /\ g.id = id)} \cup {files[p]}
    BY <2>1, <2>3, StoredFacts
  <2>7. ToSet(Stored(files, files[p])) = ToSet(files)
    BY <2>3, <2>4, <2>6
  <2> QED BY <2>2, <2>3, <2>7, StoredFacts
<1> QED BY <1>1, <1>2

\* What is left when a cache and its preview are removed, or one of them is.
LEMMA WithoutCacheFacts ==
    ASSUME NEW files \in Seq(File), FilesApart(files),
           NEW kinds \in SUBSET {"cache", "preview"}, NEW id
    PROVE  LET rest == WithoutCache(files, kinds, id) IN
           /\ rest \in Seq(File) /\ FilesApart(rest)
           /\ ToSet(rest) \subseteq ToSet(files)
           /\ kinds = {"cache", "preview"} => \A f \in ToSet(rest) : f.id # id
<1> DEFINE first == IF "cache" \in kinds THEN Without(files, "cache", id) ELSE files
           rest == IF "preview" \in kinds THEN Without(first, "preview", id) ELSE first
<1>1. /\ first \in Seq(File) /\ FilesApart(first)
      /\ ToSet(first) = {f \in ToSet(files) :
                          ~("cache" \in kinds /\ f.kind = "cache" /\ f.id = id)}
  BY WithoutFacts
<1>2. WithoutCache(files, kinds, id) = rest
  BY DEF WithoutCache
<1> HIDE DEF first
<1>3. /\ rest \in Seq(File) /\ FilesApart(rest)
      /\ ToSet(rest) = {f \in ToSet(first) :
                         ~("preview" \in kinds /\ f.kind = "preview" /\ f.id = id)}
  BY <1>1, WithoutFacts
<1> HIDE DEF rest
<1>4. \A f \in ToSet(files) : f.kind \in {"cache", "preview"}
  BY FileFacts DEF ToSet
<1>5. /\ ToSet(rest) \subseteq ToSet(files)
      /\ kinds = {"cache", "preview"} => \A f \in ToSet(rest) : f.id # id
  BY <1>1, <1>3, <1>4
<1> QED BY <1>2, <1>3, <1>5

\* Part of the files of a directory are files of it.
LEMMA PartsFacts ==
    ASSUME NEW files \in Seq(File), FilesApart(files), NEW part \in Parts(files)
    PROVE  part \in Seq(File) /\ FilesApart(part) /\ ToSet(part) \subseteq ToSet(files)
<1>1. PICK n \in 0..Len(files) :
        \E kept \in [1..n -> DOMAIN files] :
           /\ \A i, j \in 1..n : i < j => kept[i] < kept[j]
           /\ part = [i \in 1..n |-> files[kept[i]]]
  BY DEF Parts
<1>2. PICK kept \in [1..n -> DOMAIN files] :
        /\ \A i, j \in 1..n : i < j => kept[i] < kept[j]
        /\ part = [i \in 1..n |-> files[kept[i]]]
  BY <1>1
<1>3. n \in Nat /\ DOMAIN files = 1..Len(files) /\ Len(files) \in Nat
  BY LenProperties
<1>4. \A i \in 1..n : kept[i] \in DOMAIN files /\ kept[i] \in Int
  BY <1>3
<1>5. \A i \in 1..n : files[kept[i]] \in File
  BY <1>3, <1>4, ElementOfSeq
<1>6. part \in Seq(File)
  BY <1>2, <1>3, <1>5, IsASeq
<1>7. DOMAIN part = 1..n /\ \A i \in 1..n : part[i] = files[kept[i]]
  BY <1>2
<1>8. \A i, j \in 1..n : kept[i] = kept[j] => i = j
  BY <1>2, <1>3, <1>4
<1>9. FilesApart(part)
  BY <1>4, <1>7, <1>8 DEF FilesApart
<1>10. ToSet(part) \subseteq ToSet(files)
  BY <1>4, <1>7 DEF ToSet
<1> QED BY <1>6, <1>9, <1>10

\* Without faults everything is done, and what is found fresh is so.
LEMMA FaultlessFacts ==
    /\ \A things : Done(things) \subseteq SUBSET things
    /\ setting.faults = {} => \A things : Done(things) = {things}
    /\ \A leases : \A fresh \in TakenForFresh(leases) :
         /\ fresh \subseteq leases
         /\ setting.faults = {} => \A m \in fresh : Fresh(m)
    /\ \A entries : Listings(entries) \subseteq SUBSET entries
BY DEF Done, TakenForFresh, Listings, MayFail

\* Who looks for fresh leases changes nothing but the leases of a generation.
LEMMA FindsFreshFacts ==
    ASSUME NEW d, NEW found, FindsFresh(d, found)
    PROVE  /\ \/ disk' = disk
              \/ d \in Generations /\ \E S \in SUBSET disk[d].leases : Leases(d, S)
           /\ setting.faults = {} /\ found = TRUE => FreshLeases(d) # {}
<1>1. CASE d \in Generations
  <2>0. PICK listed \in Listings(disk[d].leases) : \E fresh \in TakenForFresh(listed) :
          /\ found = (fresh # {})
          /\ \E gone \in Done(listed \ fresh) : Leases(d, disk[d].leases \ gone)
    BY <1>1 DEF FindsFresh
  <2>1. PICK fresh \in TakenForFresh(listed) :
          /\ found = (fresh # {})
          /\ \E gone \in Done(listed \ fresh) : Leases(d, disk[d].leases \ gone)
    BY <2>0
  <2>2. listed \subseteq disk[d].leases /\ fresh \subseteq listed
    BY FaultlessFacts
  <2>3. setting.faults = {} => \A m \in fresh : Fresh(m)
    BY FaultlessFacts
  <2>4. \E S \in SUBSET disk[d].leases : Leases(d, S)
    BY <2>1
  <2> QED BY <1>1, <2>1, <2>2, <2>3, <2>4 DEF FreshLeases
<1>2. CASE d \notin Generations
  <2>1. disk' = disk
    BY <1>2 DEF FindsFresh
  <2>2. PICK fresh \in TakenForFresh(disk[d].leases) : found = (fresh # {})
    BY <1>2 DEF FindsFresh
  <2>3. /\ fresh \subseteq disk[d].leases
        /\ setting.faults = {} => \A m \in fresh : Fresh(m)
    BY FaultlessFacts
  <2> QED BY <2>1, <2>2, <2>3 DEF FreshLeases
<1> QED BY <1>1, <1>2

\* Every set of numbers has a least one.
LEMMA NatMin ==
    ASSUME NEW T \in SUBSET Nat, T # {}
    PROVE  \E n \in T : \A m \in T : n <= m
<1> DEFINE U == {0 .. n : n \in T}
<1>0. U # {}
  OBVIOUS
<1>1. U \subseteq FiniteSubsetsOf(Nat)
  <2>1. ASSUME NEW n \in T PROVE 0 .. n \in FiniteSubsetsOf(Nat)
    <3>1. IsFiniteSet(0 .. n) /\ 0 .. n \subseteq Nat
      BY FS_Interval
    <3> QED BY <3>1 DEF FiniteSubsetsOf
  <2> QED BY <2>1
<1>2. IsWellFoundedOn(StrictSubsetOrdering(Nat), FiniteSubsetsOf(Nat))
  BY FS_StrictSubsetOrderingWellFounded
<1> HIDE DEF U
<1>3. PICK x \in U : \A y \in U : ~ (<<y, x>> \in StrictSubsetOrdering(Nat))
  BY <1>0, <1>1, <1>2, WFMin
<1> USE DEF U
<1>4. PICK n \in T : x = 0 .. n
  BY <1>3
<1>5. ASSUME NEW m \in T, m < n PROVE FALSE
  <2>1. n \in 0 .. n /\ n \notin 0 .. m
    BY <1>5
  <2>2. 0 .. m \in U /\ 0 .. m \subseteq 0 .. n /\ 0 .. m # 0 .. n
    BY <1>5, <2>1
  <2>3. <<0 .. m, 0 .. n>> \in StrictSubsetOrdering(Nat)
    BY <2>2 DEF StrictSubsetOrdering
  <2> QED BY <2>2, <2>3, <1>3, <1>4
<1>6. ASSUME NEW m \in T PROVE n <= m
  <2>1. n \in Nat /\ m \in Nat /\ ~(m < n)
    BY <1>5
  <2> HIDE DEF U
  <2> QED BY <2>1
<1> HIDE DEF U
<1> QED BY <1>6

\* The last use of a cache that is there.
LEMMA LastUseFacts ==
    ASSUME NEW files \in Seq(File), NEW id, \E f \in ToSet(files) : f.id = id
    PROVE  /\ LastUse(files, id) \in DOMAIN files
           /\ LastUse(files, id) \in 1..Len(files)
           /\ files[LastUse(files, id)].id = id
<1> DEFINE S == {i \in DOMAIN files : files[i].id = id}
           n == Len(files)
           T == {n - i : i \in S}
<1>1. n \in Nat /\ DOMAIN files = 1..n
  BY LenProperties
<1>2. S # {} /\ S \subseteq 1..n
  BY <1>1 DEF ToSet
<1> HIDE DEF S, n
<1>3. T \in SUBSET Nat /\ T # {}
  <2>1. \A i \in S : n - i \in Nat
    BY <1>1, <1>2
  <2> QED BY <2>1, <1>2
<1>4. PICK t \in T : \A u \in T : t <= u
  BY <1>3, NatMin
<1>5. PICK i \in S : t = n - i
  BY <1>4
<1>6. ASSUME NEW j \in S PROVE i >= j
  <2>1. n - i <= n - j
    BY <1>4, <1>5
  <2>2. i \in Int /\ j \in Int /\ n \in Int
    BY <1>1, <1>2
  <2> HIDE DEF T
  <2> QED BY <2>1, <2>2
<1>7. LastUse(files, id) = Max(S)
  BY DEF LastUse, S
<1>8. LastUse(files, id) \in S
  BY <1>5, <1>6, <1>7 DEF Max
<1> QED BY <1>1, <1>2, <1>8 DEF S, n

\* Caches that are there have different ranks, from one to their number.
LEMMA RankFacts ==
    ASSUME NEW files \in Seq(File), NEW ids, IsFiniteSet(ids),
           \A id \in ids : \E f \in ToSet(files) : f.id = id
    PROVE  /\ \A id \in ids : UseRank(files, ids, id) \in 1..Cardinality(ids)
           /\ \A id, other \in ids :
                UseRank(files, ids, id) = UseRank(files, ids, other) => id = other
<1> DEFINE Upto(id) == {other \in ids : LastUse(files, other) <= LastUse(files, id)}
<1>1. \A id \in ids : LastUse(files, id) \in Int /\ files[LastUse(files, id)].id = id
  BY LastUseFacts
<1>2. ASSUME NEW id \in ids
      PROVE  /\ IsFiniteSet(Upto(id)) /\ UseRank(files, ids, id) = Cardinality(Upto(id))
             /\ Cardinality(Upto(id)) \in 1..Cardinality(ids)
  <2>1. Upto(id) \in SUBSET ids /\ id \in Upto(id)
    BY <1>1
  <2>2. UseRank(files, ids, id) = Cardinality(Upto(id))
    BY DEF UseRank
  <2> HIDE DEF Upto
  <2>3. IsFiniteSet(Upto(id)) /\ Cardinality(Upto(id)) <= Cardinality(ids)
    BY <2>1, FS_Subset
  <2>4. Cardinality(Upto(id)) \in Nat /\ Cardinality(ids) \in Nat
    BY <2>3, FS_CardinalityType
  <2>5. Cardinality(Upto(id)) # 0
    BY <2>1, <2>3, FS_EmptySet
  <2> QED BY <2>2, <2>3, <2>4, <2>5
<1>3. ASSUME NEW id \in ids, NEW other \in ids,
             LastUse(files, id) < LastUse(files, other)
      PROVE  Cardinality(Upto(id)) # Cardinality(Upto(other))
  <2>1. Upto(id) \in SUBSET Upto(other)
    BY <1>1, <1>3
  <2>2. other \in Upto(other) /\ other \notin Upto(id)
    BY <1>1, <1>3
  <2>3. IsFiniteSet(Upto(other))
    BY <1>2
  <2> HIDE DEF Upto
  <2> QED BY <2>1, <2>2, <2>3, FS_Subset
<1>4. ASSUME NEW id \in ids, NEW other \in ids, id # other
      PROVE  UseRank(files, ids, id) # UseRank(files, ids, other)
  <2>1. LastUse(files, id) # LastUse(files, other)
    BY <1>1, <1>4
  <2>2. \/ LastUse(files, id) < LastUse(files, other)
        \/ LastUse(files, other) < LastUse(files, id)
    BY <1>1, <2>1
  <2> HIDE DEF Upto
  <2> QED BY <2>2, <1>2, <1>3
<1> HIDE DEF Upto
<1> QED BY <1>2, <1>4

\* The order of some caches is a sequence in which each of them occurs.
LEMMA OldestFirstFacts ==
    ASSUME NEW files \in Seq(File), NEW ids \in SUBSET Versions,
           \A id \in ids : \E f \in ToSet(files) : f.id = id
    PROVE  /\ OldestFirst(files, ids) \in Seq(Versions)
           /\ \A id \in ids : \E i \in 1..Len(OldestFirst(files, ids)) :
                OldestFirst(files, ids)[i] = id
<1> DEFINE n == Cardinality(ids)
           g == [id \in ids |-> UseRank(files, ids, id)]
           order == OldestFirst(files, ids)
<1>1. IsFiniteSet(ids) /\ n \in Nat
  <2>1. IsFiniteSet(Versions)
    BY FS_Interval, StoreAssumption DEF Versions
  <2> QED BY <2>1, FS_Subset, FS_CardinalityType
<1>2. /\ \A id \in ids : UseRank(files, ids, id) \in 1..n
      /\ \A id, other \in ids :
           UseRank(files, ids, id) = UseRank(files, ids, other) => id = other
  BY <1>1, RankFacts
<1>3. g \in Injection(ids, 1..n)
  BY <1>2 DEF Injection, IsInjective
<1>4. IsFiniteSet(1..n) /\ Cardinality(1..n) = n
  BY <1>1, FS_Interval
<1>5. g \in Surjection(ids, 1..n)
  <2> HIDE DEF g, n
  <2>1. n = Cardinality(ids)
    BY DEF n
  <2> QED BY <1>3, <1>4, <2>1, FS_Injection
<1>6. order = [i \in 1..n |-> CHOOSE id \in ids : UseRank(files, ids, id) = i]
  BY DEF OldestFirst
<1>7. \A i \in 1..n : \E id \in ids : UseRank(files, ids, id) = i
  BY <1>5 DEF Surjection
<1> HIDE DEF order, g, n
<1>8. \A i \in 1..n : order[i] \in ids /\ UseRank(files, ids, order[i]) = i
  BY <1>6, <1>7
<1>9. order \in Seq(Versions) /\ Len(order) = n
  <2>1. order \in [1..n -> Versions]
    BY <1>6, <1>8
  <2> QED BY <2>1, <1>1, IsASeq, LenProperties
<1>10. \A id \in ids : order[UseRank(files, ids, id)] = id
  BY <1>2, <1>8
<1> QED BY <1>2, <1>9, <1>10 DEF order

\* What is not a victim fits the bound.
LEMMA VictimsFit ==
    ASSUME NEW files \in Seq(File)
    PROVE  LET order == OldestFirst(files, Victims(files)) IN
           /\ order \in Seq(Versions)
           /\ Cardinality({f \in ToSet(files) : \A i \in 1..Len(order) : order[i] # f.id})
                <= MaximumBytes
<1> DEFINE V == Victims(files)
           order == OldestFirst(files, V)
           K == {f \in ToSet(files) : \A i \in 1..Len(order) : order[i] # f.id}
<1>1. V \in SUBSET Versions /\ \A id \in V : \E f \in ToSet(files) : f.id = id
  <2>1. \A f \in ToSet(files) : f.id \in Versions
    <3>1. \A i \in DOMAIN files : files[i] \in File
      BY ElementOfSeq, LenProperties
    <3> QED BY <3>1 DEF ToSet, File
  <2> QED BY <2>1 DEF Victims
<1> HIDE DEF V
<1>2. /\ order \in Seq(Versions)
      /\ \A id \in V : \E i \in 1..Len(order) : order[i] = id
  BY <1>1, OldestFirstFacts
<1> HIDE DEF order
<1>3. \A f \in K : f \in ToSet(files) /\ f.id \notin V
  BY <1>2
<1>4. ASSUME K = {} PROVE Cardinality(K) <= MaximumBytes
  <2> HIDE DEF K
  <2> QED BY <1>4, FS_EmptySet, StoreAssumption
<1>5. ASSUME K # {} PROVE Cardinality(K) <= MaximumBytes
  <2> DEFINE T == {LastUse(files, f.id) : f \in K}
  <2> HIDE DEF K
  <2>1. \A f \in K : LastUse(files, f.id) \in Nat
    <3>1. \A f \in K : LastUse(files, f.id) \in 1..Len(files)
      BY <1>3, LastUseFacts
    <3> QED BY <3>1
  <2>2. T \in SUBSET Nat /\ T # {}
    BY <1>5, <2>1
  <2>3. PICK t \in T : \A u \in T : t <= u
    BY <2>2, NatMin
  <2>4. PICK k \in K : t = LastUse(files, k.id)
    BY <2>3
  <2> DEFINE I == {i \in DOMAIN files : LastUse(files, files[i].id) >= LastUse(files, k.id)}
             at1 == [f \in K |-> CHOOSE i \in DOMAIN files : files[i] = f]
  <2>5. ~(Cardinality(I) > MaximumBytes)
    BY <2>4, <1>3 DEF V, Victims
  <2>6. I \in SUBSET DOMAIN files /\ IsFiniteSet(DOMAIN files)
    BY LenProperties, FS_Interval
  <2>7. \A f \in K : \E i \in DOMAIN files : files[i] = f
    BY <1>3 DEF ToSet
  <2>8. \A f \in K : at1[f] \in DOMAIN files /\ files[at1[f]] = f
    BY <2>7
  <2>9. \A f \in K : LastUse(files, f.id) >= LastUse(files, k.id)
    BY <2>1, <2>3, <2>4
  <2>10. \A f \in K : at1[f] \in I
    <3> HIDE DEF at1
    <3> QED BY <2>8, <2>9
  <2>11. at1 \in [K -> DOMAIN files] /\ DOMAIN at1 = K
    BY <2>7
  <2> HIDE DEF at1, I
  <2>12. at1 \in Injection(K, I)
    <3>1. at1 \in [K -> I]
      BY <2>10, <2>11
    <3>2. IsInjective(at1)
      BY <2>8, <2>11 DEF IsInjective
    <3> QED BY <3>1, <3>2 DEF Injection
  <2>13. IsFiniteSet(I)
    BY <2>6, FS_Subset
  <2>14. IsFiniteSet(K) /\ Cardinality(K) <= Cardinality(I)
    BY <2>12, <2>13, FS_Injection
  <2>15. Cardinality(K) \in Nat /\ Cardinality(I) \in Nat
    BY <2>13, <2>14, FS_CardinalityType
  <2> QED BY <2>5, <2>14, <2>15, StoreAssumption
<1> QED BY <1>2, <1>4, <1>5 DEF order, V
-----------------------------------------------------------------------------
(* The inductive invariant.                                                *)

\* Between its lease in a generation and its disposal.
Working ==
    {"lookup", "parse", "parseOnly", "parsed", "preview", "recheck", "rename",
     "reread", "prepared"}
Leased == Working \cup {"idle", "stat"}

Waits(m, queue) == \E i \in 1..Len(queue) : queue[i] = m
Leads(m, queue) == queue # << >> /\ Head(queue) = m

\* Whoever maintains is the first of its process's queue.
QueueHolds ==
    \A m \in Managers :
        /\ at[m] = "queued" => Waits(m, chain[ProcessOf[m]])
        /\ at[m] \in Maintaining => Leads(m, chain[ProcessOf[m]])

\* What the storage of a manager is at its stages, and which managers take them.
StorageHolds ==
    \A m \in Managers :
        /\ at[m] \in {"sessionLease", "sessionPlace", "sessions", "generations",
                      "lease"} => storage[m] = "making"
        /\ at[m] \in Working => storage[m] = "ready"
        /\ at[m] \in {"queued", "check", "list", "evict"} =>
             \/ storage[m] = "making"
             \/ storage[m] = "ready" /\ disposed[m] /\ m \in Persistent
        /\ at[m] \in {"check", "list", "evict", "lease"} => m \in Persistent
        /\ at[m] \in {"removeRoot", "gone"} => disposed[m]
        /\ at[m] \in {"sessionLease", "sessionPlace", "removeRoot"} => m \notin Persistent

\* A disposed manager has no cache open, one that never began has no storage.
CallersHold ==
    \A m \in Managers :
        /\ disposed[m] => \A r \in readers : r.by # m
        /\ prepares[m] = 0 =>
             storage[m] = "none" /\ at[m] \in {"idle", "removeRoot", "gone"}

\* What was converted is not older than what was looked at, nor newer than the drawing.
VersionsHold ==
    \A m \in Managers :
        /\ version[m] <= source /\ parsed[m] <= source
        /\ at[m] \in {"parsed", "recheck"} => version[m] <= parsed[m]
        /\ at[m] \in {"preview", "rename"} => parsed[m] = version[m]

\* The leases of a generation are of its managers, and if they can be removed of
\* those that work; a session has its own.
LeasesHold ==
    /\ \A g \in Generations : \A m \in disk[g].leases :
         /\ m \in Persistent /\ GenerationOf[m] = g
         /\ setting.faults = {} => storage[m] = "ready" /\ at[m] \in Leased
    /\ \A s \in Managers : disk[s].leases \subseteq {s}

NamesHold == \A d \in Places : FilesApart(disk[d].files)

DeadExpire == \A s \in expired : ~Alive(s)

\* What an eviction that goes on will leave of the files.
Kept(m, files) == {f \in ToSet(files) : \A i \in 1..Len(victims[m]) : victims[m][i] # f.id}

\* A manager with storage has yet to see that the generation fits its bound.
WillFit(m, g) ==
    /\ m \in Persistent /\ GenerationOf[m] = g /\ storage[m] = "ready"
    /\ at[m] # "gone"
    /\ at[m] = "evict" => Cardinality(Kept(m, disk[g].files)) <= MaximumBytes

\* One of its managers had a listing that was cut short.
Spared(g) == \E m \in Managers : m \in Persistent /\ GenerationOf[m] = g /\ g \in spared[m]

BoundHolds ==
    setting.faults = {} =>
      \A g \in Generations :
        \/ Spared(g)
        \/ \A m \in Managers :
             m \in Persistent /\ GenerationOf[m] = g => storage[m] # "ready"
        \/ Len(disk[g].files) <= MaximumBytes
        \/ \E m \in Managers : WillFit(m, g)

StoreInv ==
    /\ TypeOK /\ QueueHolds /\ StorageHolds /\ CallersHold /\ VersionsHold
    /\ NamesHold /\ CacheMatchesSource /\ LeasesHold /\ SessionLeavesNothing
    /\ BoundHolds /\ DeadExpire

\* What a queue of maintenance becomes when someone enters or leaves it.
LEMMA QueueFacts ==
    ASSUME NEW queue \in Seq(Managers), NEW n \in Managers
    PROVE  /\ Append(queue, n) \in Seq(Managers) /\ Waits(n, Append(queue, n))
           /\ \A m : Waits(m, queue) => Waits(m, Append(queue, n))
           /\ \A m : Leads(m, queue) => Leads(m, Append(queue, n))
           /\ \A m : Waits(m, queue) => queue # << >>
           /\ queue # << >> => Tail(queue) \in Seq(Managers)
           /\ \A m : Leads(n, queue) /\ m # n /\ Waits(m, queue)
                       => Waits(m, Tail(queue))
<1>1. /\ Append(queue, n) \in Seq(Managers) /\ Len(Append(queue, n)) = Len(queue) + 1
      /\ \A i \in 1..Len(queue) : Append(queue, n)[i] = queue[i]
      /\ Append(queue, n)[Len(queue) + 1] = n
      /\ Len(queue) \in Nat
  BY AppendProperties, LenProperties
<1>2. Waits(n, Append(queue, n))
  BY <1>1 DEF Waits
<1>3. ASSUME NEW m, Waits(m, queue)
      PROVE  Waits(m, Append(queue, n)) /\ queue # << >>
  BY <1>1, <1>3 DEF Waits
<1>4. ASSUME NEW m, Leads(m, queue) PROVE Leads(m, Append(queue, n))
  BY <1>1, <1>4 DEF Leads
<1>5. ASSUME NEW m, Leads(n, queue), m # n, Waits(m, queue)
      PROVE  Waits(m, Tail(queue))
  <2>1. PICK i \in 1..Len(queue) : queue[i] = m
    BY <1>5 DEF Waits
  <2>2. i # 1
    BY <1>5, <2>1 DEF Leads
  <2>3. /\ Len(Tail(queue)) = Len(queue) - 1
        /\ \A j \in 1..Len(Tail(queue)) : Tail(queue)[j] = queue[j + 1]
    BY <1>5, HeadTailProperties DEF Leads
  <2>4. i - 1 \in 1..Len(Tail(queue)) /\ (i - 1) + 1 = i
    BY <1>1, <2>1, <2>2, <2>3
  <2>5. Tail(queue)[i - 1] = queue[(i - 1) + 1]
    BY <2>3, <2>4
  <2> QED BY <2>1, <2>4, <2>5 DEF Waits
<1>6. queue # << >> => Tail(queue) \in Seq(Managers)
  BY HeadTailProperties
<1> QED BY <1>1, <1>2, <1>3, <1>4, <1>5, <1>6

\* The manager a process runs on, and whose queue it is in.
LEMMA OwnProcess ==
    ASSUME TypeOK
    PROVE  /\ ProcessOf \in [Managers -> Processes]
           /\ GenerationOf \in [Managers -> Generations]
           /\ Persistent \subseteq Managers
           /\ \A m \in Managers : chain[ProcessOf[m]] \in Seq(Managers)
<1>1. setting \in Setting
  BY StoreAssumption DEF TypeOK
<1> QED BY <1>1 DEF Setting, TypeOK, ProcessOf, GenerationOf, Persistent

\* What follows the sweep of the sessions and of the generations.
LEMMA SweepOutcomes ==
    ASSUME TypeOK, StorageHolds, NEW m \in Managers, NextSweep(m)
    PROVE  /\ at[m] \in {"sessions", "generations"} /\ storage[m] = "making"
           /\ \/ /\ at[m] = "sessions" /\ at' = [at EXCEPT ![m] = "generations"]
                 /\ UNCHANGED <<storage, chain>>
              \/ /\ m \in Persistent /\ at' = [at EXCEPT ![m] = "check"]
                 /\ UNCHANGED <<storage, chain>>
              \/ /\ m \notin Persistent /\ at' = [at EXCEPT ![m] = "lookup"]
                 /\ storage' = [storage EXCEPT ![m] = "ready"] /\ Leave(m)
           /\ \A n \in Managers \ {m} : at'[n] = at[n] /\ storage'[n] = storage[n]
<1>1. at[m] \in {"sessions", "generations"} /\ storage[m] = "making"
  BY DEF NextSweep, StorageHolds
<1>2. \/ /\ at[m] = "sessions" /\ at' = [at EXCEPT ![m] = "generations"]
         /\ UNCHANGED <<storage, chain>>
      \/ /\ m \in Persistent /\ at' = [at EXCEPT ![m] = "check"]
         /\ UNCHANGED <<storage, chain>>
      \/ /\ m \notin Persistent /\ at' = [at EXCEPT ![m] = "lookup"]
         /\ storage' = [storage EXCEPT ![m] = "ready"] /\ Leave(m)
  <2>1. CASE at[m] = "sessions"
    BY <1>1, <2>1 DEF NextSweep, Go
  <2>2. CASE at[m] # "sessions" /\ m \in Persistent
    BY <1>1, <2>2 DEF NextSweep, Go
  <2>3. CASE at[m] # "sessions" /\ m \notin Persistent
    BY <1>1, <2>3 DEF NextSweep, Go
  <2> QED BY <1>1, <2>1, <2>2, <2>3
<1>5. \A n \in Managers \ {m} : at'[n] = at[n] /\ storage'[n] = storage[n]
  <2>1. /\ at \in [Managers -> Stages]
        /\ storage \in [Managers -> {"none", "making", "ready", "failed"}]
    BY DEF TypeOK
  <2> QED BY <1>2, <2>1
<1> QED BY <1>1, <1>2, <1>5

\* A manager enters the queue of its process.
LEMMA EntersQueue ==
    ASSUME TypeOK, QueueHolds, setting' = setting, NEW m \in Managers, NEW stage,
           stage \notin Maintaining,
           at' = [at EXCEPT ![m] = stage],
           chain' = [chain EXCEPT ![ProcessOf[m]] = Append(@, m)]
    PROVE  QueueHolds'
<1> DEFINE P == ProcessOf
           before == chain[P[m]]
<1>1. P \in [Managers -> Processes] /\ ProcessOf' = P /\ before \in Seq(Managers)
  BY OwnProcess DEF ProcessOf
<1>2. /\ \A n \in Managers \ {m} : at'[n] = at[n]
      /\ at'[m] = stage
  BY DEF TypeOK
<1>3. \A n \in Managers : chain'[P[n]] =
        IF P[n] = P[m] THEN Append(before, m) ELSE chain[P[n]]
  BY <1>1 DEF TypeOK
<1> HIDE DEF P
<1>4. ASSUME NEW n \in Managers
      PROVE  /\ at'[n] = "queued" => Waits(n, chain'[P[n]])
             /\ at'[n] \in Maintaining => Leads(n, chain'[P[n]])
  <2>1. /\ Waits(m, Append(before, m))
        /\ Waits(n, before) => Waits(n, Append(before, m))
        /\ Leads(n, before) => Leads(n, Append(before, m))
    BY <1>1, QueueFacts
  <2>2. n # m => /\ at[n] = "queued" => Waits(n, chain[P[n]])
                 /\ at[n] \in Maintaining => Leads(n, chain[P[n]])
    BY DEF QueueHolds, P
  <2> QED BY <1>2, <1>3, <2>1, <2>2
<1> QED BY <1>1, <1>4 DEF QueueHolds, Waits, Leads

\* The first leaves the queue.
LEMMA LeavesQueue ==
    ASSUME TypeOK, QueueHolds, setting' = setting, NEW m \in Managers, NEW stage,
           at[m] \in Maintaining, stage \notin Maintaining \cup {"queued"},
           at' = [at EXCEPT ![m] = stage], Leave(m)
    PROVE  QueueHolds'
<1> DEFINE P == ProcessOf
           before == chain[P[m]]
<1>1. P \in [Managers -> Processes] /\ ProcessOf' = P /\ before \in Seq(Managers)
  BY OwnProcess DEF ProcessOf
<1>2. /\ \A n \in Managers \ {m} : at'[n] = at[n]
      /\ at'[m] = stage
  BY DEF TypeOK
<1>3. \A n \in Managers : chain'[P[n]] =
        IF P[n] = P[m] THEN Tail(before) ELSE chain[P[n]]
  BY <1>1 DEF TypeOK, Leave
<1>4. Leads(m, before)
  BY DEF QueueHolds
<1> HIDE DEF P
<1>5. ASSUME NEW n \in Managers
      PROVE  /\ at'[n] = "queued" => Waits(n, chain'[P[n]])
             /\ at'[n] \in Maintaining => Leads(n, chain'[P[n]])
  <2>1. n # m /\ Waits(n, before) => Waits(n, Tail(before))
    BY <1>1, <1>4, QueueFacts
  <2>2. n # m => ~Leads(n, before)
    BY <1>4 DEF Leads
  <2>3. n # m => /\ at[n] = "queued" => Waits(n, chain[P[n]])
                 /\ at[n] \in Maintaining => Leads(n, chain[P[n]])
    BY DEF QueueHolds, P
  <2> QED BY <1>2, <1>3, <2>1, <2>2, <2>3
<1> QED BY <1>1, <1>5 DEF QueueHolds, Waits, Leads

\* The queues stay, and a manager that goes on with maintenance is the first of its queue.
LEMMA StaysInQueue ==
    ASSUME TypeOK, QueueHolds, setting' = setting, NEW m \in Managers, NEW stage,
           \/ stage \notin Maintaining \cup {"queued"}
           \/ stage \in Maintaining /\ Leads(m, chain[ProcessOf[m]]),
           at' = [at EXCEPT ![m] = stage], chain' = chain
    PROVE  QueueHolds'
<1>1. ProcessOf' = ProcessOf
  BY DEF ProcessOf
<1>2. "queued" \notin Maintaining
  BY DEF Maintaining
<1> QED BY <1>1, <1>2 DEF TypeOK, QueueHolds, Waits, Leads

\* Every variable is changed by the actions listed with it, and by no other.
LEMMA WhoChangesWhat ==
    ASSUME [Next]_vars
    PROVE  /\ setting' = setting
           /\ source' = source \/ ChangeDrawing
           /\ disk' = disk \/ (\E m \in Managers : Stat(m))
                 \/ (\E m \in Managers : SessionLease(m))
                 \/ (\E m \in Managers : SessionPlace(m))
                 \/ (\E m \in Managers : PlaceLease(m))
                 \/ (\E m \in Managers, d \in Places : Inspect(m, d))
                 \/ (\E m \in Managers : RemovePlace(m))
                 \/ (\E m \in Managers : CheckOwn(m)) \/ (\E m \in Managers : Evict(m))
                 \/ (\E m \in Managers : Reuse(m))
                 \/ (\E m \in Managers, force \in BOOLEAN : MustConvert(m, force))
                 \/ (\E m \in Managers : Parse(m))
                 \/ (\E m \in Managers : ConversionFails(m))
                 \/ (\E m \in Managers : CommitPreview(m))
                 \/ (\E m \in Managers : Recheck(m)) \/ (\E m \in Managers : Commit(m))
                 \/ (\E m \in Managers : Reread(m))
                 \/ (\E m \in Managers, id \in Versions : Release(m, id))
                 \/ (\E m \in Managers : DropLease(m))
                 \/ (\E m \in Managers : RemoveRoot(m))
           /\ alive' = alive \/ (\E p \in Processes : Crash(p))
           /\ expired' = expired \/ (\E m \in Managers : Expire(m))
           /\ chain' = chain \/ (\E m \in Managers : Stat(m))
                 \/ (\E m \in Managers : SessionPlace(m))
                 \/ (\E m \in Managers : NextSweep(m))
                 \/ (\E m \in Managers : CheckOwn(m))
                 \/ (\E m \in Managers : EndEviction(m))
                 \/ (\E m \in Managers : MaintenanceFails(m))
                 \/ (\E m \in Managers : DropLease(m))
           /\ at' = at \/ (\E m \in Managers : Prepare(m))
                 \/ (\E m \in Managers : OpenReader(m)) \/ (\E m \in Managers : Stat(m))
                 \/ (\E m \in Managers : SessionLease(m))
                 \/ (\E m \in Managers : SessionPlace(m))
                 \/ (\E m \in Managers : PlaceLease(m))
                 \/ (\E m \in Managers : Reuse(m))
                 \/ (\E m \in Managers, force \in BOOLEAN : MustConvert(m, force))
                 \/ (\E m \in Managers : Parse(m))
                 \/ (\E m \in Managers : ConversionFails(m))
                 \/ (\E m \in Managers : CheckPreview(m))
                 \/ (\E m \in Managers : CommitPreview(m))
                 \/ (\E m \in Managers : Recheck(m)) \/ (\E m \in Managers : Commit(m))
                 \/ (\E m \in Managers : Reread(m))
                 \/ (\E m \in Managers : BeginMaintenance(m))
                 \/ (\E m \in Managers : NextSweep(m))
                 \/ (\E m \in Managers : CheckOwn(m))
                 \/ (\E m \in Managers : ListOwn(m))
                 \/ (\E m \in Managers : EndEviction(m))
                 \/ (\E m \in Managers : MaintenanceFails(m))
                 \/ (\E m \in Managers : DropLease(m))
                 \/ (\E m \in Managers : RemoveRoot(m))
           /\ prepares' = prepares \/ (\E m \in Managers : Prepare(m))
           /\ version' = version \/ (\E m \in Managers : Stat(m))
           /\ parsed' = parsed \/ (\E m \in Managers : Parse(m))
           /\ storage' = storage \/ (\E m \in Managers : Stat(m))
                 \/ (\E m \in Managers : SessionLease(m))
                 \/ (\E m \in Managers : PlaceLease(m))
                 \/ (\E m \in Managers : NextSweep(m))
                 \/ (\E m \in Managers : MaintenanceFails(m))
           /\ disposed' = disposed \/ (\E m \in Managers : Dispose(m))
           /\ todo' = todo \/ (\E m \in Managers : BeginMaintenance(m))
                 \/ (\E m \in Managers, d \in Places : Inspect(m, d))
                 \/ (\E m \in Managers : RemovePlace(m))
                 \/ (\E m \in Managers : NextSweep(m))
                 \/ (\E m \in Managers : MaintenanceFails(m))
           /\ doomed' = doomed \/ (\E m \in Managers, d \in Places : Inspect(m, d))
                 \/ (\E m \in Managers : RemovePlace(m))
                 \/ (\E m \in Managers : MaintenanceFails(m))
           /\ victims' = victims \/ (\E m \in Managers : ListOwn(m))
                 \/ (\E m \in Managers : Evict(m))
                 \/ (\E m \in Managers : MaintenanceFails(m))
           /\ readers' = readers \/ (\E m \in Managers : OpenReader(m))
                 \/ (\E m \in Managers, id \in Versions : Release(m, id))
                 \/ (\E p \in Processes : Crash(p))
           /\ spared' = spared \/ (\E m \in Managers : BeginMaintenance(m))
                 \/ (\E m \in Managers, d \in Places : Inspect(m, d))
                 \/ (\E m \in Managers : RemovePlace(m))
                 \/ (\E m \in Managers : NextSweep(m))
                 \/ (\E m \in Managers : ListOwn(m))
                 \/ (\E m \in Managers : RemoveRoot(m))
<1> USE DEF managerVars
<1>1. ASSUME NEW m \in Managers, Prepare(m)
      PROVE  UNCHANGED <<setting, source, disk, alive, expired, chain, version, parsed,
                         storage, disposed, todo, doomed, victims, readers, spared>>
  BY <1>1 DEF Prepare, In, Go
<1>2. ASSUME NEW m \in Managers, Dispose(m)
      PROVE  UNCHANGED <<setting, source, disk, alive, expired, chain, at, prepares,
                         version, parsed, storage, todo, doomed, victims, readers, spared>>
  BY <1>2 DEF Dispose
<1>3. ASSUME NEW m \in Managers, OpenReader(m)
      PROVE  UNCHANGED <<setting, source, disk, alive, expired, chain, prepares, version,
                         parsed, storage, disposed, todo, doomed, victims, spared>>
  BY <1>3 DEF OpenReader, In, Go, Aside
<1>4. ASSUME NEW m \in Managers, NEW id \in Versions, Release(m, id)
      PROVE  UNCHANGED <<setting, source, alive, expired, chain, at, prepares, version,
                         parsed, storage, disposed, todo, doomed, victims, spared>>
  BY <1>4 DEF Release, Aside, Own
<1>5. ASSUME NEW m \in Managers, Stat(m)
      PROVE  UNCHANGED <<setting, source, alive, expired, prepares, parsed, disposed,
                         todo, doomed, victims, readers, spared>>
  BY <1>5 DEF Stat, In, Go
<1>6. ASSUME NEW m \in Managers, SessionLease(m)
      PROVE  UNCHANGED <<setting, source, alive, expired, chain, prepares, version,
                         parsed, disposed, todo, doomed, victims, readers, spared>>
  BY <1>6 DEF SessionLease, In, Go, TakeLease, Leases
<1>7. ASSUME NEW m \in Managers, SessionPlace(m)
      PROVE  UNCHANGED <<setting, source, alive, expired, prepares, version, parsed,
                         storage, disposed, todo, doomed, victims, readers, spared>>
  BY <1>7 DEF SessionPlace, In, Go
<1>8. ASSUME NEW m \in Managers, PlaceLease(m)
      PROVE  UNCHANGED <<setting, source, alive, expired, chain, prepares, version,
                         parsed, disposed, todo, doomed, victims, readers, spared>>
  BY <1>8 DEF PlaceLease, In, Go, TakeLease, Leases
<1>9. ASSUME NEW m \in Managers, Reuse(m)
      PROVE  UNCHANGED <<setting, source, alive, expired, chain, prepares, version,
                         parsed, storage, disposed, todo, doomed, victims, readers, spared>>
  BY <1>9 DEF Reuse, In, Go, Aside, Own
<1>10. ASSUME NEW m \in Managers, NEW force \in BOOLEAN, MustConvert(m, force)
      PROVE  UNCHANGED <<setting, source, alive, expired, chain, prepares, version,
                         parsed, storage, disposed, todo, doomed, victims, readers, spared>>
  BY <1>10 DEF MustConvert, In, Go, Aside, Own
<1>11. ASSUME NEW m \in Managers, Parse(m)
      PROVE  UNCHANGED <<setting, source, alive, expired, chain, prepares, version,
                         storage, disposed, todo, doomed, victims, readers, spared>>
  BY <1>11 DEF Parse, Go, Aside, Temporary
<1>12. ASSUME NEW m \in Managers, ConversionFails(m)
      PROVE  UNCHANGED <<setting, source, alive, expired, chain, prepares, version,
                         parsed, storage, disposed, todo, doomed, victims, readers, spared>>
  BY <1>12 DEF ConversionFails, Go, Aside, Temporary
<1>13. ASSUME NEW m \in Managers, CheckPreview(m)
      PROVE  UNCHANGED <<setting, source, disk, alive, expired, chain, prepares, version,
                         parsed, storage, disposed, todo, doomed, victims, readers, spared>>
  BY <1>13 DEF CheckPreview, In, Go, Aside
<1>14. ASSUME NEW m \in Managers, CommitPreview(m)
      PROVE  UNCHANGED <<setting, source, alive, expired, chain, prepares, version,
                         parsed, storage, disposed, todo, doomed, victims, readers, spared>>
  BY <1>14 DEF CommitPreview, In, Go, Aside, Own
<1>15. ASSUME NEW m \in Managers, Recheck(m)
      PROVE  UNCHANGED <<setting, source, alive, expired, chain, prepares, version,
                         parsed, storage, disposed, todo, doomed, victims, readers, spared>>
  BY <1>15 DEF Recheck, In, Go, Aside, Temporary
<1>16. ASSUME NEW m \in Managers, Commit(m)
      PROVE  UNCHANGED <<setting, source, alive, expired, chain, prepares, version,
                         parsed, storage, disposed, todo, doomed, victims, readers, spared>>
  BY <1>16 DEF Commit, In, Go, Aside
<1>17. ASSUME NEW m \in Managers, Reread(m)
      PROVE  UNCHANGED <<setting, source, alive, expired, chain, prepares, version,
                         parsed, storage, disposed, todo, doomed, victims, readers, spared>>
  BY <1>17 DEF Reread, In, Go, Aside, Own
<1>18. ASSUME NEW m \in Managers, BeginMaintenance(m)
      PROVE  UNCHANGED <<setting, source, disk, alive, expired, chain, prepares, version,
                         parsed, storage, disposed, doomed, victims, readers>>
  BY <1>18 DEF BeginMaintenance, In, Go
<1>19. ASSUME NEW m \in Managers, RemovePlace(m)
      PROVE  UNCHANGED <<setting, source, alive, expired, chain, at, prepares, version,
                         parsed, storage, disposed, victims, readers>>
  BY <1>19 DEF RemovePlace
<1>20. ASSUME NEW m \in Managers, NextSweep(m)
      PROVE  UNCHANGED <<setting, source, disk, alive, expired, prepares, version,
                         parsed, disposed, doomed, victims, readers>>
  BY <1>20 DEF NextSweep, Go, Leave
<1>21. ASSUME NEW m \in Managers, NEW d \in Places, Inspect(m, d)
      PROVE  UNCHANGED <<setting, source, alive, expired, chain, at, prepares, version,
                         parsed, storage, disposed, victims, readers>>
  BY <1>21 DEF Inspect
<1>22. ASSUME NEW m \in Managers, CheckOwn(m)
      PROVE  UNCHANGED <<setting, source, alive, expired, prepares, version, parsed,
                         storage, disposed, todo, doomed, victims, readers, spared>>
  BY <1>22 DEF CheckOwn, In
<1>23. ASSUME NEW m \in Managers, ListOwn(m)
      PROVE  UNCHANGED <<setting, source, disk, alive, expired, chain, prepares, version,
                         parsed, storage, disposed, todo, doomed, readers>>
  BY <1>23 DEF ListOwn, In, Go
<1>24. ASSUME NEW m \in Managers, Evict(m)
      PROVE  UNCHANGED <<setting, source, alive, expired, chain, at, prepares, version,
                         parsed, storage, disposed, todo, doomed, readers, spared>>
  BY <1>24 DEF Evict, In, Own
<1>25. ASSUME NEW m \in Managers, EndEviction(m)
      PROVE  UNCHANGED <<setting, source, disk, alive, expired, prepares, version,
                         parsed, storage, disposed, todo, doomed, victims, readers, spared>>
  BY <1>25 DEF EndEviction, In, Go, Leave, AfterMaintenance
<1>26. ASSUME NEW m \in Managers, MaintenanceFails(m)
      PROVE  UNCHANGED <<setting, source, disk, alive, expired, prepares, version,
                         parsed, disposed, readers, spared>>
  BY <1>26 DEF MaintenanceFails, Go, Leave
<1>27. ASSUME NEW m \in Managers, DropLease(m)
      PROVE  UNCHANGED <<setting, source, alive, expired, prepares, version, parsed,
                         storage, disposed, todo, doomed, victims, readers, spared>>
  BY <1>27 DEF DropLease, Go, Leases
<1>28. ASSUME NEW m \in Managers, RemoveRoot(m)
      PROVE  UNCHANGED <<setting, source, alive, expired, chain, prepares, version,
                         parsed, storage, disposed, todo, doomed, victims, readers>>
  BY <1>28 DEF RemoveRoot, Go
<1>29. ASSUME ChangeDrawing
      PROVE  UNCHANGED <<setting, disk, alive, expired, chain, at, prepares, version,
                         parsed, storage, disposed, todo, doomed, victims, readers, spared>>
  BY <1>29 DEF ChangeDrawing
<1>30. ASSUME NEW p \in Processes, Crash(p)
      PROVE  UNCHANGED <<setting, source, disk, expired, chain, at, prepares, version,
                         parsed, storage, disposed, todo, doomed, victims, spared>>
  BY <1>30 DEF Crash
<1>31. ASSUME NEW m \in Managers, Expire(m)
      PROVE  UNCHANGED <<setting, source, disk, alive, chain, at, prepares, version,
                         parsed, storage, disposed, todo, doomed, victims, readers, spared>>
  BY <1>31 DEF Expire
<1>u. CASE UNCHANGED vars
  BY <1>u DEF vars, storeVars
<1> QED
  BY <1>1, <1>2, <1>3, <1>4, <1>5, <1>6, <1>7, <1>8, <1>9, <1>10, <1>11, <1>12, <1>13,
     <1>14, <1>15, <1>16, <1>17, <1>18, <1>19, <1>20, <1>21, <1>22, <1>23, <1>24,
     <1>25, <1>26, <1>27, <1>28, <1>29, <1>30, <1>31, <1>u
  DEF Next, Surroundings, Calls, Prepares, Maintains, Disposes

\* A manager has the storage its stage needs: StorageHolds is preserved.
LEMMA StorageStep ==
    ASSUME TypeOK, StorageHolds, [Next]_vars
    PROVE  StorageHolds'
<1> USE DEF StorageHolds, Working, Maintaining, Persistent, Settled, TypeOK
<1>1. ASSUME NEW m \in Managers, Prepare(m) PROVE StorageHolds'
  BY <1>1 DEF Prepare, In, Go
<1>2. ASSUME NEW m \in Managers, Dispose(m) PROVE StorageHolds'
  BY <1>2 DEF Dispose
<1>3. ASSUME NEW m \in Managers, OpenReader(m) PROVE StorageHolds'
  BY <1>3 DEF OpenReader, In, Go, Aside
<1>4. ASSUME NEW m \in Managers, Stat(m) PROVE StorageHolds'
  BY <1>4 DEF Stat, In, Go
<1>5. ASSUME NEW m \in Managers, SessionLease(m) PROVE StorageHolds'
  BY <1>5 DEF SessionLease, In, Go, TakeLease, Leases
<1>6. ASSUME NEW m \in Managers, SessionPlace(m) PROVE StorageHolds'
  BY <1>6 DEF SessionPlace, In, Go
<1>7. ASSUME NEW m \in Managers, PlaceLease(m) PROVE StorageHolds'
  BY <1>7 DEF PlaceLease, In, Go, TakeLease, Leases
<1>8. ASSUME NEW m \in Managers, Reuse(m) PROVE StorageHolds'
  BY <1>8 DEF Reuse, In, Go, Aside, Own
<1>9. ASSUME NEW m \in Managers, NEW force \in BOOLEAN, MustConvert(m, force)
      PROVE  StorageHolds'
  BY <1>9 DEF MustConvert, In, Go, Aside, Own
<1>10. ASSUME NEW m \in Managers, Parse(m) PROVE StorageHolds'
  BY <1>10 DEF Parse, Go, Aside, Temporary
<1>11. ASSUME NEW m \in Managers, ConversionFails(m) PROVE StorageHolds'
  BY <1>11 DEF ConversionFails, Go, Aside, Temporary
<1>12. ASSUME NEW m \in Managers, CheckPreview(m) PROVE StorageHolds'
  BY <1>12 DEF CheckPreview, In, Go, Aside
<1>13. ASSUME NEW m \in Managers, CommitPreview(m) PROVE StorageHolds'
  BY <1>13 DEF CommitPreview, In, Go, Aside, Own
<1>14. ASSUME NEW m \in Managers, Recheck(m) PROVE StorageHolds'
  BY <1>14 DEF Recheck, In, Go, Aside, Temporary
<1>15. ASSUME NEW m \in Managers, Commit(m) PROVE StorageHolds'
  BY <1>15 DEF Commit, In, Go, Aside
<1>16. ASSUME NEW m \in Managers, Reread(m) PROVE StorageHolds'
  BY <1>16 DEF Reread, In, Go, Aside, Own
<1>17. ASSUME NEW m \in Managers, BeginMaintenance(m) PROVE StorageHolds'
  BY <1>17 DEF BeginMaintenance, In, Go
<1>18. ASSUME NEW m \in Managers, NextSweep(m) PROVE StorageHolds'
  BY <1>18 DEF NextSweep, Go, Leave
<1>19. ASSUME NEW m \in Managers, CheckOwn(m) PROVE StorageHolds'
  <2>1. \/ at' = [at EXCEPT ![m] = "list"]
        \/ at' = [at EXCEPT ![m] = IF storage[m] = "ready" THEN "gone" ELSE "lease"]
    BY <1>19 DEF CheckOwn, Go, AfterMaintenance
  <2>2. at[m] = "check" /\ UNCHANGED <<setting, storage, disposed>>
    BY <1>19 DEF CheckOwn, In
  <2> QED BY <2>1, <2>2
<1>20. ASSUME NEW m \in Managers, ListOwn(m) PROVE StorageHolds'
  BY <1>20 DEF ListOwn, In, Go
<1>21. ASSUME NEW m \in Managers, EndEviction(m) PROVE StorageHolds'
  BY <1>21 DEF EndEviction, In, Go, Leave, AfterMaintenance
<1>22. ASSUME NEW m \in Managers, MaintenanceFails(m) PROVE StorageHolds'
  BY <1>22 DEF MaintenanceFails, Go, Leave
<1>23. ASSUME NEW m \in Managers, DropLease(m) PROVE StorageHolds'
  BY <1>23 DEF DropLease, Go, Leases
<1>24. ASSUME NEW m \in Managers, RemoveRoot(m) PROVE StorageHolds'
  BY <1>24 DEF RemoveRoot, In, Go
<1>u. CASE UNCHANGED <<setting, at, storage, disposed>>
  BY <1>u
<1> QED
  BY <1>1, <1>2, <1>3, <1>4, <1>5, <1>6, <1>7, <1>8, <1>9, <1>10, <1>11, <1>12, <1>13,
     <1>14, <1>15, <1>16, <1>17, <1>18, <1>19, <1>20, <1>21, <1>22, <1>23, <1>24, <1>u,
     WhoChangesWhat

\* Whoever maintains stays the first of its queue: QueueHolds is preserved.
LEMMA QueueStep ==
    ASSUME TypeOK, StorageHolds, QueueHolds, [Next]_vars
    PROVE  QueueHolds'
<1>s. setting' = setting
  BY WhoChangesWhat
<1> USE DEF Maintaining
<1>1. ASSUME NEW m \in Managers, Prepare(m) PROVE QueueHolds'
  BY <1>1, <1>s, StaysInQueue DEF Prepare, In, Go
<1>2. ASSUME NEW m \in Managers, OpenReader(m) PROVE QueueHolds'
  BY <1>2, <1>s, StaysInQueue DEF OpenReader, In, Go, Aside
<1>3. ASSUME NEW m \in Managers, Stat(m) PROVE QueueHolds'
  <2>1. CASE storage[m] = "ready"
    BY <1>3, <2>1, <1>s, StaysInQueue DEF Stat, In, Go
  <2>2. CASE storage[m] = "failed"
    BY <1>3, <2>2, <1>s, StaysInQueue DEF Stat, In, Go
  <2>3. CASE storage[m] \notin {"ready", "failed"} /\ m \in Persistent
    BY <1>3, <2>3, <1>s, EntersQueue DEF Stat, In, Go
  <2>4. CASE storage[m] \notin {"ready", "failed"} /\ m \notin Persistent
    BY <1>3, <2>4, <1>s, StaysInQueue DEF Stat, In, Go
  <2> QED BY <2>1, <2>2, <2>3, <2>4
<1>4. ASSUME NEW m \in Managers, SessionLease(m) PROVE QueueHolds'
  BY <1>4, <1>s, StaysInQueue DEF SessionLease, In, Go, TakeLease, Leases
<1>5. ASSUME NEW m \in Managers, SessionPlace(m) PROVE QueueHolds'
  BY <1>5, <1>s, EntersQueue DEF SessionPlace, In, Go
<1>6. ASSUME NEW m \in Managers, PlaceLease(m) PROVE QueueHolds'
  BY <1>6, <1>s, StaysInQueue DEF PlaceLease, In, Go, TakeLease, Leases
<1>7. ASSUME NEW m \in Managers, Reuse(m) PROVE QueueHolds'
  BY <1>7, <1>s, StaysInQueue DEF Reuse, In, Go, Aside, Own
<1>8. ASSUME NEW m \in Managers, NEW force \in BOOLEAN, MustConvert(m, force)
      PROVE  QueueHolds'
  BY <1>8, <1>s, StaysInQueue DEF MustConvert, In, Go, Aside, Own
<1>9. ASSUME NEW m \in Managers, Parse(m) PROVE QueueHolds'
  BY <1>9, <1>s, StaysInQueue DEF Parse, Go, Aside, Temporary
<1>10. ASSUME NEW m \in Managers, ConversionFails(m) PROVE QueueHolds'
  BY <1>10, <1>s, StaysInQueue DEF ConversionFails, Go, Aside, Temporary
<1>11. ASSUME NEW m \in Managers, CheckPreview(m) PROVE QueueHolds'
  BY <1>11, <1>s, StaysInQueue DEF CheckPreview, In, Go, Aside
<1>12. ASSUME NEW m \in Managers, CommitPreview(m) PROVE QueueHolds'
  BY <1>12, <1>s, StaysInQueue DEF CommitPreview, In, Go, Aside, Own
<1>13. ASSUME NEW m \in Managers, Recheck(m) PROVE QueueHolds'
  BY <1>13, <1>s, StaysInQueue DEF Recheck, In, Go, Aside, Temporary
<1>14. ASSUME NEW m \in Managers, Commit(m) PROVE QueueHolds'
  BY <1>14, <1>s, StaysInQueue DEF Commit, In, Go, Aside
<1>15. ASSUME NEW m \in Managers, Reread(m) PROVE QueueHolds'
  BY <1>15, <1>s, StaysInQueue DEF Reread, In, Go, Aside, Own
<1>16. ASSUME NEW m \in Managers, BeginMaintenance(m) PROVE QueueHolds'
  <2>1. Leads(m, chain[ProcessOf[m]])
    BY <1>16, QueueFacts, OwnProcess DEF BeginMaintenance, In, Leads, QueueHolds
  <2> QED BY <1>16, <2>1, <1>s, StaysInQueue DEF BeginMaintenance, In, Go
<1>17. ASSUME NEW m \in Managers, NextSweep(m) PROVE QueueHolds'
  <2>1. at[m] \in Maintaining /\ Leads(m, chain[ProcessOf[m]])
    BY <1>17 DEF NextSweep, Go, Leave, QueueHolds
  <2> QED BY <1>17, <2>1, <1>s, SweepOutcomes, LeavesQueue, StaysInQueue
<1>18. ASSUME NEW m \in Managers, CheckOwn(m) PROVE QueueHolds'
  <2>1. at[m] \in Maintaining /\ Leads(m, chain[ProcessOf[m]])
    BY <1>18 DEF CheckOwn, In, QueueHolds
  <2>2. CASE AfterMaintenance(m) /\ Leave(m)
    <3>1. \E stage \in {"gone", "lease"} : at' = [at EXCEPT ![m] = stage]
      BY <2>2 DEF Go, AfterMaintenance
    <3>2. \A stage \in {"gone", "lease"} : stage \notin Maintaining \cup {"queued"}
      OBVIOUS
    <3> HIDE DEF Maintaining
    <3> QED BY <2>1, <2>2, <3>1, <3>2, <1>s, LeavesQueue
  <2>3. CASE Go(m, "list") /\ UNCHANGED chain
    BY <1>18, <2>1, <2>3, <1>s, StaysInQueue DEF Go
  <2> QED BY <1>18, <2>2, <2>3 DEF CheckOwn
<1>19. ASSUME NEW m \in Managers, ListOwn(m) PROVE QueueHolds'
  <2>1. at[m] \in Maintaining /\ Leads(m, chain[ProcessOf[m]])
    BY <1>19 DEF ListOwn, In, Go, QueueHolds
  <2> QED BY <1>19, <2>1, <1>s, StaysInQueue DEF ListOwn, In, Go
<1>20. ASSUME NEW m \in Managers, EndEviction(m) PROVE QueueHolds'
  <2>1. at[m] \in Maintaining /\ Leads(m, chain[ProcessOf[m]])
    BY <1>20 DEF EndEviction, In, Go, Leave, AfterMaintenance, QueueHolds
  <2>2. /\ Leave(m)
        /\ \/ at' = [at EXCEPT ![m] = "gone"]
           \/ at' = [at EXCEPT ![m] = "lease"]
    BY <1>20 DEF EndEviction, In, Go, AfterMaintenance
  <2>3. CASE at' = [at EXCEPT ![m] = "gone"]
    <3>1. "gone" \notin Maintaining \cup {"queued"} /\ at[m] \in Maintaining /\ Leave(m)
      BY <2>1, <2>2
    <3> HIDE DEF Maintaining
    <3> QED BY <3>1, <2>3, <1>s, LeavesQueue
  <2>4. CASE at' = [at EXCEPT ![m] = "lease"]
    <3>1. "lease" \notin Maintaining \cup {"queued"} /\ at[m] \in Maintaining /\ Leave(m)
      BY <2>1, <2>2
    <3> HIDE DEF Maintaining
    <3> QED BY <3>1, <2>4, <1>s, LeavesQueue
  <2> QED BY <2>2, <2>3, <2>4
<1>21. ASSUME NEW m \in Managers, MaintenanceFails(m) PROVE QueueHolds'
  <2>1. at[m] \in Maintaining /\ Leads(m, chain[ProcessOf[m]])
    BY <1>21 DEF MaintenanceFails, Go, Leave, QueueHolds
  <2>2. /\ Leave(m)
        /\ \/ at' = [at EXCEPT ![m] = "gone"]
           \/ at' = [at EXCEPT ![m] = "idle"]
    BY <1>21 DEF MaintenanceFails, Go
  <2>3. CASE at' = [at EXCEPT ![m] = "gone"]
    <3>1. "gone" \notin Maintaining \cup {"queued"} /\ at[m] \in Maintaining /\ Leave(m)
      BY <2>1, <2>2
    <3> HIDE DEF Maintaining
    <3> QED BY <3>1, <2>3, <1>s, LeavesQueue
  <2>4. CASE at' = [at EXCEPT ![m] = "idle"]
    <3>1. "idle" \notin Maintaining \cup {"queued"} /\ at[m] \in Maintaining /\ Leave(m)
      BY <2>1, <2>2
    <3> HIDE DEF Maintaining
    <3> QED BY <3>1, <2>4, <1>s, LeavesQueue
  <2> QED BY <2>2, <2>3, <2>4
<1>22. ASSUME NEW m \in Managers, DropLease(m) PROVE QueueHolds'
  <2>1. CASE m \in Persistent /\ storage[m] = "ready"
    BY <1>22, <2>1, <1>s, EntersQueue DEF DropLease, Go, Leases
  <2>2. CASE m \in Persistent /\ storage[m] # "ready"
    BY <1>22, <2>2, <1>s, StaysInQueue DEF DropLease, Go, Leases
  <2>3. CASE m \notin Persistent
    BY <1>22, <2>3, <1>s, StaysInQueue DEF DropLease, Go, Leases
  <2> QED BY <2>1, <2>2, <2>3
<1>23. ASSUME NEW m \in Managers, RemoveRoot(m) PROVE QueueHolds'
  BY <1>23, <1>s, StaysInQueue DEF RemoveRoot, In, Go
<1>u. CASE UNCHANGED <<at, chain>>
  BY <1>s, <1>u DEF QueueHolds, Waits, Leads, ProcessOf
<1> QED
  BY <1>1, <1>2, <1>3, <1>4, <1>5, <1>6, <1>7, <1>8, <1>9, <1>10, <1>11, <1>12, <1>13,
     <1>14, <1>15, <1>16, <1>17, <1>18, <1>19, <1>20, <1>21, <1>22, <1>23, <1>u,
     WhoChangesWhat

\* A manager is disposed of once its caller has closed what it had open, and
\* one that never prepared anything has no storage: CallersHold is preserved.
LEMMA CallersStep ==
    ASSUME TypeOK, StorageHolds, CallersHold, [Next]_vars
    PROVE  CallersHold'
<1> USE DEF CallersHold, Maintaining, TypeOK
<1>1. ASSUME NEW m \in Managers, Prepare(m) PROVE CallersHold'
  BY <1>1 DEF Prepare, In, Go
<1>2. ASSUME NEW m \in Managers, Dispose(m) PROVE CallersHold'
  BY <1>2 DEF Dispose
<1>3. ASSUME NEW m \in Managers, OpenReader(m) PROVE CallersHold'
  BY <1>3 DEF OpenReader, In, Go, Aside
<1>4. ASSUME NEW m \in Managers, NEW id \in Versions, Release(m, id)
      PROVE  CallersHold'
  BY <1>4 DEF Release, Aside, Own
<1>5. ASSUME NEW m \in Managers, Stat(m) PROVE CallersHold'
  <2>1. /\ at[m] = "stat" /\ prepares[m] # 0
        /\ UNCHANGED <<prepares, disposed, readers>>
    BY <1>5 DEF Stat, In
  <2>2. \A n \in Managers \ {m} : at'[n] = at[n] /\ storage'[n] = storage[n]
    BY <1>5 DEF Stat, Go
  <2> QED BY <2>1, <2>2
<1>6. ASSUME NEW m \in Managers, SessionLease(m) PROVE CallersHold'
  <2>1. at[m] = "sessionLease" /\ prepares[m] # 0 /\ UNCHANGED <<prepares, disposed, readers>>
    BY <1>6 DEF SessionLease, In
  <2>2. \A n \in Managers \ {m} : at'[n] = at[n] /\ storage'[n] = storage[n]
    BY <1>6 DEF SessionLease, TakeLease, Go
  <2> QED BY <2>1, <2>2
<1>7. ASSUME NEW m \in Managers, SessionPlace(m) PROVE CallersHold'
  BY <1>7 DEF SessionPlace, In, Go
<1>8. ASSUME NEW m \in Managers, PlaceLease(m) PROVE CallersHold'
  <2>1. at[m] = "lease" /\ prepares[m] # 0 /\ UNCHANGED <<prepares, disposed, readers>>
    BY <1>8 DEF PlaceLease, In
  <2>2. \A n \in Managers \ {m} : at'[n] = at[n] /\ storage'[n] = storage[n]
    BY <1>8 DEF PlaceLease, TakeLease, Go
  <2> QED BY <2>1, <2>2
<1>9. ASSUME NEW m \in Managers, Reuse(m) PROVE CallersHold'
  BY <1>9 DEF Reuse, In, Go, Aside, Own
<1>10. ASSUME NEW m \in Managers, NEW force \in BOOLEAN, MustConvert(m, force)
       PROVE  CallersHold'
  BY <1>10 DEF MustConvert, In, Go, Aside, Own
<1>11. ASSUME NEW m \in Managers, Parse(m) PROVE CallersHold'
  BY <1>11 DEF Parse, Go, Aside, Temporary
<1>12. ASSUME NEW m \in Managers, ConversionFails(m) PROVE CallersHold'
  BY <1>12 DEF ConversionFails, Go, Aside, Temporary
<1>13. ASSUME NEW m \in Managers, CheckPreview(m) PROVE CallersHold'
  BY <1>13 DEF CheckPreview, In, Go, Aside
<1>14. ASSUME NEW m \in Managers, CommitPreview(m) PROVE CallersHold'
  BY <1>14 DEF CommitPreview, In, Go, Aside, Own
<1>15. ASSUME NEW m \in Managers, Recheck(m) PROVE CallersHold'
  BY <1>15 DEF Recheck, In, Go, Aside, Temporary
<1>16. ASSUME NEW m \in Managers, Commit(m) PROVE CallersHold'
  BY <1>16 DEF Commit, In, Go, Aside
<1>17. ASSUME NEW m \in Managers, Reread(m) PROVE CallersHold'
  BY <1>17 DEF Reread, In, Go, Aside, Own
<1>18. ASSUME NEW m \in Managers, BeginMaintenance(m) PROVE CallersHold'
  BY <1>18 DEF BeginMaintenance, In, Go
<1>19. ASSUME NEW m \in Managers, NextSweep(m) PROVE CallersHold'
  <2>1. at[m] \in {"sessions", "generations"} /\ prepares[m] # 0
    BY <1>19, SweepOutcomes
  <2>2. \A n \in Managers \ {m} : at'[n] = at[n] /\ storage'[n] = storage[n]
    BY <1>19, SweepOutcomes
  <2> QED BY <1>19, <2>1, <2>2 DEF NextSweep
<1>20. ASSUME NEW m \in Managers, CheckOwn(m) PROVE CallersHold'
  <2>1. /\ at[m] = "check" /\ UNCHANGED <<prepares, storage, disposed, readers>>
        /\ \E stage \in {"gone", "lease", "list"} : at' = [at EXCEPT ![m] = stage]
    BY <1>20 DEF CheckOwn, In, Go, AfterMaintenance
  <2>2. prepares[m] # 0 /\ at'[m] \in {"gone", "lease", "list"}
        /\ \A n \in Managers \ {m} : at'[n] = at[n]
    BY <2>1
  <2> QED BY <2>1, <2>2
<1>21. ASSUME NEW m \in Managers, ListOwn(m) PROVE CallersHold'
  BY <1>21 DEF ListOwn, In, Go
<1>22. ASSUME NEW m \in Managers, EndEviction(m) PROVE CallersHold'
  BY <1>22 DEF EndEviction, In, Go, Leave, AfterMaintenance
<1>23. ASSUME NEW m \in Managers, MaintenanceFails(m) PROVE CallersHold'
  BY <1>23 DEF MaintenanceFails, Go, Leave
<1>24. ASSUME NEW m \in Managers, DropLease(m) PROVE CallersHold'
  <2>1. UNCHANGED <<prepares, storage, disposed, readers>>
    BY <1>24 DEF DropLease
  <2>2. /\ \/ m \in Persistent /\ storage[m] = "ready"
           \/ \E stage \in {"gone", "removeRoot"} : at' = [at EXCEPT ![m] = stage]
        /\ \A n \in Managers \ {m} : at'[n] = at[n]
    BY <1>24 DEF DropLease, Go
  <2> QED BY <2>1, <2>2
<1>25. ASSUME NEW m \in Managers, RemoveRoot(m) PROVE CallersHold'
  BY <1>25 DEF RemoveRoot, In, Go
<1>26. ASSUME NEW p \in Processes, Crash(p) PROVE CallersHold'
  <2>1. readers' \subseteq readers /\ UNCHANGED <<at, storage, disposed, prepares>>
    BY <1>26 DEF Crash, managerVars
  <2> QED BY <2>1
<1>u. CASE UNCHANGED <<at, storage, disposed, prepares, readers>>
  BY <1>u
<1> QED
  BY <1>1, <1>2, <1>3, <1>4, <1>5, <1>6, <1>7, <1>8, <1>9, <1>10, <1>11, <1>12, <1>13,
     <1>14, <1>15, <1>16, <1>17, <1>18, <1>19, <1>20, <1>21, <1>22, <1>23, <1>24,
     <1>25, <1>26, <1>u, WhoChangesWhat

\* A preparation goes on only with the version it looked at: VersionsHold is
\* preserved.
LEMMA VersionsStep ==
    ASSUME TypeOK, VersionsHold, [Next]_vars
    PROVE  VersionsHold'
<1> USE DEF VersionsHold, Maintaining, TypeOK, Versions, InputUnchanged
<1>1. ASSUME NEW m \in Managers, Prepare(m) PROVE VersionsHold'
  BY <1>1 DEF Prepare, In, Go
<1>2. ASSUME NEW m \in Managers, OpenReader(m) PROVE VersionsHold'
  BY <1>2 DEF OpenReader, In, Go, Aside
<1>3. ASSUME NEW m \in Managers, Stat(m) PROVE VersionsHold'
  BY <1>3 DEF Stat, In, Go
<1>4. ASSUME NEW m \in Managers, SessionLease(m) PROVE VersionsHold'
  BY <1>4 DEF SessionLease, In, Go, TakeLease, Leases
<1>5. ASSUME NEW m \in Managers, SessionPlace(m) PROVE VersionsHold'
  BY <1>5 DEF SessionPlace, In, Go
<1>6. ASSUME NEW m \in Managers, PlaceLease(m) PROVE VersionsHold'
  BY <1>6 DEF PlaceLease, In, Go, TakeLease, Leases
<1>7. ASSUME NEW m \in Managers, Reuse(m) PROVE VersionsHold'
  BY <1>7 DEF Reuse, In, Go, Aside, Own
<1>8. ASSUME NEW m \in Managers, NEW force \in BOOLEAN, MustConvert(m, force)
      PROVE  VersionsHold'
  BY <1>8 DEF MustConvert, In, Go, Aside, Own
<1>9. ASSUME NEW m \in Managers, Parse(m) PROVE VersionsHold'
  BY <1>9 DEF Parse, Go, Aside, Temporary
<1>10. ASSUME NEW m \in Managers, ConversionFails(m) PROVE VersionsHold'
  BY <1>10 DEF ConversionFails, Go, Aside, Temporary
<1>11. ASSUME NEW m \in Managers, CheckPreview(m) PROVE VersionsHold'
  BY <1>11 DEF CheckPreview, In, Go, Aside
<1>12. ASSUME NEW m \in Managers, CommitPreview(m) PROVE VersionsHold'
  BY <1>12 DEF CommitPreview, In, Go, Aside, Own
<1>13. ASSUME NEW m \in Managers, Recheck(m) PROVE VersionsHold'
  BY <1>13 DEF Recheck, In, Go, Aside, Temporary
<1>14. ASSUME NEW m \in Managers, Commit(m) PROVE VersionsHold'
  BY <1>14 DEF Commit, In, Go, Aside
<1>15. ASSUME NEW m \in Managers, Reread(m) PROVE VersionsHold'
  BY <1>15 DEF Reread, In, Go, Aside, Own
<1>16. ASSUME NEW m \in Managers, BeginMaintenance(m) PROVE VersionsHold'
  BY <1>16 DEF BeginMaintenance, In, Go
<1>17. ASSUME NEW m \in Managers, NextSweep(m) PROVE VersionsHold'
  BY <1>17 DEF NextSweep, Go, Leave
<1>18. ASSUME NEW m \in Managers, CheckOwn(m) PROVE VersionsHold'
  BY <1>18 DEF CheckOwn, In, Go, Leave, AfterMaintenance, Leases
<1>19. ASSUME NEW m \in Managers, ListOwn(m) PROVE VersionsHold'
  BY <1>19 DEF ListOwn, In, Go
<1>20. ASSUME NEW m \in Managers, EndEviction(m) PROVE VersionsHold'
  BY <1>20 DEF EndEviction, In, Go, Leave, AfterMaintenance
<1>21. ASSUME NEW m \in Managers, MaintenanceFails(m) PROVE VersionsHold'
  BY <1>21 DEF MaintenanceFails, Go, Leave
<1>22. ASSUME NEW m \in Managers, DropLease(m) PROVE VersionsHold'
  BY <1>22 DEF DropLease, Go, Leases
<1>23. ASSUME NEW m \in Managers, RemoveRoot(m) PROVE VersionsHold'
  BY <1>23 DEF RemoveRoot, In, Go
<1>24. ASSUME ChangeDrawing PROVE VersionsHold'
  <2>1. source' = source + 1 /\ UNCHANGED <<at, version, parsed>>
    BY <1>24 DEF ChangeDrawing, managerVars
  <2>2. \A m \in Managers : version[m] \in Int /\ parsed[m] \in Int /\ source \in Int
    BY StoreAssumption
  <2> QED BY <2>1, <2>2
<1>u. CASE UNCHANGED <<at, source, version, parsed>>
  BY <1>u
<1> QED
  BY <1>1, <1>2, <1>3, <1>4, <1>5, <1>6, <1>7, <1>8, <1>9, <1>10, <1>11, <1>12, <1>13,
     <1>14, <1>15, <1>16, <1>17, <1>18, <1>19, <1>20, <1>21, <1>22, <1>23, <1>24, <1>u,
     WhoChangesWhat

-----------------------------------------------------------------------------
(* What a step does to a place.                                            *)

\* What the managers of a place converted and may publish there.
Published(d) ==
    {f \in File : \E m \in Managers :
        /\ Home(m) = d /\ at[m] \in {"preview", "rename"}
        /\ f.id = version[m] /\ f.holds = parsed[m]}

\* What a step may write to a place: files, leases, the place itself, which
\* someone uses unless it was there and stays.
FilesOf(d, place) ==
    /\ FilesApart(place.files)
    /\ ToSet(place.files) \subseteq ToSet(disk[d].files) \cup Published(d)
LeasesOf(d, place) ==
    \A m \in place.leases \ disk[d].leases :
        /\ Home(m) = d /\ at[m] \in {"sessionLease", "lease"}
        /\ at'[m] = IF at[m] = "lease" THEN "lookup" ELSE "sessionPlace"
        /\ at[m] = "lease" => storage'[m] = "ready"
MadeBy(d, place) ==
    place.there /\ ~disk[d].there =>
        \E m \in Managers : Home(m) = d /\ at[m] \in {"stat", "sessionPlace"} /\ Alive(m)
UsedBy(d, place) ==
    \/ place = Nothing \/ disk[d].there \/ d \in Generations
    \/ \E m \in Managers : Home(m) = d /\ at[m] # "gone"

Written(d, place) ==
    FilesOf(d, place) /\ LeasesOf(d, place) /\ MadeBy(d, place) /\ UsedBy(d, place)

\* A manager's place is its generation or its own.
LEMMA HomeFacts ==
    ASSUME TypeOK
    PROVE  /\ \A m \in Managers : Home(m) \in Places
           /\ \A m \in Managers \ Persistent : Home(m) = m /\ Home(m) \notin Generations
           /\ \A m \in Persistent : Home(m) = GenerationOf[m] /\ Home(m) \in Generations
           /\ Managers \cap Generations = {}
BY OwnProcess, StoreAssumption DEF Home, Places

\* Other files in a place leave the rest of it as it was.
LEMMA FilesEdit ==
    ASSUME NEW p \in PlaceType, NEW q \in Seq(File)
    PROVE  /\ [p EXCEPT !.files = q] \in PlaceType
           /\ [p EXCEPT !.files = q].files = q
           /\ [p EXCEPT !.files = q].there = p.there
           /\ [p EXCEPT !.files = q].leases = p.leases
BY DEF PlaceType

\* So do other temporary files,
LEMMA TempsEdit ==
    ASSUME NEW p \in PlaceType, NEW S \in SUBSET Managers
    PROVE  /\ [p EXCEPT !.temps = S] \in PlaceType
           /\ [p EXCEPT !.temps = S].files = p.files
           /\ [p EXCEPT !.temps = S].there = p.there
           /\ [p EXCEPT !.temps = S].leases = p.leases
BY DEF PlaceType

\* other leases,
LEMMA LeasesEdit ==
    ASSUME NEW p \in PlaceType, NEW S \in SUBSET Managers
    PROVE  /\ [p EXCEPT !.leases = S] \in PlaceType
           /\ [p EXCEPT !.leases = S].leases = S
           /\ [p EXCEPT !.leases = S].files = p.files
           /\ [p EXCEPT !.leases = S].there = p.there
BY DEF PlaceType

\* and a place that is made.
LEMMA ThereEdit ==
    ASSUME NEW p \in PlaceType
    PROVE  /\ [p EXCEPT !.there = TRUE] \in PlaceType
           /\ [p EXCEPT !.there = TRUE].there = TRUE
           /\ [p EXCEPT !.there = TRUE].files = p.files
           /\ [p EXCEPT !.there = TRUE].leases = p.leases
BY DEF PlaceType

\* The parts of a place, and those of one that is not there.
LEMMA PlaceFacts ==
    /\ \A p \in PlaceType :
         /\ p.files \in Seq(File) /\ p.leases \in SUBSET Managers
         /\ p.temps \in SUBSET Managers /\ p.there \in BOOLEAN
    /\ Nothing \in PlaceType /\ Nothing.files = << >> /\ Nothing.leases = {}
    /\ Nothing.there = FALSE
<1>1. << >> \in Seq(File)
  BY EmptySeq
<1> QED BY <1>1 DEF PlaceType, Nothing

\* A place keeps its files when they are edited.
LEMMA OwnWrites ==
    ASSUME TypeOK, NEW m \in Managers, at[m] # "gone", NEW q \in Seq(File), FilesApart(q),
           ToSet(q) \subseteq ToSet(Here(m).files) \cup Published(Home(m)), Own(m, q)
    PROVE  \E d \in Places, p \in PlaceType : Put(d, p) /\ Written(d, p)
<1>1. Home(m) \in Places /\ Here(m) \in PlaceType /\ Here(m) = disk[Home(m)]
  BY HomeFacts DEF TypeOK, Here
<1> DEFINE p == [Here(m) EXCEPT !.files = q]
<1>2. /\ p \in PlaceType /\ p.files = q
      /\ p.there = Here(m).there /\ p.leases = Here(m).leases
  BY <1>1, FilesEdit
<1>3. Put(Home(m), p)
  BY DEF Own
<1> HIDE DEF p
<1>4. Written(Home(m), p)
  BY <1>1, <1>2 DEF Written, FilesOf, LeasesOf, MadeBy, UsedBy
<1> QED BY <1>1, <1>2, <1>3, <1>4

\* The files of a place stay when something else of it is written.
LEMMA OtherWrites ==
    ASSUME TypeOK, NamesHold, NEW d \in Places, NEW p \in PlaceType, Put(d, p),
           p.files = disk[d].files,
           LeasesOf(d, p), MadeBy(d, p), UsedBy(d, p)
    PROVE  \E e \in Places, q \in PlaceType : Put(e, q) /\ Written(e, q)
BY DEF Written, FilesOf, NamesHold

\* Whoever removes a place removes it, or leaves part of it and knows.
LEMMA RemovalWrites ==
    ASSUME TypeOK, NamesHold, NEW m \in Managers, NEW d \in Places, RemoveAll(m, d)
    PROVE  /\ \E p \in PlaceType : Put(d, p) /\ Written(d, p)
           /\ \/ Put(d, Nothing) /\ spared' = spared
              \/ Spare(m, {d})
<1>1. disk[d] \in PlaceType /\ FilesApart(disk[d].files)
  BY DEF TypeOK, NamesHold
<1>2. CASE Put(d, Nothing) /\ UNCHANGED spared
  <2>1. FilesApart(<< >>) /\ ToSet(<< >>) = {}
    BY DEF FilesApart, ToSet
  <2>2. Written(d, Nothing)
    BY <2>1, PlaceFacts DEF Written, FilesOf, LeasesOf, MadeBy, UsedBy
  <2> QED BY <1>2, <2>2, PlaceFacts
<1>3. ASSUME NEW remnant \in Remnants(disk[d]), Put(d, remnant),
             disk[d].there, Spare(m, {d})
      PROVE  (\E p \in PlaceType : Put(d, p) /\ Written(d, p)) /\ Spare(m, {d})
  <2>1. /\ remnant.there = TRUE /\ remnant.leases \subseteq disk[d].leases
        /\ remnant.files \in Parts(disk[d].files)
        /\ remnant.temps \subseteq disk[d].temps
        /\ remnant = [there |-> remnant.there, leases |-> remnant.leases,
                       files |-> remnant.files, temps |-> remnant.temps]
    BY DEF Remnants
  <2>2. /\ remnant.files \in Seq(File) /\ FilesApart(remnant.files)
        /\ ToSet(remnant.files) \subseteq ToSet(disk[d].files)
    BY <1>1, <2>1, PlaceFacts, PartsFacts
  <2>3. remnant \in PlaceType
    BY <1>1, <2>1, <2>2, PlaceFacts DEF PlaceType
  <2>4. Written(d, remnant)
    BY <1>3, <2>1, <2>2 DEF Written, FilesOf, LeasesOf, MadeBy, UsedBy
  <2> QED BY <1>3, <2>3, <2>4
<1> QED BY <1>2, <1>3 DEF RemoveAll

\* Every step writes one place at most.
LEMMA DiskSteps ==
    ASSUME TypeOK, StorageHolds, CallersHold, NamesHold, [Next]_vars
    PROVE  \/ disk' = disk
           \/ \E d \in Places, p \in PlaceType : Put(d, p) /\ Written(d, p)
<1> DEFINE Goal == \/ disk' = disk
                   \/ \E d \in Places, p \in PlaceType : Put(d, p) /\ Written(d, p)
<1>h. ASSUME NEW m \in Managers
      PROVE  /\ Home(m) \in Places /\ Here(m) = disk[Home(m)] /\ Here(m) \in PlaceType
             /\ Here(m).files \in Seq(File) /\ FilesApart(Here(m).files)
             /\ Here(m).leases \in SUBSET Managers /\ Here(m).temps \in SUBSET Managers
  <2>1. Home(m) \in Places /\ Here(m) = disk[Home(m)]
    BY HomeFacts DEF Here
  <2>2. disk[Home(m)] \in PlaceType /\ FilesApart(disk[Home(m)].files)
    BY <2>1 DEF TypeOK, NamesHold
  <2> QED BY <2>1, <2>2, PlaceFacts
<1>f. ASSUME NEW m \in Managers, NEW S \in SUBSET Managers, at[m] # "gone", Temporary(m, S)
      PROVE  Goal
  <2>1. /\ [Here(m) EXCEPT !.temps = S] \in PlaceType
        /\ [Here(m) EXCEPT !.temps = S].files = Here(m).files
        /\ [Here(m) EXCEPT !.temps = S].leases = Here(m).leases
        /\ [Here(m) EXCEPT !.temps = S].there = Here(m).there
    BY <1>h, TempsEdit
  <2> QED BY <1>f, <1>h, <2>1, OtherWrites DEF Temporary, LeasesOf, MadeBy, UsedBy
<1>g. ASSUME NEW d \in Places, NEW S \in SUBSET disk[d].leases, Leases(d, S),
             d \in Generations \/ \E m \in Managers : Home(m) = d /\ at[m] # "gone"
      PROVE  Goal
  <2>1. disk[d] \in PlaceType /\ S \in SUBSET Managers
    BY PlaceFacts DEF TypeOK
  <2>2. /\ [disk[d] EXCEPT !.leases = S] \in PlaceType
        /\ [disk[d] EXCEPT !.leases = S].files = disk[d].files
        /\ [disk[d] EXCEPT !.leases = S].leases = S
        /\ [disk[d] EXCEPT !.leases = S].there = disk[d].there
    BY <2>1, LeasesEdit
  <2> QED BY <1>g, <2>2, OtherWrites DEF Leases, LeasesOf, MadeBy, UsedBy
<1>t. ASSUME NEW m \in Managers, at[m] \in {"stat", "sessionPlace"}, Alive(m),
             Put(Home(m), [Here(m) EXCEPT !.there = TRUE])
      PROVE  Goal
  <2>1. /\ [Here(m) EXCEPT !.there = TRUE] \in PlaceType
        /\ [Here(m) EXCEPT !.there = TRUE].files = Here(m).files
        /\ [Here(m) EXCEPT !.there = TRUE].leases = Here(m).leases
    BY <1>h, ThereEdit
  <2>2. Home(m) \in Places /\ Here(m) = disk[Home(m)]
    BY <1>h
  <2> QED BY <1>t, <2>1, <2>2, OtherWrites DEF LeasesOf, MadeBy, UsedBy
<1>l. ASSUME NEW m \in Managers, NEW next, TakeLease(m, next),
             \/ at[m] = "sessionLease" /\ next = <<"making", "sessionPlace">>
             \/ at[m] = "lease" /\ next = <<"ready", "lookup">>
      PROVE  Goal
  <2> DEFINE S == Here(m).leases \cup {m}
  <2>1. CASE Here(m).there /\ Leases(Home(m), S) /\ Go(m, next[2])
             /\ storage' = [storage EXCEPT ![m] = next[1]]
    <3>1. /\ [disk[Home(m)] EXCEPT !.leases = S] \in PlaceType
          /\ [disk[Home(m)] EXCEPT !.leases = S].files = Here(m).files
          /\ [disk[Home(m)] EXCEPT !.leases = S].leases = S
          /\ [disk[Home(m)] EXCEPT !.leases = S].there = Here(m).there
      <4>1. S \in SUBSET Managers
        BY <1>h
      <4> HIDE DEF S
      <4> QED BY SMTT(30), <4>1, <1>h, LeasesEdit
    <3>2. /\ Put(Home(m), [disk[Home(m)] EXCEPT !.leases = S])
          /\ at'[m] = next[2] /\ storage'[m] = next[1]
      BY <2>1 DEF Leases, Go, TypeOK
    <3>3. Home(m) \in Places /\ Here(m) = disk[Home(m)]
      BY <1>h
    <3> DEFINE p == [disk[Home(m)] EXCEPT !.leases = S]
    <3> HIDE DEF p
    <3>4. LeasesOf(Home(m), p) /\ MadeBy(Home(m), p) /\ UsedBy(Home(m), p)
      <4>1. p.leases = S /\ p.there = disk[Home(m)].there
        BY <3>1, <3>3 DEF p
      <4> QED BY <1>l, <3>2, <3>3, <4>1 DEF LeasesOf, MadeBy, UsedBy
    <3> QED BY <3>1, <3>2, <3>3, <3>4, OtherWrites DEF p
  <2>2. CASE disk' = disk
    BY <2>2
  <2> QED BY <1>l, <2>1, <2>2 DEF TakeLease
<1>1. ASSUME NEW m \in Managers, NEW id \in Versions, Release(m, id) PROVE Goal
  <2>1. ~disposed[m] /\ at[m] # "gone"
    BY <1>1 DEF Release, CallersHold, StorageHolds
  <2>2. CASE m \in Persistent
    BY <1>1, <2>2 DEF Release
  <2>3. CASE m \notin Persistent
    <3>1. disk[m] = Here(m)
      BY <2>3, <1>h, HomeFacts
    <3>2. PICK kinds \in Done({"cache", "preview"}) :
            Own(m, WithoutCache(Here(m).files, kinds, id))
      BY <1>1, <2>3, <3>1 DEF Release
    <3>3. kinds \in SUBSET {"cache", "preview"}
      BY FaultlessFacts
    <3> QED BY <1>h, <2>1, <3>2, <3>3, OwnWrites, WithoutCacheFacts
  <2> QED BY <2>2, <2>3
<1>2. ASSUME NEW m \in Managers, Stat(m) PROVE Goal
  <2>1. at[m] = "stat" /\ Alive(m)
    BY <1>2 DEF Stat, In
  <2>2. \/ disk' = disk \/ Put(Home(m), [Here(m) EXCEPT !.there = TRUE])
    BY <1>2 DEF Stat
  <2> QED BY <2>1, <2>2, <1>t
<1>3. ASSUME NEW m \in Managers, SessionLease(m) PROVE Goal
  BY <1>3, <1>l DEF SessionLease, In
<1>4. ASSUME NEW m \in Managers, SessionPlace(m) PROVE Goal
  <2>1. at[m] = "sessionPlace" /\ Alive(m) /\ m \notin Persistent
    BY <1>4 DEF SessionPlace, In, StorageHolds
  <2>2. Home(m) = m /\ Here(m) = disk[m]
    BY <2>1, <1>h, HomeFacts
  <2> QED BY <1>4, <2>1, <2>2, <1>t DEF SessionPlace
<1>5. ASSUME NEW m \in Managers, PlaceLease(m) PROVE Goal
  BY <1>5, <1>l DEF PlaceLease, In
<1>6. ASSUME NEW m \in Managers, Reuse(m) PROVE Goal
  BY <1>6, <1>h, OwnWrites, TouchedFacts DEF Reuse, In
<1>7. ASSUME NEW m \in Managers, NEW force \in BOOLEAN, MustConvert(m, force)
      PROVE  Goal
  <2> DEFINE rest == IF force THEN Without(Here(m).files, "cache", Id(m)) ELSE Here(m).files
  <2>1. rest \in Seq(File) /\ FilesApart(rest) /\ ToSet(rest) \subseteq ToSet(Here(m).files)
    BY <1>h, WithoutFacts
  <2>2. at[m] # "gone" /\ (Own(m, rest) \/ Own(m, Touched(rest, "preview", Id(m))))
    BY <1>7 DEF MustConvert, In
  <2> HIDE DEF rest
  <2> QED BY <2>1, <2>2, OwnWrites, TouchedFacts
<1>8. ASSUME NEW m \in Managers, Parse(m) PROVE Goal
  BY <1>8, <1>h, <1>f DEF Parse
<1>9. ASSUME NEW m \in Managers, ConversionFails(m) PROVE Goal
  BY <1>9, <1>h, <1>f DEF ConversionFails
<1>10. ASSUME NEW m \in Managers, NEW kind \in {"cache", "preview"},
              at[m] \in {"preview", "rename"}
       PROVE  LET f == [kind |-> kind, id |-> Id(m), holds |-> parsed[m]]
                  q == Stored(Here(m).files, f)
              IN  /\ q \in Seq(File) /\ FilesApart(q)
                  /\ ToSet(q) \subseteq ToSet(Here(m).files) \cup Published(Home(m))
  <2> DEFINE f == [kind |-> kind, id |-> Id(m), holds |-> parsed[m]]
  <2>1. f \in File /\ f.id = version[m] /\ f.holds = parsed[m]
    BY DEF Id, TypeOK, File
  <2> HIDE DEF f
  <2>2. f \in Published(Home(m))
    BY <1>10, <2>1 DEF Published
  <2>3. /\ Stored(Here(m).files, f) \in Seq(File) /\ FilesApart(Stored(Here(m).files, f))
        /\ ToSet(Stored(Here(m).files, f)) \subseteq ToSet(Here(m).files) \cup {f}
    BY <1>h, <2>1, StoredFacts
  <2> QED BY <2>2, <2>3 DEF f
<1>11. ASSUME NEW m \in Managers, CommitPreview(m) PROVE Goal
  BY <1>11, <1>h, <1>10, OwnWrites DEF CommitPreview, In
<1>12. ASSUME NEW m \in Managers, Recheck(m) PROVE Goal
  BY <1>12, <1>h, <1>f DEF Recheck, In
<1>13. ASSUME NEW m \in Managers, Commit(m) PROVE Goal
  <2> DEFINE f == [kind |-> "cache", id |-> Id(m), holds |-> parsed[m]]
             q == Stored(Here(m).files, f)
             p == [Here(m) EXCEPT !.files = q, !.temps = Here(m).temps \ {m}]
  <2>1. at[m] = "rename"
    BY <1>13 DEF Commit, In
  <2>2. /\ q \in Seq(File) /\ FilesApart(q)
        /\ ToSet(q) \subseteq ToSet(Here(m).files) \cup Published(Home(m))
    BY <1>10, <2>1
  <2>3. disk' = disk \/ Put(Home(m), p)
    BY <1>13 DEF Commit
  <2> HIDE DEF q
  <2>4. /\ p \in PlaceType /\ p.files = q
        /\ p.there = Here(m).there /\ p.leases = Here(m).leases
    <3>1. Here(m) \in PlaceType /\ Here(m).temps \ {m} \in SUBSET Managers
      BY <1>h
    <3> QED BY <3>1, <2>2 DEF PlaceType
  <2> HIDE DEF p
  <2>5. Written(Home(m), p)
    BY <1>h, <2>1, <2>2, <2>4 DEF Written, FilesOf, LeasesOf, MadeBy, UsedBy
  <2> QED BY <1>h, <2>3, <2>4, <2>5
<1>14. ASSUME NEW m \in Managers, Reread(m) PROVE Goal
  BY <1>14, <1>h, OwnWrites, TouchedFacts DEF Reread, In
<1>15. ASSUME NEW m \in Managers, NEW d \in Places, Inspect(m, d) PROVE Goal
  <2>1. PICK found \in BOOLEAN : FindsFresh(d, found)
    BY <1>15 DEF Inspect
  <2> QED BY <2>1, <1>g, FindsFreshFacts
<1>16. ASSUME NEW m \in Managers, RemovePlace(m) PROVE Goal
  <2>1. doomed[m] \in Places /\ RemoveAll(m, doomed[m])
    BY <1>16 DEF RemovePlace, TypeOK
  <2> QED BY <2>1, RemovalWrites
<1>17. ASSUME NEW m \in Managers, CheckOwn(m) PROVE Goal
  <2>1. PICK found \in BOOLEAN : FindsFresh(Home(m), found)
    BY <1>17 DEF CheckOwn
  <2> QED BY <2>1, <1>h, <1>g, FindsFreshFacts
<1>18. ASSUME NEW m \in Managers, Evict(m) PROVE Goal
  <2>1. PICK kinds \in Done({"cache", "preview"}) :
          Own(m, WithoutCache(Here(m).files, kinds, Head(victims[m])))
    BY <1>18 DEF Evict
  <2>2. kinds \in SUBSET {"cache", "preview"} /\ at[m] # "gone"
    BY <1>18, FaultlessFacts DEF Evict, In
  <2> QED BY <1>h, <2>1, <2>2, OwnWrites, WithoutCacheFacts
<1>19. ASSUME NEW m \in Managers, DropLease(m) PROVE Goal
  <2>1. \E gone \in Done({m}) : Leases(Home(m), Here(m).leases \ gone)
    BY <1>19 DEF DropLease
  <2> QED BY <1>19, <2>1, <1>h, <1>g DEF DropLease, Settled
<1>20. ASSUME NEW m \in Managers, RemoveRoot(m) PROVE Goal
  <2>1. m \in Places /\ RemoveAll(m, m)
    BY <1>20 DEF RemoveRoot, Places
  <2> QED BY <2>1, RemovalWrites
<1> QED
  BY <1>1, <1>2, <1>3, <1>4, <1>5, <1>6, <1>7, <1>8, <1>9, <1>11, <1>12, <1>13, <1>14,
     <1>15, <1>16, <1>17, <1>18, <1>19, <1>20, WhoChangesWhat

\* What a step leaves of every place.
LEMMA PlacesChange ==
    ASSUME TypeOK, StorageHolds, CallersHold, NamesHold, [Next]_vars
    PROVE  /\ disk' \in [Places -> PlaceType]
           /\ \A d \in Places : disk'[d] = disk[d] \/ Written(d, disk'[d])
<1>1. disk \in [Places -> PlaceType]
  BY DEF TypeOK
<1>2. CASE disk' = disk
  BY <1>1, <1>2
<1>3. ASSUME NEW d \in Places, NEW p \in PlaceType, Put(d, p), Written(d, p)
      PROVE  /\ disk' \in [Places -> PlaceType]
             /\ \A e \in Places : disk'[e] = disk[e] \/ Written(e, disk'[e])
  <2>1. disk' = [disk EXCEPT ![d] = p]
    BY <1>3 DEF Put
  <2>2. disk' \in [Places -> PlaceType] /\ disk'[d] = p
        /\ \A e \in Places \ {d} : disk'[e] = disk[e]
    BY <1>1, <2>1
  <2> QED BY <1>3, <2>2
<1> QED BY <1>2, <1>3, DiskSteps

\* The files of every place keep different names.
LEMMA NamesStep ==
    ASSUME TypeOK, StorageHolds, CallersHold, NamesHold, [Next]_vars
    PROVE  NamesHold'
<1>1. \A d \in Places : FilesApart(disk'[d].files)
  BY PlacesChange DEF NamesHold, Written, FilesOf
<1> QED BY <1>1 DEF NamesHold, FilesApart

\* What is published was converted from the version it is named after.
LEMMA CacheStep ==
    ASSUME TypeOK, StorageHolds, CallersHold, NamesHold, VersionsHold,
           CacheMatchesSource, [Next]_vars
    PROVE  CacheMatchesSource'
<1>1. ASSUME NEW d \in Places, NEW f \in ToSet(disk'[d].files)
      PROVE  f.holds = f.id
  <2>1. f \in ToSet(disk[d].files) \cup Published(d)
    BY <1>1, PlacesChange DEF Written, FilesOf
  <2>2. CASE f \in Published(d)
    BY <2>2 DEF Published, VersionsHold
  <2> QED BY <2>1, <2>2 DEF CacheMatchesSource
<1> QED BY <1>1 DEF CacheMatchesSource, ToSet

\* Expired leases are those of dead processes.
LEMMA DeadStep ==
    ASSUME TypeOK, DeadExpire, [Next]_vars
    PROVE  DeadExpire'
<1>1. ASSUME NEW m \in Managers, Expire(m) PROVE DeadExpire'
  BY <1>1 DEF Expire, DeadExpire, Alive, ProcessOf
<1>2. ASSUME NEW p \in Processes, Crash(p) PROVE DeadExpire'
  BY <1>2 DEF Crash, DeadExpire, Alive, ProcessOf
<1>3. CASE UNCHANGED <<alive, expired>>
  BY <1>3, WhoChangesWhat DEF DeadExpire, Alive, ProcessOf
<1> QED BY <1>1, <1>2, <1>3, WhoChangesWhat

\* The steps of a manager that matter for its lease and for the bound.
Moved(n) ==
    /\ at[n] \in Leased /\ storage[n] = "ready" =>
         \/ at'[n] \in Leased /\ storage'[n] = "ready"
         \/ DropLease(n)
    /\ at'[n] = "gone" /\ at[n] # "gone" =>
         \/ RemoveRoot(n)
         \/ n \in Persistent /\ \/ storage[n] # "ready" \/ setting.faults # {}
                                \/ EndEviction(n)
                                \/ CheckOwn(n) /\ FreshLeases(Home(n)) # {}
    /\ at'[n] = "evict" =>
         \/ ListOwn(n) \/ Evict(n)
         \/ at[n] = "evict" /\ victims'[n] = victims[n]
    /\ storage[n] = "ready" => storage'[n] = "ready"
    /\ storage'[n] = "ready" /\ storage[n] # "ready" /\ n \in Persistent => PlaceLease(n)

\* Every step is such a step for every manager.
LEMMA Moves ==
    ASSUME TypeOK, StorageHolds, [Next]_vars
    PROVE  \A n \in Managers : Moved(n)
<1>1. ASSUME NEW m \in Managers, Prepare(m) PROVE \A n \in Managers : Moved(n)
  <2>1. \A n \in Managers \ {m} :
          at'[n] = at[n] /\ storage'[n] = storage[n] /\ victims'[n] = victims[n]
    BY <1>1 DEF Prepare, In, Go, TypeOK
  <2>2. Moved(m)
    BY <1>1
      DEF Prepare, In, Go, Moved, Leased, Working, Maintaining, StorageHolds, TypeOK
  <2> QED BY <2>1, <2>2 DEF Moved
<1>2. ASSUME NEW m \in Managers, OpenReader(m) PROVE \A n \in Managers : Moved(n)
  <2>1. \A n \in Managers \ {m} :
          at'[n] = at[n] /\ storage'[n] = storage[n] /\ victims'[n] = victims[n]
    BY <1>2 DEF OpenReader, In, Go, Aside, TypeOK
  <2>2. Moved(m)
    BY <1>2
      DEF OpenReader, In, Go, Aside, Moved, Leased, Working, Maintaining,
          StorageHolds, TypeOK
  <2> QED BY <2>1, <2>2 DEF Moved
<1>3. ASSUME NEW m \in Managers, Stat(m) PROVE \A n \in Managers : Moved(n)
  <2>1. \A n \in Managers \ {m} :
          at'[n] = at[n] /\ storage'[n] = storage[n] /\ victims'[n] = victims[n]
    BY <1>3 DEF Stat, In, Go, TypeOK
  <2>2. Moved(m)
    BY <1>3 DEF Stat, In, Go, Moved, Leased, Working, Maintaining, StorageHolds, TypeOK
  <2> QED BY <2>1, <2>2 DEF Moved
<1>4. ASSUME NEW m \in Managers, SessionLease(m) PROVE \A n \in Managers : Moved(n)
  <2>1. \A n \in Managers \ {m} :
          at'[n] = at[n] /\ storage'[n] = storage[n] /\ victims'[n] = victims[n]
    BY <1>4 DEF SessionLease, In, Go, TakeLease, Leases, TypeOK
  <2>2. Moved(m)
    BY <1>4
      DEF SessionLease, In, Go, TakeLease, Leases, Moved, Leased, Working,
          Maintaining, StorageHolds, TypeOK
  <2> QED BY <2>1, <2>2 DEF Moved
<1>5. ASSUME NEW m \in Managers, SessionPlace(m) PROVE \A n \in Managers : Moved(n)
  <2>1. \A n \in Managers \ {m} :
          at'[n] = at[n] /\ storage'[n] = storage[n] /\ victims'[n] = victims[n]
    BY <1>5 DEF SessionPlace, In, Go, TypeOK
  <2>2. Moved(m)
    BY <1>5
      DEF SessionPlace, In, Go, Moved, Leased, Working, Maintaining, StorageHolds,
          TypeOK
  <2> QED BY <2>1, <2>2 DEF Moved
<1>6. ASSUME NEW m \in Managers, PlaceLease(m) PROVE \A n \in Managers : Moved(n)
  <2>1. \A n \in Managers \ {m} :
          at'[n] = at[n] /\ storage'[n] = storage[n] /\ victims'[n] = victims[n]
    BY <1>6 DEF PlaceLease, In, Go, TakeLease, Leases, TypeOK
  <2>2. Moved(m)
    BY <1>6
      DEF PlaceLease, In, Go, TakeLease, Leases, Moved, Leased, Working, Maintaining,
          StorageHolds, TypeOK
  <2> QED BY <2>1, <2>2 DEF Moved
<1>7. ASSUME NEW m \in Managers, Reuse(m) PROVE \A n \in Managers : Moved(n)
  <2>1. \A n \in Managers \ {m} :
          at'[n] = at[n] /\ storage'[n] = storage[n] /\ victims'[n] = victims[n]
    BY <1>7 DEF Reuse, In, Go, Aside, Own, TypeOK
  <2>2. Moved(m)
    BY <1>7
      DEF Reuse, In, Go, Aside, Own, Moved, Leased, Working, Maintaining,
          StorageHolds, TypeOK
  <2> QED BY <2>1, <2>2 DEF Moved
<1>8. ASSUME NEW m \in Managers, NEW force \in BOOLEAN, MustConvert(m, force)
      PROVE  \A n \in Managers : Moved(n)
  <2>1. \A n \in Managers \ {m} :
          at'[n] = at[n] /\ storage'[n] = storage[n] /\ victims'[n] = victims[n]
    BY <1>8 DEF MustConvert, In, Go, Aside, Own, TypeOK
  <2>2. Moved(m)
    BY <1>8
      DEF MustConvert, In, Go, Aside, Own, Moved, Leased, Working, Maintaining,
          StorageHolds, TypeOK
  <2> QED BY <2>1, <2>2 DEF Moved
<1>9. ASSUME NEW m \in Managers, Parse(m) PROVE \A n \in Managers : Moved(n)
  <2>1. \A n \in Managers \ {m} :
          at'[n] = at[n] /\ storage'[n] = storage[n] /\ victims'[n] = victims[n]
    BY <1>9 DEF Parse, Go, Aside, Temporary, TypeOK
  <2>2. Moved(m)
    BY <1>9
      DEF Parse, Go, Aside, Temporary, Moved, Leased, Working, Maintaining,
          StorageHolds, TypeOK
  <2> QED BY <2>1, <2>2 DEF Moved
<1>10. ASSUME NEW m \in Managers, ConversionFails(m)
       PROVE  \A n \in Managers : Moved(n)
  <2>1. \A n \in Managers \ {m} :
          at'[n] = at[n] /\ storage'[n] = storage[n] /\ victims'[n] = victims[n]
    BY <1>10 DEF ConversionFails, Go, Aside, Temporary, TypeOK
  <2>2. Moved(m)
    BY <1>10
      DEF ConversionFails, Go, Aside, Temporary, Moved, Leased, Working, Maintaining,
          StorageHolds, TypeOK
  <2> QED BY <2>1, <2>2 DEF Moved
<1>11. ASSUME NEW m \in Managers, CheckPreview(m) PROVE \A n \in Managers : Moved(n)
  <2>1. \A n \in Managers \ {m} :
          at'[n] = at[n] /\ storage'[n] = storage[n] /\ victims'[n] = victims[n]
    BY <1>11 DEF CheckPreview, In, Go, Aside, TypeOK
  <2>2. Moved(m)
    BY <1>11
      DEF CheckPreview, In, Go, Aside, Moved, Leased, Working, Maintaining,
          StorageHolds, TypeOK
  <2> QED BY <2>1, <2>2 DEF Moved
<1>12. ASSUME NEW m \in Managers, CommitPreview(m)
       PROVE  \A n \in Managers : Moved(n)
  <2>1. \A n \in Managers \ {m} :
          at'[n] = at[n] /\ storage'[n] = storage[n] /\ victims'[n] = victims[n]
    BY <1>12 DEF CommitPreview, In, Go, Aside, Own, TypeOK
  <2>2. Moved(m)
    BY <1>12
      DEF CommitPreview, In, Go, Aside, Own, Moved, Leased, Working, Maintaining,
          StorageHolds, TypeOK
  <2> QED BY <2>1, <2>2 DEF Moved
<1>13. ASSUME NEW m \in Managers, Recheck(m) PROVE \A n \in Managers : Moved(n)
  <2>1. \A n \in Managers \ {m} :
          at'[n] = at[n] /\ storage'[n] = storage[n] /\ victims'[n] = victims[n]
    BY <1>13 DEF Recheck, In, Go, Aside, Temporary, TypeOK
  <2>2. Moved(m)
    BY <1>13
      DEF Recheck, In, Go, Aside, Temporary, Moved, Leased, Working, Maintaining,
          StorageHolds, TypeOK
  <2> QED BY <2>1, <2>2 DEF Moved
<1>14. ASSUME NEW m \in Managers, Commit(m) PROVE \A n \in Managers : Moved(n)
  <2>1. \A n \in Managers \ {m} :
          at'[n] = at[n] /\ storage'[n] = storage[n] /\ victims'[n] = victims[n]
    BY <1>14 DEF Commit, In, Go, Aside, TypeOK
  <2>2. Moved(m)
    BY <1>14
      DEF Commit, In, Go, Aside, Moved, Leased, Working, Maintaining, StorageHolds,
          TypeOK
  <2> QED BY <2>1, <2>2 DEF Moved
<1>15. ASSUME NEW m \in Managers, Reread(m) PROVE \A n \in Managers : Moved(n)
  <2>1. \A n \in Managers \ {m} :
          at'[n] = at[n] /\ storage'[n] = storage[n] /\ victims'[n] = victims[n]
    BY <1>15 DEF Reread, In, Go, Aside, Own, TypeOK
  <2>2. Moved(m)
    BY <1>15
      DEF Reread, In, Go, Aside, Own, Moved, Leased, Working, Maintaining,
          StorageHolds, TypeOK
  <2> QED BY <2>1, <2>2 DEF Moved
<1>16. ASSUME NEW m \in Managers, BeginMaintenance(m)
       PROVE  \A n \in Managers : Moved(n)
  <2>1. \A n \in Managers \ {m} :
          at'[n] = at[n] /\ storage'[n] = storage[n] /\ victims'[n] = victims[n]
    BY <1>16 DEF BeginMaintenance, In, Go, TypeOK
  <2>2. Moved(m)
    BY <1>16
      DEF BeginMaintenance, In, Go, Moved, Leased, Working, Maintaining,
          StorageHolds, TypeOK
  <2> QED BY <2>1, <2>2 DEF Moved
<1>17. ASSUME NEW m \in Managers, NextSweep(m) PROVE \A n \in Managers : Moved(n)
  <2>1. \A n \in Managers \ {m} :
          at'[n] = at[n] /\ storage'[n] = storage[n] /\ victims'[n] = victims[n]
    BY <1>17, SweepOutcomes DEF NextSweep, Go, Leave, TypeOK
  <2>2. Moved(m)
    BY <1>17, SweepOutcomes
      DEF NextSweep, Go, Leave, Moved, Leased, Working, Maintaining, StorageHolds,
          TypeOK
  <2> QED BY <2>1, <2>2 DEF Moved
<1>18. ASSUME NEW m \in Managers, CheckOwn(m) PROVE \A n \in Managers : Moved(n)
  <2>1. \A n \in Managers \ {m} :
          at'[n] = at[n] /\ storage'[n] = storage[n] /\ victims'[n] = victims[n]
    BY <1>18 DEF CheckOwn, Go, AfterMaintenance, TypeOK
  <2>2. \/ at' = [at EXCEPT ![m] = "list"]
        \/ /\ at' = [at EXCEPT ![m] = IF storage[m] = "ready" THEN "gone" ELSE "lease"]
           /\ setting.faults = {} => FreshLeases(Home(m)) # {}
    BY <1>18, FindsFreshFacts DEF CheckOwn, Go, AfterMaintenance
  <2>3. at[m] = "check" /\ m \in Persistent /\ UNCHANGED <<storage, victims>>
    BY <1>18 DEF CheckOwn, In, StorageHolds
  <2>4. Moved(m)
    BY <1>18, <2>2, <2>3 DEF Moved, Leased, Working, TypeOK
  <2> QED BY <2>1, <2>4 DEF Moved
<1>19. ASSUME NEW m \in Managers, ListOwn(m) PROVE \A n \in Managers : Moved(n)
  <2>1. \A n \in Managers \ {m} :
          at'[n] = at[n] /\ storage'[n] = storage[n] /\ victims'[n] = victims[n]
    BY <1>19 DEF ListOwn, In, Go, TypeOK
  <2>2. Moved(m)
    BY <1>19
      DEF ListOwn, In, Go, Moved, Leased, Working, Maintaining, StorageHolds, TypeOK
  <2> QED BY <2>1, <2>2 DEF Moved
<1>20. ASSUME NEW m \in Managers, Evict(m) PROVE \A n \in Managers : Moved(n)
  <2>1. \A n \in Managers \ {m} :
          at'[n] = at[n] /\ storage'[n] = storage[n] /\ victims'[n] = victims[n]
    BY <1>20 DEF Evict, In, Own, TypeOK
  <2>2. Moved(m)
    BY <1>20
      DEF Evict, In, Own, Moved, Leased, Working, Maintaining, StorageHolds, TypeOK
  <2> QED BY <2>1, <2>2 DEF Moved
<1>21. ASSUME NEW m \in Managers, EndEviction(m) PROVE \A n \in Managers : Moved(n)
  <2>1. \A n \in Managers \ {m} :
          at'[n] = at[n] /\ storage'[n] = storage[n] /\ victims'[n] = victims[n]
    BY <1>21 DEF EndEviction, In, Go, Leave, AfterMaintenance, TypeOK
  <2>2. Moved(m)
    BY <1>21
      DEF EndEviction, In, Go, Leave, AfterMaintenance, Moved, Leased, Working,
          Maintaining, StorageHolds, TypeOK
  <2> QED BY <2>1, <2>2 DEF Moved
<1>22. ASSUME NEW m \in Managers, MaintenanceFails(m)
       PROVE  \A n \in Managers : Moved(n)
  <2>1. \A n \in Managers \ {m} :
          at'[n] = at[n] /\ storage'[n] = storage[n] /\ victims'[n] = victims[n]
    BY <1>22 DEF MaintenanceFails, Go, Leave, TypeOK
  <2>2. Moved(m)
    BY <1>22
      DEF MaintenanceFails, MayFail, Go, Leave, Moved, Leased, Working, Maintaining,
          StorageHolds, TypeOK
  <2> QED BY <2>1, <2>2 DEF Moved
<1>23. ASSUME NEW m \in Managers, DropLease(m) PROVE \A n \in Managers : Moved(n)
  <2>1. \A n \in Managers \ {m} :
          at'[n] = at[n] /\ storage'[n] = storage[n] /\ victims'[n] = victims[n]
    BY <1>23 DEF DropLease, Go, Leases, TypeOK
  <2>2. Moved(m)
    <3>1. /\ disposed[m] /\ at[m] \in {"idle", "prepared"} /\ storage' = storage
          /\ \/ at' = [at EXCEPT ![m] = "queued"]
             \/ m \notin Persistent /\ at' = [at EXCEPT ![m] = "removeRoot"]
             \/ m \in Persistent /\ storage[m] # "ready" /\ at' = [at EXCEPT ![m] = "gone"]
      BY <1>23 DEF DropLease, Settled, Go
    <3> QED BY <1>23, <3>1 DEF Moved, TypeOK
  <2> QED BY <2>1, <2>2 DEF Moved
<1>24. ASSUME NEW m \in Managers, RemoveRoot(m) PROVE \A n \in Managers : Moved(n)
  <2>1. \A n \in Managers \ {m} :
          at'[n] = at[n] /\ storage'[n] = storage[n] /\ victims'[n] = victims[n]
    BY <1>24 DEF RemoveRoot, In, Go, TypeOK
  <2>2. Moved(m)
    BY <1>24
      DEF RemoveRoot, In, Go, Moved, Leased, Working, Maintaining,
          StorageHolds, TypeOK
  <2> QED BY <2>1, <2>2 DEF Moved
<1>u. CASE UNCHANGED <<at, storage, victims>>
  BY <1>u DEF Moved
<1> QED
  BY <1>1, <1>2, <1>3, <1>4, <1>5, <1>6, <1>7, <1>8, <1>9, <1>10, <1>11, <1>12, <1>13,
     <1>14, <1>15, <1>16, <1>17, <1>18, <1>19, <1>20, <1>21, <1>22, <1>23, <1>24, <1>u,
     WhoChangesWhat

\* Without faults a lease stays as long as its manager works, and no longer.
LEMMA LeasesStep ==
    ASSUME TypeOK, StorageHolds, CallersHold, NamesHold, LeasesHold, [Next]_vars
    PROVE  LeasesHold'
<1>1. setting' = setting
  BY WhoChangesWhat
<1>2. ASSUME NEW g \in Generations, NEW m \in disk'[g].leases
      PROVE  /\ m \in Persistent /\ GenerationOf[m] = g
             /\ setting.faults = {} => storage'[m] = "ready" /\ at'[m] \in Leased
  <2>1. g \in Places /\ g \notin Managers
    BY HomeFacts DEF Places
  <2>2. m \in Managers
    BY <2>1, PlacesChange, PlaceFacts
  <2>3. CASE m \in disk[g].leases
    <3>1. /\ m \in Persistent /\ GenerationOf[m] = g
          /\ setting.faults = {} => storage[m] = "ready" /\ at[m] \in Leased
      BY <2>3 DEF LeasesHold
    <3>2. ASSUME setting.faults = {}, DropLease(m) PROVE FALSE
      <4>1. Home(m) = g /\ disk[g] \in PlaceType
        BY <2>1, <3>1, HomeFacts DEF TypeOK
      <4>2. Put(g, [disk[g] EXCEPT !.leases = disk[g].leases \ {m}])
        <5>1. Done({m}) = {{m}}
          BY <3>2, FaultlessFacts
        <5> QED BY <3>2, <4>1, <5>1 DEF DropLease, Leases, Here
      <4>3. disk'[g] = [disk[g] EXCEPT !.leases = disk[g].leases \ {m}]
        BY <2>1, <4>2 DEF Put, TypeOK
      <4>4. disk'[g].leases = disk[g].leases \ {m}
        BY <4>1, <4>3, LeasesEdit, PlaceFacts
      <4> QED BY <4>4
    <3> QED BY <2>2, <3>1, <3>2, Moves DEF Moved
  <2>4. CASE m \notin disk[g].leases
    <3>1. LeasesOf(g, disk'[g])
      BY <2>1, <2>4, PlacesChange DEF Written
    <3>2. /\ Home(m) = g /\ at[m] \in {"sessionLease", "lease"}
          /\ at'[m] = IF at[m] = "lease" THEN "lookup" ELSE "sessionPlace"
          /\ at[m] = "lease" => storage'[m] = "ready"
      BY <2>4, <3>1 DEF LeasesOf
    <3>3. m \in Persistent /\ GenerationOf[m] = g
      BY <2>1, <2>2, <3>2, HomeFacts
    <3>4. at[m] = "lease"
      BY <2>2, <3>2, <3>3 DEF StorageHolds
    <3> QED BY <3>2, <3>3, <3>4 DEF Leased, Working
  <2> QED BY <2>3, <2>4
<1>3. ASSUME NEW s \in Managers, NEW m \in disk'[s].leases
      PROVE  m = s
  <2>1. s \in Places /\ s \notin Generations
    BY HomeFacts DEF Places
  <2>2. CASE m \in disk[s].leases
    BY <2>2 DEF LeasesHold
  <2>3. CASE m \notin disk[s].leases
    <3>1. m \in Managers
      BY <2>1, PlacesChange, PlaceFacts
    <3>2. Home(m) = s
      BY <2>1, <2>3, PlacesChange DEF Written, LeasesOf
    <3> QED BY <2>1, <3>1, <3>2, HomeFacts
  <2> QED BY <2>2, <2>3
<1> QED BY <1>1, <1>2, <1>3 DEF LeasesHold, Persistent, GenerationOf

\* What a manager has not seen to is not forgotten.
LEMMA SparedGrows ==
    ASSUME TypeOK, [Next]_vars
    PROVE  /\ spared' \in [Managers -> SUBSET Places]
           /\ \A m \in Managers : spared[m] \subseteq spared'[m]
<1> DEFINE Goal == /\ spared' \in [Managers -> SUBSET Places]
                   /\ \A m \in Managers : spared[m] \subseteq spared'[m]
<1>1. spared \in [Managers -> SUBSET Places]
  BY DEF TypeOK
<1>2. ASSUME NEW m \in Managers, NEW S \in SUBSET Places, Spare(m, S) PROVE Goal
  BY <1>1, <1>2 DEF Spare
<1>3. ASSUME NEW m \in Managers, NEW S \in SUBSET Places, List(m, S) PROVE Goal
  <2> DEFINE there == {d \in S : disk[d].there}
  <2>1. PICK listed : Spare(m, there \ (listed \cup {Home(m)}))
    BY <1>3 DEF List
  <2>2. there \ (listed \cup {Home(m)}) \in SUBSET Places
    OBVIOUS
  <2> QED BY <1>2, <2>1, <2>2
<1>4. ASSUME NEW m \in Managers, NEW d \in Places, RemoveAll(m, d) PROVE Goal
  <2>1. UNCHANGED spared \/ Spare(m, {d})
    BY <1>4 DEF RemoveAll
  <2> QED BY <1>1, <1>2, <2>1
<1>5. ASSUME UNCHANGED spared PROVE Goal
  BY <1>1, <1>5
<1> HIDE DEF Goal
<1>6. ASSUME NEW m \in Managers, BeginMaintenance(m) \/ NextSweep(m) PROVE Goal
  <2>1. UNCHANGED spared \/ \E S \in {Managers, Generations} : List(m, S)
    BY <1>6 DEF BeginMaintenance, NextSweep
  <2>2. ASSUME NEW S \in {Managers, Generations}, List(m, S) PROVE Goal
    <3>1. S \in SUBSET Places
      BY DEF Places
    <3> QED BY <1>3, <2>2, <3>1
  <2> QED BY <1>5, <2>1, <2>2
<1>7. ASSUME NEW m \in Managers, NEW d \in Places, Inspect(m, d) PROVE Goal
  <2>1. UNCHANGED spared \/ \E S \in SUBSET Places : Spare(m, S)
    BY <1>7 DEF Inspect
  <2> QED BY <1>2, <1>5, <2>1
<1>8. ASSUME NEW m \in Managers, RemovePlace(m) PROVE Goal
  BY <1>4, <1>8 DEF RemovePlace, TypeOK
<1>9. ASSUME NEW m \in Managers, ListOwn(m) PROVE Goal
  <2>1. \E S \in {{Home(m)}, {}} : Spare(m, S)
    BY <1>9 DEF ListOwn
  <2>2. Home(m) \in Places
    BY HomeFacts
  <2> QED BY <1>2, <2>1, <2>2
<1>10. ASSUME NEW m \in Managers, RemoveRoot(m) PROVE Goal
  BY <1>4, <1>10 DEF RemoveRoot, Places
<1> QED
  BY <1>5, <1>6, <1>7, <1>8, <1>9, <1>10, WhoChangesWhat DEF Goal

\* The root of a session that is gone is not written again.
LEMMA SessionStep ==
    ASSUME TypeOK, StorageHolds, CallersHold, NamesHold, SessionLeavesNothing, [Next]_vars
    PROVE  SessionLeavesNothing'
<1>1. ASSUME NEW m \in Managers \ Persistent, at'[m] = "gone"
      PROVE  disk'[m] = Nothing \/ m \in spared'[m]
  <2>1. m \in Places /\ m \notin Generations /\ \A n \in Managers : Home(n) = m => n = m
    BY HomeFacts DEF Places
  <2>2. CASE at[m] = "gone"
    <3>1. disk[m] = Nothing \/ m \in spared'[m]
      BY <2>2, SparedGrows DEF SessionLeavesNothing
    <3>2. disk'[m] = disk[m] \/ UsedBy(m, disk'[m])
      BY <2>1, PlacesChange DEF Written
    <3> QED BY <2>1, <2>2, <3>1, <3>2, PlaceFacts DEF UsedBy
  <2>3. CASE at[m] # "gone"
    <3>1. RemoveRoot(m)
      BY <1>1, <2>3, Moves DEF Moved
    <3>2. Put(m, Nothing) \/ Spare(m, {m})
      BY <3>1 DEF RemoveRoot, RemoveAll
    <3> QED BY <2>1, <3>2 DEF Put, Spare, TypeOK
  <2> QED BY <2>2, <2>3
<1>2. setting' = setting
  BY WhoChangesWhat
<1> QED BY <1>1, <1>2 DEF SessionLeavesNothing, Persistent

\* The bound of a generation holds, or someone is still to enforce it.
LEMMA BoundStep ==
    ASSUME TypeOK, StorageHolds, CallersHold, NamesHold, LeasesHold, BoundHolds, [Next]_vars
    PROVE  BoundHolds'
<1> DEFINE Users(g) == {m \in Managers : m \in Persistent /\ GenerationOf[m] = g}
           Fits(g) == Len(disk'[g].files) <= MaximumBytes
           Will(m, g) == /\ m \in Users(g) /\ storage'[m] = "ready" /\ at'[m] # "gone"
                         /\ at'[m] = "evict" =>
                              Cardinality({f \in ToSet(disk'[g].files) :
                                \A i \in 1..Len(victims'[m]) : victims'[m][i] # f.id})
                                  <= MaximumBytes
           Missed(g) == \E m \in Users(g) : g \in spared'[m]
<1>s. setting' = setting
  BY WhoChangesWhat
<1>t. ASSUME NEW g \in Generations
      PROVE  /\ g \in Places /\ disk'[g] \in PlaceType
             /\ disk[g].files \in Seq(File) /\ disk'[g].files \in Seq(File)
             /\ FilesApart(disk[g].files) /\ FilesApart(disk'[g].files)
  <2>1. g \in Places
    BY DEF Places
  <2>2. disk[g] \in PlaceType /\ disk'[g] \in PlaceType
    BY <2>1, PlacesChange DEF TypeOK
  <2>3. FilesApart(disk[g].files) /\ FilesApart(disk'[g].files)
    BY <2>1, PlacesChange DEF NamesHold, Written, FilesOf
  <2> QED BY <2>1, <2>2, <2>3, PlaceFacts
<1>p. ASSUME NEW g \in Generations, ~(ToSet(disk'[g].files) \subseteq ToSet(disk[g].files))
      PROVE  \E m \in Managers : Will(m, g)
  <2>1. PICK m \in Managers : Home(m) = g /\ at[m] \in {"preview", "rename"}
    BY <1>p, <1>t, PlacesChange DEF Written, FilesOf, Published
  <2>2. m \in Users(g)
    BY <1>t, <2>1, HomeFacts
  <2>3. storage[m] = "ready" /\ at[m] \in Leased /\ ~DropLease(m)
    BY <2>1 DEF StorageHolds, Working, Leased, DropLease, Settled
  <2>4. storage'[m] = "ready" /\ at'[m] \in Leased
    BY <2>3, Moves DEF Moved
  <2> QED BY <2>2, <2>4 DEF Leased, Working
<1>1. ASSUME NEW g \in Generations,
             \A m \in Users(g) : storage[m] # "ready"
      PROVE  (\A m \in Users(g) : storage'[m] # "ready") \/ \E m \in Managers : Will(m, g)
  <2>1. ASSUME NEW m \in Users(g), storage'[m] = "ready" PROVE Will(m, g)
    <3>1. PlaceLease(m)
      BY <1>1, <2>1, Moves DEF Moved
    <3>2. at'[m] = "lookup"
      <4>1. \/ Go(m, "lookup")
            \/ storage' = [storage EXCEPT ![m] = "failed"]
        BY <3>1 DEF PlaceLease, TakeLease
      <4> QED BY <2>1, <4>1 DEF Go, TypeOK
    <3> QED BY <2>1, <3>2
  <2> QED BY <2>1
<1>2. ASSUME NEW g \in Generations, Len(disk[g].files) <= MaximumBytes
      PROVE  Fits(g) \/ \E m \in Managers : Will(m, g)
  <2>1. CASE ToSet(disk'[g].files) \subseteq ToSet(disk[g].files)
    <3>1. /\ IsFiniteSet(ToSet(disk[g].files))
          /\ Len(disk[g].files) = Cardinality(ToSet(disk[g].files))
          /\ Len(disk'[g].files) = Cardinality(ToSet(disk'[g].files))
      BY <1>t, LenCounts
    <3>2. Cardinality(ToSet(disk'[g].files)) <= Cardinality(ToSet(disk[g].files))
      BY <2>1, <3>1, FS_Subset
    <3>3. /\ Len(disk[g].files) \in Nat /\ Len(disk'[g].files) \in Nat
          /\ MaximumBytes \in Nat
      BY <1>t, LenProperties, StoreAssumption
    <3> QED BY <1>2, <3>1, <3>2, <3>3
  <2> QED BY <2>1, <1>p
<1>3. ASSUME NEW g \in Generations, NEW m \in Managers, setting.faults = {}, WillFit(m, g)
      PROVE  Missed(g) \/ Fits(g) \/ \E n \in Managers : Will(n, g)
  <2>1. m \in Users(g) /\ storage[m] = "ready" /\ storage'[m] = "ready" /\ at[m] # "gone"
    BY <1>3, Moves DEF WillFit, Moved
  <2>2. CASE at'[m] = "gone"
    <3>1. m \in Persistent
      BY <2>1
    <3>2. ~RemoveRoot(m)
      BY <3>1 DEF RemoveRoot, In, StorageHolds
    <3>3. \/ EndEviction(m)
          \/ CheckOwn(m) /\ FreshLeases(Home(m)) # {}
      BY <1>3, <2>1, <2>2, <3>2, Moves DEF Moved
    <3>4. CASE EndEviction(m)
      <4>1. at[m] = "evict" /\ victims[m] = << >> /\ disk' = disk
        BY <3>4 DEF EndEviction, In
      <4>2. Kept(m, disk[g].files) = ToSet(disk[g].files)
        BY <4>1 DEF Kept
      <4>3. Cardinality(ToSet(disk[g].files)) <= MaximumBytes
        BY <1>3, <4>1, <4>2 DEF WillFit
      <4> QED BY <1>t, <4>1, <4>3, LenCounts
    <3>5. CASE CheckOwn(m) /\ FreshLeases(Home(m)) # {}
      <4>1. Home(m) = g
        BY <2>1, HomeFacts
      <4>2. PICK n \in disk[g].leases : TRUE
        BY <3>5, <4>1 DEF FreshLeases
      <4>3. n \in Users(g) /\ storage[n] = "ready" /\ at[n] \in Leased
        BY <1>3, OwnProcess DEF LeasesHold
      <4>4. at[m] = "check" /\ at' = [at EXCEPT ![m] = "gone"] /\ storage' = storage
        <5>1. \/ at' = [at EXCEPT ![m] = "gone"]
              \/ at' = [at EXCEPT ![m] = "list"]
          BY <3>5, <2>1 DEF CheckOwn, Go, AfterMaintenance
        <5> QED BY <5>1, <2>2, <3>5, <2>1 DEF CheckOwn, In, TypeOK
      <4>5. n # m
        BY <4>3, <4>4 DEF Leased, Working
      <4>6. at'[n] = at[n]
        BY <4>4, <4>5 DEF TypeOK
      <4> QED BY <4>3, <4>4, <4>6 DEF Leased, Working
    <3> QED BY <3>3, <3>4, <3>5
  <2>3. CASE at'[m] = "evict"
    <3> DEFINE Left1 == {f \in ToSet(disk'[g].files) :
                           \A i \in 1..Len(victims'[m]) : victims'[m][i] # f.id}
    <3>1. CASE ListOwn(m)
      <4>1. Home(m) = g /\ Here(m) = disk[g] /\ disk' = disk
        BY <2>1, <3>1, HomeFacts DEF ListOwn, Here
      <4>2. PICK seen :
              /\ victims' = [victims EXCEPT ![m] = OldestFirst(seen, Victims(seen))]
              /\ Spare(m, IF seen = disk[g].files THEN {} ELSE {g})
        BY <3>1, <4>1 DEF ListOwn
      <4>3. CASE seen = disk[g].files
        <5>1. victims'[m] = OldestFirst(disk[g].files, Victims(disk[g].files))
          BY <4>2, <4>3 DEF TypeOK
        <5>2. Cardinality(Left1) <= MaximumBytes
          BY <1>t, <4>1, <5>1, VictimsFit
        <5> QED BY <2>1, <2>3, <5>2
      <4>4. CASE seen # disk[g].files
        <5>1. g \in spared'[m]
          BY <4>2, <4>4 DEF Spare, TypeOK
        <5> QED BY <2>1, <5>1
      <4> QED BY <4>3, <4>4
    <3>2. CASE ToSet(disk'[g].files) \subseteq ToSet(disk[g].files)
               /\ at[m] = "evict" /\ victims'[m] = victims[m]
      <4>1. Left1 \subseteq Kept(m, disk[g].files)
        BY <3>2 DEF Kept
      <4>2. Kept(m, disk[g].files) \in SUBSET ToSet(disk[g].files)
        BY DEF Kept
      <4>3. IsFiniteSet(Kept(m, disk[g].files))
        BY <1>t, <4>2, LenCounts, FS_Subset
      <4>4. Cardinality(Kept(m, disk[g].files)) <= MaximumBytes
        BY <1>3, <3>2 DEF WillFit
      <4> HIDE DEF Left1
      <4>5. IsFiniteSet(Left1) /\ Cardinality(Left1) <= Cardinality(Kept(m, disk[g].files))
        BY <4>1, <4>3, FS_Subset
      <4>6. /\ Cardinality(Left1) \in Nat /\ Cardinality(Kept(m, disk[g].files)) \in Nat
            /\ MaximumBytes \in Nat
        BY <4>3, <4>5, FS_CardinalityType, StoreAssumption
      <4>7. Cardinality(Left1) <= MaximumBytes
        BY <4>4, <4>5, <4>6
      <4> QED BY <2>1, <2>3, <4>7 DEF Left1
    <3>3. CASE Evict(m)
      <4>1. Here(m) = disk[g] /\ Home(m) = g
        BY <2>1, HomeFacts DEF Here
      <4>2. /\ at[m] = "evict" /\ victims[m] # << >> /\ victims[m] \in Seq(Versions)
            /\ victims'[m] = Tail(victims[m])
            /\ disk' = [disk EXCEPT ![g] = [disk[g] EXCEPT !.files =
                 WithoutCache(disk[g].files, {"cache", "preview"}, Head(victims[m]))]]
        <5>1. Done({"cache", "preview"}) = {{"cache", "preview"}}
          BY <1>3, FaultlessFacts
        <5> QED BY <3>3, <4>1, <5>1 DEF Evict, In, Own, Put, TypeOK
      <4> DEFINE rest == WithoutCache(disk[g].files, {"cache", "preview"}, Head(victims[m]))
      <4>3. /\ rest \in Seq(File)
            /\ ToSet(rest) \subseteq {f \in ToSet(disk[g].files) : f.id # Head(victims[m])}
        <5>1. \A kinds \in SUBSET {"cache", "preview"} :
                 kinds = {"cache", "preview"} =>
                   LET r == WithoutCache(disk[g].files, kinds, Head(victims[m])) IN
                   /\ r \in Seq(File) /\ ToSet(r) \subseteq ToSet(disk[g].files)
                   /\ \A f \in ToSet(r) : f.id # Head(victims[m])
          BY <1>t, WithoutCacheFacts
        <5> QED BY <5>1
      <4> HIDE DEF rest
      <4>4. disk[g] \in PlaceType
        BY <1>t DEF TypeOK
      <4>5. disk'[g].files = rest
        <5>1. disk'[g] = [disk[g] EXCEPT !.files = rest]
          BY <1>t, <4>2 DEF TypeOK, rest
        <5> QED BY <5>1, <4>3, <4>4, FilesEdit
      <4>6. ASSUME NEW f \in Left1 PROVE f \in Kept(m, disk[g].files)
        <5>1. f \in ToSet(disk[g].files) /\ f.id # Head(victims[m])
          BY <4>3, <4>5
        <5>2. /\ Len(Tail(victims[m])) = Len(victims[m]) - 1
              /\ \A i \in 1..Len(Tail(victims[m])) : Tail(victims[m])[i] = victims[m][i + 1]
              /\ Len(victims[m]) \in Nat
          BY <4>2, HeadTailProperties, LenProperties
        <5>3. ASSUME NEW i \in 1..Len(victims[m]) PROVE victims[m][i] # f.id
          <6>1. CASE i = 1
            BY <4>2, <5>1, <6>1
          <6>2. CASE i # 1
            <7>1. i - 1 \in 1..Len(Tail(victims[m])) /\ (i - 1) + 1 = i
              BY <5>2, <6>2
            <7>2. Tail(victims[m])[i - 1] = victims[m][(i - 1) + 1]
              BY <5>2, <7>1
            <7> QED BY <4>2, <4>6, <7>1, <7>2
          <6> QED BY <6>1, <6>2
        <5> QED BY <5>1, <5>3 DEF Kept
      <4>7. Kept(m, disk[g].files) \in SUBSET ToSet(disk[g].files)
        BY DEF Kept
      <4>8. IsFiniteSet(Kept(m, disk[g].files))
        BY <1>t, <4>7, LenCounts, FS_Subset
      <4>9. Cardinality(Kept(m, disk[g].files)) <= MaximumBytes
        BY <1>3, <4>2 DEF WillFit
      <4> HIDE DEF Left1
      <4>10. IsFiniteSet(Left1) /\ Cardinality(Left1) <= Cardinality(Kept(m, disk[g].files))
        BY <4>6, <4>8, FS_Subset
      <4>11. /\ Cardinality(Left1) \in Nat /\ Cardinality(Kept(m, disk[g].files)) \in Nat
             /\ MaximumBytes \in Nat
        BY <4>8, <4>10, FS_CardinalityType, StoreAssumption
      <4>12. Cardinality(Left1) <= MaximumBytes
        BY <4>9, <4>10, <4>11
      <4> QED BY <2>1, <2>3, <4>12 DEF Left1
    <3>4. \/ ListOwn(m) \/ Evict(m)
          \/ at[m] = "evict" /\ victims'[m] = victims[m]
      BY <2>3, Moves DEF Moved
    <3> QED BY <3>1, <3>2, <3>3, <3>4, <1>p
  <2>4. CASE at'[m] \notin {"gone", "evict"}
    BY <2>1, <2>4
  <2> QED BY <2>2, <2>3, <2>4
<1>4. ASSUME setting.faults = {}, NEW g \in Generations
      PROVE  \/ Spared(g)'
             \/ \A m \in Managers :
                  m \in Persistent /\ GenerationOf[m] = g => storage'[m] # "ready"
             \/ Len(disk'[g].files) <= MaximumBytes
             \/ \E m \in Managers : WillFit(m, g)'
  <2>1. \/ Missed(g)
        \/ \A m \in Users(g) : storage'[m] # "ready"
        \/ Fits(g)
        \/ \E m \in Managers : Will(m, g)
    <3>5. CASE Spared(g)
      BY <3>5, SparedGrows DEF Spared
    <3> HIDE DEF Fits, Will, Missed
    <3>1. CASE \A m \in Users(g) : storage[m] # "ready"
      BY <1>4, <1>1, <3>1
    <3>2. CASE Len(disk[g].files) <= MaximumBytes
      BY <1>2, <3>2
    <3>3. CASE \E m \in Managers : WillFit(m, g)
      BY <1>4, <1>3, <3>3
    <3>4. \/ Spared(g)
          \/ \A m \in Users(g) : storage[m] # "ready"
          \/ Len(disk[g].files) <= MaximumBytes
          \/ \E m \in Managers : WillFit(m, g)
      BY <1>4 DEF BoundHolds
    <3> QED BY <3>1, <3>2, <3>3, <3>4, <3>5
  <2>2. ASSUME NEW m \in Managers, Will(m, g) PROVE WillFit(m, g)'
    BY <2>2, <1>s DEF WillFit, Kept, Persistent, GenerationOf, ToSet
  <2>3. Missed(g) => Spared(g)'
    BY <1>s DEF Spared, Persistent, GenerationOf
  <2> QED BY <2>1, <2>2, <2>3
<1> QED BY <1>4, <1>s DEF BoundHolds, Persistent, GenerationOf

\* Every stage is one of those named.
LEMMA AtStep ==
    ASSUME TypeOK, StorageHolds, [Next]_vars
    PROVE  at' \in [Managers -> Stages]
<1> USE DEF TypeOK, Stages, Maintaining
<1>1. ASSUME NEW m \in Managers, Prepare(m) PROVE at' \in [Managers -> Stages]
  BY <1>1 DEF Prepare, In, Go
<1>2. ASSUME NEW m \in Managers, OpenReader(m) PROVE at' \in [Managers -> Stages]
  BY <1>2 DEF OpenReader, In, Go, Aside
<1>3. ASSUME NEW m \in Managers, Stat(m) PROVE at' \in [Managers -> Stages]
  <2>1. \E stage \in {"lookup", "idle", "queued", "sessionLease"} :
          at' = [at EXCEPT ![m] = stage]
    BY <1>3 DEF Stat, Go
  <2> QED BY <2>1
<1>4. ASSUME NEW m \in Managers, SessionLease(m) PROVE at' \in [Managers -> Stages]
  <2>1. \E stage \in {"sessionPlace", "idle"} : at' = [at EXCEPT ![m] = stage]
    BY <1>4 DEF SessionLease, TakeLease, Go
  <2> QED BY <2>1
<1>5. ASSUME NEW m \in Managers, SessionPlace(m) PROVE at' \in [Managers -> Stages]
  BY <1>5 DEF SessionPlace, In, Go
<1>6. ASSUME NEW m \in Managers, PlaceLease(m) PROVE at' \in [Managers -> Stages]
  <2>1. \E stage \in {"lookup", "idle"} : at' = [at EXCEPT ![m] = stage]
    BY <1>6 DEF PlaceLease, TakeLease, Go
  <2> QED BY <2>1
<1>7. ASSUME NEW m \in Managers, Reuse(m) PROVE at' \in [Managers -> Stages]
  BY <1>7 DEF Reuse, In, Go, Aside, Own
<1>8. ASSUME NEW m \in Managers, NEW force \in BOOLEAN, MustConvert(m, force)
      PROVE  at' \in [Managers -> Stages]
  <2>1. \E stage \in {"parse", "parseOnly"} : at' = [at EXCEPT ![m] = stage]
    BY <1>8 DEF MustConvert, Go
  <2> QED BY <2>1
<1>9. ASSUME NEW m \in Managers, Parse(m) PROVE at' \in [Managers -> Stages]
  BY <1>9 DEF Parse, Go, Aside, Temporary
<1>10. ASSUME NEW m \in Managers, ConversionFails(m)
       PROVE  at' \in [Managers -> Stages]
  BY <1>10 DEF ConversionFails, Go, Aside, Temporary
<1>11. ASSUME NEW m \in Managers, CheckPreview(m) PROVE at' \in [Managers -> Stages]
  BY <1>11 DEF CheckPreview, In, Go, Aside
<1>12. ASSUME NEW m \in Managers, CommitPreview(m)
       PROVE  at' \in [Managers -> Stages]
  BY <1>12 DEF CommitPreview, In, Go, Aside, Own
<1>13. ASSUME NEW m \in Managers, Recheck(m) PROVE at' \in [Managers -> Stages]
  <2>1. \E stage \in {"rename", "idle"} : at' = [at EXCEPT ![m] = stage]
    BY <1>13 DEF Recheck, Go
  <2> QED BY <2>1
<1>14. ASSUME NEW m \in Managers, Commit(m) PROVE at' \in [Managers -> Stages]
  BY <1>14 DEF Commit, In, Go, Aside
<1>15. ASSUME NEW m \in Managers, Reread(m) PROVE at' \in [Managers -> Stages]
  <2>1. \E stage \in {"prepared", "idle"} : at' = [at EXCEPT ![m] = stage]
    BY <1>15 DEF Reread, Go
  <2> QED BY <2>1
<1>16. ASSUME NEW m \in Managers, BeginMaintenance(m)
       PROVE  at' \in [Managers -> Stages]
  <2>1. \E stage \in {"check", "sessions"} : at' = [at EXCEPT ![m] = stage]
    BY <1>16 DEF BeginMaintenance, Go
  <2> QED BY <2>1
<1>17. ASSUME NEW m \in Managers, NextSweep(m) PROVE at' \in [Managers -> Stages]
  <2>1. \E stage \in {"generations", "check", "lookup"} : at' = [at EXCEPT ![m] = stage]
    BY <1>17, SweepOutcomes
  <2> QED BY <2>1
<1>18. ASSUME NEW m \in Managers, CheckOwn(m) PROVE at' \in [Managers -> Stages]
  <2>1. \E stage \in {"gone", "lease", "list"} : at' = [at EXCEPT ![m] = stage]
    BY <1>18 DEF CheckOwn, Go, AfterMaintenance
  <2> QED BY <2>1
<1>19. ASSUME NEW m \in Managers, ListOwn(m) PROVE at' \in [Managers -> Stages]
  BY <1>19 DEF ListOwn, In, Go
<1>20. ASSUME NEW m \in Managers, EndEviction(m) PROVE at' \in [Managers -> Stages]
  BY <1>20 DEF EndEviction, In, Go, Leave, AfterMaintenance
<1>21. ASSUME NEW m \in Managers, MaintenanceFails(m)
       PROVE  at' \in [Managers -> Stages]
  BY <1>21 DEF MaintenanceFails, Go, Leave
<1>22. ASSUME NEW m \in Managers, DropLease(m) PROVE at' \in [Managers -> Stages]
  BY <1>22 DEF DropLease, Go, Leases
<1>23. ASSUME NEW m \in Managers, RemoveRoot(m) PROVE at' \in [Managers -> Stages]
  BY <1>23 DEF RemoveRoot, In, Go
<1>u. CASE UNCHANGED <<at>>
  BY <1>u
<1> QED
  BY <1>1, <1>2, <1>3, <1>4, <1>5, <1>6, <1>7, <1>8, <1>9, <1>10, <1>11, <1>12, <1>13,
     <1>14, <1>15, <1>16, <1>17, <1>18, <1>19, <1>20, <1>21, <1>22, <1>23, <1>u,
     WhoChangesWhat

\* A step keeps the types.
LEMMA TypeStep ==
    ASSUME TypeOK, QueueHolds, StorageHolds, CallersHold, NamesHold, [Next]_vars
    PROVE  TypeOK'
<1> USE DEF TypeOK
<1>1. setting' \in Settings
  BY WhoChangesWhat
<1>2. source' \in Versions
  <2>1. ASSUME ChangeDrawing PROVE source' \in Versions
    BY <2>1, StoreAssumption DEF ChangeDrawing, Versions
  <2> QED BY <2>1, WhoChangesWhat
<1>3. disk' \in [Places -> PlaceType]
  BY PlacesChange
<1>4. alive' \subseteq Processes /\ expired' \subseteq Managers
  BY WhoChangesWhat DEF Crash, Expire
<1>5. chain' \in [Processes -> Seq(Managers)]
  <2>1. ASSUME NEW m \in Managers, chain' = [chain EXCEPT ![ProcessOf[m]] = Append(@, m)]
        PROVE  chain' \in [Processes -> Seq(Managers)]
    BY <2>1, OwnProcess, QueueFacts
  <2>2. ASSUME NEW m \in Managers, at[m] \in Maintaining, Leave(m)
        PROVE  chain' \in [Processes -> Seq(Managers)]
    <3>1. chain[ProcessOf[m]] # << >> /\ chain[ProcessOf[m]] \in Seq(Managers)
      BY <2>2, OwnProcess DEF QueueHolds, Leads
    <3> QED BY <2>2, <3>1, QueueFacts DEF Leave
  <2>3. ASSUME NEW m \in Managers, Stat(m)
        PROVE  chain' \in [Processes -> Seq(Managers)]
    <3>1. \/ chain' = [chain EXCEPT ![ProcessOf[m]] = Append(@, m)]
          \/ chain' = chain
      BY <2>3 DEF Stat
    <3> QED BY <2>1, <3>1
  <2>4. ASSUME NEW m \in Managers, SessionPlace(m)
        PROVE  chain' \in [Processes -> Seq(Managers)]
    BY <2>1, <2>4 DEF SessionPlace
  <2>5. ASSUME NEW m \in Managers, DropLease(m)
        PROVE  chain' \in [Processes -> Seq(Managers)]
    <3>1. \/ chain' = [chain EXCEPT ![ProcessOf[m]] = Append(@, m)]
          \/ chain' = chain
      BY <2>5 DEF DropLease
    <3> QED BY <2>1, <3>1
  <2>6. ASSUME NEW m \in Managers, NextSweep(m)
        PROVE  chain' \in [Processes -> Seq(Managers)]
    <3>1. at[m] \in Maintaining /\ (chain' = chain \/ Leave(m))
      BY <2>6, SweepOutcomes DEF Maintaining
    <3> QED BY <2>2, <3>1
  <2>7. ASSUME NEW m \in Managers, CheckOwn(m) \/ EndEviction(m) \/ MaintenanceFails(m)
        PROVE  chain' \in [Processes -> Seq(Managers)]
    <3>1. at[m] \in Maintaining /\ (chain' = chain \/ Leave(m))
      BY <2>7 DEF CheckOwn, EndEviction, MaintenanceFails, In, Maintaining
    <3> QED BY <2>2, <3>1
  <2> QED BY <2>3, <2>4, <2>5, <2>6, <2>7, WhoChangesWhat
<1>6. at' \in [Managers -> Stages]
  BY AtStep
<1>7. prepares' \in [Managers -> 0..MaxPrepares]
  <2>1. ASSUME NEW m \in Managers, Prepare(m)
        PROVE  prepares' \in [Managers -> 0..MaxPrepares]
    BY <2>1, StoreAssumption DEF Prepare
  <2> QED BY <2>1, WhoChangesWhat
<1>8. version' \in [Managers -> Versions] /\ parsed' \in [Managers -> Versions]
  <2>1. ASSUME NEW m \in Managers, Stat(m) PROVE version' \in [Managers -> Versions]
    BY <2>1 DEF Stat
  <2>2. ASSUME NEW m \in Managers, Parse(m) PROVE parsed' \in [Managers -> Versions]
    BY <2>2 DEF Parse
  <2> QED BY <2>1, <2>2, WhoChangesWhat
<1>9. storage' \in [Managers -> {"none", "making", "ready", "failed"}]
  <2>1. ASSUME NEW m \in Managers, Stat(m)
        PROVE  storage' = storage \/ storage' = [storage EXCEPT ![m] = "making"]
    BY <2>1 DEF Stat
  <2>2. ASSUME NEW m \in Managers, NextSweep(m)
        PROVE  storage' = storage \/ storage' = [storage EXCEPT ![m] = "ready"]
    BY <2>2, SweepOutcomes
  <2>3. ASSUME NEW m \in Managers, SessionLease(m) \/ PlaceLease(m)
        PROVE  \E s \in {"making", "ready", "failed"} : storage' = [storage EXCEPT ![m] = s]
    BY <2>3 DEF SessionLease, PlaceLease, TakeLease
  <2>4. ASSUME NEW m \in Managers, MaintenanceFails(m)
        PROVE  storage' \in [Managers -> {"none", "making", "ready", "failed"}]
    BY <2>4 DEF MaintenanceFails
  <2> QED BY <2>1, <2>2, <2>3, <2>4, WhoChangesWhat
<1>10. disposed' \in [Managers -> BOOLEAN]
  BY WhoChangesWhat DEF Dispose
<1>11. todo' \in [Managers -> SUBSET Places]
  <2>1. ASSUME NEW m \in Managers, NEW S \in SUBSET Places, List(m, S)
        PROVE  todo' \in [Managers -> SUBSET Places]
    <3>1. PICK listed \in Listings({d \in S : disk[d].there}) :
            todo' = [todo EXCEPT ![m] = listed \ {Home(m)}]
      BY <2>1 DEF List
    <3>2. listed \subseteq {d \in S : disk[d].there}
      BY FaultlessFacts
    <3>3. listed \ {Home(m)} \in SUBSET Places
      BY <3>2
    <3> QED BY <3>1, <3>3
  <2>2. ASSUME NEW m \in Managers, BeginMaintenance(m) \/ NextSweep(m)
        PROVE  todo' \in [Managers -> SUBSET Places]
    <3>1. todo' = todo \/ \E S \in {Managers, Generations} : List(m, S)
      BY <2>2 DEF BeginMaintenance, NextSweep
    <3>2. Managers \subseteq Places /\ Generations \subseteq Places
      BY DEF Places
    <3> QED BY <2>1, <3>1, <3>2
  <2>3. ASSUME NEW m \in Managers, NEW d \in Places, Inspect(m, d)
        PROVE  todo' = todo \/ todo' = [todo EXCEPT ![m] = @ \ {d}]
    BY <2>3 DEF Inspect
  <2>4. ASSUME NEW m \in Managers, RemovePlace(m) \/ MaintenanceFails(m)
        PROVE  \E S \in SUBSET Places : todo' = [todo EXCEPT ![m] = S]
    <3>1. \/ todo' = [todo EXCEPT ![m] = todo[m] \ {doomed[m]}]
          \/ todo' = [todo EXCEPT ![m] = {}]
      BY <2>4 DEF RemovePlace, MaintenanceFails
    <3> QED BY <3>1
  <2>5. \/ todo' = todo
        \/ \E m \in Managers : BeginMaintenance(m) \/ NextSweep(m)
        \/ \E m \in Managers, d \in Places : Inspect(m, d)
        \/ \E m \in Managers : RemovePlace(m) \/ MaintenanceFails(m)
    BY WhoChangesWhat
  <2>6. todo \in [Managers -> SUBSET Places]
    OBVIOUS
  <2> HIDE DEF TypeOK
  <2>7. ASSUME NEW m \in Managers, NEW S \in SUBSET Places, todo' = [todo EXCEPT ![m] = S]
        PROVE  todo' \in [Managers -> SUBSET Places]
    BY <2>6, <2>7
  <2>8. ASSUME NEW m \in Managers, NEW d \in Places, todo' = [todo EXCEPT ![m] = @ \ {d}]
        PROVE  todo' \in [Managers -> SUBSET Places]
    BY <2>6, <2>8
  <2> QED BY <2>2, <2>3, <2>4, <2>5, <2>6, <2>7, <2>8
<1>12. doomed' \in [Managers -> Places \cup {NoPlace}]
  <2>1. ASSUME NEW m \in Managers, NEW d \in Places, Inspect(m, d)
        PROVE  doomed' = doomed \/ doomed' = [doomed EXCEPT ![m] = d]
    BY <2>1 DEF Inspect
  <2>2. ASSUME NEW m \in Managers, RemovePlace(m) \/ MaintenanceFails(m)
        PROVE  doomed' = [doomed EXCEPT ![m] = NoPlace]
    BY <2>2 DEF RemovePlace, MaintenanceFails
  <2>3. \/ doomed' = doomed
        \/ \E m \in Managers, d \in Places : Inspect(m, d)
        \/ \E m \in Managers : RemovePlace(m) \/ MaintenanceFails(m)
    BY WhoChangesWhat
  <2>4. doomed \in [Managers -> Places \cup {NoPlace}]
    OBVIOUS
  <2> HIDE DEF TypeOK
  <2> QED BY <2>1, <2>2, <2>3, <2>4
<1>13. victims' \in [Managers -> Seq(Versions)]
  <2>1. ASSUME NEW m \in Managers, ListOwn(m)
        PROVE  victims' \in [Managers -> Seq(Versions)]
    <3>1. Here(m).files \in Seq(File) /\ FilesApart(Here(m).files)
      BY HomeFacts, PlaceFacts DEF Here, NamesHold
    <3>2. PICK seen \in Parts(Here(m).files) :
            victims' = [victims EXCEPT ![m] = OldestFirst(seen, Victims(seen))]
      BY <2>1 DEF ListOwn
    <3>3. seen \in Seq(File)
      BY <3>1, PartsFacts
    <3> QED BY <3>2, <3>3, VictimsFit
  <2>2. ASSUME NEW m \in Managers, Evict(m)
        PROVE  victims' \in [Managers -> Seq(Versions)]
    BY <2>2, HeadTailProperties DEF Evict
  <2>3. ASSUME NEW m \in Managers, MaintenanceFails(m)
        PROVE  victims' \in [Managers -> Seq(Versions)]
    BY <2>3, EmptySeq DEF MaintenanceFails
  <2> QED BY <2>1, <2>2, <2>3, WhoChangesWhat
<1>14. readers' \subseteq [by: Managers, id: Versions]
  <2>1. ASSUME NEW m \in Managers, OpenReader(m)
        PROVE  readers' \subseteq [by: Managers, id: Versions]
    BY <2>1 DEF OpenReader, Id
  <2> QED BY <2>1, WhoChangesWhat DEF Release, Crash
<1>15. spared' \in [Managers -> SUBSET Places]
  BY SparedGrows
<1> HIDE DEF TypeOK
<1> QED
  BY <1>1, <1>2, <1>3, <1>4, <1>5, <1>6, <1>7, <1>8, <1>9, <1>10, <1>11, <1>12, <1>13,
     <1>14, <1>15 DEF TypeOK

\* The initial states.
LEMMA InitInv == Init => StoreInv
<1> SUFFICES ASSUME Init PROVE StoreInv
  OBVIOUS
<1>1. setting \in Setting
  BY StoreAssumption DEF Init
<1>2. /\ [Nothing EXCEPT !.there = TRUE, !.files = Left] \in PlaceType
      /\ [Nothing EXCEPT !.there = TRUE, !.files = Left].files = Left
      /\ [Nothing EXCEPT !.there = TRUE, !.files = Left].leases = {}
  BY StoreAssumption DEF PlaceType, Nothing
<1>3. /\ disk \in [Places -> PlaceType]
      /\ \A d \in Places : disk[d].files \in {Left, << >>} /\ disk[d].leases = {}
      /\ \A d \in Places \ Generations : disk[d] = Nothing
  BY <1>2, PlaceFacts DEF Init
<1>4. TypeOK
  <2>1. /\ setting \in Settings /\ source \in Versions
        /\ alive \subseteq Processes /\ expired \subseteq Managers
        /\ at \in [Managers -> Stages] /\ prepares \in [Managers -> 0..MaxPrepares]
        /\ version \in [Managers -> Versions] /\ parsed \in [Managers -> Versions]
        /\ storage \in [Managers -> {"none", "making", "ready", "failed"}]
        /\ disposed \in [Managers -> BOOLEAN]
        /\ todo \in [Managers -> SUBSET Places]
        /\ doomed \in [Managers -> Places \cup {NoPlace}]
        /\ readers \subseteq [by: Managers, id: Versions]
        /\ spared \in [Managers -> SUBSET Places]
    BY StoreAssumption DEF Init, Versions, Stages
  <2>2. chain \in [Processes -> Seq(Managers)] /\ victims \in [Managers -> Seq(Versions)]
    BY EmptySeq DEF Init
  <2> QED BY <1>3, <2>1, <2>2 DEF TypeOK
<1>5. /\ \A m \in Managers : at[m] = "idle" /\ storage[m] = "none" /\ ~disposed[m]
      /\ readers = {} /\ expired = {} /\ source = 1
      /\ \A m \in Managers : version[m] = 1 /\ parsed[m] = 1
  BY DEF Init
<1>6. /\ QueueHolds /\ StorageHolds /\ CallersHold /\ VersionsHold
      /\ SessionLeavesNothing /\ DeadExpire
  BY <1>5 DEF QueueHolds, StorageHolds, CallersHold, VersionsHold, SessionLeavesNothing,
     DeadExpire, Maintaining, Working
<1>7. NamesHold /\ CacheMatchesSource
  <2>1. /\ FilesApart(<< >>) /\ ToSet(<< >>) = {}
        /\ FilesApart(Left) /\ \A f \in ToSet(Left) : f.holds = f.id
    BY StoreAssumption DEF FilesApart, ToSet
  <2> QED BY <1>3, <2>1 DEF NamesHold, CacheMatchesSource
<1>8. LeasesHold
  BY <1>3 DEF LeasesHold, Places
<1>9. BoundHolds
  BY <1>5 DEF BoundHolds
<1> QED BY <1>4, <1>6, <1>7, <1>8, <1>9 DEF StoreInv

-----------------------------------------------------------------------------
(* The theorems.                                                           *)

\* The invariant holds in every state of any number of windows.
THEOREM StoreCorrect == Spec => []StoreInv
<1>1. StoreInv /\ [Next]_vars => StoreInv'
  BY TypeStep, QueueStep, StorageStep, CallersStep, VersionsStep, NamesStep, CacheStep,
     LeasesStep, SessionStep, BoundStep, DeadStep DEF StoreInv
<1> QED BY InitInv, <1>1, PTL DEF Spec

\* The variables keep their types; in particular the queues of maintenance and
\* the files of a directory stay sequences of managers and of files.
THEOREM StoreTypeCorrect == Spec => []TypeOK
<1>1. StoreInv => TypeOK
  BY DEF StoreInv
<1> QED BY <1>1, StoreCorrect, PTL

\* A cache or preview holds what was converted from the version in its name,
\* whenever the drawing is saved while it is converted: what is published was
\* compared with the drawing after the converter had read it.
THEOREM CachesMatchTheirNames == Spec => []CacheMatchesSource
<1>1. StoreInv => CacheMatchesSource
  BY DEF StoreInv
<1> QED BY <1>1, StoreCorrect, PTL

\* Once a manager in session mode has gone its place does not exist, unless
\* its removal was refused, and no late step of anyone makes it again.
THEOREM SessionsLeaveNothing == Spec => []SessionLeavesNothing
<1>1. StoreInv => SessionLeavesNothing
  BY DEF StoreInv
<1> QED BY <1>1, StoreCorrect, PTL

\* When all managers of a generation have gone its caches fit the configured
\* bound, unless a window crashed, a call of the file system failed, or the
\* listing of the directory was cut short.
THEOREM GenerationsFitAtRest == Spec => []WithinBoundAtRest
<1>1. ASSUME StoreInv PROVE WithinBoundAtRest
  <2>1. ASSUME NEW g \in Generations, setting.faults = {},
               \A m \in Persistent : GenerationOf[m] = g => g \notin spared[m],
               \A m \in Persistent :
                  GenerationOf[m] = g => at[m] = "gone" \/ prepares[m] = 0,
               NEW n \in Persistent, GenerationOf[n] = g,
               at[n] = "gone", storage[n] = "ready"
        PROVE  Len(disk[g].files) <= MaximumBytes
    <3>1. n \in Managers
      BY <1>1, OwnProcess DEF StoreInv
    <3>2. ASSUME NEW m \in Managers PROVE ~WillFit(m, g)
      BY <1>1, <2>1, <3>2 DEF WillFit, StoreInv, CallersHold
    <3> QED BY <1>1, <2>1, <3>1, <3>2 DEF StoreInv, BoundHolds, Spared
  <2> QED BY <2>1 DEF WithinBoundAtRest
<1> QED BY <1>1, StoreCorrect, PTL

-----------------------------------------------------------------------------
(* What crashed windows left.                                              *)

\* A manager that will still look at the place of a session.
Ahead(m, s) ==
    \/ storage[m] \in {"none", "failed"}
    \/ /\ storage[m] = "making" /\ m # s
       /\ \/ at[m] \in {"queued", "sessionLease", "sessionPlace"}
          \/ at[m] = "sessions" /\ s \in todo[m]

\* An expired session is gone, or whoever has no storage yet will remove it, or
\* could not.
Sweeps(m, s) ==
    /\ s \in expired
    /\ s \in Persistent \/ ~disk[s].there \/ Ahead(m, s) \/ s \in spared[m]

\* Nobody stops short of the session before it is gone, or spared.
LEMMA AheadStep ==
    ASSUME TypeOK, StorageHolds, LeasesHold, DeadExpire, [Next]_vars,
           NEW k \in Managers, NEW s \in expired, s \notin Persistent,
           disk[s].there, disk'[s].there, Ahead(k, s)
    PROVE  Ahead(k, s)' \/ s \in spared'[k]
<1> USE DEF Ahead, TypeOK, StorageHolds, Working, Settled
<1>a. s \in Managers /\ ~Alive(s)
  BY DEF DeadExpire
<1>1. ASSUME NEW m \in Managers, Prepare(m) PROVE Ahead(k, s)'
  BY <1>1 DEF Prepare, In, Go
<1>2. ASSUME NEW m \in Managers, OpenReader(m) PROVE Ahead(k, s)'
  BY <1>2 DEF OpenReader, In, Go, Aside
<1>3. ASSUME NEW m \in Managers, Stat(m) PROVE Ahead(k, s)'
  <2>1. m # s
    BY <1>3, <1>a DEF Stat, In
  <2> QED BY <1>3, <2>1 DEF Stat, In, Go
<1>4. ASSUME NEW m \in Managers, SessionLease(m) PROVE Ahead(k, s)'
  BY <1>4 DEF SessionLease, In, Go, TakeLease, Leases
<1>5. ASSUME NEW m \in Managers, SessionPlace(m) PROVE Ahead(k, s)'
  BY <1>5 DEF SessionPlace, In, Go
<1>6. ASSUME NEW m \in Managers, PlaceLease(m) PROVE Ahead(k, s)'
  BY <1>6 DEF PlaceLease, In, Go, TakeLease, Leases
<1>7. ASSUME NEW m \in Managers, Reuse(m) PROVE Ahead(k, s)'
  BY <1>7 DEF Reuse, In, Go, Aside, Own
<1>8. ASSUME NEW m \in Managers, NEW force \in BOOLEAN, MustConvert(m, force)
      PROVE  Ahead(k, s)'
  BY <1>8 DEF MustConvert, In, Go, Aside, Own
<1>9. ASSUME NEW m \in Managers, Parse(m) PROVE Ahead(k, s)'
  BY <1>9 DEF Parse, Go, Aside, Temporary
<1>10. ASSUME NEW m \in Managers, ConversionFails(m) PROVE Ahead(k, s)'
  BY <1>10 DEF ConversionFails, Go, Aside, Temporary
<1>11. ASSUME NEW m \in Managers, CheckPreview(m) PROVE Ahead(k, s)'
  BY <1>11 DEF CheckPreview, In, Go, Aside
<1>12. ASSUME NEW m \in Managers, CommitPreview(m) PROVE Ahead(k, s)'
  BY <1>12 DEF CommitPreview, In, Go, Aside, Own
<1>13. ASSUME NEW m \in Managers, Recheck(m) PROVE Ahead(k, s)'
  BY <1>13 DEF Recheck, In, Go, Aside, Temporary
<1>14. ASSUME NEW m \in Managers, Commit(m) PROVE Ahead(k, s)'
  BY <1>14 DEF Commit, In, Go, Aside
<1>15. ASSUME NEW m \in Managers, Reread(m) PROVE Ahead(k, s)'
  BY <1>15 DEF Reread, In, Go, Aside, Own
<1>16. ASSUME NEW m \in Managers, BeginMaintenance(m)
       PROVE  Ahead(k, s)' \/ s \in spared'[k]
  <2>1. CASE m # k
    BY <1>16, <2>1 DEF BeginMaintenance, In, Go, List
  <2>2. CASE m = k
    <3>1. storage[k] = "making" /\ k # s /\ at' = [at EXCEPT ![k] = "sessions"]
          /\ storage' = storage /\ List(k, Managers)
      BY <1>16, <2>2 DEF BeginMaintenance, In, Go
    <3>2. PICK listed :
            /\ todo' = [todo EXCEPT ![k] = listed \ {Home(k)}]
            /\ Spare(k, {d \in Managers : disk[d].there} \ (listed \cup {Home(k)}))
      BY <3>1 DEF List
    <3>3. Home(k) # s
      BY <1>a, <3>1, HomeFacts DEF Places
    <3>4. s \in todo'[k] \/ s \in spared'[k]
      BY <1>a, <3>2, <3>3 DEF Spare
    <3> QED BY <3>1, <3>4
  <2> QED BY <2>1, <2>2
<1>17. ASSUME NEW m \in Managers, RemovePlace(m)
       PROVE  Ahead(k, s)' \/ s \in spared'[k]
  <2>1. CASE m = k /\ doomed[m] = s
    <3>1. Put(s, Nothing) \/ Spare(k, {s})
      BY <1>17, <2>1 DEF RemovePlace, RemoveAll
    <3>2. ~Put(s, Nothing)
      BY <1>a, PlaceFacts DEF Put, Places
    <3> QED BY <3>1, <3>2 DEF Spare
  <2>2. CASE ~(m = k /\ doomed[m] = s)
    BY <1>17, <2>2 DEF RemovePlace
  <2> QED BY <2>1, <2>2
<1>18. ASSUME NEW m \in Managers, NextSweep(m) PROVE Ahead(k, s)'
  <2>1. at[m] \in {"sessions", "generations"} /\ todo[m] = {}
    BY <1>18 DEF NextSweep
  <2>2. \A n \in Managers \ {m} :
          at'[n] = at[n] /\ storage'[n] = storage[n] /\ todo'[n] = todo[n]
    <3>1. \A n \in Managers \ {m} : at'[n] = at[n] /\ storage'[n] = storage[n]
      BY <1>18, SweepOutcomes
    <3>2. todo' = todo \/ List(m, Generations)
      BY <1>18 DEF NextSweep
    <3>3. \A n \in Managers \ {m} : todo'[n] = todo[n]
      BY <3>2 DEF List
    <3> QED BY <3>1, <3>3
  <2>3. m # k \/ storage[k] # "making"
    BY <2>1
  <2> QED BY <2>2, <2>3, <1>18, SweepOutcomes
<1>19. ASSUME NEW m \in Managers, NEW d \in Places, Inspect(m, d)
       PROVE  Ahead(k, s)' \/ s \in spared'[k]
  <2>1. FreshLeases(s) = {}
    BY <1>a DEF LeasesHold, FreshLeases, Fresh
  <2>2. UNCHANGED <<at, storage>>
    BY <1>19 DEF Inspect
  <2>3. CASE d = s /\ m = k
    <3>1. todo' = todo \/ Spare(k, {s})
      BY <1>19, <2>1, <2>3 DEF Inspect
    <3> QED BY <2>2, <3>1 DEF Spare
  <2>4. CASE d # s \/ m # k
    <3>1. todo' = todo \/ todo' = [todo EXCEPT ![m] = @ \ {d}]
      BY <1>19 DEF Inspect
    <3>2. s \in todo[k] => s \in todo'[k]
      <4>1. todo \in [Managers -> SUBSET Places]
        OBVIOUS
      <4> HIDE DEF TypeOK, Ahead, StorageHolds
      <4> QED BY <2>4, <3>1, <4>1
    <3> QED BY <2>2, <3>2
  <2> QED BY <2>3, <2>4
<1>20. ASSUME NEW m \in Managers, CheckOwn(m) PROVE Ahead(k, s)'
  BY <1>20 DEF CheckOwn, In, Go, Leave, AfterMaintenance, Leases
<1>21. ASSUME NEW m \in Managers, ListOwn(m) PROVE Ahead(k, s)'
  BY <1>21 DEF ListOwn, In, Go
<1>22. ASSUME NEW m \in Managers, EndEviction(m) PROVE Ahead(k, s)'
  BY <1>22 DEF EndEviction, In, Go, Leave, AfterMaintenance
<1>23. ASSUME NEW m \in Managers, MaintenanceFails(m) PROVE Ahead(k, s)'
  BY <1>23 DEF MaintenanceFails, Go, Leave
<1>24. ASSUME NEW m \in Managers, DropLease(m) PROVE Ahead(k, s)'
  BY <1>24 DEF DropLease, Go, Leases
<1>25. ASSUME NEW m \in Managers, RemoveRoot(m) PROVE Ahead(k, s)'
  BY <1>25 DEF RemoveRoot, In, Go
<1>u. CASE UNCHANGED <<at, storage, todo>>
  BY <1>u
<1> QED
  BY <1>1, <1>2, <1>3, <1>4, <1>5, <1>6, <1>7, <1>8, <1>9, <1>10, <1>11, <1>12, <1>13,
     <1>14, <1>15, <1>16, <1>17, <1>18, <1>19, <1>20, <1>21, <1>22, <1>23, <1>24,
     <1>25, <1>u, WhoChangesWhat

\* What is to be swept stays so until it is gone, and then it does not come back.
LEMMA SweepStep ==
    ASSUME StoreInv, [Next]_vars, NEW k \in Managers, NEW s \in Managers, Sweeps(k, s)
    PROVE  Sweeps(k, s)'
<1>1. s \in expired' /\ Persistent' = Persistent
  <2>1. expired' = expired \/ \E m \in Managers : Expire(m)
    BY WhoChangesWhat
  <2> QED BY <2>1, WhoChangesWhat DEF Sweeps, Expire, Persistent
<1>2. ASSUME s \notin Persistent, disk'[s].there PROVE disk[s].there
  <2>1. Home(s) = s /\ s \in Places /\ (\A m \in Managers : Home(m) = s => m = s)
    BY <1>2, HomeFacts DEF StoreInv
  <2>2. disk'[s] = disk[s] \/ Written(s, disk'[s])
    BY <2>1, PlacesChange DEF StoreInv
  <2>3. ~Alive(s)
    BY DEF StoreInv, DeadExpire, Sweeps
  <2> QED BY <1>2, <2>1, <2>2, <2>3 DEF Written, MadeBy
<1>3. ASSUME s \notin Persistent, disk[s].there, disk'[s].there
      PROVE  Ahead(k, s)' \/ s \in spared'[k]
  <2>1. spared[k] \subseteq spared'[k]
    BY SparedGrows DEF StoreInv
  <2> QED BY <1>3, <2>1, AheadStep DEF StoreInv, Sweeps
<1> QED BY <1>1, <1>2, <1>3 DEF Sweeps

\* A window that begins after the lease of a crashed one has expired removes
\* what that one left, before it has its storage; unless its removal was
\* refused, its lease was taken for fresh or the sweep did not see it.
THEOREM CrashedSessionsAreSwept == Spec => CrashLeftoversSwept
<1> SUFFICES ASSUME NEW m \in Managers, NEW s \in Managers \ {m}
             PROVE  Spec => [](s \in expired /\ storage[m] = "none" =>
                       [](storage[m] = "ready" =>
                            s \in Persistent \/ ~disk[s].there \/ s \in spared[m]))
  BY DEF CrashLeftoversSwept
<1>1. s \in expired /\ storage[m] = "none" => Sweeps(m, s)
  BY DEF Sweeps, Ahead
<1>2. Sweeps(m, s) /\ StoreInv /\ [Next]_vars => Sweeps(m, s)'
  BY SweepStep
<1>3. Sweeps(m, s) => (storage[m] = "ready" =>
                          s \in Persistent \/ ~disk[s].there \/ s \in spared[m])
  BY DEF Sweeps, Ahead
<1> QED BY <1>1, <1>2, <1>3, StoreCorrect, PTL DEF Spec
=============================================================================
