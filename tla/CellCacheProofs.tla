--------------------------- MODULE CellCacheProofs ---------------------------
(***************************************************************************)
(* What the cache of cells promises, for every number of workers, every    *)
(* set of sessions and every size of the cache: only cells that compiled   *)
(* are in it, a cell is compiled with all those before it at hand, nothing *)
(* is copied half written and no file is left behind without an entry.     *)
(*                                                                         *)
(* The inductive invariant adds, for each worker, what its place between   *)
(* two awaits stands for: which cells its directory already has, and that  *)
(* what it is putting in the cache did compile.                            *)
(***************************************************************************)
EXTENDS CellCache, SequenceTheorems, FiniteSetTheorems, WellFoundedInduction, TLAPS

-----------------------------------------------------------------------------
(* Facts about the operators of CellCache.                                 *)

\* push(): one element more, at the end.
LEMMA AppendFacts ==
    ASSUME NEW S, NEW s \in Seq(S), NEW x \in S
    PROVE  /\ Append(s, x) \in Seq(S)
           /\ Len(Append(s, x)) = Len(s) + 1
           /\ ToSet(Append(s, x)) = ToSet(s) \cup {x}
           /\ IsInjective(s) /\ x \notin ToSet(s) => IsInjective(Append(s, x))
  <1>1. Append(s, x) \in Seq(S) /\ Len(Append(s, x)) = Len(s) + 1
    OBVIOUS
  <1>2. DOMAIN s = 1..Len(s) /\ DOMAIN Append(s, x) = 1..Len(s) + 1 /\ Len(s) \in Nat
    BY <1>1
  <1>3. \A i \in 1..Len(s) + 1 : Append(s, x)[i] = IF i = Len(s) + 1 THEN x ELSE s[i]
    OBVIOUS
  <1>4. ToSet(Append(s, x)) = ToSet(s) \cup {x}
    BY <1>2, <1>3 DEF ToSet
  <1>5. ASSUME IsInjective(s), x \notin ToSet(s)
        PROVE  IsInjective(Append(s, x))
    BY <1>2, <1>3, <1>5 DEF IsInjective, ToSet
  <1> QED BY <1>1, <1>4, <1>5

\* splice(i, 1): the element at i goes, the others stay in order.
LEMMA RemoveAtFacts ==
    ASSUME NEW S, NEW s \in Seq(S), NEW i \in 1..Len(s)
    PROVE  /\ RemoveAt(s, i) \in Seq(S)
           /\ Len(RemoveAt(s, i)) = Len(s) - 1
           /\ IsInjective(s) => /\ IsInjective(RemoveAt(s, i))
                                /\ ToSet(RemoveAt(s, i)) = ToSet(s) \ {s[i]}
  <1> DEFINE n == Len(s)
             r == RemoveAt(s, i)
             u == SubSeq(s, 1, i - 1)
             v == SubSeq(s, i + 1, n)
             From(j) == IF j < i THEN j ELSE j + 1
  <1>1. n \in Nat /\ i \in 1..n /\ DOMAIN s = 1..n /\ \A j \in 1..n : s[j] \in S
    OBVIOUS
  <1>2. u \in Seq(S) /\ Len(u) = i - 1 /\ \A j \in 1..i - 1 : u[j] = s[1 + j - 1]
    BY SubSeqProperties
  <1>3. v \in Seq(S) /\ Len(v) = n - i /\ \A j \in 1..n - i : v[j] = s[(i + 1) + j - 1]
    BY SubSeqProperties
  <1>4. /\ r \in Seq(S) /\ Len(r) = Len(u) + Len(v)
        /\ \A j \in 1..Len(u) + Len(v) : r[j] = IF j <= Len(u) THEN u[j] ELSE v[j - Len(u)]
    <2>1. r = u \o v
      BY DEF RemoveAt
    <2> HIDE DEF r, u, v
    <2> QED BY <1>2, <1>3, <2>1, ConcatProperties
  <1> HIDE DEF n, r, u, v
  <1>5. Len(r) = n - 1 /\ DOMAIN r = 1..n - 1 /\ \A j \in 1..n - 1 : r[j] = s[From(j)]
    <2>1. Len(r) = n - 1 /\ DOMAIN r = 1..n - 1
      BY <1>1, <1>2, <1>3, <1>4
    <2>2. ASSUME NEW j \in 1..n - 1 PROVE r[j] = s[From(j)]
      BY <1>1, <1>2, <1>3, <1>4
    <2> QED BY <2>1, <2>2
  <1>6. /\ \A j \in 1..n - 1 : From(j) \in (1..n) \ {i}
        /\ \A j, k \in 1..n - 1 : From(j) = From(k) => j = k
    BY <1>1
  <1>7. ASSUME NEW k \in (1..n) \ {i} PROVE \E j \in 1..n - 1 : k = From(j)
    <2>1. \/ k \in 1..n - 1 /\ k = From(k)
          \/ k - 1 \in 1..n - 1 /\ k = From(k - 1)
      BY <1>1
    <2> HIDE DEF From
    <2> QED BY <2>1
  <1> HIDE DEF From
  <1>8. ASSUME IsInjective(s)
        PROVE  IsInjective(r) /\ ToSet(r) = ToSet(s) \ {s[i]}
    <2>1. IsInjective(r)
      BY <1>1, <1>5, <1>6, <1>8 DEF IsInjective
    <2>2. \A k \in (1..n) \ {i} : s[k] # s[i]
      BY <1>1, <1>8 DEF IsInjective
    <2>3. ToSet(r) = {s[k] : k \in (1..n) \ {i}}
      BY <1>5, <1>6, <1>7 DEF ToSet
    <2> QED BY <1>1, <2>1, <2>2, <2>3 DEF ToSet
  <1> QED BY <1>4, <1>5, <1>8 DEF n, r

\* Min() of a non-empty set of indices is its least element.
LEMMA MinOfIndices ==
    ASSUME NEW S, S \subseteq Nat, S # {}
    PROVE  Min(S) \in S /\ \A y \in S : Min(S) <= y
  <1>1. PICK x \in S : \A y \in S : ~ (<<y, x>> \in OpToRel(<, Nat))
    BY NatLessThanWellFounded, WFMin
  <1>2. \A y \in S : x <= y
    <2> TAKE y \in S
    <2>1. x \in Nat /\ y \in Nat
      OBVIOUS
    <2>2. ~ (y < x)
      BY <1>1, <2>1 DEF OpToRel
    <2> QED BY <2>1, <2>2
  <1> QED BY <1>2 DEF Min

LEMMA WithoutFacts ==
    ASSUME NEW S, NEW s \in Seq(S), IsInjective(s), NEW k
    PROVE  /\ Without(s, k) \in Seq(S) /\ IsInjective(Without(s, k))
           /\ ToSet(Without(s, k)) = ToSet(s) \ {k}
  <1>1. CASE k \notin ToSet(s)
    BY <1>1 DEF Without
  <1>2. CASE k \in ToSet(s)
    <2> DEFINE i == CHOOSE j \in 1..Len(s) : s[j] = k
    <2>1. i \in 1..Len(s) /\ s[i] = k
      BY <1>2 DEF ToSet
    <2>2. Without(s, k) = RemoveAt(s, i)
      BY <1>2 DEF Without
    <2> HIDE DEF i
    <2> QED BY <2>1, <2>2, RemoveAtFacts
  <1> QED BY <1>1, <1>2

LEMMA MostRecentFacts ==
    ASSUME NEW S, NEW s \in Seq(S), IsInjective(s), NEW k \in S
    PROVE  /\ MostRecent(s, k) \in Seq(S) /\ IsInjective(MostRecent(s, k))
           /\ ToSet(MostRecent(s, k)) = ToSet(s) \cup {k}
  <1> DEFINE r == Without(s, k)
  <1>1. r \in Seq(S) /\ IsInjective(r) /\ ToSet(r) = ToSet(s) \ {k}
    BY WithoutFacts
  <1>2. MostRecent(s, k) = Append(r, k)
    BY DEF MostRecent
  <1> HIDE DEF r
  <1>3. /\ Append(r, k) \in Seq(S) /\ IsInjective(Append(r, k))
        /\ ToSet(Append(r, k)) = ToSet(r) \cup {k}
    BY <1>1, AppendFacts
  <1> QED BY <1>1, <1>2, <1>3

\* What init() makes of the files it finds has an entry for each of them.
LEMMA SetToSeqsFacts ==
    ASSUME NEW S, IsFiniteSet(S), NEW s \in SetToSeqs(S)
    PROVE  s \in Seq(S) /\ IsInjective(s) /\ ToSet(s) = S
  <1> DEFINE n == Cardinality(S)
  <1>1. n \in Nat
    BY FS_CardinalityType
  <1>2. /\ s \in [1..n -> S]
        /\ \A i, j \in 1..n : i # j => s[i] # s[j]
    BY DEF SetToSeqs
  <1>3. s \in Injection(1..n, S)
    BY <1>2 DEF Injection, IsInjective
  <1>4. Cardinality(1..n) = n
    BY <1>1, FS_Interval
  <1>5. s \in Surjection(1..n, S)
    BY <1>3, <1>4, FS_Injection
  <1> HIDE DEF n
  <1>6. s \in Seq(S) /\ Len(s) = n
    BY <1>1, <1>2
  <1>7. ToSet(s) = S
    <2>1. \A x \in S : \E i \in 1..n : s[i] = x
      BY <1>5 DEF Surjection
    <2> QED BY <2>1, <1>2, <1>6 DEF ToSet
  <1>8. IsInjective(s)
    BY <1>2 DEF IsInjective
  <1> QED BY <1>6, <1>7, <1>8

-----------------------------------------------------------------------------
(* The inductive invariant.                                                *)

Serving == {"compiling", "writing", "written", "renamed", "removing", "removed"}
Putting == Serving \ {"compiling"}

Shape ==
    /\ at \in [Workers -> Places]
    /\ chain \in [Workers -> Chains]
    /\ next \in [Workers -> Nat]
    /\ missing \in [Workers -> SUBSET Nat]
    /\ dir \in [Workers -> SUBSET Keys]
    /\ victims \in [Workers -> Seq(Keys)]
    /\ lru \in Seq(Keys) /\ IsInjective(lru)
    /\ files \in [Keys -> {"absent", "whole"}]

\* The cell i of w's request is in its directory or still to be compiled.
AtHand(w, i) == i \in missing[w] \/ chain[w][i] \in dir[w]

Place(w) ==
    /\ next[w] \in 1..Len(chain[w])
    /\ missing[w] \subseteq 1..Len(chain[w])
    /\ at[w] = "copying" => next[w] < Len(chain[w])
    /\ at[w] \in {"looking", "copying"} => \A i \in 1..next[w] - 1 : AtHand(w, i)
    /\ at[w] \in Serving => /\ missing[w] # {}
                            /\ \A i \in 1..Len(chain[w]) : AtHand(w, i)
    /\ at[w] \in Putting => Now(w) \in Compiles /\ Now(w) \in dir[w]
    /\ at[w] \in {"removing", "removed"} <=> victims[w] # <<>>

\* How the file of k is accounted for by a worker.
Held(w, k) == \/ at[w] = "renamed" /\ Now(w) = k
              \/ at[w] = "removing" /\ Head(victims[w]) = k

Accounted == \A k \in Keys : files[k] # "absent" =>
                k \in Cached \/ \E w \in Workers : Held(w, k)

CacheInv == /\ Shape
            /\ \A w \in Workers : Place(w)
            /\ OnlyCompiledIsCached
            /\ Accounted

LEMMA ChainFacts ==
    ASSUME NEW c \in Chains
    PROVE  /\ c \in Seq(Keys) /\ Len(c) \in Nat \ {0}
           /\ \A i \in 1..Len(c) : c[i] \in Keys
  <1>1. c \in Seq(Keys) /\ c # <<>>
    BY ChainsAssumption
  <1> QED BY <1>1

\* The cell being compiled is one of the request's, and all before it are ready.
LEMMA NowFacts ==
    ASSUME Shape, NEW w \in Workers, Place(w), missing[w] # {}
    PROVE  /\ Min(missing[w]) \in missing[w] /\ Min(missing[w]) \in 1..Len(chain[w])
           /\ \A y \in missing[w] : Min(missing[w]) <= y
           /\ Now(w) \in Keys
  <1>1. missing[w] \subseteq Nat /\ missing[w] \subseteq 1..Len(chain[w])
    BY DEF Shape, Place
  <1>2. Min(missing[w]) \in missing[w] /\ \A y \in missing[w] : Min(missing[w]) <= y
    BY <1>1, MinOfIndices
  <1>3. chain[w] \in Chains
    BY DEF Shape
  <1> QED BY <1>1, <1>2, <1>3, ChainFacts DEF Now

\* A step that leaves a worker's own variables alone leaves its place sound.
LEMMA OthersKeepTheirPlace ==
    ASSUME NEW w, Place(w),
           at'[w] = at[w], chain'[w] = chain[w], next'[w] = next[w],
           missing'[w] = missing[w], dir'[w] = dir[w], victims'[w] = victims[w]
    PROVE  Place(w)'
  BY DEF Place, AtHand, Now

LEMMA InitEstablishesInv == Init => CacheInv
  <1> SUFFICES ASSUME Init PROVE CacheInv
    OBVIOUS
  <1>1. Shape
    <2>1. <<>> \in Seq(Keys)
      OBVIOUS
    <2>2. IsInjective(<<>>)
      BY DEF IsInjective
    <2> QED BY <2>1, <2>2 DEF Init, Shape, Places
  <1>2. \A w \in Workers : Place(w)
    <2> TAKE w \in Workers
    <2>1. chain[w] \in Chains /\ next[w] = 1 /\ missing[w] = {} /\ at[w] = "idle"
          /\ victims[w] = <<>>
      BY DEF Init
    <2> QED BY <2>1, ChainFacts DEF Place, Serving, Putting
  <1>3. Cached = {}
    BY DEF Init, Cached, ToSet
  <1> QED BY <1>1, <1>2, <1>3 DEF CacheInv, OnlyCompiledIsCached, Accounted, Init

-----------------------------------------------------------------------------
(* The steps of a worker that leave the cache alone.                       *)

OnlyOf(w) == \A v \in Workers \ {w} :
    /\ at'[v] = at[v] /\ chain'[v] = chain[v] /\ next'[v] = next[v]
    /\ missing'[v] = missing[v] /\ dir'[v] = dir[v] /\ victims'[v] = victims[v]

LEMMA OthersKeepTheirs ==
    ASSUME CacheInv, NEW w \in Workers, OnlyOf(w)
    PROVE  \A v \in Workers \ {w} : Place(v)' /\ \A k \in Keys : Held(v, k)' <=> Held(v, k)
  <1> TAKE v \in Workers \ {w}
  <1>1. Place(v)
    BY DEF CacheInv
  <1>2. Place(v)'
    BY <1>1, OthersKeepTheirPlace DEF OnlyOf
  <1> QED BY <1>2 DEF OnlyOf, Held, Now

LEMMA QuietStep ==
    ASSUME CacheInv, NEW w \in Workers, OnlyOf(w), Shape', Place(w)',
           ToSet(lru') = ToSet(lru), files' = files, at[w] \notin {"renamed", "removing"}
    PROVE  CacheInv'
  <1>1. \A v \in Workers : Place(v)'
    BY OthersKeepTheirs
  <1>2. Cached' = Cached
    BY DEF Cached
  <1>3. OnlyCompiledIsCached'
    BY <1>2 DEF CacheInv, OnlyCompiledIsCached
  <1>4. Accounted'
    <2> SUFFICES ASSUME NEW k \in Keys, files[k] # "absent", k \notin Cached
                 PROVE  \E v \in Workers : Held(v, k)'
      BY <1>2 DEF Accounted
    <2>1. PICK v \in Workers : Held(v, k)
      BY DEF CacheInv, Accounted
    <2>2. v # w
      BY <2>1 DEF Held
    <2> QED BY <2>1, <2>2, OthersKeepTheirs
  <1> QED BY <1>1, <1>3, <1>4 DEF CacheInv

LEMMA BeginsKeepsInv ==
    ASSUME CacheInv, NEW w \in Workers, Begins(w)
    PROVE  CacheInv'
  <1>1. PICK c \in Chains : chain' = [chain EXCEPT ![w] = c]
    BY DEF Begins
  <1>2. OnlyOf(w) /\ Shape'
    BY <1>1 DEF Begins, cacheVars, OnlyOf, CacheInv, Shape, Places
  <1>3. /\ at[w] = "idle" /\ at'[w] = "looking" /\ chain'[w] = c /\ next'[w] = 1
        /\ missing'[w] = {} /\ victims'[w] = victims[w]
    BY <1>1 DEF Begins, CacheInv, Shape
  <1>4. Place(w)'
    <2>1. Len(c) \in Nat \ {0}
      BY ChainFacts
    <2>2. victims[w] = <<>>
      BY <1>3 DEF CacheInv, Place
    <2> QED BY <1>3, <2>1, <2>2 DEF Place, Serving, Putting
  <1> QED BY <1>2, <1>3, <1>4, QuietStep DEF Begins, cacheVars

LEMMA EndsKeepsInv ==
    ASSUME CacheInv, NEW w \in Workers,
           (at[w] = "compiling" /\ Ends(w)) \/ PutFails(w)
    PROVE  CacheInv'
  <1>1. /\ at' = [at EXCEPT ![w] = "idle"] /\ at[w] \in {"compiling", "writing", "written"}
        /\ UNCHANGED <<chain, next, missing, dir, victims, lru, files>>
    BY DEF Ends, PutFails, cacheVars
  <1>2. OnlyOf(w) /\ Shape'
    BY <1>1 DEF OnlyOf, CacheInv, Shape, Places
  <1>3. at'[w] = "idle"
    BY <1>1 DEF CacheInv, Shape
  <1>4. Place(w)'
    BY <1>1, <1>3 DEF CacheInv, Place, Serving, Putting
  <1> QED BY <1>1, <1>2, <1>4, QuietStep

LEMMA CopyLandsKeepsInv ==
    ASSUME CacheInv, NEW w \in Workers, CopyLands(w)
    PROVE  CacheInv'
  <1> DEFINE n == next[w]
             k == chain[w][n]
  <1>1. /\ at[w] = "copying" /\ Place(w)
        /\ n \in Nat /\ n \in 1..Len(chain[w]) /\ n < Len(chain[w])
    BY DEF CopyLands, CacheInv, Place, Shape
  <1>2. chain[w] \in Chains /\ Len(chain[w]) \in Nat /\ k \in Keys
    BY <1>1, ChainFacts DEF CacheInv, Shape
  <1>3. /\ at' = [at EXCEPT ![w] = "looking"] /\ next' = [next EXCEPT ![w] = @ + 1]
        /\ UNCHANGED <<chain, victims, lru, files>>
        /\ \/ /\ missing' = [missing EXCEPT ![w] = @ \cup {n}] /\ dir' = dir
           \/ /\ dir' = [dir EXCEPT ![w] = @ \cup {k}] /\ missing' = missing
    BY DEF CopyLands, cacheVars
  <1>4. OnlyOf(w) /\ Shape'
    <2>1. Shape
      BY DEF CacheInv
    <2>2. at' \in [Workers -> Places] /\ next' \in [Workers -> Nat]
      BY <2>1, <1>1, <1>3 DEF Shape, Places
    <2>3. missing' \in [Workers -> SUBSET Nat] /\ dir' \in [Workers -> SUBSET Keys]
      <3>1. /\ missing \in [Workers -> SUBSET Nat] /\ dir \in [Workers -> SUBSET Keys]
            /\ n \in Nat /\ k \in Keys
        BY <2>1, <1>1, <1>2 DEF Shape
      <3>2. \/ missing' = [missing EXCEPT ![w] = @ \cup {n}] /\ dir' = dir
            \/ dir' = [dir EXCEPT ![w] = @ \cup {k}] /\ missing' = missing
        BY <1>3
      <3> HIDE DEF k, n
      <3>3. CASE missing' = [missing EXCEPT ![w] = @ \cup {n}] /\ dir' = dir
        BY <3>1, <3>3
      <3>4. CASE dir' = [dir EXCEPT ![w] = @ \cup {k}] /\ missing' = missing
        BY <3>1, <3>4
      <3> QED BY <3>2, <3>3, <3>4
    <2>4. OnlyOf(w)
      BY <2>1, <1>3 DEF OnlyOf, Shape
    <2> QED BY <2>1, <2>2, <2>3, <2>4, <1>3 DEF Shape
  <1>5. /\ at'[w] = "looking" /\ next'[w] = n + 1 /\ chain'[w] = chain[w]
        /\ victims'[w] = victims[w]
        /\ missing[w] \subseteq missing'[w] /\ missing'[w] \subseteq missing[w] \cup {n}
        /\ dir[w] \subseteq dir'[w] /\ (n \in missing'[w] \/ k \in dir'[w])
    BY <1>3 DEF CacheInv, Shape
  <1>6. Place(w)'
    <2>1. \A i \in 1..(n + 1) - 1 : AtHand(w, i)'
      <3> TAKE i \in 1..(n + 1) - 1
      <3>1. CASE i = n
        BY <1>5, <3>1 DEF AtHand
      <3>2. CASE i # n
        <4>1. i \in 1..n - 1
          BY <1>1, <3>2
        <4>2. AtHand(w, i)
          BY <1>1, <4>1 DEF Place
        <4> QED BY <4>2, <1>5 DEF AtHand
      <3> QED BY <3>1, <3>2
    <2>2. next'[w] \in 1..Len(chain'[w]) /\ missing'[w] \subseteq 1..Len(chain'[w])
      BY <1>1, <1>2, <1>5 DEF Place
    <2>3. victims'[w] = <<>>
      BY <1>1, <1>5 DEF Place
    <2> QED BY <2>1, <2>2, <2>3, <1>5 DEF Place, Serving, Putting
  <1> QED BY <1>1, <1>3, <1>4, <1>6, QuietStep

LEMMA LooksUpKeepsInv ==
    ASSUME CacheInv, NEW w \in Workers, LooksUp(w)
    PROVE  CacheInv'
  <1> DEFINE last == Len(chain[w])
             n == next[w]
             hits == {i \in n..last - 1 : chain[w][i] \in Cached}
  <1>1. /\ at[w] = "looking" /\ Place(w) /\ Shape
        /\ n \in Nat /\ n \in 1..last
    BY DEF LooksUp, CacheInv, Place, Shape
  <1>2. chain[w] \in Chains /\ last \in Nat \ {0} /\ \A i \in 1..last : chain[w][i] \in Keys
    BY <1>1, ChainFacts DEF Shape
  <1>3. UNCHANGED <<chain, dir, victims, bytes, files>> /\ victims[w] = <<>>
    BY <1>1 DEF LooksUp, Place
  <1>4. CASE hits = {}
    <2>1. /\ missing' = [missing EXCEPT ![w] = @ \cup n..last]
          /\ next' = [next EXCEPT ![w] = last]
          /\ at' = [at EXCEPT ![w] = "compiling"] /\ lru' = lru
      BY <1>4 DEF LooksUp
    <2>2. n..last \in SUBSET Nat
      BY <1>1, <1>2
    <2>3. missing' \in [Workers -> SUBSET Nat]
      BY <1>1, <2>1, <2>2 DEF Shape
    <2>4. OnlyOf(w) /\ Shape'
      BY <1>1, <1>2, <1>3, <2>1, <2>3 DEF Shape, OnlyOf, Places
    <2>5. /\ at'[w] = "compiling" /\ next'[w] = last /\ chain'[w] = chain[w]
          /\ missing'[w] = missing[w] \cup n..last /\ dir'[w] = dir[w] /\ victims'[w] = <<>>
      BY <1>1, <1>3, <2>1 DEF Shape
    <2>6. \A i \in 1..last : AtHand(w, i)'
      <3> TAKE i \in 1..last
      <3>1. CASE i \in 1..n - 1
        BY <1>1, <3>1, <2>5 DEF Place, AtHand
      <3>2. CASE i \notin 1..n - 1
        <4>1. i \in n..last
          BY <1>1, <1>2, <3>2
        <4> QED BY <4>1, <2>5 DEF AtHand
      <3> QED BY <3>1, <3>2
    <2>7. last \in n..last /\ n..last \subseteq 1..last
      BY <1>1, <1>2
    <2>8. missing'[w] # {} /\ missing'[w] \subseteq 1..last
      BY <1>1, <2>5, <2>7 DEF Place
    <2>9. Place(w)'
      BY <1>2, <2>5, <2>6, <2>8 DEF Place, Serving, Putting
    <2> QED BY <1>1, <1>3, <2>1, <2>4, <2>9, QuietStep
  <1>5. CASE hits # {}
    <2> DEFINE m == Min(hits)
    <2>1. hits \subseteq Nat
      BY <1>1, <1>2
    <2>2. m \in hits /\ \A y \in hits : m <= y
      BY <2>1, <1>5, MinOfIndices
    <2>3. /\ m \in Nat /\ m \in n..last - 1 /\ m \in 1..last /\ m < last
          /\ chain[w][m] \in Cached /\ chain[w][m] \in Keys
      <3>1. m \in n..last - 1 /\ chain[w][m] \in Cached
        BY <2>2
      <3>2. m \in Nat /\ m \in 1..last /\ m < last
        <4> HIDE DEF m, n, last
        <4> QED BY <3>1, <1>1, <1>2
      <3> QED BY <3>1, <3>2, <1>2
    <2>4. /\ missing' = [missing EXCEPT ![w] = @ \cup n..m - 1]
          /\ next' = [next EXCEPT ![w] = m]
          /\ at' = [at EXCEPT ![w] = "copying"]
          /\ lru' = MostRecent(lru, chain[w][m])
      BY <1>5 DEF LooksUp
    <2> HIDE DEF m, hits
    <2>5. n..m - 1 \in SUBSET Nat /\ n..m - 1 \subseteq 1..last
      BY <1>1, <1>2, <2>3
    <2>6. missing' \in [Workers -> SUBSET Nat]
      BY <1>1, <2>4, <2>5 DEF Shape
    <2>7. /\ lru' \in Seq(Keys) /\ IsInjective(lru')
          /\ ToSet(lru') = ToSet(lru) \cup {chain[w][m]}
      BY <1>1, <2>3, <2>4, MostRecentFacts DEF Shape
    <2>8. ToSet(lru') = ToSet(lru)
      BY <2>3, <2>7 DEF Cached
    <2>9. OnlyOf(w) /\ Shape'
      BY <1>1, <1>3, <2>3, <2>4, <2>6, <2>7 DEF Shape, OnlyOf, Places
    <2>10. /\ at'[w] = "copying" /\ next'[w] = m /\ chain'[w] = chain[w]
           /\ missing'[w] = missing[w] \cup n..m - 1 /\ dir'[w] = dir[w]
           /\ victims'[w] = <<>>
      BY <1>1, <1>3, <2>4 DEF Shape
    <2>11. \A i \in 1..m - 1 : AtHand(w, i)'
      <3> TAKE i \in 1..m - 1
      <3>1. CASE i \in 1..n - 1
        BY <1>1, <3>1, <2>10 DEF Place, AtHand
      <3>2. CASE i \notin 1..n - 1
        <4>1. i \in n..m - 1
          BY <1>1, <2>3, <3>2
        <4> QED BY <4>1, <2>10 DEF AtHand
      <3> QED BY <3>1, <3>2
    <2>12. missing'[w] \subseteq 1..last
      BY <1>1, <2>5, <2>10 DEF Place
    <2>13. Place(w)'
      BY <2>3, <2>10, <2>11, <2>12 DEF Place, Serving, Putting
    <2> QED BY <1>1, <1>3, <2>8, <2>9, <2>13, QuietStep
  <1> QED BY <1>4, <1>5

-----------------------------------------------------------------------------
(* put(), and the cells that follow.                                       *)

\* Going on after a cell is compiled leaves the worker's place sound.
LEMMA ProceedsKeepsPlace ==
    ASSUME Shape, NEW w \in Workers, Place(w), at[w] \in Serving, Proceeds(w),
           chain' = chain, next' = next, dir' \in [Workers -> SUBSET Keys],
           dir[w] \subseteq dir'[w], Now(w) \in dir'[w],
           victims'[w] = <<>>
    PROVE  /\ Place(w)' /\ at'[w] \in {"idle", "compiling"}
           /\ missing' \in [Workers -> SUBSET Nat] /\ at' \in [Workers -> Places]
  <1> DEFINE m == Min(missing[w])
  <1>1. m \in missing[w] /\ Now(w) = chain[w][m]
    BY NowFacts DEF Place, Now
  <1> HIDE DEF m
  <1>2. missing' = [missing EXCEPT ![w] = @ \ {m}]
    BY DEF Proceeds, m
  <1>3. at' = [at EXCEPT ![w] = IF missing'[w] = {} THEN "idle" ELSE "compiling"]
    BY DEF Proceeds
  <1>4. missing' \in [Workers -> SUBSET Nat] /\ missing'[w] = missing[w] \ {m}
    BY <1>2 DEF Shape
  <1>5. /\ at' \in [Workers -> Places] /\ at'[w] \in {"idle", "compiling"}
        /\ at'[w] = "compiling" => missing'[w] # {}
    BY <1>3 DEF Shape, Places
  <1>6. \A i \in 1..Len(chain[w]) : AtHand(w, i)'
    BY <1>1, <1>4 DEF Place, AtHand
  <1>7. Place(w)'
    BY <1>4, <1>5, <1>6 DEF Place, Serving, Putting
  <1> QED BY <1>4, <1>5, <1>7

LEMMA CompiledKeepsInv ==
    ASSUME CacheInv, NEW w \in Workers, Compiled(w)
    PROVE  CacheInv'
  <1> DEFINE k == Now(w)
  <1>1. at[w] = "compiling" /\ k \in Compiles /\ Shape /\ Place(w)
    BY DEF Compiled, CacheInv
  <1>2. missing[w] # {} /\ victims[w] = <<>> /\ k \in Keys
    BY <1>1, NowFacts DEF Place, Serving
  <1>3. UNCHANGED <<chain, next, victims, lru, files>>
    BY DEF Compiled, cacheVars
  <1>4. dir' = [dir EXCEPT ![w] = @ \cup {k}]
    BY DEF Compiled
  <1>5. /\ dir' \in [Workers -> SUBSET Keys] /\ dir'[w] = dir[w] \cup {k}
        /\ \A v \in Workers \ {w} : dir'[v] = dir[v]
    <2> HIDE DEF k
    <2> QED BY <1>1, <1>2, <1>4 DEF Shape
  <1>6. CASE Proceeds(w)
    <2>1. /\ Place(w)' /\ missing' \in [Workers -> SUBSET Nat] /\ at' \in [Workers -> Places]
      BY <1>1, <1>2, <1>3, <1>5, <1>6, ProceedsKeepsPlace DEF Serving
    <2>2. OnlyOf(w) /\ Shape'
      BY <1>1, <1>3, <1>5, <1>6, <2>1 DEF Shape, OnlyOf, Proceeds
    <2> QED BY <1>1, <1>3, <2>1, <2>2, QuietStep
  <1>7. CASE at' = [at EXCEPT ![w] = "writing"] /\ missing' = missing
    <2>1. OnlyOf(w) /\ Shape'
      BY <1>1, <1>3, <1>5, <1>7 DEF Shape, OnlyOf, Places
    <2>2. at'[w] = "writing" /\ Now(w)' = k
      BY <1>1, <1>3, <1>7 DEF Shape, Now
    <2>3. \A i \in 1..Len(chain[w]) : AtHand(w, i)'
      BY <1>1, <1>3, <1>5, <1>7 DEF Place, AtHand, Serving
    <2>4. Place(w)'
      BY <1>1, <1>2, <1>3, <1>5, <1>7, <2>2, <2>3 DEF Place, Serving, Putting
    <2> QED BY <1>1, <1>3, <2>1, <2>4, QuietStep
  <1> QED BY <1>6, <1>7 DEF Compiled

\* A step in which w starts or ends holding the file of one key.
LEMMA HoldingStep ==
    ASSUME CacheInv, NEW w \in Workers, OnlyOf(w), Shape', Place(w)',
           ToSet(lru') \subseteq Compiles,
           \A k \in Keys : files'[k] # "absent" =>
              \/ k \in ToSet(lru') \/ Held(w, k)'
              \/ files[k] # "absent" /\ k \notin Cached /\ ~Held(w, k),
           \A k \in Keys : files'[k] # "absent" => k \in Compiles
    PROVE  CacheInv'
  <1>1. \A v \in Workers : Place(v)'
    BY OthersKeepTheirs
  <1>2. OnlyCompiledIsCached'
    BY DEF OnlyCompiledIsCached, Cached
  <1>3. Accounted'
    <2> SUFFICES ASSUME NEW k \in Keys, files'[k] # "absent", k \notin ToSet(lru'), ~Held(w, k)'
                 PROVE  \E v \in Workers : Held(v, k)'
      BY DEF Accounted, Cached
    <2>1. files[k] # "absent" /\ k \notin Cached /\ ~Held(w, k)
      OBVIOUS
    <2>2. PICK v \in Workers : Held(v, k)
      BY <2>1 DEF CacheInv, Accounted
    <2> QED BY <2>1, <2>2, OthersKeepTheirs
  <1> QED BY <1>1, <1>2, <1>3 DEF CacheInv

LEMMA WriteLandsKeepsInv ==
    ASSUME CacheInv, NEW w \in Workers, WriteLands(w)
    PROVE  CacheInv'
  <1>1. OnlyOf(w) /\ Shape'
    BY DEF WriteLands, cacheVars, OnlyOf, CacheInv, Shape, Places
  <1>2. at[w] = "writing" /\ at'[w] = "written" /\ UNCHANGED <<chain, next, missing, dir, victims>>
    BY DEF WriteLands, CacheInv, Shape
  <1>3. Now(w)' = Now(w)
    BY <1>2 DEF Now
  <1>4. Place(w)'
    BY <1>2, <1>3 DEF CacheInv, Place, AtHand, Serving, Putting
  <1> QED BY <1>1, <1>2, <1>4, QuietStep DEF WriteLands, cacheVars

LEMMA RenameLandsKeepsInv ==
    ASSUME CacheInv, NEW w \in Workers, RenameLands(w)
    PROVE  CacheInv'
  <1>1. /\ at[w] = "written" /\ Place(w) /\ Shape /\ Now(w) \in Compiles
        /\ missing[w] # {}
    BY DEF RenameLands, CacheInv, Place, Serving, Putting
  <1>2. Now(w) \in Keys
    BY <1>1, NowFacts
  <1>3. OnlyOf(w) /\ Shape'
    BY <1>1, <1>2 DEF RenameLands, OnlyOf, Shape, Places
  <1>4. /\ at'[w] = "renamed" /\ UNCHANGED <<chain, next, missing, dir, victims, lru>>
        /\ \A k \in Keys : k # Now(w) => files'[k] = files[k]
    BY <1>1 DEF RenameLands, Shape
  <1>5. Now(w)' = Now(w)
    BY <1>4 DEF Now
  <1>6. Place(w)'
    BY <1>1, <1>4, <1>5 DEF Place, AtHand, Serving, Putting
  <1>7. \A k \in Keys : ~Held(w, k) /\ (k = Now(w) => Held(w, k)')
    BY <1>1, <1>4, <1>5 DEF Held
  <1>8. \A k \in Keys : files'[k] # "absent" =>
            \/ k \in ToSet(lru') \/ Held(w, k)'
            \/ files[k] # "absent" /\ k \notin Cached /\ ~Held(w, k)
    <2> TAKE k \in Keys
    <2>1. CASE k = Now(w)
      BY <2>1, <1>7
    <2>2. CASE k # Now(w)
      BY <2>2, <1>4, <1>7 DEF Cached
    <2> QED BY <2>1, <2>2
  <1>9. \A k \in Keys : files'[k] # "absent" => k \in Compiles
    BY <1>1, <1>4 DEF CacheInv, OnlyCompiledIsCached
  <1>10. ToSet(lru') \subseteq Compiles
    BY <1>4 DEF CacheInv, OnlyCompiledIsCached, Cached
  <1> QED BY <1>3, <1>6, <1>8, <1>9, <1>10, HoldingStep

LEMMA RemoveLandsKeepsInv ==
    ASSUME CacheInv, NEW w \in Workers, RemoveLands(w)
    PROVE  CacheInv'
  <1> DEFINE h == Head(victims[w])
  <1>1. at[w] = "removing" /\ Place(w) /\ Shape /\ victims[w] # <<>>
    BY DEF RemoveLands, CacheInv, Place
  <1>2. h \in Keys
    <2>1. victims[w] \in Seq(Keys)
      BY <1>1 DEF Shape
    <2> QED BY <1>1, <2>1
  <1>3. OnlyOf(w) /\ Shape'
    <2> HIDE DEF h
    <2> QED BY <1>1, <1>2 DEF RemoveLands, OnlyOf, Shape, Places, h
  <1>4. /\ at'[w] = "removed" /\ UNCHANGED <<chain, next, missing, dir, victims, lru>>
        /\ files'[h] = "absent" /\ \A k \in Keys : k # h => files'[k] = files[k]
    BY <1>1, <1>2 DEF RemoveLands, Shape
  <1>5. Now(w)' = Now(w)
    BY <1>4 DEF Now
  <1>6. Place(w)'
    BY <1>1, <1>4, <1>5 DEF Place, AtHand, Serving, Putting
  <1>7. \A k \in Keys : files'[k] # "absent" =>
            \/ k \in ToSet(lru') \/ Held(w, k)'
            \/ files[k] # "absent" /\ k \notin Cached /\ ~Held(w, k)
    BY <1>1, <1>4 DEF Held, Cached
  <1>8. \A k \in Keys : files'[k] # "absent" => k \in Compiles
    BY <1>4 DEF CacheInv, OnlyCompiledIsCached
  <1>9. ToSet(lru') \subseteq Compiles
    BY <1>4 DEF CacheInv, OnlyCompiledIsCached, Cached
  <1> QED BY <1>3, <1>6, <1>7, <1>8, <1>9, HoldingStep

\* A turn of _evict(), on entries l of which the worker's own is one.
LEMMA EvictsKeepsInv ==
    ASSUME CacheInv, NEW w \in Workers, at[w] \in {"renamed", "removed"},
           NEW l \in Seq(Keys), IsInjective(l), ToSet(l) \subseteq Compiles,
           Cached \subseteq ToSet(l), at[w] = "renamed" => Now(w) \in ToSet(l),
           NEW b, NEW s \in Seq(Keys), Evicts(w, l, b, s),
           UNCHANGED <<chain, next, dir, files>>
    PROVE  CacheInv'
  <1>1. Shape /\ Place(w) /\ at[w] \in Serving /\ Now(w) \in dir[w] /\ Now(w) \in Compiles
    BY DEF CacheInv, Place, Serving, Putting
  <1>2. \A k \in Keys : files'[k] # "absent" => k \in Compiles
    BY DEF CacheInv, OnlyCompiledIsCached
  <1>3. \A k \in Keys : Held(w, k) => k \in ToSet(l)
    BY DEF Held
  <1>4. CASE b <= MaxBytes \/ s = <<>>
    <2>1. lru' = l /\ victims' = [victims EXCEPT ![w] = <<>>] /\ Proceeds(w)
      BY <1>4 DEF Evicts
    <2>2. victims' \in [Workers -> Seq(Keys)] /\ victims'[w] = <<>>
      <3>1. <<>> \in Seq(Keys)
        OBVIOUS
      <3> QED BY <1>1, <2>1, <3>1 DEF Shape
    <2>3. /\ Place(w)' /\ missing' \in [Workers -> SUBSET Nat] /\ at' \in [Workers -> Places]
      BY <1>1, <2>1, <2>2, ProceedsKeepsPlace DEF Shape
    <2>4. OnlyOf(w) /\ Shape'
      BY <1>1, <2>1, <2>2, <2>3 DEF OnlyOf, Shape, Proceeds
    <2>5. \A k \in Keys : files'[k] # "absent" =>
              \/ k \in ToSet(lru') \/ Held(w, k)'
              \/ files[k] # "absent" /\ k \notin Cached /\ ~Held(w, k)
      BY <1>3, <2>1
    <2> QED BY <1>2, <2>1, <2>3, <2>4, <2>5, HoldingStep
  <1>5. CASE ~(b <= MaxBytes \/ s = <<>>)
    <2> DEFINE h == Head(s)
    <2>1. /\ lru' = Without(l, h) /\ victims' = [victims EXCEPT ![w] = s]
          /\ at' = [at EXCEPT ![w] = "removing"] /\ missing' = missing
      BY <1>5 DEF Evicts
    <2>2. /\ lru' \in Seq(Keys) /\ IsInjective(lru') /\ ToSet(lru') = ToSet(l) \ {h}
      BY <2>1, WithoutFacts
    <2>3. OnlyOf(w) /\ Shape'
      BY <1>1, <2>1, <2>2 DEF OnlyOf, Shape, Places
    <2>4. at'[w] = "removing" /\ victims'[w] = s /\ Now(w)' = Now(w)
      BY <1>1, <2>1 DEF Shape, Now
    <2>5. Place(w)'
      BY <1>1, <1>5, <2>1, <2>4 DEF Place, AtHand, Serving, Putting
    <2>6. \A k \in Keys : files'[k] # "absent" =>
              \/ k \in ToSet(lru') \/ Held(w, k)'
              \/ files[k] # "absent" /\ k \notin Cached /\ ~Held(w, k)
      BY <1>3, <2>2, <2>4 DEF Held
    <2>7. ToSet(lru') \subseteq Compiles
      BY <2>2
    <2> QED BY <1>2, <2>3, <2>5, <2>6, <2>7, HoldingStep
  <1> QED BY <1>4, <1>5

LEMMA RecordsKeepsInv ==
    ASSUME CacheInv, NEW w \in Workers, Records(w)
    PROVE  CacheInv'
  <1> DEFINE k == Now(w)
             l == MostRecent(lru, k)
  <1>1. at[w] = "renamed" /\ Shape /\ Place(w) /\ k \in Compiles /\ missing[w] # {}
    BY DEF Records, CacheInv, Place, Serving, Putting
  <1>2. k \in Keys
    BY <1>1, NowFacts
  <1>3. l \in Seq(Keys) /\ IsInjective(l) /\ ToSet(l) = Cached \cup {k}
    BY <1>1, <1>2, MostRecentFacts DEF Shape, Cached
  <1>4. Cached \subseteq Compiles
    BY DEF CacheInv, OnlyCompiledIsCached
  <1>5. Evicts(w, l, bytes + SizeOf[k], l) /\ UNCHANGED <<chain, next, dir, files>>
    BY DEF Records
  <1> HIDE DEF l
  <1> QED BY <1>1, <1>3, <1>4, <1>5, EvictsKeepsInv

LEMMA EvictsOnKeepsInv ==
    ASSUME CacheInv, NEW w \in Workers, EvictsOn(w)
    PROVE  CacheInv'
  <1>1. at[w] = "removed" /\ Shape /\ victims[w] # <<>> /\ victims[w] \in Seq(Keys)
    BY DEF EvictsOn, CacheInv, Place, Shape
  <1>2. Tail(victims[w]) \in Seq(Keys)
    BY <1>1
  <1>3. lru \in Seq(Keys) /\ IsInjective(lru) /\ ToSet(lru) = Cached /\ Cached \subseteq Compiles
    BY <1>1 DEF Shape, CacheInv, OnlyCompiledIsCached, Cached
  <1>4. Evicts(w, lru, bytes, Tail(victims[w])) /\ UNCHANGED <<chain, next, dir, files>>
    BY DEF EvictsOn
  <1> QED BY <1>1, <1>2, <1>3, <1>4, EvictsKeepsInv

LEMMA RestartKeepsInv ==
    ASSUME CacheInv, Restart
    PROVE  CacheInv'
  <1> DEFINE found == {k \in Keys : files'[k] # "absent"}
  <1>1. Shape /\ files' \in [Keys -> {"absent", "whole"}]
    BY DEF Restart, CacheInv, Shape
  <1>2. IsFiniteSet(found) /\ found \subseteq Keys
    BY KeysAssumption, FS_Subset
  <1>3. lru' \in SetToSeqs(found)
    BY DEF Restart
  <1>4. found \subseteq Compiles
    BY DEF Restart, CacheInv, OnlyCompiledIsCached
  <1>5. \A k \in Keys : files'[k] # "absent" => k \in found
    OBVIOUS
  <1> HIDE DEF found
  <1>6. lru' \in Seq(found) /\ IsInjective(lru') /\ ToSet(lru') = found
    BY <1>2, <1>3, SetToSeqsFacts
  <1>7. lru' \in Seq(Keys)
    BY <1>2, <1>6
  <1>8. <<>> \in Seq(Keys)
    OBVIOUS
  <1>9. Shape'
    BY <1>1, <1>6, <1>7, <1>8 DEF Restart, Shape, Places
  <1>10. \A w \in Workers : Place(w)'
    <2> TAKE w \in Workers
    <2>1. /\ at'[w] = "idle" /\ victims'[w] = <<>>
          /\ UNCHANGED <<chain, next, missing, dir>>
      BY DEF Restart
    <2> QED BY <2>1 DEF CacheInv, Place, Serving, Putting
  <1>11. OnlyCompiledIsCached' /\ Accounted'
    BY <1>4, <1>5, <1>6 DEF OnlyCompiledIsCached, Accounted, Cached
  <1> QED BY <1>9, <1>10, <1>11 DEF CacheInv

-----------------------------------------------------------------------------
(* The theorems.                                                           *)

LEMMA NextKeepsInv == CacheInv /\ [Next]_vars => CacheInv'
  <1> SUFFICES ASSUME CacheInv, [Next]_vars PROVE CacheInv'
    OBVIOUS
  <1>1. CASE UNCHANGED vars
    BY <1>1 DEF vars, cacheVars, CacheInv, Shape, Place, AtHand, Now, OnlyCompiledIsCached,
                Accounted, Held, Cached
  <1>2. CASE Restart
    BY <1>2, RestartKeepsInv
  <1>3. CASE \E w \in Workers : WorkerNext(w)
    <2> PICK w \in Workers : WorkerNext(w)
      BY <1>3
    <2>1. CASE Begins(w)
      BY <2>1, BeginsKeepsInv
    <2>2. CASE LooksUp(w)
      BY <2>2, LooksUpKeepsInv
    <2>3. CASE CopyLands(w)
      BY <2>3, CopyLandsKeepsInv
    <2>4. CASE Compiled(w)
      BY <2>4, CompiledKeepsInv
    <2>5. CASE DoesNotCompile(w) \/ CompilerStops(w) \/ PutFails(w)
      BY <2>5, EndsKeepsInv DEF DoesNotCompile, CompilerStops
    <2>6. CASE WriteLands(w)
      BY <2>6, WriteLandsKeepsInv
    <2>7. CASE RenameLands(w)
      BY <2>7, RenameLandsKeepsInv
    <2>8. CASE Records(w)
      BY <2>8, RecordsKeepsInv
    <2>9. CASE RemoveLands(w)
      BY <2>9, RemoveLandsKeepsInv
    <2>10. CASE EvictsOn(w)
      BY <2>10, EvictsOnKeepsInv
    <2> QED BY <2>1, <2>2, <2>3, <2>4, <2>5, <2>6, <2>7, <2>8, <2>9, <2>10 DEF WorkerNext
  <1> QED BY <1>1, <1>2, <1>3 DEF Next

LEMMA CacheInvHolds == Spec => []CacheInv
  BY InitEstablishesInv, NextKeepsInv, PTL DEF Spec

\* What is in the directory besides assemblies.
Litter == litter \in BOOLEAN /\ failed \in BOOLEAN /\ (litter => failed)

LEMMA LitterHolds == Spec => []Litter
  <1>1. Init => Litter
    BY DEF Init, Litter
  <1>2. Litter /\ [Next]_vars => Litter'
    <2> SUFFICES ASSUME Litter, [Next]_vars PROVE Litter'
      OBVIOUS
    <2>1. ASSUME NEW w \in Workers, PutFails(w) PROVE Litter'
      BY <2>1 DEF PutFails, Litter
    <2>2. CASE Restart
      BY <2>2 DEF Restart, Litter
    <2>3. CASE UNCHANGED tempVars
      BY <2>3 DEF tempVars, Litter
    <2>4. ASSUME NEW w \in Workers, WorkerNext(w), ~PutFails(w) PROVE UNCHANGED tempVars
      BY <2>4 DEF WorkerNext, Begins, LooksUp, CopyLands, Compiled, DoesNotCompile,
                  CompilerStops, Ends, WriteLands, RenameLands, Records, RemoveLands,
                  EvictsOn, cacheVars
    <2> QED BY <2>1, <2>2, <2>3, <2>4 DEF Next, vars, cacheVars
  <1> QED BY <1>1, <1>2, PTL DEF Spec

-----------------------------------------------------------------------------
(* The count of the bytes.                                                  *)

\* What a fold over the members of S, taken in CHOOSE's order, has come to for
\* each of the sets in D, in which its remainders are too.
AnyOf(s) == CHOOSE x \in s : TRUE
Sums(f, D) ==
    \A s \in D : f[s] = IF s = {} THEN 0 ELSE SizeOf[AnyOf(s)] + f[s \ {AnyOf(s)}]

\* A set of keys without one of its members is smaller by one.
LEMMA RemainderFacts ==
    ASSUME NEW S \in SUBSET Keys
    PROVE  /\ Cardinality(S) \in Nat /\ (Cardinality(S) = 0 <=> S = {})
           /\ S # {} =>
                 /\ AnyOf(S) \in S /\ SizeOf[AnyOf(S)] \in Nat
                 /\ Cardinality(S \ {AnyOf(S)}) = Cardinality(S) - 1
  <1>1. IsFiniteSet(S)
    BY KeysAssumption, FS_Subset
  <1>2. Cardinality(S) \in Nat /\ (Cardinality(S) = 0 <=> S = {})
    BY <1>1, FS_CardinalityType, FS_EmptySet
  <1>3. ASSUME S # {}
        PROVE  /\ AnyOf(S) \in S /\ SizeOf[AnyOf(S)] \in Nat
               /\ Cardinality(S \ {AnyOf(S)}) = Cardinality(S) - 1
    <2>1. AnyOf(S) \in S
      BY <1>3 DEF AnyOf
    <2>2. Cardinality(S \ {AnyOf(S)}) = Cardinality(S) - 1
      BY <1>1, <2>1, FS_RemoveElement
    <2> QED BY <2>1, <2>2, SizesAssumption
  <1> QED BY <1>2, <1>3

\* There is such a fold for the sets of any size up to that of S.
LEMMA SumsExist ==
    ASSUME NEW S \in SUBSET Keys
    PROVE  \E f \in [SUBSET S -> Nat] : Sums(f, SUBSET S)
  <1> DEFINE n == Cardinality(S)
             Small(k) == {s \in SUBSET S : Cardinality(s) <= k}
             P(k) == \E f \in [Small(k) -> Nat] : Sums(f, Small(k))
             bad == {k \in 0..n : ~P(k)}
             least == Min(bad)
  <1>1. n \in Nat /\ \A s \in SUBSET S : Cardinality(s) \in 0..n
    <2>1. ASSUME NEW s \in SUBSET S PROVE Cardinality(s) \in Nat /\ Cardinality(s) <= n
      BY KeysAssumption, FS_Subset, FS_CardinalityType
    <2>2. n \in Nat
      BY RemainderFacts
    <2> HIDE DEF n
    <2> QED BY <2>1, <2>2
  <1>2. Small(n) = SUBSET S
    <2> HIDE DEF n
    <2> QED BY <1>1
  <1>3. ASSUME NEW s \in SUBSET S, s # {}
        PROVE  /\ SizeOf[AnyOf(s)] \in Nat /\ s \ {AnyOf(s)} \in SUBSET S
               /\ Cardinality(s \ {AnyOf(s)}) = Cardinality(s) - 1
    BY <1>3, RemainderFacts
  <1>4. P(0)
    <2> DEFINE f == [s \in Small(0) |-> 0]
    <2>1. \A s \in Small(0) : s = {}
      <3> TAKE s \in Small(0)
      <3>1. s \in SUBSET Keys /\ Cardinality(s) <= 0
        OBVIOUS
      <3>2. Cardinality(s) \in Nat /\ (Cardinality(s) = 0 => s = {})
        BY <3>1, RemainderFacts
      <3>3. Cardinality(s) = 0
        BY <3>1, <3>2
      <3> QED BY <3>2, <3>3
    <2>2. f \in [Small(0) -> Nat]
      OBVIOUS
    <2>3. Sums(f, Small(0))
      BY <2>1 DEF Sums
    <2> QED BY <2>2, <2>3
  <1>5. ASSUME NEW k \in 0..n, k + 1 <= n, P(k) PROVE P(k + 1)
    <2>1. PICK f \in [Small(k) -> Nat] : Sums(f, Small(k))
      BY <1>5
    <2> DEFINE h == [s \in Small(k + 1) |->
                        IF s = {} THEN 0 ELSE SizeOf[AnyOf(s)] + f[s \ {AnyOf(s)}]]
    <2>2. k \in Nat
      BY <1>1
    <2>3. ASSUME NEW s \in Small(k + 1), s # {}
          PROVE  s \ {AnyOf(s)} \in Small(k) /\ SizeOf[AnyOf(s)] \in Nat
      <3>1. s \in SUBSET S /\ Cardinality(s) <= k + 1 /\ Cardinality(s) \in Nat
        BY <1>1
      <3> HIDE DEF n
      <3> QED BY <1>3, <2>2, <2>3, <3>1
    <2>4. \A s \in Small(k) : s \in Small(k + 1)
      <3> TAKE s \in Small(k)
      <3>1. s \in SUBSET S /\ Cardinality(s) <= k /\ Cardinality(s) \in Nat
        BY <1>1
      <3> HIDE DEF n
      <3> QED BY <2>2, <3>1
    <2> HIDE DEF Small, n
    <2>5. h \in [Small(k + 1) -> Nat]
      BY <2>3
    <2>6. \A s \in Small(k) : h[s] = f[s]
      BY <2>1, <2>4 DEF Sums
    <2>7. Sums(h, Small(k + 1))
      <3> SUFFICES ASSUME NEW s \in Small(k + 1)
                   PROVE  h[s] = IF s = {} THEN 0
                                 ELSE SizeOf[AnyOf(s)] + h[s \ {AnyOf(s)}]
        BY DEF Sums
      <3>1. CASE s = {}
        BY <3>1
      <3>2. CASE s # {}
        <4>1. h[s \ {AnyOf(s)}] = f[s \ {AnyOf(s)}]
          BY <2>3, <2>6, <3>2
        <4> QED BY <3>2, <4>1
      <3> QED BY <3>1, <3>2
    <2> HIDE DEF h
    <2> QED BY <2>5, <2>7
  <1>6. P(n)
    <2> SUFFICES ASSUME ~P(n) PROVE FALSE
      OBVIOUS
    <2> HIDE DEF P, n
    <2>1. bad # {} /\ bad \subseteq Nat
      BY <1>1
    <2>2. least \in bad /\ \A y \in bad : least <= y
      BY <2>1, MinOfIndices
    <2> HIDE DEF least
    <2>3. least # 0 /\ least - 1 \in 0..n /\ P(least - 1)
      BY <1>1, <1>4, <2>2
    <2>4. P((least - 1) + 1)
      BY <1>1, <1>5, <2>2, <2>3
    <2>5. (least - 1) + 1 = least
      BY <1>1, <2>2
    <2> QED BY <2>2, <2>4, <2>5
  <1> HIDE DEF n, Small
  <1> QED BY <1>2, <1>6

\* And all such folds come to numbers.
LEMMA SumsAreNumbers ==
    ASSUME NEW S \in SUBSET Keys, NEW f, Sums(f, SUBSET S)
    PROVE  \A s \in SUBSET S : f[s] \in Nat
  <1> DEFINE Odd(k) == \E s \in SUBSET S : Cardinality(s) = k /\ f[s] \notin Nat
             bad == {k \in Nat : Odd(k)}
             least == Min(bad)
  <1> SUFFICES ASSUME NEW t \in SUBSET S, f[t] \notin Nat PROVE FALSE
    OBVIOUS
  <1>1. bad # {} /\ bad \subseteq Nat
    <2>1. Cardinality(t) \in Nat
      BY RemainderFacts
    <2> QED BY <2>1
  <1>2. least \in bad /\ \A k \in bad : least <= k
    <2> HIDE DEF bad
    <2> QED BY <1>1, MinOfIndices
  <1> HIDE DEF least
  <1>3. PICK s \in SUBSET S : Cardinality(s) = least /\ f[s] \notin Nat
    BY <1>2
  <1>4. f[s] = IF s = {} THEN 0 ELSE SizeOf[AnyOf(s)] + f[s \ {AnyOf(s)}]
    BY DEF Sums
  <1>5. s # {}
    BY <1>3, <1>4
  <1>6. /\ SizeOf[AnyOf(s)] \in Nat /\ s \ {AnyOf(s)} \in SUBSET S
        /\ Cardinality(s \ {AnyOf(s)}) = least - 1 /\ least - 1 \in Nat
    <2>1. Cardinality(s \ {AnyOf(s)}) \in Nat
      BY RemainderFacts
    <2> QED BY <1>3, <1>5, <2>1, RemainderFacts
  <1>7. f[s \ {AnyOf(s)}] \notin Nat
    BY <1>3, <1>4, <1>5, <1>6
  <1>8. Odd(least - 1)
    BY <1>6, <1>7
  <1>9. least - 1 \in bad
    BY <1>6, <1>8
  <1> QED BY <1>2, <1>6, <1>9

\* init() counts a number of bytes.
LEMMA BytesAreANumber ==
    ASSUME NEW S \in SUBSET Keys
    PROVE  BytesOf(S) \in Nat
  <1> DEFINE h == CHOOSE h : h = [s \in SUBSET S |->
                      IF s = {} THEN 0 ELSE SizeOf[CHOOSE x \in s : TRUE]
                                            + h[s \ {CHOOSE x \in s : TRUE}]]
  <1>1. PICK f \in [SUBSET S -> Nat] : Sums(f, SUBSET S)
    BY SumsExist
  <1>2. f = [s \in SUBSET S |-> IF s = {} THEN 0 ELSE SizeOf[CHOOSE x \in s : TRUE]
                                                  + f[s \ {CHOOSE x \in s : TRUE}]]
    BY <1>1 DEF Sums, AnyOf
  <1>3. h = [s \in SUBSET S |-> IF s = {} THEN 0 ELSE SizeOf[CHOOSE x \in s : TRUE]
                                                  + h[s \ {CHOOSE x \in s : TRUE}]]
    BY <1>2
  <1>4. BytesOf(S) = h[S]
    BY DEF BytesOf, MapThenSumSet, MapThenFoldSet
  <1> HIDE DEF h
  <1>5. Sums(h, SUBSET S)
    BY <1>3 DEF Sums, AnyOf
  <1> QED BY <1>4, <1>5, SumsAreNumbers

\* It stays a number, whatever is evicted; it may fall below the truth.
LEMMA CountHolds == Spec => [](bytes \in Int)
  <1>1. Init => bytes \in Int
    BY DEF Init
  <1>2. ASSUME NEW w \in Workers, NEW l, NEW b \in Int, NEW s \in Seq(Keys), Evicts(w, l, b, s)
        PROVE  bytes' \in Int
    <2>1. s # <<>> => SizeOf[Head(s)] \in Nat
      BY SizesAssumption
    <2> QED BY <1>2, <2>1 DEF Evicts
  <1>3. CacheInv /\ bytes \in Int /\ [Next]_vars => (bytes \in Int)'
    <2> SUFFICES ASSUME CacheInv, bytes \in Int, [Next]_vars PROVE bytes' \in Int
      OBVIOUS
    <2>1. CASE UNCHANGED vars
      BY <2>1 DEF vars, cacheVars
    <2>2. CASE Restart
      <3>1. bytes' = BytesOf({k \in Keys : files'[k] # "absent"})
        BY <2>2 DEF Restart
      <3>2. {k \in Keys : files'[k] # "absent"} \in SUBSET Keys
        OBVIOUS
      <3> QED BY <3>1, <3>2, BytesAreANumber
    <2>3. ASSUME NEW w \in Workers, Records(w) PROVE bytes' \in Int
      <3> DEFINE l == MostRecent(lru, Now(w))
      <3>1. Shape /\ Place(w) /\ missing[w] # {}
        BY <2>3 DEF Records, CacheInv, Place, Serving
      <3>2. Now(w) \in Keys
        BY <3>1, NowFacts
      <3>3. l \in Seq(Keys)
        BY <3>1, <3>2, MostRecentFacts DEF Shape
      <3>4. bytes + SizeOf[Now(w)] \in Int
        BY <3>2, SizesAssumption
      <3>5. Evicts(w, l, bytes + SizeOf[Now(w)], l)
        BY <2>3 DEF Records
      <3> HIDE DEF l
      <3> QED BY <1>2, <3>3, <3>4, <3>5
    <2>4. ASSUME NEW w \in Workers, EvictsOn(w) PROVE bytes' \in Int
      <3>1. Shape /\ Place(w) /\ at[w] = "removed"
        BY <2>4 DEF EvictsOn, CacheInv
      <3>2. victims[w] \in Seq(Keys) /\ victims[w] # <<>>
        BY <3>1 DEF Shape, Place
      <3>3. Tail(victims[w]) \in Seq(Keys)
        BY <3>2
      <3>4. Evicts(w, lru, bytes, Tail(victims[w]))
        BY <2>4 DEF EvictsOn
      <3> QED BY <1>2, <3>3, <3>4
    <2>5. ASSUME NEW w \in Workers, WorkerNext(w), ~Records(w), ~EvictsOn(w)
          PROVE  bytes' = bytes
      BY <2>5 DEF WorkerNext, Begins, LooksUp, CopyLands, Compiled, DoesNotCompile,
                  CompilerStops, PutFails, Ends, WriteLands, RenameLands, RemoveLands, cacheVars
    <2> QED BY <2>1, <2>2, <2>3, <2>4, <2>5 DEF Next
  <1> QED BY <1>1, <1>3, CacheInvHolds, PTL DEF Spec

\* Every variable holds what its comment says, at each place between two awaits:
\* a request always has a cell to go on with, an eviction an entry to remove, and
\* no key has two entries (cells.js: the count, the Map and what is awaited).
THEOREM TypeCorrect == Spec => []TypeOK
  <1>1. CacheInv /\ bytes \in Int /\ Litter => TypeOK
    <2> SUFFICES ASSUME CacheInv, bytes \in Int, Litter PROVE TypeOK
      OBVIOUS
    <2>1. ASSUME NEW w \in Workers
          PROVE  /\ next[w] \in 1..Len(chain[w]) /\ missing[w] \subseteq 1..Len(chain[w])
                 /\ dir[w] \subseteq Keys /\ victims[w] \in Seq(Keys)
                 /\ at[w] = "copying" => next[w] < Len(chain[w])
                 /\ at[w] \in {"removing", "removed"} <=> victims[w] # <<>>
                 /\ at[w] \notin {"idle", "looking", "copying"} => missing[w] # {}
      BY DEF CacheInv, Shape, Place, Places, Serving
    <2> QED BY <2>1 DEF CacheInv, Shape, Litter, TypeOK
  <1> QED BY <1>1, CacheInvHolds, CountHolds, LitterHolds, PTL

\* Only cells that compiled have an entry or a file, whichever requests run
\* together and wherever they, the compiler or the service stop.
THEOREM OnlyGoodCells == Spec => []OnlyCompiledIsCached
  <1>1. CacheInv => OnlyCompiledIsCached
    BY DEF CacheInv
  <1> QED BY <1>1, CacheInvHolds, PTL

\* Whenever a cell is being compiled, all those before it are in the request's
\* directory, although the cache may have lost any of them since the lookup.
THEOREM ReferencesAreReady == Spec => []ReferencesReady
  <1>1. CacheInv => ReferencesReady
    <2> SUFFICES ASSUME CacheInv, NEW w \in Workers, at[w] = "compiling",
                        NEW i \in 1..Min(missing[w]) - 1
                 PROVE  chain[w][i] \in dir[w]
      BY DEF ReferencesReady
    <2>1. /\ Shape /\ Place(w) /\ missing[w] # {}
          /\ \A j \in 1..Len(chain[w]) : AtHand(w, j)
      BY DEF CacheInv, Place, Serving
    <2> DEFINE m == Min(missing[w])
    <2>2. m \in 1..Len(chain[w]) /\ \A y \in missing[w] : m <= y
      BY <2>1, NowFacts
    <2>3. chain[w] \in Chains
      BY <2>1 DEF Shape
    <2>4. Len(chain[w]) \in Nat
      BY <2>3, ChainFacts
    <2>5. i \in 1..m - 1
      OBVIOUS
    <2> HIDE DEF m
    <2>6. i \in 1..Len(chain[w]) /\ ~(m <= i)
      BY <2>2, <2>4, <2>5
    <2> QED BY <2>1, <2>2, <2>6 DEF AtHand
  <1> QED BY <1>1, CacheInvHolds, PTL

\* Every assembly in the directory has an entry, is about to have one, or is
\* being removed; what else is there that no put will rename was left by a put
\* that has failed since the service started.
THEOREM FilesAreAccountedFor == Spec => []NoFileIsForgotten
  <1>1. CacheInv /\ Litter => NoFileIsForgotten
    BY DEF CacheInv, Accounted, Held, Litter, NoFileIsForgotten
  <1> QED BY <1>1, CacheInvHolds, LitterHolds, PTL

\* What a request copies out of the cache is a whole assembly.
THEOREM CopiesAreWhole == Spec => NoTornCopy
  <1>1. CacheInv /\ [Next]_vars =>
            [\A w \in Workers : at[w] = "copying" /\ dir'[w] # dir[w]
                => files[chain[w][next[w]]] = "whole"]_vars
    <2> SUFFICES ASSUME CacheInv, [Next]_vars, NEW w \in Workers,
                        at[w] = "copying", dir'[w] # dir[w]
                 PROVE  files[chain[w][next[w]]] = "whole"
      OBVIOUS
    <2>1. CopyLands(w)
      BY DEF Next, WorkerNext, vars, Restart, Begins, LooksUp, CopyLands, Compiled,
             DoesNotCompile, CompilerStops, PutFails, Ends, WriteLands, RenameLands,
             Records, RemoveLands, EvictsOn, cacheVars, CacheInv, Shape
    <2>2. files[chain[w][next[w]]] # "absent"
      BY <2>1 DEF CopyLands
    <2>3. Shape /\ Place(w) /\ chain[w] \in Chains /\ next[w] \in 1..Len(chain[w])
      BY DEF CacheInv, Place, Shape
    <2>4. chain[w][next[w]] \in Keys
      BY <2>3, ChainFacts
    <2> QED BY <2>2, <2>3, <2>4 DEF Shape
  <1> QED BY <1>1, CacheInvHolds, PTL DEF Spec, NoTornCopy
=============================================================================
