-------------------------- MODULE NestedCoroProofs --------------------------
(***************************************************************************)
(* Proof that TaggedCoro implements NestedCoro under the mapping of        *)
(* NestedCoroRefinement, for any threads, tags and values: stacks of       *)
(* coroutines as sequences, the invariant the mapping needs, and a lemma   *)
(* per action of TaggedCoro.                                               *)
(***************************************************************************)
EXTENDS NestedCoroRefinement, TaggedCoroProofs, FiniteSetTheorems

\* A set of positive numbers up to n that holds 1 and with each the next has them all.
LEMMA UpTo ==
    ASSUME NEW n \in Nat, NEW T, 1 \in T, \A i \in T : i + 1 \in 1..n => i + 1 \in T
    PROVE  1..n \subseteq T
<1> DEFINE C == {i \in 1..n : i \notin T}
           R == {ij \in Nat \X Nat : ij[1] < ij[2]}
<1> SUFFICES ASSUME C # {} PROVE FALSE
  OBVIOUS
<1>1. IsWellFoundedOn(R, Nat)
  BY NatLessThanWellFounded DEF OpToRel
<1>2. C \subseteq Nat
  OBVIOUS
<1> HIDE DEF R
<1>3. PICK i \in C : \A j \in C : ~(<<j, i>> \in R)
  BY <1>1, <1>2, WFMin, Zenon
<1>4. i # 1 /\ i \in 1..n
  OBVIOUS
<1>5. i - 1 \in 1..n /\ i - 1 < i
  BY <1>4
<1>6. i - 1 \notin C
  <2>1. <<i - 1, i>> \in Nat \X Nat
    BY <1>4, <1>5
  <2>2. <<i - 1, i>> \in R
    BY <1>5, <2>1 DEF R
  <2> HIDE DEF C
  <2> QED BY <1>3, <2>2
<1> QED BY <1>4, <1>5, <1>6

\* A path comes across what the walk does.
LEMMA PathWalks ==
    ASSUME NEW t \in Thread, NEW next, Steps(next), NEW s \in Seq(Thread), s # <<>>,
           IsPath(s, t, next)
    PROVE  Walk(t, next) = {s[i] : i \in 1..Len(s)}
<1> DEFINE n == Len(s)
           R == {s[i] : i \in 1..n}
           T == {i \in 1..n : s[i] \in Walk(t, next)}
<1>1. n \in Nat \ {0} /\ DOMAIN s = 1..n /\ \A i \in 1..n : s[i] \in Thread
  OBVIOUS
<1>2. s[1] = t /\ \A i \in 1..n : next[s[i]] = IF i = n THEN Nil ELSE s[i + 1]
  BY <1>1 DEF IsPath
<1> HIDE DEF n
<1>3. Walk(t, next) \subseteq R
  <2>1. R \in SUBSET Thread /\ t \in R
    BY <1>1, <1>2
  <2>2. Closed(R, next)
    <3> SUFFICES ASSUME NEW i \in 1..n, next[s[i]] # Nil PROVE next[s[i]] \in R
      BY DEF Closed
    <3> QED BY <1>1, <1>2
  <2> QED BY <2>1, <2>2, WalkStays
<1>4. 1 \in T
  BY <1>1, <1>2, WalkBegins
<1>5. ASSUME NEW i \in T, i + 1 \in 1..n PROVE i + 1 \in T
  <2>1. i \in 1..n /\ i # n
    BY <1>5, <1>1
  <2>2. next[s[i]] = s[i + 1] /\ s[i + 1] # Nil
    BY <1>1, <1>2, <1>5, <2>1, ThreadAssumption
  <2>3. Closed(Walk(t, next), next)
    BY WalkGoesOn
  <2>4. s[i + 1] \in Walk(t, next)
    BY <2>2, <2>3 DEF Closed
  <2> QED BY <1>5, <2>4
<1> HIDE DEF T
<1>6. 1..n \subseteq T
  BY <1>1, <1>4, <1>5, UpTo
<1>7. R \subseteq Walk(t, next)
  BY <1>6 DEF T
<1> QED BY <1>3, <1>7 DEF n

\* There is one path from t.
LEMMA PathIsOne ==
    ASSUME NEW t \in Thread, NEW next, Steps(next),
           NEW s \in Seq(Thread), s # <<>>, IsPath(s, t, next),
           NEW u \in Seq(Thread), u # <<>>, IsPath(u, t, next)
    PROVE  s = u
<1> DEFINE m == Len(s)
           n == Len(u)
           T == {i \in 1..m : i \in 1..n /\ s[i] = u[i]}
<1>1. /\ m \in Nat \ {0} /\ DOMAIN s = 1..m /\ \A i \in 1..m : s[i] \in Thread
      /\ n \in Nat \ {0} /\ DOMAIN u = 1..n /\ \A i \in 1..n : u[i] \in Thread
  OBVIOUS
<1>2. /\ s[1] = t /\ \A i \in 1..m : next[s[i]] = IF i = m THEN Nil ELSE s[i + 1]
      /\ u[1] = t /\ \A i \in 1..n : next[u[i]] = IF i = n THEN Nil ELSE u[i + 1]
  BY <1>1 DEF IsPath
<1> HIDE DEF m, n
<1>3. 1 \in T
  BY <1>1, <1>2
<1>4. ASSUME NEW i \in T, i + 1 \in 1..m PROVE i + 1 \in T
  <2>1. i \in 1..m /\ i # m /\ i \in 1..n /\ s[i] = u[i]
    BY <1>1, <1>4
  <2>2. next[u[i]] = s[i + 1] /\ s[i + 1] # Nil
    BY <1>1, <1>2, <1>4, <2>1, ThreadAssumption
  <2>3. i # n /\ u[i + 1] = s[i + 1]
    BY <1>2, <2>1, <2>2
  <2> QED BY <1>1, <1>4, <2>1, <2>3
<1> HIDE DEF T
<1>5. 1..m \subseteq T
  BY <1>1, <1>3, <1>4, UpTo
<1>6. \A i \in 1..m : i \in 1..n /\ s[i] = u[i]
  BY <1>5 DEF T
<1>7. m = n
  <2>1. m \in 1..n /\ s[m] = u[m]
    BY <1>1, <1>6
  <2>2. m # n => u[m + 1] = Nil /\ m + 1 \in 1..n
    BY <1>1, <1>2, <2>1
  <2> QED BY <1>1, <2>2, ThreadAssumption
<1> QED BY <1>6, <1>7, SeqEqual DEF m, n

\* So it is what Path chooses.
LEMMA PathIs ==
    ASSUME NEW t \in Thread, NEW next, Steps(next), NEW s \in Seq(Thread), s # <<>>,
           IsPath(s, t, next)
    PROVE  Path(t, next) = s
<1> DEFINE W == Walk(t, next)
<1>1. W = {s[i] : i \in 1..Len(s)} /\ W \subseteq Thread
  BY PathWalks, WalkBegins
<1>2. Len(s) \in Nat /\ DOMAIN s = 1..Len(s) /\ s \in [1..Len(s) -> Thread]
  OBVIOUS
<1>3. \A i, j \in 1..Len(s) : s[i] = s[j] => i = j
  BY <1>2 DEF IsPath
<1> HIDE DEF W
<1>4. s \in [1..Len(s) -> W]
  BY <1>1, <1>2
<1>5. s \in Bijection(1..Len(s), W)
  BY <1>1, <1>3, <1>4 DEF Bijection, Injection, Surjection, IsInjective
<1>6. Cardinality(W) = Len(s)
  <2>1. ExistsBijection(1..Len(s), W)
    BY <1>5 DEF ExistsBijection
  <2>2. IsFiniteSet(1..Len(s)) /\ Cardinality(1..Len(s)) = Len(s)
    BY <1>2, FS_Interval
  <2> QED BY <2>1, <2>2, FS_Bijection
<1>7. ASSUME NEW u \in [1..Cardinality(W) -> W], IsPath(u, t, next)
      PROVE  u = s
  <2>1. u \in [1..Len(s) -> W] /\ Len(s) # 0
    BY <1>2, <1>6, <1>7
  <2>2. u \in [1..Len(s) -> Thread]
    BY <1>1, <2>1
  <2>3. u \in Seq(Thread) /\ u # <<>>
    BY <1>2, <2>1, <2>2, SeqDef
  <2> QED BY <1>7, <2>3, PathIsOne
<1>8. Path(t, next) = CHOOSE u \in [1..Cardinality(W) -> W] : IsPath(u, t, next)
  BY DEF Path, W
<1> QED BY <1>4, <1>6, <1>7, <1>8

HasPaths(next) ==
    \A t \in Thread : \E s \in Seq(Thread) : s # <<>> /\ IsPath(s, t, next)

\* What IsPath says of a sequence of threads, index by index.
LEMMA PathIndexes ==
    ASSUME NEW t \in Thread, NEW next, NEW s \in Seq(Thread), s # <<>>
    PROVE  /\ Len(s) \in Nat \ {0} /\ 1 \in 1..Len(s) /\ Len(s) \in 1..Len(s)
           /\ \A i \in 1..Len(s) : s[i] \in Thread /\ s[i] # Nil
           /\ IsPath(s, t, next) <=>
                 /\ s[1] = t
                 /\ \A i, j \in 1..Len(s) : s[i] = s[j] => i = j
                 /\ \A i \in 1..Len(s) : next[s[i]] = IF i = Len(s) THEN Nil ELSE s[i + 1]
<1>1. Len(s) \in Nat \ {0} /\ DOMAIN s = 1..Len(s) /\ \A i \in 1..Len(s) : s[i] \in Thread
  OBVIOUS
<1>2. 1 \in 1..Len(s) /\ Len(s) \in 1..Len(s)
  BY <1>1
<1>3. \A i \in 1..Len(s) : s[i] # Nil
  BY <1>1, ThreadAssumption
<1> QED BY <1>1, <1>2, <1>3 DEF IsPath

\* Path gives the path there is.
LEMMA ThePath ==
    ASSUME NEW t \in Thread, NEW next, Steps(next), HasPaths(next)
    PROVE  /\ Path(t, next) \in Seq(Thread)
           /\ Path(t, next) # <<>>
           /\ IsPath(Path(t, next), t, next)
           /\ Walk(t, next) = {Path(t, next)[i] : i \in 1..Len(Path(t, next))}
<1>1. PICK s \in Seq(Thread) : s # <<>> /\ IsPath(s, t, next)
  BY DEF HasPaths
<1>2. Path(t, next) = s
  BY <1>1, PathIs
<1> QED BY <1>1, <1>2, PathWalks

\* What follows on a path is a path.
LEMMA PathSuffix ==
    ASSUME NEW t \in Thread, NEW next, NEW s \in Seq(Thread), s # <<>>,
           IsPath(s, t, next), NEW k \in 1..Len(s)
    PROVE  LET u == SubSeq(s, k, Len(s)) IN
           u \in Seq(Thread) /\ u # <<>> /\ IsPath(u, s[k], next)
<1> DEFINE n == Len(s)
           u == SubSeq(s, k, n)
<1>1. /\ n \in Nat \ {0} /\ \A i \in 1..n : s[i] \in Thread
      /\ \A i, j \in 1..n : s[i] = s[j] => i = j
      /\ \A i \in 1..n : next[s[i]] = IF i = n THEN Nil ELSE s[i + 1]
  BY PathIndexes
<1> HIDE DEF n
<1>2. k \in 1..n /\ k \in Int /\ n \in Int /\ \A i \in k..n : s[i] \in Thread
  BY <1>1 DEF n
<1>3. /\ u \in Seq(Thread)
      /\ Len(u) = IF k <= n THEN n - k + 1 ELSE 0
      /\ \A i \in 1..n - k + 1 : u[i] = s[k + i - 1]
  BY <1>2, SubSeqProperties
<1> HIDE DEF u
<1>4. Len(u) = n - k + 1 /\ Len(u) \in Nat \ {0}
  BY <1>1, <1>2, <1>3
<1>5. u # <<>>
  BY <1>4
<1>6. u[1] = s[k] /\ s[k] \in Thread
  BY <1>1, <1>2, <1>3, <1>4
<1>7. ASSUME NEW i \in 1..Len(u), NEW j \in 1..Len(u), u[i] = u[j]
      PROVE  i = j
  <2>1. k + i - 1 \in 1..n /\ k + j - 1 \in 1..n
    BY <1>1, <1>2, <1>4
  <2>2. s[k + i - 1] = s[k + j - 1]
    BY <1>3, <1>4, <1>7
  <2> QED BY <1>1, <2>1, <2>2
<1>8. ASSUME NEW i \in 1..Len(u)
      PROVE  next[u[i]] = IF i = Len(u) THEN Nil ELSE u[i + 1]
  <2>1. u[i] = s[k + i - 1] /\ k + i - 1 \in 1..n
    BY <1>1, <1>2, <1>3, <1>4
  <2>2. next[u[i]] = IF k + i - 1 = n THEN Nil ELSE s[k + i]
    BY <1>1, <1>2, <2>1
  <2>3. i # Len(u) => u[i + 1] = s[k + i]
    <3> SUFFICES ASSUME i # Len(u) PROVE u[i + 1] = s[k + i]
      OBVIOUS
    <3>1. i + 1 \in 1..n - k + 1 /\ k + (i + 1) - 1 = k + i
      BY <1>1, <1>2, <1>4
    <3> QED BY <1>3, <3>1
  <2>4. k + i - 1 = n <=> i = Len(u)
    BY <1>1, <1>2, <1>4
  <2> QED BY <2>2, <2>3, <2>4
<1>9. IsPath(u, s[k], next)
  BY <1>3, <1>5, <1>6, <1>7, <1>8, PathIndexes
<1> QED BY <1>3, <1>5, <1>9 DEF u, n

\* From everything on a walk its end is reached.
LEMMA EndReached ==
    ASSUME NEW t \in Thread, NEW next, Steps(next), HasPaths(next),
           NEW c \in Walk(t, next), next[c] = Nil, NEW q \in Walk(t, next)
    PROVE  c \in Walk(q, next) /\ c = Last(Path(t, next))
<1> DEFINE s == Path(t, next)
           n == Len(s)
<1>1. s \in Seq(Thread) /\ s # <<>> /\ IsPath(s, t, next) /\ Walk(t, next) = {s[i] : i \in 1..n}
  BY ThePath
<1> HIDE DEF s
<1>2. /\ n \in Nat \ {0} /\ \A i \in 1..n : s[i] \in Thread /\ s[i] # Nil
      /\ \A i \in 1..n : next[s[i]] = IF i = n THEN Nil ELSE s[i + 1]
  BY <1>1, PathIndexes
<1> HIDE DEF n
<1>3. PICK i \in 1..n : c = s[i]
  BY <1>1
<1>4. c = s[n]
  <2>1. i # n => i + 1 \in 1..n
    BY <1>2
  <2> QED BY <1>2, <1>3, <2>1
<1>5. PICK k \in 1..n : q = s[k]
  BY <1>1
<1> DEFINE u == SubSeq(s, k, n)
<1>6. u \in Seq(Thread) /\ u # <<>> /\ IsPath(u, q, next)
  BY <1>1, <1>5, PathSuffix DEF n
<1>7. Walk(q, next) = {u[j] : j \in 1..Len(u)}
  <2> HIDE DEF u
  <2>1. q \in Thread
    BY <1>2, <1>5
  <2> QED BY <1>6, <2>1, PathWalks
<1>8. Len(u) \in 1..Len(u) /\ u[Len(u)] = s[n]
  <2>1. k \in Int /\ n \in Int /\ k <= n /\ \A j \in k..n : s[j] \in Thread
    BY <1>2
  <2>2. Len(u) = n - k + 1 /\ \A j \in 1..n - k + 1 : u[j] = s[k + j - 1]
    BY <2>1, SubSeqProperties
  <2> HIDE DEF u
  <2>3. Len(u) \in 1..n - k + 1 /\ k + Len(u) - 1 = n
    BY <1>2, <2>1, <2>2
  <2> QED BY <2>2, <2>3
<1> QED BY <1>4, <1>7, <1>8 DEF Last, n, s

\* A path does not change with steps it does not take.
LEMMA PathKept ==
    ASSUME NEW t \in Thread, NEW next, Steps(next), HasPaths(next), NEW next2, Steps(next2),
           \A p \in Walk(t, next) : next2[p] = next[p]
    PROVE  Path(t, next2) = Path(t, next) /\ IsPath(Path(t, next), t, next2)
<1> DEFINE s == Path(t, next)
<1>1. s \in Seq(Thread) /\ s # <<>> /\ IsPath(s, t, next) /\ Walk(t, next) = {s[i] : i \in 1..Len(s)}
  BY ThePath
<1> HIDE DEF s
<1>2. \A i \in 1..Len(s) : next2[s[i]] = next[s[i]]
  BY <1>1
<1>3. IsPath(s, t, next2)
  BY <1>1, <1>2, PathIndexes
<1>4. Path(t, next2) = s
  BY <1>1, <1>3, PathIs
<1> QED BY <1>3, <1>4 DEF s

\* A step from the end of one path to the beginning of another joins them.
LEMMA PathJoins ==
    ASSUME NEW t \in Thread, NEW next, Steps(next), HasPaths(next),
           NEW c \in Walk(t, next), next[c] = Nil, NEW d \in Thread, c \notin Walk(d, next)
    PROVE  LET next2 == [next EXCEPT ![c] = d]
               s == Path(t, next) \o Path(d, next)
           IN  /\ s \in Seq(Thread) /\ s # <<>> /\ IsPath(s, t, next2)
               /\ Path(t, next2) = s
<1> DEFINE a == Path(t, next)
           b == Path(d, next)
           s == a \o b
           m == Len(a)
           n == Len(b)
           next2 == [next EXCEPT ![c] = d]
<1>1. a \in Seq(Thread) /\ a # <<>> /\ IsPath(a, t, next) /\ Walk(t, next) = {a[i] : i \in 1..m}
  BY ThePath
<1>2. b \in Seq(Thread) /\ b # <<>> /\ IsPath(b, d, next) /\ Walk(d, next) = {b[i] : i \in 1..n}
  BY ThePath
<1>3. c = a[m] /\ \A q \in Walk(t, next) : c \in Walk(q, next)
  BY EndReached DEF Last
<1> HIDE DEF a, b
<1>4. /\ m \in Nat \ {0} /\ a[1] = t /\ \A i, j \in 1..m : a[i] = a[j] => i = j
      /\ \A i \in 1..m : a[i] \in Thread /\ next[a[i]] = IF i = m THEN Nil ELSE a[i + 1]
  BY <1>1, PathIndexes
<1>5. /\ n \in Nat \ {0} /\ b[1] = d /\ \A i, j \in 1..n : b[i] = b[j] => i = j
      /\ \A i \in 1..n : b[i] \in Thread /\ next[b[i]] = IF i = n THEN Nil ELSE b[i + 1]
  BY <1>2, PathIndexes
<1>6. /\ s \in Seq(Thread) /\ Len(s) = m + n
      /\ \A i \in 1..m + n : s[i] = IF i <= m THEN a[i] ELSE b[i - m]
  BY <1>1, <1>2, ConcatProperties
<1> HIDE DEF s, m, n
<1>7. s # <<>> /\ s[1] = t
  BY <1>4, <1>5, <1>6
<1>8. \A i \in 1..m, j \in 1..n : a[i] # b[j]
  <2> SUFFICES ASSUME NEW i \in 1..m, NEW j \in 1..n, a[i] = b[j] PROVE FALSE
    OBVIOUS
  <2>1. a[i] \in Walk(t, next) /\ a[i] \in Walk(d, next)
    BY <1>1, <1>2
  <2>2. c \in Walk(a[i], next) /\ Walk(a[i], next) \subseteq Walk(d, next)
    BY <1>3, <2>1, WalkWithin
  <2> QED BY <2>2
<1>9. ASSUME NEW i \in 1..m + n, NEW j \in 1..m + n, s[i] = s[j]
      PROVE  i = j
  <2>1. i <= m => i \in 1..m
    BY <1>4, <1>5
  <2>2. j <= m => j \in 1..m
    BY <1>4, <1>5
  <2>3. ~(i <= m) => i - m \in 1..n
    BY <1>4, <1>5
  <2>4. ~(j <= m) => j - m \in 1..n
    BY <1>4, <1>5
  <2>5. CASE i <= m /\ j <= m
    BY <1>4, <1>6, <1>9, <2>1, <2>2, <2>5
  <2>6. CASE ~(i <= m) /\ ~(j <= m)
    <3>1. b[i - m] = b[j - m]
      BY <1>6, <1>9, <2>6
    <3> QED BY <1>4, <1>5, <2>3, <2>4, <2>6, <3>1
  <2>7. CASE (i <= m) # (j <= m)
    BY <1>6, <1>8, <1>9, <2>1, <2>2, <2>3, <2>4, <2>7
  <2> QED BY <2>5, <2>6, <2>7
<1>10. ASSUME NEW i \in 1..m + n
       PROVE  next2[s[i]] = IF i = m + n THEN Nil ELSE s[i + 1]
  <2>1. c = a[m] /\ c \in Thread /\ next2[c] = d /\ \A p \in Thread : p # c => next2[p] = next[p]
    BY <1>3, <1>4 DEF Steps
  <2>2. CASE i < m
    <3>1. i \in 1..m /\ m \in 1..m /\ i + 1 \in 1..m + n /\ i + 1 <= m /\ i # m /\ i # m + n
      BY <1>4, <1>5, <2>2
    <3>2. s[i] = a[i] /\ s[i + 1] = a[i + 1]
      BY <1>6, <3>1
    <3>3. a[i] # c /\ a[i] \in Thread
      BY <1>4, <2>1, <3>1
    <3> HIDE DEF next2
    <3> QED BY <1>4, <2>1, <3>1, <3>2, <3>3
  <2>3. CASE i = m
    <3>1. i \in 1..m + n /\ i <= m /\ i + 1 \in 1..m + n /\ ~(i + 1 <= m) /\ (i + 1) - m = 1 /\ i # m + n
      BY <1>4, <1>5, <2>3
    <3>2. s[i] = a[m] /\ s[i + 1] = b[1]
      BY <1>6, <2>3, <3>1
    <3> HIDE DEF next2
    <3> QED BY <1>5, <2>1, <3>1, <3>2
  <2>4. CASE i > m
    <3>1. i - m \in 1..n /\ ~(i <= m) /\ (i = m + n <=> i - m = n)
      BY <1>4, <1>5, <2>4
    <3>2. s[i] = b[i - m] /\ b[i - m] # c
      <4>1. m \in 1..m
        BY <1>4
      <4> QED BY <1>6, <1>8, <2>1, <3>1, <4>1
    <3>3. i # m + n => s[i + 1] = b[(i - m) + 1]
      <4> SUFFICES ASSUME i # m + n PROVE s[i + 1] = b[(i - m) + 1]
        OBVIOUS
      <4>1. i + 1 \in 1..m + n /\ ~(i + 1 <= m) /\ (i + 1) - m = (i - m) + 1
        BY <1>4, <1>5, <2>4
      <4> QED BY <1>6, <4>1
    <3> HIDE DEF next2
    <3>4. next2[s[i]] = next[b[i - m]]
      BY <1>5, <2>1, <3>1, <3>2
    <3> QED BY <1>5, <3>1, <3>3, <3>4
  <2> QED BY <1>4, <1>5, <2>2, <2>3, <2>4
<1>11. Steps(next2)
  BY DEF Steps
<1> HIDE DEF next2
<1>12. IsPath(s, t, next2)
  BY <1>6, <1>7, <1>9, <1>10, PathIndexes
<1>13. Path(t, next2) = s
  BY <1>6, <1>7, <1>11, <1>12, PathIs
<1> QED BY <1>6, <1>7, <1>12, <1>13 DEF s, a, b, next2

\* Without the step from c a path ends there.
LEMMA PathCut ==
    ASSUME NEW t \in Thread, NEW next, Steps(next), HasPaths(next), NEW c \in Walk(t, next)
    PROVE  LET next2 == [next EXCEPT ![c] = Nil] IN
           /\ \E s \in Seq(Thread) : s # <<>> /\ IsPath(s, t, next2)
           /\ c \in Walk(t, next2)
<1> DEFINE s == Path(t, next)
           n == Len(s)
           next2 == [next EXCEPT ![c] = Nil]
<1>1. s \in Seq(Thread) /\ s # <<>> /\ IsPath(s, t, next) /\ Walk(t, next) = {s[i] : i \in 1..n}
  BY ThePath
<1> HIDE DEF s
<1>2. /\ n \in Nat \ {0} /\ s[1] = t /\ \A i, j \in 1..n : s[i] = s[j] => i = j
      /\ \A i \in 1..n : s[i] \in Thread /\ next[s[i]] = IF i = n THEN Nil ELSE s[i + 1]
  BY <1>1, PathIndexes
<1> HIDE DEF n
<1>3. PICK k \in 1..n : c = s[k]
  BY <1>1
<1> DEFINE u == SubSeq(s, 1, k)
<1>4. u \in Seq(Thread) /\ Len(u) = k /\ \A i \in 1..k : u[i] = s[i]
  <2>1. 1 \in Int /\ k \in Int /\ 1 <= k /\ \A i \in 1..k : s[i] \in Thread
    BY <1>2
  <2>2. /\ SubSeq(s, 1, k) \in Seq(Thread)
        /\ Len(SubSeq(s, 1, k)) = IF 1 <= k THEN k - 1 + 1 ELSE 0
        /\ \A i \in 1..k - 1 + 1 : SubSeq(s, 1, k)[i] = s[1 + i - 1]
    BY <2>1, SubSeqProperties
  <2> HIDE DEF u
  <2>3. k - 1 + 1 = k /\ \A i \in 1..k : 1 + i - 1 = i
    BY <2>1
  <2> QED BY <2>1, <2>2, <2>3 DEF u
<1> HIDE DEF u
<1>5. u # <<>> /\ k \in 1..k /\ 1 \in 1..k
  BY <1>2, <1>4
<1>6. Steps(next2) /\ next2[c] = Nil /\ \A p \in Thread : p # c => next2[p] = next[p]
  BY <1>2, <1>3 DEF Steps
<1> HIDE DEF next2
<1>7. ASSUME NEW i \in 1..k
      PROVE  next2[u[i]] = IF i = k THEN Nil ELSE u[i + 1]
  <2>1. i \in 1..n /\ u[i] = s[i]
    BY <1>2, <1>4
  <2>2. CASE i = k
    BY <1>3, <1>6, <2>1, <2>2
  <2>3. CASE i # k
    <3>1. i + 1 \in 1..k /\ i # n
      BY <1>2, <2>3
    <3>2. s[i] # c
      BY <1>2, <1>3, <2>1, <2>3
    <3> QED BY <1>2, <1>4, <1>6, <2>1, <2>3, <3>1, <3>2
  <2> QED BY <2>2, <2>3
<1>8. \A i, j \in 1..k : u[i] = u[j] => i = j
  BY <1>2, <1>4
<1>9. IsPath(u, t, next2)
  BY <1>2, <1>4, <1>5, <1>7, <1>8, PathIndexes
<1>10. Walk(t, next2) = {u[i] : i \in 1..Len(u)}
  BY <1>4, <1>5, <1>6, <1>9, PathWalks
<1>11. c \in Walk(t, next2)
  BY <1>3, <1>4, <1>5, <1>10
<1> QED BY <1>4, <1>5, <1>9, <1>11 DEF next2

-----------------------------------------------------------------------------
(* The stack of the coroutines that run, taken apart at cur.               *)

\* cur is on the stack that begins with the main thread.
LEMMA RunningFacts ==
    ASSUME TypeOK, Structure, OneRunningStack
    PROVE  /\ Steps(link) /\ Main \in Thread /\ cur \in Thread /\ cur # Nil
           /\ status[cur] = "active" /\ status[Main] = "active"
           /\ cur \in StackOf(Main)
BY ThreadAssumption DEF TypeOK, Steps, Structure, CurMatchesMode, OneRunningStack

\* From the main thread to cur.
Callers == Path(Main, [link EXCEPT ![cur] = Nil])

\* Paths without the step from c are paths.
LEMMA CutPaths ==
    ASSUME NEW next, Steps(next), HasPaths(next), NEW c \in Thread
    PROVE  Steps([next EXCEPT ![c] = Nil]) /\ HasPaths([next EXCEPT ![c] = Nil])
<1> DEFINE next2 == [next EXCEPT ![c] = Nil]
<1>1. Steps(next2) /\ \A p \in Thread : p # c => next2[p] = next[p]
  BY DEF Steps
<1>2. ASSUME NEW t \in Thread
      PROVE  \E s \in Seq(Thread) : s # <<>> /\ IsPath(s, t, next2)
  <2>1. CASE c \in Walk(t, next)
    BY <2>1, PathCut
  <2>2. CASE c \notin Walk(t, next)
    <3> HIDE DEF next2
    <3>1. \A p \in Walk(t, next) : next2[p] = next[p]
      BY <1>1, <2>2, WalkBegins
    <3>2. IsPath(Path(t, next), t, next2)
      BY <1>1, <3>1, PathKept
    <3> QED BY <3>2, ThePath
  <2> QED BY <2>1, <2>2
<1> HIDE DEF next2
<1>3. HasPaths(next2)
  BY <1>2 DEF HasPaths
<1> QED BY <1>1, <1>3 DEF next2

\* And so are paths with a step from c, where they ended, to d, which does not lead to c.
LEMMA JoinedPaths ==
    ASSUME NEW next, Steps(next), HasPaths(next), NEW c \in Thread, next[c] = Nil,
           NEW d \in Thread, c \notin Walk(d, next)
    PROVE  Steps([next EXCEPT ![c] = d]) /\ HasPaths([next EXCEPT ![c] = d])
<1> DEFINE next2 == [next EXCEPT ![c] = d]
<1>1. Steps(next2) /\ \A p \in Thread : p # c => next2[p] = next[p]
  BY DEF Steps
<1>2. ASSUME NEW t \in Thread
      PROVE  \E s \in Seq(Thread) : s # <<>> /\ IsPath(s, t, next2)
  <2>1. CASE c \in Walk(t, next)
    BY <2>1, PathJoins
  <2>2. CASE c \notin Walk(t, next)
    <3> HIDE DEF next2
    <3>1. \A p \in Walk(t, next) : next2[p] = next[p]
      BY <1>1, <2>2, WalkBegins
    <3>2. IsPath(Path(t, next), t, next2)
      BY <1>1, <3>1, PathKept
    <3> QED BY <3>2, ThePath
  <2> QED BY <2>1, <2>2
<1> HIDE DEF next2
<1>3. HasPaths(next2)
  BY <1>2 DEF HasPaths
<1> QED BY <1>1, <1>3 DEF next2

\* The stack is the callers, cur the last of them, and the stack of the callee.
LEMMA StackParts ==
    ASSUME TypeOK, Structure, OneRunningStack, HasPaths(link)
    PROVE  /\ Callers \in Seq(Thread) /\ Len(Callers) \in Nat \ {0}
           /\ Callers[Len(Callers)] = cur
           /\ Len(Callers) = 1 <=> cur = Main
           /\ link[cur] = Nil => Stack = Callers
           /\ link[cur] # Nil => Stack = Callers \o StackFrom(Callee)
<1> DEFINE cut == [link EXCEPT ![cur] = Nil]
           a == Path(Main, cut)
<1>1. Steps(link) /\ Main \in Thread /\ cur \in Thread /\ cur \in Walk(Main, link)
  BY RunningFacts DEF StackOf
<1>2. Steps(cut) /\ HasPaths(cut) /\ cur \in Walk(Main, cut) /\ cut[cur] = Nil
  <2>1. cut[cur] = Nil
    BY <1>1 DEF Steps
  <2> QED BY <1>1, <2>1, CutPaths, PathCut
<1>3. a \in Seq(Thread) /\ a # <<>> /\ IsPath(a, Main, cut)
  BY <1>1, <1>2, ThePath
<1>4. cur = Last(a)
  BY <1>1, <1>2, EndReached
<1>5. Len(a) \in Nat \ {0} /\ a[1] = Main /\ \A i, j \in 1..Len(a) : a[i] = a[j] => i = j
  <2> HIDE DEF a, cut
  <2> QED BY <1>1, <1>3, PathIndexes
<1>6. a[Len(a)] = cur /\ (Len(a) = 1 <=> cur = Main)
  <2> HIDE DEF a
  <2>1. a[Len(a)] = cur
    BY <1>4 DEF Last
  <2>2. 1 \in 1..Len(a) /\ Len(a) \in 1..Len(a)
    BY <1>5
  <2> QED BY <1>5, <2>1, <2>2
<1>7. ASSUME link[cur] = Nil PROVE Stack = a
  <2>1. cut = link
    BY <1>1, <1>7 DEF Steps
  <2> QED BY <2>1 DEF Stack, StackFrom
<1>8. ASSUME link[cur] # Nil PROVE Stack = a \o StackFrom(Callee)
  <2>1. Callee \in Thread /\ link = [cut EXCEPT ![cur] = Callee]
    BY <1>1, <1>8 DEF Steps, Callee
  <2>2. cur \notin Walk(Callee, link)
    <3> SUFFICES ASSUME cur \in Walk(Callee, link) PROVE FALSE
      OBVIOUS
    <3> DEFINE s == Path(Callee, link)
               n == Len(s)
    <3>1. s \in Seq(Thread) /\ s # <<>> /\ IsPath(s, Callee, link) /\ Walk(Callee, link) = {s[i] : i \in 1..n}
      BY <1>1, <2>1, ThePath
    <3> HIDE DEF s
    <3>2. /\ n \in Nat \ {0} /\ s[1] = Callee /\ \A i, j \in 1..n : s[i] = s[j] => i = j
          /\ \A i \in 1..n : s[i] \in Thread /\ link[s[i]] = IF i = n THEN Nil ELSE s[i + 1]
      BY <2>1, <3>1, PathIndexes
    <3> HIDE DEF n
    <3>3. PICK i \in 1..n : s[i] = cur
      BY <3>1
    <3>4. i # n /\ s[i + 1] = Callee
      BY <1>8, <3>2, <3>3 DEF Callee
    <3>5. i + 1 \in 1..n /\ 1 \in 1..n /\ i + 1 # 1
      BY <3>2, <3>4
    <3> QED BY <3>2, <3>4, <3>5
  <2>3. Path(Callee, cut) = Path(Callee, link) /\ cur \notin Walk(Callee, cut)
    <3>1. \A p \in Walk(Callee, link) : cut[p] = link[p]
      BY <1>1, <2>2 DEF Steps
    <3>2. Walk(Callee, cut) = Walk(Callee, link)
      BY <1>1, <1>2, <2>1, <3>1, WalkUnchanged
    <3>3. Path(Callee, cut) = Path(Callee, link)
      BY <1>1, <1>2, <2>1, <3>1, PathKept
    <3> QED BY <2>2, <3>2, <3>3
  <2> HIDE DEF cut
  <2>4. Path(Main, link) = Path(Main, cut) \o Path(Callee, cut)
    BY <1>1, <1>2, <2>1, <2>3, PathJoins
  <2> QED BY <2>3, <2>4 DEF Stack, StackFrom
<1> QED BY <1>3, <1>5, <1>6, <1>7, <1>8 DEF Callers

\* Stacks are never endless: a coroutine is called only when it does not run.
LEMMA HasPathsStep ==
    ASSUME TypeOK, TypeOK', Structure, HasPaths(link),
           \/ StacksStay
           \/ \E co \in Thread : Calls(co) \/ CallsDead(co)
           \/ CallReturns
           \/ GivesBack
    PROVE  HasPaths(link')
<1>1. Steps(link) /\ cur \in Thread /\ link \in [Thread -> Thread \cup {Nil}]
  BY DEF TypeOK, Steps
<1>2. CASE StacksStay \/ GivesBack
  BY <1>2 DEF StacksStay, GivesBack
<1>3. ASSUME NEW co \in Thread, Calls(co) \/ CallsDead(co)
      PROVE  HasPaths(link')
  <2>1. link' = [link EXCEPT ![cur] = co] /\ status[co] # "active" /\ link[cur] \in {Nil, co}
    BY <1>3 DEF Calls, CallsDead, Resumes
  <2>2. cur \notin Walk(co, link)
    BY <2>1, CurNotBelow DEF StackOf
  <2>3. CASE link[cur] = co
    <3>1. link' = link
      BY <1>1, <2>1, <2>3
    <3> QED BY <3>1
  <2>4. CASE link[cur] = Nil
    BY <1>1, <2>1, <2>2, <2>4, JoinedPaths
  <2> QED BY <2>1, <2>3, <2>4
<1>4. CASE CallReturns
  BY <1>1, <1>4, CutPaths DEF CallReturns, LeavesFrame
<1> QED BY <1>2, <1>3, <1>4

-----------------------------------------------------------------------------
(* The inductive invariant of the refinement, beyond StacksInv.            *)

\* An unyieldable C call is pending only where one may be made, and in what runs; a
\* continuation runs in a coroutine, in none.
PendingC ==
    /\ \A t \in Thread : ccall[t] => t \in Unyielding /\ status[t] = "active"
    /\ \A t \in Thread : frame[t] = "callk" => t # Main /\ ~ccall[t]
    /\ mode = "cont" => cur # Main /\ ~ccall[cur]

UntaggedTags == \A t \in Thread \ coroset : tag[t] = Nil

\* untaggedk runs before anything else has been moved: values may be on cur only.
UntaggedWakes ==
    mode = "cont" /\ frame[cur] = "untk" =>
        \A t \in Thread \ {cur} : status[t] # "err" => stk[t] = <<>>

NestedInv ==
    /\ HasPaths(link)
    /\ PendingC
    /\ UntaggedTags
    /\ UntaggedWakes

\* NestedInv holds when the library has been loaded.
LEMMA NestedInvInit == Init => NestedInv
<1> SUFFICES ASSUME Init PROVE NestedInv
  OBVIOUS
<1> USE ThreadAssumption DEF Init
<1>1. HasPaths(link)
  <2>1. ASSUME NEW t \in Thread PROVE IsPath(<<t>>, t, link) /\ <<t>> \in Seq(Thread) /\ <<t>> # <<>>
    BY <2>1 DEF IsPath
  <2> QED BY <2>1 DEF HasPaths
<1>2. PendingC /\ UntaggedTags /\ UntaggedWakes
  BY DEF PendingC, UntaggedTags, UntaggedWakes
<1> QED BY <1>1, <1>2 DEF NestedInv

\* Every action keeps track of C calls: a yield needs that none is pending, and a
\* coroutine that dies or catches an error leaves those it was in.
LEMMA PendingCStep ==
    ASSUME TypeOK, Structure, PendingC, [Next]_vars
    PROVE  PendingC'
<1> USE ThreadAssumption
    DEF TypeOK, PendingC, Structure, CurMatchesMode, FramesMatchStatus, Suspended, Calling, lua,
        inflight, meta, LeavesFrame, Yieldable
<1>1. CASE Program
  <2>1. ASSUME NEW t \in Thread, (\E g \in Tag : Cocreate(t, g)) \/ CreateUntagged(t)
        PROVE  PendingC'
    BY <2>1 DEF Cocreate, CreateUntagged
  <2>2. ASSUME NEW t \in Thread, NEW v \in Payload, Cocall(t, v) \/ RawResume(t, v)
        PROVE  PendingC'
    BY <2>2 DEF Cocall, RawResume, Resumes, Resumable
  <2>3. ASSUME (\E g \in Tag, v \in Payload : TcYield(g, v)) \/ \E v \in Payload : RawYield(v)
        PROVE  PendingC'
    BY <2>3 DEF TcYield, RawYield, Suspends, ToResumer
  <2>4. ASSUME (\E v \in Payload : Return(v)) \/ Die
        PROVE  PendingC'
    <3>1. \A t \in Thread : ccall'[t] => ccall[t] /\ t # cur
      BY <2>4 DEF Return, Die
    <3>2. /\ frame' = frame /\ mode' = "back"
          /\ \A t \in Thread : t # cur => status'[t] = status[t]
      BY <2>4 DEF Return, Die, ToResumer
    <3> QED BY <3>1, <3>2
  <2>5. ASSUME (\E t \in Thread : CocallRefused(t)) \/ YieldRefused \/ Throw \/ MainEnds
        PROVE  PendingC'
    BY <2>5 DEF CocallRefused, YieldRefused, Throw, MainEnds
  <2>6. ASSUME Catch \/ EnterC \/ LeaveC
        PROVE  PendingC'
    <3>1. /\ mode \in {"run", "raise"} /\ frame' = frame /\ status' = status
          /\ cur' = cur /\ mode' = "run"
      BY <2>6 DEF Catch, EnterC, LeaveC
    <3>2. \A t \in Thread : ccall'[t] => ccall[t] \/ (t = cur /\ cur \in Unyielding)
      <4>1. CASE Catch
        <5>1. ccall' = ccall \/ ccall' = [ccall EXCEPT ![cur] = FALSE]
          BY <4>1 DEF Catch
        <5> QED BY <5>1
      <4>2. CASE EnterC \/ LeaveC
        BY <4>2 DEF EnterC, LeaveC
      <4> QED BY <2>6, <4>1, <4>2
    <3> QED BY <3>1, <3>2
  <2> QED BY <1>1, <2>1, <2>2, <2>3, <2>4, <2>5, <2>6 DEF Program
<1>2. CASE BackOK \/ BackForMe \/ BackErr \/ RawBack \/ BackLost
  BY <1>2 DEF BackOK, BackForMe, BackErr, RawBack, BackLost
<1>3. CASE BackPass
  BY <1>3 DEF BackPass, CalleeYielded, InAuxcallk, CanPass, Suspends, ToResumer
<1>4. CASE BackStopsHere
  BY <1>4 DEF BackStopsHere, CalleeYielded, InAuxcallk, StopsHere, Suspends, ToResumer
<1>5. CASE BackFails
  <2>1. status[Callee] = "yield" /\ Callee \in Thread /\ Callee # cur
    BY <1>5 DEF BackFails, CalleeYielded, InAuxcallk, LinkedWhileWaiting, Waiting, Callee
  <2>2. /\ status' = [status EXCEPT ![Callee] = "active"] /\ frame' = [frame EXCEPT ![cur] = "call"]
        /\ ccall' = ccall /\ cur' = Callee
    BY <1>5 DEF BackFails, Resumes
  <2> QED BY <2>1, <2>2
<1>6. CASE ContPlain \/ ContYieldk
  BY <1>6 DEF ContPlain, ContYieldk
<1>7. CASE ContPassk \/ ContUntaggedk
  <2>1. status[Callee] = "yield" /\ Callee \in Thread /\ Callee # cur
    BY <1>7 DEF ContPassk, ContUntaggedk, CalleeMatchesFrame, LinkedWhileWaiting, Waiting, Callee
  <2>2. /\ status' = [status EXCEPT ![Callee] = "active"] /\ frame' = [frame EXCEPT ![cur] = "callk"]
        /\ ccall' = ccall /\ cur' = Callee /\ mode = "cont"
    BY <1>7 DEF ContPassk, ContUntaggedk, Resumes
  <2> QED BY <2>1, <2>2
<1>8. CASE UNCHANGED vars
  BY <1>8 DEF vars
<1> QED BY <1>1, <1>2, <1>3, <1>4, <1>5, <1>6, <1>7, <1>8 DEF Next, Library, Terminated

\* Only create and wrap give a tag, together with metadata.
LEMMA UntaggedTagsStep ==
    ASSUME TypeOK, Structure, UntaggedTags, [Next]_vars
    PROVE  UntaggedTags'
<1> USE DEF TypeOK, UntaggedTags, meta
<1>1. ASSUME NEW t \in Thread, NEW g \in Tag, Cocreate(t, g) PROVE UntaggedTags'
  BY <1>1 DEF Cocreate
<1>2. CASE Program /\ ~(\E t \in Thread, g \in Tag : Cocreate(t, g))
  BY <1>2 DEF Program, CreateUntagged, Cocall, CocallRefused, RawResume, TcYield, RawYield, Return,
              YieldRefused, Throw, Catch, Die, MainEnds, EnterC, LeaveC
<1>3. CASE Library
  BY <1>3 DEF Library, BackOK, BackForMe, BackPass, BackStopsHere, BackFails, BackLost,
              BackErr, RawBack, ContPlain, ContYieldk, ContPassk, ContUntaggedk
<1>4. CASE UNCHANGED vars
  BY <1>4 DEF vars
<1> QED BY <1>1, <1>2, <1>3, <1>4 DEF Next, Terminated

\* An untagged coroutine begins to wake when Lua code resumes it, with values nowhere else.
LEMMA UntaggedWakesStep ==
    ASSUME TypeOK, Structure, StacksInv, UntaggedWakes, [Next]_vars
    PROVE  UntaggedWakes'
<1> SUFFICES ASSUME mode' = "cont", frame'[cur'] = "untk", NEW t \in Thread, t # cur', status'[t] # "err"
             PROVE  stk'[t] = <<>>
  BY DEF UntaggedWakes
<1> USE DEF TypeOK, Structure, CurMatchesMode, FramesMatchStatus, Suspended, Calling, lua
<1>1. ASSUME NEW u \in Thread, NEW v \in Payload, RawResume(u, v)
      PROVE  stk'[t] = <<>>
  <2>1. cur' = u /\ t # u /\ mode = "run" /\ stk' = [stk EXCEPT ![cur] = <<>>, ![u] = v]
    BY <1>1 DEF RawResume, Resumes
  <2>2. status[t] # "err"
    BY <1>1, <2>1 DEF RawResume, Resumes
  <2>3. t # cur => stk[t] = <<>>
    BY <2>1, <2>2 DEF StacksInv, ValuesHeld
  <2> QED BY <2>1, <2>3
<1>2. ASSUME NEW co \in Thread, NEW v \in Payload, Cocall(co, v)
      PROVE  FALSE
  <2>1. mode' = "cont" => cur' = co /\ co \in coroset /\ frame'[co] = frame[co] /\ status[co] \in {"new", "yield"}
    BY <1>2 DEF Cocall, Resumable, Resumes
  <2> QED BY <2>1 DEF StacksInv, PassedByTagged
<1>3. CASE Program /\ ~(\E u \in Thread, v \in Payload : RawResume(u, v) \/ Cocall(u, v))
  BY <1>3 DEF Program, Cocreate, CreateUntagged, CocallRefused, TcYield, RawYield, Return, Suspends,
              ToResumer, YieldRefused, Throw, Catch, Die, MainEnds, EnterC, LeaveC
<1>4. CASE BackFails \/ ContPassk \/ ContUntaggedk
  <2>1. link[cur] # Nil /\ Callee \in coroset /\ Callee # cur
    BY <1>4 DEF BackFails, CalleeYielded, InAuxcallk, ContPassk, ContUntaggedk, Callee,
                LinkedWhileWaiting, CalleeMatchesFrame, Waiting
  <2>2. cur' = Callee /\ frame'[Callee] = frame[Callee]
    BY <1>4, <2>1 DEF BackFails, ContPassk, ContUntaggedk, Resumes
  <2> QED BY <2>1, <2>2 DEF StacksInv, PassedByTagged
<1>5. CASE Library /\ ~(BackFails \/ ContPassk \/ ContUntaggedk)
  BY <1>5 DEF Library, BackOK, BackForMe, BackPass, BackStopsHere, BackLost, BackErr, RawBack,
              ContPlain, ContYieldk, Suspends, ToResumer
<1>6. CASE UNCHANGED vars
  BY <1>6 DEF vars, UntaggedWakes
<1> QED BY <1>1, <1>2, <1>3, <1>4, <1>5, <1>6 DEF Next, Terminated

\* Every step keeps NestedInv.
LEMMA NestedInvStep ==
    TypeOK /\ Structure /\ StacksInv /\ NestedInv /\ [Next]_vars => NestedInv'
<1> SUFFICES ASSUME TypeOK, Structure, StacksInv, NestedInv, [Next]_vars PROVE NestedInv'
  OBVIOUS
<1>1. HasPaths(link')
  BY TypeStep, StepKinds, HasPathsStep DEF NestedInv
<1>2. HasPaths(link)' <=> HasPaths(link')
  BY DEF HasPaths, IsPath
<1> QED BY <1>1, <1>2, PendingCStep, UntaggedTagsStep, UntaggedWakesStep DEF NestedInv

-----------------------------------------------------------------------------
(* The refinement mapping: the chain and its end.                          *)

\* Where whatever is passed along ends up.
LEMMA LeafIsEnd ==
    ASSUME TypeOK, Structure, OneRunningStack, HasPaths(link)
    PROVE  /\ Leaf \in StackOf(cur) /\ Leaf \in Thread /\ link[Leaf] = Nil
           /\ \A y \in StackOf(cur) : link[y] = Nil => y = Leaf
           /\ link[cur] = Nil => Leaf = cur
           /\ link[cur] # Nil => Leaf \in StackOf(Callee) /\ StackOf(Callee) \subseteq StackOf(cur)
<1> DEFINE s == Path(Main, link)
<1>1. Steps(link) /\ Main \in Thread /\ cur \in Thread /\ cur \in Walk(Main, link)
  BY RunningFacts DEF StackOf
<1>2. s \in Seq(Thread) /\ s # <<>> /\ IsPath(s, Main, link) /\ Walk(Main, link) = {s[i] : i \in 1..Len(s)}
  BY <1>1, ThePath
<1>3. Leaf = s[Len(s)]
  BY DEF Leaf, Stack, StackFrom, Last
<1>4. Leaf \in Thread /\ link[Leaf] = Nil /\ Leaf \in Walk(Main, link)
  <2> HIDE DEF s
  <2>1. Len(s) \in 1..Len(s) /\ s[Len(s)] \in Thread /\ link[s[Len(s)]] = Nil
    BY <1>1, <1>2, PathIndexes
  <2> QED BY <1>2, <1>3, <2>1
<1>5. Leaf \in Walk(cur, link)
  BY <1>1, <1>4, EndReached
<1>6. ASSUME NEW y \in Walk(cur, link), link[y] = Nil PROVE y = Leaf
  <2>1. y \in Walk(Main, link)
    BY <1>1, WalkWithin
  <2>2. y = Last(Path(Main, link))
    BY <1>1, <1>6, <2>1, EndReached
  <2> QED BY <2>2 DEF Leaf, Stack, StackFrom
<1>7. link[cur] = Nil => Leaf = cur
  BY <1>1, <1>6, WalkBegins
<1>8. ASSUME link[cur] # Nil
      PROVE  Leaf \in StackOf(Callee) /\ StackOf(Callee) \subseteq StackOf(cur)
  <2>1. Walk(cur, link) = {cur} \cup Walk(link[cur], link)
    BY <1>1, <1>8, WalkFirst
  <2> QED BY <1>4, <1>5, <1>8, <2>1 DEF StackOf, Callee
<1> QED BY <1>4, <1>5, <1>6, <1>7, <1>8 DEF StackOf

\* The part of the chain from the callee of cur on is the callee's stack.
LEMMA CalleePart ==
    ASSUME TypeOK, Structure, OneRunningStack, HasPaths(link), link[cur] # Nil
    PROVE  LET i == Len(Callers) + 1
               n == Len(Stack)
           IN  /\ i \in 2..n /\ n \in Nat
               /\ Stack[i] = Callee /\ Stack[i - 1] = cur /\ (i = 2 <=> cur = Main)
               /\ i - 1 > 1 <=> cur # Main
               /\ \A j \in i..n : Stack[j] \in StackOf(Callee)
               /\ \A j \in i + 1..n : Stack[j] \in StackOf(Callee) \ {Callee}
               /\ SubSeq(Stack, 1, i - 1) = Callers
               /\ SubSeq(Stack, i, n) = StackFrom(Callee)
<1> DEFINE a == Callers
           b == StackFrom(Callee)
           s == a \o b
           m == Len(a)
           k == Len(b)
<1>1. /\ a \in Seq(Thread) /\ m \in Nat \ {0} /\ a[m] = cur /\ (m = 1 <=> cur = Main)
      /\ Stack = s
  BY StackParts
<1>2. Steps(link) /\ Callee \in Thread
  BY RunningFacts DEF Steps, Callee
<1>3. /\ b \in Seq(Thread) /\ b # <<>> /\ IsPath(b, Callee, link)
      /\ StackOf(Callee) = {b[i] : i \in 1..k}
  BY <1>2, ThePath DEF StackFrom, StackOf
<1> HIDE DEF a, b
<1>4. k \in Nat \ {0} /\ b[1] = Callee /\ \A i, j \in 1..k : b[i] = b[j] => i = j
  BY <1>2, <1>3, PathIndexes
<1>5. /\ s \in Seq(Thread) /\ Len(s) = m + k
      /\ \A i \in 1..m + k : s[i] = IF i <= m THEN a[i] ELSE b[i - m]
  BY <1>1, <1>3, ConcatProperties
<1>6. SubSeq(s, 1, m) = a
  <2>1. SubSeq(s, 1, m) = SubSeq(a, 1, m)
    <3>1. 1 \in 1..Len(a) /\ m \in 1..Len(a)
      BY <1>1
    <3> QED BY <1>1, <1>3, <3>1, SubSeqOfConcat1
  <2>2. SubSeq(a, 1, Len(a)) = a
    BY <1>1, SubSeqFull
  <2> QED BY <2>1, <2>2
<1>7. SubSeq(s, m + 1, m + k) = b
  <2>1. m + 1 \in Len(a) + 1 .. Len(a) + Len(b) /\ m + k \in Len(a) + 1 .. Len(a) + Len(b)
    BY <1>1, <1>4
  <2>2. SubSeq(s, m + 1, m + k) = SubSeq(b, m + 1 - Len(a), m + k - Len(a))
    BY <1>1, <1>3, <2>1, SubSeqOfConcat2
  <2>3. m + 1 - Len(a) = 1 /\ m + k - Len(a) = Len(b)
    BY <1>1, <1>4
  <2>4. SubSeq(b, 1, Len(b)) = b
    BY <1>3, SubSeqFull
  <2> QED BY <2>2, <2>3, <2>4
<1> HIDE DEF s, m, k
<1>8. ASSUME NEW j \in m + 1..m + k
      PROVE  s[j] \in StackOf(Callee) /\ (j # m + 1 => s[j] # Callee)
  <2>1. j \in 1..m + k /\ ~(j <= m) /\ j - m \in 1..k /\ 1 \in 1..k
    BY <1>1, <1>4
  <2>2. s[j] = b[j - m]
    BY <1>5, <2>1
  <2>3. j # m + 1 => j - m # 1
    BY <1>1, <2>1
  <2> QED BY <1>3, <1>4, <2>1, <2>2, <2>3
<1>9. /\ m + 1 \in 2..m + k /\ m + k \in Nat /\ (m + 1) - 1 = m
      /\ (m + 1 = 2 <=> cur = Main) /\ (m > 1 <=> cur # Main)
  BY <1>1, <1>4
<1>10. s[m + 1] = Callee /\ s[m] = cur
  <2>1. m + 1 \in 1..m + k /\ m \in 1..m + k /\ ~(m + 1 <= m) /\ m <= m /\ (m + 1) - m = 1
    BY <1>1, <1>4
  <2> QED BY <1>1, <1>4, <1>5, <2>1
<1>11. \A j \in m + 2..m + k : j \in m + 1..m + k /\ j # m + 1
  BY <1>1, <1>4
<1>12. m + 1 + 1 = m + 2
  BY <1>1
<1> QED BY <1>1, <1>5, <1>6, <1>7, <1>8, <1>9, <1>10, <1>11, <1>12 DEF m, a, b

\* Coroutine t can be resumed.
Free(t) == status[t] \in {"new", "yield"} /\ \A p \in Thread : link[p] # t

\* heldBar when no link changes: whatever starts or stops to run is waited for.
LEMMA HeldStays ==
    ASSUME link' = link,
           \A t \in Thread : status'[t] = status[t] \/ \E p \in Thread : link[p] = t
    PROVE  heldBar' = heldBar
<1>1. \A t \in Thread : StackFrom(t)' = StackFrom(t)
  BY DEF StackFrom
<1> QED BY <1>1 DEF heldBar

\* The stack below a coroutine that does not run does not change with the link of cur.
LEMMA FreeStack ==
    ASSUME TypeOK, TypeOK', Structure, HasPaths(link),
           \A p \in Thread \ {cur} : link'[p] = link[p],
           NEW t \in Thread, status[t] # "active"
    PROVE  Path(t, link') = StackFrom(t)
<1>1. Steps(link) /\ Steps(link')
  BY DEF TypeOK, Steps
<1>2. \A p \in Walk(t, link) : link'[p] = link[p]
  BY CurNotBelow, WalkBegins DEF StackOf
<1>3. Path(t, link') = Path(t, link)
  BY <1>1, <1>2, PathKept
<1> QED BY <1>3 DEF StackFrom

\* heldBar when only the link of cur changes, and neither its old nor its new callee
\* is t.
LEMMA HeldElsewhere ==
    ASSUME TypeOK, TypeOK', Structure, HasPaths(link),
           \A p \in Thread \ {cur} : link'[p] = link[p],
           NEW t \in Thread, status'[t] = status[t], link[cur] # t, link'[cur] # t
    PROVE  heldBar'[t] = heldBar[t]
<1>1. (\A p \in Thread : link[p] # t) <=> (\A p \in Thread : link'[p] # t)
  OBVIOUS
<1>2. CASE status[t] \in {"new", "yield"}
  <2>1. Path(t, link') = StackFrom(t)
    BY <1>2, FreeStack
  <2>2. StackFrom(t)' = Path(t, link')
    BY DEF StackFrom
  <2> QED BY <1>1, <2>1, <2>2 DEF heldBar
<1>3. CASE status[t] \notin {"new", "yield"}
  BY <1>3 DEF heldBar
<1> QED BY <1>2, <1>3

\* heldBar when cur calls co.
LEMMA HeldCalled ==
    ASSUME TypeOK, TypeOK', Structure, HasPaths(link), link[cur] = Nil,
           NEW co \in Thread, Free(co), link' = [link EXCEPT ![cur] = co],
           \A t \in Thread : t # co => status'[t] = status[t]
    PROVE  heldBar[co] = StackFrom(co) /\ heldBar' = [heldBar EXCEPT ![co] = <<>>]
<1>1. cur \in Thread /\ co # Nil /\ link'[cur] = co /\ \A p \in Thread \ {cur} : link'[p] = link[p]
  BY ThreadAssumption DEF TypeOK
<1>2. heldBar'[co] = <<>>
  BY <1>1 DEF heldBar
<1>3. \A t \in Thread : t # co => heldBar'[t] = heldBar[t]
  BY <1>1, ThreadAssumption, HeldElsewhere
<1>4. heldBar[co] = StackFrom(co)
  BY DEF heldBar, Free
<1>5. heldBar \in [Thread -> {heldBar[t] : t \in Thread}] /\ DOMAIN heldBar = Thread
      /\ heldBar' = [t \in Thread |-> heldBar'[t]] /\ heldBar = [t \in Thread |-> heldBar[t]]
  BY DEF heldBar
<1> QED BY <1>2, <1>3, <1>4, <1>5

\* heldBar when the call of cur ends.
LEMMA HeldReturned ==
    ASSUME TypeOK, TypeOK', Structure, HasPaths(link), link[cur] # Nil,
           link' = [link EXCEPT ![cur] = Nil], status' = status
    PROVE  /\ status[Callee] = "yield" => heldBar' = [heldBar EXCEPT ![Callee] = StackFrom(Callee)]
           /\ status[Callee] \in {"done", "err"} => heldBar' = heldBar
<1>1. /\ cur \in Thread /\ Callee \in Thread /\ link'[cur] = Nil /\ Callee = link[cur]
      /\ \A p \in Thread \ {cur} : link'[p] = link[p]
  BY ThreadAssumption DEF TypeOK, Callee
<1>2. \A p \in Thread : link'[p] # Callee
  BY <1>1, ThreadAssumption DEF Structure, OneResumer
<1>3. \A t \in Thread : t # Callee => heldBar'[t] = heldBar[t]
  BY <1>1, ThreadAssumption, HeldElsewhere
<1>4. heldBar' = [t \in Thread |-> heldBar'[t]] /\ heldBar = [t \in Thread |-> heldBar[t]]
  BY DEF heldBar
<1>5. ASSUME status[Callee] = "yield"
      PROVE  heldBar' = [heldBar EXCEPT ![Callee] = StackFrom(Callee)]
  <2>1. PICK t \in Thread : t = Callee
    BY <1>1
  <2>2. StackFrom(t)' = Path(t, link') /\ Path(t, link') = StackFrom(t)
    <3>1. StackFrom(t)' = Path(t, link')
      BY DEF StackFrom
    <3>2. Path(t, link') = StackFrom(t)
      BY <1>1, <1>5, <2>1, FreeStack
    <3> QED BY <3>1, <3>2
  <2>3. heldBar'[t] = StackFrom(t)
    BY <1>2, <1>5, <2>1, <2>2 DEF heldBar
  <2>4. heldBar'[Callee] = StackFrom(Callee)
    BY <2>1, <2>3
  <2> QED BY <1>1, <1>3, <1>4, <2>4
<1>6. ASSUME status[Callee] \in {"done", "err"}
      PROVE  heldBar' = heldBar
  <2>1. heldBar'[Callee] = <<>> /\ heldBar[Callee] = <<>>
    BY <1>1, <1>6 DEF heldBar
  <2> QED BY <1>1, <1>3, <1>4, <2>1
<1> QED BY <1>5, <1>6

-----------------------------------------------------------------------------
(* The refinement mapping while Lua code runs.                             *)

\* Outside of the C code the mapping is simple: nothing is on its way.
LEMMA IdleBars ==
    ASSUME mode \in {"run", "raise", "exit"}
    PROVE  /\ chainBar = Stack
           /\ phaseBar = mode
           /\ wantBar = Nil
           /\ valBar = IF mode = "run" THEN stk[cur] ELSE <<>>
<1>1. ~CalleeIs("yield") /\ ~CalleeIs("done") /\ ~CalleeIs("err")
  BY DEF CalleeIs
<1>2. phaseBar = mode
  BY <1>1 DEF phaseBar
<1> QED BY <1>1, <1>2 DEF chainBar, wantBar, valBar

\* The same after a step.
LEMMA IdleBarsNext ==
    ASSUME mode' \in {"run", "raise", "exit"}
    PROVE  /\ chainBar' = Stack'
           /\ phaseBar' = mode'
           /\ wantBar' = Nil
           /\ valBar' = IF mode' = "run" THEN stk'[cur'] ELSE <<>>
<1>1. ~CalleeIs("yield")' /\ ~CalleeIs("done")' /\ ~CalleeIs("err")'
  BY DEF CalleeIs
<1>2. phaseBar' = mode'
  BY <1>1 DEF phaseBar
<1> QED BY <1>1, <1>2 DEF chainBar, wantBar, valBar

\* All that is known of a state of the C version.
CInv == TypeOK /\ Structure /\ StacksInv /\ NestedInv

\* And what of it the Lua version shares.
ChainsInv ==
    /\ TypeOK /\ Structure
    /\ OneRunningStack /\ HasPaths(link)
    /\ PendingC /\ UntaggedTags

\* The lemmas about ChainsInv hold in the C version.
LEMMA CHasChains == CInv => ChainsInv
BY DEF CInv, ChainsInv, StacksInv, NestedInv

\* What holds of the invariants while Lua code runs, or when cur continues.
LEMMA RunFacts ==
    ASSUME ChainsInv
    PROVE  /\ TypeOK /\ Structure /\ OneRunningStack /\ HasPaths(link)
           /\ status \in [Thread -> Status] /\ link \in [Thread -> Thread \cup {Nil}]
           /\ frame \in [Thread -> Frame] /\ ccall \in [Thread -> BOOLEAN]
           /\ stk \in [Thread -> Seq(Val)] /\ tag \in [Thread -> Tag \cup {Nil}]
           /\ cur \in Thread /\ status[cur] = "active"
           /\ mode \in {"run", "raise", "exit"} => frame[cur] = "body" /\ link[cur] = Nil
           /\ Stack # <<>> /\ Stack \in Seq(Thread)
<1>1. TypeOK /\ Structure /\ OneRunningStack /\ HasPaths(link)
  BY DEF ChainsInv
<1>2. Stack # <<>> /\ Stack \in Seq(Thread)
  BY <1>1, RunningFacts, ThePath DEF Stack, StackFrom
<1> QED BY <1>1, <1>2
    DEF TypeOK, Structure, CurMatchesMode, LinkedWhileWaiting, Waiting, Calling

\* The stack of those that run changes with the links only.
LEMMA SameStack == link' = link => Stack' = Stack
BY DEF Stack, StackFrom

\* create and wrap.
LEMMA CreateStep ==
    ASSUME ChainsInv, TypeOK', NEW t \in Thread,
           (\E g \in Tag : Cocreate(t, g)) \/ CreateUntagged(t)
    PROVE  \E g \in Tag \cup {Nil} : Nested!Create(t, g)
<1>1. /\ mode = "run" /\ mode' = "run" /\ status[t] = "none" /\ link' = link /\ cur' = cur
      /\ status' = [status EXCEPT ![t] = "new"] /\ ccall' = ccall
      /\ stk' = [stk EXCEPT ![cur] = <<>>]
  BY DEF Cocreate, CreateUntagged, Consumes, lua
<1>2. PICK g \in Tag \cup {Nil} : (g = Nil <=> t \in Untagged) /\ tag' = [tag EXCEPT ![t] = g]
  <2>1. ASSUME NEW g \in Tag, Cocreate(t, g)
        PROVE  (g = Nil <=> t \in Untagged) /\ tag' = [tag EXCEPT ![t] = g]
    BY <2>1, TagAssumption DEF Cocreate
  <2>2. ASSUME CreateUntagged(t)
        PROVE  (Nil = Nil <=> t \in Untagged) /\ tag' = [tag EXCEPT ![t] = Nil]
    <3>1. t \in Untagged /\ tag' = tag /\ tag[t] = Nil
      BY <2>2 DEF CreateUntagged, meta, ChainsInv, UntaggedTags, Structure, CorosetIsCreated
    <3> QED BY <3>1, RunFacts
  <2> QED BY <2>1, <2>2
<1>3. /\ chainBar' = chainBar /\ phaseBar = "run" /\ phaseBar' = "run" /\ wantBar' = wantBar
      /\ valBar' = <<>>
  BY <1>1, IdleBars, IdleBarsNext, SameStack, RunFacts
<1>4. heldBar' = [heldBar EXCEPT ![t] = <<t>>]
  <2>1. frame[t] = "body" /\ link[t] = Nil /\ \A p \in Thread : link[p] # t
    BY <1>1, RunFacts, ThreadAssumption
    DEF Structure, FramesMatchStatus, LinkedWhileWaiting, CalleeMatchesFrame, Waiting, Calling
  <2>2. Path(t, link) = <<t>>
    <3>1. <<t>> \in Seq(Thread) /\ <<t>> # <<>> /\ IsPath(<<t>>, t, link)
      BY <2>1 DEF IsPath
    <3> QED BY <3>1, RunFacts, RunningFacts, PathIs
  <2>3. StackFrom(t)' = <<t>>
    BY <1>1, <2>2 DEF StackFrom
  <2>4. \A q \in Thread : StackFrom(q)' = StackFrom(q)
    BY <1>1 DEF StackFrom
  <2>5. \A q \in Thread : q # t => heldBar'[q] = heldBar[q]
    BY <1>1, <2>4, RunFacts DEF heldBar
  <2>6. heldBar'[t] = <<t>>
    BY <1>1, <2>1, <2>3, RunFacts DEF heldBar
  <2>7. heldBar' = [q \in Thread |-> heldBar'[q]] /\ heldBar = [q \in Thread |-> heldBar[q]]
    BY DEF heldBar
  <2> QED BY <2>5, <2>6, <2>7
<1>5. {q \in Thread : status'[q] # "none"} = {q \in Thread : status[q] # "none"} \cup {t}
  BY <1>1, RunFacts
<1>6. Nested!Create(t, g)
  BY <1>1, <1>2, <1>3, <1>4, <1>5 DEF Nested!Create
<1> QED BY <1>6

\* A step that changes no stack and only lets Lua code go on or fail.
LEMMA IdleStep ==
    ASSUME ChainsInv, mode \in {"run", "raise"}, mode' \in {"run", "raise", "exit"},
           UNCHANGED <<status, link, cur, tag>>
    PROVE  /\ UNCHANGED <<chainBar, heldBar, wantBar, tag>>
           /\ {t \in Thread : status'[t] # "none"} = {t \in Thread : status[t] # "none"}
           /\ phaseBar = mode /\ phaseBar' = mode'
           /\ valBar' = IF mode' = "run" THEN stk'[cur] ELSE <<>>
           /\ cur = Last(chainBar)
           /\ Len(chainBar) = 1 <=> cur = Main
<1>1. /\ chainBar = Stack /\ chainBar' = Stack' /\ phaseBar = mode /\ phaseBar' = mode'
      /\ wantBar = Nil /\ wantBar' = Nil
      /\ valBar' = IF mode' = "run" THEN stk'[cur] ELSE <<>>
  BY IdleBars, IdleBarsNext
<1>2. heldBar' = heldBar
  BY HeldStays
<1>3. Stack = Callers
  BY RunFacts, StackParts
<1>4. cur = Last(Stack) /\ (Len(Stack) = 1 <=> cur = Main)
  BY <1>3, RunFacts, StackParts DEF Last
<1> QED BY <1>1, <1>2, <1>4, SameStack

\* An error, and whatever raises one.
LEMMA RaiseStep ==
    ASSUME ChainsInv, (\E t \in Thread : CocallRefused(t)) \/ YieldRefused \/ Throw
    PROVE  Nested!Fails
<1>1. mode = "run" /\ mode' = "raise" /\ UNCHANGED <<status, link, cur, tag, ccall>>
  BY DEF CocallRefused, YieldRefused, Throw, lua, meta
<1>2. phaseBar = "run" /\ phaseBar' = "raise" /\ valBar' = <<>>
  BY <1>1, IdleStep
<1> QED BY <1>1, <1>2, IdleStep DEF Nested!Fails

\* What the mapping takes for inC.
InC == {t \in Thread : ccall[t]}

\* pcall and tc.resume.
LEMMA CatchStep ==
    ASSUME ChainsInv, Catch
    PROVE  Nested!Catch
<1>1. /\ mode = "raise" /\ mode' = "run" /\ UNCHANGED <<status, link, cur, tag>>
      /\ stk' = [stk EXCEPT ![cur] = <<"msg">>]
      /\ ccall' = ccall \/ ccall' = [ccall EXCEPT ![cur] = FALSE]
  BY DEF Catch, meta
<1>2. /\ phaseBar = "raise" /\ phaseBar' = "run" /\ valBar' = <<"msg">> /\ cur = Last(chainBar)
      /\ UNCHANGED <<chainBar, heldBar, wantBar, tag>>
      /\ {t \in Thread : status'[t] # "none"} = {t \in Thread : status[t] # "none"}
  BY <1>1, IdleStep, RunFacts
<1>3. {t \in Thread : ccall'[t]} \in {InC, InC \ {Last(chainBar)}}
  <2>1. CASE ccall' = ccall
    BY <2>1 DEF InC
  <2>2. CASE ccall' = [ccall EXCEPT ![cur] = FALSE]
    <3>1. \A t \in Thread : ccall'[t] <=> ccall[t] /\ t # cur
      BY <2>2, RunFacts
    <3>2. {t \in Thread : ccall'[t]} = InC \ {cur}
      BY <3>1, Zenon DEF InC
    <3> QED BY <1>2, <3>2
  <2> QED BY <1>1, <2>1, <2>2
<1>4. InC' \in {InC, InC \ {Last(chainBar)}}
  BY <1>3 DEF InC
<1> QED BY <1>2, <1>4 DEF Nested!Catch, Nested!Running, Nested!Last, Last, InC

\* The end of the main chunk.
LEMMA MainEndsStep ==
    ASSUME ChainsInv, MainEnds
    PROVE  Nested!MainEnds
<1>1. /\ mode \in {"run", "raise"} /\ mode' = "exit" /\ UNCHANGED <<status, link, cur, tag, ccall>>
      /\ cur = Main
  BY DEF MainEnds, lua, meta
<1>2. phaseBar \in {"run", "raise"} /\ phaseBar' = "exit" /\ valBar' = <<>> /\ Len(chainBar) = 1
  BY <1>1, IdleStep
<1> QED BY <1>1, <1>2, IdleStep DEF Nested!MainEnds, Nested!Depth

\* Calls through C functions that cannot yield.
LEMMA CCallStep ==
    ASSUME ChainsInv, EnterC \/ LeaveC
    PROVE  Nested!EnterOrLeaveC
<1>1. /\ mode = "run" /\ mode' = "run" /\ UNCHANGED <<status, link, cur, tag>>
      /\ stk' = [stk EXCEPT ![cur] = <<>>]
      /\ cur \in Unyielding
      /\ ccall' = [ccall EXCEPT ![cur] = ~ccall[cur]]
  <2>1. CASE EnterC
    BY <2>1, RunFacts DEF EnterC, meta, Consumes
  <2>2. CASE LeaveC
    BY <2>2, RunFacts DEF LeaveC, meta, Consumes, ChainsInv, PendingC
  <2> QED BY <2>1, <2>2
<1>2. phaseBar = "run" /\ phaseBar' = "run" /\ valBar' = <<>> /\ cur = Last(chainBar)
      /\ UNCHANGED <<chainBar, heldBar, wantBar, tag>>
      /\ {t \in Thread : status'[t] # "none"} = {t \in Thread : status[t] # "none"}
  BY <1>1, IdleStep, RunFacts
<1>3. \A t \in Thread : ccall'[t] <=> (IF t = cur THEN ~ccall[t] ELSE ccall[t])
  BY <1>1, RunFacts
<1>4. {t \in Thread : ccall'[t]} = IF cur \in InC THEN InC \ {cur} ELSE InC \cup {cur}
  <2>1. cur \in Thread
    BY RunFacts
  <2>2. CASE ccall[cur]
    <3>1. {t \in Thread : ccall'[t]} = InC \ {cur} /\ cur \in InC
      BY <1>3, <2>1, <2>2, Zenon DEF InC
    <3> QED BY <3>1
  <2>3. CASE ~ccall[cur]
    <3>1. {t \in Thread : ccall'[t]} = InC \cup {cur} /\ cur \notin InC
      BY <1>3, <2>1, <2>3, Zenon DEF InC
    <3> QED BY <3>1
  <2> QED BY <2>2, <2>3
<1>5. InC' = IF Last(chainBar) \in InC THEN InC \ {Last(chainBar)} ELSE InC \cup {Last(chainBar)}
  BY <1>2, <1>4 DEF InC
<1> QED BY <1>1, <1>2, <1>5 DEF InC, Nested!EnterOrLeaveC, Nested!Running, Nested!Last, Last

\* cur yields, returns or dies.
LEMMA BackBars ==
    ASSUME ChainsInv, mode \in {"run", "raise"}, cur # Main, ToResumer, link' = link, tag' = tag,
           NEW x \in {"yield", "done", "err"}, status' = [status EXCEPT ![cur] = x]
    PROVE  /\ chainBar = Stack /\ Stack' = Stack /\ phaseBar = mode /\ wantBar = Nil
           /\ heldBar' = heldBar
           /\ {t \in Thread : status'[t] # "none"} = {t \in Thread : status[t] # "none"}
           /\ mode' = "back" /\ Callee' = cur /\ Leaf' = cur /\ cur' # cur
           /\ \A s : CalleeIs(s)' <=> s = x
           /\ Len(Stack) > 1 /\ Stack[Len(Stack)] = cur /\ Last(Stack) = cur
           /\ frame[cur'] = "raw" <=> cur \in Untagged
<1>1. PICK p \in Thread : status[p] = "active" /\ link[p] = cur /\ cur' = p /\ mode' = "back"
  BY DEF ToResumer
<1>2. chainBar = Stack /\ phaseBar = mode /\ wantBar = Nil
  BY IdleBars
<1>3. \A t \in Thread : status'[t] = status[t] \/ \E q \in Thread : link[q] = t
  BY <1>1, RunFacts
<1>4. heldBar' = heldBar
  BY <1>3, HeldStays
<1>5. {t \in Thread : status'[t] # "none"} = {t \in Thread : status[t] # "none"}
  BY RunFacts
<1>6. link[cur] = Nil /\ cur # Nil /\ p # cur
  BY <1>1, RunFacts, ThreadAssumption
<1>7. Callee' = cur /\ (\A s : CalleeIs(s)' <=> s = x)
  BY <1>1, RunFacts DEF Callee, CalleeIs
<1>8. Stack = Callers /\ Last(Stack) = cur /\ Len(Stack) > 1 /\ Stack[Len(Stack)] = cur
  <2>1. /\ Stack = Callers /\ Len(Callers) \in Nat \ {0} /\ Callers[Len(Callers)] = cur
        /\ Len(Callers) = 1 <=> cur = Main
    BY <1>6, RunFacts, StackParts
  <2>2. Len(Callers) > 1
    <3>1. PICK n \in Nat \ {0} : n = Len(Callers)
      BY <2>1
    <3>2. n # 1
      BY <2>1, <3>1, Zenon
    <3> QED BY <3>1, <3>2
  <2>3. Last(Callers) = cur
    BY <2>1 DEF Last
  <2> QED BY <2>1, <2>2, <2>3
<1>9. Leaf' = cur
  BY <1>8, SameStack DEF Leaf, Last
<1>10. frame[p] = "raw" <=> cur \in Untagged
  BY <1>1, <1>6, RunFacts DEF Structure, CalleeMatchesFrame, CorosetIsCreated
<1> QED BY <1>1, <1>2, <1>4, <1>5, <1>6, <1>7, <1>8, <1>9, <1>10, SameStack

\* tc.yield and coroutine.yield.
LEMMA YieldRefines ==
    ASSUME ChainsInv, NEW g \in Tag \cup {RawTag}, NEW v \in Payload,
           (g \in Tag /\ TcYield(g, v)) \/ (g = RawTag /\ RawYield(v))
    PROVE  Nested!Yield(g, v)
<1>1. /\ mode = "run" /\ cur # Main /\ ~ccall[cur] /\ ToResumer /\ link' = link /\ tag' = tag
      /\ ccall' = ccall /\ status' = [status EXCEPT ![cur] = "yield"]
      /\ stk' = [stk EXCEPT ![cur] = v]
      /\ \/ g \in Tag /\ frame' = [frame EXCEPT ![cur] = "yieldk"] /\ ytag' = g
         \/ g = RawTag /\ frame' = [frame EXCEPT ![cur] = "uyield"]
  BY DEF TcYield, RawYield, Suspends, Yieldable, meta
<1>2. /\ chainBar = Stack /\ Stack' = Stack /\ phaseBar = mode
      /\ heldBar' = heldBar
      /\ {t \in Thread : status'[t] # "none"} = {t \in Thread : status[t] # "none"}
      /\ mode' = "back" /\ Callee' = cur /\ Leaf' = cur
      /\ CalleeIs("yield")' /\ ~CalleeIs("done")' /\ ~CalleeIs("err")'
      /\ Len(Stack) > 1 /\ Stack[Len(Stack)] = cur
  BY <1>1, BackBars
<1>3. frame'[cur] = (IF g = RawTag THEN "uyield" ELSE "yieldk") /\ stk'[cur] = v
      /\ (g # RawTag => ytag' = g)
  BY <1>1, RunFacts, TagAssumption
<1>4. chainBar' = chainBar /\ phaseBar' = "yield"
  BY <1>2 DEF chainBar, phaseBar
<1>5. wantBar' = g
  BY <1>2, <1>3 DEF wantBar
<1>6. valBar' = v
  BY <1>2, <1>3, <1>4 DEF valBar
<1>7. Nested!CanYield(Len(chainBar))
  BY <1>1, <1>2 DEF Nested!CanYield
<1> QED BY <1>1, <1>2, <1>4, <1>5, <1>6, <1>7 DEF Nested!Yield, Nested!Depth

\* The body of a coroutine returns.
LEMMA ReturnRefines ==
    ASSUME ChainsInv, NEW v \in Payload, Return(v)
    PROVE  Nested!Return(v)
<1>1. /\ mode = "run" /\ cur # Main /\ ~ccall[cur] /\ ToResumer /\ link' = link /\ tag' = tag
      /\ ccall' = ccall /\ status' = [status EXCEPT ![cur] = "done"]
      /\ stk' = [stk EXCEPT ![cur] = v]
  BY DEF Return, meta
<1>2. /\ chainBar = Stack /\ Stack' = Stack /\ phaseBar = mode /\ wantBar = Nil
      /\ heldBar' = heldBar
      /\ {t \in Thread : status'[t] # "none"} = {t \in Thread : status[t] # "none"}
      /\ mode' = "back" /\ Callee' = cur /\ Leaf' = cur
      /\ ~CalleeIs("yield")' /\ CalleeIs("done")' /\ ~CalleeIs("err")'
      /\ Len(Stack) > 1 /\ Last(Stack) = cur
  BY <1>1, BackBars
<1>3. chainBar' = Front(chainBar) /\ phaseBar' = "run" /\ wantBar' = wantBar
  BY <1>2 DEF chainBar, phaseBar, wantBar, Front
<1>4. valBar' = v
  BY <1>1, <1>2, <1>3, RunFacts DEF valBar
<1> QED BY <1>1, <1>2, <1>3, <1>4
    DEF Nested!Return, Nested!Depth, Nested!Running, Nested!Last, Nested!Front, Front, Last

\* No handler in cur.
LEMMA DieRefines ==
    ASSUME ChainsInv, Die
    PROVE  Nested!Die
<1>1. /\ mode = "raise" /\ cur # Main /\ ToResumer /\ link' = link /\ tag' = tag /\ frame' = frame
      /\ ccall' = [ccall EXCEPT ![cur] = FALSE] /\ status' = [status EXCEPT ![cur] = "err"]
  BY DEF Die, meta
<1>2. /\ chainBar = Stack /\ Stack' = Stack /\ phaseBar = mode /\ wantBar = Nil
      /\ heldBar' = heldBar
      /\ {t \in Thread : status'[t] # "none"} = {t \in Thread : status[t] # "none"}
      /\ mode' = "back"
      /\ ~CalleeIs("yield")' /\ ~CalleeIs("done")' /\ CalleeIs("err")'
      /\ Len(Stack) > 1 /\ Last(Stack) = cur
      /\ frame[cur'] = "raw" <=> cur \in Untagged
  BY <1>1, BackBars
<1>3. /\ chainBar' = Front(chainBar) /\ wantBar' = wantBar
      /\ phaseBar' = IF cur \in Untagged THEN "run" ELSE "raise"
  BY <1>1, <1>2 DEF chainBar, phaseBar, wantBar, Front
<1>4. valBar = <<>> /\ valBar' = IF cur \in Untagged THEN <<"msg">> ELSE <<>>
  BY <1>1, <1>2, <1>3 DEF valBar
<1>5. InC' = InC \ {cur}
  <2>1. \A t \in Thread : ccall'[t] <=> ccall[t] /\ t # cur
    BY <1>1, RunFacts
  <2> QED BY <2>1, Zenon DEF InC
<1> QED BY <1>1, <1>2, <1>3, <1>4, <1>5
    DEF Nested!Die, Nested!Depth, Nested!Running, Nested!Last, Nested!Front, Front, Last, InC

\* A sequence and one appended, without the last.
LEMMA FrontOfAppended ==
    ASSUME NEW s \in Seq(Thread), NEW t \in Thread
    PROVE  Front(s \o <<t>>) = s
<1>1. <<t>> \in Seq(Thread) /\ Len(s \o <<t>>) - 1 = Len(s) /\ Len(s) \in Nat
  OBVIOUS
<1>2. Front(s \o <<t>>) = SubSeq(s \o <<t>>, 1, Len(s))
  BY <1>1 DEF Front
<1>3. CASE s = <<>>
  BY <1>1, <1>2, <1>3, SubSeqEmpty
<1>4. CASE s # <<>>
  <2>1. 1 \in 1..Len(s) /\ Len(s) \in 1..Len(s)
    BY <1>4
  <2>2. SubSeq(s \o <<t>>, 1, Len(s)) = SubSeq(s, 1, Len(s))
    BY <1>1, <2>1, SubSeqOfConcat1
  <2> QED BY <1>2, <2>2, SubSeqFull
<1> QED BY <1>3, <1>4

\* An error that ends up in the caller of the coroutine that died, a value that is
\* already where it is returned: what auxcallk does with it is not seen.
LEMMA OverBars ==
    ASSUME ChainsInv, TypeOK', mode = "back", status[Callee] \in {"done", "err"}, LeavesFrame,
           status' = status, cur' = cur, tag' = tag, ccall' = ccall, mode' \in {"run", "raise"}
    PROVE  /\ UNCHANGED <<chainBar, heldBar, {t \in Thread : status[t] # "none"}, tag,
                          {t \in Thread : ccall[t]}, wantBar>>
           /\ phaseBar' = mode'
           /\ valBar' = IF mode' = "run" THEN stk'[cur] ELSE <<>>
           /\ phaseBar = IF CalleeIs("done") \/ frame[cur] = "raw" THEN "run" ELSE "raise"
           /\ valBar = IF phaseBar = "raise" THEN <<>>
                       ELSE IF CalleeIs("err") THEN <<"msg">> ELSE stk[Callee]
<1>1. link[cur] # Nil /\ link \in [Thread -> Thread \cup {Nil}] /\ cur \in Thread
  <2>1. frame[cur] \in Calling /\ cur \in Thread
    BY RunFacts DEF Structure, CurMatchesMode
  <2> QED BY <2>1, RunFacts DEF Structure, LinkedWhileWaiting, Waiting
<1>2. link' = [link EXCEPT ![cur] = Nil]
  BY DEF LeavesFrame
<1>3. CalleeIs("done") \/ CalleeIs("err")
  BY DEF CalleeIs
<1>4. ~CalleeIs("yield") /\ ~(CalleeIs("done") /\ CalleeIs("err"))
  BY DEF CalleeIs
<1>5. Callers \in Seq(Thread) /\ Len(Callers) \in Nat \ {0}
  BY RunFacts, StackParts
<1>6. chainBar' = Callers
  <2>1. chainBar' = Stack'
    BY IdleBarsNext
  <2> QED BY <1>2, <2>1 DEF Stack, StackFrom, Callers
<1>7. chainBar = Callers
  <2>1. Stack = Callers \o StackFrom(Callee)
    BY <1>1, RunFacts, StackParts
  <2>2. StackFrom(Callee) = <<Callee>>
    <3>1. link[Callee] = Nil /\ Callee \in Thread
      BY <1>1, RunFacts DEF Callee, Structure, FramesMatchStatus, LinkedWhileWaiting, Waiting, Calling
    <3>2. <<Callee>> \in Seq(Thread) /\ <<Callee>> # <<>> /\ IsPath(<<Callee>>, Callee, link)
      BY <3>1 DEF IsPath
    <3> QED BY <3>1, <3>2, RunFacts, RunningFacts, PathIs DEF StackFrom
  <2>3. Callee \in Thread
    BY <1>1 DEF Callee
  <2>4. Front(Callers \o <<Callee>>) = Callers
    BY <1>5, <2>3, FrontOfAppended
  <2> QED BY <1>3, <2>1, <2>2, <2>4 DEF chainBar
<1>8. heldBar' = heldBar
  BY <1>1, <1>2, RunFacts, HeldReturned
<1>9. wantBar = Nil /\ wantBar' = Nil
  BY <1>4, IdleBarsNext DEF wantBar
<1>10. phaseBar = IF CalleeIs("done") \/ frame[cur] = "raw" THEN "run" ELSE "raise"
  BY <1>3, <1>4 DEF phaseBar
<1>11. valBar = IF phaseBar = "raise" THEN <<>>
                ELSE IF CalleeIs("err") THEN <<"msg">> ELSE stk[Callee]
  BY <1>3, <1>4, <1>10 DEF valBar
<1> QED BY <1>6, <1>7, <1>8, <1>9, <1>10, <1>11, IdleBarsNext

\* BackOK, BackErr, and coroutine.resume of a coroutine that returned or died.
LEMMA OverStep ==
    ASSUME MayOverflow = FALSE, ChainsInv, TypeOK',
           BackOK \/ BackErr \/ (RawBack /\ status[Callee] # "yield")
    PROVE  UNCHANGED Nested!vars
<1>1. /\ mode = "back" /\ status[Callee] \in {"done", "err"} /\ LeavesFrame
      /\ status' = status /\ cur' = cur /\ tag' = tag /\ ccall' = ccall
  <2>1. mode = "back" /\ cur \in Thread /\ frame[cur] \in Calling
    BY RunFacts DEF BackOK, BackErr, RawBack, InAuxcallk, Structure, CurMatchesMode
  <2>2. link[cur] # Nil
    BY <2>1, RunFacts DEF Structure, LinkedWhileWaiting, Waiting
  <2>3. status[Callee] \in {"yield", "done", "err"}
    BY <2>1, <2>2, RunFacts DEF Structure, CalleeMatchesFrame, Callee
  <2> QED BY <2>1, <2>3 DEF BackOK, BackErr, RawBack, meta
<1>2. Callee # cur /\ Callee \in Thread
  BY <1>1, RunFacts, ThreadAssumption
     DEF Callee, Structure, CurMatchesMode, LinkedWhileWaiting, Waiting, Calling
<1>3. CASE BackOK
  <2>1. stk' = [stk EXCEPT ![Callee] = <<>>, ![cur] = stk[Callee]] /\ mode' = "run" /\ CalleeIs("done")
    BY <1>3 DEF BackOK, Moves, Overflows, InAuxcallk, CalleeIs
  <2>2. ~CalleeIs("err") /\ stk'[cur] = stk[Callee]
    BY <2>1, RunFacts DEF CalleeIs
  <2>3. phaseBar = "run" /\ phaseBar' = "run" /\ valBar' = valBar
    BY <1>1, <2>1, <2>2, OverBars
  <2> QED BY <1>1, <2>1, <2>3, OverBars DEF Nested!vars
<1>4. CASE BackErr
  <2>1. mode' = "raise" /\ CalleeIs("err") /\ ~CalleeIs("done") /\ frame[cur] # "raw"
    BY <1>1, <1>4 DEF BackErr, InAuxcallk, CalleeIs
  <2>3. phaseBar = "raise" /\ phaseBar' = "raise" /\ valBar' = valBar
    BY <1>1, <2>1, OverBars
  <2> QED BY <1>1, <2>1, <2>3, OverBars DEF Nested!vars
<1>5. CASE RawBack
  <2>1. mode' = "run" /\ frame[cur] = "raw" /\ frame[Callee] # "yieldk"
    BY <1>1, <1>2, <1>5, RunFacts DEF RawBack, Structure, FramesMatchStatus
  <2>2. stk'[cur] = IF status[Callee] = "err" THEN <<"msg">> ELSE stk[Callee]
    BY <1>2, <1>5, <2>1, RunFacts DEF RawBack
  <2>3. phaseBar = "run" /\ phaseBar' = "run" /\ valBar' = valBar
    BY <1>1, <2>1, <2>2, OverBars DEF CalleeIs
  <2> QED BY <1>1, <2>1, <2>3, OverBars DEF Nested!vars
<1> QED BY <1>3, <1>4, <1>5

\* Only free coroutines are called.
LEMMA CalledIsFreeHere ==
    ASSUME ChainsInv, mode = "run", NEW co \in Thread
    PROVE  /\ Resumable(co) /\ status[co] \in {"new", "yield"} => Free(co)
           /\ co \in Untagged /\ status[co] \in {"new", "yield"} => Free(co)
<1> SUFFICES ASSUME NEW p \in Thread, link[p] = co, status[co] \in {"new", "yield"},
                    Resumable(co) \/ co \in Untagged
             PROVE  FALSE
  BY DEF Free
<1>1. link[p] # Nil /\ frame[p] \in Waiting
  BY RunFacts, ThreadAssumption DEF Structure, LinkedWhileWaiting
<1>2. frame[p] \in {"passk", "untk"}
  BY <1>1, RunFacts DEF Structure, CalleeMatchesFrame, Waiting, Calling
<1>3. co \in coroset /\ stacked[co]
  BY <1>1, <1>2, RunFacts DEF Structure, CalleeMatchesFrame
<1> QED BY <1>3, RunFacts DEF Resumable, Structure, CorosetIsCreated

\* The end of two joined sequences is that of the second.
LEMMA LastOfJoined ==
    ASSUME NEW a \in Seq(Thread), NEW b \in Seq(Thread), b # <<>>
    PROVE  Last(a \o b) = Last(b)
<1>1. Len(b) \in Nat \ {0} /\ Len(a) \in Nat /\ Len(a \o b) = Len(a) + Len(b)
  BY EmptySeq
<1>2. (a \o b)[Len(a) + Len(b)] = b[Len(b)]
  <2>1. Len(a) + Len(b) \in 1..Len(a) + Len(b) /\ ~(Len(a) + Len(b) <= Len(a))
        /\ Len(a) + Len(b) - Len(a) = Len(b)
    BY <1>1
  <2> QED BY <2>1, ConcatProperties
<1> QED BY <1>1, <1>2 DEF Last

\* What cur waits for when it calls co is the whole stack of co.
LEMMA JoinedStack ==
    ASSUME ChainsInv, TypeOK', link[cur] = Nil, NEW co \in Thread, status[co] # "active",
           link' = [link EXCEPT ![cur] = co]
    PROVE  /\ Stack' = Stack \o StackFrom(co)
           /\ StackFrom(co) \in Seq(Thread) /\ StackFrom(co) # <<>>
           /\ Leaf' \in StackOf(co) /\ Leaf' \in Thread /\ link[Leaf'] = Nil
           /\ \A y \in StackOf(co) : link[y] = Nil => y = Leaf'
<1>1. Steps(link) /\ Main \in Thread /\ cur \in Thread /\ cur \in Walk(Main, link)
      /\ HasPaths(link)
  BY RunFacts, RunningFacts DEF StackOf
<1>2. cur \notin Walk(co, link)
  BY RunFacts, CurNotBelow DEF StackOf
<1>3. Path(Main, link') = Path(Main, link) \o Path(co, link)
  <2>1. Path(Main, [link EXCEPT ![cur] = co]) = Path(Main, link) \o Path(co, link)
    BY <1>1, <1>2, PathJoins
  <2> QED BY <2>1
<1>4. Stack' = Stack \o StackFrom(co)
  BY <1>3 DEF Stack, StackFrom
<1>5. /\ StackFrom(co) \in Seq(Thread) /\ StackFrom(co) # <<>> /\ IsPath(StackFrom(co), co, link)
      /\ StackOf(co) = {StackFrom(co)[i] : i \in 1..Len(StackFrom(co))}
  BY <1>1, ThePath DEF StackFrom, StackOf
<1>6. Leaf' = Last(StackFrom(co))
  <2>1. Leaf' = Last(Stack \o StackFrom(co))
    BY <1>4 DEF Leaf
  <2> QED BY <1>5, <2>1, RunFacts, LastOfJoined
<1>7. Leaf' \in StackOf(co) /\ Leaf' \in Thread /\ link[Leaf'] = Nil
  <2> DEFINE b == StackFrom(co)
  <2>1. b \in Seq(Thread) /\ b # <<>> /\ IsPath(b, co, link) /\ StackOf(co) = {b[i] : i \in 1..Len(b)}
        /\ Leaf' = b[Len(b)]
    BY <1>5, <1>6 DEF Last
  <2> HIDE DEF b
  <2>2. Len(b) \in 1..Len(b) /\ b[Len(b)] \in Thread /\ link[b[Len(b)]] = Nil
    BY <2>1, PathIndexes
  <2> QED BY <2>1, <2>2
<1>8. ASSUME NEW y \in StackOf(co), link[y] = Nil
      PROVE  y = Leaf'
  <2>1. y \in Walk(co, link)
    BY DEF StackOf
  <2>2. y = Last(Path(co, link))
    BY <1>1, <1>8, <2>1, EndReached
  <2> QED BY <1>6, <2>2 DEF StackFrom
<1> QED BY <1>4, <1>5, <1>7, <1>8

\* The arguments of a call of co are then either on co or at the end of its stack.
LEMMA CallBars ==
    ASSUME ChainsInv, TypeOK', mode = "run", NEW co \in Thread, Free(co), NEW how \in Calling,
           Resumes(co, how), tag' = tag, ccall' = ccall,
           NEW v \in Payload, InTransit' = v
    PROVE  Nested!Call(co, v)
<1>1. /\ status' = [status EXCEPT ![co] = "active"] /\ link' = [link EXCEPT ![cur] = co]
      /\ cur' = co /\ mode' = "cont" /\ link[cur] = Nil /\ status[co] \in {"new", "yield"}
  BY RunFacts DEF Resumes, Free
<1>2. chainBar = Stack /\ phaseBar = "run" /\ wantBar = Nil
  BY IdleBars
<1>3. heldBar[co] = StackFrom(co) /\ heldBar' = [heldBar EXCEPT ![co] = <<>>]
  BY <1>1, RunFacts, HeldCalled
<1>4. ~CalleeIs("yield")' /\ ~CalleeIs("done")' /\ ~CalleeIs("err")'
  BY <1>1 DEF CalleeIs
<1>5. chainBar' = chainBar \o heldBar[co] /\ heldBar[co] # <<>>
  BY <1>1, <1>2, <1>3, <1>4, JoinedStack DEF chainBar
<1>6. wantBar' = wantBar
  BY <1>2, <1>4 DEF wantBar
<1>7. phaseBar' = "run"
  <2>1. v \in Seq(Arg) /\ "sentinel" \notin Arg
    BY DataAssumption DEF Ctl
  <2>2. ~SaysFailed(v)
    BY <2>1 DEF SaysFailed
  <2> QED BY <1>1, <1>4, <2>2 DEF phaseBar, SaysFailed
<1>8. valBar' = v
  BY <1>1, <1>7 DEF valBar
<1>9. {t \in Thread : status'[t] # "none"} = {t \in Thread : status[t] # "none"}
  BY <1>1, RunFacts
<1> QED BY <1>2, <1>3, <1>5, <1>6, <1>7, <1>8, <1>9 DEF Nested!Call

\* Nothing is left where arguments are put.
LEMMA NoLeftovers ==
    ASSUME CInv, mode = "run", NEW t \in Thread, t # cur, status[t] # "err"
    PROVE  stk[t] = <<>>
BY DEF CInv, StacksInv, ValuesHeld

\* call, resume and wrap of a coroutine that is suspended.
LEMMA CocallAliveRefines ==
    ASSUME CInv, TypeOK', NEW co \in Thread, NEW v \in Payload, Cocall(co, v),
           status[co] \in {"new", "yield"}
    PROVE  Nested!Call(co, v)
<1> ChainsInv
  BY CHasChains
<1> DEFINE a == ArgTarget(co)
<1>1. /\ mode = "run" /\ Resumable(co) /\ Resumes(co, "call") /\ tag' = tag /\ ccall' = ccall
      /\ stk' = [stk EXCEPT ![cur] = <<>>, ![a] = @ \o v]
  BY DEF Cocall
<1>2. Free(co) /\ co # cur /\ co \in coroset /\ ~stacked[co]
  BY <1>1, CalledIsFreeHere, RunFacts DEF Resumable
<1>3. /\ link' = [link EXCEPT ![cur] = co] /\ cur' = co /\ link[cur] = Nil /\ status[co] # "active"
  BY <1>1, RunFacts DEF Resumes
<1>4. /\ Leaf' \in StackOf(co) /\ Leaf' \in Thread /\ link[Leaf'] = Nil
      /\ \A y \in StackOf(co) : link[y] = Nil => y = Leaf'
  BY <1>3, JoinedStack
<1>5. a = Leaf'
  <2>1. CASE status[co] = "new"
    <3>1. source[co] = Nil
      BY <2>1 DEF CInv, StacksInv, NotCalledYet
    <3>2. link[co] = Nil /\ co \in StackOf(co)
      BY <2>1, RunFacts, WalkBegins
      DEF Structure, FramesMatchStatus, LinkedWhileWaiting, Waiting, Calling, StackOf
    <3> QED BY <1>4, <3>1, <3>2 DEF ArgTarget
  <2>2. CASE status[co] = "yield"
    <3>1. Ends(co, source[co], "yieldk")
      BY <1>2, <2>2 DEF CInv, StacksInv, SourcesEnd, Free
    <3>2. source[co] \in StackOf(co) /\ source[co] \in Thread /\ frame[source[co]] = "yieldk"
      BY <3>1, RunFacts, SuspendedBelow DEF Ends
    <3>3. link[source[co]] = Nil /\ source[co] # Nil
      BY <3>2, RunFacts, ThreadAssumption DEF Structure, LinkedWhileWaiting, Waiting, Calling
    <3> QED BY <1>4, <3>2, <3>3 DEF ArgTarget
  <2> QED BY <2>1, <2>2
<1>6. a \in Thread /\ a # cur /\ status[a] # "err" /\ stk[a] = <<>> /\ stk[co] = <<>>
  <2>1. a \in Thread /\ a # cur
    BY <1>3, <1>4, <1>5, RunFacts, CurNotBelow
  <2>2. status[a] # "err"
    <3>1. CASE status[co] = "yield"
      BY <1>4, <1>5, <3>1, RunFacts, SuspendedBelow
    <3>2. CASE status[co] = "new"
      BY <3>2 DEF ArgTarget, CInv, StacksInv, NotCalledYet
    <3> QED BY <3>1, <3>2
  <2> QED BY <1>1, <1>2, <2>1, <2>2, NoLeftovers
<1> HIDE DEF a
<1>7. v \in Seq(Arg) /\ <<>> \o v = v
  BY DataAssumption
<1>8. stk'[a] = v /\ (a # co => stk'[co] = <<>>)
  <2>1. stk'[a] = stk[a] \o v
    BY <1>1, <1>6, RunFacts
  <2> QED BY <1>1, <1>2, <1>6, <1>7, <2>1, RunFacts
<1>9. InTransit' = v
  <2>1. InTransit' = IF stk'[co] # <<>> THEN stk'[co] ELSE stk'[a]
    BY <1>3, <1>5 DEF InTransit
  <2> QED BY <1>8, <2>1
<1> QED BY <1>1, <1>2, <1>9, CallBars DEF Calling

\* A call whose arguments are put on the coroutine that is called.
LEMMA DirectCall ==
    ASSUME ChainsInv, TypeOK', mode = "run", NEW u \in Thread, NEW v \in Payload, Free(u),
           NEW how \in Calling, Resumes(u, how), tag' = tag, ccall' = ccall,
           stk' = [stk EXCEPT ![cur] = <<>>, ![u] = v],
           \A t \in Thread : t # cur /\ status[t] # "err" => stk[t] = <<>>
    PROVE  Nested!Call(u, v)
<1>1. status[u] \in {"new", "yield"}
  BY DEF Free
<1>2. u # cur
  BY <1>1, RunFacts
<1>3. /\ link' = [link EXCEPT ![cur] = u] /\ cur' = u /\ link[cur] = Nil /\ status[u] # "active"
  BY <1>1, RunFacts DEF Resumes
<1>4. Leaf' \in StackOf(u) /\ Leaf' \in Thread /\ link[Leaf'] = Nil
  BY <1>3, JoinedStack
<1>5. Leaf' # cur /\ (Leaf' # u => stk[Leaf'] = <<>>)
  <2>1. Leaf' # cur
    BY <1>3, <1>4, RunFacts, CurNotBelow
  <2>2. ASSUME Leaf' # u
        PROVE  status[Leaf'] # "err"
    <3>1. status[u] = "yield"
      <4> SUFFICES ASSUME status[u] = "new" PROVE FALSE
        BY <1>1
      <4>1. link[u] = Nil
        BY RunFacts DEF Structure, FramesMatchStatus, LinkedWhileWaiting, Waiting, Calling
      <4>2. Closed({u}, link)
        BY <4>1 DEF Closed
      <4>3. StackOf(u) \subseteq {u}
        BY <4>2, WalkStays DEF StackOf
      <4> QED BY <1>4, <2>2, <4>3
    <3> QED BY <1>4, <3>1, RunFacts, SuspendedBelow
  <2> QED BY <1>1, <1>4, <2>1, <2>2
<1>6. stk'[u] = v /\ (Leaf' # u => stk'[Leaf'] = <<>>)
  BY <1>1, <1>2, <1>4, <1>5, RunFacts
<1>7. InTransit' = v
  <2>1. InTransit' = IF stk'[u] # <<>> THEN stk'[u] ELSE stk'[Leaf']
    BY <1>3 DEF InTransit
  <2> QED BY <1>6, <2>1
<1> QED BY <1>7, CallBars

\* coroutine.resume of an untagged coroutine.
LEMMA RawResumeRefines ==
    ASSUME CInv, TypeOK', NEW u \in Thread, NEW v \in Payload, RawResume(u, v)
    PROVE  Nested!Call(u, v)
<1> ChainsInv
  BY CHasChains
<1>1. /\ mode = "run" /\ u \in Untagged /\ status[u] \in {"new", "yield"}
      /\ Resumes(u, "raw") /\ tag' = tag /\ ccall' = ccall
      /\ stk' = [stk EXCEPT ![cur] = <<>>, ![u] = v]
  BY DEF RawResume, meta
<1>2. Free(u) /\ "raw" \in Calling
  BY <1>1, CalledIsFreeHere DEF Calling
<1>3. \A t \in Thread : t # cur /\ status[t] # "err" => stk[t] = <<>>
  BY <1>1, NoLeftovers
<1> QED BY <1>1, <1>2, <1>3, DirectCall

\* A call of a dead coroutine is an error in the caller.
LEMMA CocallDeadRefines ==
    ASSUME CInv, TypeOK', NEW co \in Thread, NEW v \in Payload, Cocall(co, v),
           status[co] \notin {"new", "yield"}
    PROVE  Nested!Fails
<1> ChainsInv
  BY CHasChains
<1>1. /\ mode = "run" /\ status[co] = "err" /\ mode' = "back" /\ cur' = cur /\ status' = status
      /\ tag' = tag /\ ccall' = ccall /\ frame' = [frame EXCEPT ![cur] = "call"]
      /\ link' = [link EXCEPT ![cur] = co]
  BY RunFacts DEF Cocall, Resumable, Status
<1>2. chainBar = Stack /\ phaseBar = "run" /\ wantBar = Nil
  BY <1>1, IdleBars
<1>3. link[cur] = Nil /\ Callee' = co /\ frame'[cur] = "call" /\ co # cur
  BY <1>1, RunFacts DEF Callee
<1>4. CalleeIs("err")' /\ ~CalleeIs("done")' /\ ~CalleeIs("yield")'
  BY <1>1, <1>3 DEF CalleeIs
<1>5. StackFrom(co) = <<co>>
  <2>1. link[co] = Nil
    BY <1>1, RunFacts DEF Structure, FramesMatchStatus, LinkedWhileWaiting, Waiting, Calling
  <2>2. <<co>> \in Seq(Thread) /\ <<co>> # <<>> /\ IsPath(<<co>>, co, link)
    BY <2>1 DEF IsPath
  <2> QED BY <2>2, RunFacts, RunningFacts, PathIs DEF StackFrom
<1>6. chainBar' = chainBar
  <2>1. Stack' = Stack \o <<co>>
    BY <1>1, <1>3, <1>5, JoinedStack
  <2> QED BY <1>2, <1>4, <2>1, RunFacts, FrontOfAppended DEF chainBar
<1>7. heldBar' = heldBar
  <2>1. \A t \in Thread : t # co => heldBar'[t] = heldBar[t]
    BY <1>1, <1>3, RunFacts, ThreadAssumption, HeldElsewhere
  <2>2. heldBar'[co] = <<>> /\ heldBar[co] = <<>>
    BY <1>1 DEF heldBar
  <2>3. heldBar' = [t \in Thread |-> heldBar'[t]] /\ heldBar = [t \in Thread |-> heldBar[t]]
    BY DEF heldBar
  <2> QED BY <2>1, <2>2, <2>3
<1>8. phaseBar' = "raise" /\ wantBar' = wantBar
  BY <1>1, <1>2, <1>3, <1>4 DEF phaseBar, wantBar
<1>9. valBar' = <<>>
  BY <1>8 DEF valBar
<1> QED BY <1>1, <1>2, <1>6, <1>7, <1>8, <1>9 DEF Nested!Fails

\* The callees that a yield has passed all are tagged.
LEMMA EndsTagged ==
    ASSUME TypeOK, Structure, NEW t \in Thread, t \in coroset, NEW y, NEW how,
           how \in {"yieldk", "uyield"}, Ends(t, y, how)
    PROVE  StackOf(t) \subseteq coroset
<1>1. Steps(link)
  BY LinkSteps
<1>2. link[y] = Nil
  BY <1>1, WalkBegins DEF Ends, StackOf, Structure, LinkedWhileWaiting, Waiting, Calling
<1>3. ASSUME NEW p \in StackOf(t) \cap coroset, link[p] # Nil
      PROVE  link[p] \in StackOf(t) \cap coroset
  <2>1. p \in Thread /\ link[p] \in Walk(t, link)
    BY <1>1, <1>3, WalkBegins, WalkGoesOn DEF StackOf, Closed
  <2>2. frame[p] = "passk"
    BY <1>2, <1>3 DEF Ends
  <2> QED BY <1>3, <2>1, <2>2 DEF Structure, CalleeMatchesFrame, StackOf
<1>4. StackOf(t) \cap coroset \subseteq Thread /\ t \in StackOf(t) \cap coroset
  BY <1>1, WalkBegins DEF StackOf
<1>5. Closed(StackOf(t) \cap coroset, link)
  BY <1>3 DEF Closed
<1>6. Walk(t, link) \subseteq StackOf(t) \cap coroset
  BY <1>1, <1>4, <1>5, WalkStays
<1> QED BY <1>6 DEF StackOf

\* What cur has called, and how far up the chain it is.
CallOfCur ==
    LET i == Len(Callers) + 1
        n == Len(Stack)
    IN  /\ i \in 2..n /\ n \in Nat
        /\ Stack[i] = Callee /\ Stack[i - 1] = cur
        /\ i = 2 <=> cur = Main
        /\ i - 1 > 1 <=> cur # Main
        /\ \A j \in i..n : Stack[j] \in StackOf(Callee)
        /\ \A j \in i + 1..n : Stack[j] \in StackOf(Callee) \ {Callee}
        /\ SubSeq(Stack, 1, i - 1) = Callers
        /\ SubSeq(Stack, i, n) = StackFrom(Callee)

\* A callee of cur that has yielded.
LEMMA CalleeYieldedFacts ==
    ASSUME ChainsInv, mode = "back", status[Callee] = "yield"
    PROVE  /\ Callee \in Thread /\ Callee # cur /\ link[cur] = Callee /\ link[cur] # Nil
           /\ \A q \in StackOf(Callee) : q \in Thread /\ status[q] = "yield" /\ ~ccall[q] /\ q # cur
           /\ CallOfCur
           /\ Leaf \in StackOf(Callee) /\ link[Leaf] = Nil /\ Leaf # cur
           /\ chainBar = Stack /\ phaseBar = "yield"
           /\ wantBar = IF frame[Leaf] = "uyield" THEN RawTag ELSE ytag
           /\ valBar = IF frame[cur] = "raw" THEN stk[Callee] ELSE stk[Leaf]
           /\ Callee = Leaf <=> link[Callee] = Nil
           /\ \A y \in StackOf(Callee) : link[y] = Nil => y = Leaf
<1>1. link[cur] # Nil /\ link[cur] \in Thread /\ Callee = link[cur]
  <2>1. frame[cur] \in Calling
    BY DEF ChainsInv, Structure, CurMatchesMode
  <2> QED BY <2>1, RunFacts DEF Structure, LinkedWhileWaiting, Waiting, Callee
<1>2. Callee # cur
  BY RunFacts
<1>3. \A q \in StackOf(Callee) : q \in Thread /\ status[q] = "yield" /\ q # cur
  BY <1>1, RunFacts, SuspendedBelow, CurNotBelow
<1>4. \A q \in StackOf(Callee) : ~ccall[q]
  BY <1>3 DEF ChainsInv, PendingC
<1>5. CallOfCur
  BY <1>1, RunFacts, CalleePart DEF CallOfCur
<1>6. /\ Leaf \in StackOf(Callee) /\ link[Leaf] = Nil /\ Leaf # cur
      /\ \A y \in StackOf(Callee) : link[y] = Nil => y = Leaf
  BY <1>1, <1>3, RunFacts, LeafIsEnd
<1>7. Callee \in StackOf(Callee)
  BY <1>1, RunFacts, LinkSteps, WalkBegins DEF StackOf
<1>8. CalleeIs("yield") /\ ~CalleeIs("done") /\ ~CalleeIs("err")
  BY DEF CalleeIs
<1>9. chainBar = Stack /\ phaseBar = "yield"
  BY <1>8 DEF chainBar, phaseBar
<1>10. wantBar = IF frame[Leaf] = "uyield" THEN RawTag ELSE ytag
  BY <1>8 DEF wantBar
<1>11. valBar = IF frame[cur] = "raw" THEN stk[Callee] ELSE stk[Leaf]
  BY <1>8, <1>9 DEF valBar
<1> QED BY <1>1, <1>2, <1>3, <1>4, <1>5, <1>6, <1>7, <1>9, <1>10, <1>11

\* What the invariants say of a yield that is on its way, seen from auxcallk.
LEMMA YieldFacts ==
    ASSUME CInv, CalleeYielded
    PROVE  /\ mode = "back" /\ status[Callee] = "yield" /\ frame[cur] \in {"call", "callk"}
           /\ Leaf = Yielder /\ frame[Leaf] = (IF YieldTag = RawTag THEN "uyield" ELSE "yieldk")
           /\ wantBar = YieldTag /\ valBar = stk[Yielder]
           /\ Callee \in coroset
           /\ StackOf(Callee) \subseteq coroset
           /\ \A q \in StackOf(Callee) \ {Callee} : tag[q] # YieldTag
<1> ChainsInv
  BY CHasChains
<1>1. mode = "back" /\ status[Callee] = "yield" /\ frame[cur] \in {"call", "callk"}
  BY DEF CalleeYielded, InAuxcallk
<1>2. /\ Yielder \in StackOf(Callee) /\ link[Yielder] = Nil
      /\ Ends(Callee, Yielder, IF YieldTag = RawTag THEN "uyield" ELSE "yieldk")
      /\ \A q \in StackOf(Callee) \ {Callee} : tag[q] # YieldTag
  BY RunFacts, YielderIsEnd DEF CInv, StacksInv, YielderEnds
<1>3. Leaf = Yielder
  BY <1>1, <1>2, CalleeYieldedFacts
<1>4. frame[Leaf] = IF YieldTag = RawTag THEN "uyield" ELSE "yieldk"
  BY <1>2, <1>3 DEF Ends
<1>5. wantBar = YieldTag
  BY <1>1, <1>4, CalleeYieldedFacts DEF YieldTag, IsRaw
<1>6. valBar = stk[Yielder]
  BY <1>1, <1>3, CalleeYieldedFacts
<1>7. Callee \in coroset
  BY <1>1, RunFacts, CalleeYieldedFacts DEF Structure, CalleeMatchesFrame
<1>8. StackOf(Callee) \subseteq coroset
  BY <1>1, <1>2, <1>7, RunFacts, CalleeYieldedFacts, EndsTagged
<1> QED BY <1>1, <1>2, <1>3, <1>4, <1>5, <1>6, <1>7, <1>8

\* The yield that cur has been given is where the README has it.
LEMMA ReachesHere ==
    ASSUME CInv, CalleeYielded, NEW i, i = Len(Callers) + 1
    PROVE  /\ i \in 2..Nested!Depth /\ Nested!Depth = Len(Stack)
           /\ Nested!Reaches(i)
           /\ chainBar[i] = Callee /\ chainBar[i - 1] = cur
           /\ i = 2 <=> cur = Main
           /\ Nested!CanYield(i - 1) <=> Yieldable(cur)
           /\ cur \in Untagged <=> cur \notin coroset
<1> ChainsInv
  BY CHasChains
<1> DEFINE n == Len(Stack)
<1>1. /\ i \in 2..n /\ n \in Nat /\ Stack[i] = Callee /\ Stack[i - 1] = cur
      /\ i = 2 <=> cur = Main
      /\ i - 1 > 1 <=> cur # Main
      /\ \A j \in i..n : Stack[j] \in StackOf(Callee)
      /\ \A j \in i + 1..n : Stack[j] \in StackOf(Callee) \ {Callee}
      /\ chainBar = Stack /\ phaseBar = "yield"
  BY YieldFacts, CalleeYieldedFacts DEF CallOfCur
<1>2. Nested!Depth = n
  BY <1>1 DEF Nested!Depth
<1>3. ASSUME NEW j \in i..n
      PROVE  Stack[j] \notin Untagged /\ j > 1 /\ Stack[j] \notin InC
  <2>1. Stack[j] \in StackOf(Callee) /\ j > 1
    BY <1>1
  <2>2. Stack[j] \in Thread /\ Stack[j] \in coroset /\ ~ccall[Stack[j]]
    BY <2>1, YieldFacts, CalleeYieldedFacts
  <2> QED BY <2>1, <2>2, RunFacts DEF InC, Structure, CorosetIsCreated
<1>4. \A j \in i + 1..n : tag[Stack[j]] # wantBar
  BY <1>1, YieldFacts
<1>5. Nested!Reaches(i)
  BY <1>1, <1>2, <1>3, <1>4 DEF Nested!Reaches, Nested!CanYield, InC
<1>6. Nested!CanYield(i - 1) <=> Yieldable(cur)
  <2>1. Nested!CanYield(i - 1) <=> (i - 1 > 1 /\ Stack[i - 1] \notin InC)
    BY <1>1 DEF Nested!CanYield, InC
  <2>2. cur \in InC <=> ccall[cur]
    BY RunFacts DEF InC
  <2> QED BY <1>1, <2>1, <2>2 DEF Yieldable
<1>7. cur \in Untagged <=> cur \notin coroset
  BY RunFacts DEF Structure, CorosetIsCreated
<1> QED BY <1>1, <1>2, <1>5, <1>6, <1>7

\* The call of cur returns what was yielded: from here down to the yielder the
\* chain is cut off.
LEMMA CutHere ==
    ASSUME ChainsInv, TypeOK', mode = "back", status[Callee] = "yield", LeavesFrame, mode' = "run",
           status' = status, cur' = cur, tag' = tag, ccall' = ccall, NEW i, i = Len(Callers) + 1
    PROVE  /\ Nested!Cut(i) /\ Nested!Resolved
           /\ valBar' = stk'[cur]
<1>1. /\ link[cur] # Nil /\ Stack[i] = Callee /\ SubSeq(Stack, 1, i - 1) = Callers
      /\ SubSeq(Stack, i, Len(Stack)) = StackFrom(Callee)
      /\ chainBar = Stack
  BY CalleeYieldedFacts DEF CallOfCur
<1>2. link' = [link EXCEPT ![cur] = Nil]
  BY DEF LeavesFrame
<1>3. chainBar' = Stack' /\ phaseBar' = "run" /\ wantBar' = Nil /\ valBar' = stk'[cur]
  BY IdleBarsNext
<1>4. chainBar' = Callers
  BY <1>2, <1>3 DEF Stack, StackFrom, Callers
<1>5. heldBar' = [heldBar EXCEPT ![Callee] = StackFrom(Callee)]
  BY <1>1, <1>2, RunFacts, HeldReturned
<1>6. Nested!Cut(i)
  BY <1>1, <1>4, <1>5 DEF Nested!Cut, Nested!Depth
<1>7. Nested!Resolved
  BY <1>3 DEF Nested!Resolved
<1> QED BY <1>3, <1>6, <1>7

\* BackForMe: the yield is handled by the callee.
LEMMA BackForMeRefines ==
    ASSUME MayOverflow = FALSE, CInv, TypeOK', BackForMe
    PROVE  \E i \in 2..Nested!Depth : Nested!Handled(i)
<1> ChainsInv
  BY CHasChains
<1>1. /\ CalleeYielded /\ ForMe /\ Moves(Yielder) /\ mode' = "run" /\ LeavesFrame
      /\ status' = status /\ cur' = cur /\ tag' = tag /\ ccall' = ccall
  BY DEF BackForMe, Overflows
<1>2. PICK i : i = Len(Callers) + 1
  OBVIOUS
<1>3. i \in 2..Nested!Depth /\ Nested!Reaches(i) /\ chainBar[i] = Callee
  BY <1>1, <1>2, ReachesHere
<1>4. tag[chainBar[i]] = wantBar
  BY <1>1, <1>3, YieldFacts DEF ForMe
<1>5. Nested!Cut(i) /\ Nested!Resolved /\ valBar' = stk'[cur]
  BY <1>1, <1>2, YieldFacts, CutHere
<1>6. valBar' = valBar
  <2>1. stk' = [stk EXCEPT ![Yielder] = <<>>, ![cur] = stk[Yielder]]
    BY <1>1 DEF Moves
  <2>2. stk'[cur] = stk[Yielder]
    BY <2>1, RunFacts
  <2> QED BY <1>1, <1>5, <2>2, YieldFacts
<1> QED BY <1>3, <1>4, <1>5, <1>6 DEF Nested!Handled

\* A coroutine is resumed with the failure of the yield that got as far as there.
LEMMA GivenBack ==
    ASSUME ChainsInv, TypeOK', mode = "back", status[Callee] = "yield", Resumes(Callee, "call"),
           stk'[Callee] # <<>>
    PROVE  /\ chainBar' = chainBar /\ wantBar' = Nil /\ heldBar' = heldBar /\ mode' = "cont"
           /\ {t \in Thread : status'[t] # "none"} = {t \in Thread : status[t] # "none"}
           /\ phaseBar' = IF frame[Leaf] = "yieldk" /\ SaysFailed(stk'[Callee]) THEN "raise" ELSE "run"
           /\ valBar' = IF phaseBar' = "run" THEN stk'[Callee] ELSE <<>>
<1>1. /\ Callee \in Thread /\ link[cur] = Callee /\ Leaf # cur /\ Leaf \in Thread /\ chainBar = Stack
  BY CalleeYieldedFacts
<1>2. /\ link' = link /\ cur' = Callee /\ mode' = "cont" /\ frame' = [frame EXCEPT ![cur] = "call"]
      /\ status' = [status EXCEPT ![Callee] = "active"]
  <2>1. link' = [link EXCEPT ![cur] = Callee]
    BY DEF Resumes
  <2>2. link' = link
    BY <1>1, <2>1, RunFacts
  <2> QED BY <2>2 DEF Resumes
<1>3. ~CalleeIs("yield")' /\ ~CalleeIs("done")' /\ ~CalleeIs("err")'
  BY <1>2 DEF CalleeIs
<1>4. chainBar' = chainBar /\ wantBar' = Nil /\ Leaf' = Leaf
  BY <1>1, <1>2, <1>3, SameStack DEF chainBar, wantBar, Leaf
<1>5. heldBar' = heldBar
  <2>1. \A t \in Thread : status'[t] = status[t] \/ \E p \in Thread : link[p] = t
    BY <1>1, <1>2, RunFacts
  <2> QED BY <1>2, <2>1, HeldStays
<1>6. {t \in Thread : status'[t] # "none"} = {t \in Thread : status[t] # "none"}
  BY <1>1, <1>2, RunFacts
<1>7. InTransit' = stk'[Callee] /\ frame'[Leaf] = frame[Leaf]
  BY <1>1, <1>2, RunFacts DEF InTransit
<1>8. phaseBar' = IF frame[Leaf] = "yieldk" /\ SaysFailed(stk'[Callee]) THEN "raise" ELSE "run"
  <2>1. SaysFailed(InTransit)' <=> SaysFailed(stk'[Callee])
    BY <1>7 DEF SaysFailed
  <2> QED BY <1>2, <1>3, <1>4, <1>7, <2>1 DEF phaseBar
<1>9. valBar' = IF phaseBar' = "run" THEN stk'[Callee] ELSE <<>>
  BY <1>2, <1>7, <1>8 DEF valBar
<1> QED BY <1>2, <1>4, <1>5, <1>6, <1>8, <1>9

\* A yield that goes no further is the README's error, or the failure it names.
LEMMA BackFailsRefines ==
    ASSUME CInv, TypeOK', BackFails
    PROVE  \E i \in 2..Nested!Depth : Nested!NotFound(i) \/ Nested!Refused(i)
<1> ChainsInv
  BY CHasChains
<1>1. /\ CalleeYielded /\ Blocked /\ Resumes(Callee, "call") /\ tag' = tag /\ ccall' = ccall
      /\ stk' = [stk EXCEPT ![Callee] = FailureValues]
  BY DEF BackFails
<1>2. /\ mode = "back" /\ status[Callee] = "yield" /\ Callee \in Thread /\ link[cur] = Callee
      /\ Leaf # cur /\ chainBar = Stack
      /\ Leaf = Yielder /\ frame[Leaf] = (IF YieldTag = RawTag THEN "uyield" ELSE "yieldk")
      /\ wantBar = YieldTag
  BY <1>1, YieldFacts, CalleeYieldedFacts
<1>3. PICK i : i = Len(Callers) + 1
  OBVIOUS
<1>4. /\ i \in 2..Nested!Depth /\ Nested!Reaches(i) /\ chainBar[i] = Callee /\ chainBar[i - 1] = cur
      /\ i = 2 <=> cur = Main
      /\ Nested!CanYield(i - 1) <=> Yieldable(cur)
      /\ cur \in Untagged <=> cur \notin coroset
  BY <1>1, <1>3, ReachesHere
<1>5. Nested!Unhandled(i)
  BY <1>1, <1>2, <1>4 DEF Nested!Unhandled, Blocked, ForMe, CanPass
<1>6. stk'[Callee] = FailureValues /\ FailureValues # <<>>
  BY <1>1, <1>2, RunFacts DEF FailureValues
<1>7. /\ chainBar' = chainBar /\ wantBar' = Nil /\ heldBar' = heldBar
      /\ {t \in Thread : status'[t] # "none"} = {t \in Thread : status[t] # "none"}
      /\ phaseBar' = IF frame[Leaf] = "yieldk" /\ SaysFailed(FailureValues) THEN "raise" ELSE "run"
      /\ valBar' = IF phaseBar' = "run" THEN FailureValues ELSE <<>>
  BY <1>1, <1>2, <1>6, GivenBack
<1>8. CASE YieldTag # RawTag
  <2>1. SaysFailed(FailureValues)
    BY <1>8 DEF FailureValues, SaysFailed
  <2>2. phaseBar' = "raise" /\ valBar' = <<>>
    BY <1>2, <1>7, <1>8, <2>1
  <2>3. Nested!NotFound(i)
    BY <1>1, <1>2, <1>5, <1>7, <1>8, <2>2 DEF Nested!NotFound
  <2> QED BY <1>4, <2>3
<1>9. CASE YieldTag = RawTag
  <2>1. phaseBar' = "run" /\ valBar' = FailureValues
    BY <1>2, <1>7, <1>9
  <2>2. FailureValues = RefusedByC(i, Nested!Depth)
    BY <1>4, <1>9 DEF FailureValues, RefusedByC
  <2>3. i = 2 \/ chainBar[i - 1] \in InC
    <3>1. ~Yieldable(cur)
      BY <1>1, <1>9 DEF Blocked, CanPass, StopsHere
    <3> QED BY <1>4, <3>1, RunFacts DEF Yieldable, InC
  <2>4. Nested!Resolved
    BY <1>1, <1>7, <2>1 DEF Nested!Resolved
  <2>5. Nested!Refused(i)
    BY <1>2, <1>5, <1>7, <1>9, <2>1, <2>2, <2>3, <2>4 DEF Nested!Refused, InC
  <2> QED BY <1>4, <2>5
<1> QED BY <1>8, <1>9

\* BackLost: the yield fails in a continuation.
LEMMA BackLostRefines ==
    ASSUME CInv, BackLost
    PROVE  \E i \in 2..Nested!Depth : Nested!Lost(i)
<1> ChainsInv
  BY CHasChains
<1>1. /\ CalleeYielded /\ Blocked /\ frame[cur] = "callk" /\ mode' = "broken"
      /\ UNCHANGED <<status, link, frame, ccall, tag, cur>>
  BY DEF BackLost, lua, meta
<1>2. chainBar = Stack /\ wantBar = YieldTag
  BY <1>1, YieldFacts, CalleeYieldedFacts
<1>3. PICK i : i = Len(Callers) + 1
  OBVIOUS
<1>4. /\ i \in 2..Nested!Depth /\ Nested!Reaches(i) /\ chainBar[i] = Callee /\ chainBar[i - 1] = cur
      /\ Nested!CanYield(i - 1) <=> Yieldable(cur)
      /\ cur \in Untagged <=> cur \notin coroset
  BY <1>1, <1>3, ReachesHere
<1>5. Yieldable(cur) /\ cur \in Untagged /\ YieldTag # RawTag
  <2>1. Yieldable(cur)
    BY <1>1, RunFacts DEF CInv, NestedInv, PendingC, Yieldable
  <2> QED BY <1>1, <1>4, <2>1 DEF Blocked, CanPass, StopsHere
<1>6. Nested!Unhandled(i)
  BY <1>1, <1>2, <1>4 DEF Nested!Unhandled, Blocked, ForMe, CanPass
<1>7. ~CalleeIs("yield")' /\ ~CalleeIs("done")' /\ ~CalleeIs("err")'
  BY <1>1 DEF CalleeIs
<1>8. chainBar' = chainBar /\ wantBar' = Nil /\ phaseBar' = "lost"
  BY <1>1, <1>2, <1>7, SameStack DEF chainBar, wantBar, phaseBar
<1>9. valBar' = <<>>
  BY <1>8 DEF valBar
<1>10. heldBar' = heldBar
  BY <1>1, HeldStays
<1>11. Nested!Lost(i)
  BY <1>1, <1>2, <1>4, <1>5, <1>6, <1>8, <1>9, <1>10 DEF Nested!Lost
<1> QED BY <1>4, <1>11

\* A yield passed along, or about to suspend the untagged coroutine that cur is,
\* still is on its way.
LEMMA PassedBars ==
    ASSUME ChainsInv, CalleeYielded, Suspends("passk") \/ Suspends("untk"), link' = link
    PROVE  /\ UNCHANGED <<chainBar, heldBar, {t \in Thread : status[t] # "none"}, phaseBar>>
           /\ Leaf' = Leaf /\ frame'[Leaf] = frame[Leaf]
           /\ Callee' = cur /\ CalleeIs("yield")'
           /\ wantBar' = IF frame[Leaf] = "uyield" THEN RawTag ELSE ytag'
           /\ valBar' = IF cur \in Untagged THEN stk'[cur] ELSE stk'[Leaf]
<1>1. PICK p \in Thread : status[p] = "active" /\ link[p] = cur /\ cur' = p /\ mode' = "back"
  BY DEF Suspends, ToResumer
<1>2. /\ status' = [status EXCEPT ![cur] = "yield"]
      /\ frame' = [frame EXCEPT ![cur] = frame'[cur]]
  BY RunFacts DEF Suspends
<1>3. /\ mode = "back" /\ status[Callee] = "yield" /\ frame[cur] \in {"call", "callk"}
      /\ Leaf # cur /\ chainBar = Stack /\ phaseBar = "yield" /\ link[cur] = Callee /\ Callee # cur
      /\ Leaf \in Thread
  BY CalleeYieldedFacts DEF CalleeYielded, InAuxcallk
<1>4. Callee' = cur /\ CalleeIs("yield")' /\ ~CalleeIs("done")' /\ ~CalleeIs("err")'
  BY <1>1, <1>2, RunFacts DEF Callee, CalleeIs
<1>5. chainBar' = chainBar /\ phaseBar' = phaseBar /\ Leaf' = Leaf
  BY <1>3, <1>4, SameStack DEF chainBar, phaseBar, Leaf, CalleeIs
<1>6. heldBar' = heldBar
  <2>1. \A t \in Thread : status'[t] = status[t] \/ \E q \in Thread : link[q] = t
    BY <1>1, <1>2, RunFacts
  <2> QED BY <2>1, HeldStays
<1>7. {t \in Thread : status'[t] # "none"} = {t \in Thread : status[t] # "none"}
  BY <1>2, RunFacts
<1>8. frame'[Leaf] = frame[Leaf]
  BY <1>2, <1>3, RunFacts
<1>9. wantBar' = IF frame[Leaf] = "uyield" THEN RawTag ELSE ytag'
  BY <1>4, <1>5, <1>8 DEF wantBar
<1>10. frame'[p] = "raw" <=> cur \in Untagged
  <2>1. p # cur
    BY <1>1, <1>3
  <2>2. frame'[p] = frame[p]
    BY <1>2, <2>1, RunFacts
  <2>3. frame[p] = "raw" <=> cur \in Untagged
    BY <1>1, RunFacts, ThreadAssumption DEF Structure, CalleeMatchesFrame, CorosetIsCreated
  <2> QED BY <2>2, <2>3
<1>11. valBar' = IF cur \in Untagged THEN stk'[cur] ELSE stk'[Leaf]
  BY <1>1, <1>3, <1>4, <1>5, <1>10 DEF valBar
<1> QED BY <1>4, <1>5, <1>6, <1>7, <1>8, <1>9, <1>11

\* BackPass: the yield goes one caller further, a stutter.
LEMMA BackPassStep ==
    ASSUME CInv, BackPass
    PROVE  UNCHANGED Nested!vars
<1> ChainsInv
  BY CHasChains
<1>1. /\ CalleeYielded /\ Suspends("passk") /\ link' = link /\ stk' = stk /\ tag' = tag
      /\ ccall' = ccall /\ ytag' = YieldTag /\ cur \in coroset
  BY DEF BackPass, CanPass
<1>2. cur \notin Untagged
  BY <1>1, RunFacts DEF Structure, CorosetIsCreated
<1>3. wantBar' = wantBar /\ valBar' = valBar
  BY <1>1, <1>2, PassedBars, YieldFacts
<1> QED BY <1>1, <1>3, PassedBars DEF Nested!vars

\* BackStopsHere: the untagged caller suspends; a stutter, the yield is over when the
\* coroutine.resume that runs the caller returns.
LEMMA BackStopsHereStep ==
    ASSUME MayOverflow = FALSE, CInv, BackStopsHere
    PROVE  UNCHANGED Nested!vars
<1> ChainsInv
  BY CHasChains
<1>1. /\ CalleeYielded /\ Suspends("untk") /\ link' = link /\ tag' = tag
      /\ stk' = [stk EXCEPT ![Yielder] = <<>>, ![cur] = stk[Yielder]]
      /\ ccall' = ccall /\ YieldTag = RawTag /\ cur \notin coroset
  BY DEF BackStopsHere, Overflows, Moves, StopsHere
<1>2. cur \in Untagged /\ stk'[cur] = stk[Yielder]
  BY <1>1, RunFacts DEF Structure, CorosetIsCreated
<1>3. wantBar' = wantBar /\ valBar' = valBar
  BY <1>1, <1>2, PassedBars, YieldFacts
<1> QED BY <1>1, <1>3, PassedBars DEF Nested!vars

\* What coroutine.resume returns of a yield: all that an untagged coroutine handed
\* out was meant for it, or leaks.
LEMMA RawBackYieldRefines ==
    ASSUME CInv, TypeOK', RawBack, status[Callee] = "yield"
    PROVE  Nested!Leaks \/ \E i \in 2..Nested!Depth : Nested!Suspends(i)
<1> ChainsInv
  BY CHasChains
<1>1. /\ mode = "back" /\ frame[cur] = "raw" /\ mode' = "run" /\ LeavesFrame
      /\ status' = status /\ cur' = cur /\ tag' = tag /\ ccall' = ccall
  BY DEF RawBack, meta
<1>2. PICK i : i = Len(Callers) + 1
  OBVIOUS
<1> DEFINE n == Len(Stack)
<1>3. /\ i \in 2..n /\ n \in Nat /\ Stack[i] = Callee
      /\ \A j \in i..n : Stack[j] \in StackOf(Callee)
      /\ \A j \in i + 1..n : Stack[j] \in StackOf(Callee) \ {Callee}
      /\ chainBar = Stack /\ phaseBar = "yield" /\ link[cur] = Callee /\ link[cur] # Nil
      /\ Callee \in Thread /\ Callee # cur
      /\ wantBar = IF frame[Leaf] = "uyield" THEN RawTag ELSE ytag
      /\ valBar = stk[Callee]
      /\ \A q \in StackOf(Callee) : q \in Thread /\ status[q] = "yield" /\ ~ccall[q]
      /\ \A y \in StackOf(Callee) : link[y] = Nil => y = Leaf
      /\ Callee = Leaf <=> link[Callee] = Nil
  BY <1>1, <1>2, CalleeYieldedFacts DEF CallOfCur
<1>4. Nested!Depth = n
  BY <1>3 DEF Nested!Depth
<1>5. Callee \in Untagged
  BY <1>1, <1>3, RunFacts DEF Structure, CalleeMatchesFrame
<1>6. Nested!Cut(i) /\ Nested!Resolved /\ valBar' = stk'[cur]
  BY <1>1, <1>2, CutHere
<1>7. /\ frame[Callee] \in {"yieldk", "uyield", "untk"}
      /\ link[Callee] = Nil <=> frame[Callee] # "untk"
  <2>1. frame[Callee] \in Suspended /\ frame[Callee] # "passk"
    BY <1>3, <1>5, RunFacts DEF Structure, FramesMatchStatus, CorosetIsCreated,
       CInv, StacksInv, PassedByTagged
  <2> QED BY <1>3, <2>1, RunFacts DEF Suspended, Structure, LinkedWhileWaiting, Waiting, Calling
<1>8. stk'[cur] = IF frame[Callee] = "yieldk" THEN LeakedByC(stk[Callee]) ELSE stk[Callee]
  BY <1>1, <1>3, RunFacts DEF RawBack, LeakedByC
<1>9. CASE frame[Callee] = "yieldk"
  <2>1. Leaf = Callee /\ Last(Stack) = Callee /\ ytag # RawTag
    BY <1>1, <1>3, <1>7, <1>9 DEF Leaf, CInv, StacksInv, YielderEnds
  <2>2. i = n
    <3> SUFFICES ASSUME i # n PROVE FALSE
      OBVIOUS
    <3>1. n \in i + 1..n
      BY <1>3
    <3>2. Stack[n] # Callee
      BY <1>3, <3>1
    <3> QED BY <2>1, <3>2 DEF Last
  <2>3. wantBar # RawTag /\ valBar' = LeakedByC(valBar)
    BY <1>3, <1>6, <1>8, <1>9, <2>1
  <2>4. Nested!Running \in Untagged
    BY <1>3, <1>5, <2>1 DEF Nested!Running, Nested!Last, Last
  <2>5. Nested!Leaks
    BY <1>3, <1>4, <1>6, <2>2, <2>3, <2>4 DEF Nested!Leaks
  <2> QED BY <2>5
<1>10. CASE frame[Callee] # "yieldk"
  <2>1. frame[Leaf] = "uyield" /\ \A j \in i + 1..n : Stack[j] \notin Untagged
    <3>1. CASE frame[Callee] = "uyield"
      <4>1. Leaf = Callee /\ Closed({Callee}, link)
        BY <1>3, <1>7, <3>1 DEF Closed
      <4>2. StackOf(Callee) \subseteq {Callee}
        BY <1>3, <4>1, WalkStays DEF StackOf
      <4> QED BY <1>3, <3>1, <4>1, <4>2
    <3>2. CASE frame[Callee] = "untk"
      <4> DEFINE d == link[Callee]
      <4>1. d # Nil /\ d \in Thread
        BY <1>3, <1>7, <3>2, RunFacts
      <4>2. d \in coroset
        BY <1>3, <3>2, <4>1, RunFacts DEF Structure, CalleeMatchesFrame
      <4>3. Ends(d, source[d], "uyield")
        BY <1>3, <3>2 DEF CInv, StacksInv, SourcesEnd
      <4>4. StackOf(d) \subseteq coroset
        BY <4>1, <4>2, <4>3, RunFacts, EndsTagged
      <4>5. StackOf(Callee) = {Callee} \cup StackOf(d)
        BY <1>3, <4>1, RunFacts, LinkSteps, WalkFirst DEF StackOf
      <4>6. source[d] = Leaf /\ frame[Leaf] = "uyield"
        <5>1. source[d] \in StackOf(d) /\ frame[source[d]] = "uyield"
          BY <4>3 DEF Ends
        <5>2. source[d] \in Thread /\ source[d] \in StackOf(Callee)
          BY <1>3, <4>5, <5>1
        <5>3. link[source[d]] = Nil
          BY <5>1, <5>2, RunFacts DEF Structure, LinkedWhileWaiting, Waiting, Calling
        <5> QED BY <1>3, <5>1, <5>2, <5>3
      <4>7. \A j \in i + 1..n : Stack[j] \in coroset
        BY <1>3, <4>4, <4>5
      <4> QED BY <1>3, <4>6, <4>7, RunFacts DEF Structure, CorosetIsCreated
    <3> QED BY <1>7, <1>10, <3>1, <3>2
  <2>2. \A j \in i..n : Nested!CanYield(j)
    <3>1. \A j \in i..n : j > 1 /\ ~ccall[Stack[j]] /\ Stack[j] \in Thread
      BY <1>3
    <3> QED BY <1>3, <3>1 DEF Nested!CanYield
  <2>3. wantBar = RawTag /\ valBar' = valBar
    BY <1>3, <1>6, <1>8, <1>10, <2>1
  <2>4. Nested!Suspends(i)
    BY <1>3, <1>4, <1>5, <1>6, <2>1, <2>2, <2>3 DEF Nested!Suspends
  <2> QED BY <1>3, <1>4, <2>4
<1> QED BY <1>9, <1>10

\* Continuing, and rewinding: it is seen when Lua code runs, or fails, again.
LEMMA ContBars ==
    ASSUME ChainsInv, mode = "cont"
    PROVE  /\ chainBar = Stack /\ wantBar = Nil
           /\ phaseBar = IF frame[Leaf] = "yieldk" /\ SaysFailed(InTransit) THEN "raise" ELSE "run"
           /\ valBar = IF phaseBar = "run" THEN InTransit ELSE <<>>
           /\ Leaf \in StackOf(cur) /\ Leaf \in Thread /\ link[Leaf] = Nil
           /\ link[cur] = Nil => Leaf = cur /\ InTransit = stk[cur]
           /\ link[cur] # Nil => Callee \in Thread /\ Callee # cur /\ Leaf # cur /\ Leaf \in StackOf(Callee)
<1>1. ~CalleeIs("yield") /\ ~CalleeIs("done") /\ ~CalleeIs("err")
  BY DEF CalleeIs
<1>2. chainBar = Stack /\ wantBar = Nil
  BY <1>1 DEF chainBar, wantBar
<1>3. phaseBar = IF frame[Leaf] = "yieldk" /\ SaysFailed(InTransit) THEN "raise" ELSE "run"
  BY <1>1 DEF phaseBar
<1>4. valBar = IF phaseBar = "run" THEN InTransit ELSE <<>>
  BY <1>3 DEF valBar
<1>5. /\ Leaf \in StackOf(cur) /\ Leaf \in Thread /\ link[Leaf] = Nil
      /\ link[cur] = Nil => Leaf = cur
      /\ link[cur] # Nil => Leaf \in StackOf(Callee)
  BY RunFacts, LeafIsEnd
<1>6. link[cur] = Nil => InTransit = stk[cur]
  BY <1>5 DEF InTransit
<1>7. ASSUME link[cur] # Nil
      PROVE  Callee \in Thread /\ Callee # cur /\ Leaf # cur
  <2>1. frame[cur] \in {"passk", "untk"}
    BY <1>7, RunFacts DEF Structure, CurMatchesMode, LinkedWhileWaiting, Waiting
  <2>2. Callee \in Thread /\ status[Callee] = "yield"
    BY <1>7, <2>1, RunFacts DEF Structure, CalleeMatchesFrame, Callee
  <2> QED BY <1>5, <1>7, <2>2, RunFacts
<1> QED BY <1>2, <1>3, <1>4, <1>5, <1>6, <1>7

\* A resumed coroutine begins, or its yield returns or fails: a stutter.
LEMMA ContStep ==
    ASSUME ChainsInv, ContPlain \/ ContYieldk
    PROVE  UNCHANGED Nested!vars
<1>1. /\ mode = "cont" /\ frame[cur] \in {"body", "uyield", "yieldk"} /\ LeavesFrame
      /\ status' = status /\ ccall' = ccall /\ tag' = tag /\ cur' = cur
      /\ mode' = IF frame[cur] = "yieldk" /\ SaysFailed(stk[cur]) THEN "raise" ELSE "run"
      /\ mode' = "run" => stk' = stk
  BY DEF ContPlain, ContYieldk, meta
<1>2. link[cur] = Nil
  BY <1>1, RunFacts DEF Structure, LinkedWhileWaiting, Waiting, Calling
<1>3. link' = link
  BY <1>1, <1>2, RunFacts DEF LeavesFrame
<1>4. mode' \in {"run", "raise"}
  BY <1>1
<1>5. /\ chainBar' = Stack' /\ phaseBar' = mode' /\ wantBar' = Nil
      /\ valBar' = IF mode' = "run" THEN stk'[cur] ELSE <<>>
  BY <1>1, <1>4, IdleBarsNext
<1>6. Leaf = cur /\ InTransit = stk[cur] /\ chainBar = Stack /\ wantBar = Nil
      /\ phaseBar = mode'
      /\ valBar = IF phaseBar = "run" THEN stk[cur] ELSE <<>>
  BY <1>1, <1>2, ContBars
<1>7. valBar' = valBar
  BY <1>1, <1>5, <1>6
<1>8. heldBar' = heldBar
  BY <1>1, <1>3, HeldStays
<1> QED BY <1>1, <1>3, <1>5, <1>6, <1>7, <1>8, SameStack DEF Nested!vars

\* A suspended coroutine that is resumed resumes the next one of its stack.
LEMMA RewindBars ==
    ASSUME ChainsInv, mode = "cont", NEW how \in Calling, Resumes(Callee, how), link[cur] # Nil,
           status[Callee] = "yield", tag' = tag, ccall' = ccall, InTransit' = InTransit
    PROVE  UNCHANGED Nested!vars
<1>1. /\ Callee \in Thread /\ Callee # cur /\ Leaf # cur /\ chainBar = Stack /\ wantBar = Nil
      /\ phaseBar = IF frame[Leaf] = "yieldk" /\ SaysFailed(InTransit) THEN "raise" ELSE "run"
      /\ valBar = IF phaseBar = "run" THEN InTransit ELSE <<>>
      /\ Leaf \in Thread
  BY ContBars
<1>2. /\ status' = [status EXCEPT ![Callee] = "active"] /\ frame' = [frame EXCEPT ![cur] = how]
      /\ mode' = "cont" /\ cur' = Callee
  BY DEF Resumes
<1>3. link' = link
  <2>1. link' = [link EXCEPT ![cur] = link[cur]]
    BY DEF Resumes, Callee
  <2> QED BY <2>1, RunFacts
<1>4. ~CalleeIs("yield")' /\ ~CalleeIs("done")' /\ ~CalleeIs("err")'
  BY <1>2 DEF CalleeIs
<1>5. chainBar' = chainBar /\ wantBar' = wantBar /\ Leaf' = Leaf
  BY <1>1, <1>3, <1>4, SameStack DEF chainBar, wantBar, Leaf
<1>6. frame'[Leaf] = frame[Leaf]
  BY <1>1, <1>2, RunFacts
<1>7. phaseBar' = phaseBar
  BY <1>1, <1>2, <1>4, <1>5, <1>6 DEF phaseBar, SaysFailed
<1>8. valBar' = valBar
  <2>1. phaseBar \in {"run", "raise"}
    BY <1>1
  <2> QED BY <1>1, <1>2, <1>7, <2>1 DEF valBar
<1>9. heldBar' = heldBar
  <2>1. \A t \in Thread : status'[t] = status[t] \/ \E p \in Thread : link[p] = t
    BY <1>1, <1>2, RunFacts DEF Callee
  <2> QED BY <1>3, <2>1, HeldStays
<1>10. {t \in Thread : status'[t] # "none"} = {t \in Thread : status[t] # "none"}
  BY <1>1, <1>2, RunFacts
<1> QED BY <1>5, <1>7, <1>8, <1>9, <1>10 DEF Nested!vars

\* The continuations of auxcallk rewind a suspended stack, one coroutine each: a stutter.
LEMMA RewindStep ==
    ASSUME CInv, ContPassk \/ ContUntaggedk
    PROVE  UNCHANGED Nested!vars
<1> ChainsInv
  BY CHasChains
<1>1. /\ mode = "cont" /\ frame[cur] \in {"passk", "untk"} /\ Resumes(Callee, "callk")
      /\ tag' = tag /\ ccall' = ccall /\ "callk" \in Calling
  BY DEF ContPassk, ContUntaggedk, Calling
<1>2. link[cur] # Nil
  BY <1>1, RunFacts DEF Structure, LinkedWhileWaiting, Waiting
<1>3. status[Callee] = "yield"
  BY <1>1, <1>2, RunFacts DEF Structure, CalleeMatchesFrame, Callee
<1>4. Callee \in Thread /\ Callee # cur /\ Leaf # cur /\ Leaf \in StackOf(Callee) /\ Leaf \in Thread
      /\ link[Leaf] = Nil
  BY <1>1, <1>2, ContBars
<1>5. link' = link /\ cur' = Callee
  <2>1. link' = [link EXCEPT ![cur] = link[cur]]
    BY <1>1 DEF Resumes, Callee
  <2> QED BY <1>1, <2>1, RunFacts DEF Resumes
<1>6. Leaf' = Leaf
  BY <1>5, SameStack DEF Leaf
<1>7. InTransit' = IF stk'[Callee] # <<>> THEN stk'[Callee] ELSE stk'[Leaf]
  BY <1>5, <1>6 DEF InTransit
<1>8. CASE ContPassk /\ stk[cur] = <<>>
  <2>1. stk' = stk /\ InTransit = stk[Leaf]
    BY <1>8 DEF ContPassk, InTransit
  <2>2. ASSUME stk[Callee] # <<>>
        PROVE  Callee = Leaf
    <3>1. Callee \in StackOf(cur) /\ link[Callee] = Nil
      BY <1>1, <1>3, <1>4, <2>2 DEF CInv, StacksInv, ValuesHeld
    <3> QED BY <3>1, RunFacts, LeafIsEnd
  <2> QED BY <1>1, <1>2, <1>3, <1>7, <2>1, <2>2, RewindBars
<1>9. CASE ContPassk /\ stk[cur] # <<>>
  <2>1. stk' = [stk EXCEPT ![Callee] = stk[cur], ![cur] = <<>>] /\ InTransit = stk[cur]
    BY <1>9 DEF ContPassk, InTransit
  <2>2. stk'[Callee] = stk[cur]
    BY <1>4, <2>1, RunFacts
  <2> QED BY <1>1, <1>2, <1>3, <1>7, <1>9, <2>1, <2>2, RewindBars
<1>10. CASE ContUntaggedk
  <2>1. /\ frame[cur] = "untk"
        /\ stk' = [stk EXCEPT ![cur] = <<>>, ![source[Callee]] = @ \o stk[cur]]
    BY <1>10 DEF ContUntaggedk
  <2>2. source[Callee] = Leaf
    <3>1. Ends(Callee, source[Callee], "uyield")
      BY <2>1, RunFacts DEF CInv, StacksInv, SourcesEnd, Callee
    <3>2. source[Callee] \in StackOf(Callee) /\ frame[source[Callee]] = "uyield"
      BY <3>1 DEF Ends
    <3>3. source[Callee] \in Thread
      BY <1>4, <3>2, RunFacts, SuspendedBelow
    <3>4. link[source[Callee]] = Nil
      BY <3>2, <3>3, RunFacts DEF Structure, LinkedWhileWaiting, Waiting, Calling
    <3>5. StackOf(Callee) \subseteq StackOf(cur)
      BY <1>2, RunFacts, LeafIsEnd
    <3> QED BY <3>2, <3>4, <3>5, RunFacts, LeafIsEnd
  <2>3. stk[Leaf] = <<>> /\ stk[Callee] = <<>>
    <3>1. status[Leaf] = "yield"
      BY <1>3, <1>4, RunFacts, SuspendedBelow
    <3> QED BY <1>1, <1>3, <1>4, <2>1, <3>1 DEF CInv, NestedInv, UntaggedWakes
  <2>4. stk[cur] \in Seq(Val) /\ <<>> \o stk[cur] = stk[cur]
    BY RunFacts
  <2>5. stk'[Leaf] = stk[cur] /\ (Callee # Leaf => stk'[Callee] = <<>>)
    <3>1. stk'[Leaf] = stk[Leaf] \o stk[cur]
      BY <1>4, <2>1, <2>2, RunFacts
    <3>2. Callee # Leaf => stk'[Callee] = stk[Callee]
      BY <1>4, <2>1, <2>2, RunFacts
    <3> QED BY <2>3, <2>4, <3>1, <3>2
  <2>6. InTransit = stk[cur]
    BY <2>3 DEF InTransit
  <2>7. InTransit' = InTransit
    BY <1>7, <2>5, <2>6
  <2> QED BY <1>1, <1>2, <1>3, <2>7, RewindBars
<1> QED BY <1>8, <1>9, <1>10

-----------------------------------------------------------------------------
(* The refinement.                                                         *)

\* The state the library leaves when it is loaded is one of NestedCoro.
LEMMA NestedStart == Init => Nested!Init
<1> SUFFICES ASSUME Init PROVE Nested!Init
  OBVIOUS
<1> USE ThreadAssumption DEF Init
<1>1. Path(Main, link) = <<Main>>
  <2>1. Steps(link) /\ Main \in Thread
    BY DEF Steps
  <2>2. <<Main>> \in Seq(Thread) /\ <<Main>> # <<>> /\ IsPath(<<Main>>, Main, link)
    BY DEF IsPath
  <2> QED BY <2>1, <2>2, PathIs
<1>2. ~CalleeIs("yield") /\ ~CalleeIs("done") /\ ~CalleeIs("err")
  BY DEF CalleeIs
<1>3. chainBar = <<Main>> /\ phaseBar = "run" /\ wantBar = Nil
  BY <1>1, <1>2 DEF chainBar, Stack, StackFrom, phaseBar, wantBar
<1>4. valBar = <<>>
  BY <1>3 DEF valBar
<1>5. heldBar = [t \in Thread |-> <<>>]
  BY DEF heldBar
<1>6. {t \in Thread : status[t] # "none"} = {Main} /\ InC = {}
  BY DEF InC
<1> QED BY <1>3, <1>4, <1>5, <1>6 DEF Nested!Init, InC

\* Every step of the C implementation is one of NestedCoro, or none.
LEMMA NestedStep ==
    ASSUME MayOverflow = FALSE
    PROVE  TypeOK /\ Structure /\ StacksInv /\ NestedInv /\ [Next]_vars => [Nested!Next]_(Nested!vars)
<1> SUFFICES ASSUME CInv, [Next]_vars PROVE Nested!Next \/ UNCHANGED Nested!vars
  BY DEF CInv
<1> ChainsInv
  BY CHasChains
<1>1. TypeOK'
  BY TypeStep DEF CInv
<1>2. ASSUME NEW t \in Thread, NEW g \in Tag, Cocreate(t, g) PROVE Nested!Next
  BY <1>1, <1>2, CreateStep DEF Nested!Next
<1>3. ASSUME NEW t \in Thread, CreateUntagged(t) PROVE Nested!Next
  BY <1>1, <1>3, CreateStep DEF Nested!Next
<1>4. ASSUME NEW t \in Thread, NEW v \in Payload, Cocall(t, v) PROVE Nested!Next
  <2>1. CASE status[t] \in {"new", "yield"}
    BY <1>1, <1>4, <2>1, CocallAliveRefines DEF Nested!Next
  <2>2. CASE status[t] \notin {"new", "yield"}
    BY <1>1, <1>4, <2>2, CocallDeadRefines DEF Nested!Next
  <2> QED BY <2>1, <2>2
<1>5. CASE (\E t \in Thread : CocallRefused(t)) \/ YieldRefused \/ Throw
  BY <1>5, RaiseStep DEF Nested!Next
<1>6. ASSUME NEW t \in Thread, NEW v \in Payload, RawResume(t, v) PROVE Nested!Next
  BY <1>1, <1>6, RawResumeRefines DEF Nested!Next
<1>7. ASSUME NEW g \in Tag, NEW v \in Payload, TcYield(g, v) PROVE Nested!Next
  BY <1>7, YieldRefines DEF Nested!Next
<1>8. ASSUME NEW v \in Payload, RawYield(v) PROVE Nested!Next
  BY <1>8, YieldRefines DEF Nested!Next
<1>9. ASSUME NEW v \in Payload, Return(v) PROVE Nested!Next
  BY <1>9, ReturnRefines DEF Nested!Next
<1>10. CASE Catch
  BY <1>10, CatchStep DEF Nested!Next
<1>11. CASE Die
  BY <1>11, DieRefines DEF Nested!Next
<1>12. CASE MainEnds
  BY <1>12, MainEndsStep DEF Nested!Next
<1>13. CASE EnterC \/ LeaveC
  BY <1>13, CCallStep DEF Nested!Next
<1>14. CASE BackOK \/ BackErr
  BY <1>1, <1>14, OverStep
<1>15. CASE BackForMe
  BY <1>1, <1>15, BackForMeRefines DEF Nested!Next
<1>16. CASE BackPass
  BY <1>16, BackPassStep
<1>17. CASE BackStopsHere
  BY <1>17, BackStopsHereStep
<1>18. CASE BackFails
  BY <1>1, <1>18, BackFailsRefines DEF Nested!Next
<1>19. CASE BackLost
  BY <1>19, BackLostRefines DEF Nested!Next
<1>20. CASE RawBack
  <2>1. CASE status[Callee] = "yield"
    BY <1>1, <1>20, <2>1, RawBackYieldRefines DEF Nested!Next
  <2>2. CASE status[Callee] # "yield"
    BY <1>1, <1>20, <2>2, OverStep
  <2> QED BY <2>1, <2>2
<1>21. CASE ContPlain \/ ContYieldk
  BY <1>21, ContStep
<1>22. CASE ContPassk \/ ContUntaggedk
  BY <1>22, RewindStep
<1>23. CASE UNCHANGED vars
  <2>1. UNCHANGED <<chainBar, heldBar, phaseBar, wantBar, valBar>>
    BY <1>23 DEF vars, chainBar, heldBar, phaseBar, wantBar, valBar, Stack, StackFrom, Leaf,
       CalleeIs, Callee, InTransit, SaysFailed
  <2>2. {t \in Thread : status[t] # "none"}' = {t \in Thread : status[t] # "none"}
        /\ {t \in Thread : ccall[t]}' = {t \in Thread : ccall[t]} /\ tag' = tag
    BY <1>23 DEF vars
  <2> QED BY <2>1, <2>2 DEF Nested!vars
<1>24. CASE Program
  <2>1. CASE \/ \E t \in Thread, g \in Tag : Cocreate(t, g)
             \/ \E t \in Thread : CreateUntagged(t)
             \/ \E t \in Thread, v \in Payload : Cocall(t, v) \/ RawResume(t, v)
    BY <1>2, <1>3, <1>4, <1>6, <2>1
  <2>2. CASE \/ \E g \in Tag, v \in Payload : TcYield(g, v)
             \/ \E v \in Payload : RawYield(v) \/ Return(v)
    BY <1>7, <1>8, <1>9, <2>2
  <2>3. CASE \/ (\E t \in Thread : CocallRefused(t)) \/ YieldRefused \/ Throw
             \/ Catch \/ Die \/ MainEnds \/ EnterC \/ LeaveC
    BY <1>5, <1>10, <1>11, <1>12, <1>13, <2>3
  <2> QED BY <1>24, <2>1, <2>2, <2>3 DEF Program
<1>25. CASE Library
  BY <1>25, <1>14, <1>15, <1>16, <1>17, <1>18, <1>19, <1>20, <1>21, <1>22 DEF Library
<1> QED BY <1>23, <1>24, <1>25 DEF Next, Terminated

\* What the refinement needs beyond StacksInv holds always: stacks of coroutines end, so
\* that they are sequences (HasPaths), C calls are pending only in what runs, tags are in
\* the metadata of tagged coroutines, and a woken untagged coroutine has all the values.
THEOREM NestedInvariant == Spec => []NestedInv
<1>1. Init => TypeOK /\ Structure /\ StacksInv /\ NestedInv
  BY InitOK, StacksInit, NestedInvInit
<1>2. TypeOK /\ Structure /\ StacksInv /\ NestedInv /\ [Next]_vars
      => TypeOK' /\ Structure' /\ StacksInv' /\ NestedInv'
  BY TypeStep, StructureStep, StacksStep, NestedInvStep
<1> QED BY <1>1, <1>2, PTL DEF Spec

\* taggedcoro.c implements the coroutines that src/README.md describes, as NestedCoro says
\* them, with its departures: who handles a yield, which stack a call puts back, which
\* yield fails and where, and the values everybody sees.  If moveyielded can find no
\* room (line 59) that is not so: the error it raises is in no README.
THEOREM CImplementsNestedCoro == ASSUME MayOverflow = FALSE PROVE Spec => ImplementsNestedCoro
<1>1. Spec => [](TypeOK /\ Structure /\ StacksInv)
  BY StacksInvariant
<1>2. Spec => []NestedInv
  BY NestedInvariant
<1>3. TypeOK /\ Structure /\ StacksInv /\ NestedInv /\ [Next]_vars => [Nested!Next]_(Nested!vars)
  BY NestedStep
<1> QED BY <1>1, <1>2, <1>3, NestedStart, PTL DEF Spec, ImplementsNestedCoro, Nested!Spec
=============================================================================
