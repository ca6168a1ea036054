--------------------------- MODULE LuaStackProofs ---------------------------
(***************************************************************************)
(* What the functions of LuaStack return, for any stack and index.         *)
(***************************************************************************)
EXTENDS LuaStack, SequenceTheorems, TLAPS

\* lua_pop keeps what is below.
LEMMA PoppedIs ==
    ASSUME NEW S, NEW s \in Seq(S), NEW n \in 0..Len(s)
    PROVE  /\ Popped(s, n) \in Seq(S) /\ Len(Popped(s, n)) = Len(s) - n
           /\ \A j \in 1..(Len(s) - n) : Popped(s, n)[j] = s[j]
<1>1. \A j \in 1..(Len(s) - n) : s[j] \in S
  OBVIOUS
<1> QED BY <1>1, SubSeqProperties DEF Popped

LEMMA PartOf ==
    ASSUME NEW S, NEW s \in Seq(S), NEW a \in 1..(Len(s) + 1), NEW b \in (a - 1)..Len(s)
    PROVE  /\ SubSeq(s, a, b) \in Seq(S) /\ Len(SubSeq(s, a, b)) = b - a + 1
           /\ \A j \in 1..(b - a + 1) : SubSeq(s, a, b)[j] = s[a + j - 1]
<1>1. \A j \in a..b : s[j] \in S
  BY ElementOfSeq
<1> QED BY <1>1, SubSeqProperties

LEMMA JoinOf ==
    ASSUME NEW S, NEW s \in Seq(S), NEW t \in Seq(S)
    PROVE  /\ s \o t \in Seq(S) /\ Len(s \o t) = Len(s) + Len(t)
           /\ \A j \in 1..Len(s) : (s \o t)[j] = s[j]
           /\ \A j \in (Len(s) + 1)..(Len(s) + Len(t)) : (s \o t)[j] = t[j - Len(s)]
BY ConcatProperties

\* lua_remove moves what is above down.
LEMMA RemovedIs ==
    ASSUME NEW S, NEW s \in Seq(S), NEW i \in Int, Slot(s, i) \in 1..Len(s)
    PROVE  /\ Removed(s, i) \in Seq(S) /\ Len(Removed(s, i)) = Len(s) - 1
           /\ \A j \in 1..(Len(s) - 1) :
                 Removed(s, i)[j] = IF j < Slot(s, i) THEN s[j] ELSE s[j + 1]
<1> DEFINE n == Len(s)
           k == Slot(s, i)
           below == SubSeq(s, 1, k - 1)
           above == SubSeq(s, k + 1, n)
           r == below \o above
<1>1. Removed(s, i) = r
  BY DEF Removed
<1>2. n \in Nat /\ k \in 1..n
  OBVIOUS
<1>3. /\ below \in Seq(S) /\ Len(below) = k - 1
      /\ \A j \in 1..(k - 1) : below[j] = s[j]
  BY <1>2, PartOf
<1>4. /\ above \in Seq(S) /\ Len(above) = n - k
      /\ \A j \in 1..(n - k) : above[j] = s[k + j]
  BY <1>2, PartOf
<1> HIDE DEF below, above, n, k
<1>5. /\ r \in Seq(S) /\ Len(r) = n - 1
      /\ \A j \in 1..(k - 1) : r[j] = below[j]
      /\ \A j \in k..(n - 1) : r[j] = above[j - (k - 1)]
  <2>1. /\ r \in Seq(S) /\ Len(r) = Len(below) + Len(above)
        /\ \A j \in 1..Len(below) : r[j] = below[j]
        /\ \A j \in (Len(below) + 1)..(Len(below) + Len(above)) : r[j] = above[j - Len(below)]
    BY <1>3, <1>4, JoinOf
  <2>2. k - 1 + 1 = k /\ k - 1 + (n - k) = n - 1
    BY <1>2
  <2> HIDE DEF r
  <2> QED BY <1>3, <1>4, <2>1, <2>2
<1> HIDE DEF r
<1>6. \A j \in 1..(k - 1) : r[j] = s[j]
  BY <1>3, <1>5
<1>7. ASSUME NEW j \in k..(n - 1) PROVE r[j] = s[j + 1]
  <2>1. j - (k - 1) \in 1..(n - k) /\ k + (j - (k - 1)) = j + 1
    BY <1>2
  <2> QED BY <1>4, <1>5, <2>1
<1>8. \A j \in 1..(n - 1) : r[j] = IF j < k THEN s[j] ELSE s[j + 1]
  BY <1>2, <1>6, <1>7
<1> QED BY <1>1, <1>5, <1>8 DEF n, k

\* lua_insert moves what was there up.
LEMMA InsertedIs ==
    ASSUME NEW S, NEW s \in Seq(S), NEW i \in Int, Slot(s, i) \in 1..Len(s)
    PROVE  /\ Inserted(s, i) \in Seq(S) /\ Len(Inserted(s, i)) = Len(s)
           /\ \A j \in 1..Len(s) :
                 Inserted(s, i)[j] = IF j < Slot(s, i) THEN s[j]
                                     ELSE IF j = Slot(s, i) THEN s[Len(s)] ELSE s[j - 1]
<1> DEFINE n == Len(s)
           k == Slot(s, i)
           below == SubSeq(s, 1, k - 1)
           above == SubSeq(s, k, n - 1)
           new == <<s[n]>>
           lower == below \o new
           r == lower \o above
<1>1. n \in Nat /\ k \in 1..n
  OBVIOUS
<1>2. Inserted(s, i) = r
  <2>1. At(s, -1) = s[n]
    BY DEF At, Slot
  <2> QED BY <2>1 DEF Inserted
<1>3. /\ below \in Seq(S) /\ Len(below) = k - 1
      /\ \A j \in 1..(k - 1) : below[j] = s[j]
  BY <1>1, PartOf
<1>4. /\ above \in Seq(S) /\ Len(above) = n - k
      /\ \A j \in 1..(n - k) : above[j] = s[k + j - 1]
  BY <1>1, PartOf
<1>5. new \in Seq(S) /\ Len(new) = 1 /\ new[1] = s[n]
  <2>1. s[n] \in S
    BY <1>1, ElementOfSeq
  <2> QED BY <2>1
<1> HIDE DEF below, above, new, n, k
<1>6. /\ lower \in Seq(S) /\ Len(lower) = k
      /\ \A j \in 1..(k - 1) : lower[j] = below[j]
      /\ lower[k] = new[1]
  <2>1. /\ lower \in Seq(S) /\ Len(lower) = Len(below) + Len(new)
        /\ \A j \in 1..Len(below) : lower[j] = below[j]
        /\ \A j \in (Len(below) + 1)..(Len(below) + Len(new)) : lower[j] = new[j - Len(below)]
    BY <1>3, <1>5, JoinOf
  <2>2. k \in k..k /\ k - (k - 1) = 1 /\ k - 1 + 1 = k
    BY <1>1
  <2> HIDE DEF lower
  <2> QED BY <1>3, <1>5, <2>1, <2>2
<1> HIDE DEF lower
<1>7. /\ r \in Seq(S) /\ Len(r) = n
      /\ \A j \in 1..k : r[j] = lower[j]
      /\ \A j \in (k + 1)..n : r[j] = above[j - k]
  BY <1>1, <1>4, <1>6, JoinOf
<1> HIDE DEF r
<1>8. \A j \in 1..(k - 1) : r[j] = s[j]
  BY <1>1, <1>3, <1>6, <1>7
<1>9. r[k] = s[n]
  BY <1>1, <1>5, <1>6, <1>7
<1>10. ASSUME NEW j \in (k + 1)..n PROVE r[j] = s[j - 1]
  <2>1. j - k \in 1..(n - k) /\ k + (j - k) - 1 = j - 1
    BY <1>1
  <2> QED BY <1>4, <1>7, <2>1
<1>11. \A j \in 1..n : r[j] = IF j < k THEN s[j] ELSE IF j = k THEN s[n] ELSE s[j - 1]
  BY <1>1, <1>8, <1>9, <1>10
<1> QED BY <1>2, <1>7, <1>11 DEF n, k

\* lua_replace pops the top.
LEMMA ReplacedIs ==
    ASSUME NEW S, NEW s \in Seq(S), NEW i \in Int, Slot(s, i) \in 1..(Len(s) - 1)
    PROVE  /\ Replaced(s, i) \in Seq(S) /\ Len(Replaced(s, i)) = Len(s) - 1
           /\ \A j \in 1..(Len(s) - 1) :
                 Replaced(s, i)[j] = IF j = Slot(s, i) THEN s[Len(s)] ELSE s[j]
<1> DEFINE n == Len(s)
           k == Slot(s, i)
           t == [s EXCEPT ![k] = At(s, -1)]
<1>1. /\ t \in Seq(S) /\ Len(t) = n
      /\ \A j \in 1..n : t[j] = IF j = k THEN s[n] ELSE s[j]
  <2>1. At(s, -1) = s[n] /\ s[n] \in S /\ n \in Nat
    BY DEF At, Slot
  <2> QED BY <2>1
<1>2. Replaced(s, i) = Popped(t, 1)
  BY DEF Replaced
<1> HIDE DEF t
<1>3. 1 \in 0..Len(t)
  BY <1>1
<1>4. /\ Popped(t, 1) \in Seq(S) /\ Len(Popped(t, 1)) = Len(t) - 1
      /\ \A j \in 1..(Len(t) - 1) : Popped(t, 1)[j] = t[j]
  BY <1>1, <1>3, PoppedIs
<1> QED BY <1>1, <1>2, <1>4

\* A short stack, by its slots.
LEMMA ShortStacks ==
    ASSUME NEW S, NEW s \in Seq(S)
    PROVE  /\ Len(s) = 1 => s = <<s[1]>>
           /\ Len(s) = 2 => s = <<s[1], s[2]>>
           /\ Len(s) = 3 => s = <<s[1], s[2], s[3]>>
<1>0. \A j \in 1..Len(s) : s[j] \in S
  BY ElementOfSeq
<1>1. ASSUME Len(s) = 1 PROVE s = <<s[1]>>
  <2> DEFINE t == <<s[1]>>
  <2>1. t \in Seq(S) /\ Len(t) = 1 /\ t[1] = s[1]
    BY <1>0, <1>1
  <2> HIDE DEF t
  <2>2. s = t
    BY <1>1, <2>1, SeqEqual
  <2> QED BY <1>1, <2>2 DEF t
<1>2. ASSUME Len(s) = 2 PROVE s = <<s[1], s[2]>>
  <2> DEFINE t == <<s[1], s[2]>>
  <2>0. s[1] \in S /\ s[2] \in S
    BY <1>0, <1>2
  <2>1. t \in Seq(S) /\ Len(t) = 2 /\ t[1] = s[1] /\ t[2] = s[2]
    BY <2>0
  <2> HIDE DEF t
  <2>2. s = t
    BY <1>2, <2>1, SeqEqual
  <2> QED BY <1>2, <2>2 DEF t
<1>3. ASSUME Len(s) = 3 PROVE s = <<s[1], s[2], s[3]>>
  <2> DEFINE t == <<s[1], s[2], s[3]>>
  <2>1. t \in Seq(S) /\ Len(t) = 3 /\ t[1] = s[1] /\ t[2] = s[2] /\ t[3] = s[3]
    BY <1>0, <1>3
  <2> HIDE DEF t
  <2>2. s = t
    BY <1>3, <2>1, SeqEqual
  <2> QED BY <1>3, <2>2 DEF t
<1> QED BY <1>1, <1>2, <1>3
=============================================================================
