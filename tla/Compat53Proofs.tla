--------------------------- MODULE Compat53Proofs ---------------------------
(***************************************************************************)
(* Proofs about the functions of compat-5.3.c, for any keys, values and     *)
(* tables, any number of slots and calls (Compat53), and about its buffers *)
(* for every width of size_t, every initial size and any sizes asked for   *)
(* (Compat53Buffer).                                                       *)
(*                                                                         *)
(* A function of compat-5.3.c is first shown to leave on one machine what  *)
(* the manual of Lua 5.3 says (the lemmas ...Right), on stacks of any      *)
(* values.  Then each action takes two machines that match to two that     *)
(* match (the lemmas ...Keeps).                                            *)
(***************************************************************************)
EXTENDS Compat53, Compat53Buffer, LuaStackProofs, WellFoundedInduction

-----------------------------------------------------------------------------
(* Stacks, of whatever values.                                             *)

Stack(s) == s \in Seq({s[j] : j \in DOMAIN s})

Two(s, u, v) == Append(Append(s, u), v)
Three(s, u, v, w) == Append(Two(s, u, v), w)
Four(s, u, v, w, x) == Append(Three(s, u, v, w), x)

\* Every sequence is a stack.
LEMMA StackOfAny ==
    ASSUME NEW S, NEW s \in Seq(S)
    PROVE  Stack(s)
<1>1. DOMAIN s = 1..Len(s) /\ Len(s) \in Nat /\ s = [j \in 1..Len(s) |-> s[j]]
  OBVIOUS
<1> DEFINE T == {s[j] : j \in 1..Len(s)}
<1>2. \A j \in 1..Len(s) : s[j] \in T
  OBVIOUS
<1> HIDE DEF T
<1>3. [j \in 1..Len(s) |-> s[j]] \in Seq(T)
  BY <1>1, <1>2, IsASeq
<1> QED BY <1>1, <1>3 DEF Stack, T

\* A stack is a sequence, given by its height and its slots.
LEMMA StackIs ==
    ASSUME NEW s, Stack(s)
    PROVE  /\ Len(s) \in Nat /\ DOMAIN s = 1..Len(s)
           /\ s = [j \in 1..Len(s) |-> s[j]]
BY DEF Stack

\* Two stacks are the same when their slots are.
LEMMA SameStack ==
    ASSUME NEW s, Stack(s), NEW t, Stack(t), Len(s) = Len(t),
           \A j \in 1..Len(s) : s[j] = t[j]
    PROVE  s = t
BY StackIs

\* A function on 1..n is a stack of n slots.
LEMMA StackMade ==
    ASSUME NEW n \in Nat, NEW s, s = [j \in 1..n |-> s[j]]
    PROVE  Stack(s) /\ Len(s) = n
<1> DEFINE T == {s[j] : j \in 1..n}
<1>1. [j \in 1..n |-> s[j]] \in Seq(T)
  BY IsASeq
<1> HIDE DEF T
<1>2. s \in Seq(T) /\ DOMAIN s = 1..n
  BY <1>1
<1> QED BY <1>2, StackOfAny

\* A value is pushed on top, the slots below stay.
LEMMA PushedIs ==
    ASSUME NEW s, Stack(s), NEW v
    PROVE  /\ Stack(Append(s, v)) /\ Len(Append(s, v)) = Len(s) + 1
           /\ \A j \in 1..Len(s) : Append(s, v)[j] = s[j]
           /\ Append(s, v)[Len(s) + 1] = v
<1> DEFINE S == {s[j] : j \in DOMAIN s} \cup {v}
<1>1. s \in Seq(S) /\ v \in S
  <2>1. \A j \in 1..Len(s) : s[j] \in S
    BY StackIs
  <2>2. [j \in 1..Len(s) |-> s[j]] \in Seq(S)
    BY <2>1, StackIs, IsASeq
  <2> QED BY <2>2, StackIs
<1> HIDE DEF S
<1>2. /\ Append(s, v) \in Seq(S) /\ Len(Append(s, v)) = Len(s) + 1
      /\ \A j \in 1..Len(s) : Append(s, v)[j] = s[j]
      /\ Append(s, v)[Len(s) + 1] = v
  BY <1>1, AppendProperties
<1> QED BY <1>2, StackOfAny

\* Popping n values leaves the slots below them.
LEMMA PoppedTop ==
    ASSUME NEW s, Stack(s), NEW n \in 0..Len(s)
    PROVE  /\ Stack(Popped(s, n)) /\ Len(Popped(s, n)) = Len(s) - n
           /\ \A j \in 1..(Len(s) - n) : Popped(s, n)[j] = s[j]
<1>1. PICK S : s \in Seq(S)
  BY DEF Stack
<1> QED BY <1>1, PoppedIs, StackOfAny

\* lua_insert moves the top to a slot and those above up by one.
LEMMA InsertedBelow ==
    ASSUME NEW s, Stack(s), NEW i \in Int, Slot(s, i) \in 1..Len(s)
    PROVE  /\ Stack(Inserted(s, i)) /\ Len(Inserted(s, i)) = Len(s)
           /\ \A j \in 1..Len(s) :
                 Inserted(s, i)[j] = IF j < Slot(s, i) THEN s[j]
                                     ELSE IF j = Slot(s, i) THEN s[Len(s)] ELSE s[j - 1]
<1>1. PICK S : s \in Seq(S)
  BY DEF Stack
<1> QED BY <1>1, InsertedIs, StackOfAny

\* lua_replace puts the top in a slot and leaves the rest.
LEMMA ReplacedBelow ==
    ASSUME NEW s, Stack(s), NEW i \in Int, Slot(s, i) \in 1..(Len(s) - 1)
    PROVE  /\ Stack(Replaced(s, i)) /\ Len(Replaced(s, i)) = Len(s) - 1
           /\ \A j \in 1..(Len(s) - 1) :
                 Replaced(s, i)[j] = IF j = Slot(s, i) THEN s[Len(s)] ELSE s[j]
<1>1. PICK S : s \in Seq(S)
  BY DEF Stack
<1> QED BY <1>1, ReplacedIs, StackOfAny

\* Two, three or four values on top of a stack.
LEMMA TwoIs ==
    ASSUME NEW s, Stack(s), NEW u, NEW v
    PROVE  /\ Stack(Two(s, u, v)) /\ Len(Two(s, u, v)) = Len(s) + 2
           /\ \A j \in 1..Len(s) : Two(s, u, v)[j] = s[j]
           /\ Two(s, u, v)[Len(s) + 1] = u /\ Two(s, u, v)[Len(s) + 2] = v
<1> DEFINE t == Append(s, u)
<1>1. /\ Stack(t) /\ Len(t) = Len(s) + 1 /\ Len(s) \in Nat
      /\ \A j \in 1..Len(s) : t[j] = s[j]
      /\ t[Len(s) + 1] = u
  BY PushedIs, StackIs
<1> HIDE DEF t
<1>2. /\ Stack(Append(t, v)) /\ Len(Append(t, v)) = Len(t) + 1
      /\ \A j \in 1..Len(t) : Append(t, v)[j] = t[j]
      /\ Append(t, v)[Len(t) + 1] = v
  BY <1>1, PushedIs
<1>3. Two(s, u, v) = Append(t, v)
  BY DEF Two, t
<1> QED BY <1>1, <1>2, <1>3

\* The slots after three pushes.
LEMMA ThreeIs ==
    ASSUME NEW s, Stack(s), NEW u, NEW v, NEW w
    PROVE  /\ Stack(Three(s, u, v, w)) /\ Len(Three(s, u, v, w)) = Len(s) + 3
           /\ \A j \in 1..Len(s) : Three(s, u, v, w)[j] = s[j]
           /\ Three(s, u, v, w)[Len(s) + 1] = u /\ Three(s, u, v, w)[Len(s) + 2] = v
           /\ Three(s, u, v, w)[Len(s) + 3] = w
<1> DEFINE t == Two(s, u, v)
<1>1. /\ Stack(t) /\ Len(t) = Len(s) + 2 /\ Len(s) \in Nat
      /\ \A j \in 1..Len(s) : t[j] = s[j]
      /\ t[Len(s) + 1] = u /\ t[Len(s) + 2] = v
  BY TwoIs, StackIs
<1> HIDE DEF t
<1>2. /\ Stack(Append(t, w)) /\ Len(Append(t, w)) = Len(t) + 1
      /\ \A j \in 1..Len(t) : Append(t, w)[j] = t[j]
      /\ Append(t, w)[Len(t) + 1] = w
  BY <1>1, PushedIs
<1>3. Three(s, u, v, w) = Append(t, w)
  BY DEF Three, t
<1> QED BY <1>1, <1>2, <1>3

\* The slots after four pushes.
LEMMA FourIs ==
    ASSUME NEW s, Stack(s), NEW u, NEW v, NEW w, NEW x
    PROVE  /\ Stack(Four(s, u, v, w, x)) /\ Len(Four(s, u, v, w, x)) = Len(s) + 4
           /\ \A j \in 1..Len(s) : Four(s, u, v, w, x)[j] = s[j]
           /\ Four(s, u, v, w, x)[Len(s) + 1] = u /\ Four(s, u, v, w, x)[Len(s) + 2] = v
           /\ Four(s, u, v, w, x)[Len(s) + 3] = w /\ Four(s, u, v, w, x)[Len(s) + 4] = x
<1> DEFINE t == Three(s, u, v, w)
<1>1. /\ Stack(t) /\ Len(t) = Len(s) + 3 /\ Len(s) \in Nat
      /\ \A j \in 1..Len(s) : t[j] = s[j]
      /\ t[Len(s) + 1] = u /\ t[Len(s) + 2] = v /\ t[Len(s) + 3] = w
  BY ThreeIs, StackIs
<1> HIDE DEF t
<1>2. /\ Stack(Append(t, x)) /\ Len(Append(t, x)) = Len(t) + 1
      /\ \A j \in 1..Len(t) : Append(t, x)[j] = t[j]
      /\ Append(t, x)[Len(t) + 1] = x
  BY <1>1, PushedIs
<1>3. Four(s, u, v, w, x) = Append(t, x)
  BY DEF Four, t
<1> QED BY <1>1, <1>2, <1>3

\* What is popped again was not there.
LEMMA PoppedSame ==
    ASSUME NEW s, Stack(s), NEW t, Stack(t), NEW k \in Nat, Len(t) = Len(s) + k,
           \A j \in 1..Len(s) : t[j] = s[j]
    PROVE  Popped(t, k) = s
<1> DEFINE r == Popped(t, k)
<1>1. Len(s) \in Nat /\ k \in 0..Len(t) /\ Len(t) - k = Len(s)
  BY StackIs
<1>2. Stack(r) /\ Len(r) = Len(t) - k /\ \A j \in 1..(Len(t) - k) : r[j] = t[j]
  BY <1>1, PoppedTop
<1> HIDE DEF r
<1>3. \A j \in 1..Len(r) : r[j] = s[j]
  BY <1>1, <1>2
<1>4. r = s
  BY <1>1, <1>2, <1>3, SameStack
<1> QED BY <1>4 DEF r

\* Popping no value changes nothing.
LEMMA PoppedNothing == \A s : Stack(s) => Popped(s, 0) = s
BY StackIs, PoppedSame

\* What is on top, and what is left without it.
LEMMA OneOnTop ==
    ASSUME NEW s, Stack(s), NEW u
    PROVE  At(Append(s, u), -1) = u /\ Popped(Append(s, u), 1) = s
<1> DEFINE a == Append(s, u)
<1>1. /\ Len(s) \in Nat /\ Stack(a) /\ Len(a) = Len(s) + 1 /\ a[Len(s) + 1] = u
      /\ \A j \in 1..Len(s) : a[j] = s[j]
  BY StackIs, PushedIs
<1> HIDE DEF a
<1>2. At(a, -1) = u
  BY <1>1 DEF At, Slot
<1>3. Popped(a, 1) = s
  BY <1>1, PoppedSame
<1> QED BY <1>2, <1>3 DEF a

\* The two values pushed last, and what is left without them.
LEMMA TwoOnTop ==
    ASSUME NEW s, Stack(s), NEW u, NEW v
    PROVE  /\ At(Two(s, u, v), -1) = v /\ At(Two(s, u, v), -2) = u
           /\ Popped(Two(s, u, v), 1) = Append(s, u) /\ Popped(Two(s, u, v), 2) = s
<1> DEFINE a == Append(s, u)
           b == Two(s, u, v)
<1>1. /\ Len(s) \in Nat /\ Stack(b) /\ Len(b) = Len(s) + 2
      /\ b[Len(s) + 1] = u /\ b[Len(s) + 2] = v
      /\ \A j \in 1..Len(s) : b[j] = s[j]
  BY StackIs, TwoIs
<1>2. Stack(a) /\ b = Append(a, v)
  BY PushedIs DEF Two
<1> HIDE DEF a, b
<1>3. At(b, -1) = v /\ At(b, -2) = u
  BY <1>1 DEF At, Slot
<1>4. Popped(b, 1) = a
  BY <1>2, OneOnTop
<1>5. Popped(b, 2) = s
  BY <1>1, PoppedSame
<1> QED BY <1>3, <1>4, <1>5 DEF a, b

\* The three values pushed last, and what is left without them.
LEMMA ThreeOnTop ==
    ASSUME NEW s, Stack(s), NEW u, NEW v, NEW w
    PROVE  /\ At(Three(s, u, v, w), -1) = w /\ At(Three(s, u, v, w), -2) = v
           /\ At(Three(s, u, v, w), -3) = u
           /\ Popped(Three(s, u, v, w), 1) = Two(s, u, v)
           /\ Popped(Three(s, u, v, w), 3) = s
<1> DEFINE b == Two(s, u, v)
           c == Three(s, u, v, w)
<1>1. /\ Len(s) \in Nat /\ Stack(c) /\ Len(c) = Len(s) + 3
      /\ c[Len(s) + 1] = u /\ c[Len(s) + 2] = v /\ c[Len(s) + 3] = w
      /\ \A j \in 1..Len(s) : c[j] = s[j]
  BY StackIs, ThreeIs
<1>2. Stack(b) /\ c = Append(b, w)
  BY TwoIs DEF Three
<1> HIDE DEF b, c
<1>3. At(c, -1) = w /\ At(c, -2) = v /\ At(c, -3) = u
  BY <1>1 DEF At, Slot
<1>4. Popped(c, 1) = b
  BY <1>2, OneOnTop
<1>5. Popped(c, 3) = s
  BY <1>1, PoppedSame
<1> QED BY <1>3, <1>4, <1>5 DEF b, c

\* The top goes under the values on top of s.
LEMMA InsertsUnder ==
    ASSUME NEW s, Stack(s), NEW u, NEW v, NEW w, NEW x
    PROVE  /\ Inserted(Two(s, u, v), -2) = Two(s, v, u)
           /\ Inserted(Three(s, u, v, w), -3) = Three(s, w, u, v)
           /\ Inserted(Four(s, u, v, w, x), -4) = Four(s, x, u, v, w)
<1> DEFINE n == Len(s)
<1>1. n \in Nat
  BY StackIs
<1>2. Inserted(Two(s, u, v), -2) = Two(s, v, u)
  <2> DEFINE a == Two(s, u, v)
             b == Two(s, v, u)
             c == Inserted(a, -2)
  <2>1. /\ Stack(a) /\ Len(a) = n + 2 /\ (\A j \in 1..n : a[j] = s[j]) /\ a[n + 1] = u /\ a[n + 2] = v
        /\ Stack(b) /\ Len(b) = n + 2 /\ (\A j \in 1..n : b[j] = s[j]) /\ b[n + 1] = v /\ b[n + 2] = u
    BY TwoIs
  <2> HIDE DEF a, b, n
  <2>2. Slot(a, -2) = n + 1 /\ Slot(a, -2) \in 1..Len(a)
    BY <1>1, <2>1 DEF Slot
  <2>3. /\ Stack(c) /\ Len(c) = n + 2
        /\ \A j \in 1..(n + 2) : c[j] = IF j < n + 1 THEN a[j]
                                        ELSE IF j = n + 1 THEN a[n + 2] ELSE a[j - 1]
    BY <2>1, <2>2, InsertedBelow
  <2> HIDE DEF c
  <2>4. \A j \in 1..Len(c) : c[j] = b[j]
    <3> SUFFICES ASSUME NEW j \in 1..(n + 2) PROVE c[j] = b[j]
      BY <2>3
    <3> QED BY <1>1, <2>1, <2>3
  <2>5. c = b
    BY <2>1, <2>3, <2>4, SameStack
  <2> QED BY <2>5 DEF a, b, c
<1>3. Inserted(Three(s, u, v, w), -3) = Three(s, w, u, v)
  <2> DEFINE a == Three(s, u, v, w)
             b == Three(s, w, u, v)
             c == Inserted(a, -3)
  <2>1. /\ Stack(a) /\ Len(a) = n + 3 /\ (\A j \in 1..n : a[j] = s[j])
        /\ a[n + 1] = u /\ a[n + 2] = v /\ a[n + 3] = w
        /\ Stack(b) /\ Len(b) = n + 3 /\ (\A j \in 1..n : b[j] = s[j])
        /\ b[n + 1] = w /\ b[n + 2] = u /\ b[n + 3] = v
    BY ThreeIs
  <2> HIDE DEF a, b, n
  <2>2. Slot(a, -3) = n + 1 /\ Slot(a, -3) \in 1..Len(a)
    BY <1>1, <2>1 DEF Slot
  <2>3. /\ Stack(c) /\ Len(c) = n + 3
        /\ \A j \in 1..(n + 3) : c[j] = IF j < n + 1 THEN a[j]
                                        ELSE IF j = n + 1 THEN a[n + 3] ELSE a[j - 1]
    BY <2>1, <2>2, InsertedBelow
  <2> HIDE DEF c
  <2>4. \A j \in 1..Len(c) : c[j] = b[j]
    <3> SUFFICES ASSUME NEW j \in 1..(n + 3) PROVE c[j] = b[j]
      BY <2>3
    <3> QED BY <1>1, <2>1, <2>3
  <2>5. c = b
    BY <2>1, <2>3, <2>4, SameStack
  <2> QED BY <2>5 DEF a, b, c
<1>4. Inserted(Four(s, u, v, w, x), -4) = Four(s, x, u, v, w)
  <2> DEFINE a == Four(s, u, v, w, x)
             b == Four(s, x, u, v, w)
             c == Inserted(a, -4)
  <2>1. /\ Stack(a) /\ Len(a) = n + 4 /\ (\A j \in 1..n : a[j] = s[j])
        /\ a[n + 1] = u /\ a[n + 2] = v /\ a[n + 3] = w /\ a[n + 4] = x
        /\ Stack(b) /\ Len(b) = n + 4 /\ (\A j \in 1..n : b[j] = s[j])
        /\ b[n + 1] = x /\ b[n + 2] = u /\ b[n + 3] = v /\ b[n + 4] = w
    BY FourIs
  <2> HIDE DEF a, b, n
  <2>2. Slot(a, -4) = n + 1 /\ Slot(a, -4) \in 1..Len(a)
    BY <1>1, <2>1 DEF Slot
  <2>3. /\ Stack(c) /\ Len(c) = n + 4
        /\ \A j \in 1..(n + 4) : c[j] = IF j < n + 1 THEN a[j]
                                        ELSE IF j = n + 1 THEN a[n + 4] ELSE a[j - 1]
    BY <2>1, <2>2, InsertedBelow
  <2> HIDE DEF c
  <2>4. \A j \in 1..Len(c) : c[j] = b[j]
    <3> SUFFICES ASSUME NEW j \in 1..(n + 4) PROVE c[j] = b[j]
      BY <2>3
    <3> QED BY <1>1, <2>1, <2>3
  <2>5. c = b
    BY <2>1, <2>3, <2>4, SameStack
  <2> QED BY <2>5 DEF a, b, c
<1> QED BY <1>2, <1>3, <1>4

\* The top replaces a slot of s.
LEMMA ReplacesSlot ==
    ASSUME NEW s, Stack(s), NEW v, NEW i \in 1..Len(s)
    PROVE  /\ Replaced(Append(s, v), i) = [s EXCEPT ![i] = v]
           /\ Stack([s EXCEPT ![i] = v]) /\ Len([s EXCEPT ![i] = v]) = Len(s)
<1> DEFINE n == Len(s)
           a == Append(s, v)
           b == [s EXCEPT ![i] = v]
           c == Replaced(a, i)
<1>1. n \in Nat /\ DOMAIN s = 1..n
  BY StackIs
<1>2. Stack(b) /\ Len(b) = n /\ \A j \in 1..n : b[j] = IF j = i THEN v ELSE s[j]
  <2>1. b = [j \in 1..n |-> b[j]] /\ \A j \in 1..n : b[j] = IF j = i THEN v ELSE s[j]
    BY <1>1, StackIs
  <2> HIDE DEF b
  <2> QED BY <1>1, <2>1, StackMade
<1>3. Stack(a) /\ Len(a) = n + 1 /\ (\A j \in 1..n : a[j] = s[j]) /\ a[n + 1] = v
  BY PushedIs
<1> HIDE DEF a, b, n
<1>4. Slot(a, i) = i /\ Slot(a, i) \in 1..(Len(a) - 1) /\ Len(a) - 1 = n /\ i \in Int
  BY <1>1, <1>3 DEF Slot, n
<1>5. Stack(c) /\ Len(c) = n /\ \A j \in 1..n : c[j] = IF j = i THEN a[n + 1] ELSE a[j]
  <2>1. /\ Stack(c) /\ Len(c) = Len(a) - 1
        /\ \A j \in 1..(Len(a) - 1) : c[j] = IF j = Slot(a, i) THEN a[Len(a)] ELSE a[j]
    BY <1>3, <1>4, ReplacedBelow
  <2> QED BY <1>3, <1>4, <2>1
<1> HIDE DEF c
<1>6. c = b
  BY <1>2, <1>3, <1>5, SameStack
<1> QED BY <1>2, <1>6 DEF a, b, c, n

\* lua_replace below the top drops the value under it.
LEMMA ReplacesUnder ==
    ASSUME NEW s, Stack(s), NEW u, NEW v
    PROVE  Replaced(Two(s, u, v), -2) = Append(s, v)
<1> DEFINE n == Len(s)
           a == Two(s, u, v)
           b == Append(s, v)
           c == Replaced(a, -2)
<1>1. n \in Nat
  BY StackIs
<1>2. /\ Stack(a) /\ Len(a) = n + 2 /\ (\A j \in 1..n : a[j] = s[j]) /\ a[n + 1] = u /\ a[n + 2] = v
      /\ Stack(b) /\ Len(b) = n + 1 /\ (\A j \in 1..n : b[j] = s[j]) /\ b[n + 1] = v
  BY TwoIs, PushedIs
<1> HIDE DEF a, b, n
<1>3. Slot(a, -2) = n + 1 /\ Slot(a, -2) \in 1..(Len(a) - 1)
  BY <1>1, <1>2 DEF Slot
<1>4. Stack(c) /\ Len(c) = n + 1 /\ \A j \in 1..(n + 1) : c[j] = IF j = n + 1 THEN a[n + 2] ELSE a[j]
  BY <1>1, <1>2, <1>3, ReplacedBelow
<1> HIDE DEF c
<1>5. \A j \in 1..Len(c) : c[j] = b[j]
  BY <1>1, <1>2, <1>4
<1>6. c = b
  BY <1>2, <1>4, <1>5, SameStack
<1> QED BY <1>6 DEF a, b, c

-----------------------------------------------------------------------------
(* Machines, by their parts.                                               *)

Mach(s, t, r) == [stk |-> s, tab |-> t, ret |-> r]
Put(t, a, k, v) == [t EXCEPT ![a] = [t[a] EXCEPT ![k] = v]]

\* The parts of a machine.
LEMMA Parts ==
    ASSUME NEW s, NEW t, NEW r
    PROVE  /\ Mach(s, t, r).stk = s /\ Mach(s, t, r).tab = t /\ Mach(s, t, r).ret = r
           /\ Top(Mach(s, t, r)) = At(s, -1)
<1>1. Mach(s, t, r).stk = s /\ Mach(s, t, r).tab = t /\ Mach(s, t, r).ret = r
  BY DEF Mach
<1> QED BY <1>1 DEF Top

\* What the operations do to a machine given by its parts.
LEMMA MachineOps ==
    ASSUME NEW s, NEW t, NEW r, NEW v
    PROVE  /\ Mach(s, t, r).stk = s /\ Mach(s, t, r).tab = t /\ Mach(s, t, r).ret = r
           /\ On(Mach(s, t, r), v) = Mach(v, t, r)
           /\ Returns(Mach(s, t, r), v) = Mach(s, t, v)
           /\ Push(Mach(s, t, r), v) = Mach(Append(s, v), t, r)
           /\ Pop(Mach(s, t, r), v) = Mach(Popped(s, v), t, r)
           /\ Top(Mach(s, t, r)) = At(s, -1)
           /\ Insert(Mach(s, t, r), v) = Mach(Inserted(s, v), t, r)
           /\ Replace(Mach(s, t, r), v) = Mach(Replaced(s, v), t, r)
           /\ Object(Mach(s, t, r), v) = IF v = RegistryIndex THEN Registry ELSE At(s, v)
<1>1. /\ Mach(s, t, r).stk = s /\ Mach(s, t, r).tab = t /\ Mach(s, t, r).ret = r
      /\ \A u : On(Mach(s, t, r), u) = Mach(u, t, r)
      /\ Returns(Mach(s, t, r), v) = Mach(s, t, v)
  BY DEF Mach, On, Returns
<1>2. /\ Push(Mach(s, t, r), v) = Mach(Append(s, v), t, r)
      /\ Pop(Mach(s, t, r), v) = Mach(Popped(s, v), t, r)
      /\ Top(Mach(s, t, r)) = At(s, -1)
      /\ Insert(Mach(s, t, r), v) = Mach(Inserted(s, v), t, r)
      /\ Replace(Mach(s, t, r), v) = Mach(Replaced(s, v), t, r)
      /\ Object(Mach(s, t, r), v) = IF v = RegistryIndex THEN Registry ELSE At(s, v)
  BY <1>1 DEF Push, Pop, Top, Insert, Replace, Object
<1> QED BY <1>1, <1>2

\* A store changes only the tables.
LEMMA StoredIs ==
    ASSUME NEW s, NEW t, NEW r, NEW a, NEW k, NEW v
    PROVE  Stored(Mach(s, t, r), a, k, v) = Mach(s, Put(t, a, k, v), r)
BY DEF Mach, Put, Stored

\* Places on a stack, and what extends it.
Place(s, i) == i = RegistryIndex \/ i \in (-Len(s))..(-1) \/ i \in 1..Len(s)
Extends(s, u) == Len(u) >= Len(s) /\ \A j \in 1..Len(s) : u[j] = s[j]
Small(s) == Stack(s) /\ Len(s) <= 8000

\* An absolute index is that of the same object, whatever is pushed meanwhile.
LEMMA AbsoluteStays ==
    ASSUME NEW s, Small(s), NEW t, NEW r, NEW i, Place(s, i),
           NEW u, Stack(u), Extends(s, u), NEW t2, NEW r2
    PROVE  Object(Mach(u, t2, r2), lua_absindex(Mach(s, t, r), i)) = Object(Mach(s, t, r), i)
<1> DEFINE n == Len(s)
           a == lua_absindex(Mach(s, t, r), i)
<1>1. n \in Nat /\ n <= 8000 /\ Mach(s, t, r).stk = s
  BY StackIs, Parts DEF Small
<1>2. a = IF i < 0 /\ i > -10000 THEN i + n + 1 ELSE i
  BY <1>1 DEF lua_absindex, RegistryIndex
<1>3. /\ Object(Mach(u, t2, r2), a) = IF a = RegistryIndex THEN Registry ELSE At(u, a)
      /\ Object(Mach(s, t, r), i) = IF i = RegistryIndex THEN Registry ELSE At(s, i)
  BY MachineOps
<1> HIDE DEF n, a
<1>4. CASE i = RegistryIndex
  <2>1. a = RegistryIndex
    BY <1>2, <1>4 DEF RegistryIndex
  <2> QED BY <1>3, <1>4, <2>1 DEF a
<1>5. CASE i \in (-n)..(-1) \/ i \in 1..n
  <2>1. i # RegistryIndex /\ a \in 1..n /\ Slot(s, i) = a
    BY <1>1, <1>2, <1>5 DEF Slot, RegistryIndex, n
  <2>2. a # RegistryIndex /\ Slot(u, a) = a
    BY <1>1, <2>1 DEF Slot, RegistryIndex
  <2>3. At(u, a) = At(s, i)
    BY <2>1, <2>2 DEF At, Extends, n
  <2> QED BY <1>3, <2>1, <2>2, <2>3 DEF a
<1> QED BY <1>4, <1>5 DEF Place, n

\* With values pushed on s.
LEMMA PushedExtends ==
    ASSUME NEW s, Stack(s), NEW u, NEW v
    PROVE  /\ Stack(s) /\ Extends(s, s)
           /\ Stack(Append(s, u)) /\ Extends(s, Append(s, u))
           /\ Stack(Two(s, u, v)) /\ Extends(s, Two(s, u, v))
BY StackIs, PushedIs, TwoIs DEF Extends

\* lua_gettable replaces the key on top by its value.
LEMMA GettableIs ==
    ASSUME NEW s, Stack(s), NEW t, NEW r, NEW k, NEW i
    PROVE  Gettable(Mach(Append(s, k), t, r), i)
           = Mach(Append(s, t[Object(Mach(Append(s, k), t, r), i)][k]), t, r)
<1> DEFINE m == Mach(Append(s, k), t, r)
<1>1. m.tab = t /\ Top(m) = k /\ Pop(m, 1) = Mach(s, t, r)
  BY MachineOps, Parts, OneOnTop
<1>2. Gettable(m, i) = Push(Pop(m, 1), m.tab[Object(m, i)][Top(m)])
  BY DEF Gettable
<1> HIDE DEF m
<1>3. Gettable(m, i) = Push(Mach(s, t, r), t[Object(m, i)][k])
  BY <1>1, <1>2
<1>4. Gettable(m, i) = Mach(Append(s, t[Object(m, i)][k]), t, r)
  BY <1>3, MachineOps
<1> QED BY <1>4 DEF m

\* lua_settable pops the key and the value that it stores.
LEMMA SettableIs ==
    ASSUME NEW s, Stack(s), NEW t, NEW r, NEW k, NEW v, NEW i
    PROVE  Settable(Mach(Two(s, k, v), t, r), i)
           = Mach(s, Put(t, Object(Mach(Two(s, k, v), t, r), i), k, v), r)
<1> DEFINE m == Mach(Two(s, k, v), t, r)
<1>1. m.stk = Two(s, k, v) /\ Top(m) = v /\ At(m.stk, -2) = k /\ Pop(m, 2) = Mach(s, t, r)
  BY MachineOps, Parts, TwoOnTop
<1>2. Settable(m, i) = Stored(Pop(m, 2), Object(m, i), At(m.stk, -2), Top(m))
  BY DEF Settable
<1> HIDE DEF m
<1>3. Settable(m, i) = Mach(s, Put(t, Object(m, i), k, v), r)
  BY <1>1, <1>2, StoredIs
<1> QED BY <1>3 DEF m

\* lua_pushvalue pushes what is at the index.
LEMMA PushvalueIs ==
    ASSUME NEW s, NEW t, NEW r, NEW i
    PROVE  Pushvalue(Mach(s, t, r), i) = Mach(Append(s, Object(Mach(s, t, r), i)), t, r)
BY MachineOps DEF Pushvalue

-----------------------------------------------------------------------------
(* Each function of compat-5.3.c on one machine.                           *)

\* lua_rawgetp and lua_geti do what Lua 5.3 says.
LEMMA GetsRight ==
    ASSUME NEW s, Small(s), NEW t, NEW r, NEW i, Place(s, i), NEW k
    PROVE  /\ lua_rawgetp(Mach(s, t, r), i, k) = Got(Mach(s, t, r), i, k)
           /\ lua_geti(Mach(s, t, r), i, k) = Got(Mach(s, t, r), i, k)
<1> DEFINE m == Mach(s, t, r)
           o == Object(m, i)
           m1 == Gettable(Push(m, k), lua_absindex(m, i))
           m2 == Mach(Append(s, t[o][k]), t, r)
<1>1. Stack(s)
  BY DEF Small
<1>2. m1 = m2
  <2>1. Push(m, k) = Mach(Append(s, k), t, r)
    BY MachineOps
  <2>2. Object(Mach(Append(s, k), t, r), lua_absindex(m, i)) = o
    BY <1>1, PushedExtends, AbsoluteStays
  <2> QED BY <1>1, <2>1, <2>2, GettableIs
<1>3. Top(m2) = t[o][k] /\ m2.tab = t /\ m.tab = t /\ Push(m, t[o][k]) = m2
  BY <1>1, MachineOps, Parts, OneOnTop
<1>4. TypeOf(m2, t[o][k]) = TypeOf(m, t[o][k])
  BY <1>3 DEF TypeOf
<1>5. Got(m, i, k) = Returns(m2, TypeOf(m2, Top(m2)))
  BY <1>3, <1>4 DEF Got
<1>6. /\ lua_rawgetp(m, i, k) = Returns(m1, TypeOf(m1, Top(m1)))
      /\ lua_geti(m, i, k) = Returns(m1, TypeOf(m1, Top(m1)))
  BY DEF lua_rawgetp, lua_geti
<1> HIDE DEF m1, m2, m, o
<1>7. /\ lua_rawgetp(m, i, k) = Got(m, i, k)
      /\ lua_geti(m, i, k) = Got(m, i, k)
  BY <1>2, <1>5, <1>6
<1> QED BY <1>7 DEF m

\* An index of a slot.
Index53(s, i) == i \in (-Len(s))..(-1) \/ i \in 1..Len(s)

\* lua_absindex gives the slot that the index of the manual means, one of the stack.
LEMMA AbsoluteIs ==
    ASSUME NEW s, Small(s), NEW t, NEW r, NEW i, Index53(s, i)
    PROVE  /\ lua_absindex(Mach(s, t, r), i) = Slot53(Mach(s, t, r), i)
           /\ Slot53(Mach(s, t, r), i) \in 1..Len(s)
           /\ i # RegistryIndex /\ At(s, i) = s[Slot53(Mach(s, t, r), i)]
           /\ Place(s, i)
<1> DEFINE n == Len(s)
           m == Mach(s, t, r)
<1>1. n \in Nat /\ n <= 8000 /\ m.stk = s
  BY StackIs, Parts DEF Small
<1>2. /\ lua_absindex(m, i) = IF i < 0 /\ i > -10000 THEN i + n + 1 ELSE i
      /\ Slot53(m, i) = IF i < 0 THEN n + 1 + i ELSE i
      /\ At(s, i) = s[IF i < 0 THEN n + 1 + i ELSE i]
  BY <1>1 DEF lua_absindex, RegistryIndex, Slot53, At, Slot
<1>3. i \in (-n)..(-1) \/ i \in 1..n
  BY DEF Index53
<1>4. Place(s, i)
  BY DEF Index53, Place
<1> HIDE DEF n, m
<1>5. lua_absindex(m, i) = Slot53(m, i) /\ Slot53(m, i) \in 1..n /\ i # -10000
      /\ At(s, i) = s[Slot53(m, i)]
  BY <1>1, <1>2, <1>3
<1> QED BY <1>4, <1>5 DEF n, m, RegistryIndex

\* lua_copy.
Overwritten(m, i, j) == On(m, [m.stk EXCEPT ![Slot53(m, j)] = Object(m, i)])

\* lua_copy overwrites the slot with the value, as the manual says.
LEMMA CopiesRight ==
    ASSUME NEW s, Small(s), NEW t, NEW r, NEW i, Index53(s, i), NEW j, Index53(s, j)
    PROVE  lua_copy(Mach(s, t, r), i, j) = Overwritten(Mach(s, t, r), i, j)
<1> DEFINE m == Mach(s, t, r)
           o == Object(m, i)
           a == lua_absindex(m, j)
<1>1. Stack(s) /\ m.stk = s
  BY Parts DEF Small
<1>2. a = Slot53(m, j) /\ a \in 1..Len(s)
  BY AbsoluteIs
<1>3. Pushvalue(m, i) = Mach(Append(s, o), t, r)
  BY PushvalueIs
<1>4. Replace(Pushvalue(m, i), a) = Mach(Replaced(Append(s, o), a), t, r)
  BY <1>3, MachineOps
<1>5. Replaced(Append(s, o), a) = [s EXCEPT ![a] = o]
  BY <1>1, <1>2, ReplacesSlot
<1>6. On(m, [s EXCEPT ![a] = o]) = Mach([s EXCEPT ![a] = o], t, r)
  BY MachineOps
<1>7. lua_copy(m, i, j) = Replace(Pushvalue(m, i), a)
  BY DEF lua_copy
<1> HIDE DEF m, o, a
<1>8. lua_copy(m, i, j) = On(m, [m.stk EXCEPT ![Slot53(m, j)] = o])
  BY <1>1, <1>2, <1>4, <1>5, <1>6, <1>7
<1> QED BY <1>8 DEF m, o, Overwritten

\* luaL_len leaves nothing behind.
LEMMA MeasuresRight ==
    ASSUME NEW s, Stack(s), NEW t, NEW r, NEW i
    PROVE  luaL_len(Mach(s, t, r), i)
           = Returns(Mach(s, t, r), Objlen(Mach(s, t, r), Object(Mach(s, t, r), i)))
<1> DEFINE m == Mach(s, t, r)
           l == Objlen(m, Object(m, i))
           m1 == Mach(Append(s, l), t, r)
<1>1. lua_len(m, i) = m1
  BY MachineOps DEF lua_len
<1>2. luaL_len(m, i) = Pop(Returns(m1, Top(m1)), 1)
  BY <1>1 DEF luaL_len
<1>3. Top(m1) = l /\ Popped(Append(s, l), 1) = s
  BY Parts, OneOnTop
<1>4. Pop(Returns(m1, l), 1) = Mach(Popped(Append(s, l), 1), t, l)
  BY MachineOps
<1>5. Returns(m, l) = Mach(s, t, l)
  BY MachineOps
<1> HIDE DEF m, l, m1
<1> QED BY <1>2, <1>3, <1>4, <1>5 DEF m, l

\* The key goes below the value on top, and whoever is not the value stays where it is.
LEMMA KeyBelowIs ==
    ASSUME NEW s, Small(s), NEW t, NEW r, Len(s) > 0, NEW k
    PROVE  /\ KeyBelow(Mach(s, t, r), k) = Mach(Two(Popped(s, 1), k, s[Len(s)]), t, r)
           /\ Stack(Popped(s, 1)) /\ At(s, -1) = s[Len(s)]
           /\ \A i : Place(s, i) /\ i # -1 /\ i # Len(s) => FindsTable(Mach(s, t, r), i, k)
<1> DEFINE m == Mach(s, t, r)
           n == Len(s)
           s0 == Popped(s, 1)
           v == s[n]
           u == Two(s0, k, v)
<1>1. Stack(s) /\ n \in Nat /\ n > 0 /\ n <= 8000
  BY StackIs DEF Small
<1>2. Stack(s0) /\ Len(s0) = n - 1 /\ \A j \in 1..(n - 1) : s0[j] = s[j]
  <2>1. 1 \in 0..n
    BY <1>1
  <2> QED BY <1>1, <2>1, PoppedTop
<1>3. s = Append(s0, v)
  <2> HIDE DEF s0
  <2> DEFINE b == Append(s0, v)
  <2>1. Stack(b) /\ Len(b) = n /\ (\A j \in 1..(n - 1) : b[j] = s[j]) /\ b[n] = s[n]
    BY <1>1, <1>2, PushedIs
  <2> HIDE DEF b
  <2>2. s = b
    BY <1>1, <2>1, SameStack
  <2> QED BY <2>2 DEF b
<1>4. At(s, -1) = v
  <2>1. At(Append(s0, v), -1) = v
    BY <1>2, OneOnTop
  <2> HIDE DEF s0, v
  <2> QED BY <1>3, <2>1
<1>5. Push(m, k) = Mach(Append(s, k), t, r)
  BY MachineOps
<1>6. Append(s, k) = Two(s0, v, k)
  BY <1>3 DEF Two
<1>7. KeyBelow(m, k) = Mach(u, t, r)
  <2>1. Inserted(Two(s0, v, k), -2) = Two(s0, k, v)
    BY <1>2, InsertsUnder
  <2>2. Insert(Mach(Append(s, k), t, r), -2) = Mach(Inserted(Append(s, k), -2), t, r)
    BY MachineOps
  <2> HIDE DEF s0, v, m
  <2> QED BY <1>5, <1>6, <2>1, <2>2 DEF KeyBelow
<1>8. Stack(u) /\ \A j \in 1..(n - 1) : u[j] = s[j]
  BY <1>2, TwoIs
<1>9. ASSUME NEW i, Place(s, i), i # -1, i # n
      PROVE  FindsTable(m, i, k)
  <2> DEFINE a == lua_absindex(m, i)
             o == Object(m, i)
  <2>1. /\ Object(Mach(u, t, r), a) = IF a = RegistryIndex THEN Registry ELSE At(u, a)
        /\ o = IF i = RegistryIndex THEN Registry ELSE At(s, i)
    BY MachineOps
  <2>2. m.stk = s
    BY Parts
  <2>3. a = IF i < 0 /\ i > -10000 THEN i + n + 1 ELSE i
    BY <2>2 DEF lua_absindex, RegistryIndex
  <2> HIDE DEF u, o, a, s0, v, m
  <2>4. CASE i = RegistryIndex
    <3>1. a = RegistryIndex
      BY <2>3, <2>4 DEF RegistryIndex
    <3> QED BY <1>7, <2>1, <2>4, <3>1 DEF FindsTable, a, o
  <2>5. CASE i # RegistryIndex
    <3>1. i \in (-n)..(-1) \/ i \in 1..n
      BY <1>9, <2>5 DEF Place
    <3> HIDE DEF n
    <3>2. a \in 1..(n - 1) /\ Slot(s, i) = a /\ a # RegistryIndex
      BY <1>1, <1>9, <2>3, <3>1 DEF Slot, RegistryIndex, n
    <3>3. Slot(u, a) = a
      BY <1>1, <3>2 DEF Slot
    <3>4. Object(Mach(u, t, r), a) = o
      BY <1>8, <2>1, <2>5, <3>2, <3>3 DEF At
    <3> QED BY <1>7, <3>4 DEF FindsTable, a, o
  <2> QED BY <2>4, <2>5
<1> HIDE DEF u
<1>10. \A i : Place(s, i) /\ i # -1 /\ i # n => FindsTable(m, i, k)
  BY <1>9
<1> QED BY <1>2, <1>4, <1>7, <1>10 DEF m, n, s0, v, u

\* lua_rawsetp and lua_seti, where they find the table.
LEMMA SetsRight ==
    ASSUME NEW s, Small(s), NEW t, NEW r, Len(s) > 0, NEW i, NEW k,
           FindsTable(Mach(s, t, r), i, k)
    PROVE  /\ lua_rawsetp(Mach(s, t, r), i, k) = Assigned(Mach(s, t, r), i, k)
           /\ lua_seti(Mach(s, t, r), i, k) = Assigned(Mach(s, t, r), i, k)
<1> DEFINE m == Mach(s, t, r)
           o == Object(m, i)
           a == lua_absindex(m, i)
           s0 == Popped(s, 1)
           v == s[Len(s)]
<1>1. KeyBelow(m, k) = Mach(Two(s0, k, v), t, r) /\ Stack(s0) /\ At(s, -1) = v
  BY KeyBelowIs
<1>2. Object(Mach(Two(s0, k, v), t, r), a) = o
  <2> HIDE DEF s0, v, m
  <2> QED BY <1>1 DEF FindsTable, m
<1>3. Settable(KeyBelow(m, k), a) = Mach(s0, Put(t, o, k, v), r)
  <2>1. Settable(Mach(Two(s0, k, v), t, r), a)
        = Mach(s0, Put(t, Object(Mach(Two(s0, k, v), t, r), a), k, v), r)
    BY <1>1, SettableIs
  <2> HIDE DEF s0, v, m, o, a
  <2> QED BY <1>1, <1>2, <2>1
<1>4. Assigned(m, i, k) = Mach(s0, Put(t, o, k, v), r)
  <2>1. Pop(m, 1) = Mach(s0, t, r) /\ Top(m) = At(s, -1)
    BY MachineOps
  <2>2. Stored(Mach(s0, t, r), o, k, v) = Mach(s0, Put(t, o, k, v), r)
    BY StoredIs
  <2>3. Assigned(m, i, k) = Stored(Pop(m, 1), o, k, Top(m))
    BY DEF Assigned
  <2> HIDE DEF s0, v, m, o
  <2> QED BY <1>1, <2>1, <2>2, <2>3
<1>5. lua_rawsetp(m, i, k) = Settable(KeyBelow(m, k), a) /\ lua_seti(m, i, k) = Settable(KeyBelow(m, k), a)
  BY DEF lua_rawsetp, lua_seti
<1> HIDE DEF m, o, a, s0, v
<1>6. lua_rawsetp(m, i, k) = Assigned(m, i, k) /\ lua_seti(m, i, k) = Assigned(m, i, k)
  BY <1>3, <1>4, <1>5
<1> QED BY <1>6 DEF m

\* A new table.
Unused(t) == CHOOSE x \in TableObject : x \notin DOMAIN t
With(t, a) == [x \in DOMAIN t \cup {a} |-> IF x = a THEN Empty ELSE t[x]]

\* lua_newtable pushes a table nobody has yet, and empty.
LEMMA NewtableIs ==
    ASSUME NEW s, NEW t, NEW r
    PROVE  Newtable(Mach(s, t, r)) = Mach(Append(s, Unused(t)), With(t, Unused(t)), r)
<1> DEFINE m == Mach(s, t, r)
           a == Unused(t)
<1>1. m.tab = t
  BY Parts
<1>2. a = CHOOSE x \in TableObject : x \notin DOMAIN m.tab
  BY <1>1 DEF Unused
<1>3. Push(m, a) = Mach(Append(s, a), t, r)
  BY MachineOps
<1>4. Newtable(m) = [Push(m, a) EXCEPT !.tab = With(t, a)]
  BY <1>1, <1>2 DEF Newtable, With
<1> HIDE DEF m, a
<1>5. [Mach(Append(s, a), t, r) EXCEPT !.tab = With(t, a)] = Mach(Append(s, a), With(t, a), r)
  BY DEF Mach
<1>6. Newtable(m) = Mach(Append(s, a), With(t, a), r)
  BY <1>3, <1>4, <1>5
<1> QED BY <1>6 DEF m, a

\* luaL_getsubtable.
LEMMA SubtablesRight ==
    ASSUME NEW s, Small(s), NEW t, NEW r, NEW i, Place(s, i), NEW k
    PROVE  luaL_getsubtable(Mach(s, t, r), i, k) = Subtable(Mach(s, t, r), i, k)
<1> DEFINE m == Mach(s, t, r)
           o == Object(m, i)
           a == lua_absindex(m, i)
           x == t[o][k]
           m1 == Mach(Append(s, x), t, r)
           n == Unused(t)
           m2 == Mach(Append(s, n), With(t, n), r)
<1>1. Stack(s) /\ m.tab = t /\ m1.tab = t
  BY Parts DEF Small
<1>2. Gettable(Push(m, k), a) = m1
  <2>1. Push(m, k) = Mach(Append(s, k), t, r)
    BY MachineOps
  <2>2. Object(Mach(Append(s, k), t, r), a) = o
    BY <1>1, PushedExtends, AbsoluteStays
  <2>3. Gettable(Mach(Append(s, k), t, r), a)
        = Mach(Append(s, t[Object(Mach(Append(s, k), t, r), a)][k]), t, r)
    BY <1>1, GettableIs
  <2> HIDE DEF m, o, a
  <2> QED BY <2>1, <2>2, <2>3
<1>3. Object(m1, -1) = x
  <2>1. At(Append(s, x), -1) = x
    BY <1>1, OneOnTop
  <2>2. Object(m1, -1) = IF -1 = RegistryIndex THEN Registry ELSE At(Append(s, x), -1)
    BY MachineOps
  <2> QED BY <2>1, <2>2 DEF RegistryIndex
<1>4. Pop(m1, 1) = m
  <2>1. Popped(Append(s, x), 1) = s
    BY <1>1, OneOnTop
  <2>2. Pop(m1, 1) = Mach(Popped(Append(s, x), 1), t, r)
    BY MachineOps
  <2> QED BY <2>1, <2>2
<1>5. Newtable(m) = m2
  BY NewtableIs
<1>6. Settable(Pushvalue(Push(m2, k), -2), a) = Stored(m2, o, k, n)
  <2> DEFINE u == Append(s, n)
             w == Two(u, k, n)
             t2 == With(t, n)
  <2>1. Stack(u) /\ At(Append(u, k), -2) = n /\ w = Append(Append(u, k), n)
    BY <1>1, PushedIs, TwoOnTop DEF Two
  <2>2. Stack(w) /\ Extends(s, w)
    BY <1>1, ThreeIs, StackIs DEF Extends, Three, Two
  <2>3. Pushvalue(Push(m2, k), -2) = Mach(w, t2, r)
    <3>1. Push(m2, k) = Mach(Append(u, k), t2, r)
      BY MachineOps
    <3>2. Object(Mach(Append(u, k), t2, r), -2) = IF -2 = RegistryIndex THEN Registry
                                                  ELSE At(Append(u, k), -2)
      BY MachineOps
    <3>3. Pushvalue(Mach(Append(u, k), t2, r), -2)
          = Mach(Append(Append(u, k), Object(Mach(Append(u, k), t2, r), -2)), t2, r)
      BY PushvalueIs
    <3> HIDE DEF m2, u, w, t2, n
    <3> QED BY <2>1, <3>1, <3>2, <3>3 DEF RegistryIndex
  <2>4. Object(Mach(w, t2, r), a) = o
    BY <2>2, AbsoluteStays
  <2>5. Settable(Mach(w, t2, r), a) = Mach(u, Put(t2, Object(Mach(w, t2, r), a), k, n), r)
    <3>1. Stack(u)
      BY <2>1
    <3> HIDE DEF u, t2, n, a
    <3> QED BY <3>1, SettableIs
  <2>6. Stored(m2, o, k, n) = Mach(u, Put(t2, o, k, n), r)
    BY StoredIs
  <2> HIDE DEF m2, u, w, t2, n, o, a, m
  <2> QED BY <2>3, <2>4, <2>5, <2>6
<1>7. Push(m, x) = m1 /\ Top(m2) = n
  BY <1>1, MachineOps, Parts, OneOnTop
<1>8. luaL_getsubtable(m, i, k)
      = IF Object(m1, -1) \in DOMAIN m1.tab THEN Returns(m1, 1)
        ELSE Returns(Settable(Pushvalue(Push(m2, k), -2), a), 0)
  BY <1>2, <1>4, <1>5 DEF luaL_getsubtable, IsTable
<1>9. Subtable(m, i, k)
      = IF x \in DOMAIN m.tab THEN Returns(Push(m, x), 1) ELSE Returns(Stored(m2, o, k, Top(m2)), 0)
  BY <1>1, <1>5 DEF Subtable
<1> HIDE DEF m, m1, m2, a, o, x, n
<1>10. luaL_getsubtable(m, i, k) = Subtable(m, i, k)
  BY <1>1, <1>3, <1>6, <1>7, <1>8, <1>9
<1> QED BY <1>10 DEF m

\* compat53_call_lua with what it keeps in the registry.
Cached(t, chunk) ==
    IF t[Registry][chunk] # NilValue THEN t ELSE Put(t, Registry, chunk, ChunkFunction(chunk))

\* compat53_call_lua calls the chunk's function, cached already or not, and has it cached.
LEMMA FunctionPushed ==
    ASSUME NEW u, Stack(u), NEW t, NEW r, NEW chunk,
           t[Registry][chunk] \in {NilValue, ChunkFunction(chunk)}, NEW nargs
    PROVE  compat53_call_lua(Mach(u, t, r), chunk, nargs)
           = Call(Insert(Mach(Append(u, ChunkFunction(chunk)), Cached(t, chunk), r), -nargs - 1), nargs)
<1> DEFINE m == Mach(u, t, r)
           x == t[Registry][chunk]
           f == ChunkFunction(chunk)
           m1 == Mach(Append(u, x), t, r)
           c == Mach(Two(u, f, f), t, r)
           p == Put(t, Registry, chunk, f)
           v == Append(u, f)
<1>0. Stack(v)
  BY PushedIs
<1>1. Gettable(Push(m, chunk), RegistryIndex) = m1
  <2>1. Push(m, chunk) = Mach(Append(u, chunk), t, r)
    BY MachineOps
  <2>2. Object(Mach(Append(u, chunk), t, r), RegistryIndex) = Registry
    BY MachineOps
  <2>3. Gettable(Mach(Append(u, chunk), t, r), RegistryIndex)
        = Mach(Append(u, t[Object(Mach(Append(u, chunk), t, r), RegistryIndex)][chunk]), t, r)
    BY GettableIs
  <2> HIDE DEF m
  <2> QED BY <2>1, <2>2, <2>3
<1>2. Top(m1) = x
  BY Parts, OneOnTop
<1>3. Pushvalue(Push(Pop(m1, 1), f), -1) = c
  <2>1. Pop(m1, 1) = m
    <3>1. Popped(Append(u, x), 1) = u
      BY OneOnTop
    <3>2. Pop(m1, 1) = Mach(Popped(Append(u, x), 1), t, r)
      BY MachineOps
    <3> QED BY <3>1, <3>2
  <2>2. Push(m, f) = Mach(v, t, r)
    BY MachineOps
  <2>3. Object(Mach(v, t, r), -1) = f
    <3>1. Object(Mach(v, t, r), -1) = IF -1 = RegistryIndex THEN Registry ELSE At(v, -1)
      BY MachineOps
    <3>2. At(v, -1) = f
      BY OneOnTop
    <3> HIDE DEF v, f
    <3> QED BY <3>1, <3>2 DEF RegistryIndex
  <2>4. Pushvalue(Mach(v, t, r), -1) = Mach(Append(v, Object(Mach(v, t, r), -1)), t, r)
    BY PushvalueIs
  <2>5. c = Mach(Append(v, f), t, r)
    BY DEF Two
  <2> HIDE DEF m, m1, f, v, c
  <2> QED BY <2>1, <2>2, <2>3, <2>4, <2>5
<1>4. Settable(Insert(Push(c, chunk), -2), RegistryIndex) = Mach(v, p, r)
  <2> DEFINE w == Two(v, chunk, f)
  <2>1. Push(c, chunk) = Mach(Two(v, f, chunk), t, r)
    <3>1. Push(c, chunk) = Mach(Append(Two(u, f, f), chunk), t, r)
      BY MachineOps
    <3> QED BY <3>1 DEF Two
  <2>2. Inserted(Two(v, f, chunk), -2) = w
    BY <1>0, InsertsUnder
  <2>3. Insert(Mach(Two(v, f, chunk), t, r), -2) = Mach(Inserted(Two(v, f, chunk), -2), t, r)
    BY MachineOps
  <2>4. Object(Mach(w, t, r), RegistryIndex) = Registry
    BY MachineOps
  <2>5. Settable(Mach(w, t, r), RegistryIndex)
        = Mach(v, Put(t, Object(Mach(w, t, r), RegistryIndex), chunk, f), r)
    BY <1>0, SettableIs
  <2> HIDE DEF c, v, w, f
  <2> QED BY <2>1, <2>2, <2>3, <2>4, <2>5
<1> DEFINE m2 == IF Top(m1) # NilValue THEN m1
                 ELSE Settable(Insert(Push(Pushvalue(Push(Pop(m1, 1), f), -1), chunk), -2), RegistryIndex)
<1>5. compat53_call_lua(m, chunk, nargs) = Call(Insert(m2, -nargs - 1), nargs)
  BY <1>1 DEF compat53_call_lua
<1>6. m2 = Mach(v, Cached(t, chunk), r)
  <2>1. x # NilValue => m1 = Mach(v, t, r)
    OBVIOUS
  <2>2. Cached(t, chunk) = IF x # NilValue THEN t ELSE p
    BY DEF Cached
  <2> HIDE DEF m1, x, f, c, v, p
  <2> QED BY <1>2, <1>3, <1>4, <2>1, <2>2
<1> HIDE DEF m, m2, v
<1>7. compat53_call_lua(m, chunk, nargs) = Call(Insert(Mach(v, Cached(t, chunk), r), -nargs - 1), nargs)
  BY <1>5, <1>6
<1> QED BY <1>7 DEF m, v

\* What is on top of n values.
LEMMA TopPart ==
    ASSUME NEW a, Stack(a), NEW n \in Nat, NEW k \in Nat, Len(a) = n + k
    PROVE  /\ Stack(SubSeq(a, n + 1, n + k)) /\ Len(SubSeq(a, n + 1, n + k)) = k
           /\ \A j \in 1..k : SubSeq(a, n + 1, n + k)[j] = a[n + j]
<1> DEFINE p == n + 1
           q == n + k
           b == SubSeq(a, p, q)
<1>1. PICK S : a \in Seq(S)
  BY DEF Stack
<1>2. p \in 1..(Len(a) + 1) /\ q \in (p - 1)..Len(a) /\ q - p + 1 = k
  OBVIOUS
<1> HIDE DEF p, q
<1>3. b \in Seq(S) /\ Len(b) = q - p + 1 /\ \A j \in 1..(q - p + 1) : b[j] = a[p + j - 1]
  BY <1>1, <1>2, PartOf
<1>4. \A j \in 1..k : p + j - 1 = n + j
  BY DEF p
<1> HIDE DEF b
<1>5. Len(b) = k /\ \A j \in 1..k : b[j] = a[n + j]
  BY <1>2, <1>3, <1>4
<1>6. Stack(b)
  BY <1>3, StackOfAny
<1> QED BY <1>5, <1>6 DEF b, p, q

\* The arguments of a call, on top of its function.
LEMMA Arguments ==
    ASSUME NEW s, Stack(s)
    PROVE  /\ \A x : SubSeq(Append(s, x), Len(s) + 1, Len(s) + 1) = <<x>>
           /\ \A x, y : SubSeq(Two(s, x, y), Len(s) + 1, Len(s) + 2) = <<x, y>>
           /\ \A x, y, z : SubSeq(Three(s, x, y, z), Len(s) + 1, Len(s) + 3) = <<x, y, z>>
<1> DEFINE n == Len(s)
<1>1. n \in Nat
  BY StackIs
<1>2. ASSUME NEW x PROVE SubSeq(Append(s, x), n + 1, n + 1) = <<x>>
  <2> DEFINE a == Append(s, x)
             b == SubSeq(a, n + 1, n + 1)
  <2>1. Stack(a) /\ Len(a) = n + 1 /\ a[n + 1] = x
    BY PushedIs
  <2> HIDE DEF a, n
  <2>2. Stack(b) /\ Len(b) = 1 /\ \A j \in 1..1 : b[j] = a[n + j]
    <3> DEFINE k == 1
    <3>1. Stack(a) /\ n \in Nat /\ k \in Nat /\ Len(a) = n + k
      BY <1>1, <2>1
    <3> HIDE DEF k
    <3>2. /\ Stack(SubSeq(a, n + 1, n + k)) /\ Len(SubSeq(a, n + 1, n + k)) = k
          /\ \A j \in 1..k : SubSeq(a, n + 1, n + k)[j] = a[n + j]
      BY <3>1, TopPart
    <3> QED BY <3>2 DEF k
  <2> HIDE DEF b
  <2>3. b[1] = x
    BY <2>1, <2>2
  <2>4. PICK S : b \in Seq(S)
    BY <2>2 DEF Stack
  <2>5. b = <<x>>
    BY <2>2, <2>3, <2>4, ShortStacks
  <2> QED BY <2>5 DEF a, b, n
<1>3. ASSUME NEW x, NEW y PROVE SubSeq(Two(s, x, y), n + 1, n + 2) = <<x, y>>
  <2> DEFINE a == Two(s, x, y)
             b == SubSeq(a, n + 1, n + 2)
  <2>1. Stack(a) /\ Len(a) = n + 2 /\ a[n + 1] = x /\ a[n + 2] = y
    BY TwoIs
  <2> HIDE DEF a, n
  <2>2. Stack(b) /\ Len(b) = 2 /\ \A j \in 1..2 : b[j] = a[n + j]
    <3> DEFINE k == 2
    <3>1. Stack(a) /\ n \in Nat /\ k \in Nat /\ Len(a) = n + k
      BY <1>1, <2>1
    <3> HIDE DEF k
    <3>2. /\ Stack(SubSeq(a, n + 1, n + k)) /\ Len(SubSeq(a, n + 1, n + k)) = k
          /\ \A j \in 1..k : SubSeq(a, n + 1, n + k)[j] = a[n + j]
      BY <3>1, TopPart
    <3> QED BY <3>2 DEF k
  <2> HIDE DEF b
  <2>3. b[1] = x /\ b[2] = y
    BY <2>1, <2>2
  <2>4. PICK S : b \in Seq(S)
    BY <2>2 DEF Stack
  <2>5. b = <<x, y>>
    BY <2>2, <2>3, <2>4, ShortStacks
  <2> QED BY <2>5 DEF a, b, n
<1>4. ASSUME NEW x, NEW y, NEW z PROVE SubSeq(Three(s, x, y, z), n + 1, n + 3) = <<x, y, z>>
  <2> DEFINE a == Three(s, x, y, z)
             b == SubSeq(a, n + 1, n + 3)
  <2>1. Stack(a) /\ Len(a) = n + 3 /\ a[n + 1] = x /\ a[n + 2] = y /\ a[n + 3] = z
    BY ThreeIs
  <2> HIDE DEF a, n
  <2>2. Stack(b) /\ Len(b) = 3 /\ \A j \in 1..3 : b[j] = a[n + j]
    <3> DEFINE k == 3
    <3>1. Stack(a) /\ n \in Nat /\ k \in Nat /\ Len(a) = n + k
      BY <1>1, <2>1
    <3> HIDE DEF k
    <3>2. /\ Stack(SubSeq(a, n + 1, n + k)) /\ Len(SubSeq(a, n + 1, n + k)) = k
          /\ \A j \in 1..k : SubSeq(a, n + 1, n + k)[j] = a[n + j]
      BY <3>1, TopPart
    <3> QED BY <3>2 DEF k
  <2> HIDE DEF b
  <2>3. b[1] = x /\ b[2] = y /\ b[3] = z
    BY <2>1, <2>2
  <2>4. PICK S : b \in Seq(S)
    BY <2>2 DEF Stack
  <2>5. b = <<x, y, z>>
    BY <2>2, <2>3, <2>4, ShortStacks
  <2> QED BY <2>5 DEF a, b, n
<1> QED BY <1>2, <1>3, <1>4 DEF n

\* A chunk called with two or three arguments.
LEMMA TwoArguments ==
    ASSUME NEW s, Stack(s), NEW t, NEW r, NEW chunk, NEW x, NEW y,
           t[Registry][chunk] \in {NilValue, ChunkFunction(chunk)}
    PROVE  compat53_call_lua(Mach(Two(s, x, y), t, r), chunk, 2)
           = Mach(Append(s, Evaluated(ChunkFunction(chunk), <<x, y>>)), Cached(t, chunk), r)
<1> DEFINE f == ChunkFunction(chunk)
           t2 == Cached(t, chunk)
           u == Two(s, x, y)
           v == Three(s, f, x, y)
           w == Append(s, f)
           m == Mach(v, t2, r)
           n == Len(s)
<1>1. Stack(u) /\ Stack(w) /\ Len(w) = n + 1 /\ n \in Nat
  BY TwoIs, PushedIs, StackIs
<1>2. compat53_call_lua(Mach(u, t, r), chunk, 2) = Call(Insert(Mach(Append(u, f), t2, r), -2 - 1), 2)
  BY <1>1, FunctionPushed
<1>3. Insert(Mach(Append(u, f), t2, r), -3) = m
  <2>1. Append(u, f) = Three(s, x, y, f)
    BY DEF Three
  <2>2. Inserted(Three(s, x, y, f), -3) = v
    BY InsertsUnder
  <2>3. Insert(Mach(Append(u, f), t2, r), -3) = Mach(Inserted(Append(u, f), -3), t2, r)
    BY MachineOps
  <2> HIDE DEF u, v, f, t2
  <2> QED BY <2>1, <2>2, <2>3
<1>4. /\ m.stk = v /\ Len(v) = n + 3 /\ At(v, -3) = f
      /\ Pop(m, 3) = Mach(s, t2, r)
  <2>1. Popped(v, 3) = s /\ At(v, -3) = f
    BY ThreeOnTop
  <2>2. Pop(m, 3) = Mach(Popped(v, 3), t2, r)
    BY MachineOps
  <2> HIDE DEF f, t2
  <2>3. Len(v) = n + 3 /\ m.stk = v
    BY ThreeIs, Parts
  <2> HIDE DEF v
  <2> QED BY <2>1, <2>2, <2>3
<1>5. SubSeq(v, n + 2, n + 3) = <<x, y>>
  <2>1. v = Two(w, x, y)
    BY DEF Three, Two
  <2>2. SubSeq(Two(w, x, y), Len(w) + 1, Len(w) + 2) = <<x, y>>
    BY <1>1, Arguments
  <2> HIDE DEF v, w, n
  <2>3. Len(w) + 1 = n + 2 /\ Len(w) + 2 = n + 3
    BY <1>1
  <2> QED BY <2>1, <2>2, <2>3
<1>6. Call(m, 2) = Push(Pop(m, 3), Evaluated(f, <<x, y>>))
  <2>1. Call(m, 2) = Push(Pop(m, 2 + 1), Evaluated(At(m.stk, -2 - 1),
                          SubSeq(m.stk, Len(m.stk) - 2 + 1, Len(m.stk))))
    BY DEF Call
  <2> HIDE DEF m, v, n, f
  <2>2. n + 3 - 2 + 1 = n + 2 /\ 2 + 1 = 3 /\ -2 - 1 = -3
    BY <1>1
  <2>3. SubSeq(m.stk, Len(m.stk) - 2 + 1, Len(m.stk)) = <<x, y>>
    BY <1>1, <1>4, <1>5, <2>2
  <2>4. At(m.stk, -2 - 1) = f
    BY <1>4, <2>2
  <2>5. Pop(m, 2 + 1) = Pop(m, 3)
    BY <2>2
  <2> QED BY <2>1, <2>3, <2>4, <2>5
<1>7. Push(Mach(s, t2, r), Evaluated(f, <<x, y>>)) = Mach(Append(s, Evaluated(f, <<x, y>>)), t2, r)
  BY MachineOps
<1>8. -2 - 1 = -3
  OBVIOUS
<1> HIDE DEF m, u, f, t2
<1>9. compat53_call_lua(Mach(u, t, r), chunk, 2) = Mach(Append(s, Evaluated(f, <<x, y>>)), t2, r)
  BY <1>2, <1>3, <1>4, <1>6, <1>7, <1>8
<1> QED BY <1>9 DEF u, f, t2

\* The same with the three arguments of lua_arith.
LEMMA ThreeArguments ==
    ASSUME NEW s, Stack(s), NEW t, NEW r, NEW chunk, NEW x, NEW y, NEW z,
           t[Registry][chunk] \in {NilValue, ChunkFunction(chunk)}
    PROVE  compat53_call_lua(Mach(Three(s, x, y, z), t, r), chunk, 3)
           = Mach(Append(s, Evaluated(ChunkFunction(chunk), <<x, y, z>>)), Cached(t, chunk), r)
<1> DEFINE f == ChunkFunction(chunk)
           t2 == Cached(t, chunk)
           u == Three(s, x, y, z)
           v == Four(s, f, x, y, z)
           w == Append(s, f)
           m == Mach(v, t2, r)
           n == Len(s)
<1>1. Stack(u) /\ Stack(w) /\ Len(w) = n + 1 /\ n \in Nat
  BY ThreeIs, PushedIs, StackIs
<1>2. compat53_call_lua(Mach(u, t, r), chunk, 3) = Call(Insert(Mach(Append(u, f), t2, r), -3 - 1), 3)
  BY <1>1, FunctionPushed
<1>3. Insert(Mach(Append(u, f), t2, r), -4) = m
  <2>1. Append(u, f) = Four(s, x, y, z, f)
    BY DEF Four
  <2>2. Inserted(Four(s, x, y, z, f), -4) = v
    BY InsertsUnder
  <2>3. Insert(Mach(Append(u, f), t2, r), -4) = Mach(Inserted(Append(u, f), -4), t2, r)
    BY MachineOps
  <2> HIDE DEF u, v, f, t2
  <2> QED BY <2>1, <2>2, <2>3
<1>4. /\ m.stk = v /\ Len(v) = n + 4 /\ At(v, -4) = f
      /\ Pop(m, 4) = Mach(s, t2, r)
  <2> HIDE DEF f, t2
  <2>3. m.stk = v
    BY Parts
  <2>4. Stack(v) /\ Len(v) = n + 4 /\ v[n + 1] = f /\ \A j \in 1..n : v[j] = s[j]
    BY FourIs
  <2>2. Pop(m, 4) = Mach(Popped(v, 4), t2, r)
    BY MachineOps
  <2> HIDE DEF v, m
  <2>1. Popped(v, 4) = s
    BY <1>1, <2>4, PoppedSame
  <2>5. At(v, -4) = f
    <3> HIDE DEF n
    <3> QED BY <1>1, <2>4 DEF At, Slot
  <2> QED BY <2>1, <2>2, <2>3, <2>4, <2>5
<1>5. SubSeq(v, n + 2, n + 4) = <<x, y, z>>
  <2>1. v = Three(w, x, y, z)
    BY DEF Four, Three, Two
  <2> HIDE DEF v, w, n
  <2>2. SubSeq(Three(w, x, y, z), Len(w) + 1, Len(w) + 3) = <<x, y, z>>
    BY <1>1, Arguments
  <2>3. Len(w) + 1 = n + 2 /\ Len(w) + 3 = n + 4
    BY <1>1
  <2> QED BY <2>1, <2>2, <2>3
<1>6. Call(m, 3) = Push(Pop(m, 4), Evaluated(f, <<x, y, z>>))
  <2>1. Call(m, 3) = Push(Pop(m, 3 + 1), Evaluated(At(m.stk, -3 - 1),
                          SubSeq(m.stk, Len(m.stk) - 3 + 1, Len(m.stk))))
    BY DEF Call
  <2> HIDE DEF m, v, n, f
  <2>2. n + 4 - 3 + 1 = n + 2 /\ 3 + 1 = 4 /\ -3 - 1 = -4
    BY <1>1
  <2>3. SubSeq(m.stk, Len(m.stk) - 3 + 1, Len(m.stk)) = <<x, y, z>>
    BY <1>1, <1>4, <1>5, <2>2
  <2>4. At(m.stk, -3 - 1) = f
    BY <1>4, <2>2
  <2>5. Pop(m, 3 + 1) = Pop(m, 4)
    BY <2>2
  <2> QED BY <2>1, <2>3, <2>4, <2>5
<1>7. Push(Mach(s, t2, r), Evaluated(f, <<x, y, z>>)) = Mach(Append(s, Evaluated(f, <<x, y, z>>)), t2, r)
  BY MachineOps
<1>8. -3 - 1 = -4
  OBVIOUS
<1> HIDE DEF m, u, f, t2
<1>9. compat53_call_lua(Mach(u, t, r), chunk, 3) = Mach(Append(s, Evaluated(f, <<x, y, z>>)), t2, r)
  BY <1>2, <1>3, <1>4, <1>6, <1>7, <1>8
<1> QED BY <1>9 DEF u, f, t2

\* What calls of chunks leave in the registry.
Keeps(m, chunk) == [m EXCEPT !.tab = Cached(m.tab, chunk)]

\* What remains of a chunk's call is its function in the registry.
LEMMA KeepsIs ==
    ASSUME NEW s, NEW t, NEW r, NEW chunk
    PROVE  Keeps(Mach(s, t, r), chunk) = Mach(s, Cached(t, chunk), r)
BY Parts DEF Keeps, Mach

\* lua_compare.
LEMMA ComparesRight ==
    ASSUME NEW s, Small(s), NEW t, NEW r, NEW i, Index53(s, i), NEW j, Index53(s, j),
           t[Registry]["compare"] \in {NilValue, ChunkFunction("compare")}
    PROVE  lua_compare(Mach(s, t, r), i, j)
           = Keeps(Returns(Mach(s, t, r),
                           <<"le", Object(Mach(s, t, r), i), Object(Mach(s, t, r), j)>>), "compare")
<1> DEFINE m == Mach(s, t, r)
           a == lua_absindex(m, i)
           b == lua_absindex(m, j)
           x == Object(m, i)
           y == Object(m, j)
           t2 == Cached(t, "compare")
           le == <<"le", x, y>>
           m2 == Mach(Append(s, le), t2, r)
<1>1. Stack(s) /\ Place(s, i) /\ Place(s, j)
  BY AbsoluteIs DEF Small
<1>2. Pushvalue(m, a) = Mach(Append(s, x), t, r)
  <2>1. Object(m, a) = x
    BY <1>1, PushedExtends, AbsoluteStays
  <2>2. Pushvalue(m, a) = Mach(Append(s, Object(m, a)), t, r)
    BY PushvalueIs
  <2> HIDE DEF a, x
  <2> QED BY <2>1, <2>2
<1>3. Pushvalue(Mach(Append(s, x), t, r), b) = Mach(Two(s, x, y), t, r)
  <2>1. Stack(Append(s, x)) /\ Extends(s, Append(s, x))
    BY <1>1, PushedExtends
  <2>2. Object(Mach(Append(s, x), t, r), b) = y
    BY <1>1, <2>1, AbsoluteStays
  <2>3. Pushvalue(Mach(Append(s, x), t, r), b)
        = Mach(Append(Append(s, x), Object(Mach(Append(s, x), t, r), b)), t, r)
    BY PushvalueIs
  <2> HIDE DEF b, x, y
  <2> QED BY <2>2, <2>3 DEF Two
<1>4. compat53_call_lua(Mach(Two(s, x, y), t, r), "compare", 2) = m2
  <2>1. Evaluated(ChunkFunction("compare"), <<x, y>>) = le
    BY DEF Evaluated, ChunkFunction
  <2> HIDE DEF x, y, t2, le
  <2>2. compat53_call_lua(Mach(Two(s, x, y), t, r), "compare", 2)
        = Mach(Append(s, Evaluated(ChunkFunction("compare"), <<x, y>>)), t2, r)
    BY <1>1, TwoArguments DEF t2
  <2> QED BY <2>1, <2>2
<1>5. Pop(Returns(m2, Top(m2)), 1) = Mach(s, t2, le)
  <2> HIDE DEF le, t2
  <2>1. Top(m2) = le /\ Popped(Append(s, le), 1) = s
    BY <1>1, Parts, OneOnTop
  <2>2. Returns(m2, le) = Mach(Append(s, le), t2, le)
    BY MachineOps
  <2>3. Pop(Mach(Append(s, le), t2, le), 1) = Mach(Popped(Append(s, le), 1), t2, le)
    BY MachineOps
  <2> HIDE DEF m2
  <2> QED BY <2>1, <2>2, <2>3
<1>6. Returns(m, le) = Mach(s, t, le)
  BY MachineOps
<1>7. Keeps(Mach(s, t, le), "compare") = Mach(s, t2, le)
  BY KeepsIs
<1>8. lua_compare(m, i, j)
      = Pop(Returns(compat53_call_lua(Pushvalue(Pushvalue(m, a), b), "compare", 2),
                    Top(compat53_call_lua(Pushvalue(Pushvalue(m, a), b), "compare", 2))), 1)
  BY DEF lua_compare
<1> HIDE DEF m, a, b, t2, le, m2, x, y
<1>9. lua_compare(m, i, j) = Keeps(Returns(m, le), "compare")
  BY <1>2, <1>3, <1>4, <1>5, <1>6, <1>7, <1>8
<1> QED BY <1>9 DEF m, le, x, y

\* A stack that is not empty is what is on top and what is below it.
LEMMA AsPushed ==
    ASSUME NEW s, Stack(s), Len(s) > 0
    PROVE  /\ Stack(Popped(s, 1)) /\ Len(Popped(s, 1)) = Len(s) - 1
           /\ s = Append(Popped(s, 1), s[Len(s)])
<1> DEFINE n == Len(s)
           v == s[n]
           s0 == Popped(s, 1)
           b == Append(s0, v)
<1>1. n \in Nat /\ n > 0 /\ 1 \in 0..n
  BY StackIs
<1>2. Stack(s0) /\ Len(s0) = n - 1 /\ \A j \in 1..(n - 1) : s0[j] = s[j]
  BY <1>1, PoppedTop
<1> HIDE DEF s0
<1>3. Stack(b) /\ Len(b) = n /\ (\A j \in 1..(n - 1) : b[j] = s[j]) /\ b[n] = s[n]
  BY <1>1, <1>2, PushedIs
<1> HIDE DEF b
<1>4. s = b
  BY <1>1, <1>3, SameStack
<1> QED BY <1>2, <1>4 DEF b, s0

\* The operator before its operands, one or two.
LEMMA OperatorPut ==
    ASSUME NEW op, NEW x, NEW y
    PROVE  <<op>> \o <<x>> = <<op, x>> /\ <<op>> \o <<x, y>> = <<op, x, y>>
<1> DEFINE S == {op, x, y}
           a == <<op>>
           b == <<x>>
           c == <<x, y>>
           d == a \o b
           e == a \o c
<1>1. a \in Seq(S) /\ b \in Seq(S) /\ c \in Seq(S)
  OBVIOUS
<1>2. Len(a) = 1 /\ Len(b) = 1 /\ Len(c) = 2 /\ a[1] = op /\ b[1] = x /\ c[1] = x /\ c[2] = y
  OBVIOUS
<1> HIDE DEF a, b, c, S
<1>3. d \in Seq(S) /\ Len(d) = 2 /\ d[1] = op /\ d[2] = x
  <2>1. /\ d \in Seq(S) /\ Len(d) = Len(a) + Len(b)
        /\ \A j \in 1..Len(a) : d[j] = a[j]
        /\ \A j \in (Len(a) + 1)..(Len(a) + Len(b)) : d[j] = b[j - Len(a)]
    BY <1>1, JoinOf
  <2> QED BY <1>2, <2>1
<1>4. e \in Seq(S) /\ Len(e) = 3 /\ e[1] = op /\ e[2] = x /\ e[3] = y
  <2>1. /\ e \in Seq(S) /\ Len(e) = Len(a) + Len(c)
        /\ \A j \in 1..Len(a) : e[j] = a[j]
        /\ \A j \in (Len(a) + 1)..(Len(a) + Len(c)) : e[j] = c[j - Len(a)]
    BY <1>1, JoinOf
  <2> QED BY <1>2, <2>1
<1> HIDE DEF d, e
<1>5. d = <<op, x>> /\ e = <<op, x, y>>
  BY <1>3, <1>4, ShortStacks
<1> QED BY <1>5 DEF a, b, c, d, e

\* lua_arith.
LEMMA ComputesRight ==
    ASSUME NEW s, Stack(s), NEW t, NEW r, Len(s) > 1, NEW op \in {"add", "unm"},
           t[Registry]["arith"] \in {NilValue, ChunkFunction("arith")}
    PROVE  lua_arith(Mach(s, t, r), op) = Keeps(Arith(Mach(s, t, r), op), "arith")
<1> DEFINE m == Mach(s, t, r)
           n == Len(s)
           s1 == Popped(s, 1)
           s0 == Popped(s1, 1)
           y == s[n]
           x == s1[Len(s1)]
           f == ChunkFunction("arith")
           t2 == Cached(t, "arith")
<1>1. n \in Nat /\ n > 1
  BY StackIs
<1>2. Stack(s1) /\ Len(s1) = n - 1 /\ s = Append(s1, y)
  BY <1>1, AsPushed
<1>3. Stack(s0) /\ Len(s0) = n - 2 /\ s1 = Append(s0, x)
  <2> HIDE DEF s1, n
  <2>1. Len(s1) > 0
    BY <1>1, <1>2
  <2> QED BY <1>1, <1>2, <2>1, AsPushed
<1>4. s = Two(s0, x, y)
  <2> HIDE DEF s0, s1, x, y
  <2> QED BY <1>2, <1>3 DEF Two
<1>5. m.stk = s
  BY Parts
<1> HIDE DEF m, n, s1, s0, y, x, t2
<1>6. CASE op = "add"
  <2> DEFINE v == <<"add", x, y>>
  <2>1. Push(m, "add") = Mach(Three(s0, x, y, "add"), t, r)
    <3>1. Push(m, "add") = Mach(Append(s, "add"), t, r)
      BY MachineOps DEF m
    <3> QED BY <1>4, <3>1 DEF Three
  <2>2. Inserted(Three(s0, x, y, "add"), -3) = Three(s0, "add", x, y)
    BY <1>3, InsertsUnder
  <2>3. Insert(Mach(Three(s0, x, y, "add"), t, r), -3)
        = Mach(Inserted(Three(s0, x, y, "add"), -3), t, r)
    BY MachineOps
  <2>4. compat53_call_lua(Mach(Three(s0, "add", x, y), t, r), "arith", 3)
        = Mach(Append(s0, Evaluated(f, v)), t2, r)
    BY <1>3, ThreeArguments DEF t2
  <2>5. Evaluated(f, v) = v
    BY DEF Evaluated, ChunkFunction
  <2>6. lua_arith(m, op) = compat53_call_lua(Insert(Push(m, "add"), -3), "arith", 3)
    BY <1>6 DEF lua_arith
  <2>7. Arith(m, op) = Mach(Append(s0, v), t, r)
    <3>1. Pop(m, 2) = Mach(s0, t, r)
      <4>1. Pop(m, 2) = Mach(Popped(s, 2), t, r)
        BY MachineOps DEF m
      <4>2. Popped(Two(s0, x, y), 2) = s0
        BY <1>3, TwoOnTop
      <4> QED BY <1>4, <4>1, <4>2
    <3>2. SubSeq(s, n - 1, n) = <<x, y>>
      <4>1. SubSeq(Two(s0, x, y), Len(s0) + 1, Len(s0) + 2) = <<x, y>>
        BY <1>3, Arguments
      <4>2. Len(s0) + 1 = n - 1 /\ Len(s0) + 2 = n
        BY <1>1, <1>3
      <4> QED BY <1>4, <4>1, <4>2
    <3>3. <<op>> \o <<x, y>> = v
      BY <1>6, OperatorPut
    <3>4. Arith(m, op) = Push(Pop(m, 2), <<op>> \o SubSeq(s, n - 2 + 1, n))
      BY <1>5, <1>6 DEF Arith, n
    <3>5. n - 2 + 1 = n - 1
      BY <1>1
    <3>6. Push(Mach(s0, t, r), v) = Mach(Append(s0, v), t, r)
      BY MachineOps
    <3> HIDE DEF v
    <3> QED BY <3>1, <3>2, <3>3, <3>4, <3>5, <3>6
  <2>8. Keeps(Mach(Append(s0, v), t, r), "arith") = Mach(Append(s0, v), t2, r)
    BY KeepsIs DEF t2
  <2> HIDE DEF v, f
  <2> QED BY <2>1, <2>2, <2>3, <2>4, <2>5, <2>6, <2>7, <2>8 DEF m
<1>7. CASE op = "unm"
  <2> DEFINE v == <<"unm", y>>
  <2>1. Pushvalue(m, -1) = Mach(Two(s1, y, y), t, r)
    <3>1. Pushvalue(m, -1) = Mach(Append(s, Object(m, -1)), t, r)
      BY PushvalueIs DEF m
    <3>2. Object(m, -1) = IF -1 = RegistryIndex THEN Registry ELSE At(s, -1)
      BY MachineOps DEF m
    <3>3. At(Append(s1, y), -1) = y
      BY <1>2, OneOnTop
    <3>4. Object(m, -1) = y
      BY <1>2, <3>2, <3>3 DEF RegistryIndex
    <3> QED BY <1>2, <3>1, <3>4 DEF Two
  <2>2. Push(Mach(Two(s1, y, y), t, r), "unm") = Mach(Three(s1, y, y, "unm"), t, r)
    <3>1. Push(Mach(Two(s1, y, y), t, r), "unm") = Mach(Append(Two(s1, y, y), "unm"), t, r)
      BY MachineOps
    <3> QED BY <3>1 DEF Three
  <2>3. Inserted(Three(s1, y, y, "unm"), -3) = Three(s1, "unm", y, y)
    BY <1>2, InsertsUnder
  <2>4. Insert(Mach(Three(s1, y, y, "unm"), t, r), -3)
        = Mach(Inserted(Three(s1, y, y, "unm"), -3), t, r)
    BY MachineOps
  <2>5. compat53_call_lua(Mach(Three(s1, "unm", y, y), t, r), "arith", 3)
        = Mach(Append(s1, Evaluated(f, <<"unm", y, y>>)), t2, r)
    BY <1>2, ThreeArguments DEF t2
  <2>6. Evaluated(f, <<"unm", y, y>>) = v
    BY DEF Evaluated, ChunkFunction
  <2>7. lua_arith(m, op) = compat53_call_lua(Insert(Push(Pushvalue(m, -1), "unm"), -3), "arith", 3)
    BY <1>7 DEF lua_arith
  <2>8. Arith(m, op) = Mach(Append(s1, v), t, r)
    <3>1. Pop(m, 1) = Mach(s1, t, r)
      <4>1. Pop(m, 1) = Mach(Popped(s, 1), t, r)
        BY MachineOps DEF m
      <4> QED BY <4>1 DEF s1
    <3>2. SubSeq(s, n, n) = <<y>>
      <4>1. SubSeq(Append(s1, y), Len(s1) + 1, Len(s1) + 1) = <<y>>
        BY <1>2, Arguments
      <4>2. Len(s1) + 1 = n
        BY <1>1, <1>2
      <4> QED BY <1>2, <4>1, <4>2
    <3>3. <<op>> \o <<y>> = v
      BY <1>7, OperatorPut
    <3>4. Arith(m, op) = Push(Pop(m, 1), <<op>> \o SubSeq(s, n - 1 + 1, n))
      BY <1>5, <1>7 DEF Arith, n
    <3>5. n - 1 + 1 = n
      BY <1>1
    <3>6. Push(Mach(s1, t, r), v) = Mach(Append(s1, v), t, r)
      BY MachineOps
    <3> HIDE DEF v
    <3> QED BY <3>1, <3>2, <3>3, <3>4, <3>5, <3>6
  <2>9. Keeps(Mach(Append(s1, v), t, r), "arith") = Mach(Append(s1, v), t2, r)
    BY KeepsIs DEF t2
  <2> HIDE DEF v, f
  <2> QED BY <2>1, <2>2, <2>3, <2>4, <2>5, <2>6, <2>7, <2>8, <2>9 DEF m
<1> QED BY <1>6, <1>7 DEF m

-----------------------------------------------------------------------------
(* Tables.                                                                 *)

Cell == Key \cup {LoadedKey} \cup Chunk

Tables(t) ==
    /\ t = [x \in DOMAIN t |-> t[x]]
    /\ \A x \in DOMAIN t : t[x] = [k \in Cell |-> t[x][k]]
    /\ Registry \in DOMAIN t /\ Globals53 \in DOMAIN t

\* A store changes one key of one table.
LEMMA PutIs ==
    ASSUME NEW t, Tables(t), NEW a \in DOMAIN t, NEW k \in Cell, NEW v
    PROVE  /\ Tables(Put(t, a, k, v)) /\ DOMAIN Put(t, a, k, v) = DOMAIN t
           /\ \A x \in DOMAIN t : \A j \in Cell :
                 Put(t, a, k, v)[x][j] = IF x = a /\ j = k THEN v ELSE t[x][j]
<1> DEFINE p == Put(t, a, k, v)
           c == [t[a] EXCEPT ![k] = v]
<1>1. c = [j \in Cell |-> IF j = k THEN v ELSE t[a][j]]
  <2>1. t[a] = [j \in Cell |-> t[a][j]]
    BY DEF Tables
  <2> DEFINE g == t[a]
  <2>2. g = [j \in Cell |-> g[j]]
    BY <2>1
  <2> HIDE DEF g
  <2>3. [g EXCEPT ![k] = v] = [j \in Cell |-> IF j = k THEN v ELSE g[j]]
    BY <2>2
  <2> QED BY <2>3 DEF g
<1> HIDE DEF c
<1>2. p = [x \in DOMAIN t |-> IF x = a THEN c ELSE t[x]]
  BY DEF Put, Tables, c
<1> HIDE DEF p
<1>3. DOMAIN p = DOMAIN t /\ \A x \in DOMAIN t : p[x] = IF x = a THEN c ELSE t[x]
  BY <1>2
<1>4. p = [x \in DOMAIN p |-> p[x]]
  BY <1>2
<1>5. \A x \in DOMAIN t : p[x] = [j \in Cell |-> p[x][j]]
  <2> SUFFICES ASSUME NEW x \in DOMAIN t PROVE p[x] = [j \in Cell |-> p[x][j]]
    OBVIOUS
  <2>1. CASE x = a
    <3>1. p[x] = c /\ c = [j \in Cell |-> c[j]]
      BY <1>1, <1>3, <2>1
    <3> QED BY <3>1
  <2>2. CASE x # a
    <3>1. p[x] = t[x]
      BY <1>3, <2>2
    <3> QED BY <3>1 DEF Tables
  <2> QED BY <2>1, <2>2
<1>6. Tables(p)
  BY <1>3, <1>4, <1>5 DEF Tables
<1>7. ASSUME NEW x \in DOMAIN t, NEW j \in Cell
      PROVE  p[x][j] = IF x = a /\ j = k THEN v ELSE t[x][j]
  BY <1>1, <1>3
<1> QED BY <1>3, <1>6, <1>7 DEF p

\* Two states of the tables are the same when each key of each table is.
LEMMA SameTables ==
    ASSUME NEW t, Tables(t), NEW u, Tables(u), DOMAIN t = DOMAIN u,
           \A x \in DOMAIN t : \A j \in Cell : t[x][j] = u[x][j]
    PROVE  t = u
<1>1. \A x \in DOMAIN t : t[x] = u[x]
  <2> SUFFICES ASSUME NEW x \in DOMAIN t PROVE t[x] = u[x]
    OBVIOUS
  <2>1. t[x] = [k \in Cell |-> t[x][k]] /\ u[x] = [k \in Cell |-> u[x][k]]
    BY DEF Tables
  <2>2. [k \in Cell |-> t[x][k]] = [k \in Cell |-> u[x][k]]
    OBVIOUS
  <2> QED BY <2>1, <2>2
<1>2. t = [x \in DOMAIN t |-> t[x]] /\ u = [x \in DOMAIN t |-> u[x]]
  BY DEF Tables
<1>3. [x \in DOMAIN t |-> t[x]] = [x \in DOMAIN t |-> u[x]]
  BY <1>1
<1> QED BY <1>2, <1>3

\* Storing what is there already.
LEMMA PutSame ==
    ASSUME NEW t, Tables(t), NEW a \in DOMAIN t, NEW k \in Cell
    PROVE  Put(t, a, k, t[a][k]) = t
<1> DEFINE p == Put(t, a, k, t[a][k])
<1>1. /\ Tables(p) /\ DOMAIN p = DOMAIN t
      /\ \A x \in DOMAIN t : \A j \in Cell :
            p[x][j] = IF x = a /\ j = k THEN t[a][k] ELSE t[x][j]
  BY PutIs
<1> HIDE DEF p
<1>2. \A x \in DOMAIN p : \A j \in Cell : p[x][j] = t[x][j]
  BY <1>1
<1>3. p = t
  BY <1>1, <1>2, SameTables
<1> QED BY <1>3 DEF p

\* A new table is empty and leaves the others alone.
LEMMA WithIs ==
    ASSUME NEW t, Tables(t), \E x \in TableObject : x \notin DOMAIN t
    PROVE  /\ Unused(t) \in TableObject /\ Unused(t) \notin DOMAIN t
           /\ Tables(With(t, Unused(t))) /\ DOMAIN With(t, Unused(t)) = DOMAIN t \cup {Unused(t)}
           /\ \A x \in DOMAIN t : With(t, Unused(t))[x] = t[x]
           /\ With(t, Unused(t))[Unused(t)] = Empty
<1> DEFINE a == Unused(t)
           w == With(t, a)
<1>1. a \in TableObject /\ a \notin DOMAIN t
  BY DEF Unused
<1> HIDE DEF a
<1>2. /\ DOMAIN w = DOMAIN t \cup {a} /\ w = [x \in DOMAIN w |-> w[x]]
      /\ w[a] = Empty /\ \A x \in DOMAIN t : w[x] = t[x]
  BY <1>1 DEF With
<1> HIDE DEF w
<1>3. \A x \in DOMAIN w : w[x] = [k \in Cell |-> w[x][k]]
  <2>1. Empty = [k \in Cell |-> Empty[k]]
    BY DEF Empty, Cell
  <2> SUFFICES ASSUME NEW x \in DOMAIN w PROVE w[x] = [k \in Cell |-> w[x][k]]
    OBVIOUS
  <2>2. CASE x = a
    BY <1>2, <2>1, <2>2
  <2>3. CASE x \in DOMAIN t
    <3>1. w[x] = t[x] /\ t[x] = [k \in Cell |-> t[x][k]]
      BY <1>2, <2>3 DEF Tables
    <3> QED BY <3>1
  <2> QED BY <1>2, <2>2, <2>3
<1>4. Tables(w)
  BY <1>2, <1>3 DEF Tables
<1> QED BY <1>1, <1>2, <1>4 DEF a, w

\* The table of loaded modules, which luaL_requiref makes if there is none.
LoadedFrom(t) == IF t[Registry][LoadedKey] \in DOMAIN t THEN t[Registry][LoadedKey] ELSE Unused(t)
WithLoaded(t) ==
    IF t[Registry][LoadedKey] \in DOMAIN t THEN t
    ELSE Put(With(t, Unused(t)), Registry, LoadedKey, Unused(t))

\* luaL_getsubtable finds the table of the loaded modules, or makes it.
LEMMA LoadedIs ==
    ASSUME NEW s, Stack(s), NEW t, Tables(t), NEW r, \E x \in TableObject : x \notin DOMAIN t
    PROVE  /\ \E b : Subtable(Mach(s, t, r), RegistryIndex, LoadedKey)
                     = Mach(Append(s, LoadedFrom(t)), WithLoaded(t), b)
           /\ Tables(WithLoaded(t)) /\ DOMAIN t \subseteq DOMAIN WithLoaded(t)
           /\ LoadedFrom(t) \in DOMAIN WithLoaded(t)
           /\ WithLoaded(t)[Registry][LoadedKey] = LoadedFrom(t)
<1> DEFINE m == Mach(s, t, r)
           x == t[Registry][LoadedKey]
           n == Unused(t)
           w == With(t, n)
           p == Put(w, Registry, LoadedKey, n)
           m1 == Mach(Append(s, n), w, r)
<1>1. m.tab = t /\ Object(m, RegistryIndex) = Registry /\ Newtable(m) = m1 /\ Top(m1) = n
  BY Parts, MachineOps, NewtableIs, OneOnTop
<1>2. Subtable(m, RegistryIndex, LoadedKey)
      = IF x \in DOMAIN t THEN Returns(Push(m, x), 1)
        ELSE Returns(Stored(m1, Registry, LoadedKey, n), 0)
  BY <1>1 DEF Subtable
<1>3. Returns(Push(m, x), 1) = Mach(Append(s, x), t, 1)
  <2>1. Push(m, x) = Mach(Append(s, x), t, r)
    BY MachineOps
  <2>2. Returns(Mach(Append(s, x), t, r), 1) = Mach(Append(s, x), t, 1)
    BY MachineOps
  <2> QED BY <2>1, <2>2
<1>4. Returns(Stored(m1, Registry, LoadedKey, n), 0) = Mach(Append(s, n), p, 0)
  <2>1. Stored(m1, Registry, LoadedKey, n) = Mach(Append(s, n), p, r)
    BY StoredIs
  <2>2. Returns(Mach(Append(s, n), p, r), 0) = Mach(Append(s, n), p, 0)
    BY MachineOps
  <2> QED BY <2>1, <2>2
<1>5. /\ n \notin DOMAIN t /\ Tables(w) /\ DOMAIN w = DOMAIN t \cup {n}
  BY WithIs
<1>6. Registry \in DOMAIN t /\ LoadedKey \in Cell
  BY DEF Tables, Cell
<1> HIDE DEF m, m1, n, w
<1>7. /\ Tables(p) /\ DOMAIN p = DOMAIN w /\ p[Registry][LoadedKey] = n
  BY <1>5, <1>6, PutIs
<1>8. LoadedFrom(t) = (IF x \in DOMAIN t THEN x ELSE n)
      /\ WithLoaded(t) = (IF x \in DOMAIN t THEN t ELSE p)
  BY DEF LoadedFrom, WithLoaded, n, w
<1> HIDE DEF x, p
<1>9. CASE x \in DOMAIN t
  <2>1. t[Registry][LoadedKey] = x
    BY DEF x
  <2> QED BY <1>2, <1>3, <1>8, <1>9, <2>1 DEF m
<1>10. CASE x \notin DOMAIN t
  BY <1>2, <1>4, <1>5, <1>7, <1>8, <1>10 DEF m
<1> QED BY <1>9, <1>10

\* luaL_requiref, and what it leaves.
FoundModule(t, k) ==
    LET x == WithLoaded(t)[LoadedFrom(t)][k] IN IF x # NilValue THEN x ELSE Module
WithModule(t, k, glb) ==
    LET t2 == Put(WithLoaded(t), LoadedFrom(t), k, FoundModule(t, k))
    IN IF glb THEN Put(t2, Globals53, k, FoundModule(t, k)) ELSE t2

\* luaL_requiref leaves the module where the manual says, on top and in its tables.
LEMMA RequiresRight ==
    ASSUME NEW s, Small(s), NEW t, Tables(t), NEW r, \E x \in TableObject : x \notin DOMAIN t,
           NEW k \in Cell, NEW glb \in BOOLEAN
    PROVE  /\ luaL_requiref(Mach(s, t, r), k, glb) = Required(Mach(s, t, r), k, glb)
           /\ Required(Mach(s, t, r), k, glb)
              = Mach(Append(s, FoundModule(t, k)), WithModule(t, k, glb), r)
<1> DEFINE m == Mach(s, t, r)
           l == LoadedFrom(t)
           t1 == WithLoaded(t)
           x == t1[l][k]
           v == IF x # NilValue THEN x ELSE Module
           t2 == Put(t1, l, k, v)
           t3 == IF glb THEN Put(t2, Globals53, k, v) ELSE t2
<1>1. Stack(s) /\ m.ret = r
  BY Parts DEF Small
<1>2. PICK b : Subtable(m, RegistryIndex, LoadedKey) = Mach(Append(s, l), t1, b)
  BY <1>1, LoadedIs
<1>3. Tables(t1) /\ l \in DOMAIN t1 /\ t1[Registry][LoadedKey] = l
  BY <1>1, LoadedIs
<1>4. luaL_getsubtable(m, RegistryIndex, LoadedKey) = Mach(Append(s, l), t1, b)
  <2>1. luaL_getsubtable(m, RegistryIndex, LoadedKey) = Subtable(m, RegistryIndex, LoadedKey)
    BY SubtablesRight DEF Place
  <2> QED BY <1>2, <2>1
<1> DEFINE ml == Mach(Append(s, l), t1, b)
           m1 == Mach(Two(s, l, x), t1, b)
           m2 == Mach(Two(s, l, v), t2, b)
<1>5. Getfield(ml, -1, k) = m1
  <2> HIDE DEF m, t1, l
  <2>1. Object(ml, -1) = IF -1 = RegistryIndex THEN Registry ELSE At(Append(s, l), -1)
    BY MachineOps
  <2>2. At(Append(s, l), -1) = l
    BY <1>1, OneOnTop
  <2>3. Object(ml, -1) = l
    BY <2>1, <2>2 DEF RegistryIndex
  <2>4. ml.tab = t1
    BY Parts
  <2>5. Push(ml, x) = Mach(Append(Append(s, l), x), t1, b)
    BY MachineOps
  <2>6. Getfield(ml, -1, k) = Push(ml, x)
    BY <2>3, <2>4 DEF Getfield
  <2> HIDE DEF ml, x
  <2> QED BY <2>5, <2>6 DEF Two
<1>6. Top(m1) = x
  <2> HIDE DEF x, l, t1
  <2> QED BY <1>1, Parts, TwoOnTop
<1> DEFINE set == Setfield(Pushvalue(Push(Pop(m1, 1), Module), -1), -3, k)
<1>7. set = Mach(Two(s, l, Module), Put(t1, l, k, Module), b)
  <2> HIDE DEF x, l, t1
  <2>1. Pop(m1, 1) = Mach(Append(s, l), t1, b)
    <3>1. Pop(m1, 1) = Mach(Popped(Two(s, l, x), 1), t1, b)
      BY MachineOps
    <3>2. Popped(Two(s, l, x), 1) = Append(s, l)
      BY <1>1, TwoOnTop
    <3> QED BY <3>1, <3>2
  <2>2. Push(Mach(Append(s, l), t1, b), Module) = Mach(Two(s, l, Module), t1, b)
    <3>1. Push(Mach(Append(s, l), t1, b), Module) = Mach(Append(Append(s, l), Module), t1, b)
      BY MachineOps
    <3> QED BY <3>1 DEF Two
  <2> DEFINE u == Three(s, l, Module, Module)
             mu == Mach(u, t1, b)
  <2>3. Pushvalue(Mach(Two(s, l, Module), t1, b), -1) = mu
    <3> DEFINE mm == Mach(Two(s, l, Module), t1, b)
    <3>1. Object(mm, -1) = IF -1 = RegistryIndex THEN Registry ELSE At(Two(s, l, Module), -1)
      BY MachineOps
    <3>2. At(Two(s, l, Module), -1) = Module
      BY <1>1, TwoOnTop
    <3>3. Pushvalue(mm, -1) = Mach(Append(Two(s, l, Module), Object(mm, -1)), t1, b)
      BY PushvalueIs
    <3>4. Object(mm, -1) = Module
      BY <3>1, <3>2 DEF RegistryIndex
    <3> HIDE DEF mm
    <3> QED BY <3>3, <3>4 DEF Three, mm
  <2>4. At(u, -1) = Module /\ At(u, -3) = l /\ Popped(u, 1) = Two(s, l, Module)
    BY <1>1, ThreeOnTop
  <2>5. Setfield(mu, -3, k) = Stored(Pop(mu, 1), Object(mu, -3), k, Top(mu))
    BY DEF Setfield
  <2> HIDE DEF u
  <2>6. Pop(mu, 1) = Mach(Popped(u, 1), t1, b) /\ Top(mu) = At(u, -1)
    BY MachineOps, Parts
  <2>7. Object(mu, -3) = IF -3 = RegistryIndex THEN Registry ELSE At(u, -3)
    BY MachineOps
  <2>8. Object(mu, -3) = l
    BY <2>4, <2>7 DEF RegistryIndex
  <2>9. Stored(Mach(Two(s, l, Module), t1, b), l, k, Module)
        = Mach(Two(s, l, Module), Put(t1, l, k, Module), b)
    BY StoredIs
  <2> HIDE DEF m1, mu
  <2> QED BY <2>1, <2>2, <2>3, <2>4, <2>5, <2>6, <2>8, <2>9
<1>8. (IF Top(m1) # NilValue THEN m1 ELSE set) = m2
  <2>1. CASE x # NilValue
    <3>1. v = x
      BY <2>1
    <3>2. Put(t1, l, k, t1[l][k]) = t1
      BY <1>3, PutSame
    <3>3. t2 = t1
      BY <3>1, <3>2
    <3> HIDE DEF x, v, t2, t1, l
    <3> QED BY <1>6, <2>1, <3>1, <3>3
  <2>2. CASE x = NilValue
    <3>1. v = Module
      BY <2>2
    <3> HIDE DEF x, v, t1, l, set, m1
    <3> QED BY <1>6, <1>7, <2>2, <3>1
  <2> QED BY <2>1, <2>2
<1> DEFINE m3 == IF glb THEN Stored(m2, Globals53, k, Top(m2)) ELSE m2
<1>9. m3 = Mach(Two(s, l, v), t3, b)
  <2> HIDE DEF v, l, t2
  <2>1. Top(m2) = v
    BY <1>1, Parts, TwoOnTop
  <2>2. Stored(m2, Globals53, k, v) = Mach(Two(s, l, v), Put(t2, Globals53, k, v), b)
    BY StoredIs
  <2> HIDE DEF m2
  <2> QED BY <2>1, <2>2 DEF m2
<1>10. Returns(Replace(m3, -2), r) = Mach(Append(s, v), t3, r)
  <2> HIDE DEF v, l, t3, m3
  <2>1. Replace(Mach(Two(s, l, v), t3, b), -2) = Mach(Replaced(Two(s, l, v), -2), t3, b)
    BY MachineOps
  <2>2. Replaced(Two(s, l, v), -2) = Append(s, v)
    BY <1>1, ReplacesUnder
  <2>3. Returns(Mach(Append(s, v), t3, b), r) = Mach(Append(s, v), t3, r)
    BY MachineOps
  <2> QED BY <1>9, <2>1, <2>2, <2>3
<1>11. luaL_requiref(m, k, glb) = Returns(Replace(m3, -2), r)
  <2>1. Getfield(luaL_getsubtable(m, RegistryIndex, LoadedKey), -1, k) = m1
    BY <1>4, <1>5
  <2> HIDE DEF m, m1, m2
  <2> QED BY <1>1, <1>8, <2>1 DEF luaL_requiref
<1>12. Required(m, k, glb) = Mach(Append(s, v), t3, r)
  <2> HIDE DEF l, t1
  <2>1. Pop(Subtable(m, RegistryIndex, LoadedKey), 1) = Mach(s, t1, b)
    <3>1. Pop(Mach(Append(s, l), t1, b), 1) = Mach(Popped(Append(s, l), 1), t1, b)
      BY MachineOps
    <3>2. Popped(Append(s, l), 1) = s
      BY <1>1, OneOnTop
    <3> HIDE DEF m
    <3> QED BY <1>2, <3>1, <3>2
  <2>2. Mach(s, t1, b).tab = t1
    BY Parts
  <2>3. v = IF t1[l][k] = NilValue THEN Module ELSE t1[l][k]
    OBVIOUS
  <2> HIDE DEF v, x
  <2> DEFINE mv == Stored([Push(m, v) EXCEPT !.tab = t1], l, k, v)
  <2>4. mv = Mach(Append(s, v), t2, r)
    <3>1. Push(m, v) = Mach(Append(s, v), t, r)
      BY MachineOps
    <3>2. [Mach(Append(s, v), t, r) EXCEPT !.tab = t1] = Mach(Append(s, v), t1, r)
      BY DEF Mach
    <3>3. Stored(Mach(Append(s, v), t1, r), l, k, v) = Mach(Append(s, v), Put(t1, l, k, v), r)
      BY StoredIs
    <3> HIDE DEF m
    <3> QED BY <3>1, <3>2, <3>3
  <2>5. Stored(Mach(Append(s, v), t2, r), Globals53, k, v)
        = Mach(Append(s, v), Put(t2, Globals53, k, v), r)
    BY StoredIs
  <2>6. Required(m, k, glb) = IF glb THEN Stored(mv, Globals53, k, v) ELSE mv
    <3> HIDE DEF m
    <3> QED BY <1>3, <2>1, <2>2, <2>3 DEF Required
  <2> HIDE DEF m, mv, t2
  <2> QED BY <2>4, <2>5, <2>6
<1>13. v = FoundModule(t, k) /\ t3 = WithModule(t, k, glb)
  BY DEF FoundModule, WithModule
<1> HIDE DEF v, t3, m3
<1> QED BY <1>10, <1>11, <1>12, <1>13 DEF m

-----------------------------------------------------------------------------
(* Loops.                                                                  *)

\* A set of numbers up to n that holds 0 and with each the next has them all.
LEMMA RoundsAll ==
    ASSUME NEW n \in Nat, NEW T, 0 \in T, \A i \in T : i + 1 \in 1..n => i + 1 \in T
    PROVE  0..n \subseteq T
<1> DEFINE C == {i \in 0..n : i \notin T}
           R == {ij \in Nat \X Nat : ij[1] < ij[2]}
<1> SUFFICES ASSUME C # {} PROVE FALSE
  OBVIOUS
<1>1. IsWellFoundedOn(R, Nat)
  BY NatLessThanWellFounded DEF OpToRel
<1>2. C \subseteq Nat
  OBVIOUS
<1> HIDE DEF R
<1>3. PICK i \in C : \A j \in C : ~(<<j, i>> \in R)
  BY <1>1, <1>2, WFMin, Zenon
<1>4. i # 0 /\ i \in 1..n
  OBVIOUS
<1>5. i - 1 \in 0..n /\ i - 1 < i
  BY <1>4
<1>6. i - 1 \notin C
  <2>1. <<i - 1, i>> \in Nat \X Nat
    BY <1>4, <1>5
  <2>2. <<i - 1, i>> \in R
    BY <1>5, <2>1 DEF R
  <2> HIDE DEF C
  <2> QED BY <1>3, <2>2
<1> QED BY <1>4, <1>5, <1>6

\* s, the name, and k of the upvalues again.
Upvalues(s, name, nup, k) ==
    [j \in 1..(Len(s) + 1 + k) |->
        IF j <= Len(s) THEN s[j] ELSE IF j = Len(s) + 1 THEN name ELSE s[j - nup - 1]]

\* The slots after k upvalues were copied, above the name.
LEMMA UpvaluesAre ==
    ASSUME NEW s, Stack(s), NEW name, NEW nup \in 0..Len(s), NEW k \in 0..nup
    PROVE  /\ Stack(Upvalues(s, name, nup, k)) /\ Len(Upvalues(s, name, nup, k)) = Len(s) + 1 + k
           /\ \A j \in 1..(Len(s) + 1 + k) : Upvalues(s, name, nup, k)[j]
                 = IF j <= Len(s) THEN s[j] ELSE IF j = Len(s) + 1 THEN name ELSE s[j - nup - 1]
<1> DEFINE u == Upvalues(s, name, nup, k)
           n == Len(s) + 1 + k
<1>1. n \in Nat
  BY StackIs
<1>2. u = [j \in 1..n |-> u[j]]
      /\ \A j \in 1..n : u[j] = IF j <= Len(s) THEN s[j]
                                ELSE IF j = Len(s) + 1 THEN name ELSE s[j - nup - 1]
  BY DEF Upvalues
<1> HIDE DEF u, n
<1>3. Stack(u) /\ Len(u) = n
  BY <1>1, <1>2, StackMade
<1> QED BY <1>2, <1>3 DEF u, n

\* Each round finds the next upvalue at the same index.
LEMMA UpvaluePushed ==
    ASSUME NEW s, Small(s), NEW t, NEW r, NEW name, NEW nup \in 0..Len(s), NEW k \in 1..nup
    PROVE  Pushvalue(Mach(Upvalues(s, name, nup, k - 1), t, r), -(nup + 1))
           = Mach(Upvalues(s, name, nup, k), t, r)
<1> DEFINE n == Len(s)
           u == Upvalues(s, name, nup, k - 1)
           w == Upvalues(s, name, nup, k)
           i == -(nup + 1)
           m == Mach(u, t, r)
           x == s[n + k - nup]
<1>1. Stack(s) /\ n \in Nat /\ n <= 8000 /\ nup \in 0..n
  BY StackIs DEF Small
<1>2. /\ Stack(u) /\ Len(u) = n + k
      /\ \A j \in 1..(n + k) : u[j] = IF j <= n THEN s[j] ELSE IF j = n + 1 THEN name ELSE s[j - nup - 1]
  <2>1. k - 1 \in 0..nup
    BY <1>1
  <2>2. /\ Stack(u) /\ Len(u) = n + 1 + (k - 1)
        /\ \A j \in 1..(n + 1 + (k - 1)) : u[j]
              = IF j <= n THEN s[j] ELSE IF j = n + 1 THEN name ELSE s[j - nup - 1]
    BY <1>1, <2>1, UpvaluesAre
  <2>3. n + 1 + (k - 1) = n + k
    BY <1>1
  <2> HIDE DEF u, n
  <2> QED BY <2>2, <2>3
<1>3. /\ Stack(w) /\ Len(w) = n + 1 + k
      /\ \A j \in 1..(n + 1 + k) : w[j]
              = IF j <= n THEN s[j] ELSE IF j = n + 1 THEN name ELSE s[j - nup - 1]
  <2>1. k \in 0..nup
    BY <1>1
  <2> QED BY <1>1, <2>1, UpvaluesAre
<1>4. Object(m, i) = IF i = RegistryIndex THEN Registry ELSE At(u, i)
  BY MachineOps
<1>5. Pushvalue(m, i) = Mach(Append(u, Object(m, i)), t, r)
  BY PushvalueIs
<1> HIDE DEF u, w, n
<1>6. Object(m, i) = x
  <2>1. i # RegistryIndex
    BY <1>1 DEF RegistryIndex
  <2>2. Slot(u, i) = n + k - nup /\ n + k - nup \in 1..n
    BY <1>1, <1>2 DEF Slot
  <2> HIDE DEF i, m
  <2> QED BY <1>1, <1>2, <1>4, <2>1, <2>2 DEF At
<1>7. Append(u, x) = w
  <2> DEFINE a == Append(u, x)
  <2>1. Stack(a) /\ Len(a) = n + k + 1 /\ (\A j \in 1..(n + k) : a[j] = u[j]) /\ a[n + k + 1] = x
    BY <1>2, PushedIs
  <2> HIDE DEF a, x
  <2>2. \A j \in 1..(n + k) : a[j] = w[j]
    BY <1>1, <1>2, <1>3, <2>1
  <2>3. a[n + k + 1] = w[n + k + 1]
    <3>1. n + k + 1 \in 1..(n + 1 + k) /\ n + k + 1 - nup - 1 = n + k - nup /\ n + k + 1 > n + 1
      BY <1>1
    <3>2. w[n + k + 1] = s[n + k - nup]
      BY <1>1, <1>3, <3>1
    <3> QED BY <2>1, <3>2 DEF x
  <2>4. \A j \in 1..Len(a) : a[j] = w[j]
    BY <1>1, <2>1, <2>2, <2>3
  <2>5. a = w
    BY <1>1, <1>3, <2>1, <2>4, SameStack
  <2> QED BY <2>5 DEF a
<1> HIDE DEF m, i, x
<1>8. Pushvalue(m, i) = Mach(w, t, r)
  BY <1>5, <1>6, <1>7
<1> QED BY <1>8 DEF m, i, u, w

\* The loop of luaL_setfuncs copies all the upvalues, in their order.
LEMMA UpvaluesPushed ==
    ASSUME NEW s, Small(s), NEW t, NEW r, NEW name, NEW nup \in 0..Len(s)
    PROVE  PushTimes(Mach(Append(s, name), t, r), -(nup + 1), nup)
           = Mach(Upvalues(s, name, nup, nup), t, r)
<1> DEFINE m == Mach(Append(s, name), t, r)
           i == -(nup + 1)
           F(h) == h = [k \in 0..nup |-> IF k = 0 THEN m ELSE Pushvalue(h[k - 1], i)]
           g == [k \in 0..nup |-> Mach(Upvalues(s, name, nup, k), t, r)]
           f == CHOOSE h : F(h)
<1>1. Stack(s) /\ Len(s) \in Nat /\ nup \in Nat
  BY StackIs DEF Small
<1>2. Upvalues(s, name, nup, 0) = Append(s, name)
  <2> DEFINE u == Upvalues(s, name, nup, 0)
             a == Append(s, name)
  <2>1. /\ Stack(u) /\ Len(u) = Len(s) + 1 + 0
        /\ \A j \in 1..(Len(s) + 1 + 0) : u[j]
              = IF j <= Len(s) THEN s[j] ELSE IF j = Len(s) + 1 THEN name ELSE s[j - nup - 1]
    <3>1. 0 \in 0..nup
      BY <1>1
    <3> QED BY <1>1, <3>1, UpvaluesAre
  <2>2. Stack(a) /\ Len(a) = Len(s) + 1 /\ (\A j \in 1..Len(s) : a[j] = s[j]) /\ a[Len(s) + 1] = name
    BY <1>1, PushedIs
  <2> HIDE DEF u, a
  <2> DEFINE n == Len(s)
  <2>3. n \in Nat
    BY <1>1
  <2> HIDE DEF n
  <2>4. Len(u) = n + 1 /\ Len(a) = n + 1 /\ \A j \in 1..(n + 1) : u[j] = a[j]
    BY <2>1, <2>2, <2>3 DEF n
  <2>5. u = a
    BY <2>1, <2>2, <2>4, SameStack
  <2> QED BY <2>5 DEF u, a
<1>3. g = [k \in 0..nup |-> IF k = 0 THEN m ELSE Pushvalue(g[k - 1], i)]
  <2>1. ASSUME NEW k \in 0..nup
        PROVE  Mach(Upvalues(s, name, nup, k), t, r) = IF k = 0 THEN m ELSE Pushvalue(g[k - 1], i)
    <3>1. CASE k = 0
      BY <1>2, <3>1
    <3>2. CASE k # 0
      <4>1. k \in 1..nup /\ k - 1 \in 0..nup
        BY <1>1, <3>2
      <4>2. Pushvalue(Mach(Upvalues(s, name, nup, k - 1), t, r), i)
            = Mach(Upvalues(s, name, nup, k), t, r)
        BY <4>1, UpvaluePushed
      <4>3. g[k - 1] = Mach(Upvalues(s, name, nup, k - 1), t, r)
        BY <4>1
      <4> HIDE DEF g, i, m
      <4> QED BY <3>2, <4>2, <4>3
    <3> QED BY <3>1, <3>2
  <2> QED BY <2>1
<1>4. F(f)
  <2>1. F(g)
    BY <1>3
  <2> HIDE DEF F, g
  <2> QED BY <2>1
<1>5. PushTimes(m, i, nup) = f[nup]
  BY DEF PushTimes
<1> HIDE DEF f, g, i, m
<1>6. f = [k \in 0..nup |-> IF k = 0 THEN m ELSE Pushvalue(f[k - 1], i)]
  BY <1>4
<1> DEFINE T == {k \in 0..nup : f[k] = g[k]}
<1>7. 0 \in T
  <2>1. f[0] = m /\ g[0] = m
    BY <1>1, <1>3, <1>6
  <2> QED BY <1>1, <2>1
<1>8. ASSUME NEW k \in T, k + 1 \in 1..nup PROVE k + 1 \in T
  <2>1. k + 1 \in 0..nup /\ k + 1 # 0 /\ k + 1 - 1 = k
    BY <1>1, <1>8
  <2>2. f[k + 1] = Pushvalue(f[k], i) /\ g[k + 1] = Pushvalue(g[k], i)
    BY <1>3, <1>6, <2>1
  <2> QED BY <1>8, <2>1, <2>2
<1> HIDE DEF T
<1>9. 0..nup \subseteq T
  BY <1>1, <1>7, <1>8, RoundsAll
<1>10. f[nup] = g[nup]
  BY <1>1, <1>9 DEF T
<1>11. g[nup] = Mach(Upvalues(s, name, nup, nup), t, r)
  BY <1>1 DEF g
<1> QED BY <1>5, <1>10, <1>11 DEF m, i

\* luaL_setfuncs.
LEMMA SetsFunctionsRight ==
    ASSUME NEW s, Small(s), NEW t, NEW r, NEW name, NEW f, NEW nup \in 0..(Len(s) - 1)
    PROVE  luaL_setfuncs(Mach(s, t, r), name, f, nup) = Setfuncs(Mach(s, t, r), name, f, nup)
<1> DEFINE m == Mach(s, t, r)
           n == Len(s)
           u == Upvalues(s, name, nup, nup)
           m1 == Mach(u, t, r)
           c == [fn |-> f, up |-> SubSeq(s, n - nup + 1, n)]
           o == s[n - nup]
           w == Two(s, name, c)
<1>1. Stack(s) /\ n \in Nat /\ n <= 8000 /\ nup \in 0..(n - 1) /\ nup \in 0..n /\ nup \in Nat
  BY StackIs DEF Small
<1>2. PushTimes(Push(m, name), -(nup + 1), nup) = m1
  <2>1. Push(m, name) = Mach(Append(s, name), t, r)
    BY MachineOps
  <2>2. PushTimes(Mach(Append(s, name), t, r), -(nup + 1), nup) = m1
    BY <1>1, UpvaluesPushed
  <2> HIDE DEF m, m1
  <2> QED BY <2>1, <2>2
<1>3. /\ Stack(u) /\ Len(u) = n + 1 + nup
      /\ \A j \in 1..(n + 1 + nup) : u[j]
            = IF j <= n THEN s[j] ELSE IF j = n + 1 THEN name ELSE s[j - nup - 1]
  <2>1. nup \in 0..nup
    BY <1>1
  <2> QED BY <1>1, <2>1, UpvaluesAre
<1> HIDE DEF u, n
<1>4. Pop(m1, nup) = Mach(Append(s, name), t, r)
  <2> DEFINE a == Append(s, name)
  <2>1. Stack(a) /\ Len(a) = n + 1 /\ (\A j \in 1..n : a[j] = s[j]) /\ a[n + 1] = name
    BY <1>1, PushedIs DEF n
  <2> HIDE DEF a
  <2>2. Len(u) = Len(a) + nup /\ \A j \in 1..Len(a) : u[j] = a[j]
    BY <1>1, <1>3, <2>1
  <2>3. Popped(u, nup) = a
    <3>1. Stack(a) /\ Stack(u) /\ nup \in Nat
      BY <1>1, <1>3, <2>1
    <3> QED BY <2>2, <3>1, PoppedSame
  <2>4. Pop(m1, nup) = Mach(Popped(u, nup), t, r)
    BY MachineOps
  <2> QED BY <2>3, <2>4 DEF a
<1>5. SubSeq(u, n + 1 + 1, n + 1 + nup) = SubSeq(s, n - nup + 1, n)
  <2> DEFINE a == SubSeq(u, n + 1 + 1, n + 1 + nup)
             b == SubSeq(s, n - nup + 1, n - nup + nup)
  <2>1. Stack(a) /\ Len(a) = nup /\ \A j \in 1..nup : a[j] = u[n + 1 + j]
    <3> DEFINE p == n + 1
    <3>1. p \in Nat /\ nup \in Nat /\ Len(u) = p + nup /\ Stack(u)
      BY <1>1, <1>3
    <3> HIDE DEF p
    <3>2. /\ Stack(SubSeq(u, p + 1, p + nup)) /\ Len(SubSeq(u, p + 1, p + nup)) = nup
          /\ \A j \in 1..nup : SubSeq(u, p + 1, p + nup)[j] = u[p + j]
      BY <3>1, TopPart
    <3> QED BY <3>2 DEF p
  <2>2. Stack(b) /\ Len(b) = nup /\ \A j \in 1..nup : b[j] = s[n - nup + j]
    <3> DEFINE p == n - nup
    <3>1. p \in Nat /\ nup \in Nat /\ Len(s) = p + nup /\ Stack(s)
      BY <1>1 DEF n
    <3>2. b = SubSeq(s, p + 1, p + nup)
      OBVIOUS
    <3> HIDE DEF p, b
    <3>3. /\ Stack(SubSeq(s, p + 1, p + nup)) /\ Len(SubSeq(s, p + 1, p + nup)) = nup
          /\ \A j \in 1..nup : SubSeq(s, p + 1, p + nup)[j] = s[p + j]
      BY <3>1, TopPart
    <3>4. /\ Stack(b) /\ Len(b) = nup /\ \A j \in 1..nup : b[j] = s[p + j]
      BY <3>2, <3>3
    <3> QED BY <3>4 DEF p
  <2> HIDE DEF a, b
  <2>3. \A j \in 1..nup : u[n + 1 + j] = s[n - nup + j]
    <3> SUFFICES ASSUME NEW j \in 1..nup PROVE u[n + 1 + j] = s[n - nup + j]
      OBVIOUS
    <3>1. n + 1 + j \in 1..(n + 1 + nup) /\ n + 1 + j > n + 1 /\ n + 1 + j - nup - 1 = n - nup + j
      BY <1>1
    <3> QED BY <1>1, <1>3, <3>1
  <2>4. a = b
    BY <2>1, <2>2, <2>3, SameStack
  <2>5. n - nup + nup = n
    BY <1>1
  <2> QED BY <2>4, <2>5 DEF a, b
<1>6. Pushcclosure(m1, f, nup) = Mach(w, t, r)
  <2>1. m1.stk = u
    BY Parts
  <2>2. Pushcclosure(m1, f, nup)
        = Push(Pop(m1, nup), [fn |-> f, up |-> SubSeq(u, Len(u) - nup + 1, Len(u))])
    BY <2>1 DEF Pushcclosure
  <2>3. Len(u) - nup + 1 = n + 1 + 1
    BY <1>1, <1>3
  <2>4. SubSeq(u, Len(u) - nup + 1, Len(u)) = SubSeq(s, n - nup + 1, n)
    BY <1>3, <1>5, <2>3
  <2>5. Pushcclosure(m1, f, nup) = Push(Mach(Append(s, name), t, r), c)
    BY <1>4, <2>2, <2>4
  <2> HIDE DEF c
  <2>6. Push(Mach(Append(s, name), t, r), c) = Mach(Append(Append(s, name), c), t, r)
    BY MachineOps
  <2> QED BY <2>5, <2>6 DEF Two
<1> HIDE DEF c
<1>7. Object(Mach(w, t, r), -(nup + 3)) = o /\ At(s, -(nup + 1)) = o
  <2> DEFINE i == -(nup + 3)
  <2>1. Stack(w) /\ Len(w) = n + 2 /\ \A j \in 1..n : w[j] = s[j]
    BY <1>1, TwoIs DEF n
  <2>2. Object(Mach(w, t, r), i) = IF i = RegistryIndex THEN Registry ELSE At(w, i)
    BY MachineOps
  <2> HIDE DEF w
  <2>3. i # RegistryIndex /\ Slot(w, i) = n - nup /\ n - nup \in 1..n /\ Slot(s, -(nup + 1)) = n - nup
    BY <1>1, <2>1 DEF Slot, RegistryIndex, n
  <2> HIDE DEF i
  <2>4. Object(Mach(w, t, r), i) = o /\ At(s, -(nup + 1)) = o
    BY <2>1, <2>2, <2>3 DEF At
  <2> QED BY <2>4 DEF i
<1>8. Settable(Mach(w, t, r), -(nup + 3)) = Mach(s, Put(t, o, name, c), r)
  <2>1. Settable(Mach(w, t, r), -(nup + 3))
        = Mach(s, Put(t, Object(Mach(w, t, r), -(nup + 3)), name, c), r)
    BY <1>1, SettableIs
  <2> HIDE DEF o, w
  <2> QED BY <1>7, <2>1
<1>9. Pop(Mach(s, Put(t, o, name, c), r), nup) = Mach(Popped(s, nup), Put(t, o, name, c), r)
  BY MachineOps
<1>10. luaL_setfuncs(m, name, f, nup) = Pop(Settable(Pushcclosure(m1, f, nup), -(nup + 3)), nup)
  BY <1>2 DEF luaL_setfuncs
<1>11. Setfuncs(m, name, f, nup) = Mach(Popped(s, nup), Put(t, o, name, c), r)
  <2>1. Pop(m, nup) = Mach(Popped(s, nup), t, r) /\ m.stk = s
    BY MachineOps, Parts
  <2>2. Stored(Mach(Popped(s, nup), t, r), o, name, c) = Mach(Popped(s, nup), Put(t, o, name, c), r)
    BY StoredIs
  <2>3. Setfuncs(m, name, f, nup) = Stored(Pop(m, nup), At(s, -(nup + 1)), name, c)
    BY <2>1 DEF Setfuncs, c, n
  <2> HIDE DEF m, o
  <2> QED BY <1>7, <2>1, <2>2, <2>3
<1> HIDE DEF m, m1, o, w
<1>12. luaL_setfuncs(m, name, f, nup) = Setfuncs(m, name, f, nup)
  BY <1>6, <1>8, <1>9, <1>10, <1>11
<1> QED BY <1>12 DEF m

\* Two slots exchanged.
LEMMA SwappedIs ==
    ASSUME NEW s, Stack(s), NEW t, NEW r, NEW x \in 1..Len(s), NEW y \in 1..Len(s), x # y
    PROVE  Swapped(Mach(s, t, r), x, y) = Mach([[s EXCEPT ![x] = s[y]] EXCEPT ![y] = s[x]], t, r)
<1> DEFINE m == Mach(s, t, r)
           n == Len(s)
           u == s[x]
           v == s[y]
           a == Append(s, u)
           e == [s EXCEPT ![x] = v]
           m1 == Mach(Two(s, u, v), t, r)
<1>1. n \in Nat /\ n > 0 /\ DOMAIN s = 1..n /\ x \in 1..n /\ y \in 1..n
  BY StackIs
<1>2. /\ Stack(a) /\ Len(a) = n + 1 /\ (\A j \in 1..n : a[j] = s[j]) /\ a[n + 1] = u
  BY PushedIs
<1>3. Pushvalue(Pushvalue(m, x), y) = m1
  <2> DEFINE ma == Mach(a, t, r)
  <2>1. Pushvalue(m, x) = Mach(Append(s, Object(m, x)), t, r)
    BY PushvalueIs
  <2>2. Object(m, x) = IF x = RegistryIndex THEN Registry ELSE At(s, x)
    BY MachineOps
  <2>3. x # RegistryIndex /\ Slot(s, x) = x /\ y # RegistryIndex /\ Slot(a, y) = y
    BY <1>1 DEF RegistryIndex, Slot
  <2>4. Pushvalue(ma, y) = Mach(Append(a, Object(ma, y)), t, r)
    BY PushvalueIs
  <2>5. Object(ma, y) = IF y = RegistryIndex THEN Registry ELSE At(a, y)
    BY MachineOps
  <2>6. Object(m, x) = u
    BY <2>2, <2>3 DEF At
  <2>7. At(a, y) = v
    <3> HIDE DEF a
    <3> QED BY <1>1, <1>2, <2>3 DEF At
  <2>8. Object(ma, y) = v
    <3> HIDE DEF ma, a, v
    <3> QED BY <2>3, <2>5, <2>7
  <2> HIDE DEF m, u, v
  <2>9. Pushvalue(m, x) = ma
    BY <2>1, <2>6
  <2> HIDE DEF ma, a
  <2> QED BY <2>4, <2>8, <2>9 DEF Two, a
<1>4. Replace(m1, x) = Mach(Append(e, u), t, r)
  <2>1. Replace(m1, x) = Mach(Replaced(Two(s, u, v), x), t, r)
    BY MachineOps
  <2>2. Two(s, u, v) = Append(a, v)
    BY DEF Two
  <2>3. Replaced(Append(a, v), x) = [a EXCEPT ![x] = v] /\ Stack([a EXCEPT ![x] = v])
        /\ Len([a EXCEPT ![x] = v]) = n + 1
    <3>1. x \in 1..Len(a)
      BY <1>1, <1>2
    <3> HIDE DEF a, v
    <3> QED BY <1>2, <3>1, ReplacesSlot
  <2>4. [a EXCEPT ![x] = v] = Append(e, u)
    <3> DEFINE b == [a EXCEPT ![x] = v]
               c == Append(e, u)
    <3>1. Stack(e) /\ Len(e) = n /\ \A j \in 1..n : e[j] = IF j = x THEN v ELSE s[j]
      <4>1. \A j \in 1..n : e[j] = IF j = x THEN v ELSE s[j]
        BY <1>1
      <4> QED BY <1>1, <4>1, ReplacesSlot
    <3>2. Stack(b) /\ Len(b) = n + 1
      BY <2>3
    <3>3. \A j \in 1..(n + 1) : b[j] = IF j = x THEN v ELSE a[j]
      <4>1. DOMAIN a = 1..(n + 1)
        BY <1>2, StackIs
      <4> HIDE DEF a, v
      <4> QED BY <4>1
    <3> HIDE DEF e
    <3>4. Stack(c) /\ Len(c) = n + 1 /\ (\A j \in 1..n : c[j] = e[j]) /\ c[n + 1] = u
      BY <3>1, PushedIs
    <3> HIDE DEF b, c, a, u, v, n
    <3>5. \A j \in 1..Len(b) : b[j] = c[j]
      <4> SUFFICES ASSUME NEW j \in 1..(n + 1) PROVE b[j] = c[j]
        BY <3>2
      <4>1. CASE j = n + 1
        BY <1>1, <1>2, <3>3, <3>4, <4>1
      <4>2. CASE j # n + 1
        <5>1. j \in 1..n
          BY <1>1, <4>2
        <5> QED BY <1>2, <3>1, <3>3, <3>4, <5>1
      <4> QED BY <4>1, <4>2
    <3>6. b = c
      BY <3>2, <3>4, <3>5, SameStack
    <3> QED BY <3>6 DEF b, c
  <2> HIDE DEF m1, a, e, u, v
  <2> QED BY <2>1, <2>2, <2>3, <2>4
<1>5. Replace(Mach(Append(e, u), t, r), y) = Mach([e EXCEPT ![y] = u], t, r)
  <2>1. Replace(Mach(Append(e, u), t, r), y) = Mach(Replaced(Append(e, u), y), t, r)
    BY MachineOps
  <2>2. Stack(e) /\ Len(e) = n
    BY <1>1, ReplacesSlot
  <2> HIDE DEF e, u
  <2>3. Replaced(Append(e, u), y) = [e EXCEPT ![y] = u]
    BY <1>1, <2>2, ReplacesSlot
  <2> QED BY <2>1, <2>3
<1>6. Swapped(m, x, y) = Replace(Replace(Pushvalue(Pushvalue(m, x), y), x), y)
  BY DEF Swapped
<1> HIDE DEF m, m1, e, u
<1>7. Swapped(m, x, y) = Mach([e EXCEPT ![y] = u], t, r)
  BY <1>3, <1>4, <1>5, <1>6
<1> QED BY <1>7 DEF m, e, u

Exchanged(s, x, y) == [[s EXCEPT ![x] = s[y]] EXCEPT ![y] = s[x]]

\* One round of compat53_reverse exchanges two slots.
LEMMA ExchangesSlots ==
    ASSUME NEW s, Stack(s), NEW t, NEW r, NEW x \in 1..Len(s), NEW y \in 1..Len(s), x # y
    PROVE  Swapped(Mach(s, t, r), x, y) = Mach(Exchanged(s, x, y), t, r)
BY SwappedIs DEF Exchanged

\* The slots from a to b, of which k at each end are reversed.
Turned(s, a, b, k) ==
    [p \in 1..Len(s) |->
        IF a <= p /\ p <= b /\ (p < a + k \/ p > b - k) THEN s[a + b - p] ELSE s[p]]

\* The slots after k rounds: the outer k at each end are turned round.
LEMMA TurnedIs ==
    ASSUME NEW s, Stack(s), NEW a \in Int, NEW b \in Int, NEW k \in Int
    PROVE  /\ Stack(Turned(s, a, b, k)) /\ Len(Turned(s, a, b, k)) = Len(s)
           /\ \A p \in 1..Len(s) : Turned(s, a, b, k)[p]
                 = IF a <= p /\ p <= b /\ (p < a + k \/ p > b - k) THEN s[a + b - p] ELSE s[p]
<1> DEFINE u == Turned(s, a, b, k)
           n == Len(s)
<1>1. n \in Nat
  BY StackIs
<1>2. u = [p \in 1..n |-> u[p]]
      /\ \A p \in 1..n : u[p]
            = IF a <= p /\ p <= b /\ (p < a + k \/ p > b - k) THEN s[a + b - p] ELSE s[p]
  BY DEF Turned
<1> HIDE DEF u, n
<1>3. Stack(u) /\ Len(u) = n
  BY <1>1, <1>2, StackMade
<1> QED BY <1>2, <1>3 DEF u, n

\* A round more turns a slot more at each end, unless the ends have met.
LEMMA RoundTurns ==
    ASSUME NEW s, Stack(s), NEW t, NEW r, NEW a \in 1..(Len(s) + 1), NEW b \in (a - 1)..Len(s),
           NEW k \in 1..Len(s)
    PROVE  Mach(Turned(s, a, b, k), t, r)
           = IF a + k - 1 < b - (k - 1)
             THEN Swapped(Mach(Turned(s, a, b, k - 1), t, r), a + k - 1, b - (k - 1))
             ELSE Mach(Turned(s, a, b, k - 1), t, r)
<1> DEFINE n == Len(s)
           u == Turned(s, a, b, k - 1)
           w == Turned(s, a, b, k)
           x == a + k - 1
           y == b - (k - 1)
<1>1. n \in Nat /\ a \in 1..(n + 1) /\ b \in (a - 1)..n /\ k \in 1..n /\ x \in Int /\ y \in Int
  BY StackIs
<1>2. /\ Stack(u) /\ Len(u) = n
      /\ \A p \in 1..n : u[p] = IF a <= p /\ p <= b /\ (p < x \/ p > y) THEN s[a + b - p] ELSE s[p]
  <2>1. k - 1 \in Int /\ a \in Int /\ b \in Int /\ a + (k - 1) = x
    BY <1>1
  <2>2. /\ Stack(u) /\ Len(u) = n
        /\ \A p \in 1..n : u[p]
              = IF a <= p /\ p <= b /\ (p < a + (k - 1) \/ p > y) THEN s[a + b - p] ELSE s[p]
    BY <2>1, TurnedIs
  <2> HIDE DEF u, n, x, y
  <2> QED BY <2>1, <2>2
<1>3. /\ Stack(w) /\ Len(w) = n
      /\ \A p \in 1..n : w[p]
            = IF a <= p /\ p <= b /\ (p < a + k \/ p > b - k) THEN s[a + b - p] ELSE s[p]
  <2>1. k \in Int /\ a \in Int /\ b \in Int
    BY <1>1
  <2> QED BY <2>1, TurnedIs
<1> HIDE DEF u, w
<1>4. CASE x < y
  <2> DEFINE e == [[u EXCEPT ![x] = u[y]] EXCEPT ![y] = u[x]]
  <2>1. x \in 1..n /\ y \in 1..n /\ x # y /\ a <= x /\ y <= b
    BY <1>1, <1>4
  <2>2. Swapped(Mach(u, t, r), x, y) = Mach(e, t, r)
    <3> HIDE DEF x, y, n
    <3>1. Stack(u) /\ x \in 1..Len(u) /\ y \in 1..Len(u) /\ x # y
      BY <1>2, <2>1
    <3>2. Swapped(Mach(u, t, r), x, y) = Mach(Exchanged(u, x, y), t, r)
      BY <3>1, ExchangesSlots
    <3> QED BY <3>2 DEF Exchanged
  <2>3. u[x] = s[x] /\ u[y] = s[y] /\ a + b - x = y /\ a + b - y = x
    <3>1. a + b - x = y /\ a + b - y = x
      BY <1>1
    <3>2. ~(x < x \/ x > y) /\ ~(y < x \/ y > y)
      BY <1>1, <1>4
    <3> HIDE DEF x, y, n
    <3> QED BY <1>2, <2>1, <3>1, <3>2
  <2>4. \A p \in 1..n : e[p] = IF p = y THEN s[x] ELSE IF p = x THEN s[y] ELSE u[p]
    <3>1. DOMAIN u = 1..n
      BY <1>2, StackIs
    <3> HIDE DEF x, y, n
    <3> QED BY <2>1, <2>3, <3>1
  <2>5. Stack(e) /\ Len(e) = n
    <3> HIDE DEF x, y, n
    <3> DEFINE d == [u EXCEPT ![x] = u[y]]
    <3>1. x \in 1..Len(u) /\ y \in 1..Len(u)
      BY <1>2, <2>1
    <3>2. Stack(d) /\ Len(d) = Len(u)
      BY <1>2, <3>1, ReplacesSlot
    <3> HIDE DEF d
    <3>3. Stack([d EXCEPT ![y] = u[x]]) /\ Len([d EXCEPT ![y] = u[x]]) = Len(d)
      BY <3>1, <3>2, ReplacesSlot
    <3> QED BY <1>2, <3>2, <3>3 DEF d
  <2> HIDE DEF e
  <2>6. \A p \in 1..n : w[p] = e[p]
    <3> SUFFICES ASSUME NEW p \in 1..n PROVE w[p] = e[p]
      OBVIOUS
    <3>1. CASE p = x
      <4>1. a <= p /\ p <= b /\ p < a + k /\ a + b - p = y
        BY <1>1, <1>4, <2>1, <2>3, <3>1
      <4>2. w[p] = s[y]
        BY <1>3, <4>1
      <4>3. e[p] = s[y]
        BY <2>1, <2>4, <3>1
      <4> QED BY <4>2, <4>3
    <3>2. CASE p = y
      <4>1. a <= p /\ p <= b /\ p > b - k /\ a + b - p = x
        BY <1>1, <1>4, <2>1, <2>3, <3>2
      <4>2. w[p] = s[x]
        BY <1>3, <4>1
      <4>3. e[p] = s[x]
        BY <2>4, <3>2
      <4> QED BY <4>2, <4>3
    <3>3. CASE p # x /\ p # y
      <4>1. p < a + k <=> p < x
        BY <1>1, <3>3
      <4>2. p > b - k <=> p > y
        BY <1>1, <3>3
      <4>3. e[p] = u[p]
        BY <2>4, <3>3
      <4> HIDE DEF x, y, n
      <4> QED BY <1>2, <1>3, <4>1, <4>2, <4>3
    <3> QED BY <3>1, <3>2, <3>3
  <2>7. w = e
    <3> HIDE DEF n
    <3> QED BY <1>3, <2>5, <2>6, SameStack
  <2> QED BY <1>4, <2>2, <2>7 DEF u, w
<1>5. CASE ~(x < y)
  <2>1. \A p \in 1..n : w[p] = u[p]
    <3> SUFFICES ASSUME NEW p \in 1..n PROVE w[p] = u[p]
      OBVIOUS
    <3>1. CASE a <= p /\ p <= b /\ (p < x \/ p > y)
      <4>1. p < a + k \/ p > b - k
        BY <1>1, <3>1
      <4> HIDE DEF x, y, n
      <4> QED BY <1>2, <1>3, <3>1, <4>1
    <3>2. CASE ~(a <= p /\ p <= b)
      <4> HIDE DEF x, y, n
      <4> QED BY <1>2, <1>3, <3>2
    <3>3. CASE a <= p /\ p <= b /\ ~(p < x \/ p > y)
      <4>1. p = x /\ p = y /\ a + b - p = p
        BY <1>1, <1>5, <3>3
      <4>2. u[p] = s[p]
        <5> HIDE DEF x, y, n
        <5> QED BY <1>2, <3>3
      <4>3. w[p] = s[p]
        <5> HIDE DEF x, y, n
        <5> QED BY <1>3, <4>1
      <4> QED BY <4>2, <4>3
    <3> QED BY <3>1, <3>2, <3>3
  <2>2. w = u
    <3> HIDE DEF n
    <3> QED BY <1>2, <1>3, <2>1, SameStack
  <2> QED BY <1>5, <2>2 DEF u, w
<1> QED BY <1>4, <1>5

\* The slots from a to b in reverse order.
Backwards(s, a, b) ==
    [p \in 1..Len(s) |-> IF a <= p /\ p <= b THEN s[a + b - p] ELSE s[p]]

\* compat53_reverse turns the whole range round.
LEMMA Reverses ==
    ASSUME NEW s, Stack(s), NEW t, NEW r, NEW a \in 1..(Len(s) + 1), NEW b \in (a - 1)..Len(s)
    PROVE  compat53_reverse(Mach(s, t, r), a, b) = Mach(Backwards(s, a, b), t, r)
<1> DEFINE m == Mach(s, t, r)
           n == Len(s)
           F(h) == h = [k \in 0..n |->
                          IF k = 0 THEN m
                          ELSE IF a + k - 1 < b - (k - 1)
                               THEN Swapped(h[k - 1], a + k - 1, b - (k - 1))
                               ELSE h[k - 1]]
           g == [k \in 0..n |-> Mach(Turned(s, a, b, k), t, r)]
           f == CHOOSE h : F(h)
<1>1. n \in Nat /\ a \in 1..(n + 1) /\ b \in (a - 1)..n /\ a \in Int /\ b \in Int
  BY StackIs
<1>2. Turned(s, a, b, 0) = s
  <2> DEFINE u == Turned(s, a, b, 0)
  <2>1. /\ Stack(u) /\ Len(u) = n
        /\ \A p \in 1..n : u[p]
              = IF a <= p /\ p <= b /\ (p < a + 0 \/ p > b - 0) THEN s[a + b - p] ELSE s[p]
    BY <1>1, TurnedIs
  <2> HIDE DEF u
  <2>2. \A p \in 1..n : u[p] = s[p]
    <3> SUFFICES ASSUME NEW p \in 1..n PROVE u[p] = s[p]
      OBVIOUS
    <3>1. ~(a <= p /\ p <= b /\ (p < a + 0 \/ p > b - 0))
      BY <1>1
    <3> HIDE DEF n
    <3> QED BY <2>1, <3>1
  <2>3. u = s
    BY <2>1, <2>2, SameStack
  <2> QED BY <2>3 DEF u
<1>3. F(g)
  <2>1. ASSUME NEW k \in 0..n
        PROVE  Mach(Turned(s, a, b, k), t, r)
               = IF k = 0 THEN m
                 ELSE IF a + k - 1 < b - (k - 1)
                      THEN Swapped(g[k - 1], a + k - 1, b - (k - 1))
                      ELSE g[k - 1]
    <3>1. CASE k = 0
      BY <1>2, <3>1
    <3>2. CASE k # 0
      <4>1. k \in 1..n /\ k - 1 \in 0..n
        BY <1>1, <3>2
      <4>2. g[k - 1] = Mach(Turned(s, a, b, k - 1), t, r)
        BY <4>1
      <4>3. Mach(Turned(s, a, b, k), t, r)
            = IF a + k - 1 < b - (k - 1)
              THEN Swapped(Mach(Turned(s, a, b, k - 1), t, r), a + k - 1, b - (k - 1))
              ELSE Mach(Turned(s, a, b, k - 1), t, r)
        BY <4>1, RoundTurns
      <4> HIDE DEF g, m
      <4> QED BY <3>2, <4>2, <4>3
    <3> QED BY <3>1, <3>2
  <2> QED BY <2>1
<1>4. F(f)
  <2> HIDE DEF F, g
  <2> QED BY <1>3
<1>5. compat53_reverse(m, a, b) = f[n]
  <2>1. m.stk = s
    BY Parts
  <2> HIDE DEF m
  <2> QED BY <2>1 DEF compat53_reverse
<1> HIDE DEF f, g, m
<1>6. /\ f = [k \in 0..n |-> IF k = 0 THEN m
                             ELSE IF a + k - 1 < b - (k - 1)
                                  THEN Swapped(f[k - 1], a + k - 1, b - (k - 1)) ELSE f[k - 1]]
      /\ g = [k \in 0..n |-> IF k = 0 THEN m
                             ELSE IF a + k - 1 < b - (k - 1)
                                  THEN Swapped(g[k - 1], a + k - 1, b - (k - 1)) ELSE g[k - 1]]
  BY <1>3, <1>4
<1> HIDE DEF n
<1> DEFINE T == {k \in 0..n : f[k] = g[k]}
<1>7. 0 \in T
  <2>1. f[0] = m /\ g[0] = m
    BY <1>1, <1>6
  <2> QED BY <1>1, <2>1
<1>8. ASSUME NEW k \in T, k + 1 \in 1..n PROVE k + 1 \in T
  <2> DEFINE j == k + 1
  <2>1. j \in 0..n /\ j # 0 /\ j - 1 = k
    BY <1>1, <1>8
  <2> HIDE DEF j
  <2>2. /\ f[j] = IF a + j - 1 < b - (j - 1) THEN Swapped(f[j - 1], a + j - 1, b - (j - 1)) ELSE f[j - 1]
        /\ g[j] = IF a + j - 1 < b - (j - 1) THEN Swapped(g[j - 1], a + j - 1, b - (j - 1)) ELSE g[j - 1]
    BY <1>6, <2>1
  <2>3. f[j - 1] = g[j - 1]
    BY <2>1
  <2>4. f[j] = g[j]
    BY <2>2, <2>3
  <2> QED BY <2>1, <2>4 DEF j
<1> HIDE DEF T
<1>9. 0..n \subseteq T
  BY <1>1, <1>7, <1>8, RoundsAll
<1>10. f[n] = g[n] /\ g[n] = Mach(Turned(s, a, b, n), t, r)
  BY <1>1, <1>9 DEF T, g
<1>11. Turned(s, a, b, n) = Backwards(s, a, b)
  <2>1. \A p \in 1..n : (a <= p /\ p <= b /\ (p < a + n \/ p > b - n)) <=> (a <= p /\ p <= b)
    BY <1>1
  <2> QED BY <2>1 DEF Turned, Backwards, n
<1> QED BY <1>5, <1>10, <1>11 DEF m

\* The slots of a range that was turned round.
LEMMA BackwardsIs ==
    ASSUME NEW s, Stack(s), NEW a \in Int, NEW b \in Int
    PROVE  /\ Stack(Backwards(s, a, b)) /\ Len(Backwards(s, a, b)) = Len(s)
           /\ \A p \in 1..Len(s) : Backwards(s, a, b)[p]
                 = IF a <= p /\ p <= b THEN s[a + b - p] ELSE s[p]
<1> DEFINE u == Backwards(s, a, b)
           n == Len(s)
<1>1. n \in Nat
  BY StackIs
<1>2. u = [p \in 1..n |-> u[p]]
      /\ \A p \in 1..n : u[p] = IF a <= p /\ p <= b THEN s[a + b - p] ELSE s[p]
  BY DEF Backwards
<1> HIDE DEF u, n
<1>3. Stack(u) /\ Len(u) = n
  BY <1>1, <1>2, StackMade
<1> QED BY <1>2, <1>3 DEF u, n

\* Remainders within one size of 0.
LEMMA RemainderIs ==
    ASSUME NEW n \in Nat \ {0}, NEW x \in Int
    PROVE  /\ (0 <= x /\ x < n) => x % n = x
           /\ (n <= x /\ x < 2 * n) => x % n = x - n
           /\ (-n <= x /\ x < 0) => x % n = x + n
<1>1. (0 <= x /\ x < n) => x % n = x
  OBVIOUS
<1>2. (n <= x /\ x < 2 * n) => x % n = x - n
  OBVIOUS
<1>3. (-n <= x /\ x < 0) => x % n = x + n
  OBVIOUS
<1> QED BY <1>1, <1>2, <1>3

\* Three reversals turn the slots from k to the top by up.
Thrice(s, k, size, up) ==
    Backwards(Backwards(Backwards(s, k, k + (size - up) - 1), k + (size - up), k + size - 1),
              k, k + size - 1)

\* Turning the two parts round and then the whole rotates.
LEMMA ThreeReversals ==
    ASSUME NEW s, Stack(s), NEW k \in 1..Len(s), NEW size \in Int, k + size = Len(s) + 1,
           NEW up \in 1..(size - 1)
    PROVE  /\ Stack(Thrice(s, k, size, up)) /\ Len(Thrice(s, k, size, up)) = Len(s)
           /\ \A p \in 1..Len(s) : Thrice(s, k, size, up)[p]
                 = IF p < k THEN s[p]
                   ELSE IF p < k + up THEN s[p + (size - up)] ELSE s[p - up]
<1> DEFINE n == size - up
           u == Thrice(s, k, size, up)
           len == Len(s)
           u1 == Backwards(s, k, k + n - 1)
           u2 == Backwards(u1, k + n, k + size - 1)
<1>1. /\ len \in Nat /\ k \in 1..len /\ size \in Nat /\ size = len - k + 1
      /\ up \in 1..(size - 1) /\ n \in Int /\ k \in Int
      /\ k + n - 1 \in Int /\ k + n \in Int /\ k + size - 1 \in Int
  BY StackIs
<1>2. /\ Stack(u1) /\ Len(u1) = len
      /\ \A p \in 1..len : u1[p] = IF k <= p /\ p <= k + n - 1 THEN s[k + (k + n - 1) - p] ELSE s[p]
  BY <1>1, BackwardsIs
<1> HIDE DEF u1
<1>3. /\ Stack(u2) /\ Len(u2) = len
      /\ \A p \in 1..len : u2[p] = IF k + n <= p /\ p <= k + size - 1
                                   THEN u1[(k + n) + (k + size - 1) - p] ELSE u1[p]
  <2>1. k + n \in Int /\ k + size - 1 \in Int
    BY <1>1
  <2>2. /\ Stack(u2) /\ Len(u2) = Len(u1)
        /\ \A p \in 1..Len(u1) : u2[p] = IF k + n <= p /\ p <= k + size - 1
                                     THEN u1[(k + n) + (k + size - 1) - p] ELSE u1[p]
    <3> DEFINE a == k + n
               b == k + size - 1
    <3>1. Stack(u1) /\ a \in Int /\ b \in Int /\ u2 = Backwards(u1, a, b)
      BY <1>2, <2>1
    <3> HIDE DEF a, b, u2
    <3>2. /\ Stack(u2) /\ Len(u2) = Len(u1)
          /\ \A p \in 1..Len(u1) : u2[p] = IF a <= p /\ p <= b THEN u1[a + b - p] ELSE u1[p]
      BY <3>1, BackwardsIs
    <3> QED BY <3>2 DEF a, b
  <2>3. Len(u1) = len
    BY <1>2
  <2> HIDE DEF len, n, u2
  <2> QED BY <2>2, <2>3
<1>4. u = Backwards(u2, k, k + size - 1)
  BY DEF u1, Thrice
<1> HIDE DEF u2, u
<1>5. /\ Stack(u) /\ Len(u) = len
      /\ \A p \in 1..len : u[p] = IF k <= p /\ p <= k + size - 1
                                  THEN u2[k + (k + size - 1) - p] ELSE u2[p]
  <2>1. /\ Stack(u) /\ Len(u) = Len(u2)
        /\ \A p \in 1..Len(u2) : u[p] = IF k <= p /\ p <= k + size - 1
                                    THEN u2[k + (k + size - 1) - p] ELSE u2[p]
    <3> DEFINE b == k + size - 1
    <3>1. Stack(u2) /\ k \in Int /\ b \in Int /\ u = Backwards(u2, k, b)
      BY <1>1, <1>3, <1>4
    <3> HIDE DEF b
    <3>2. /\ Stack(u) /\ Len(u) = Len(u2)
          /\ \A p \in 1..Len(u2) : u[p] = IF k <= p /\ p <= b THEN u2[k + b - p] ELSE u2[p]
      BY <3>1, BackwardsIs
    <3>3. \A p : k + b - p = k + (k + size - 1) - p
      BY DEF b
    <3> QED BY <3>2, <3>3 DEF b
  <2>2. Len(u2) = len
    BY <1>3
  <2> HIDE DEF len, n
  <2> QED BY <2>1, <2>2
<1>6. ASSUME NEW p \in 1..len
      PROVE  u[p] = IF p < k THEN s[p] ELSE IF p < k + up THEN s[p + n] ELSE s[p - up]
  <2>1. CASE p < k
    <3>1. ~(k <= p) /\ ~(k + n <= p)
      BY <1>1, <2>1
    <3> HIDE DEF n, len
    <3> QED BY <1>2, <1>3, <1>5, <2>1, <3>1
  <2>2. CASE ~(p < k) /\ p < k + up
    <3> DEFINE q == k + (k + size - 1) - p
    <3>1. /\ k <= p /\ p <= k + size - 1 /\ q \in 1..len
          /\ k + n <= q /\ q <= k + size - 1 /\ (k + n) + (k + size - 1) - q = p + n
          /\ p + n \in 1..len /\ ~(p + n <= k + n - 1)
      BY <1>1, <2>2
    <3> HIDE DEF n, len, q
    <3>2. u[p] = u2[q]
      BY <1>5, <3>1 DEF q
    <3>3. u2[q] = u1[p + n]
      BY <1>3, <3>1
    <3>4. u1[p + n] = s[p + n]
      BY <1>2, <3>1
    <3> QED BY <2>2, <3>2, <3>3, <3>4
  <2>3. CASE ~(p < k) /\ ~(p < k + up)
    <3> DEFINE q == k + (k + size - 1) - p
    <3>1. /\ k <= p /\ p <= k + size - 1 /\ q \in 1..len
          /\ ~(k + n <= q) /\ k <= q /\ q <= k + n - 1 /\ k + (k + n - 1) - q = p - up
      BY <1>1, <2>3
    <3> HIDE DEF n, len, q
    <3>2. u[p] = u2[q]
      BY <1>5, <3>1 DEF q
    <3>3. u2[q] = u1[q]
      BY <1>3, <3>1
    <3>4. u1[q] = s[p - up]
      BY <1>2, <3>1
    <3> QED BY <2>3, <3>2, <3>3, <3>4
  <2> QED BY <2>1, <2>2, <2>3
<1> QED BY <1>5, <1>6 DEF u

\* lua_rotate.
LEMMA RotatesRight ==
    ASSUME NEW s, Small(s), NEW t, NEW r, NEW i, Index53(s, i),
           NEW by \in (Slot53(Mach(s, t, r), i) - Len(s) - 1)..(Len(s) + 1 - Slot53(Mach(s, t, r), i))
    PROVE  lua_rotate(Mach(s, t, r), i, by) = Rotated(Mach(s, t, r), i, by)
<1> DEFINE m == Mach(s, t, r)
           k == Slot53(m, i)
           len == Len(s)
           size == len - k + 1
           up == IF by < 0 THEN by + size ELSE by
           n == size - up
           f == [p \in 1..len |-> IF p < k THEN s[p] ELSE s[k + ((p - k - by) % size)]]
<1>1. /\ Stack(s) /\ len \in Nat /\ k \in 1..len /\ m.stk = s /\ lua_absindex(m, i) = k
      /\ by \in (k - len - 1)..(len + 1 - k)
  BY StackIs, Parts, AbsoluteIs DEF Small
<1> HIDE DEF k
<1>2. size \in Nat \ {0} /\ by \in (-size)..size /\ up \in 0..size /\ (up = by \/ up = by + size)
      /\ (up \notin 1..(size - 1) => (by = 0 \/ by = size \/ by = -size))
      /\ (up \in 1..(size - 1) => (by = up \/ by = up - size))
  BY <1>1
<1>3. Rotated(m, i, by) = Mach(f, t, r)
  <2>1. Rotated(m, i, by) = On(m, f)
    BY <1>1 DEF Rotated, k
  <2>2. On(m, f) = Mach(f, t, r)
    BY MachineOps
  <2> QED BY <2>1, <2>2
<1>4. Stack(f) /\ Len(f) = len
      /\ \A p \in 1..len : f[p] = IF p < k THEN s[p] ELSE s[k + ((p - k - by) % size)]
  <2>1. f = [p \in 1..len |-> f[p]]
        /\ \A p \in 1..len : f[p] = IF p < k THEN s[p] ELSE s[k + ((p - k - by) % size)]
    OBVIOUS
  <2> HIDE DEF f, len
  <2>2. Stack(f) /\ Len(f) = len
    BY <1>1, <2>1, StackMade
  <2> QED BY <2>1, <2>2
<1>5. lua_rotate(m, i, by)
      = IF 0 < up /\ up < size
        THEN compat53_reverse(Reversed2(compat53_reverse(m, k, k + n - 1), k, n, size), k, k + size - 1)
        ELSE m
  BY <1>1 DEF lua_rotate
<1> HIDE DEF f, up, size, len
<1>6. CASE up \in 1..(size - 1)
  <2> DEFINE u1 == Backwards(s, k, k + n - 1)
             u2 == Backwards(u1, k + n, k + size - 1)
             u == Backwards(u2, k, k + size - 1)
  <2>1. 0 < up /\ up < size
    BY <1>2, <1>6
  <2>2. /\ k \in 1..(len + 1) /\ k + n - 1 \in (k - 1)..len
        /\ k + n \in 1..(len + 1) /\ k + size - 1 \in (k + n - 1)..len
        /\ k + size - 1 \in (k - 1)..len
        /\ k \in Int /\ k + n - 1 \in Int /\ k + n \in Int /\ k + size - 1 \in Int
    BY <1>1, <1>2, <1>6 DEF size
  <2>3. compat53_reverse(m, k, k + n - 1) = Mach(u1, t, r)
    BY <1>1, <2>2, Reverses DEF len
  <2>4. Stack(u1) /\ Len(u1) = len
    BY <1>1, <2>2, BackwardsIs DEF len
  <2> HIDE DEF u1
  <2>5. Reversed2(Mach(u1, t, r), k, n, size) = Mach(u2, t, r)
    <3>1. compat53_reverse(Mach(u1, t, r), k + n, k + size - 1) = Mach(u2, t, r)
      <4> DEFINE a == k + n
                 b == k + size - 1
      <4>1. Stack(u1) /\ a \in 1..(Len(u1) + 1) /\ b \in (a - 1)..Len(u1)
        <5>1. a \in 1..(len + 1) /\ b \in (a - 1)..len
          BY <1>1, <1>2, <1>6 DEF size
        <5> HIDE DEF a, b
        <5> QED BY <2>4, <5>1
      <4> HIDE DEF a, b
      <4>2. compat53_reverse(Mach(u1, t, r), a, b) = Mach(Backwards(u1, a, b), t, r)
        BY <4>1, Reverses
      <4> QED BY <4>2 DEF a, b
    <3> QED BY <3>1 DEF Reversed2
  <2>6. Stack(u2) /\ Len(u2) = len
    BY <2>2, <2>4, BackwardsIs
  <2> HIDE DEF u2
  <2>7. compat53_reverse(Mach(u2, t, r), k, k + size - 1) = Mach(u, t, r)
    BY <2>2, <2>6, Reverses
  <2>8. /\ Stack(u) /\ Len(u) = len
        /\ \A p \in 1..len : u[p] = IF p < k THEN s[p]
                                    ELSE IF p < k + up THEN s[p + n] ELSE s[p - up]
    <3>1. u = Thrice(s, k, size, up)
      BY DEF u1, u2, Thrice
    <3>2. k \in 1..Len(s) /\ size \in Int /\ k + size = Len(s) + 1
      BY <1>1 DEF len, size
    <3> HIDE DEF u
    <3>3. /\ Stack(Thrice(s, k, size, up)) /\ Len(Thrice(s, k, size, up)) = Len(s)
          /\ \A p \in 1..Len(s) : Thrice(s, k, size, up)[p]
                = IF p < k THEN s[p] ELSE IF p < k + up THEN s[p + (size - up)] ELSE s[p - up]
      BY <1>1, <1>6, <3>2, ThreeReversals
    <3> QED BY <3>1, <3>3 DEF len
  <2> HIDE DEF u
  <2>9. \A p \in 1..len : u[p] = f[p]
    <3> SUFFICES ASSUME NEW p \in 1..len PROVE u[p] = f[p]
      OBVIOUS
    <3>1. CASE p < k
      BY <1>4, <2>8, <3>1
    <3>2. CASE ~(p < k) /\ p < k + up
      <4> DEFINE x == p - k - by
      <4>1. x \in Int /\ ((-size <= x /\ x < 0 /\ k + (x + size) = p + n)
                          \/ (0 <= x /\ x < size /\ k + x = p + n))
        BY <1>1, <1>2, <1>6, <3>2
      <4> HIDE DEF x
      <4>2. k + (x % size) = p + n
        <5>1. /\ (0 <= x /\ x < size) => x % size = x
              /\ (size <= x /\ x < 2 * size) => x % size = x - size
              /\ (-size <= x /\ x < 0) => x % size = x + size
          BY <1>2, <4>1, RemainderIs
        <5> QED BY <4>1, <5>1
      <4>3. f[p] = s[k + (x % size)]
        BY <1>4, <3>2 DEF x
      <4>4. u[p] = s[p + n]
        BY <2>8, <3>2
      <4> QED BY <4>2, <4>3, <4>4
    <3>3. CASE ~(p < k) /\ ~(p < k + up)
      <4> DEFINE x == p - k - by
      <4>1. x \in Int /\ ((0 <= x /\ x < size /\ k + x = p - up)
                          \/ (size <= x /\ x < 2 * size /\ k + (x - size) = p - up))
        BY <1>1, <1>2, <1>6, <3>3 DEF size
      <4> HIDE DEF x
      <4>2. k + (x % size) = p - up
        <5>1. /\ (0 <= x /\ x < size) => x % size = x
              /\ (size <= x /\ x < 2 * size) => x % size = x - size
              /\ (-size <= x /\ x < 0) => x % size = x + size
          BY <1>2, <4>1, RemainderIs
        <5> QED BY <4>1, <5>1
      <4>3. f[p] = s[k + (x % size)]
        BY <1>4, <3>3 DEF x
      <4>4. u[p] = s[p - up]
        BY <2>8, <3>3
      <4> QED BY <4>2, <4>3, <4>4
    <3> QED BY <3>1, <3>2, <3>3
  <2>10. u = f
    BY <1>4, <2>8, <2>9, SameStack
  <2>11. lua_rotate(m, i, by) = Mach(u, t, r)
    <3> HIDE DEF m
    <3> QED BY <1>5, <2>1, <2>3, <2>5, <2>7 DEF u
  <2> QED BY <1>3, <2>10, <2>11 DEF m
<1>7. CASE up \notin 1..(size - 1)
  <2>1. ~(0 < up /\ up < size)
    BY <1>2, <1>7
  <2>2. \A p \in 1..len : f[p] = s[p]
    <3> SUFFICES ASSUME NEW p \in 1..len PROVE f[p] = s[p]
      OBVIOUS
    <3>1. CASE p < k
      BY <1>4, <3>1
    <3>2. CASE ~(p < k)
      <4> DEFINE x == p - k - by
      <4>1. x \in Int /\ ((0 <= x /\ x < size /\ k + x = p)
                          \/ (size <= x /\ x < 2 * size /\ k + (x - size) = p)
                          \/ (-size <= x /\ x < 0 /\ k + (x + size) = p))
        BY <1>1, <1>2, <1>7, <3>2 DEF size
      <4> HIDE DEF x
      <4>2. k + (x % size) = p
        <5>1. /\ (0 <= x /\ x < size) => x % size = x
              /\ (size <= x /\ x < 2 * size) => x % size = x - size
              /\ (-size <= x /\ x < 0) => x % size = x + size
          BY <1>2, <4>1, RemainderIs
        <5> QED BY <4>1, <5>1
      <4>3. f[p] = s[k + (x % size)]
        BY <1>4, <3>2 DEF x
      <4> QED BY <4>2, <4>3
    <3> QED BY <3>1, <3>2
  <2>3. f = s
    <3>1. Len(s) = len
      BY DEF len
    <3> QED BY <1>1, <1>4, <2>2, <3>1, SameStack
  <2>4. lua_rotate(m, i, by) = m
    <3> HIDE DEF m
    <3> QED BY <1>5, <2>1
  <2> QED BY <1>3, <2>3, <2>4
<1> QED BY <1>6, <1>7

-----------------------------------------------------------------------------
(* The two machines.                                                       *)

\* The tables differ only in what compat-5.3.c keeps in the registry.
Matches(t, u) ==
    /\ Tables(t) /\ Tables(u) /\ DOMAIN t = DOMAIN u
    /\ \A x \in DOMAIN t : \A j \in Cell : (x = Registry /\ j \in Chunk) \/ t[x][j] = u[x][j]
    /\ \A chunk \in Chunk : t[Registry][chunk] \in {NilValue, ChunkFunction(chunk)}

\* The machines differ in nothing else, and the stack is one of at most MaxSlots values.
SameMachines ==
    /\ old = Mach(old.stk, old.tab, old.ret)
    /\ new = Mach(old.stk, new.tab, old.ret)
    /\ Stack(old.stk) /\ Len(old.stk) <= MaxSlots
    /\ Matches(old.tab, new.tab)

CompatInv == IF failed THEN HoldsItself(new) ELSE SameMachines

\* The keys of the calls are none of the chunks.
LEMMA Names == /\ \A k \in Key \cup {LoadedKey} : k \in Cell /\ k \notin Chunk
               /\ \A c \in Chunk : c \in Cell /\ c \notin Key \cup {LoadedKey}
BY CompatAssumption DEF Cell

\* The same store in both machines keeps their tables the same but for the chunks.
LEMMA PutMatches ==
    ASSUME NEW t, NEW u, Matches(t, u), NEW a \in DOMAIN t, NEW k \in Key \cup {LoadedKey}, NEW v
    PROVE  Matches(Put(t, a, k, v), Put(u, a, k, v)) /\ DOMAIN Put(t, a, k, v) = DOMAIN t
<1> DEFINE p == Put(t, a, k, v)
           q == Put(u, a, k, v)
<1>1. k \in Cell /\ k \notin Chunk
  BY Names
<1>2. /\ Tables(t) /\ Tables(u) /\ DOMAIN t = DOMAIN u /\ a \in DOMAIN u /\ Registry \in DOMAIN t
      /\ \A x \in DOMAIN t : \A j \in Cell : (x = Registry /\ j \in Chunk) \/ t[x][j] = u[x][j]
      /\ \A chunk \in Chunk : t[Registry][chunk] \in {NilValue, ChunkFunction(chunk)}
  BY DEF Matches, Tables
<1>3. /\ Tables(p) /\ DOMAIN p = DOMAIN t
      /\ \A x \in DOMAIN t : \A j \in Cell : p[x][j] = IF x = a /\ j = k THEN v ELSE t[x][j]
  BY <1>1, <1>2, PutIs
<1>4. /\ Tables(q) /\ DOMAIN q = DOMAIN u
      /\ \A x \in DOMAIN u : \A j \in Cell : q[x][j] = IF x = a /\ j = k THEN v ELSE u[x][j]
  BY <1>1, <1>2, PutIs
<1> HIDE DEF p, q
<1>5. \A x \in DOMAIN p : \A j \in Cell : (x = Registry /\ j \in Chunk) \/ p[x][j] = q[x][j]
  BY <1>2, <1>3, <1>4
<1>6. \A chunk \in Chunk : p[Registry][chunk] \in {NilValue, ChunkFunction(chunk)}
  <2> SUFFICES ASSUME NEW chunk \in Chunk
               PROVE  p[Registry][chunk] \in {NilValue, ChunkFunction(chunk)}
    OBVIOUS
  <2>1. chunk \in Cell /\ chunk # k
    BY <1>1, Names
  <2>2. p[Registry][chunk] = t[Registry][chunk]
    BY <1>2, <1>3, <2>1
  <2> QED BY <1>2, <2>2
<1>7. Matches(p, q)
  BY <1>2, <1>3, <1>4, <1>5, <1>6 DEF Matches
<1> QED BY <1>3, <1>7 DEF p, q

\* The same new table is made on both machines.
LEMMA WithMatches ==
    ASSUME NEW t, NEW u, Matches(t, u), \E x \in TableObject : x \notin DOMAIN t
    PROVE  /\ Unused(t) = Unused(u) /\ Matches(With(t, Unused(t)), With(u, Unused(u)))
           /\ Unused(t) \in DOMAIN With(t, Unused(t)) /\ DOMAIN t \subseteq DOMAIN With(t, Unused(t))
<1> DEFINE n == Unused(t)
           p == With(t, Unused(t))
           q == With(u, Unused(u))
<1>1. /\ Tables(t) /\ Tables(u) /\ DOMAIN t = DOMAIN u /\ Registry \in DOMAIN t
      /\ \A x \in DOMAIN t : \A j \in Cell : (x = Registry /\ j \in Chunk) \/ t[x][j] = u[x][j]
      /\ \A chunk \in Chunk : t[Registry][chunk] \in {NilValue, ChunkFunction(chunk)}
  BY DEF Matches, Tables
<1>2. n = Unused(u)
  BY <1>1 DEF Unused
<1>3. /\ Tables(p) /\ DOMAIN p = DOMAIN t \cup {n} /\ p[n] = Empty
      /\ \A x \in DOMAIN t : p[x] = t[x]
  BY <1>1, WithIs
<1>4. /\ Tables(q) /\ DOMAIN q = DOMAIN t \cup {n} /\ q[n] = Empty
      /\ \A x \in DOMAIN t : q[x] = u[x]
  BY <1>1, <1>2, WithIs
<1> HIDE DEF n, p, q
<1>5. \A x \in DOMAIN p : \A j \in Cell : (x = Registry /\ j \in Chunk) \/ p[x][j] = q[x][j]
  BY <1>1, <1>3, <1>4
<1>6. \A chunk \in Chunk : p[Registry][chunk] \in {NilValue, ChunkFunction(chunk)}
  BY <1>1, <1>3
<1>7. Matches(p, q)
  BY <1>3, <1>4, <1>5, <1>6 DEF Matches
<1> QED BY <1>2, <1>3, <1>7 DEF n, p, q

\* A chunk's function in the registry of `old` makes no difference.
LEMMA CachedMatches ==
    ASSUME NEW t, NEW u, Matches(t, u), NEW chunk \in Chunk
    PROVE  Matches(Cached(t, chunk), u)
<1> DEFINE p == Put(t, Registry, chunk, ChunkFunction(chunk))
<1>1. /\ Tables(t) /\ Tables(u) /\ DOMAIN t = DOMAIN u /\ Registry \in DOMAIN t
      /\ \A x \in DOMAIN t : \A j \in Cell : (x = Registry /\ j \in Chunk) \/ t[x][j] = u[x][j]
      /\ \A c \in Chunk : t[Registry][c] \in {NilValue, ChunkFunction(c)}
  BY DEF Matches, Tables
<1>2. \A c \in Chunk : c \in Cell
  BY Names
<1>3. /\ Tables(p) /\ DOMAIN p = DOMAIN t
      /\ \A x \in DOMAIN t : \A j \in Cell :
            p[x][j] = IF x = Registry /\ j = chunk THEN ChunkFunction(chunk) ELSE t[x][j]
  BY <1>1, <1>2, PutIs
<1>4. Cached(t, chunk) = IF t[Registry][chunk] # NilValue THEN t ELSE p
  BY DEF Cached
<1> HIDE DEF p
<1>5. \A x \in DOMAIN p : \A j \in Cell : (x = Registry /\ j \in Chunk) \/ p[x][j] = u[x][j]
  BY <1>1, <1>3
<1>6. \A c \in Chunk : p[Registry][c] \in {NilValue, ChunkFunction(c)}
  BY <1>1, <1>2, <1>3
<1>7. Matches(p, u)
  BY <1>1, <1>3, <1>5, <1>6 DEF Matches
<1> QED BY <1>4, <1>7

\* Tables of the program have the same contents for it.
LEMMA MatchesThere ==
    ASSUME NEW t, NEW u, Matches(t, u), NEW a \in DOMAIN t
    PROVE  \A k \in Key \cup {LoadedKey} : t[a][k] = u[a][k]
BY Names DEF Matches

\* An index means the same value on both machines.
LEMMA SameObjects ==
    ASSUME NEW s, NEW t, NEW u, NEW r
    PROVE  \A i : /\ Object(Mach(s, t, r), i) = Object(Mach(s, u, r), i)
                  /\ Slot53(Mach(s, t, r), i) = Slot53(Mach(s, u, r), i)
<1>1. Mach(s, t, r).stk = s /\ Mach(s, u, r).stk = s
  BY Parts
<1> QED BY <1>1 DEF Object, Slot53

\* What both machines show after a call.
LEMMA Leaves ==
    ASSUME NEW m1, NEW m2, Calls(m1, m2), NEW s, Stack(s), NEW t, NEW u, Matches(t, u), NEW r,
           m1 = Mach(s, t, r), m2 = Mach(s, u, r)
    PROVE  CompatInv'
<1>1. old' = Mach(s, t, r) /\ new' = Mach(s, u, r) /\ Len(Mach(s, t, r).stk) <= MaxSlots
  BY DEF Calls
<1>2. Mach(s, t, r).stk = s /\ Mach(s, t, r).tab = t /\ Mach(s, t, r).ret = r
      /\ Mach(s, u, r).tab = u
  BY Parts
<1>3. old'.stk = s /\ old'.tab = t /\ old'.ret = r /\ new'.tab = u /\ Len(s) <= MaxSlots
  BY <1>1, <1>2
<1>4. SameMachines'
  BY <1>1, <1>3 DEF SameMachines
<1>5. ~failed'
  BY DEF Calls
<1> QED BY <1>4, <1>5 DEF CompatInv

\* The machines before a call.
Matched(s, t, u, r) ==
    /\ Small(s) /\ Stack(s) /\ Matches(t, u) /\ Tables(t) /\ Tables(u)
    /\ old = Mach(s, t, r) /\ new = Mach(s, u, r)

\* Before a step the machines have the same stack and result, and matching tables.
LEMMA Before == CompatInv /\ ~failed => \E s, t, u, r : Matched(s, t, u, r)
<1> SUFFICES ASSUME SameMachines PROVE Matched(old.stk, old.tab, new.tab, old.ret)
  BY DEF CompatInv
<1>1. Len(old.stk) \in Nat
  BY StackIs DEF SameMachines
<1>2. Len(old.stk) <= 8000
  <2>1. MaxSlots \in Nat /\ MaxSlots <= 8000
    BY CompatAssumption
  <2>2. Len(old.stk) <= MaxSlots
    BY DEF SameMachines
  <2> QED BY <1>1, <2>1, <2>2
<1> QED BY <1>2 DEF SameMachines, Matched, Small, Matches

\* Indices of the machines before a call.
LEMMA IndexIs ==
    ASSUME NEW s, NEW t, NEW u, NEW r, Matched(s, t, u, r)
    PROVE  /\ Height = Len(s) /\ Len(s) \in Nat /\ Len(s) <= 8000
           /\ \A i \in Index : Index53(s, i) /\ Place(s, i)
           /\ \A i \in TableIndex : Place(s, i) /\ Object(Mach(s, t, r), i) \in DOMAIN t
           /\ CanMakeTable => \E x \in TableObject : x \notin DOMAIN t
<1>1. Mach(s, t, r).stk = s /\ Mach(s, t, r).tab = t /\ old = Mach(s, t, r)
  BY Parts DEF Matched
<1>2. Height = Len(s) /\ Len(s) \in Nat /\ Len(s) <= 8000
  BY <1>1, StackIs DEF Height, Matched, Small
<1>3. \A i \in Index : Index53(s, i) /\ Place(s, i)
  BY <1>2 DEF Index, Index53, Place
<1>4. \A i \in TableIndex : Place(s, i) /\ Object(Mach(s, t, r), i) \in DOMAIN t
  <2>1. \A i \in TableIndex : i \in Index \cup {RegistryIndex} /\ IsTable(old, i)
    BY DEF TableIndex
  <2>2. \A i : IsTable(old, i) => Object(Mach(s, t, r), i) \in DOMAIN t
    BY <1>1 DEF IsTable
  <2>3. \A i \in TableIndex : Place(s, i)
    BY <1>3, <2>1 DEF Place
  <2> QED BY <2>1, <2>2, <2>3
<1>5. CanMakeTable => \E x \in TableObject : x \notin DOMAIN t
  BY <1>1 DEF CanMakeTable
<1> QED BY <1>2, <1>3, <1>4, <1>5

\* One lemma per action: the code and the manual leave machines that match.
LEMMA PushesKeeps ==
    ASSUME NEW s, NEW t, NEW u, NEW r, Matched(s, t, u, r), Pushes
    PROVE  CompatInv'
<1>1. Stack(s) /\ Matches(t, u) /\ old = Mach(s, t, r) /\ new = Mach(s, u, r)
  BY DEF Matched
<1>2. ASSUME NEW v \in Atom, Calls(Push(old, v), Push(new, v)) PROVE CompatInv'
  <2>1. /\ Push(old, v) = Mach(Append(s, v), t, r) /\ Push(new, v) = Mach(Append(s, v), u, r)
        /\ Stack(Append(s, v))
    BY <1>1, MachineOps, PushedIs
  <2> QED BY <1>1, <1>2, <2>1, Leaves
<1>3. ASSUME CanMakeTable, Calls(Newtable(old), Newtable(new)) PROVE CompatInv'
  <2> DEFINE n == Unused(t)
             t2 == With(t, Unused(t))
             u2 == With(u, Unused(u))
  <2>1. Unused(u) = n /\ Matches(t2, u2)
    BY <1>1, <1>3, IndexIs, WithMatches
  <2>2. Newtable(old) = Mach(Append(s, n), t2, r)
    BY <1>1, NewtableIs
  <2>3. Newtable(new) = Mach(Append(s, Unused(u)), u2, r)
    BY <1>1, NewtableIs
  <2>4. Stack(Append(s, n))
    BY <1>1, PushedIs
  <2> HIDE DEF n, t2, u2
  <2> QED BY <1>3, <2>1, <2>2, <2>3, <2>4, Leaves
<1> QED BY <1>2, <1>3 DEF Pushes

\* By CopiesRight.
LEMMA CopiesKeeps ==
    ASSUME NEW s, NEW t, NEW u, NEW r, Matched(s, t, u, r), Copies
    PROVE  CompatInv'
<1>1. /\ Stack(s) /\ Small(s) /\ Matches(t, u) /\ old = Mach(s, t, r) /\ new = Mach(s, u, r)
      /\ old.stk = s /\ new.stk = s
  BY Parts DEF Matched
<1>2. PICK i \in Index, j \in Index :
         Calls(lua_copy(old, i, j), On(new, [new.stk EXCEPT ![Slot53(new, j)] = Object(new, i)]))
  BY DEF Copies
<1>3. Index53(s, i) /\ Index53(s, j)
  BY IndexIs
<1> DEFINE k == Slot53(old, j)
           o == Object(old, i)
           e == [s EXCEPT ![k] = o]
<1>4. Slot53(new, j) = k /\ Object(new, i) = o
  BY <1>1, SameObjects
<1>5. lua_copy(old, i, j) = On(old, [old.stk EXCEPT ![k] = o])
  <2>1. lua_copy(old, i, j) = Overwritten(old, i, j)
    BY <1>1, <1>3, CopiesRight
  <2> QED BY <2>1 DEF Overwritten
<1>6. k \in 1..Len(s)
  BY <1>1, <1>3, AbsoluteIs
<1> HIDE DEF k, o
<1>7. Stack(e)
  BY <1>1, <1>6, ReplacesSlot
<1>8. lua_copy(old, i, j) = On(old, e) /\ [new.stk EXCEPT ![Slot53(new, j)] = Object(new, i)] = e
  BY <1>1, <1>4, <1>5
<1> HIDE DEF e
<1>9. On(old, e) = Mach(e, t, r) /\ On(new, e) = Mach(e, u, r)
  BY <1>1, MachineOps
<1>10. Calls(lua_copy(old, i, j), On(new, e))
  BY <1>2, <1>8
<1> QED BY <1>1, <1>7, <1>8, <1>9, <1>10, Leaves

\* What lua_rotate leaves depends on the stack only.
LEMMA RotatedIs ==
    ASSUME NEW s, Stack(s), NEW i, NEW by
    PROVE  \E f : Stack(f) /\ \A t, r : Rotated(Mach(s, t, r), i, by) = Mach(f, t, r)
<1> DEFINE n == Len(s)
           k == IF i < 0 THEN n + 1 + i ELSE i
           size == n - k + 1
           f == [p \in 1..n |-> IF p < k THEN s[p] ELSE s[k + ((p - k - by) % size)]]
<1>1. n \in Nat
  BY StackIs
<1>2. Stack(f)
  <2>1. f = [p \in 1..n |-> f[p]]
    OBVIOUS
  <2> HIDE DEF f, n
  <2> QED BY <1>1, <2>1, StackMade
<1>3. ASSUME NEW t, NEW r PROVE Rotated(Mach(s, t, r), i, by) = Mach(f, t, r)
  <2> DEFINE m == Mach(s, t, r)
  <2>1. m.stk = s
    BY Parts
  <2>2. Slot53(m, i) = k
    BY <2>1 DEF Slot53
  <2>3. Rotated(m, i, by) = On(m, f)
    <3> HIDE DEF m
    <3> QED BY <2>1, <2>2 DEF Rotated
  <2>4. On(m, f) = Mach(f, t, r)
    BY MachineOps
  <2> QED BY <2>3, <2>4
<1> QED BY <1>2, <1>3

\* By ThreeReversals.
LEMMA RotatesKeeps ==
    ASSUME NEW s, NEW t, NEW u, NEW r, Matched(s, t, u, r), Rotates
    PROVE  CompatInv'
<1>1. /\ Stack(s) /\ Small(s) /\ Matches(t, u) /\ old = Mach(s, t, r) /\ new = Mach(s, u, r)
  BY DEF Matched
<1>2. PICK i \in Index : \E n \in (Slot53(old, i) - Height - 1)..(Height + 1 - Slot53(old, i)) :
         Calls(lua_rotate(old, i, n), Rotated(new, i, n))
  BY DEF Rotates
<1>3. PICK n \in (Slot53(old, i) - Height - 1)..(Height + 1 - Slot53(old, i)) :
         Calls(lua_rotate(old, i, n), Rotated(new, i, n))
  BY <1>2
<1>4. /\ Index53(s, i)
      /\ n \in (Slot53(Mach(s, t, r), i) - Len(s) - 1)..(Len(s) + 1 - Slot53(Mach(s, t, r), i))
  BY <1>1, <1>3, IndexIs
<1>5. lua_rotate(old, i, n) = Rotated(old, i, n)
  BY <1>1, <1>4, RotatesRight
<1>6. PICK f : Stack(f) /\ \A t2, r2 : Rotated(Mach(s, t2, r2), i, n) = Mach(f, t2, r2)
  BY <1>1, RotatedIs
<1>7. Rotated(old, i, n) = Mach(f, t, r) /\ Rotated(new, i, n) = Mach(f, u, r)
  BY <1>1, <1>6
<1> QED BY <1>1, <1>3, <1>5, <1>6, <1>7, Leaves

\* By the chunk's call, which only caches its function.
LEMMA LengthsKeeps ==
    ASSUME NEW s, NEW t, NEW u, NEW r, Matched(s, t, u, r), Lengths
    PROVE  CompatInv'
<1>1. /\ Stack(s) /\ Matches(t, u) /\ old = Mach(s, t, r) /\ new = Mach(s, u, r)
      /\ old.tab = t /\ new.tab = u
  BY Parts DEF Matched
<1>2. PICK i \in TableIndex :
         Calls(luaL_len(old, i), Returns(new, Objlen(new, Object(new, i))))
  BY DEF Lengths
<1> DEFINE o == Object(old, i)
           l == Objlen(old, o)
<1>3. o \in DOMAIN t
  BY <1>1, IndexIs
<1>4. Object(new, i) = o
  BY <1>1, SameObjects
<1>5. luaL_len(old, i) = Returns(old, l)
  BY <1>1, MeasuresRight
<1>6. Objlen(new, o) = l
  <2> HIDE DEF o
  <2>1. {k \in Key : t[o][k] # NilValue} = {k \in Key : u[o][k] # NilValue}
    BY <1>1, <1>3, MatchesThere
  <2> QED BY <1>1, <2>1 DEF Objlen
<1>7. Returns(old, l) = Mach(s, t, l) /\ Returns(new, l) = Mach(s, u, l)
  <2> HIDE DEF l
  <2> QED BY <1>1, MachineOps
<1> HIDE DEF o, l
<1>8. Calls(luaL_len(old, i), Returns(new, l))
  BY <1>2, <1>4, <1>6
<1> QED BY <1>1, <1>5, <1>7, <1>8, Leaves

\* Reading a table gives the same value on both machines.
LEMMA GotIs ==
    ASSUME NEW s, NEW t, NEW u, NEW r, Matched(s, t, u, r), NEW i \in TableIndex, NEW k \in Key
    PROVE  \E v, x : /\ Got(old, i, k) = Mach(Append(s, v), t, x)
                     /\ Got(new, i, k) = Mach(Append(s, v), u, x)
<1>1. /\ Matches(t, u) /\ DOMAIN t = DOMAIN u /\ old = Mach(s, t, r) /\ new = Mach(s, u, r)
      /\ old.tab = t /\ new.tab = u
  BY Parts DEF Matched, Matches
<1> DEFINE o == Object(old, i)
           v == t[o][k]
           x == TypeOf(old, v)
<1>2. o \in DOMAIN t /\ Object(new, i) = o
  BY <1>1, IndexIs, SameObjects
<1>3. u[o][k] = v
  BY <1>1, <1>2, MatchesThere
<1> HIDE DEF v
<1>4. TypeOf(new, v) = x
  BY <1>1 DEF TypeOf
<1> HIDE DEF x, o
<1>5. Got(old, i, k) = Returns(Push(old, v), x) /\ Got(new, i, k) = Returns(Push(new, v), x)
  BY <1>1, <1>2, <1>3, <1>4 DEF Got, v, x, o
<1>6. /\ Push(old, v) = Mach(Append(s, v), t, r) /\ Push(new, v) = Mach(Append(s, v), u, r)
      /\ Returns(Mach(Append(s, v), t, r), x) = Mach(Append(s, v), t, x)
      /\ Returns(Mach(Append(s, v), u, r), x) = Mach(Append(s, v), u, x)
  BY <1>1, MachineOps
<1> QED BY <1>5, <1>6

\* luaL_getsubtable gives the same table on both, or makes the same one.
LEMMA SubtableIs ==
    ASSUME NEW s, NEW t, NEW u, NEW r, Matched(s, t, u, r), NEW i \in TableIndex, NEW k \in Key,
           CanMakeTable
    PROVE  \E v, t2, u2, x : /\ Subtable(old, i, k) = Mach(Append(s, v), t2, x)
                             /\ Subtable(new, i, k) = Mach(Append(s, v), u2, x)
                             /\ Matches(t2, u2)
<1>1. /\ Stack(s) /\ Matches(t, u) /\ DOMAIN t = DOMAIN u
      /\ old = Mach(s, t, r) /\ new = Mach(s, u, r) /\ old.tab = t /\ new.tab = u
  BY Parts DEF Matched, Matches
<1> DEFINE o == Object(old, i)
           x == t[o][k]
           n == Unused(t)
           t1 == With(t, n)
           u1 == With(u, n)
           t2 == Put(t1, o, k, n)
           u2 == Put(u1, o, k, n)
<1>2. o \in DOMAIN t /\ Object(new, i) = o
  BY <1>1, IndexIs, SameObjects
<1>3. u[o][k] = x
  BY <1>1, <1>2, MatchesThere
<1>4. Unused(u) = n /\ Matches(t1, u1) /\ DOMAIN t \subseteq DOMAIN t1
  <2>1. \E y \in TableObject : y \notin DOMAIN t
    BY IndexIs
  <2> QED BY <1>1, <2>1, WithMatches
<1>5. Newtable(old) = Mach(Append(s, n), t1, r) /\ Newtable(new) = Mach(Append(s, n), u1, r)
  BY <1>1, <1>4, NewtableIs
<1> HIDE DEF n
<1>6. Matches(t2, u2)
  <2> HIDE DEF t1, u1, o
  <2>1. o \in DOMAIN t1 /\ k \in Key \cup {LoadedKey}
    BY <1>2, <1>4
  <2> QED BY <1>4, <2>1, PutMatches
<1> HIDE DEF x, o, t1, u1
<1>7. /\ Top(Mach(Append(s, n), t1, r)) = n /\ Top(Mach(Append(s, n), u1, r)) = n
  BY <1>1, Parts, OneOnTop
<1>8. /\ Subtable(old, i, k) = IF x \in DOMAIN t THEN Returns(Push(old, x), 1)
                               ELSE Returns(Stored(Mach(Append(s, n), t1, r), o, k, n), 0)
      /\ Subtable(new, i, k) = IF x \in DOMAIN t THEN Returns(Push(new, x), 1)
                               ELSE Returns(Stored(Mach(Append(s, n), u1, r), o, k, n), 0)
  <2>1. old.tab[Object(old, i)][k] = x /\ new.tab[Object(new, i)][k] = x /\ Object(old, i) = o
    BY <1>1, <1>2, <1>3 DEF x, o
  <2> QED BY <1>1, <1>2, <1>5, <1>7, <2>1 DEF Subtable
<1>9. CASE x \in DOMAIN t
  <2>1. /\ Push(old, x) = Mach(Append(s, x), t, r) /\ Push(new, x) = Mach(Append(s, x), u, r)
        /\ Returns(Mach(Append(s, x), t, r), 1) = Mach(Append(s, x), t, 1)
        /\ Returns(Mach(Append(s, x), u, r), 1) = Mach(Append(s, x), u, 1)
    BY <1>1, MachineOps
  <2>2. /\ Subtable(old, i, k) = Mach(Append(s, x), t, 1)
        /\ Subtable(new, i, k) = Mach(Append(s, x), u, 1)
    BY <1>8, <1>9, <2>1
  <2> QED BY <1>1, <2>2
<1>10. CASE x \notin DOMAIN t
  <2>1. /\ Stored(Mach(Append(s, n), t1, r), o, k, n) = Mach(Append(s, n), t2, r)
        /\ Stored(Mach(Append(s, n), u1, r), o, k, n) = Mach(Append(s, n), u2, r)
    BY StoredIs
  <2> HIDE DEF t2, u2
  <2>2. /\ Returns(Mach(Append(s, n), t2, r), 0) = Mach(Append(s, n), t2, 0)
        /\ Returns(Mach(Append(s, n), u2, r), 0) = Mach(Append(s, n), u2, 0)
    BY MachineOps
  <2>3. /\ Subtable(old, i, k) = Mach(Append(s, n), t2, 0)
        /\ Subtable(new, i, k) = Mach(Append(s, n), u2, 0)
    BY <1>8, <1>10, <2>1, <2>2
  <2> QED BY <1>6, <2>3
<1> QED BY <1>9, <1>10

\* By GotIs and SubtableIs.
LEMMA GetsKeeps ==
    ASSUME NEW s, NEW t, NEW u, NEW r, Matched(s, t, u, r), Gets
    PROVE  CompatInv'
<1>1. /\ Stack(s) /\ Small(s) /\ Matches(t, u) /\ old = Mach(s, t, r) /\ new = Mach(s, u, r)
  BY DEF Matched
<1>2. PICK i \in TableIndex, k \in Key :
        \/ Calls(lua_rawgetp(old, i, k), Got(new, i, k))
        \/ Calls(lua_geti(old, i, k), Got(new, i, k))
        \/ CanMakeTable /\ Calls(luaL_getsubtable(old, i, k), Subtable(new, i, k))
  BY DEF Gets
<1>3. Place(s, i)
  BY IndexIs
<1>4. /\ lua_rawgetp(old, i, k) = Got(old, i, k) /\ lua_geti(old, i, k) = Got(old, i, k)
      /\ luaL_getsubtable(old, i, k) = Subtable(old, i, k)
  BY <1>1, <1>3, GetsRight, SubtablesRight
<1>5. CASE \/ Calls(lua_rawgetp(old, i, k), Got(new, i, k))
           \/ Calls(lua_geti(old, i, k), Got(new, i, k))
  <2>1. PICK v, x : /\ Got(old, i, k) = Mach(Append(s, v), t, x)
                    /\ Got(new, i, k) = Mach(Append(s, v), u, x)
    BY GotIs
  <2>2. Stack(Append(s, v))
    BY <1>1, PushedIs
  <2> QED BY <1>1, <1>4, <1>5, <2>1, <2>2, Leaves
<1>6. CASE CanMakeTable /\ Calls(luaL_getsubtable(old, i, k), Subtable(new, i, k))
  <2>1. PICK v, t2, u2, x : /\ Subtable(old, i, k) = Mach(Append(s, v), t2, x)
                            /\ Subtable(new, i, k) = Mach(Append(s, v), u2, x)
                            /\ Matches(t2, u2)
    BY <1>6, SubtableIs
  <2>2. Stack(Append(s, v))
    BY <1>1, PushedIs
  <2> QED BY <1>4, <1>6, <2>1, <2>2, Leaves
<1> QED BY <1>2, <1>5, <1>6

\* By PutMatches; an index is made absolute before the key goes below the value.
LEMMA SetsKeeps ==
    ASSUME NEW s, NEW t, NEW u, NEW r, Matched(s, t, u, r), Sets
    PROVE  CompatInv'
<1>1. /\ Stack(s) /\ Small(s) /\ Matches(t, u) /\ old = Mach(s, t, r) /\ new = Mach(s, u, r)
  BY DEF Matched
<1>2. PICK i \in TableIndex, k \in Key :
        /\ FindsTable(old, i, k)
        /\ \/ Calls(lua_rawsetp(old, i, k), Assigned(new, i, k))
           \/ Calls(lua_seti(old, i, k), Assigned(new, i, k))
  BY DEF Sets
<1>3. Len(s) > 0 /\ Len(s) \in Nat
  BY IndexIs DEF Sets
<1> DEFINE o == Object(old, i)
           v == At(s, -1)
           p == Popped(s, 1)
           t2 == Put(t, o, k, v)
           u2 == Put(u, o, k, v)
<1>4. /\ lua_rawsetp(old, i, k) = Stored(Pop(old, 1), o, k, Top(old))
      /\ lua_seti(old, i, k) = Stored(Pop(old, 1), o, k, Top(old))
  <2>1. lua_rawsetp(old, i, k) = Assigned(old, i, k) /\ lua_seti(old, i, k) = Assigned(old, i, k)
    BY <1>1, <1>2, <1>3, SetsRight
  <2> QED BY <2>1 DEF Assigned
<1>5. o \in DOMAIN t /\ Object(new, i) = o
  BY <1>1, IndexIs, SameObjects
<1>6. Stack(p)
  BY <1>1, <1>3, PoppedTop
<1>7. Pop(old, 1) = Mach(p, t, r) /\ Pop(new, 1) = Mach(p, u, r) /\ Top(old) = v /\ Top(new) = v
  BY <1>1, MachineOps
<1> HIDE DEF o, v, p
<1>8. /\ Stored(Mach(p, t, r), o, k, v) = Mach(p, t2, r)
      /\ Stored(Mach(p, u, r), o, k, v) = Mach(p, u2, r)
  BY StoredIs
<1>9. Matches(t2, u2)
  <2>1. k \in Key \cup {LoadedKey}
    OBVIOUS
  <2> QED BY <1>1, <1>5, <2>1, PutMatches
<1> HIDE DEF t2, u2
<1>10. /\ lua_rawsetp(old, i, k) = Mach(p, t2, r) /\ lua_seti(old, i, k) = Mach(p, t2, r)
       /\ Assigned(new, i, k) = Mach(p, u2, r)
  BY <1>4, <1>5, <1>7, <1>8 DEF Assigned
<1> QED BY <1>2, <1>6, <1>9, <1>10, Leaves

\* Only the value itself is not found, by KeyBelowIs.
LEMMA SetsIntoItselfKeeps ==
    ASSUME NEW s, NEW t, NEW u, NEW r, Matched(s, t, u, r), SetsIntoItself
    PROVE  CompatInv'
<1>1. /\ Stack(s) /\ Small(s) /\ Matches(t, u) /\ Tables(u) /\ DOMAIN u = DOMAIN t
      /\ old = Mach(s, t, r) /\ new = Mach(s, u, r)
  BY DEF Matched, Matches
<1>2. PICK i \in TableIndex, k \in Key : ~FindsTable(old, i, k) /\ new' = Assigned(new, i, k)
  BY DEF SetsIntoItself
<1>3. Height = Len(s) /\ Len(s) > 0 /\ Len(s) \in Nat /\ Len(s) <= 8000 /\ Place(s, i)
  BY IndexIs DEF SetsIntoItself
<1> DEFINE o == Object(new, i)
           v == At(s, -1)
           p == Popped(s, 1)
           u2 == Put(u, o, k, v)
<1>4. i = -1 \/ i = Len(s)
  <2>1. \A j : Place(s, j) /\ j # -1 /\ j # Len(s) => FindsTable(Mach(s, t, r), j, k)
    <3>1. Small(s) /\ Len(s) > 0
      BY <1>1, <1>3
    <3> QED BY <3>1, KeyBelowIs
  <2>2. ~FindsTable(Mach(s, t, r), i, k)
    BY <1>1, <1>2
  <2> QED BY <1>3, <2>1, <2>2
<1>5. o = v
  <2>1. o = IF i = RegistryIndex THEN Registry ELSE At(s, i)
    BY <1>1, MachineOps
  <2>2. i # RegistryIndex /\ At(s, i) = s[Len(s)]
    BY <1>3, <1>4 DEF RegistryIndex, At, Slot
  <2>3. v = s[Len(s)]
    BY <1>1, <1>3, KeyBelowIs
  <2> HIDE DEF o, v
  <2> QED BY <2>1, <2>2, <2>3
<1>6. o \in DOMAIN u
  BY <1>1, IndexIs, SameObjects
<1>7. new' = Mach(p, u2, r)
  <2>1. Pop(new, 1) = Mach(p, u, r) /\ Top(new) = v
    BY <1>1, MachineOps
  <2>2. Stored(Mach(p, u, r), o, k, v) = Mach(p, u2, r)
    BY StoredIs
  <2>3. new' = Stored(Pop(new, 1), o, k, Top(new))
    BY <1>2 DEF Assigned
  <2> HIDE DEF o, v, p, u2
  <2> QED BY <2>1, <2>2, <2>3
<1> HIDE DEF o, v, p
<1>8. DOMAIN u2 = DOMAIN u /\ u2[o][k] = v
  <2>1. k \in Cell
    BY Names
  <2> QED BY <1>1, <1>6, <2>1, PutIs
<1>9. new'.tab = u2
  <2> HIDE DEF u2
  <2> QED BY <1>7, Parts
<1>10. HoldsItself(new)'
  <2> HIDE DEF u2
  <2>1. o \in DOMAIN new'.tab /\ new'.tab[o][k] = o
    BY <1>5, <1>6, <1>8, <1>9
  <2> QED BY <2>1 DEF HoldsItself
<1> QED BY <1>10 DEF CompatInv, SetsIntoItself

\* By UpvaluesPushed.
LEMMA SetsFunctionsKeeps ==
    ASSUME NEW s, NEW t, NEW u, NEW r, Matched(s, t, u, r), SetsFunctions
    PROVE  CompatInv'
<1>1. /\ Stack(s) /\ Small(s) /\ Matches(t, u) /\ old = Mach(s, t, r) /\ new = Mach(s, u, r)
      /\ old.stk = s /\ new.stk = s /\ old.tab = t
  BY Parts DEF Matched
<1>2. PICK nup \in 0..(Height - 1), k \in Key :
        /\ IsTable(old, -(nup + 1))
        /\ Calls(luaL_setfuncs(old, k, "f", nup), Setfuncs(new, k, "f", nup))
  BY DEF SetsFunctions
<1>3. Len(s) \in Nat /\ Len(s) <= 8000 /\ nup \in 0..(Len(s) - 1)
  BY IndexIs
<1> DEFINE o == At(s, -(nup + 1))
           c == [fn |-> "f", up |-> SubSeq(s, Len(s) - nup + 1, Len(s))]
           p == Popped(s, nup)
           t2 == Put(t, o, k, c)
           u2 == Put(u, o, k, c)
<1>4. luaL_setfuncs(old, k, "f", nup) = Setfuncs(old, k, "f", nup)
  BY <1>1, <1>3, SetsFunctionsRight
<1>5. o \in DOMAIN t
  <2>1. Object(old, -(nup + 1)) = IF -(nup + 1) = RegistryIndex THEN Registry ELSE o
    BY <1>1, MachineOps
  <2>2. -(nup + 1) # RegistryIndex
    BY <1>3 DEF RegistryIndex
  <2> QED BY <1>1, <1>2, <2>1, <2>2 DEF IsTable
<1>6. Stack(p)
  <2>1. nup \in 0..Len(s)
    BY <1>3
  <2> QED BY <1>1, <2>1, PoppedTop
<1>7. Pop(old, nup) = Mach(p, t, r) /\ Pop(new, nup) = Mach(p, u, r)
  BY <1>1, MachineOps
<1>8. /\ Setfuncs(old, k, "f", nup) = Stored(Pop(old, nup), o, k, c)
      /\ Setfuncs(new, k, "f", nup) = Stored(Pop(new, nup), o, k, c)
  BY <1>1 DEF Setfuncs
<1> HIDE DEF o, c, p
<1>9. /\ Stored(Mach(p, t, r), o, k, c) = Mach(p, t2, r)
      /\ Stored(Mach(p, u, r), o, k, c) = Mach(p, u2, r)
  BY StoredIs
<1>10. Matches(t2, u2)
  <2>1. k \in Key \cup {LoadedKey}
    OBVIOUS
  <2> QED BY <1>1, <1>5, <2>1, PutMatches
<1> HIDE DEF t2, u2
<1>11. /\ luaL_setfuncs(old, k, "f", nup) = Mach(p, t2, r)
       /\ Setfuncs(new, k, "f", nup) = Mach(p, u2, r)
  BY <1>4, <1>7, <1>8, <1>9
<1> QED BY <1>2, <1>6, <1>10, <1>11, Leaves

\* By the chunk's calls, with the operator before the operands.
LEMMA ComputesKeeps ==
    ASSUME NEW s, NEW t, NEW u, NEW r, Matched(s, t, u, r), Computes
    PROVE  CompatInv'
<1>1. /\ Stack(s) /\ Small(s) /\ Matches(t, u) /\ old = Mach(s, t, r) /\ new = Mach(s, u, r)
      /\ old.stk = s /\ new.stk = s /\ t[Registry]["arith"] \in {NilValue, ChunkFunction("arith")}
  BY Parts DEF Matched, Matches, Chunk
<1>2. PICK op \in {"add", "unm"} : Calls(lua_arith(old, op), Arith(new, op))
  BY DEF Computes
<1>3. Len(s) \in Nat /\ Len(s) > 1
  BY IndexIs DEF Computes
<1> DEFINE n == IF op = "unm" THEN 1 ELSE 2
           e == Append(Popped(s, n), <<op>> \o SubSeq(s, Len(s) - n + 1, Len(s)))
           t2 == Cached(t, "arith")
<1>4. lua_arith(old, op) = Keeps(Arith(old, op), "arith")
  BY <1>1, <1>3, ComputesRight
<1>5. Arith(old, op) = Mach(e, t, r) /\ Arith(new, op) = Mach(e, u, r)
  <2> DEFINE v == <<op>> \o SubSeq(s, Len(s) - n + 1, Len(s))
             p == Popped(s, n)
  <2>1. Pop(old, n) = Mach(p, t, r) /\ Pop(new, n) = Mach(p, u, r)
    <3> HIDE DEF n
    <3> QED BY <1>1, MachineOps
  <2>2. Arith(old, op) = Push(Pop(old, n), v) /\ Arith(new, op) = Push(Pop(new, n), v)
    BY <1>1 DEF Arith
  <2>3. e = Append(p, v)
    OBVIOUS
  <2> HIDE DEF v, p, n, e
  <2>4. /\ Push(Mach(p, t, r), v) = Mach(Append(p, v), t, r)
        /\ Push(Mach(p, u, r), v) = Mach(Append(p, v), u, r)
    BY MachineOps
  <2> QED BY <2>1, <2>2, <2>3, <2>4
<1>6. Stack(e)
  <2>1. n \in 0..Len(s)
    BY <1>3
  <2> HIDE DEF n
  <2>2. Stack(Popped(s, n))
    BY <1>1, <2>1, PoppedTop
  <2> QED BY <2>2, PushedIs
<1> HIDE DEF e
<1>7. Keeps(Mach(e, t, r), "arith") = Mach(e, t2, r)
  BY KeepsIs
<1>8. Matches(t2, u)
  BY <1>1, CachedMatches DEF Chunk
<1> HIDE DEF t2
<1>9. lua_arith(old, op) = Mach(e, t2, r)
  BY <1>4, <1>5, <1>7
<1> QED BY <1>2, <1>5, <1>6, <1>8, <1>9, Leaves

\* By ComparesRight, the comparison with the chunk's call.
LEMMA ComparesKeeps ==
    ASSUME NEW s, NEW t, NEW u, NEW r, Matched(s, t, u, r), Compares
    PROVE  CompatInv'
<1>1. /\ Stack(s) /\ Small(s) /\ Matches(t, u) /\ old = Mach(s, t, r) /\ new = Mach(s, u, r)
      /\ t[Registry]["compare"] \in {NilValue, ChunkFunction("compare")}
  BY DEF Matched, Matches, Chunk
<1>2. PICK i \in Index, j \in Index :
        Calls(lua_compare(old, i, j), Returns(new, <<"le", Object(new, i), Object(new, j)>>))
  BY DEF Compares
<1> DEFINE le == <<"le", Object(old, i), Object(old, j)>>
           t2 == Cached(t, "compare")
<1>3. Index53(s, i) /\ Index53(s, j)
  BY IndexIs
<1>4. lua_compare(old, i, j) = Keeps(Returns(old, le), "compare")
  BY <1>1, <1>3, ComparesRight
<1>5. <<"le", Object(new, i), Object(new, j)>> = le
  BY <1>1, SameObjects
<1> HIDE DEF le
<1>6. Returns(old, le) = Mach(s, t, le) /\ Returns(new, le) = Mach(s, u, le)
  BY <1>1, MachineOps
<1>7. Keeps(Mach(s, t, le), "compare") = Mach(s, t2, le)
  BY KeepsIs
<1>8. Matches(t2, u)
  BY <1>1, CachedMatches DEF Chunk
<1> HIDE DEF t2
<1>9. lua_compare(old, i, j) = Mach(s, t2, le) /\ Calls(lua_compare(old, i, j), Returns(new, le))
  BY <1>2, <1>4, <1>5, <1>6, <1>7
<1> QED BY <1>1, <1>6, <1>8, <1>9, Leaves

\* The table of loaded modules, and what it holds, is the same.
LEMMA LoadedMatches ==
    ASSUME NEW t, NEW u, Matches(t, u), \E x \in TableObject : x \notin DOMAIN t
    PROVE  /\ LoadedFrom(t) = LoadedFrom(u) /\ Matches(WithLoaded(t), WithLoaded(u))
           /\ LoadedFrom(t) \in DOMAIN WithLoaded(t)
           /\ Globals53 \in DOMAIN WithLoaded(t)
<1> DEFINE n == Unused(t)
           x == t[Registry][LoadedKey]
           t1 == With(t, n)
           u1 == With(u, n)
<1>1. /\ Registry \in DOMAIN t /\ Globals53 \in DOMAIN t /\ DOMAIN u = DOMAIN t
      /\ LoadedKey \in Key \cup {LoadedKey}
  BY DEF Matches, Tables
<1>2. u[Registry][LoadedKey] = x
  BY <1>1, MatchesThere
<1>3. /\ Unused(u) = n /\ Matches(t1, u1)
      /\ n \in DOMAIN t1 /\ DOMAIN t \subseteq DOMAIN t1
  BY WithMatches
<1> HIDE DEF n, t1, u1
<1>4. /\ Matches(Put(t1, Registry, LoadedKey, n), Put(u1, Registry, LoadedKey, n))
      /\ DOMAIN Put(t1, Registry, LoadedKey, n) = DOMAIN t1
  <2>1. Registry \in DOMAIN t1
    BY <1>1, <1>3
  <2> QED BY <1>1, <1>3, <2>1, PutMatches
<1> HIDE DEF x
<1>5. /\ LoadedFrom(t) = IF x \in DOMAIN t THEN x ELSE n
      /\ LoadedFrom(u) = IF x \in DOMAIN t THEN x ELSE n
  BY <1>1, <1>2, <1>3 DEF LoadedFrom, x, n
<1>6. /\ WithLoaded(t) = IF x \in DOMAIN t THEN t ELSE Put(t1, Registry, LoadedKey, n)
      /\ WithLoaded(u) = IF x \in DOMAIN t THEN u ELSE Put(u1, Registry, LoadedKey, n)
  <2>1. /\ WithLoaded(t) = IF x \in DOMAIN t THEN t
                           ELSE Put(With(t, Unused(t)), Registry, LoadedKey, Unused(t))
        /\ WithLoaded(u) = IF u[Registry][LoadedKey] \in DOMAIN u THEN u
                           ELSE Put(With(u, Unused(u)), Registry, LoadedKey, Unused(u))
    BY DEF WithLoaded, x
  <2> QED BY <1>1, <1>2, <1>3, <2>1 DEF n, t1, u1
<1>7. CASE x \in DOMAIN t
  BY <1>1, <1>5, <1>6, <1>7
<1>8. CASE x \notin DOMAIN t
  BY <1>1, <1>3, <1>4, <1>5, <1>6, <1>8
<1> QED BY <1>7, <1>8

\* By RequiresRight.
LEMMA RequiresKeeps ==
    ASSUME NEW s, NEW t, NEW u, NEW r, Matched(s, t, u, r), Requires
    PROVE  CompatInv'
<1>1. /\ Stack(s) /\ Small(s) /\ Matches(t, u) /\ Tables(t) /\ Tables(u) /\ DOMAIN u = DOMAIN t
      /\ old = Mach(s, t, r) /\ new = Mach(s, u, r)
  BY DEF Matched, Matches
<1>2. PICK k \in Key, glb \in BOOLEAN : Calls(luaL_requiref(old, k, glb), Required(new, k, glb))
  BY DEF Requires
<1>3. /\ \E x \in TableObject : x \notin DOMAIN t
      /\ \E x \in TableObject : x \notin DOMAIN u
  BY <1>1, IndexIs DEF Requires
<1>4. k \in Key \cup {LoadedKey} /\ k \in Cell
  BY Names
<1> DEFINE v == FoundModule(t, k)
           t1 == WithLoaded(t)
           u1 == WithLoaded(u)
           l == LoadedFrom(t)
           t2 == Put(t1, l, k, v)
           u2 == Put(u1, l, k, v)
           t3 == IF glb THEN Put(t2, Globals53, k, v) ELSE t2
           u3 == IF glb THEN Put(u2, Globals53, k, v) ELSE u2
<1>5. /\ luaL_requiref(old, k, glb) = Required(old, k, glb)
      /\ Required(old, k, glb) = Mach(Append(s, v), WithModule(t, k, glb), r)
      /\ Required(new, k, glb) = Mach(Append(s, FoundModule(u, k)), WithModule(u, k, glb), r)
  BY <1>1, <1>3, <1>4, RequiresRight
<1>6. /\ LoadedFrom(u) = l /\ Matches(t1, u1) /\ l \in DOMAIN t1 /\ Globals53 \in DOMAIN t1
  BY <1>1, <1>3, LoadedMatches
<1>7. FoundModule(u, k) = v
  <2>1. t1[l][k] = u1[l][k]
    <3> HIDE DEF t1, u1, l
    <3> QED BY <1>4, <1>6, MatchesThere
  <2> QED BY <1>6, <2>1 DEF FoundModule
<1>8. WithModule(t, k, glb) = t3 /\ WithModule(u, k, glb) = u3
  BY <1>6, <1>7 DEF WithModule
<1> HIDE DEF v, t1, u1, l
<1>9. Matches(t2, u2) /\ DOMAIN t2 = DOMAIN t1
  BY <1>4, <1>6, PutMatches
<1> HIDE DEF t2, u2
<1>10. Matches(Put(t2, Globals53, k, v), Put(u2, Globals53, k, v))
  BY <1>4, <1>6, <1>9, PutMatches
<1>11. Matches(t3, u3)
  BY <1>9, <1>10
<1>12. Stack(Append(s, v))
  BY <1>1, PushedIs
<1> HIDE DEF t3, u3
<1>13. /\ luaL_requiref(old, k, glb) = Mach(Append(s, v), t3, r)
       /\ Required(new, k, glb) = Mach(Append(s, v), u3, r)
  BY <1>5, <1>7, <1>8
<1> QED BY <1>2, <1>11, <1>12, <1>13, Leaves

\* For a program, tables that match are the same.
LEMMA VisibleIs ==
    ASSUME NEW s, NEW t, NEW u, NEW r, Matches(t, u)
    PROVE  Visible(Mach(s, t, r)) = Visible(Mach(s, u, r))
<1> DEFINE K == Key \cup {LoadedKey}
           f == [k \in K |-> t[Registry][k]]
           g == [k \in K |-> u[Registry][k]]
<1>1. /\ Registry \in DOMAIN t /\ DOMAIN u = DOMAIN t
      /\ t = [x \in DOMAIN t |-> t[x]] /\ u = [x \in DOMAIN u |-> u[x]]
      /\ \A x \in DOMAIN t : t[x] = [k \in Cell |-> t[x][k]] /\ u[x] = [k \in Cell |-> u[x][k]]
      /\ \A x \in DOMAIN t : \A j \in Cell : (x = Registry /\ j \in Chunk) \/ t[x][j] = u[x][j]
  BY DEF Matches, Tables
<1>2. f = g
  BY <1>1, MatchesThere
<1>3. \A x \in DOMAIN t : x # Registry => t[x] = u[x]
  <2> SUFFICES ASSUME NEW x \in DOMAIN t, x # Registry PROVE t[x] = u[x]
    OBVIOUS
  <2>1. [k \in Cell |-> t[x][k]] = [k \in Cell |-> u[x][k]]
    BY <1>1
  <2> QED BY <1>1, <2>1
<1>4. Visible(Mach(s, t, r)) = Mach(s, [t EXCEPT ![Registry] = f], r)
  BY DEF Visible, Mach
<1>5. Visible(Mach(s, u, r)) = Mach(s, [u EXCEPT ![Registry] = g], r)
  BY DEF Visible, Mach
<1> HIDE DEF f, g
<1>6. [t EXCEPT ![Registry] = f] = [u EXCEPT ![Registry] = f]
  <2>1. [t EXCEPT ![Registry] = f] = [x \in DOMAIN t |-> IF x = Registry THEN f ELSE t[x]]
    BY <1>1
  <2>2. [u EXCEPT ![Registry] = f] = [x \in DOMAIN t |-> IF x = Registry THEN f ELSE u[x]]
    BY <1>1
  <2>3. [x \in DOMAIN t |-> IF x = Registry THEN f ELSE t[x]]
        = [x \in DOMAIN t |-> IF x = Registry THEN f ELSE u[x]]
    BY <1>3
  <2> QED BY <2>1, <2>2, <2>3
<1> QED BY <1>2, <1>4, <1>5, <1>6

\* The machines start the same.
LEMMA CompatStarts == CompatInit => CompatInv
<1> SUFFICES ASSUME CompatInit PROVE CompatInv
  OBVIOUS
<1> DEFINE t == [x \in {Registry, Globals53} |-> Empty]
<1>1. old = Mach(<<>>, t, NilValue) /\ new = Mach(<<>>, t, NilValue)
  BY DEF CompatInit, Mach
<1>2. Stack(<<>>) /\ Len(<<>>) <= MaxSlots
  <2>1. <<>> \in Seq({})
    OBVIOUS
  <2>2. Stack(<<>>)
    BY <2>1, StackOfAny
  <2> QED BY <2>2, CompatAssumption
<1>3. Empty = [k \in Cell |-> Empty[k]] /\ \A k \in Cell : Empty[k] = NilValue
  BY DEF Empty, Cell
<1>4. /\ DOMAIN t = {Registry, Globals53} /\ t = [x \in DOMAIN t |-> t[x]]
      /\ \A x \in DOMAIN t : t[x] = Empty
  OBVIOUS
<1> HIDE DEF t
<1>5. Tables(t)
  BY <1>3, <1>4 DEF Tables
<1>6. \A chunk \in Chunk : t[Registry][chunk] = NilValue
  BY <1>3, <1>4, Names
<1>7. Matches(t, t)
  BY <1>5, <1>6 DEF Matches
<1>8. old.stk = <<>> /\ old.tab = t /\ new.tab = t /\ old.ret = NilValue
  BY <1>1, Parts
<1>9. ~failed
  BY DEF CompatInit
<1> QED BY <1>1, <1>2, <1>7, <1>8, <1>9 DEF CompatInv, SameMachines

\* After a call that failed there are no more.
LEMMA FailedIsLast == failed /\ CompatNext => UNCHANGED compatVars
<1>1. Pushes \/ Copies \/ Rotates \/ Lengths \/ Gets => ~failed
  BY DEF Pushes, Copies, Rotates, Lengths, Gets, Calls
<1>2. Sets \/ SetsIntoItself \/ SetsFunctions => ~failed
  BY DEF Sets, SetsIntoItself, SetsFunctions, Calls
<1>3. Computes \/ Compares \/ Requires => ~failed
  BY DEF Computes, Compares, Requires, Calls
<1> QED BY <1>1, <1>2, <1>3 DEF CompatNext, CompatDone

\* Every call keeps them the same, or fails.
LEMMA CompatSteps == CompatInv /\ [CompatNext]_compatVars => CompatInv'
<1> SUFFICES ASSUME CompatInv, [CompatNext]_compatVars PROVE CompatInv'
  OBVIOUS
<1>1. CASE UNCHANGED compatVars
  BY <1>1 DEF CompatInv, SameMachines, HoldsItself, compatVars
<1>2. CASE failed
  BY <1>1, <1>2, FailedIsLast
<1>3. CASE ~failed /\ CompatNext
  <2>1. PICK s, t, u, r : Matched(s, t, u, r)
    BY <1>3, Before
  <2>2. CASE Pushes
    BY <2>1, <2>2, PushesKeeps
  <2>3. CASE Copies
    BY <2>1, <2>3, CopiesKeeps
  <2>4. CASE Rotates
    BY <2>1, <2>4, RotatesKeeps
  <2>5. CASE Lengths
    BY <2>1, <2>5, LengthsKeeps
  <2>6. CASE Gets
    BY <2>1, <2>6, GetsKeeps
  <2>7. CASE Sets
    BY <2>1, <2>7, SetsKeeps
  <2>8. CASE SetsIntoItself
    BY <2>1, <2>8, SetsIntoItselfKeeps
  <2>9. CASE SetsFunctions
    BY <2>1, <2>9, SetsFunctionsKeeps
  <2>10. CASE Computes
    BY <2>1, <2>10, ComputesKeeps
  <2>11. CASE Compares
    BY <2>1, <2>11, ComparesKeeps
  <2>12. CASE Requires
    BY <2>1, <2>12, RequiresKeeps
  <2>13. CASE CompatDone
    BY <1>1, <2>13 DEF CompatDone
  <2> QED BY <1>3, <2>2, <2>3, <2>4, <2>5, <2>6, <2>7, <2>8, <2>9, <2>10, <2>11, <2>12, <2>13
          DEF CompatNext
<1> QED BY <1>1, <1>2, <1>3

\* Matching machines show the program the same.
LEMMA CompatShows == CompatInv => CompatIsLua53
<1>1. ASSUME CompatInv, ~failed PROVE Visible(old) = Visible(new)
  <2>1. PICK s, t, u, r : Matched(s, t, u, r)
    BY <1>1, Before
  <2>2. Matches(t, u) /\ old = Mach(s, t, r) /\ new = Mach(s, u, r)
    BY <2>1 DEF Matched
  <2> QED BY <2>2, VisibleIs
<1> QED BY <1>1 DEF CompatInv, CompatIsLua53

CompatSpec == CompatInit /\ [][CompatNext]_compatVars

\* However many calls, slots, keys, values and tables there are: the machine that runs
\* compat-5.3.c has the stack and the result of the one that does what the manual of
\* Lua 5.3 says, and the same tables but for the chunks it keeps in the registry, until
\* a call fails on it alone; then the other has stored a table in itself.
THEOREM CompatInvariant == CompatSpec => []CompatInv
<1>1. CompatInit => CompatInv
  BY CompatStarts
<1>2. CompatInv /\ [CompatNext]_compatVars => CompatInv'
  BY CompatSteps
<1> QED BY <1>1, <1>2, PTL DEF CompatSpec

\* In any order of calls a program cannot tell which of the two it called, except by
\* storing a table in itself (lua_rawsetp and lua_seti, compat-5.3.c:126-132, 530-536),
\* the one call that fails where that of Lua 5.3 does not.
THEOREM CompatHolds == CompatSpec => []CompatIsLua53
BY CompatInvariant, CompatShows, PTL

-----------------------------------------------------------------------------
(* Compat53Buffer.                                                         *)

Bytes(n) == [i \in 1..n |-> i]

\* The stack of the C function while the buffer is at box p.
StackOf(p) == IF p = 0 THEN <<Other>> ELSE <<Other, Box(p)>>

-----------------------------------------------------------------------------
(* The inductive invariant.                                                *)

BufferTypes ==
    /\ ptr \in Nat
    /\ capacity \in 0..(SizeMod - 1)
    /\ nelems \in Nat /\ ready \in Nat /\ added \in Nat

\* The bytes added and those asked for are in what was allocated.
OpenBuffer ==
    /\ bs = StackOf(ptr)
    /\ memory = Bytes(added) /\ nelems = added
    /\ nelems + ready <= capacity

BufferInv ==
    /\ BufferTypes
    /\ bphase = "idle" => bs = <<Other>>
    /\ bphase = "open" => OpenBuffer
    /\ bphase = "result" => bs = <<Other, String(Bytes(added))>>

-----------------------------------------------------------------------------
(* Sequences and size_t.                                                   *)

\* Appending to short stacks.
LEMMA Appended ==
    /\ \A v, w : Append(<<v>>, w) = <<v, w>>
    /\ \A u, v, w : Append(<<u, v>>, w) = <<u, v, w>>
    /\ \A t, u, v, w : Append(<<t, u, v>>, w) = <<t, u, v, w>>
<1>1. ASSUME NEW v, NEW w PROVE Append(<<v>>, w) = <<v, w>>
  <2>1. Append(<<v>>, w) \in Seq({v, w}) /\ <<v, w>> \in Seq({v, w})
    OBVIOUS
  <2>2. Len(Append(<<v>>, w)) = 2 /\ \A i \in 1..2 : Append(<<v>>, w)[i] = <<v, w>>[i]
    OBVIOUS
  <2> QED BY <2>1, <2>2, SeqEqual
<1>2. ASSUME NEW u, NEW v, NEW w PROVE Append(<<u, v>>, w) = <<u, v, w>>
  <2>1. Append(<<u, v>>, w) \in Seq({u, v, w}) /\ <<u, v, w>> \in Seq({u, v, w})
    OBVIOUS
  <2>2. Len(Append(<<u, v>>, w)) = 3 /\ \A i \in 1..3 : Append(<<u, v>>, w)[i] = <<u, v, w>>[i]
    OBVIOUS
  <2> QED BY <2>1, <2>2, SeqEqual
<1>3. ASSUME NEW t, NEW u, NEW v, NEW w PROVE Append(<<t, u, v>>, w) = <<t, u, v, w>>
  <2>1. Append(<<t, u, v>>, w) \in Seq({t, u, v, w}) /\ <<t, u, v, w>> \in Seq({t, u, v, w})
    OBVIOUS
  <2>2. /\ Len(Append(<<t, u, v>>, w)) = 4
        /\ \A i \in 1..4 : Append(<<t, u, v>>, w)[i] = <<t, u, v, w>>[i]
    OBVIOUS
  <2> QED BY <2>1, <2>2, SeqEqual
<1> QED BY <1>1, <1>2, <1>3

\* lua_replace with -2 drops the value under the top.
LEMMA ReplacedBelowTop ==
    /\ \A a, b, c : Replaced(<<a, b, c>>, -2) = <<a, c>>
    /\ \A a, b, c, d : Replaced(<<a, b, c, d>>, -2) = <<a, b, d>>
<1>1. ASSUME NEW a, NEW b, NEW c PROVE Replaced(<<a, b, c>>, -2) = <<a, c>>
  <2> DEFINE s == <<a, b, c>>
  <2>1. /\ s \in Seq({a, b, c}) /\ Len(s) = 3 /\ s[1] = a /\ s[3] = c /\ Slot(s, -2) = 2
    BY DEF Slot
  <2> HIDE DEF s
  <2>i. -2 \in Int /\ Slot(s, -2) \in 1..(Len(s) - 1)
    BY <2>1
  <2>2. /\ Replaced(s, -2) \in Seq({a, b, c}) /\ Len(Replaced(s, -2)) = Len(s) - 1
        /\ \A j \in 1..(Len(s) - 1) :
              Replaced(s, -2)[j] = IF j = Slot(s, -2) THEN s[Len(s)] ELSE s[j]
    BY <2>1, <2>i, ReplacedIs, Zenon
  <2>3. /\ Replaced(s, -2) \in Seq({a, b, c}) /\ Len(Replaced(s, -2)) = 2
        /\ Replaced(s, -2)[1] = a /\ Replaced(s, -2)[2] = c
    BY <2>1, <2>2
  <2>4. Replaced(s, -2) = <<a, c>>
    BY <2>3, ShortStacks
  <2> QED BY <2>4 DEF s
<1>2. ASSUME NEW a, NEW b, NEW c, NEW d PROVE Replaced(<<a, b, c, d>>, -2) = <<a, b, d>>
  <2> DEFINE s == <<a, b, c, d>>
  <2>1. /\ s \in Seq({a, b, c, d}) /\ Len(s) = 4 /\ s[1] = a /\ s[2] = b /\ s[4] = d
        /\ Slot(s, -2) = 3
    BY DEF Slot
  <2> HIDE DEF s
  <2>i. -2 \in Int /\ Slot(s, -2) \in 1..(Len(s) - 1)
    BY <2>1
  <2>2. /\ Replaced(s, -2) \in Seq({a, b, c, d}) /\ Len(Replaced(s, -2)) = Len(s) - 1
        /\ \A j \in 1..(Len(s) - 1) :
              Replaced(s, -2)[j] = IF j = Slot(s, -2) THEN s[Len(s)] ELSE s[j]
    BY <2>1, <2>i, ReplacedIs, Zenon
  <2>3. /\ Replaced(s, -2) \in Seq({a, b, c, d}) /\ Len(Replaced(s, -2)) = 3
        /\ Replaced(s, -2)[1] = a /\ Replaced(s, -2)[2] = b /\ Replaced(s, -2)[3] = d
    BY <2>1, <2>2
  <2>4. Replaced(s, -2) = <<a, b, d>>
    BY <2>3, ShortStacks
  <2> QED BY <2>4 DEF s
<1> QED BY <1>1, <1>2

\* lua_insert with -2 exchanges the two on top.
LEMMA InsertedBelowTop == \A a, b, c : Inserted(<<a, b, c>>, -2) = <<a, c, b>>
<1> SUFFICES ASSUME NEW a, NEW b, NEW c PROVE Inserted(<<a, b, c>>, -2) = <<a, c, b>>
  OBVIOUS
<1> DEFINE s == <<a, b, c>>
<1>1. s \in Seq({a, b, c}) /\ Len(s) = 3 /\ s[1] = a /\ s[2] = b /\ s[3] = c /\ Slot(s, -2) = 2
  BY DEF Slot
<1> HIDE DEF s
<1>i. -2 \in Int /\ Slot(s, -2) \in 1..Len(s)
  BY <1>1
<1>2. /\ Inserted(s, -2) \in Seq({a, b, c}) /\ Len(Inserted(s, -2)) = Len(s)
        /\ \A j \in 1..Len(s) :
              Inserted(s, -2)[j] = IF j < Slot(s, -2) THEN s[j]
                       ELSE IF j = Slot(s, -2) THEN s[Len(s)] ELSE s[j - 1]
  BY <1>1, <1>i, InsertedIs, Zenon
<1>3. /\ Inserted(s, -2) \in Seq({a, b, c}) /\ Len(Inserted(s, -2)) = 3
      /\ Inserted(s, -2)[1] = a /\ Inserted(s, -2)[2] = c /\ Inserted(s, -2)[3] = b
  BY <1>1, <1>2
<1>4. Inserted(s, -2) = <<a, c, b>>
  BY <1>3, ShortStacks
<1> QED BY <1>4 DEF s

\* lua_remove drops the value at the index.
LEMMA RemovedTop ==
    /\ \A a, b : Removed(<<a, b>>, -1) = <<a>>
    /\ \A a, b, c : Removed(<<a, b, c>>, -2) = <<a, c>>
<1>1. ASSUME NEW a, NEW b PROVE Removed(<<a, b>>, -1) = <<a>>
  <2> DEFINE s == <<a, b>>
  <2>1. s \in Seq({a, b}) /\ Len(s) = 2 /\ s[1] = a /\ Slot(s, -1) = 2
    BY DEF Slot
  <2> HIDE DEF s
  <2>i. -1 \in Int /\ Slot(s, -1) \in 1..Len(s)
    BY <2>1
  <2>2. /\ Removed(s, -1) \in Seq({a, b}) /\ Len(Removed(s, -1)) = Len(s) - 1
        /\ \A j \in 1..(Len(s) - 1) :
              Removed(s, -1)[j] = IF j < Slot(s, -1) THEN s[j] ELSE s[j + 1]
    BY <2>1, <2>i, RemovedIs, Zenon
  <2>3. Removed(s, -1) \in Seq({a, b}) /\ Len(Removed(s, -1)) = 1 /\ Removed(s, -1)[1] = a
    BY <2>1, <2>2
  <2>4. Removed(s, -1) = <<a>>
    BY <2>3, ShortStacks
  <2> QED BY <2>4 DEF s
<1>2. ASSUME NEW a, NEW b, NEW c PROVE Removed(<<a, b, c>>, -2) = <<a, c>>
  <2> DEFINE s == <<a, b, c>>
  <2>1. s \in Seq({a, b, c}) /\ Len(s) = 3 /\ s[1] = a /\ s[3] = c /\ Slot(s, -2) = 2
    BY DEF Slot
  <2> HIDE DEF s
  <2>i. -2 \in Int /\ Slot(s, -2) \in 1..Len(s)
    BY <2>1
  <2>2. /\ Removed(s, -2) \in Seq({a, b, c}) /\ Len(Removed(s, -2)) = Len(s) - 1
        /\ \A j \in 1..(Len(s) - 1) :
              Removed(s, -2)[j] = IF j < Slot(s, -2) THEN s[j] ELSE s[j + 1]
    BY <2>1, <2>i, RemovedIs, Zenon
  <2>3. /\ Removed(s, -2) \in Seq({a, b, c}) /\ Len(Removed(s, -2)) = 2
        /\ Removed(s, -2)[1] = a /\ Removed(s, -2)[2] = c
    BY <2>1, <2>2
  <2>4. Removed(s, -2) = <<a, c>>
    BY <2>3, ShortStacks
  <2> QED BY <2>4 DEF s
<1> QED BY <1>1, <1>2

\* The bytes added follow those that are there.
LEMMA BytesAdded ==
    ASSUME NEW n \in Nat, NEW l \in Nat
    PROVE  Bytes(n) \o [i \in 1..l |-> n + i] = Bytes(n + l)
BY DEF Bytes

\* A sum below 2^w is kept.
LEMMA SizeSmall ==
    ASSUME NEW x \in 0..(SizeMod - 1)
    PROVE  x % SizeMod = x
BY BufferAssumption

\* A sum of two sizes wraps round once at most.
LEMMA SizeWraps ==
    ASSUME NEW x \in Int, x >= SizeMod, x < 2 * SizeMod
    PROVE  x % SizeMod = x - SizeMod
BY BufferAssumption

\* Every sum is a size after the wrap.
LEMMA SizeRange ==
    ASSUME NEW x \in Int
    PROVE  x % SizeMod \in 0..(SizeMod - 1)
BY BufferAssumption

\* However the sizes wrap, a capacity that is not found too small has room for s more bytes.
LEMMA GrowsEnough ==
    ASSUME BufferTypes, nelems <= capacity, NEW s \in 0..(SizeMod - 1), ~TooLarge(s), Grows(s)
    PROVE  /\ capacity' \in 0..(SizeMod - 1) /\ nelems + s <= capacity'
           /\ (nelems + s) % SizeMod = nelems + s
<1>1. SizeMod \in Nat /\ SizeMod > 1
  BY BufferAssumption
<1>2. Free = capacity - nelems
  <2>1. capacity - nelems \in 0..(SizeMod - 1)
    BY <1>1 DEF BufferTypes
  <2> QED BY <2>1, SizeSmall DEF Free
<1>3. capacity' \in 0..(SizeMod - 1) /\ nelems + s <= capacity'
  <2>1. CASE Free >= s
    BY <1>1, <1>2, <2>1 DEF Grows, BufferTypes
  <2>2. CASE Free < s
    <3>1. capacity' = NewCapacity(s) /\ NewCapacity(s) >= capacity
      <4>1. NewCapacity(s) \in Int
        BY SizeRange DEF NewCapacity, Doubled, BufferTypes
      <4> QED BY <1>1, <1>2, <2>2, <4>1 DEF Grows, TooLarge, BufferTypes
    <3>2. CASE (Doubled - nelems) % SizeMod < s
      <4>1. NewCapacity(s) = (nelems + s) % SizeMod
        BY <3>2 DEF NewCapacity
      <4>2. nelems + s < SizeMod
        <5> SUFFICES ASSUME nelems + s >= SizeMod PROVE FALSE
          BY <1>1 DEF BufferTypes
        <5>1. NewCapacity(s) = nelems + s - SizeMod
          BY <1>1, <4>1, SizeWraps DEF BufferTypes
        <5> QED BY <1>1, <3>1, <5>1 DEF BufferTypes
      <4>3. NewCapacity(s) = nelems + s
        <5>1. nelems + s \in 0..(SizeMod - 1)
          BY <1>1, <4>2 DEF BufferTypes
        <5> QED BY <4>1, <5>1, SizeSmall
      <4> QED BY <1>1, <3>1, <4>2, <4>3 DEF BufferTypes
    <3>3. CASE ~((Doubled - nelems) % SizeMod < s)
      <4>1. NewCapacity(s) = Doubled
        BY <3>3 DEF NewCapacity
      <4>2. Doubled \in 0..(SizeMod - 1)
        BY SizeRange DEF Doubled, BufferTypes
      <4>3. Doubled - nelems \in 0..(SizeMod - 1)
        BY <1>1, <3>1, <4>1, <4>2 DEF BufferTypes
      <4>4. (Doubled - nelems) % SizeMod = Doubled - nelems
        BY <4>3, SizeSmall
      <4> QED BY <1>1, <3>1, <3>3, <4>1, <4>2, <4>4 DEF BufferTypes
    <3> QED BY <3>2, <3>3
  <2> QED BY <1>1, <1>2, <2>1, <2>2 DEF BufferTypes
<1>4. nelems + s \in 0..(SizeMod - 1)
  BY <1>1, <1>3 DEF BufferTypes
<1> QED BY <1>3, <1>4, SizeSmall

\* The new box takes the place of the old one, on a stack s1 that has it on top.
LEMMA PreparedStack ==
    ASSUME BufferTypes, NEW s \in 0..(SizeMod - 1), Grows(s)
    PROVE  /\ ptr' \in Nat
           /\ Prepared(StackOf(ptr), s) = StackOf(ptr')
           /\ \A v : Prepared(BelowBox(Append(StackOf(ptr), v)), s) =
                        IF ptr' = 0 THEN <<Other, v>> ELSE <<Other, v, Box(ptr')>>
<1>1. ptr \in Nat
  BY DEF BufferTypes
<1>2. \A v : BelowBox(Append(StackOf(ptr), v)) =
                IF ptr = 0 THEN <<Other, v>> ELSE <<Other, v, Box(ptr)>>
  <2> SUFFICES ASSUME NEW v
               PROVE  BelowBox(Append(StackOf(ptr), v)) =
                         IF ptr = 0 THEN <<Other, v>> ELSE <<Other, v, Box(ptr)>>
    OBVIOUS
  <2>1. CASE ptr = 0
    <3>1. Append(StackOf(ptr), v) = <<Other, v>>
      BY <2>1, Appended, Zenon DEF StackOf
    <3> QED BY <2>1, <3>1 DEF BelowBox
  <2>2. CASE ptr # 0
    <3>1. Append(StackOf(ptr), v) = <<Other, Box(ptr), v>>
      BY <2>2, Appended, Zenon DEF StackOf
    <3>2. Inserted(<<Other, Box(ptr), v>>, -2) = <<Other, v, Box(ptr)>>
      BY InsertedBelowTop, Zenon
    <3> QED BY <2>2, <3>1, <3>2 DEF BelowBox
  <2> QED BY <2>1, <2>2
<1>3. CASE Free >= s
  <2>1. ptr' = ptr
    BY <1>3 DEF Grows
  <2>2. \A t : Prepared(t, s) = t
    BY <1>3 DEF Prepared
  <2> QED BY <1>1, <1>2, <2>1, <2>2
<1>4. CASE ~(Free >= s)
  <2>1. ptr' = ptr + 1 /\ ptr' # 0 /\ ptr' \in Nat
    BY <1>1, <1>4 DEF Grows
  <2>2. \A t : Prepared(t, s) =
                 IF ptr # 0 THEN Replaced(Append(t, Box(ptr')), -2) ELSE Append(t, Box(ptr'))
    BY <1>4, <2>1 DEF Prepared
  <2>3. Prepared(StackOf(ptr), s) = StackOf(ptr')
    <3>1. CASE ptr = 0
      BY <2>1, <2>2, <3>1, Appended DEF StackOf
    <3>2. CASE ptr # 0
      <4>1. Append(StackOf(ptr), Box(ptr')) = <<Other, Box(ptr), Box(ptr')>>
        BY <3>2, Appended, Zenon DEF StackOf
      <4>2. Replaced(<<Other, Box(ptr), Box(ptr')>>, -2) = <<Other, Box(ptr')>>
        BY ReplacedBelowTop, Zenon
      <4>3. Prepared(StackOf(ptr), s) = <<Other, Box(ptr')>>
        BY <2>2, <3>2, <4>1, <4>2
      <4> QED BY <2>1, <4>3 DEF StackOf
    <3> QED BY <3>1, <3>2
  <2>4. ASSUME NEW v
        PROVE  Prepared(BelowBox(Append(StackOf(ptr), v)), s) = <<Other, v, Box(ptr')>>
    <3>1. CASE ptr = 0
      <4>1. BelowBox(Append(StackOf(ptr), v)) = <<Other, v>>
        BY <1>2, <3>1
      <4>2. Append(<<Other, v>>, Box(ptr')) = <<Other, v, Box(ptr')>>
        BY Appended, Zenon
      <4> QED BY <2>2, <3>1, <4>1, <4>2
    <3>2. CASE ptr # 0
      <4>1. BelowBox(Append(StackOf(ptr), v)) = <<Other, v, Box(ptr)>>
        BY <1>2, <3>2
      <4>2. Append(<<Other, v, Box(ptr)>>, Box(ptr')) = <<Other, v, Box(ptr), Box(ptr')>>
        BY Appended, Zenon
      <4>3. Replaced(<<Other, v, Box(ptr), Box(ptr')>>, -2) = <<Other, v, Box(ptr')>>
        BY ReplacedBelowTop, Zenon
      <4> QED BY <2>2, <3>2, <4>1, <4>2, <4>3
    <3> QED BY <3>1, <3>2
  <2> QED BY <2>1, <2>3, <2>4
<1> QED BY <1>3, <1>4

-----------------------------------------------------------------------------
(* The steps.                                                              *)

\* The sizes of the calls fit in a size_t.
LEMMA SizesAre == 1 \in 0..(SizeMod - 1) /\ \A s \in Size : s \in 0..(SizeMod - 1)
BY BufferAssumption

\* One lemma per operation: it keeps the invariant.
LEMMA PrepbuffsizeOK ==
    ASSUME BufferInv, NEW s \in 0..(SizeMod - 1), Prepbuffsize(s)
    PROVE  BufferInv'
<1>1. bphase = "open" /\ BufferTypes /\ OpenBuffer /\ nelems <= capacity
  BY DEF Prepbuffsize, BufferInv, BufferTypes, OpenBuffer
<1>2. CASE Fails(s)
  BY <1>1, <1>2 DEF Fails, BufferInv, BufferTypes
<1>3. CASE /\ ~TooLarge(s) /\ Grows(s) /\ bs' = Prepared(bs, s) /\ ready' = s
           /\ UNCHANGED <<nelems, memory, added, bphase>>
  <2>1. /\ capacity' \in 0..(SizeMod - 1) /\ nelems + s <= capacity'
        /\ (nelems + s) % SizeMod = nelems + s
    BY <1>1, <1>3, GrowsEnough
  <2>2. ptr' \in Nat /\ bs' = StackOf(ptr')
    BY <1>1, <1>3, PreparedStack DEF OpenBuffer
  <2>3. BufferTypes'
    BY <1>1, <1>3, <2>1, <2>2 DEF BufferTypes
  <2>4. OpenBuffer'
    BY <1>1, <1>3, <2>1, <2>2 DEF OpenBuffer, StackOf, Other, Box
  <2> QED BY <1>1, <1>3, <2>3, <2>4 DEF BufferInv
<1> QED BY <1>2, <1>3 DEF Prepbuffsize

\* What Adds does, given that the stack is right when there is room for l bytes.
LEMMA AddsOK ==
    ASSUME BufferInv, NEW l \in 0..(SizeMod - 1), NEW s1, Adds(s1, l),
           Grows(l) => s1 = StackOf(ptr')
    PROVE  BufferInv'
<1>1. bphase = "open" /\ BufferTypes /\ OpenBuffer /\ nelems <= capacity
  BY DEF Adds, BufferInv, BufferTypes, OpenBuffer
<1>2. CASE Fails(l)
  BY <1>1, <1>2 DEF Fails, BufferInv, BufferTypes
<1>3. CASE /\ ~TooLarge(l) /\ Grows(l) /\ bs' = s1 /\ nelems' = (nelems + l) % SizeMod
           /\ memory' = memory \o Next_(l) /\ added' = added + l /\ ready' = 0
           /\ UNCHANGED bphase
  <2>1. /\ capacity' \in 0..(SizeMod - 1) /\ nelems + l <= capacity'
        /\ (nelems + l) % SizeMod = nelems + l
    BY <1>1, <1>3, GrowsEnough
  <2>2. ptr' \in Nat /\ bs' = StackOf(ptr')
    BY <1>1, <1>3, PreparedStack
  <2>3. BufferTypes'
    BY <1>1, <1>3, <2>1, <2>2 DEF BufferTypes
  <2>4. memory' = Bytes(added')
    <3>1. memory' = Bytes(added) \o [i \in 1..l |-> added + i] /\ added' = added + l
      BY <1>1, <1>3 DEF Next_, OpenBuffer
    <3>2. added \in Nat /\ l \in Nat
      BY <1>1, BufferAssumption DEF BufferTypes
    <3> QED BY <3>1, <3>2, BytesAdded
  <2>5. OpenBuffer'
    BY <1>1, <1>3, <2>1, <2>2, <2>4 DEF OpenBuffer, StackOf, Other, Box, BufferTypes
  <2> QED BY <1>1, <1>3, <2>3, <2>5 DEF BufferInv
<1> QED BY <1>2, <1>3 DEF Adds

\* Room is made before the bytes are copied.
LEMMA AddlstringOK ==
    ASSUME BufferInv, NEW l \in 0..(SizeMod - 1), Addlstring(l)
    PROVE  BufferInv'
<1>1. Adds(Prepared(bs, l), l) /\ BufferTypes /\ bs = StackOf(ptr)
  BY DEF Addlstring, Adds, BufferInv, OpenBuffer
<1>2. Grows(l) => Prepared(bs, l) = StackOf(ptr')
  BY <1>1, PreparedStack
<1> QED BY <1>1, <1>2, AddsOK

\* The string is below the top while the buffer's box moves, and popped at the end.
LEMMA AddvalueOK ==
    ASSUME BufferInv, NEW l \in 0..(SizeMod - 1), Addvalue(l)
    PROVE  BufferInv'
<1> DEFINE v == String(Next_(l))
           s1 == Prepared(BelowBox(Append(bs, v)), l)
           s2 == Removed(s1, IF ptr' # 0 THEN -2 ELSE -1)
<1>1. Adds(s2, l) /\ BufferTypes /\ bs = StackOf(ptr)
  BY DEF Addvalue, Adds, BufferInv, OpenBuffer
<1>2. ASSUME Grows(l) PROVE s2 = StackOf(ptr')
  <2> HIDE DEF v
  <2>1. s1 = IF ptr' = 0 THEN <<Other, v>> ELSE <<Other, v, Box(ptr')>>
    BY <1>1, <1>2, PreparedStack
  <2> HIDE DEF s1
  <2>2. CASE ptr' = 0
    <3>1. Removed(<<Other, v>>, -1) = <<Other>>
      BY RemovedTop, Zenon
    <3> QED BY <2>1, <2>2, <3>1 DEF StackOf
  <2>3. CASE ptr' # 0
    <3>1. Removed(<<Other, v, Box(ptr')>>, -2) = <<Other, Box(ptr')>>
      BY RemovedTop, Zenon
    <3> QED BY <2>1, <2>3, <3>1 DEF StackOf
  <2> QED BY <2>2, <2>3
<1> HIDE DEF s2
<1> QED BY <1>1, <1>2, AddsOK

\* The bytes are those that were made ready.
LEMMA AddsizeOK ==
    ASSUME BufferInv, NEW l \in 0..(SizeMod - 1), Addsize(l)
    PROVE  BufferInv'
<1>1. bphase = "open" /\ BufferTypes /\ OpenBuffer /\ l \in 1..ready
  BY DEF Addsize, BufferInv
<1>2. nelems + l \in 0..(SizeMod - 1) /\ nelems + l <= capacity
  BY <1>1, BufferAssumption DEF OpenBuffer, BufferTypes
<1>3. nelems' = nelems + l
  BY <1>2, SizeSmall DEF Addsize
<1>4. memory' = Bytes(added')
  <2>1. memory' = Bytes(added) \o [i \in 1..l |-> added + i] /\ added' = added + l
    BY <1>1 DEF Addsize, Next_, OpenBuffer
  <2>2. added \in Nat /\ l \in Nat
    BY <1>1, BufferAssumption DEF BufferTypes
  <2> QED BY <2>1, <2>2, BytesAdded
<1> QED BY <1>1, <1>2, <1>3, <1>4
        DEF Addsize, BufferInv, BufferTypes, OpenBuffer, StackOf, Other, Box

\* A byte is added in the room there is, or after room for it was made.
LEMMA AddcharOK ==
    ASSUME BufferInv, Addchar
    PROVE  BufferInv'
<1>1. CASE nelems < capacity
  <2>1. /\ bphase = "open" /\ BufferTypes /\ OpenBuffer
        /\ nelems' = nelems + 1 /\ memory' = memory \o Next_(1) /\ added' = added + 1
        /\ ready' = 0 /\ UNCHANGED <<bs, ptr, capacity, bphase>>
    BY <1>1 DEF Addchar, BufferInv
  <2>2. memory' = Bytes(added')
    BY <2>1, BytesAdded DEF Next_, OpenBuffer, BufferTypes
  <2> QED BY <1>1, <2>1, <2>2 DEF BufferInv, BufferTypes, OpenBuffer, StackOf, Other, Box
<1>2. CASE ~(nelems < capacity)
  BY <1>2, SizesAre, AddlstringOK DEF Addchar
<1> QED BY <1>1, <1>2

\* The result is the content, and the box goes.
LEMMA PushresultOK ==
    ASSUME BufferInv, Pushresult
    PROVE  BufferInv'
<1>1. /\ bphase = "open" /\ BufferTypes /\ OpenBuffer /\ bphase' = "result"
      /\ UNCHANGED <<ptr, capacity, nelems, memory, ready, added>>
  BY DEF Pushresult, BufferInv
<1>2. SubSeq(memory, 1, nelems) = Bytes(added)
  <2>1. Bytes(added) \in Seq(Int) /\ Len(Bytes(added)) = added
    BY <1>1 DEF Bytes, BufferTypes
  <2> QED BY <1>1, <2>1, SubSeqFull DEF OpenBuffer
<1>3. bs' = <<Other, String(Bytes(added))>>
  <2> DEFINE r == String(Bytes(added))
  <2> HIDE DEF r
  <2>1. bs' = IF ptr # 0 THEN Replaced(Append(StackOf(ptr), r), -2) ELSE Append(StackOf(ptr), r)
    BY <1>1, <1>2 DEF Pushresult, OpenBuffer, r
  <2>2. CASE ptr = 0
    <3>1. Append(<<Other>>, r) = <<Other, r>>
      BY Appended, Zenon
    <3> QED BY <2>1, <2>2, <3>1 DEF StackOf, r
  <2>3. CASE ptr # 0
    <3>1. Append(<<Other, Box(ptr)>>, r) = <<Other, Box(ptr), r>>
      BY Appended, Zenon
    <3>2. Replaced(<<Other, Box(ptr), r>>, -2) = <<Other, r>>
      BY ReplacedBelowTop, Zenon
    <3> QED BY <2>1, <2>3, <3>1, <3>2 DEF StackOf, r
  <2> QED BY <2>2, <2>3
<1> QED BY <1>1, <1>3 DEF BufferInv, BufferTypes, Bytes, String, Other

-----------------------------------------------------------------------------
\* No buffer is open at first.
LEMMA BufferInitOK == BufferInit => BufferInv
BY BufferAssumption DEF BufferInit, BufferInv, BufferTypes

\* Every operation keeps the invariant.
LEMMA BufferStepOK == BufferInv /\ [BufferNext]_bufferVars => BufferInv'
<1> SUFFICES ASSUME BufferInv, [BufferNext]_bufferVars PROVE BufferInv'
  OBVIOUS
<1>1. CASE UNCHANGED bufferVars
  BY <1>1 DEF bufferVars, BufferInv, BufferTypes, OpenBuffer, StackOf, Other, Box, String, Bytes
<1>2. CASE luaL_buffinit
  BY <1>2, BufferAssumption
     DEF luaL_buffinit, BufferInv, BufferTypes, OpenBuffer, StackOf, Other, Box, Bytes
<1>3. ASSUME NEW s \in Size, Prepbuffsize(s) \/ Addsize(s) \/ Addlstring(s) \/ Addvalue(s)
      PROVE  BufferInv'
  BY <1>3, SizesAre, PrepbuffsizeOK, AddsizeOK, AddlstringOK, AddvalueOK
<1>4. CASE Addchar
  BY <1>4, AddcharOK
<1>5. CASE Pushresult
  BY <1>5, PushresultOK
<1>6. CASE BufferUsed
  BY <1>6, BufferAssumption DEF BufferUsed, BufferInv, BufferTypes
<1> QED BY <1>1, <1>2, <1>3, <1>4, <1>5, <1>6 DEF BufferNext

\* The bytes are all there and in order, in a buffer with room for those asked for; the
\* box, if there is one, is where the functions of compat-5.3.c look for it.
THEOREM BufferHolds == BufferSpec => []BufferKeepsContent
<1>1. BufferInv => BufferKeepsContent
  BY DEF BufferInv, OpenBuffer, BufferKeepsContent, StackOf, Bytes
<1> QED BY <1>1, BufferInitOK, BufferStepOK, PTL DEF BufferSpec
=============================================================================
