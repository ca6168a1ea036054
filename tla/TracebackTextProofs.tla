------------------------ MODULE TracebackTextProofs ------------------------
(***************************************************************************)
(* Proofs about FunctionNames, for any tables, and about TracebackText,    *)
(* for coroutines with any number of frames and any level to start from.   *)
(***************************************************************************)
EXTENDS TracebackText, LuaStackProofs

-----------------------------------------------------------------------------
(* The inductive invariant of the search for a name.                       *)

AllKeys == UNION {DOMAIN Contents[t] : t \in DOMAIN Contents}
AllValues == UNION {{Contents[t][k] : k \in DOMAIN Contents[t]} : t \in DOMAIN Contents}
Words == {"name from code", "main chunk", "file and line", "?"}
Element == Seq(Fn \cup DOMAIN Contents \cup AllKeys \cup AllValues \cup Words)

\* Neither a field of the table, nor a field of one, with another key than these.
Unfound(table, fn, keys) ==
    \A k \in (DOMAIN Contents[table]) \ keys : ~Field(table, k, fn)
Unreached(table, fn, keys) ==
    /\ Unfound(table, fn, keys)
    /\ \A k \in (DOMAIN Contents[table]) \ keys : \A t \in DOMAIN Contents :
          Field(table, k, t) => Unfound(t, fn, {})

\* The outer activation of findfield: the keys not yet given are the only way left.
Asks ==
    /\ asked \in Question /\ Searches(asked)
    /\ ns[1] = <<asked.fn>> /\ ns[2] = <<Root(asked)>>

Next1 ==
    /\ Len(search) = 1 /\ Len(ns) = 3 /\ search[1] \subseteq DOMAIN Contents[Root(asked)]
    /\ Unreached(Root(asked), asked.fn, search[1])

Look1 ==
    /\ Len(search) = 1 /\ Len(ns) = 4 /\ search[1] \subseteq DOMAIN Contents[Root(asked)]
    /\ \E k \in DOMAIN Contents[Root(asked)] :
          /\ ns[3] = <<k>> /\ ns[4] = <<Contents[Root(asked)][k]>>
          /\ Unreached(Root(asked), asked.fn, search[1] \cup {k})

Found1 ==
    Len(search) = 1 /\ Len(ns) = 3 /\ Leads(Root(asked), ns[3], asked.fn)

\* The inner one looks in a table t, which is a field of the root with the key k.
Inner(k, t) ==
    /\ Len(search) = 2 /\ t \in DOMAIN Contents
    /\ search[1] \subseteq DOMAIN Contents[Root(asked)] /\ search[2] \subseteq DOMAIN Contents[t]
    /\ ns[3] = <<k>> /\ ns[4] = <<t>>
    /\ Field(Root(asked), k, t)
    /\ Unreached(Root(asked), asked.fn, search[1] \cup {k})

Next2 ==
    \E k, t \in AllKeys \cup DOMAIN Contents :
        Inner(k, t) /\ Len(ns) = 5 /\ Unfound(t, asked.fn, search[2])

Look2 ==
    \E k, t \in AllKeys \cup DOMAIN Contents :
        /\ Inner(k, t) /\ Len(ns) = 6
        /\ \E j \in DOMAIN Contents[t] :
              /\ ns[5] = <<j>> /\ ns[6] = <<Contents[t][j]>>
              /\ Unfound(t, asked.fn, search[2] \cup {j})

Found2 ==
    \E k, t \in AllKeys \cup DOMAIN Contents :
        /\ Inner(k, t) /\ Len(ns) = 5
        /\ \E j \in AllKeys : ns[5] = <<j>> /\ Field(t, j, asked.fn)

NamesTypes ==
    /\ ns \in Seq(Element)
    /\ search \in Seq(SUBSET AllKeys)
    /\ nphase \in {"idle", "next", "look", "found", "named"}

NamesInv ==
    /\ NamesTypes
    /\ nphase = "idle" => Len(ns) = 0
    /\ nphase = "next" => Asks /\ (Next1 \/ Next2)
    /\ nphase = "look" => Asks /\ (Look1 \/ Look2)
    /\ nphase = "found" => Asks /\ (Found1 \/ Found2)
    /\ nphase = "named" => NamesResolve /\ Len(ns) = 1

-----------------------------------------------------------------------------
(* Steps of the search.                                                    *)

\* What a C function finds at the top, and what it leaves.
LEMMA TopIs ==
    ASSUME NEW S, NEW s \in Seq(S), Len(s) >= 2
    PROVE  At(s, -1) = s[Len(s)] /\ At(s, -2) = s[Len(s) - 1]
<1>1. Slot(s, -1) = Len(s) /\ Slot(s, -2) = Len(s) - 1
  BY DEF Slot
<1> QED BY <1>1 DEF At

LEMMA AppendedIs ==
    ASSUME NEW S, NEW s \in Seq(S), NEW v \in S
    PROVE  /\ Append(s, v) \in Seq(S) /\ Len(Append(s, v)) = Len(s) + 1
           /\ \A j \in 1..Len(s) : Append(s, v)[j] = s[j]
           /\ Append(s, v)[Len(s) + 1] = v
BY AppendProperties

\* The keys and values that are there.
LEMMA ContentsAre ==
    ASSUME NEW t \in DOMAIN Contents, NEW k \in DOMAIN Contents[t]
    PROVE  k \in AllKeys /\ <<k>> \in Element /\ <<Contents[t][k]>> \in Element
<1>1. k \in AllKeys /\ Contents[t][k] \in AllValues
  BY DEF AllKeys, AllValues
<1> QED BY <1>1 DEF Element

LEMMA RootIsTable == \A q : Root(q) \in DOMAIN Contents
BY NamesAssumption DEF Root

\* lua_next gives a key and its value.
LEMMA NextFieldOK ==
    ASSUME NamesInv, NEW key, NextField(key)
    PROVE  NamesInv'
<1> DEFINE n == Len(ns)
           below == Popped(ns, 1)
           T == At(ns, -2)[1]
           pair == <<<<key>>, <<Contents[T][key]>>>>
<1>1. /\ nphase = "next" /\ key \in search[Len(search)]
      /\ ns' = below \o pair
      /\ search' = [search EXCEPT ![Len(search)] = @ \ {key}]
      /\ nphase' = "look" /\ UNCHANGED asked
  BY DEF NextField, Keys
<1>2. Asks /\ (Next1 \/ Next2) /\ ns \in Seq(Element) /\ search \in Seq(SUBSET AllKeys)
  BY <1>1 DEF NamesInv, NamesTypes
<1>3. n \in {3, 5}
  BY <1>2 DEF Next1, Next2
<1>4. below \in Seq(Element) /\ Len(below) = n - 1 /\ \A j \in 1..(n - 1) : below[j] = ns[j]
  <2>1. 1 \in 0..Len(ns)
    BY <1>3
  <2> QED BY <1>2, <2>1, PoppedIs
<1>5. T = ns[n - 1][1]
  <2>1. Len(ns) >= 2
    BY <1>3
  <2>2. At(ns, -2) = ns[Len(ns) - 1]
    BY <1>2, <2>1, TopIs, Zenon
  <2> QED BY <2>2
<1>6. T \in DOMAIN Contents /\ key \in DOMAIN Contents[T]
  <2>1. CASE Next1
    <3>1. T = Root(asked)
      BY <1>2, <1>5, <2>1 DEF Next1, Asks
    <3> QED BY <1>1, <2>1, <3>1, RootIsTable DEF Next1
  <2>2. CASE Next2
    BY <1>1, <1>5, <2>2 DEF Next2, Inner
  <2> QED BY <1>2, <2>1, <2>2
<1>7. pair \in Seq(Element) /\ Len(pair) = 2 /\ pair[1] = <<key>> /\ pair[2] = <<Contents[T][key]>>
  <2>1. <<key>> \in Element /\ <<Contents[T][key]>> \in Element
    BY <1>6, ContentsAre
  <2> QED BY <2>1
<1> HIDE DEF below, pair, T
<1>8. /\ ns' \in Seq(Element) /\ Len(ns') = n + 1
      /\ \A j \in 1..(n - 1) : ns'[j] = ns[j]
      /\ ns'[n] = <<key>> /\ ns'[n + 1] = <<Contents[T][key]>>
  <2> DEFINE r == below \o pair
  <2>1. /\ r \in Seq(Element) /\ Len(r) = Len(below) + Len(pair)
        /\ \A j \in 1..Len(below) : r[j] = below[j]
        /\ \A j \in (Len(below) + 1)..(Len(below) + Len(pair)) : r[j] = pair[j - Len(below)]
    BY <1>4, <1>7, JoinOf
  <2> HIDE DEF r
  <2>2. CASE n = 3
    BY <1>1, <1>4, <1>7, <2>1, <2>2 DEF r
  <2>3. CASE n = 5
    BY <1>1, <1>4, <1>7, <2>1, <2>3 DEF r
  <2> QED BY <1>3, <2>2, <2>3
<1>9. /\ search' \in Seq(SUBSET AllKeys) /\ Len(search') = Len(search)
      /\ search'[Len(search)] = search[Len(search)] \ {key}
      /\ \A j \in 1..(Len(search) - 1) : search'[j] = search[j]
  <2>1. Len(search) \in {1, 2}
    BY <1>2 DEF Next1, Next2, Inner
  <2>2. search[Len(search)] \in SUBSET AllKeys
    <3>1. Len(search) \in 1..Len(search)
      BY <2>1
    <3> QED BY <1>2, <3>1, ElementOfSeq, Zenon
  <2> QED BY <1>1, <1>2, <2>1, <2>2
<1>10. Asks'
  <2>1. ns'[1] = ns[1] /\ ns'[2] = ns[2]
    <3>1. (n = 3 \/ n = 5) /\ n \in Int
      BY <1>3
    <3> HIDE DEF n
    <3>2. 1 \in 1..(n - 1) /\ 2 \in 1..(n - 1)
      BY <3>1
    <3> QED BY <1>8, <3>2, Zenon
  <2> QED BY <1>1, <1>2, <2>1 DEF Asks, Root, Searches
<1>11. CASE Next1
  <2>1. n = 3 /\ T = Root(asked) /\ Root(asked)' = Root(asked)
    BY <1>1, <1>2, <1>5, <1>11 DEF Next1, Asks, Root
  <2>2. Unreached(Root(asked), asked.fn, search[1]) /\ search[1] \subseteq (search[1] \ {key}) \cup {key}
    BY <1>11 DEF Next1
  <2>3. Unreached(Root(asked), asked.fn, (search[1] \ {key}) \cup {key})
    BY <2>2 DEF Unreached, Unfound
  <2>4. Look1'
    BY <1>1, <1>6, <1>8, <1>9, <1>11, <2>1, <2>3 DEF Next1, Look1, Unreached, Unfound, Field
  <2> QED BY <1>1, <1>8, <1>9, <1>10, <2>4 DEF NamesInv, NamesTypes
<1>12. CASE Next2
  <2>1. PICK k, t \in AllKeys \cup DOMAIN Contents :
           Inner(k, t) /\ Len(ns) = 5 /\ Unfound(t, asked.fn, search[2])
    BY <1>12 DEF Next2
  <2>2. n = 5 /\ T = t
    BY <1>5, <2>1 DEF Inner
  <2>3. Unfound(t, asked.fn, (search[2] \ {key}) \cup {key})
    BY <2>1 DEF Unfound
  <2>4. Inner(k, t)'
    <3>1. ns'[3] = ns[3] /\ ns'[4] = ns[4]
      BY <1>8, <2>2
    <3>2. /\ Len(search') = 2 /\ search'[1] = search[1] /\ search'[2] \subseteq search[2]
          /\ Root(asked)' = Root(asked)
      BY <1>1, <1>9, <2>1 DEF Inner, Root
    <3> QED BY <1>1, <2>1, <3>1, <3>2 DEF Inner, Unreached, Unfound, Field
  <2>5. Look2'
    <3>1. /\ Len(ns') = 6 /\ ns'[5] = <<key>> /\ ns'[6] = <<Contents[t][key]>>
          /\ search'[2] = search[2] \ {key}
      BY <1>8, <1>9, <2>1, <2>2 DEF Inner
    <3>2. key \in DOMAIN Contents[t] /\ Unfound(t, asked'.fn, search'[2] \cup {key})
      BY <1>1, <1>6, <2>2, <2>3, <3>1
    <3> QED BY <2>1, <2>4, <3>1, <3>2 DEF Look2
  <2> QED BY <1>1, <1>8, <1>9, <1>10, <2>5 DEF NamesInv, NamesTypes
<1> QED BY <1>2, <1>11, <1>12

LEMMA TopElements ==
    ASSUME NamesTypes
    PROVE  /\ Len(ns) = 4 => At(ns, -1) = ns[4] /\ At(ns, -2) = ns[3]
           /\ Len(ns) = 5 => At(ns, -1) = ns[5] /\ At(ns, -2) = ns[4]
           /\ Len(ns) = 6 => At(ns, -1) = ns[6] /\ At(ns, -2) = ns[5]
<1>1. /\ Len(ns) = 4 => Slot(ns, -1) = 4 /\ Slot(ns, -2) = 3
      /\ Len(ns) = 5 => Slot(ns, -1) = 5 /\ Slot(ns, -2) = 4
      /\ Len(ns) = 6 => Slot(ns, -1) = 6 /\ Slot(ns, -2) = 5
  BY DEF Slot
<1> QED BY <1>1, Zenon DEF At

\* The stack and the search of an activation that is left.
LEMMA PoppedStack ==
    ASSUME NamesTypes, NEW n \in 0..Len(ns), ns' = Popped(ns, n)
    PROVE  /\ ns' \in Seq(Element) /\ Len(ns') = Len(ns) - n
           /\ \A j \in 1..(Len(ns) - n) : ns'[j] = ns[j]
BY PoppedIs DEF NamesTypes

LEMMA PoppedTop ==
    ASSUME NamesTypes, ns' = Popped(ns, 1)
    PROVE  /\ Len(ns) = 4 => ns' \in Seq(Element) /\ Len(ns') = 3 /\ \A j \in 1..3 : ns'[j] = ns[j]
           /\ Len(ns) = 6 => ns' \in Seq(Element) /\ Len(ns') = 5 /\ \A j \in 1..5 : ns'[j] = ns[j]
<1>1. CASE Len(ns) \in {4, 6}
  <2>1. 1 \in 0..Len(ns)
    BY <1>1
  <2>2. /\ ns' \in Seq(Element) /\ Len(ns') = Len(ns) - 1
        /\ \A j \in 1..(Len(ns) - 1) : ns'[j] = ns[j]
    BY <2>1, PoppedStack, Zenon
  <2>3. Len(ns) = 4 => 1..(Len(ns) - 1) = 1..3 /\ Len(ns) - 1 = 3
    OBVIOUS
  <2>4. Len(ns) = 6 => 1..(Len(ns) - 1) = 1..5 /\ Len(ns) - 1 = 5
    OBVIOUS
  <2> QED BY <2>2, <2>3, <2>4, Zenon
<1> QED BY <1>1

LEMMA PoppedSearch ==
    ASSUME NamesTypes, Len(search) > 0, search' = Popped(search, 1)
    PROVE  /\ search' \in Seq(SUBSET AllKeys) /\ Len(search') = Len(search) - 1
           /\ \A j \in 1..(Len(search) - 1) : search'[j] = search[j]
<1>1. search \in Seq(SUBSET AllKeys) /\ 1 \in 0..Len(search)
  BY DEF NamesTypes
<1> QED BY <1>1, PoppedIs

\* One word, or the question, is all that is left: NamesResolve is about this state.
LEMMA NoField1OK ==
    ASSUME NamesInv, NoField, Len(search) = 1
    PROVE  NamesInv'
<1>1. /\ nphase = "next" /\ search[Len(search)] = {} /\ search' = Popped(search, 1)
      /\ ns' = <<OtherName(asked)>> /\ nphase' = "named" /\ UNCHANGED asked
  BY DEF NoField, Keys
<1>2. Asks /\ Next1 /\ NamesTypes
  BY <1>1 DEF NamesInv, Next2, Inner
<1>3. Unreached(Root(asked), asked.fn, {})
  BY <1>1, <1>2 DEF Next1
<1>4. \A p, k \in StringKey :
         /\ ~Leads(Root(asked), <<p>>, asked.fn)
         /\ ~Leads(Root(asked), <<p, k>>, asked.fn)
  BY <1>3 DEF Leads, Unreached, Unfound, Field
<1>5. OtherName(asked) \in Element
  <2>1. \A w \in Words : <<w>> \in Element
    BY DEF Element
  <2> QED BY <2>1 DEF OtherName, Words
<1>6. ns' \in Seq(Element) /\ Len(ns') = 1 /\ ns'[1] = OtherName(asked)
  BY <1>1, <1>5
<1>7. NamesResolve'
  BY <1>1, <1>4, <1>6 DEF NamesResolve, Leads, Field, Root, Searches, OtherName
<1> QED BY <1>1, <1>2, <1>6, <1>7, PoppedSearch DEF NamesInv, NamesTypes

LEMMA NoField2OK ==
    ASSUME NamesInv, NoField, Len(search) # 1
    PROVE  NamesInv'
<1>1. /\ nphase = "next" /\ search[Len(search)] = {} /\ search' = Popped(search, 1)
      /\ ns' = Popped(ns, 2) /\ UNCHANGED <<asked, nphase>>
  BY DEF NoField, Keys
<1>2. Asks /\ Next2 /\ NamesTypes
  BY <1>1 DEF NamesInv, Next1
<1>3. PICK k, t \in AllKeys \cup DOMAIN Contents :
         Inner(k, t) /\ Len(ns) = 5 /\ Unfound(t, asked.fn, search[2])
  BY <1>2 DEF Next2
<1>4. Len(search) = 2
  BY <1>3 DEF Inner
<1>5. /\ search' \in Seq(SUBSET AllKeys) /\ Len(search') = 1 /\ search'[1] = search[1]
  BY <1>1, <1>2, <1>4, PoppedSearch
<1>6. ns' \in Seq(Element) /\ Len(ns') = 3 /\ ns'[1] = ns[1] /\ ns'[2] = ns[2]
  <2>1. 2 \in 0..Len(ns)
    BY <1>3
  <2>2. /\ ns' \in Seq(Element) /\ Len(ns') = Len(ns) - 2
        /\ \A j \in 1..(Len(ns) - 2) : ns'[j] = ns[j]
    BY <1>1, <1>2, <2>1, PoppedStack, Zenon
  <2> QED BY <1>3, <2>2
<1>7. Asks'
  BY <1>1, <1>2, <1>6 DEF Asks, Root, Searches
\* The field with the key k is t, a table and no function, and nothing is found in it.
<1>8. Unreached(Root(asked), asked.fn, search[1])
  <2>1. Unfound(t, asked.fn, {})
    BY <1>1, <1>3, <1>4
  <2>2. asked.fn \notin DOMAIN Contents
    BY <1>2, NamesAssumption DEF Asks, Question
  <2>3. Contents[Root(asked)][k] = t /\ t \in DOMAIN Contents
    BY <1>3 DEF Inner, Field
  <2>4. Unreached(Root(asked), asked.fn, search[1] \cup {k})
    BY <1>3 DEF Inner
  <2> QED BY <2>1, <2>2, <2>3, <2>4 DEF Unreached, Unfound, Field
<1>9. Next1'
  BY <1>1, <1>3, <1>5, <1>6, <1>8 DEF Next1, Inner, Root, Unreached, Unfound, Field
<1> QED BY <1>1, <1>2, <1>5, <1>6, <1>7, <1>9 DEF NamesInv, NamesTypes

\* findfield has a key and the value.  It is the function, or no way to it, or a table.
LEMMA Look1OK ==
    ASSUME NamesInv, Look, Look1
    PROVE  NamesInv'
<1>1. nphase = "look" /\ Asks /\ NamesTypes /\ UNCHANGED asked
  BY DEF NamesInv, Look
<1>2. PICK k \in DOMAIN Contents[Root(asked)] :
         /\ ns[3] = <<k>> /\ ns[4] = <<Contents[Root(asked)][k]>>
         /\ Unreached(Root(asked), asked.fn, search[1] \cup {k})
  BY DEF Look1
<1> DEFINE v == Contents[Root(asked)][k]
<1>3. Len(ns) = 4 /\ Len(search) = 1 /\ search[1] \subseteq DOMAIN Contents[Root(asked)]
  BY DEF Look1
<1>4. At(ns, -1) = <<v>> /\ At(ns, -2) = <<k>>
  BY <1>1, <1>2, <1>3, TopElements
<1>5. /\ Matches <=> k \in StringKey /\ v = asked.fn
      /\ Descends <=> k \in StringKey /\ v \in DOMAIN Contents
  BY <1>1, <1>3, <1>4 DEF Matches, Descends, IsStringField, Asks, Level
<1>6. Root(asked) \in DOMAIN Contents /\ Root(asked)' = Root(asked)
  BY <1>1, RootIsTable DEF Root
<1>7. CASE Descends /\ ~Matches
  <2>1. /\ ns' = Append(ns, <<>>) /\ search' = Append(search, DOMAIN Contents[v])
        /\ nphase' = "next"
    BY <1>4, <1>7 DEF Look
  <2>2. <<>> \in Element /\ DOMAIN Contents[v] \in SUBSET AllKeys
    BY <1>5, <1>7 DEF Element, AllKeys
  <2>3. /\ ns' \in Seq(Element) /\ Len(ns') = 5 /\ \A j \in 1..4 : ns'[j] = ns[j]
    <3>1. /\ ns' \in Seq(Element) /\ Len(ns') = Len(ns) + 1
          /\ \A j \in 1..Len(ns) : ns'[j] = ns[j]
      BY <1>1, <2>1, <2>2, AppendedIs DEF NamesTypes
    <3> QED BY <1>3, <3>1
  <2>4. /\ search' \in Seq(SUBSET AllKeys) /\ Len(search') = 2
        /\ search'[1] = search[1] /\ search'[2] = DOMAIN Contents[v]
    <3>1. /\ search' \in Seq(SUBSET AllKeys) /\ Len(search') = Len(search) + 1
          /\ \A j \in 1..Len(search) : search'[j] = search[j]
          /\ search'[Len(search) + 1] = DOMAIN Contents[v]
      BY <1>1, <2>1, <2>2, AppendedIs DEF NamesTypes
    <3> QED BY <1>3, <3>1
  <2>5. Asks'
    BY <1>1, <1>6, <2>3 DEF Asks, Searches
  <2>6. Inner(k, v)'
    BY <1>1, <1>2, <1>3, <1>5, <1>6, <1>7, <2>3, <2>4 DEF Inner, Field, Unreached, Unfound
  <2>7. Unfound(v, asked.fn, DOMAIN Contents[v])
    BY DEF Unfound
  <2>8. Next2'
    BY <1>1, <1>2, <1>5, <1>6, <1>7, <2>3, <2>4, <2>6, <2>7, ContentsAre DEF Next2
  <2> QED BY <2>1, <2>3, <2>4, <2>5, <2>8 DEF NamesInv, NamesTypes
<1>8. CASE ~(Descends /\ ~Matches)
  <2>1. /\ ns' = Popped(ns, 1) /\ nphase' = IF Matches THEN "found" ELSE "next"
        /\ UNCHANGED search
    BY <1>8 DEF Look
  <2>2. ns' \in Seq(Element) /\ Len(ns') = 3 /\ \A j \in 1..3 : ns'[j] = ns[j]
    BY <1>1, <1>3, <2>1, PoppedTop, Zenon
  <2>3. Asks'
    BY <1>1, <1>6, <2>2 DEF Asks, Searches
  <2>4. CASE Matches
    <3>1. Leads(Root(asked), <<k>>, asked.fn)
      BY <1>2, <1>5, <1>6, <2>4 DEF Leads, Field
    <3>2. Found1'
      <4>1. ns'[3] = <<k>> /\ asked' = asked
        BY <1>1, <1>2, <2>2
      <4>2. Leads(Root(asked), ns[3], asked.fn)'
        BY <1>6, <3>1, <4>1 DEF Leads, Field
      <4> QED BY <1>3, <2>1, <2>2, <4>2 DEF Found1
    <3> QED BY <1>1, <2>1, <2>2, <2>3, <2>4, <3>2 DEF NamesInv, NamesTypes
  <2>5. CASE ~Matches
    <3>1. Unreached(Root(asked), asked.fn, search[1])
      BY <1>2, <1>5, <1>8, <2>5 DEF Unreached, Unfound, Field
    <3>2. Next1'
      BY <1>1, <1>3, <1>6, <2>1, <2>2, <3>1 DEF Next1, Unreached, Unfound, Field
    <3> QED BY <1>1, <2>1, <2>2, <2>3, <2>5, <3>2 DEF NamesInv, NamesTypes
  <2> QED BY <2>4, <2>5
<1> QED BY <1>7, <1>8

LEMMA Look2OK ==
    ASSUME NamesInv, Look, Look2
    PROVE  NamesInv'
<1>1. nphase = "look" /\ Asks /\ NamesTypes /\ UNCHANGED asked
  BY DEF NamesInv, Look
<1>2. PICK k, t \in AllKeys \cup DOMAIN Contents :
         /\ Inner(k, t) /\ Len(ns) = 6
         /\ \E j \in DOMAIN Contents[t] :
               /\ ns[5] = <<j>> /\ ns[6] = <<Contents[t][j]>>
               /\ Unfound(t, asked.fn, search[2] \cup {j})
  BY DEF Look2
<1>3. PICK j \in DOMAIN Contents[t] :
         /\ ns[5] = <<j>> /\ ns[6] = <<Contents[t][j]>>
         /\ Unfound(t, asked.fn, search[2] \cup {j})
  BY <1>2
<1> DEFINE v == Contents[t][j]
<1>4. Len(search) = 2 /\ t \in DOMAIN Contents
  BY <1>2 DEF Inner
<1>5. At(ns, -1) = <<v>> /\ At(ns, -2) = <<j>>
  BY <1>1, <1>2, <1>3, TopElements
<1>6. (Matches <=> j \in StringKey /\ v = asked.fn) /\ ~Descends
  BY <1>1, <1>4, <1>5 DEF Matches, Descends, IsStringField, Asks, Level
<1>7. /\ ns' = Popped(ns, 1) /\ nphase' = IF Matches THEN "found" ELSE "next"
      /\ UNCHANGED search
  BY <1>6 DEF Look
<1>8. ns' \in Seq(Element) /\ Len(ns') = 5 /\ \A i \in 1..5 : ns'[i] = ns[i]
  BY <1>1, <1>2, <1>7, PoppedTop, Zenon
<1>9. Asks' /\ Root(asked)' = Root(asked)
  BY <1>1, <1>8 DEF Asks, Searches, Root
<1>10. Inner(k, t)'
  BY <1>1, <1>2, <1>7, <1>8, <1>9 DEF Inner, Field, Unreached, Unfound
<1>11. CASE Matches
  <2>1. Field(t, j, asked.fn) /\ j \in AllKeys
    BY <1>4, <1>6, <1>11, ContentsAre DEF Field
  <2>2. Found2'
    BY <1>1, <1>3, <1>8, <1>10, <2>1 DEF Found2, Field
  <2> QED BY <1>1, <1>7, <1>8, <1>9, <1>11, <2>2 DEF NamesInv, NamesTypes
<1>12. CASE ~Matches
  <2>1. Unfound(t, asked.fn, search[2])
    BY <1>3, <1>6, <1>12 DEF Unfound, Field
  <2>2. Next2'
    BY <1>1, <1>7, <1>8, <1>10, <2>1 DEF Next2, Unfound, Field
  <2> QED BY <1>1, <1>7, <1>8, <1>9, <1>12, <2>2 DEF NamesInv, NamesTypes
<1> QED BY <1>11, <1>12

LEMMA PairOf == \A a, b : <<a>> \o <<b>> = <<a, b>>
<1> SUFFICES ASSUME NEW a, NEW b PROVE <<a>> \o <<b>> = <<a, b>>
  OBVIOUS
<1> DEFINE s == <<a>>
           t == <<b>>
           r == <<a, b>>
<1>1. s \in Seq({a, b}) /\ t \in Seq({a, b}) /\ Len(s) = 1 /\ Len(t) = 1 /\ s[1] = a /\ t[1] = b
  OBVIOUS
<1>2. r \in Seq({a, b}) /\ Len(r) = 2 /\ r[1] = a /\ r[2] = b
  OBVIOUS
<1> HIDE DEF s, t, r
<1>3. s \o t \in Seq({a, b}) /\ Len(s \o t) = 2 /\ (s \o t)[1] = a /\ (s \o t)[2] = b
  <2>1. /\ s \o t \in Seq({a, b}) /\ Len(s \o t) = Len(s) + Len(t)
        /\ \A j \in 1..Len(s) : (s \o t)[j] = s[j]
        /\ \A j \in (Len(s) + 1)..(Len(s) + Len(t)) : (s \o t)[j] = t[j - Len(s)]
    BY <1>1, JoinOf, Zenon
  <2> QED BY <1>1, <2>1
<1>4. \A j \in 1..Len(r) : (s \o t)[j] = r[j]
  BY <1>2, <1>3
<1>5. s \o t = r
  BY <1>2, <1>3, <1>4, SeqEqual
<1> QED BY <1>5 DEF s, t, r

\* The path to the table and the key in it become the path to the function.
LEMMA JoinNamesOK ==
    ASSUME NamesInv, JoinNames
    PROVE  NamesInv'
<1> DEFINE s == Removed(ns, -2)
           name == At(s, -2) \o At(s, -1)
           below == Popped(s, 2)
<1>1. /\ nphase = "found" /\ Asks /\ NamesTypes /\ Len(search) = 2
      /\ ns' = Append(below, name) /\ search' = Popped(search, 1)
      /\ UNCHANGED <<asked, nphase>>
  BY DEF JoinNames, NamesInv
<1>2. PICK k, t \in AllKeys \cup DOMAIN Contents :
         /\ Inner(k, t) /\ Len(ns) = 5
         /\ \E j \in AllKeys : ns[5] = <<j>> /\ Field(t, j, asked.fn)
  BY <1>1 DEF NamesInv, Found1, Found2
<1>3. PICK j \in AllKeys : ns[5] = <<j>> /\ Field(t, j, asked.fn)
  BY <1>2
<1>4. /\ s \in Seq(Element) /\ Len(s) = 4
      /\ s[1] = ns[1] /\ s[2] = ns[2] /\ s[3] = <<k>> /\ s[4] = <<j>>
  <2>1. -2 \in Int /\ Slot(ns, -2) = 4 /\ 4 \in 1..Len(ns)
    BY <1>2 DEF Slot
  <2>2. /\ s \in Seq(Element) /\ Len(s) = Len(ns) - 1
        /\ \A i \in 1..(Len(ns) - 1) : s[i] = IF i < Slot(ns, -2) THEN ns[i] ELSE ns[i + 1]
    BY <1>1, <2>1, RemovedIs, Zenon DEF NamesTypes
  <2> HIDE DEF s
  <2> QED BY <1>2, <1>3, <2>1, <2>2 DEF Inner
<1> HIDE DEF s
<1>5. name = <<k, j>>
  <2>1. Slot(s, -2) = 3 /\ Slot(s, -1) = 4
    BY <1>4 DEF Slot
  <2>2. At(s, -2) = <<k>> /\ At(s, -1) = <<j>>
    BY <1>4, <2>1, Zenon DEF At
  <2>3. <<k>> \o <<j>> = <<k, j>>
    BY PairOf, Zenon
  <2> QED BY <2>2, <2>3, Zenon
<1>6. below \in Seq(Element) /\ Len(below) = 2 /\ below[1] = ns[1] /\ below[2] = ns[2]
  <2>1. 2 \in 0..Len(s)
    BY <1>4
  <2>2. /\ below \in Seq(Element) /\ Len(below) = Len(s) - 2
        /\ \A i \in 1..(Len(s) - 2) : below[i] = s[i]
    BY <1>4, <2>1, PoppedIs, Zenon
  <2> HIDE DEF below
  <2> QED BY <1>4, <2>2
<1>7. <<k, j>> \in Element
  BY <1>2, <1>3 DEF Element
<1> HIDE DEF name, below
<1>8. /\ ns' \in Seq(Element) /\ Len(ns') = 3
      /\ ns'[1] = ns[1] /\ ns'[2] = ns[2] /\ ns'[3] = <<k, j>>
  <2>1. /\ ns' \in Seq(Element) /\ Len(ns') = Len(below) + 1
        /\ \A i \in 1..Len(below) : ns'[i] = below[i]
        /\ ns'[Len(below) + 1] = <<k, j>>
    <3>1. ns' = Append(below, <<k, j>>)
      BY <1>1, <1>5, Zenon
    <3> DEFINE e == <<k, j>>
    <3>2. ns' = Append(below, e) /\ e \in Element
      BY <1>7, <3>1
    <3> HIDE DEF e
    <3>3. /\ ns' \in Seq(Element) /\ Len(ns') = Len(below) + 1
          /\ \A i \in 1..Len(below) : ns'[i] = below[i]
          /\ ns'[Len(below) + 1] = e
      <4>1. below \in Seq(Element)
        BY <1>6
      <4>2. /\ Append(below, e) \in Seq(Element) /\ Len(Append(below, e)) = Len(below) + 1
            /\ \A i \in 1..Len(below) : Append(below, e)[i] = below[i]
            /\ Append(below, e)[Len(below) + 1] = e
        BY <3>2, <4>1, AppendedIs
      <4> QED BY <3>2, <4>2, Zenon
    <3> QED BY <3>3 DEF e
  <2> QED BY <1>6, <2>1
<1>9. search' \in Seq(SUBSET AllKeys) /\ Len(search') = 1
  BY <1>1, PoppedSearch
<1>10. Asks' /\ Root(asked)' = Root(asked)
  BY <1>1, <1>8 DEF Asks, Searches, Root
<1>11. Leads(Root(asked), <<k, j>>, asked.fn)
  BY <1>2, <1>3 DEF Inner, Leads
<1>12. Found1'
  BY <1>1, <1>8, <1>9, <1>10, <1>11 DEF Found1, Leads, Field
<1> QED BY <1>1, <1>8, <1>9, <1>10, <1>12 DEF NamesInv, NamesTypes

\* A path without its prefix leads to the same function, from the globals.
LEMMA WithoutPrefixLeads ==
    ASSUME NEW path \in Element, NEW fn, Leads(LoadedTable, path, fn)
    PROVE  /\ WithoutPrefix(path) \in Element
           /\ \/ Leads(LoadedTable, WithoutPrefix(path), fn)
              \/ Leads(Globals, WithoutPrefix(path), fn)
<1>1. CASE Len(path) > 1 /\ path[1] = "_G"
  <2>1. Len(path) = 2 /\ WithoutPrefix(path) = Tail(path)
    BY <1>1 DEF Leads, WithoutPrefix
  <2>2. PICK t \in DOMAIN Contents : Field(LoadedTable, path[1], t) /\ Field(t, path[2], fn)
    BY <2>1 DEF Leads
  <2>3. t = Globals
    BY <1>1, <2>2, NamesAssumption DEF Field
  <2>4. Tail(path) \in Element /\ Len(Tail(path)) = 1 /\ Tail(path)[1] = path[2]
    <3>1. path # <<>>
      BY <2>1
    <3>2. Tail(path) \in Element /\ Len(Tail(path)) = Len(path) - 1
      BY <3>1, HeadTailProperties DEF Element
    <3>3. Tail(path)[1] = path[1 + 1]
      <4>1. 1 \in 1..Len(Tail(path))
        <5>1. Len(path) - 1 = 1
          BY <2>1
        <5>2. Len(Tail(path)) = 1
          BY <3>2, <5>1, Zenon
        <5> QED BY <5>2
      <4> QED BY <3>1, <4>1, HeadTailProperties, Zenon DEF Element
    <3>4. Len(path) - 1 = 1 /\ 1 + 1 = 2
      BY <2>1
    <3> QED BY <3>2, <3>3, <3>4, Zenon
  <2> QED BY <2>1, <2>2, <2>3, <2>4 DEF Leads
<1>2. CASE ~(Len(path) > 1 /\ path[1] = "_G")
  BY <1>2 DEF WithoutPrefix
<1> QED BY <1>1, <1>2

LEMMA FoundNameOK ==
    ASSUME NamesInv, FoundName
    PROVE  NamesInv'
<1> DEFINE path == ns[3]
           name == IF asked.by = "taggedcoro" THEN WithoutPrefix(path) ELSE path
<1>1. nphase = "found" /\ Asks /\ NamesTypes /\ Found1
  BY DEF FoundName, NamesInv, Found2, Inner
<1>2. At(ns, -1) = path /\ path \in Element
  <2>1. Len(ns) = 3 /\ ns \in Seq(Element)
    BY <1>1 DEF Found1, NamesTypes
  <2>2. Slot(ns, -1) = 3
    BY <2>1 DEF Slot
  <2>3. 3 \in 1..Len(ns)
    BY <2>1
  <2> QED BY <2>1, <2>2, <2>3, ElementOfSeq, Zenon DEF At
<1>3. /\ ns' = <<name>> /\ search' = Popped(search, 1) /\ nphase' = "named" /\ UNCHANGED asked
  BY <1>2 DEF FoundName
<1>4. Leads(Root(asked), path, asked.fn)
  BY <1>1 DEF Found1
<1>5. /\ name \in Element
      /\ Leads(Root(asked), name, asked.fn) \/ Leads(Globals, name, asked.fn)
  <2>1. CASE asked.by = "taggedcoro"
    BY <1>2, <1>4, <2>1, WithoutPrefixLeads DEF Root
  <2>2. CASE asked.by # "taggedcoro"
    BY <1>2, <1>4, <2>2
  <2> QED BY <2>1, <2>2
<1> HIDE DEF name
<1>6. ns' \in Seq(Element) /\ Len(ns') = 1 /\ ns'[1] = name
  BY <1>3, <1>5
<1>7. \E p, k \in StringKey :
         Leads(Root(asked), <<p>>, asked.fn) \/ Leads(Root(asked), <<p, k>>, asked.fn)
  <2>1. CASE Len(path) = 1
    BY <1>4, <2>1 DEF Leads, Field
  <2>2. CASE Len(path) = 2
    BY <1>4, <2>2 DEF Leads, Field
  <2> QED BY <1>4, <2>1, <2>2 DEF Leads
<1>8. NamesResolve'
  BY <1>1, <1>3, <1>5, <1>6, <1>7 DEF NamesResolve, Asks, Searches, Root, Leads, Field
<1>9. search' \in Seq(SUBSET AllKeys)
  BY <1>1, <1>3, PoppedSearch DEF Found1
<1> QED BY <1>3, <1>6, <1>8, <1>9 DEF NamesInv, NamesTypes

LEMMA PushfuncnameOK ==
    ASSUME NamesInv, NEW q \in Question, Pushfuncname(q)
    PROVE  NamesInv'
<1>1. NamesTypes /\ asked' = q
  BY DEF NamesInv, Pushfuncname
<1>2. CASE Searches(q)
  <2> DEFINE keys == DOMAIN Contents[Root(q)]
  <2>1. /\ ns' = <<<<q.fn>>, <<Root(q)>>, <<>>>> /\ search' = <<keys>> /\ nphase' = "next"
    BY <1>2 DEF Pushfuncname
  <2>2. <<q.fn>> \in Element /\ <<Root(q)>> \in Element /\ <<>> \in Element
    BY RootIsTable DEF Element, Question
  <2>3. /\ ns' \in Seq(Element) /\ Len(ns') = 3
        /\ ns'[1] = <<q.fn>> /\ ns'[2] = <<Root(q)>>
    BY <2>1, <2>2
  <2>4. keys \subseteq AllKeys
    BY RootIsTable DEF AllKeys
  <2>5. search' \in Seq(SUBSET AllKeys) /\ Len(search') = 1 /\ search'[1] = keys
    BY <2>1, <2>4
  <2>6. Asks'
    BY <1>1, <1>2, <2>3 DEF Asks, Searches, Root
  <2>7. Next1'
    BY <1>1, <2>3, <2>5 DEF Next1, Unreached, Unfound, Root
  <2> QED BY <2>1, <2>3, <2>5, <2>6, <2>7 DEF NamesInv, NamesTypes
<1>3. CASE ~Searches(q)
  <2>1. ns' = <<OtherName(q)>> /\ nphase' = "named" /\ search' = search
    BY <1>3 DEF Pushfuncname
  <2>2. OtherName(q) \in Element
    <3>1. \A w \in Words : <<w>> \in Element
      BY DEF Element
    <3> QED BY <3>1 DEF OtherName, Words
  <2>3. ns' \in Seq(Element) /\ Len(ns') = 1 /\ ns'[1] = OtherName(q)
    BY <2>1, <2>2
  <2>4. NamesResolve'
    BY <1>1, <1>3, <2>3 DEF NamesResolve, Searches, OtherName
  <2> QED BY <1>1, <2>1, <2>3, <2>4 DEF NamesInv, NamesTypes
<1> QED BY <1>2, <1>3

LEMMA NamesInitOK == NamesInit => NamesInv
BY DEF NamesInit, NamesInv, NamesTypes

LEMMA NamesSame == NamesInv /\ UNCHANGED namesVars => NamesInv'
<1> SUFFICES ASSUME NamesInv, ns' = ns, search' = search, asked' = asked, nphase' = nphase
             PROVE  NamesInv'
  BY DEF namesVars
<1>1. Asks => Asks'
  BY DEF Asks, Searches, Root
<1>2. Next1 => Next1'
  BY DEF Next1, Root, Unreached, Unfound, Field
<1>3. Look1 => Look1'
  BY DEF Look1, Root, Unreached, Unfound, Field
<1>4. Found1 => Found1'
  BY DEF Found1, Root, Leads, Field
<1>5. \A k, t : Inner(k, t) => Inner(k, t)'
  BY DEF Inner, Root, Unreached, Unfound, Field
<1>6. Next2 => Next2'
  BY <1>5 DEF Next2, Unfound, Field
<1>7. Look2 => Look2'
  BY <1>5 DEF Look2, Unfound, Field
<1>8. Found2 => Found2'
  BY <1>5 DEF Found2, Field
<1>9. NamesResolve => NamesResolve'
  BY DEF NamesResolve, Searches, Root, OtherName
<1> QED BY <1>1, <1>2, <1>3, <1>4, <1>6, <1>7, <1>8, <1>9 DEF NamesInv, NamesTypes

LEMMA NamesStepOK == NamesInv /\ NamesNext => NamesInv'
<1> SUFFICES ASSUME NamesInv, NamesNext PROVE NamesInv'
  OBVIOUS
<1>1. CASE \E q \in Question : Pushfuncname(q)
  BY <1>1, PushfuncnameOK
<1>2. CASE \E table \in DOMAIN Contents : \E key \in DOMAIN Contents[table] : NextField(key)
  BY <1>2, NextFieldOK
<1>3. CASE NoField
  BY <1>3, NoField1OK, NoField2OK
<1>4. CASE Look
  <2>1. Look1 \/ Look2
    BY <1>4 DEF Look, NamesInv
  <2> QED BY <1>4, <2>1, Look1OK, Look2OK
<1>5. CASE JoinNames
  BY <1>5, JoinNamesOK
<1>6. CASE FoundName
  BY <1>6, FoundNameOK
<1>7. CASE NameUsed
  BY <1>7 DEF NameUsed, NamesInv, NamesTypes
<1> QED BY <1>1, <1>2, <1>3, <1>4, <1>5, <1>6, <1>7 DEF NamesNext

-----------------------------------------------------------------------------
(* The inductive invariant of the lines.                                   *)

First(i) == IF i = 1 THEN job.from ELSE 1
Frames == job.depths[at]

\* What lastlevel returns, and whether levels are left out, from level k on.
Deepest(d) == IF d = 0 THEN 0 ELSE d - 1
Long(k, d) ==
    IF InTaggedcoro THEN Deepest(d) - k > LEVELS1 + LEVELS2
    ELSE Deepest(d) > COMPAT53_LEVELS1 + COMPAT53_LEVELS2 /\ k <= 11
LastUpper(k) == IF InTaggedcoro THEN k + 9 ELSE 10

TextTypes ==
    /\ tphase \in {"idle", "last", "lines", "done"}
    /\ level \in Int /\ n1 \in Int /\ last \in Int
    /\ li \in Nat /\ le \in Nat /\ height \in Nat /\ room \in Nat
    /\ tphase # "idle" =>
          /\ job \in Job
          /\ at \in DOMAIN job.depths
          /\ lines \in [DOMAIN job.depths -> Seq(Int)]

\* The coroutines before this one are shown, those after it are not yet.
OthersShown ==
    \A i \in DOMAIN lines :
        /\ i < at => lines[i] = Shown(First(i), job.depths[i])
        /\ i > at => lines[i] = <<>>

\* lastlevel: a level that exists is below li, unless there is none.
Searching ==
    /\ OthersShown
    /\ lines[at] = <<>> /\ level = First(at)
    /\ 1 <= li /\ li <= le
    /\ li = 1 \/ li <= Frames
    /\ height \in 1..2

\* No level is left out so far.
Upper ==
    LET k == First(at) IN
    /\ lines[at] = Levels(k, level - 1)
    /\ level = k \/ (0 <= k /\ k <= level /\ level <= Frames)
    /\ IF InTaggedcoro
       THEN IF Long(k, Frames) THEN n1 = LEVELS1 - (level - k) /\ n1 >= 0 ELSE n1 < 0
       ELSE IF Deepest(Frames) > COMPAT53_LEVELS1 + COMPAT53_LEVELS2
            THEN n1 = COMPAT53_LEVELS1 /\ (k <= 11 => level <= 11) ELSE n1 = 0

\* Those in the middle have been left out, and never again.
Lower ==
    LET k == First(at) IN
    /\ 0 <= k /\ Long(k, Frames)
    /\ lines[at] = (Levels(k, LastUpper(k)) \o <<-1>>) \o Levels(Frames - 11, level - 1)
    /\ Frames - 11 <= level /\ level <= Frames
    /\ IF InTaggedcoro THEN n1 < 0 ELSE n1 = COMPAT53_LEVELS1

\* The slots in use: the message and the heading, or one string, or that and "...".
Fits ==
    IF InTaggedcoro
    THEN height \in 1..2 /\ room \in 11..12 /\ (n1 \in 0..9 => height = 1)
    ELSE height \in 1..3 /\ room = 20 /\ (level <= 11 => height <= 2)

TextInv ==
    /\ TextTypes
    /\ tphase = "last" => Searching
    /\ tphase = "lines" => OthersShown /\ last = Deepest(Frames) /\ (Upper \/ Lower) /\ Fits
    /\ tphase = "done" => ShowsAllLevels

-----------------------------------------------------------------------------
(* Sequences of levels.                                                    *)

LEMMA LevelsAre ==
    ASSUME NEW k \in Int, NEW m \in Int
    PROVE  /\ Levels(k, m) \in Seq(Int)
           /\ m < k => Levels(k, m) = <<>>
           /\ k - 1 <= m => Len(Levels(k, m)) = m - k + 1
           /\ \A j \in 1..(m - k + 1) : Levels(k, m)[j] = k + j - 1
<1>1. CASE m < k
  <2>1. m - k + 1 <= 0 /\ 1..(m - k + 1) = {}
    BY <1>1
  <2>2. Levels(k, m) = <<>>
    BY <2>1 DEF Levels
  <2> QED BY <1>1, <2>1, <2>2
<1>2. CASE k <= m
  <2>1. m - k + 1 \in Nat
    BY <1>2
  <2> QED BY <1>2, <2>1 DEF Levels
<1> QED BY <1>1, <1>2

LEMMA LevelsMore ==
    ASSUME NEW k \in Int, NEW m \in Int, k <= m
    PROVE  Append(Levels(k, m - 1), m) = Levels(k, m)
<1> DEFINE s == Levels(k, m - 1)
           t == Levels(k, m)
<1>1. /\ s \in Seq(Int) /\ Len(s) = m - k
      /\ \A j \in 1..(m - k) : s[j] = k + j - 1
  <2>1. m - 1 - k + 1 = m - k /\ k - 1 <= m - 1
    OBVIOUS
  <2> QED BY <2>1, LevelsAre
<1>2. /\ t \in Seq(Int) /\ Len(t) = m - k + 1
      /\ \A j \in 1..(m - k + 1) : t[j] = k + j - 1
  BY LevelsAre
<1> HIDE DEF s, t
<1>3. /\ Append(s, m) \in Seq(Int) /\ Len(Append(s, m)) = Len(s) + 1
      /\ \A j \in 1..Len(s) : Append(s, m)[j] = s[j]
      /\ Append(s, m)[Len(s) + 1] = m
  BY <1>1, AppendedIs
<1>4. Len(Append(s, m)) = Len(t)
  BY <1>1, <1>2, <1>3
<1>5. \A j \in 1..Len(t) : Append(s, m)[j] = t[j]
  BY <1>1, <1>2, <1>3
<1> QED BY <1>2, <1>3, <1>4, <1>5, SeqEqual DEF s, t

LEMMA AppendToSecond ==
    \A s, t \in Seq(Int) : \A v \in Int : Append(s \o t, v) = s \o Append(t, v)
<1> SUFFICES ASSUME NEW s \in Seq(Int), NEW t \in Seq(Int), NEW v \in Int
             PROVE  Append(s \o t, v) = s \o Append(t, v)
  OBVIOUS
<1>1. s \o t \in Seq(Int) /\ <<v>> \in Seq(Int)
  BY ConcatProperties
<1>2. Append(s \o t, v) = (s \o t) \o <<v>> /\ Append(t, v) = t \o <<v>>
  BY <1>1, AppendIsConcat
<1>3. (s \o t) \o <<v>> = s \o (t \o <<v>>)
  BY <1>1, ConcatAssociative
<1> QED BY <1>2, <1>3

-----------------------------------------------------------------------------
(* Steps of the lines.                                                     *)

LEMMA JobIs ==
    ASSUME NEW q \in Job
    PROVE  /\ q.from \in Int
           /\ q.depths \in Seq(Nat) /\ Len(q.depths) \in {1, 2}
           /\ q.by # "taggedcoro" => Len(q.depths) = 1
<1>1. CASE q \in [by : {"taggedcoro"}, from : FirstLevel, depths : Depth \X Depth]
  <2>1. q.by = "taggedcoro" /\ q.from \in FirstLevel /\ q.depths \in Depth \X Depth
    BY <1>1
  <2>2. PICK a, b \in Depth : q.depths = <<a, b>>
    BY <2>1
  <2>3. a \in Nat /\ b \in Nat
    BY TextAssumption
  <2>4. <<a, b>> \in Seq(Nat) /\ Len(<<a, b>>) = 2
    BY <2>3
  <2> QED BY <2>1, <2>2, <2>4, TextAssumption
<1>2. CASE q \in [by : {"taggedcoro", "compat53"}, from : FirstLevel, depths : {<<d>> : d \in Depth}]
  <2>1. PICK d \in Depth : q.depths = <<d>>
    BY <1>2
  <2>2. q.from \in FirstLevel
    BY <1>2
  <2>3. <<d>> \in Seq(Nat) /\ Len(<<d>>) = 1
    BY TextAssumption
  <2> QED BY <2>1, <2>2, <2>3, TextAssumption
<1> QED BY <1>1, <1>2 DEF Job

\* The coroutine that is being shown.
LEMMA CurrentIs ==
    ASSUME TextTypes, tphase # "idle"
    PROVE  /\ at \in Nat /\ 1 <= at /\ at <= Len(job.depths) /\ Len(job.depths) \in {1, 2}
           /\ DOMAIN lines = 1..Len(job.depths)
           /\ Frames \in Nat /\ Deepest(Frames) \in Nat
           /\ \A i \in DOMAIN lines : First(i) \in Int /\ job.depths[i] \in Nat
           /\ First(at) \in Int
           /\ ~InTaggedcoro => at = 1 /\ Len(job.depths) = 1
<1>1. /\ job \in Job /\ at \in DOMAIN job.depths /\ DOMAIN lines = DOMAIN job.depths
  BY DEF TextTypes
<1>2. /\ job.from \in Int /\ job.depths \in Seq(Nat) /\ Len(job.depths) \in {1, 2}
      /\ ~InTaggedcoro => Len(job.depths) = 1
  BY <1>1, JobIs DEF InTaggedcoro
<1>3. DOMAIN job.depths = 1..Len(job.depths) /\ \A i \in DOMAIN job.depths : job.depths[i] \in Nat
  BY <1>2, ElementOfSeq
<1> QED BY <1>1, <1>2, <1>3 DEF Frames, Deepest, First

LEMMA SameJob ==
    ASSUME job' = job
    PROVE  /\ InTaggedcoro' <=> InTaggedcoro
           /\ \A i : First(i)' = First(i)
           /\ \A k, d : /\ Shown(k, d)' = Shown(k, d)
                       /\ Long(k, d)' <=> Long(k, d)
                       /\ LastUpper(k)' = LastUpper(k)
<1>1. InTaggedcoro' <=> InTaggedcoro
  BY DEF InTaggedcoro
<1>2. \A i : First(i)' = First(i)
  BY DEF First
<1>3. \A k, d : Shown(k, d)' = Shown(k, d)
  BY <1>1 DEF Shown
<1>4. \A k, d : Long(k, d)' <=> Long(k, d)
  BY <1>1 DEF Long
<1>5. \A k : LastUpper(k)' = LastUpper(k)
  BY <1>1 DEF LastUpper
<1> QED BY <1>1, <1>2, <1>3, <1>4, <1>5

\* The others are as shown as they were.
LEMMA OthersStay ==
    ASSUME OthersShown, job' = job, at' = at, DOMAIN lines' = DOMAIN lines,
           \A i \in DOMAIN lines : i # at => lines'[i] = lines[i], TextTypes, tphase # "idle"
    PROVE  OthersShown'
<1> SUFFICES ASSUME NEW i \in DOMAIN lines'
             PROVE  /\ i < at' => lines'[i] = (Shown(First(i), job.depths[i]))'
                    /\ i > at' => lines'[i] = <<>>
  BY DEF OthersShown
<1>1. (Shown(First(i), job.depths[i]))' = Shown(First(i), job.depths[i])
  BY SameJob DEF Shown, First
<1>2. at \in Nat /\ i \in Nat
  BY CurrentIs
<1>3. i < at \/ i > at => lines'[i] = lines[i]
  BY <1>2
<1> QED BY <1>1, <1>2, <1>3 DEF OthersShown

LEMMA TracebackOK ==
    ASSUME TextInv, NEW q \in Job, NEW msg \in 0..1, Traceback(q, msg)
    PROVE  TextInv'
<1>1. /\ job' = q /\ at' = 1 /\ level' = q.from /\ height' = msg + 1 /\ li' = 1 /\ le' = 1
      /\ lines' = [i \in DOMAIN q.depths |-> <<>>] /\ tphase' = "last"
      /\ UNCHANGED <<n1, last, room>>
  BY DEF Traceback
<1>2. q.from \in Int /\ DOMAIN q.depths = 1..Len(q.depths) /\ Len(q.depths) \in {1, 2}
  BY JobIs
<1>3. 1 \in DOMAIN q.depths
  BY <1>2
<1>4. TextTypes'
  BY <1>1, <1>2, <1>3 DEF TextInv, TextTypes
<1>5. Searching'
  BY <1>1, <1>2, <1>3 DEF Searching, OthersShown, First
<1> QED BY <1>1, <1>4, <1>5 DEF TextInv

\* What stays in a step of lastlevel.
LEMMA SearchSame ==
    ASSUME TextInv, tphase = "last", tphase' = "last",
           UNCHANGED <<job, at, level, n1, last, height, room, lines>>,
           li' \in Nat, le' \in Nat, 1 <= li', li' <= le', li' = 1 \/ li' <= Frames
    PROVE  TextInv'
<1>1. TextTypes'
  BY DEF TextInv, TextTypes
<1>2. Searching'
  <2>1. Searching /\ TextTypes /\ OthersShown
    BY DEF TextInv, Searching
  <2>2. OthersShown'
    BY <2>1, OthersStay
  <2> QED BY <2>1, <2>2 DEF Searching, First, Frames
<1> QED BY <1>1, <1>2 DEF TextInv

LEMMA DoublesOK ==
    ASSUME TextInv, Doubles
    PROVE  TextInv'
<1>1. Searching /\ TextTypes /\ Frames \in Nat
  BY CurrentIs DEF TextInv, Doubles
<1>2. le < Frames
  BY DEF Doubles, Exists, Frames
<1> QED BY <1>1, <1>2, SearchSame DEF Doubles, Searching, TextTypes

LEMMA HalvesOK ==
    ASSUME TextInv, Halves
    PROVE  TextInv'
<1> DEFINE m == (li + le) \div 2
<1>1. Searching /\ TextTypes /\ Frames \in Nat
  BY CurrentIs DEF TextInv, Halves
<1>2. m \in Nat /\ li <= m /\ m < le
  BY <1>1 DEF Halves, TextTypes
<1>3. IF m < Frames THEN li' = m + 1 /\ le' = le ELSE le' = m /\ li' = li
  BY <1>2 DEF Halves, Exists, Frames
<1> HIDE DEF m
<1>4. CASE m < Frames
  BY <1>1, <1>2, <1>3, <1>4, SearchSame DEF Halves, Searching, TextTypes
<1>5. CASE ~(m < Frames)
  BY <1>1, <1>2, <1>3, <1>5, SearchSame DEF Halves, Searching, TextTypes
<1> QED BY <1>4, <1>5

\* lastlevel is right: the last level that exists, or level 0 of a coroutine without frames.
LEMMA LastFoundOK ==
    ASSUME TextInv, LastFound
    PROVE  TextInv'
<1>1. /\ Searching /\ TextTypes
      /\ Frames \in Nat /\ Deepest(Frames) \in Nat /\ First(at) \in Int
      /\ ~InTaggedcoro => at = 1
  BY CurrentIs DEF TextInv, LastFound
<1>2. /\ ~(le < Frames) /\ li = le /\ last' = le - 1 /\ tphase' = "lines"
      /\ UNCHANGED <<job, at, level, li, le, height, lines>>
  BY <1>1 DEF LastFound, Lastlevel, Exists, Frames, TextTypes
<1>3. last' = Deepest(Frames)
  BY <1>1, <1>2 DEF Searching, Deepest, TextTypes
<1>4. /\ n1' = IF InTaggedcoro
               THEN IF Deepest(Frames) - First(at) > 21 THEN 10 ELSE -1
               ELSE IF Deepest(Frames) > 22 THEN 12 ELSE 0
      /\ room' = IF InTaggedcoro THEN height + 10 ELSE 20
  BY <1>1, <1>3 DEF LastFound, Searching, LEVELS1, LEVELS2, COMPAT53_LEVELS1, COMPAT53_LEVELS2
<1>5. TextTypes'
  <2>1. n1' \in Int /\ last' \in Int /\ room' \in Nat
    BY <1>1, <1>3, <1>4 DEF TextTypes
  <2>2. tphase # "idle"
    BY DEF LastFound
  <2> QED BY <1>1, <1>2, <2>1, <2>2 DEF TextTypes
<1>6. (OthersShown /\ last = Deepest(Frames))'
  <2>1. tphase # "idle" /\ OthersShown
    BY <1>1 DEF LastFound, Searching
  <2>2. OthersShown'
    BY <1>1, <1>2, <2>1, OthersStay
  <2> QED BY <1>2, <1>3, <2>2 DEF Frames, Deepest
<1>7. Upper'
  <2>1. Levels(First(at), First(at) - 1) = <<>>
    BY <1>1, LevelsAre
  <2>2. /\ First(at)' = First(at) /\ Frames' = Frames /\ (InTaggedcoro' <=> InTaggedcoro)
        /\ level' = First(at) /\ lines'[at'] = <<>>
    BY <1>1, <1>2 DEF Searching, First, Frames, InTaggedcoro
  <2>3. lines'[at'] = Levels(First(at)', level' - 1)
    BY <2>1, <2>2
  <2>4. CASE InTaggedcoro
    BY <1>1, <1>4, <2>2, <2>3, <2>4 DEF Upper, Long, LEVELS1, LEVELS2
  <2>5. CASE ~InTaggedcoro
    BY <1>1, <1>4, <2>2, <2>3, <2>5 DEF Upper, COMPAT53_LEVELS1, COMPAT53_LEVELS2
  <2> QED BY <2>4, <2>5
<1>8. Fits'
  BY <1>1, <1>2, <1>4 DEF Fits, Searching, InTaggedcoro
<1> QED BY <1>2, <1>5, <1>6, <1>7, <1>8 DEF TextInv

\* The state in which a line is added to the coroutine that is being shown.
LEMMA LinesAre ==
    ASSUME TextInv, tphase = "lines", Exists(level)
    PROVE  /\ TextTypes /\ OthersShown /\ last = Deepest(Frames) /\ (Upper \/ Lower) /\ Fits
           /\ Frames \in Nat /\ First(at) \in Int /\ level \in Int /\ n1 \in Int
           /\ 0 <= level /\ level < Frames /\ last = Frames - 1
           /\ at \in DOMAIN lines /\ lines \in [DOMAIN lines -> Seq(Int)] /\ lines[at] \in Seq(Int)
<1>1. TextTypes /\ OthersShown /\ last = Deepest(Frames) /\ (Upper \/ Lower) /\ Fits
  BY DEF TextInv
<1>2. Frames \in Nat /\ First(at) \in Int
  BY <1>1, CurrentIs
<1>3. level \in Int /\ 0 <= level /\ level < Frames
  BY <1>1 DEF Exists, Frames, TextTypes
<1>4. last = Frames - 1
  BY <1>1, <1>2, <1>3 DEF Deepest
<1>5. at \in DOMAIN lines /\ lines \in [DOMAIN lines -> Seq(Int)] /\ n1 \in Int
  BY <1>1 DEF TextTypes
<1> QED BY <1>1, <1>2, <1>3, <1>4, <1>5

\* What a line or "..." leaves as it was.
LEMMA ShowsSame ==
    ASSUME TextInv, tphase = "lines", Exists(level), NEW v \in Int, Shows(v),
           level' \in Int, n1' \in Int, height' \in Nat,
           UNCHANGED <<job, at, last, li, le, room, tphase>>
    PROVE  /\ TextTypes' /\ OthersShown' /\ (last = Deepest(Frames))'
           /\ Frames' = Frames /\ First(at)' = First(at) /\ (InTaggedcoro' <=> InTaggedcoro)
           /\ lines'[at'] = Append(lines[at], v)
<1>1. /\ TextTypes /\ OthersShown /\ last = Deepest(Frames)
      /\ at \in DOMAIN lines /\ lines \in [DOMAIN lines -> Seq(Int)] /\ lines[at] \in Seq(Int)
  BY LinesAre
<1>2. Append(lines[at], v) \in Seq(Int)
  BY <1>1
<1>3. /\ lines' \in [DOMAIN lines -> Seq(Int)] /\ lines'[at] = Append(lines[at], v)
      /\ \A i \in DOMAIN lines : i # at => lines'[i] = lines[i]
  BY <1>1, <1>2 DEF Shows
<1>4. OthersShown'
  BY <1>1, <1>3, OthersStay
<1>5. TextTypes'
  BY <1>1, <1>3 DEF TextTypes
<1> QED BY <1>1, <1>3, <1>4, <1>5, SameJob DEF Frames, Deepest, First

LEMMA UpperAgain ==
    ASSUME job' = job, at' = at,
           lines'[at] = Levels(First(at), level' - 1),
           level' = First(at) \/ (0 <= First(at) /\ First(at) <= level' /\ level' <= Frames),
           IF InTaggedcoro
           THEN IF Long(First(at), Frames)
                THEN n1' = LEVELS1 - (level' - First(at)) /\ n1' >= 0 ELSE n1' < 0
           ELSE IF Deepest(Frames) > COMPAT53_LEVELS1 + COMPAT53_LEVELS2
                THEN n1' = COMPAT53_LEVELS1 /\ (First(at) <= 11 => level' <= 11) ELSE n1' = 0
    PROVE  Upper'
BY DEF Upper, First, Frames, Long, Deepest, InTaggedcoro

LEMMA LowerAgain ==
    ASSUME job' = job, at' = at,
           0 <= First(at), Long(First(at), Frames),
           lines'[at] = (Levels(First(at), LastUpper(First(at))) \o <<-1>>) \o Levels(Frames - 11, level' - 1),
           Frames - 11 <= level', level' <= Frames,
           IF InTaggedcoro THEN n1' < 0 ELSE n1' = COMPAT53_LEVELS1
    PROVE  Lower'
BY DEF Lower, First, Frames, Long, LastUpper, Deepest, InTaggedcoro

LEMMA LineOK ==
    ASSUME TextInv, Line
    PROVE  TextInv'
<1>1. /\ tphase = "lines" /\ Exists(level) /\ ~TooMany /\ Shows(level) /\ level' = level + 1
      /\ n1' = (IF InTaggedcoro THEN n1 - 1 ELSE n1) /\ height' = 1
      /\ UNCHANGED <<job, at, last, li, le, room, tphase>>
  BY DEF Line, ShowsLevel, Counts, Concatenated
<1>2. /\ (Upper \/ Lower) /\ Fits
      /\ Frames \in Nat /\ First(at) \in Int /\ level \in Int /\ n1 \in Int
      /\ 0 <= level /\ level < Frames
  BY <1>1, LinesAre
<1>3. level' \in Int /\ n1' \in Int /\ height' \in Nat
  BY <1>1, <1>2
<1>4. /\ TextTypes' /\ OthersShown' /\ (last = Deepest(Frames))'
      /\ Frames' = Frames /\ First(at)' = First(at) /\ (InTaggedcoro' <=> InTaggedcoro)
      /\ lines'[at'] = Append(lines[at], level)
  BY <1>1, <1>2, <1>3, ShowsSame
<1>5. IF InTaggedcoro THEN n1 # 0 ELSE level + 1 # n1
  BY <1>1 DEF TooMany
<1>6. Fits'
  BY <1>1, <1>2, <1>4 DEF Fits
<1>7. CASE Upper
  <2>1. lines'[at] = Levels(First(at), level)
    <3>1. lines[at] = Levels(First(at), level - 1) /\ First(at) <= level
      BY <1>2, <1>7 DEF Upper
    <3> QED BY <1>1, <1>2, <1>4, <3>1, LevelsMore
  <2>2. level' - 1 = level /\ 0 <= First(at) /\ First(at) <= level' /\ level' <= Frames
    BY <1>1, <1>2, <1>7 DEF Upper
  <2>3. IF InTaggedcoro
        THEN IF Long(First(at), Frames)
             THEN n1' = LEVELS1 - (level' - First(at)) /\ n1' >= 0 ELSE n1' < 0
        ELSE IF Deepest(Frames) > COMPAT53_LEVELS1 + COMPAT53_LEVELS2
             THEN n1' = COMPAT53_LEVELS1 /\ (First(at) <= 11 => level' <= 11) ELSE n1' = 0
    <3>1. CASE InTaggedcoro
      BY <1>1, <1>2, <1>5, <1>7, <3>1 DEF Upper, LEVELS1
    <3>2. CASE ~InTaggedcoro
      BY <1>1, <1>2, <1>5, <1>7, <3>2 DEF Upper, COMPAT53_LEVELS1, COMPAT53_LEVELS2
    <3> QED BY <3>1, <3>2
  <2>4. lines'[at] = Levels(First(at), level' - 1)
    BY <2>1, <2>2
  <2>5. Upper'
    BY <1>1, <2>2, <2>3, <2>4, UpperAgain
  <2> QED BY <1>1, <1>4, <1>6, <2>5 DEF TextInv
<1>8. CASE Lower
  <2> DEFINE seen == Levels(First(at), LastUpper(First(at))) \o <<-1>>
  <2>1. /\ lines[at] = seen \o Levels(Frames - 11, level - 1) /\ Frames - 11 <= level
        /\ seen \in Seq(Int)
    <3>1. LastUpper(First(at)) \in Int
      BY <1>2 DEF LastUpper
    <3>2. Levels(First(at), LastUpper(First(at))) \in Seq(Int) /\ <<-1>> \in Seq(Int)
      BY <1>2, <3>1, LevelsAre
    <3>3. seen \in Seq(Int)
      BY <3>2, ConcatProperties
    <3> QED BY <1>8, <3>3 DEF Lower
  <2>2. lines'[at] = seen \o Levels(Frames - 11, level)
    <3> DEFINE tail == Levels(Frames - 11, level - 1)
    <3>1. tail \in Seq(Int) /\ Frames - 11 \in Int
      BY <1>2, LevelsAre
    <3>2. Append(tail, level) = Levels(Frames - 11, level)
      BY <1>2, <2>1, <3>1, LevelsMore
    <3>3. lines[at] = seen \o tail /\ lines'[at] = Append(lines[at], level)
      BY <1>1, <1>4, <2>1
    <3> HIDE DEF seen, tail
    <3>4. Append(seen \o tail, level) = seen \o Append(tail, level)
      <4>1. seen \in Seq(Int) /\ tail \in Seq(Int) /\ level \in Int
        BY <1>2, <2>1, <3>1
      <4> QED BY <4>1, AppendToSecond, Zenon
    <3> QED BY <3>2, <3>3, <3>4, Zenon
  <2>3. Lower'
    <3>1. level' - 1 = level /\ Frames - 11 <= level' /\ level' <= Frames
      BY <1>1, <1>2, <2>1
    <3>2. lines'[at] = seen \o Levels(Frames - 11, level' - 1)
      BY <2>2, <3>1
    <3>3. IF InTaggedcoro THEN n1' < 0 ELSE n1' = COMPAT53_LEVELS1
      <4>1. CASE InTaggedcoro
        BY <1>1, <1>2, <1>8, <4>1 DEF Lower
      <4>2. CASE ~InTaggedcoro
        BY <1>1, <1>8, <4>2 DEF Lower
      <4> QED BY <4>1, <4>2
    <3>4. 0 <= First(at) /\ Long(First(at), Frames)
      BY <1>8 DEF Lower
    <3> QED BY <1>1, <3>1, <3>2, <3>3, <3>4, LowerAgain
  <2> QED BY <1>1, <1>4, <1>6, <2>3 DEF TextInv
<1> QED BY <1>2, <1>7, <1>8

\* "..." comes once, after the first levels, and the last eleven follow.
LEMMA DotsOK ==
    ASSUME TextInv, Dots
    PROVE  TextInv'
<1>1. /\ tphase = "lines" /\ Exists(level) /\ TooMany /\ Shows(-1)
      /\ level' = last - 10
      /\ n1' = (IF InTaggedcoro THEN n1 - 1 ELSE n1) /\ height' = height + 1
      /\ UNCHANGED <<job, at, last, li, le, room, tphase>>
  <2>1. last \in Int
    BY DEF TextInv, TextTypes
  <2> QED BY <2>1 DEF Dots, TooMany, Counts, LEVELS2, COMPAT53_LEVELS2
<1>2. /\ (Upper \/ Lower) /\ Fits
      /\ Frames \in Nat /\ First(at) \in Int /\ level \in Int /\ n1 \in Int
      /\ 0 <= level /\ level < Frames /\ last = Frames - 1
  BY <1>1, LinesAre
<1>3. IF InTaggedcoro THEN n1 = 0 ELSE level + 1 = n1
  BY <1>1 DEF TooMany
<1>4. Upper
  <2> SUFFICES ASSUME Lower PROVE FALSE
    BY <1>2
  <2>1. CASE InTaggedcoro
    BY <1>3, <2>1 DEF Lower
  <2>2. CASE ~InTaggedcoro
    <3>1. Deepest(Frames) > 22 /\ level + 1 = 12 /\ Frames - 11 <= level
      BY <1>3, <2>2 DEF Lower, Long, COMPAT53_LEVELS1, COMPAT53_LEVELS2
    <3> QED BY <1>2, <3>1 DEF Deepest
  <2> QED BY <2>1, <2>2
<1>5. /\ Long(First(at), Frames) /\ level - 1 = LastUpper(First(at))
      /\ 0 <= First(at) /\ Frames >= 23
  <2>1. CASE InTaggedcoro
    <3>1. Long(First(at), Frames) /\ 0 = 10 - (level - First(at)) /\ 0 <= First(at)
      BY <1>2, <1>3, <1>4, <2>1 DEF Upper, LEVELS1
    <3> QED BY <1>2, <2>1, <3>1 DEF Long, LastUpper, Deepest, LEVELS1, LEVELS2
  <2>2. CASE ~InTaggedcoro
    <3>1. Deepest(Frames) > 22 /\ level = 11 /\ First(at) <= 11 /\ 0 <= First(at)
      BY <1>2, <1>3, <1>4, <2>2 DEF Upper, COMPAT53_LEVELS1, COMPAT53_LEVELS2
    <3> QED BY <1>2, <2>2, <3>1 DEF Long, LastUpper, Deepest, COMPAT53_LEVELS1, COMPAT53_LEVELS2
  <2> QED BY <2>1, <2>2
<1>6. height \in Nat /\ level' \in Int /\ n1' \in Int /\ height' \in Nat
  <2>1. height \in Nat
    BY DEF TextInv, TextTypes
  <2> QED BY <1>1, <1>2, <2>1
<1>7. /\ TextTypes' /\ OthersShown' /\ (last = Deepest(Frames))'
      /\ Frames' = Frames /\ First(at)' = First(at) /\ (InTaggedcoro' <=> InTaggedcoro)
      /\ lines'[at'] = Append(lines[at], -1)
  BY <1>1, <1>6, ShowsSame
<1>8. level' = Frames - 11
  BY <1>1, <1>2
<1>9. lines'[at'] = (Levels(First(at), LastUpper(First(at))) \o <<-1>>) \o Levels(Frames - 11, level' - 1)
  <2> DEFINE s == Levels(First(at), LastUpper(First(at)))
  <2>1. lines[at] = s
    BY <1>4, <1>5 DEF Upper
  <2>2. s \in Seq(Int)
    BY <2>1, <1>1, LinesAre
  <2>3. Levels(Frames - 11, level' - 1) = <<>>
    BY <1>2, <1>8, LevelsAre
  <2> HIDE DEF s
  <2>4. Append(s, -1) = s \o <<-1>> /\ s \o <<-1>> \in Seq(Int)
    BY <2>2, AppendIsConcat, ConcatProperties
  <2>5. (s \o <<-1>>) \o <<>> = s \o <<-1>>
    BY <2>4, ConcatEmptySeq
  <2> QED BY <1>7, <2>1, <2>3, <2>4, <2>5 DEF s
<1>10. IF InTaggedcoro THEN n1' < 0 ELSE n1' = COMPAT53_LEVELS1
  <2>1. CASE InTaggedcoro
    BY <1>1, <1>3, <2>1
  <2>2. CASE ~InTaggedcoro
    BY <1>1, <1>2, <1>3, <1>4, <2>2 DEF Upper, COMPAT53_LEVELS1, COMPAT53_LEVELS2
  <2> QED BY <2>1, <2>2
<1>11. Lower'
  <2>1. Frames - 11 <= level' /\ level' <= Frames
    BY <1>2, <1>8
  <2>2. lines'[at] = lines'[at']
    BY <1>1
  <2> QED BY <1>1, <1>5, <1>9, <1>10, <2>1, <2>2, LowerAgain
<1>12. Fits'
  <2>1. CASE InTaggedcoro
    BY <1>1, <1>2, <1>3, <1>7, <2>1 DEF Fits
  <2>2. CASE ~InTaggedcoro
    <3>1. level = 11
      BY <1>2, <1>3, <1>4, <2>2 DEF Upper, COMPAT53_LEVELS1, COMPAT53_LEVELS2
    <3> QED BY <1>1, <1>2, <1>5, <1>7, <1>8, <2>2, <3>1 DEF Fits
  <2> QED BY <2>1, <2>2
<1> QED BY <1>1, <1>7, <1>11, <1>12 DEF TextInv

\* What is shown of a coroutine when no level is left.
LEMMA AllShown ==
    ASSUME TextInv, tphase = "lines", ~Exists(level)
    PROVE  lines[at] = Shown(First(at), Frames)
<1> DEFINE k == First(at)
           d == Frames
<1>1. /\ Upper \/ Lower
      /\ d \in Nat /\ k \in Int /\ level \in Int /\ ~(0 <= level /\ level < d)
  <2>1. TextTypes /\ (Upper \/ Lower)
    BY DEF TextInv
  <2> QED BY <2>1, CurrentIs DEF Exists, Frames, TextTypes
<1>2. CASE Upper
  <2>1. lines[at] = Levels(k, level - 1)
    BY <1>2 DEF Upper
  <2>2. level = k \/ (0 <= k /\ k <= level /\ level = d)
    BY <1>1, <1>2 DEF Upper
  <2>3. CASE k < 0
    <3>1. level = k
      BY <1>1, <2>2, <2>3
    <3>2. Levels(k, level - 1) = <<>>
      BY <1>1, <3>1, LevelsAre
    <3> QED BY <2>1, <2>3, <3>2 DEF Shown
  <2>4. CASE 0 <= k
    <3>1. d <= k \/ level = d
      BY <1>1, <2>2, <2>4
    <3>2. ~Long(k, d)
      <4>1. CASE InTaggedcoro
        BY <1>1, <1>2, <2>2, <2>4, <3>1, <4>1 DEF Upper, Long, Deepest, LEVELS1, LEVELS2
      <4>2. CASE ~InTaggedcoro
        BY <1>1, <1>2, <2>2, <2>4, <3>1, <4>2
           DEF Upper, Long, Deepest, COMPAT53_LEVELS1, COMPAT53_LEVELS2
      <4> QED BY <4>1, <4>2
    <3>3. Levels(k, level - 1) = Levels(k, d - 1)
      <4>1. CASE level = d
        BY <4>1
      <4>2. CASE level # d
        <5>1. level = k /\ d <= k
          BY <2>2, <3>1, <4>2
        <5>2. level - 1 \in Int /\ level - 1 < k /\ d - 1 \in Int /\ d - 1 < k
          BY <1>1, <5>1
        <5> QED BY <1>1, <5>2, LevelsAre, Zenon
      <4> QED BY <4>1, <4>2
    <3>4. /\ ~(InTaggedcoro /\ d - 1 - k >= 22)
          /\ ~(~InTaggedcoro /\ d - 1 >= 23 /\ k <= 11)
      BY <1>1, <2>4, <3>2 DEF Long, Deepest, LEVELS1, LEVELS2, COMPAT53_LEVELS1, COMPAT53_LEVELS2
    <3>5. Shown(k, d) = Levels(k, d - 1)
      BY <1>1, <2>4, <3>4 DEF Shown
    <3> QED BY <2>1, <3>3, <3>5
  <2> QED BY <1>1, <2>3, <2>4
<1>3. CASE Lower
  <2>1. 0 <= k /\ Long(k, d) /\ level = d /\ d >= 23
    BY <1>1, <1>3 DEF Lower, Long, Deepest, LEVELS1, LEVELS2, COMPAT53_LEVELS1, COMPAT53_LEVELS2
  <2>2. lines[at] = (Levels(k, LastUpper(k)) \o <<-1>>) \o Levels(d - 11, d - 1)
    BY <1>3, <2>1 DEF Lower
  <2>3. d - 1 - 10 = d - 11
    BY <1>1
  <2>4. Shown(k, d) = (Levels(k, LastUpper(k)) \o <<-1>>) \o Levels(d - 11, d - 1)
    <3>1. CASE InTaggedcoro
      <4>1. d - 1 - k >= 22 /\ ~(k < 0)
        BY <1>1, <2>1, <3>1 DEF Long, Deepest, LEVELS1, LEVELS2
      <4>2. LastUpper(k) = k + 9
        BY <3>1 DEF LastUpper
      <4> QED BY <2>3, <3>1, <4>1, <4>2 DEF Shown
    <3>2. CASE ~InTaggedcoro
      <4>1. d - 1 >= 23 /\ k <= 11 /\ ~(k < 0)
        BY <1>1, <2>1, <3>2 DEF Long, Deepest, COMPAT53_LEVELS1, COMPAT53_LEVELS2
      <4>2. LastUpper(k) = 10
        BY <3>2 DEF LastUpper
      <4> QED BY <2>3, <3>2, <4>1, <4>2 DEF Shown
    <3> QED BY <3>1, <3>2
  <2> QED BY <2>2, <2>4
<1> QED BY <1>1, <1>2, <1>3

LEMMA NextThreadOK ==
    ASSUME TextInv, NextThread
    PROVE  TextInv'
<1>1. /\ tphase = "lines" /\ ~Exists(level) /\ at < Len(job.depths)
      /\ at' = at + 1 /\ level' = 1 /\ li' = 1 /\ le' = 1 /\ tphase' = "last"
      /\ UNCHANGED <<job, n1, last, height, room, lines>>
  BY DEF NextThread
<1>2. TextTypes /\ OthersShown /\ Fits
  BY <1>1 DEF TextInv
<1>3. /\ at \in Nat /\ 1 <= at /\ DOMAIN lines = 1..Len(job.depths) /\ Len(job.depths) \in Nat
      /\ InTaggedcoro
  BY <1>1, <1>2, CurrentIs
<1>4. at' \in DOMAIN lines /\ at' > at /\ at' # 1
  BY <1>1, <1>3
<1>5. TextTypes'
  BY <1>1, <1>2, <1>4 DEF TextTypes
<1>6. OthersShown'
  <2> SUFFICES ASSUME NEW i \in DOMAIN lines
               PROVE  /\ i < at + 1 => lines[i] = Shown(First(i), job.depths[i])
                      /\ i > at + 1 => lines[i] = <<>>
    <3>1. \A i : (Shown(First(i), job.depths[i]))' = Shown(First(i), job.depths[i])
      BY <1>1, SameJob DEF Shown, First
    <3> QED BY <1>1, <3>1 DEF OthersShown
  <2>1. i \in Nat
    BY <1>3
  <2>2. CASE i = at
    BY <1>1, <1>3, <2>2, AllShown DEF Frames
  <2>3. CASE i # at
    BY <1>2, <1>3, <2>1, <2>3 DEF OthersShown
  <2> QED BY <2>2, <2>3
<1>7. lines'[at'] = <<>> /\ level' = First(at)'
  BY <1>1, <1>2, <1>4 DEF OthersShown, First
<1>8. height' \in 1..2
  BY <1>1, <1>2, <1>3 DEF Fits
<1>9. Searching'
  BY <1>1, <1>6, <1>7, <1>8 DEF Searching
<1> QED BY <1>1, <1>5, <1>9 DEF TextInv

LEMMA TextEndsOK ==
    ASSUME TextInv, TextEnds
    PROVE  TextInv'
<1>1. /\ tphase = "lines" /\ ~Exists(level) /\ at = Len(job.depths)
      /\ height' = 1 /\ tphase' = "done"
      /\ UNCHANGED <<job, at, level, n1, last, li, le, room, lines>>
  BY DEF TextEnds
<1>2. TextTypes /\ OthersShown
  BY <1>1 DEF TextInv
<1>3. TextTypes'
  BY <1>1, <1>2 DEF TextTypes
<1>4. \A i \in DOMAIN lines : lines[i] = Shown(First(i), job.depths[i])
  <2> SUFFICES ASSUME NEW i \in DOMAIN lines PROVE lines[i] = Shown(First(i), job.depths[i])
    OBVIOUS
  <2>1. i \in Nat /\ i <= at /\ at \in Nat
    BY <1>1, <1>2, CurrentIs
  <2>2. CASE i = at
    BY <1>1, <2>2, AllShown DEF Frames
  <2>3. CASE i < at
    BY <1>2, <2>3 DEF OthersShown
  <2> QED BY <2>1, <2>2, <2>3
<1>5. ShowsAllLevels'
  <2>1. \A i : (Shown(First(i), job.depths[i]))' = Shown(First(i), job.depths[i])
    BY <1>1, SameJob DEF Shown, First
  <2>2. \A i \in DOMAIN lines' : lines'[i] = (Shown(First(i), job.depths[i]))'
    BY <1>1, <1>4, <2>1
  <2> QED BY <2>2 DEF ShowsAllLevels, First
<1> QED BY <1>1, <1>3, <1>5 DEF TextInv

LEMMA TextInitOK == TextInit => TextInv
BY DEF TextInit, TextInv, TextTypes

LEMMA TextUsedOK ==
    ASSUME TextInv, TextUsed
    PROVE  TextInv'
BY DEF TextUsed, TextInv, TextTypes

LEMMA TextSame ==
    ASSUME TextInv, UNCHANGED textVars
    PROVE  TextInv'
<1>1. /\ job' = job /\ at' = at /\ level' = level /\ n1' = n1 /\ last' = last /\ li' = li
      /\ le' = le /\ height' = height /\ room' = room /\ lines' = lines /\ tphase' = tphase
  BY DEF textVars
<1>2. TextTypes'
  BY <1>1 DEF TextInv, TextTypes
<1>3. OthersShown => OthersShown'
  <2>1. \A i : (Shown(First(i), job.depths[i]))' = Shown(First(i), job.depths[i])
    BY <1>1, SameJob DEF Shown, First
  <2> QED BY <1>1, <2>1 DEF OthersShown
<1>4. Frames' = Frames /\ First(at)' = First(at) /\ (InTaggedcoro' <=> InTaggedcoro)
  BY <1>1 DEF Frames, First, InTaggedcoro
<1>5. Searching => Searching'
  BY <1>1, <1>3, <1>4 DEF Searching
<1>6. Upper => Upper'
  BY <1>1 DEF Upper, First, Frames, Long, Deepest, InTaggedcoro
<1>7. Lower => Lower'
  BY <1>1 DEF Lower, First, Frames, Long, LastUpper, Deepest, InTaggedcoro
<1>8. Fits => Fits'
  BY <1>1, <1>4 DEF Fits
<1>9. ShowsAllLevels => ShowsAllLevels'
  <2>1. \A i : (Shown(First(i), job.depths[i]))' = Shown(First(i), job.depths[i])
    BY <1>1, SameJob DEF Shown, First
  <2> QED BY <1>1, <2>1 DEF ShowsAllLevels, First
<1> QED BY <1>1, <1>2, <1>3, <1>4, <1>5, <1>6, <1>7, <1>8, <1>9 DEF TextInv, Deepest

LEMMA TextStepOK == TextInv /\ TextNext => TextInv'
<1> SUFFICES ASSUME TextInv, TextNext PROVE TextInv'
  OBVIOUS
<1>1. CASE \E q \in Job, msg \in 0..1 : Traceback(q, msg)
  BY <1>1, TracebackOK
<1>2. CASE Doubles
  BY <1>2, DoublesOK
<1>3. CASE Halves
  BY <1>3, HalvesOK
<1>4. CASE LastFound
  BY <1>4, LastFoundOK
<1>5. CASE Line
  BY <1>5, LineOK
<1>6. CASE Dots
  BY <1>6, DotsOK
<1>7. CASE NextThread
  BY <1>7, NextThreadOK
<1>8. CASE TextEnds
  BY <1>8, TextEndsOK
<1>9. CASE TextUsed
  BY <1>9, TextUsedOK
<1> QED BY <1>1, <1>2, <1>3, <1>4, <1>5, <1>6, <1>7, <1>8, <1>9 DEF TextNext

-----------------------------------------------------------------------------
(* The theorems.                                                           *)

\* Both invariants hold: the search for a name and the lines are what they say.
THEOREM TextInvariant == TextSpec => [](NamesInv /\ TextInv)
<1>1. NamesInit /\ TextInit => NamesInv /\ TextInv
  BY NamesInitOK, TextInitOK
<1>2. NamesInv /\ TextInv
      /\ [\/ NamesNext /\ UNCHANGED textVars
          \/ TextNext /\ UNCHANGED namesVars]_<<namesVars, textVars>>
      => (NamesInv /\ TextInv)'
  <2> SUFFICES ASSUME NamesInv, TextInv,
                      \/ NamesNext /\ UNCHANGED textVars
                      \/ TextNext /\ UNCHANGED namesVars
                      \/ UNCHANGED <<namesVars, textVars>>
               PROVE  (NamesInv /\ TextInv)'
    OBVIOUS
  <2>1. CASE NamesNext /\ UNCHANGED textVars
    BY <2>1, NamesStepOK, TextSame
  <2>2. CASE TextNext /\ UNCHANGED namesVars
    BY <2>2, NamesSame, TextStepOK
  <2>3. CASE UNCHANGED <<namesVars, textVars>>
    <3>1. UNCHANGED namesVars /\ UNCHANGED textVars
      BY <2>3
    <3> QED BY <3>1, NamesSame, TextSame
  <2> QED BY <2>1, <2>2, <2>3
<1> QED BY <1>1, <1>2, PTL DEF TextSpec

\* pushglobalfuncname finds a name when there is one and only names that lead to the
\* function, whatever the tables of the program hold.
THEOREM NamesAreRight == TextSpec => []NamesResolve
<1>1. NamesInv => NamesResolve
  BY DEF NamesInv, NamesResolve
<1> QED BY <1>1, TextInvariant, PTL

\* The traceback of auxtraceback and of luaL_traceback shows what it says, for all
\* depths and from every level.
THEOREM AllLevelsAreShown == TextSpec => []ShowsAllLevels
<1>1. TextInv => ShowsAllLevels
  BY DEF TextInv, ShowsAllLevels
<1> QED BY <1>1, TextInvariant, PTL

\* luaL_checkstack has made room for every line, however many there are.
THEOREM StackHasRoom == TextSpec => []TracebackFits
<1>1. NamesInv /\ TextInv => TracebackFits
  <2> SUFFICES ASSUME NamesInv, TextInv PROVE TracebackFits
    OBVIOUS
  <2>1. Len(ns) <= NameRoom
    <3>1. \/ Len(ns) = 0 \/ Len(ns) = 1
          \/ Next1 \/ Next2 \/ Look1 \/ Look2 \/ Found1 \/ Found2
      BY DEF NamesInv, NamesTypes
    <3>2. Next1 \/ Found1 => Len(ns) = 3
      BY DEF Next1, Found1
    <3>3. Next2 \/ Found2 => Len(ns) = 5
      BY DEF Next2, Found2
    <3>4. (Look1 => Len(ns) = 4) /\ (Look2 => Len(ns) = 6)
      BY DEF Look1, Look2
    <3>5. Len(ns) \in {0, 1, 3, 4, 5, 6}
      BY <3>1, <3>2, <3>3, <3>4, Zenon
    <3>6. \A n \in {0, 1, 3, 4, 5, 6} : n <= NameRoom
      BY DEF NameRoom
    <3> QED BY <3>5, <3>6, Zenon
  <2>2. ASSUME tphase = "lines"
        PROVE  height + (IF ShowsLevel THEN 3 + NameRoom ELSE 2) <= room
    <3>1. Fits /\ TextTypes
      BY <2>2 DEF TextInv
    <3> QED BY <3>1 DEF Fits, NameRoom
  <2> QED BY <2>1, <2>2 DEF TracebackFits
<1> QED BY <1>1, TextInvariant, PTL
=============================================================================
