------------------------ MODULE FunctionTablesProofs ------------------------
(***************************************************************************)
(* Proofs about FunctionTables, for any coroutines and tags, and for any   *)
(* number of copies of the library and of tables.                          *)
(***************************************************************************)
EXTENDS FunctionTables, TLAPS

\* A tag that a coroutine of the program has, and the metadata of a copy.
TagValue == Tags \cup {DefaultTag} \cup Int
Metadata == UNION {[D -> TagValue \cup {NilArg}] : D \in SUBSET (Coroutine \cup {MainThread})}

\* The functions of the lists of the source, with one upvalue and with two.
OneUpvalue ==
    {"cocreate", "cowrap", "yield", "yieldable", "fortag", "make", "install", "coresume",
     "cocall", "corunning", "costatus", "coparent", "cosource", "cotag", "traceback"}
TwoUpvalues == {"cocreatec", "cowrapc", "yieldc", "yieldablec"}

\* What was asked of fortag or make, and the tag this stands for in the i-th table.
Asked == Tags \cup {NilArg, NoArg}
WantedTag(i) ==
    IF tables[i].of = "make" THEN MakeTag(tables[i].asked, i) ELSE FortagTag(tables[i].asked, i)

Table ==
    [functions : {TaggedFunctions(copy, g) : copy \in Nat, g \in TagValue},
     of : {"fortag", "make"}, asked : Asked]

-----------------------------------------------------------------------------
(* The inductive invariant.                                                *)

TablesTypes ==
    /\ metadata \in Seq(Metadata)
    /\ tables \in Seq(Table)
    /\ loaded \in {0} \cup DOMAIN metadata

TablesMade ==
    \A i \in DOMAIN tables :
        \E copy \in DOMAIN metadata : tables[i].functions = TaggedFunctions(copy, WantedTag(i))

WrapsMade ==
    \A f \in wraps : \E copy \in DOMAIN metadata : \E t \in DOMAIN metadata[copy] :
        f = [fn |-> "auxwrap", up |-> <<copy, t>>]

MethodsMade ==
    methods = <<>> \/ \E copy \in DOMAIN metadata : methods = Closures(mt_funcs, <<copy>>)

ThreadCallMade == threadCall \subseteq {[fn |-> "cocall", up |-> <<>>]}

\* There is no second copy until the program has removed the first.
OneCopy == ~cleared => Len(metadata) <= 1 /\ (loaded = 0 => metadata = <<>>)

TablesInv ==
    /\ TablesTypes
    /\ TablesMade
    /\ WrapsMade
    /\ MethodsMade
    /\ ThreadCallMade
    /\ OneCopy

-----------------------------------------------------------------------------
(* What closures there are.                                                *)

LEMMA ClosuresAre ==
    ASSUME NEW list, NEW up, NEW f \in Closure(Closures(list, up))
    PROVE  \E name \in DOMAIN list : f.fn = list[name] /\ f.up = up
BY DEF Closure, Closures

LEMMA ListsAre ==
    /\ \A name \in DOMAIN ftuc_funcs : ftuc_funcs[name] \in OneUpvalue
    /\ \A name \in DOMAIN mt_funcs : mt_funcs[name] \in OneUpvalue
    /\ \A name \in DOMAIN ftc_funcs : ftc_funcs[name] \in TwoUpvalues
    /\ \A name \in DOMAIN tc_funcs : tc_funcs[name] \in OneUpvalue
<1>1. \A name \in DOMAIN ftuc_funcs : ftuc_funcs[name] \in OneUpvalue
  BY DEF ftuc_funcs, OneUpvalue
<1>2. \A name \in DOMAIN mt_funcs : mt_funcs[name] \in OneUpvalue
  BY DEF mt_funcs, OneUpvalue
<1>3. \A name \in DOMAIN ftc_funcs : ftc_funcs[name] \in TwoUpvalues
  BY DEF ftc_funcs, TwoUpvalues
<1>4. \A name \in DOMAIN tc_funcs : tc_funcs[name] \in OneUpvalue
  <2> DEFINE own == [create |-> "cocreate", wrap |-> "cowrap", yield |-> "yield",
                     isyieldable |-> "yieldable", fortag |-> "fortag", make |-> "make",
                     install |-> "install"]
  <2>1. \A name \in DOMAIN own : own[name] \in OneUpvalue
    BY DEF OneUpvalue
  <2>2. tc_funcs = Joined(own, ftuc_funcs)
    BY DEF tc_funcs
  <2> HIDE DEF own
  <2> QED BY <1>1, <2>1, <2>2 DEF Joined
<1> QED BY <1>1, <1>2, <1>3, <1>4

LEMMA LibraryFunctions ==
    ASSUME NEW copy, NEW f \in Closure(Library(copy))
    PROVE  f.fn \in OneUpvalue /\ f.up = <<copy>>
BY ClosuresAre, ListsAre DEF Library

LEMMA MethodFunctions ==
    ASSUME NEW copy, NEW f \in Closure(Closures(mt_funcs, <<copy>>))
    PROVE  f.fn \in OneUpvalue /\ f.up = <<copy>>
BY ClosuresAre, ListsAre

LEMMA TaggedAre ==
    ASSUME NEW copy, NEW g, NEW f \in Closure(TaggedFunctions(copy, g))
    PROVE  \/ f.fn \in OneUpvalue /\ f.up = <<copy>>
           \/ f.fn \in TwoUpvalues /\ f.up = <<copy, g>>
<1> DEFINE one == Closures(ftuc_funcs, <<copy>>)
           two == Closures(ftc_funcs, <<copy, g>>)
<1>1. TaggedFunctions(copy, g) = Joined(one, two)
  BY DEF TaggedFunctions
<1>2. f \in Closure(one) \cup Closure(two)
  <2> HIDE DEF one, two
  <2> QED BY <1>1 DEF Closure, Joined
<1> QED BY <1>2, ClosuresAre, ListsAre

LEMMA TagOfTagged ==
    ASSUME NEW copy, NEW g
    PROVE  TaggedFunctions(copy, g).yield.up[2] = g
<1>1. "yield" \notin DOMAIN Closures(ftuc_funcs, <<copy>>)
  BY DEF Closures, ftuc_funcs
<1>2. /\ "yield" \in DOMAIN Closures(ftc_funcs, <<copy, g>>)
      /\ Closures(ftc_funcs, <<copy, g>>)["yield"] = [fn |-> "yieldc", up |-> <<copy, g>>]
  BY DEF Closures, ftc_funcs
<1>3. TaggedFunctions(copy, g)["yield"] = [fn |-> "yieldc", up |-> <<copy, g>>]
  BY <1>1, <1>2 DEF TaggedFunctions, Joined
<1> QED BY <1>3

\* Whatever the program can call.
LEMMA FunctionsAre ==
    ASSUME TablesInv, NEW f \in Function
    PROVE  \/ f \in threadCall /\ f.fn = "cocall"
           \/ \E copy \in DOMAIN metadata :
              \/ f.fn \in OneUpvalue /\ f.up = <<copy>>
              \/ f.fn \in TwoUpvalues /\ \E g \in TagValue : f.up = <<copy, g>>
              \/ f.fn = "auxwrap" /\ \E t \in DOMAIN metadata[copy] : f.up = <<copy, t>>
<1>1. ASSUME NEW copy \in DOMAIN metadata, f \in Closure(Library(copy))
      PROVE  f.fn \in OneUpvalue /\ f.up = <<copy>>
  BY <1>1, LibraryFunctions
<1>2. ASSUME NEW i \in DOMAIN tables, f \in Closure(tables[i].functions)
      PROVE  \E copy \in DOMAIN metadata :
                \/ f.fn \in OneUpvalue /\ f.up = <<copy>>
                \/ f.fn \in TwoUpvalues /\ \E g \in TagValue : f.up = <<copy, g>>
  <2>1. PICK copy \in DOMAIN metadata : tables[i].functions = TaggedFunctions(copy, WantedTag(i))
    BY DEF TablesInv, TablesMade
  <2>2. WantedTag(i) \in TagValue
    <3>1. i \in Int /\ tables[i] \in Table
      BY DEF TablesInv, TablesTypes
    <3>2. tables[i].asked \in Asked
      BY <3>1 DEF Table
    <3> QED BY <3>1, <3>2 DEF WantedTag, MakeTag, FortagTag, TagValue, Asked
  <2> QED BY <1>2, <2>1, <2>2, TaggedAre
<1>3. ASSUME f \in wraps
      PROVE  \E copy \in DOMAIN metadata :
                f.fn = "auxwrap" /\ \E t \in DOMAIN metadata[copy] : f.up = <<copy, t>>
  BY <1>3 DEF TablesInv, WrapsMade
<1>4. ASSUME f \in Closure(methods)
      PROVE  \E copy \in DOMAIN metadata : f.fn \in OneUpvalue /\ f.up = <<copy>>
  <2>1. methods # <<>>
    BY <1>4 DEF Closure
  <2>2. PICK copy \in DOMAIN metadata : methods = Closures(mt_funcs, <<copy>>)
    BY <2>1 DEF TablesInv, MethodsMade
  <2> QED BY <1>4, <2>2, MethodFunctions
<1>5. \/ \E copy \in DOMAIN metadata : f \in Closure(Library(copy))
      \/ \E i \in DOMAIN tables : f \in Closure(tables[i].functions)
      \/ f \in wraps
      \/ f \in Closure(methods)
      \/ f \in threadCall
  <2> DEFINE A == UNION {Closure(Library(copy)) : copy \in DOMAIN metadata}
             B == UNION {Closure(tables[i].functions) : i \in DOMAIN tables}
  <2>1. f \in A \/ f \in B \/ f \in wraps \/ f \in Closure(methods) \/ f \in threadCall
    BY DEF Function
  <2>2. f \in A => \E copy \in DOMAIN metadata : f \in Closure(Library(copy))
    BY SMT
  <2>3. f \in B => \E i \in DOMAIN tables : f \in Closure(tables[i].functions)
    BY SMT
  <2> QED BY <2>1, <2>2, <2>3
<1>6. CASE \E copy \in DOMAIN metadata : f \in Closure(Library(copy))
  BY <1>1, <1>6
<1>7. CASE \E i \in DOMAIN tables : f \in Closure(tables[i].functions)
  BY <1>2, <1>7
<1>8. f \in threadCall => f.fn = "cocall"
  BY DEF TablesInv, ThreadCallMade
<1> QED BY <1>3, <1>4, <1>5, <1>6, <1>7, <1>8

LEMMA TablesInitOK == TablesInit => TablesInv
BY DEF TablesInit, TablesInv, TablesTypes, TablesMade, WrapsMade, MethodsMade, ThreadCallMade,
       OneCopy

\* A copy of the library more, whose number is new.
LEMMA OpensCopy ==
    ASSUME TablesTypes, Opens
    PROVE  /\ metadata' \in Seq(Metadata)
           /\ loaded' = Len(metadata) + 1 /\ Len(metadata') = Len(metadata) + 1
           /\ \A copy \in DOMAIN metadata : copy \in DOMAIN metadata' /\ metadata'[copy] = metadata[copy]
<1>1. [t \in {MainThread} |-> NilArg] \in Metadata
  <2>1. {MainThread} \in SUBSET (Coroutine \cup {MainThread})
    OBVIOUS
  <2>2. [t \in {MainThread} |-> NilArg] \in [{MainThread} -> TagValue \cup {NilArg}]
    OBVIOUS
  <2> QED BY <2>1, <2>2 DEF Metadata
<1> QED BY <1>1 DEF TablesTypes, Opens

\* Nothing that a copy or a wrapped coroutine is needed for disappears.
LEMMA MadeStays ==
    ASSUME TablesInv,
           \A copy \in DOMAIN metadata :
              /\ copy \in DOMAIN metadata'
              /\ DOMAIN metadata[copy] \subseteq DOMAIN metadata'[copy]
    PROVE  /\ tables' = tables => TablesMade'
           /\ wraps' = wraps => WrapsMade'
           /\ methods' = methods => MethodsMade'
           /\ threadCall' = threadCall => ThreadCallMade'
BY DEF TablesInv, TablesMade, WrapsMade, MethodsMade, ThreadCallMade, WantedTag

LEMMA CreatesOK ==
    ASSUME TablesInv, NEW f \in Function, NEW arg \in Asked, NEW t \in Coroutine, Creates(f, arg, t),
           f.fn \in {"cocreate", "cocreatec", "cowrap", "cowrapc"}
    PROVE  /\ metadata' \in Seq(Metadata) /\ Len(metadata') = Len(metadata)
           /\ Coroset(f) \in DOMAIN metadata /\ t \in DOMAIN metadata'[Coroset(f)]
           /\ \A copy \in DOMAIN metadata :
                 /\ copy \in DOMAIN metadata'
                 /\ DOMAIN metadata[copy] \subseteq DOMAIN metadata'[copy]
<1>1. PICK copy \in DOMAIN metadata :
         \/ f.fn \in OneUpvalue /\ f.up = <<copy>>
         \/ f.fn \in TwoUpvalues /\ \E g \in TagValue : f.up = <<copy, g>>
  BY FunctionsAre
<1>2. Coroset(f) = copy
  BY <1>1 DEF Coroset
<1>3. PICK g \in TagValue : metadata' = [metadata EXCEPT ![copy] = With(@, t, g)]
  <2>1. f.fn \in {"cocreatec", "cowrapc"} => f.up[2] \in TagValue
    BY <1>1 DEF OneUpvalue, TwoUpvalues
  <2> QED BY <1>2, <2>1 DEF Creates, TagValue, Asked
<1>4. PICK D \in SUBSET (Coroutine \cup {MainThread}) : metadata[copy] \in [D -> TagValue \cup {NilArg}]
  BY DEF TablesInv, TablesTypes, Metadata
<1>5. With(metadata[copy], t, g) \in [D \cup {t} -> TagValue \cup {NilArg}]
  BY <1>4 DEF With
<1>6. With(metadata[copy], t, g) \in Metadata
  BY <1>5 DEF Metadata
<1> QED BY <1>2, <1>3, <1>4, <1>5, <1>6 DEF TablesInv, TablesTypes

-----------------------------------------------------------------------------
(* The steps.                                                              *)

LEMMA FortagOK ==
    ASSUME TablesInv, NEW f \in Function, NEW arg \in Asked, Fortag(f, arg)
    PROVE  TablesInv'
<1> DEFINE i == Len(tables) + 1
           g == IF f.fn = "make" THEN MakeTag(arg, i) ELSE FortagTag(arg, i)
           new == [functions |-> TaggedFunctions(Coroset(f), g), of |-> f.fn, asked |-> arg]
<1>1. PICK copy \in DOMAIN metadata : f.up = <<copy>>
  BY FunctionsAre DEF Fortag, TwoUpvalues
<1>2. Coroset(f) = copy /\ copy \in Nat
  BY <1>1 DEF Coroset, TablesInv, TablesTypes
<1>3. i \in Int /\ g \in TagValue
  BY DEF TablesInv, TablesTypes, MakeTag, FortagTag, TagValue, Asked
<1>4. new \in Table
  BY <1>2, <1>3 DEF Table, Fortag
<1>5. tables' = Append(tables, new) /\ UNCHANGED <<loaded, metadata, wraps, methods, threadCall, cleared>>
  BY DEF Fortag
<1>6. TablesTypes'
  BY <1>4, <1>5 DEF TablesInv, TablesTypes
<1>7. TablesMade'
  <2> SUFFICES ASSUME NEW j \in DOMAIN tables'
               PROVE  \E c \in DOMAIN metadata :
                         tables'[j].functions = TaggedFunctions(c, WantedTag(j)')
    BY <1>5 DEF TablesMade
  <2>1. CASE j = i
    <3>1. tables'[j] = new
      BY <1>4, <1>5, <2>1 DEF TablesInv, TablesTypes
    <3>2. WantedTag(j)' = g
      BY <2>1, <3>1 DEF WantedTag
    <3> QED BY <1>2, <3>1, <3>2
  <2>2. CASE j # i
    <3>1. j \in DOMAIN tables /\ tables'[j] = tables[j]
      BY <1>4, <1>5, <2>2 DEF TablesInv, TablesTypes
    <3> QED BY <3>1 DEF TablesInv, TablesMade, WantedTag
  <2> QED BY <2>1, <2>2
<1> QED BY <1>5, <1>6, <1>7 DEF TablesInv, WrapsMade, MethodsMade, ThreadCallMade, OneCopy

LEMMA CreateOK ==
    ASSUME TablesInv, NEW f \in Function, NEW arg \in Asked, NEW t \in Coroutine, Create(f, arg, t)
    PROVE  TablesInv'
<1>1. Creates(f, arg, t) /\ UNCHANGED <<loaded, tables, wraps, methods, threadCall, cleared>>
  BY DEF Create
<1>2. /\ metadata' \in Seq(Metadata) /\ Len(metadata') = Len(metadata)
      /\ \A copy \in DOMAIN metadata :
            /\ copy \in DOMAIN metadata'
            /\ DOMAIN metadata[copy] \subseteq DOMAIN metadata'[copy]
  BY <1>1, CreatesOK DEF Create
<1>3. TablesMade' /\ WrapsMade' /\ MethodsMade' /\ ThreadCallMade'
  BY <1>1, <1>2, MadeStays
<1> QED BY <1>1, <1>2, <1>3 DEF TablesInv, TablesTypes, OneCopy

LEMMA WrapOK ==
    ASSUME TablesInv, NEW f \in Function, NEW arg \in Asked, NEW t \in Coroutine, Wrap(f, arg, t)
    PROVE  TablesInv'
<1>1. Creates(f, arg, t) /\ UNCHANGED <<loaded, tables, methods, threadCall, cleared>>
  BY DEF Wrap
<1>2. /\ metadata' \in Seq(Metadata) /\ Len(metadata') = Len(metadata)
      /\ Coroset(f) \in DOMAIN metadata /\ t \in DOMAIN metadata'[Coroset(f)]
      /\ \A copy \in DOMAIN metadata :
            /\ copy \in DOMAIN metadata'
            /\ DOMAIN metadata[copy] \subseteq DOMAIN metadata'[copy]
  BY <1>1, CreatesOK DEF Wrap
<1>3. TablesMade' /\ MethodsMade' /\ ThreadCallMade'
  BY <1>1, <1>2, MadeStays
<1>4. WrapsMade'
  BY <1>2 DEF Wrap, Wrapped, WrapsMade, TablesInv
<1> QED BY <1>1, <1>2, <1>3, <1>4 DEF TablesInv, TablesTypes, OneCopy

LEMMA WrapThreadOK ==
    ASSUME TablesInv, NEW f \in Function, NEW t, WrapThread(f, t)
    PROVE  TablesInv'
<1>1. Coroset(f) \in DOMAIN metadata
  <2>1. PICK copy \in DOMAIN metadata :
           \/ f.fn \in OneUpvalue /\ f.up = <<copy>>
           \/ f.fn \in TwoUpvalues /\ \E g \in TagValue : f.up = <<copy, g>>
    BY FunctionsAre DEF WrapThread
  <2> QED BY <2>1 DEF Coroset
<1>2. WrapsMade'
  BY <1>1 DEF WrapThread, Wrappable, Wrapped, WrapsMade, TablesInv
<1> QED BY <1>2 DEF WrapThread, TablesInv, TablesTypes, TablesMade, MethodsMade, ThreadCallMade,
                   OneCopy, WantedTag

LEMMA InstallOK ==
    ASSUME TablesInv, NEW f \in Function, Install(f)
    PROVE  TablesInv'
<1>0. ThreadCallMade'
  BY DEF Install, ThreadCallMade
<1>1. PICK copy \in DOMAIN metadata : f.up = <<copy>>
  BY FunctionsAre DEF Install, TwoUpvalues
<1>2. methods' = Closures(mt_funcs, <<copy>>) /\ UNCHANGED <<tables, wraps, cleared>>
  BY <1>1 DEF Install, Coroset
<1>3. CASE MustOpen
  <2>1. Opens
    BY <1>3 DEF Install
  <2>2. /\ metadata' \in Seq(Metadata)
        /\ loaded' = Len(metadata) + 1 /\ Len(metadata') = Len(metadata) + 1
        /\ \A c \in DOMAIN metadata : c \in DOMAIN metadata' /\ metadata'[c] = metadata[c]
    BY <2>1, OpensCopy DEF TablesInv
  <2>3. TablesMade' /\ WrapsMade'
    BY <1>2, <2>2, MadeStays
  <2>4. MethodsMade'
    BY <1>2, <2>2 DEF MethodsMade
  <2>5. cleared'
    BY <1>2, <1>3 DEF TablesInv, TablesTypes, OneCopy, MustOpen
  <2> QED BY <1>0, <1>2, <2>2, <2>3, <2>4, <2>5 DEF TablesInv, TablesTypes, OneCopy
<1>4. CASE ~MustOpen
  <2>1. UNCHANGED <<loaded, metadata>>
    BY <1>4 DEF Install
  <2>2. TablesMade' /\ WrapsMade'
    BY <1>2, <2>1, MadeStays
  <2>3. MethodsMade'
    BY <1>2, <2>1 DEF MethodsMade
  <2> QED BY <1>0, <1>2, <2>1, <2>2, <2>3 DEF TablesInv, TablesTypes, OneCopy
<1> QED BY <1>3, <1>4

LEMMA RequireOK == TablesInv /\ Require => TablesInv'
<1> SUFFICES ASSUME TablesInv, Require PROVE TablesInv'
  OBVIOUS
<1>1. /\ metadata' \in Seq(Metadata)
      /\ loaded' = Len(metadata) + 1 /\ Len(metadata') = Len(metadata) + 1
      /\ \A c \in DOMAIN metadata : c \in DOMAIN metadata' /\ metadata'[c] = metadata[c]
  BY OpensCopy DEF TablesInv, Require
<1>2. TablesMade' /\ WrapsMade' /\ MethodsMade' /\ ThreadCallMade'
  BY <1>1, MadeStays DEF Require
<1>3. OneCopy'
  BY <1>1 DEF TablesInv, TablesTypes, OneCopy, Require
<1> QED BY <1>1, <1>2, <1>3 DEF TablesInv, TablesTypes, Require

LEMMA UnloadOK == TablesInv /\ Unload => TablesInv'
BY DEF TablesInv, TablesTypes, TablesMade, WrapsMade, MethodsMade, ThreadCallMade, OneCopy,
       WantedTag, Unload

-----------------------------------------------------------------------------
\* Every copy, table, wrapped coroutine and method was made by the library, for a copy
\* that is there; a second copy is there only if the first was removed.
THEOREM TablesInvariant == TablesSpec => []TablesInv
<1>1. TablesInv /\ [TablesNext]_tablesVars => TablesInv'
  <2> SUFFICES ASSUME TablesInv, [TablesNext]_tablesVars PROVE TablesInv'
    OBVIOUS
  <2>1. CASE UNCHANGED tablesVars
    BY <2>1 DEF tablesVars, TablesInv, TablesTypes, TablesMade, WrapsMade, MethodsMade,
                ThreadCallMade, OneCopy, WantedTag
  <2>2. CASE Require
    BY <2>2, RequireOK
  <2>3. CASE Unload
    BY <2>3, UnloadOK
  <2>4. ASSUME NEW f \in Function, NEW arg \in Asked, Fortag(f, arg) PROVE TablesInv'
    BY <2>4, FortagOK
  <2>5. ASSUME NEW f \in Function, NEW arg \in Asked, NEW t \in Coroutine,
               Create(f, arg, t) \/ Wrap(f, arg, t)
        PROVE  TablesInv'
    BY <2>5, CreateOK, WrapOK
  <2>6. ASSUME NEW f \in Function, NEW t, WrapThread(f, t) PROVE TablesInv'
    BY <2>6, WrapThreadOK
  <2>7. ASSUME NEW f \in Function, Install(f) PROVE TablesInv'
    BY <2>7, InstallOK
  <2> QED BY <2>1, <2>2, <2>3, <2>4, <2>5, <2>6, <2>7 DEF TablesNext, Asked
<1> QED BY <1>1, TablesInitOK, PTL DEF TablesSpec

\* Of all functions that a program gets only the __call of threads lacks the upvalues
\* it reads, and a function of wrap finds the coroutine it resumes in its own coroset:
\* taggedcoro.c relies on both unchecked.
THEOREM TablesBound == TablesSpec => []OnlyThreadCallIsUnbound
<1>1. TablesInv => OnlyThreadCallIsUnbound
  <2> SUFFICES ASSUME TablesInv, NEW f \in Function, f \notin threadCall
               PROVE  /\ Len(f.up) >= Reads(f.fn)
                      /\ f.fn = "auxwrap" => f.up[2] \in DOMAIN metadata[Coroset(f)]
    BY DEF OnlyThreadCallIsUnbound, IsBound
  <2>1. PICK copy \in DOMAIN metadata :
           \/ f.fn \in OneUpvalue /\ f.up = <<copy>>
           \/ f.fn \in TwoUpvalues /\ \E g \in TagValue : f.up = <<copy, g>>
           \/ f.fn = "auxwrap" /\ \E t \in DOMAIN metadata[copy] : f.up = <<copy, t>>
    BY FunctionsAre
  <2>2. Reads(f.fn) \in {0, 1, 2} /\ (f.fn \in OneUpvalue => Reads(f.fn) \in {0, 1})
    BY DEF Reads, OneUpvalue
  <2>3. CASE f.fn \in OneUpvalue /\ f.up = <<copy>>
    BY <2>2, <2>3 DEF OneUpvalue
  <2>4. CASE f.fn \in TwoUpvalues /\ \E g \in TagValue : f.up = <<copy, g>>
    BY <2>2, <2>4 DEF TwoUpvalues
  <2>5. CASE f.fn = "auxwrap" /\ \E t \in DOMAIN metadata[copy] : f.up = <<copy, t>>
    BY <2>2, <2>5 DEF Coroset
  <2> QED BY <2>1, <2>3, <2>4, <2>5
<1> QED BY <1>1, TablesInvariant, PTL

\* A table that make returned without being given a tag has a tag that no other table has.
THEOREM TagsAreFresh == TablesSpec => []FreshTags
<1>1. TablesInv => FreshTags
  <2> SUFFICES ASSUME TablesInv, NEW i \in DOMAIN tables, NEW j \in DOMAIN tables, i # j,
                      tables[i].of = "make", tables[i].asked \in {NilArg, NoArg}
               PROVE  TagOf(i) # TagOf(j)
    BY DEF FreshTags
  <2>1. TagOf(i) = WantedTag(i) /\ TagOf(j) = WantedTag(j)
    BY TagOfTagged DEF TablesInv, TablesMade, TagOf
  <2>2. /\ i \in Nat /\ i > 0 /\ j \in Nat /\ j > 0
        /\ tables[j] \in Table
    BY DEF TablesInv, TablesTypes
  <2>3. tables[j].asked \in Asked
    BY <2>2 DEF Table
  <2>4. WantedTag(i) \in {i, -i}
    BY TablesAssumption DEF WantedTag, MakeTag, FortagTag
  <2>5. WantedTag(j) \in {j, -j} \cup Tags \cup {DefaultTag}
    BY <2>3 DEF WantedTag, MakeTag, FortagTag, Asked
  <2> QED BY <2>1, <2>2, <2>4, <2>5, TablesAssumption
<1> QED BY <1>1, TablesInvariant, PTL

\* Until the program removes the library from package.loaded, all its functions that have
\* a coroset, those of every table and the methods of threads, share one.
THEOREM CorosetIsShared == TablesSpec => []OneCoroset
<1>1. TablesInv => OneCoroset
  <2> SUFFICES ASSUME TablesInv, ~cleared,
                      NEW f \in Function \ threadCall, NEW h \in Function \ threadCall
               PROVE  Coroset(f) = Coroset(h)
    BY DEF OneCoroset
  <2>1. \A copy \in DOMAIN metadata : copy = 1
    BY DEF TablesInv, TablesTypes, OneCopy
  <2>2. Coroset(f) \in DOMAIN metadata
    BY FunctionsAre DEF Coroset
  <2>3. Coroset(h) \in DOMAIN metadata
    BY FunctionsAre DEF Coroset
  <2> QED BY <2>1, <2>2, <2>3
<1> QED BY <1>1, TablesInvariant, PTL
=============================================================================
