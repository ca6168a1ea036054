--------------------------- MODULE FunctionTables ---------------------------
(***************************************************************************)
(* The function tables of src/src/taggedcoro.c: what luaopen_taggedcoro,   *)
(* fortag, make, wrap and install give the program.  All are C closures;   *)
(* what such a function works on is in its upvalues, the coroset table of  *)
(* the copy of the library it belongs to and, for some, a tag or coroutine.*)
(* A closure is a record of the C function (without "taggedcoro_") and the *)
(* upvalues; a coroset is the number of its copy.                          *)
(***************************************************************************)
EXTENDS Integers, Sequences

CONSTANTS
    Coroutine, MainThread,
    Tags,           \* the tags a program gives; any value but nil
    NilArg, NoArg,  \* an argument that is nil, one that is not there
    DefaultTag,     \* "coroutine"
    MaxCopies,      \* bound: how often luaopen_taggedcoro runs
    MaxTables       \* bound: the tables fortag and make return

VARIABLES
    loaded,   \* package.loaded.taggedcoro: a copy, 0 if there is none
    metadata, \* copy -> coroset: thread -> tag
    tables,   \* the tables of fortag and make, and what they were asked for
    wraps,    \* the functions returned by wrap
    methods,  \* __index of the metatable of threads
    threadCall, \* its __call: no function or one
    cleared   \* history: the program has removed the library from package.loaded

\* What a program gives as a tag is not one of the tables the library makes, which
\* are the integers below.
ASSUME TablesAssumption ==
    /\ (Tags \cup {DefaultTag}) \cap Int = {}
    /\ NilArg # NoArg

tablesVars == <<loaded, metadata, tables, wraps, methods, threadCall, cleared>>

\* f where x is v, and f where it is defined, else g.
With(f, x, v) == [y \in (DOMAIN f) \cup {x} |-> IF y = x THEN v ELSE f[y]]
Joined(f, g) == [y \in (DOMAIN f) \cup (DOMAIN g) |-> IF y \in DOMAIN f THEN f[y] ELSE g[y]]

\* luaL_setfuncs: every function of the list becomes a closure with these upvalues.
Closures(list, up) == [name \in DOMAIN list |-> [fn |-> list[name], up |-> up]]
Closure(table) == {table[name] : name \in DOMAIN table}

ftc_funcs == [create |-> "cocreatec", wrap |-> "cowrapc", yield |-> "yieldc",
              isyieldable |-> "yieldablec"]

ftuc_funcs == [resume |-> "coresume", call |-> "cocall", running |-> "corunning",
               status |-> "costatus", parent |-> "coparent", source |-> "cosource",
               tag |-> "cotag", traceback |-> "traceback"]

mt_funcs == [resume |-> "coresume", status |-> "costatus", parent |-> "coparent",
             source |-> "cosource", call |-> "cocall", tag |-> "cotag"]

tc_funcs == Joined([create |-> "cocreate", wrap |-> "cowrap", yield |-> "yield",
                    isyieldable |-> "yieldable", fortag |-> "fortag", make |-> "make",
                    install |-> "install"], ftuc_funcs)

Library(copy) == Closures(tc_funcs, <<copy>>)

\* All a program can call.
Function ==
    (UNION {Closure(Library(copy)) : copy \in DOMAIN metadata})
    \cup (UNION {Closure(tables[i].functions) : i \in DOMAIN tables})
    \cup wraps \cup Closure(methods) \cup threadCall

Coroset(f) == f.up[1]

TablesInit ==
    /\ loaded = 0
    /\ metadata = <<>>
    /\ tables = <<>>
    /\ wraps = {}
    /\ methods = <<>>
    /\ threadCall = {}
    /\ cleared = FALSE
-----------------------------------------------------------------------------
\* luaopen_taggedcoro: a new coroset, in which the main thread has metadata without tag.
Opens ==
    /\ Len(metadata) < MaxCopies
    /\ metadata' = Append(metadata, [t \in {MainThread} |-> NilArg])
    /\ loaded' = Len(metadata) + 1

Require == loaded = 0 /\ Opens /\ UNCHANGED <<tables, wraps, methods, threadCall, cleared>>

Unload ==
    /\ loaded # 0
    /\ loaded' = 0
    /\ cleared' = TRUE
    /\ UNCHANGED <<metadata, tables, wraps, methods, threadCall>>

\* lua_replace(L, 1) pops what it copies: with no argument at all the stack is empty
\* again, and slot 1 is the next value pushed, the table of functions (the tag i).
FortagTag(arg, i) == IF arg = NoArg THEN i ELSE IF arg = NilArg THEN DefaultTag ELSE arg

\* An argument nil is replaced by a new table, which is the tag -i.
MakeTag_Fortag(arg, i) == FortagTag(arg, i)
MakeTag(arg, i) == IF arg = NilArg THEN -i ELSE FortagTag(arg, i)

TaggedFunctions(copy, g) ==
    Joined(Closures(ftuc_funcs, <<copy>>), Closures(ftc_funcs, <<copy, g>>))

\* fortag and make.
Fortag(f, arg) ==
    /\ f.fn \in {"fortag", "make"}
    /\ Len(tables) < MaxTables
    /\ LET i == Len(tables) + 1
           g == IF f.fn = "make" THEN MakeTag(arg, i) ELSE FortagTag(arg, i)
       IN tables' = Append(tables,
            [functions |-> TaggedFunctions(Coroset(f), g), of |-> f.fn, asked |-> arg])
    /\ UNCHANGED <<loaded, metadata, wraps, methods, threadCall, cleared>>

\* cocreate, or the part of it that cowrap runs for a function: t is new.
Creates(f, arg, t) ==
    LET g == IF f.fn \in {"cocreatec", "cowrapc"} THEN f.up[2]
             ELSE IF arg = NilArg THEN DefaultTag ELSE arg
    IN
    /\ arg # NoArg
    /\ \A copy \in DOMAIN metadata : t \notin DOMAIN metadata[copy]
    /\ metadata' = [metadata EXCEPT ![Coroset(f)] = With(@, t, g)]

Create(f, arg, t) ==
    /\ f.fn \in {"cocreate", "cocreatec"}
    /\ Creates(f, arg, t)
    /\ UNCHANGED <<loaded, tables, wraps, methods, threadCall, cleared>>

Wrapped(f, t) == [fn |-> "auxwrap", up |-> <<Coroset(f), t>>]

Wrap(f, arg, t) ==
    /\ f.fn \in {"cowrap", "cowrapc"}
    /\ Creates(f, arg, t)
    /\ wraps' = wraps \cup {Wrapped(f, t)}
    /\ UNCHANGED <<loaded, tables, methods, threadCall, cleared>>

Wrappable_Any(f, t) == \E copy \in DOMAIN metadata : t \in DOMAIN metadata[copy]
Wrappable(f, t) == t \in DOMAIN metadata[Coroset(f)]

\* Wrapping a coroutine that exists; whatever its tag is, but only one of this copy.
WrapThread(f, t) ==
    /\ f.fn \in {"cowrap", "cowrapc"}
    /\ Wrappable(f, t)
    /\ wraps' = wraps \cup {Wrapped(f, t)}
    /\ UNCHANGED <<loaded, metadata, tables, methods, threadCall, cleared>>

MustOpen_Always == TRUE
MustOpen == loaded = 0

\* install: the methods are closures of its own copy; __call is cocall without any
\* upvalue (lua_pushcfunction); the library it returns is the one that luaL_requiref
\* finds or opens.
Install(f) ==
    /\ f.fn = "install"
    /\ methods' = Closures(mt_funcs, <<Coroset(f)>>)
    /\ threadCall' = {[fn |-> "cocall", up |-> <<>>]}
    /\ IF MustOpen THEN Opens ELSE UNCHANGED <<loaded, metadata>>
    /\ UNCHANGED <<tables, wraps, cleared>>

TablesNext ==
    \/ Require \/ Unload
    \/ \E f \in Function :
          \/ \E arg \in Tags \cup {NilArg, NoArg} :
                \/ Fortag(f, arg)
                \/ \E t \in Coroutine : Create(f, arg, t) \/ Wrap(f, arg, t)
          \/ \E t \in Coroutine \cup {MainThread} : WrapThread(f, t)
          \/ Install(f)

TablesSpec == TablesInit /\ [][TablesNext]_tablesVars
-----------------------------------------------------------------------------
\* The upvalues each C function reads.
Reads(fn) ==
    CASE fn \in {"corunning", "yield"} -> 0
      [] fn \in {"cocreatec", "cowrapc", "yieldc", "yieldablec", "auxwrap"} -> 2
      [] OTHER -> 1

IsBound(f) ==
    /\ Len(f.up) >= Reads(f.fn)
    /\ f.fn = "auxwrap" => f.up[2] \in DOMAIN metadata[Coroset(f)]

\* Whichever way a function came to the program, by the library, fortag, make, wrap or
\* the methods of install, the upvalues it reads are there, and the coroutine of a
\* function returned by wrap has metadata in the coroset that this function looks in:
\* what co(...) calls after an install is the only exception.
OnlyThreadCallIsUnbound == \A f \in Function : IsBound(f) \/ f \in threadCall

\* taggedcoro.c:204, "coroset[co]" of upvalue 1: the same without the exception, so
\* that cocall finds the table of coroutines in its upvalue also when co(...) calls it.
FunctionsAreBound == \A f \in Function : IsBound(f)

TagOf(i) == tables[i].functions.yield.up[2]

\* src/README.md:73-75: make "generates a fresh tag if none is given", whether the
\* argument is nil or is missing; so no other table yields to coroutines of this one.
FreshTags ==
    \A i, j \in DOMAIN tables :
        tables[i].of = "make" /\ tables[i].asked \in {NilArg, NoArg} /\ i # j
           => TagOf(i) # TagOf(j)

\* As long as the program leaves package.loaded alone, all functions it has that have
\* a coroset share one, the methods included: a coroutine made by one is known to every
\* other.
OneCoroset ==
    ~cleared => \A f, h \in Function \ threadCall : Coroset(f) = Coroset(h)
=============================================================================
