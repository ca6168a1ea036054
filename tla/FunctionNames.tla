---------------------------- MODULE FunctionNames ----------------------------
(***************************************************************************)
(* The name a traceback gives to a function: pushfuncname of               *)
(* src/src/taggedcoro.c and its copy for Lua 5.1 in src/src/compat-5.3.c.  *)
(* findfield looks for the function in a table of tables with lua_next,    *)
(* keeping everything on the Lua stack; its name is the path to it.        *)
(*                                                                         *)
(* An element of the stack is a sequence: of one value or key, or the keys *)
(* of a name.  The empty one is nil.                                       *)
(***************************************************************************)
EXTENDS LuaStack, FiniteSets

CONSTANTS
    Contents,    \* table -> key -> value; a value in its domain is a table
    LoadedTable, \* registry._LOADED
    Globals,     \* the table of globals, which is _LOADED._G
    StringKey,   \* the keys that are strings
    Fn           \* the functions that are on some stack

ASSUME NamesAssumption ==
    /\ {LoadedTable, Globals} \subseteq DOMAIN Contents
    /\ Contents[LoadedTable]["_G"] = Globals
    /\ Fn \cap DOMAIN Contents = {}

VARIABLES
    asked,   \* the function, whose code asks, and what lua_getinfo says of it
    ns,      \* the Lua stack above what was there
    search,  \* per activation of findfield the keys lua_next has not given yet
    nphase   \* idle, next or look (the loop of findfield), found, named

namesVars == <<asked, ns, search, nphase>>

Question ==
    [by : {"taggedcoro", "compat53"}, fn : Fn, what : {"main", "Lua", "C"}, named : BOOLEAN]

NamesInit == asked = <<>> /\ ns = <<>> /\ search = <<>> /\ nphase = "idle"

\* taggedcoro.c asks for a global name first, compat-5.3.c only of a C function that
\* the calling code gives no name.
Searches(q) == q.by = "taggedcoro" \/ (~q.named /\ q.what = "C")
Root(q) == IF q.by = "taggedcoro" THEN LoadedTable ELSE Globals

\* What remains to be said of a function that was not found; "?" is all there is to say.
OtherName(q) ==
    IF q.named THEN <<"name from code">>
    ELSE IF q.what = "main" THEN <<"main chunk">>
    ELSE IF q.what = "Lua" THEN <<"file and line">> ELSE <<"?">>

\* lua_getinfo pushes the function, then the table to search and the first key, nil.
Pushfuncname(q) ==
    /\ nphase = "idle"
    /\ asked' = q
    /\ IF Searches(q)
       THEN /\ ns' = <<<<q.fn>>, <<Root(q)>>, <<>>>>
            /\ search' = <<DOMAIN Contents[Root(q)]>>
            /\ nphase' = "next"
       ELSE /\ ns' = <<OtherName(q)>>
            /\ nphase' = "named"
            /\ UNCHANGED search

Level == 3 - Len(search)   \* findfield's argument level
Keys == search[Len(search)]

\* lua_next: the key is replaced by the next one and its value.
NextField(key) ==
    /\ nphase = "next"
    /\ key \in Keys
    /\ ns' = Popped(ns, 1) \o <<<<key>>, <<Contents[At(ns, -2)[1]][key]>>>>
    /\ search' = [search EXCEPT ![Len(search)] = @ \ {key}]
    /\ nphase' = "look"
    /\ UNCHANGED asked

\* lua_next pops the key after the last: findfield returns 0.
NoField ==
    /\ nphase = "next"
    /\ Keys = {}
    /\ search' = Popped(search, 1)
    /\ IF Len(search) = 1
       THEN ns' = <<OtherName(asked)>> /\ nphase' = "named"
       ELSE ns' = Popped(ns, 2) /\ UNCHANGED nphase
    /\ UNCHANGED asked

IsStringField == At(ns, -2)[1] \in StringKey
Matches == IsStringField /\ At(ns, -1) = ns[1]
Descends == IsStringField /\ Level > 1 /\ At(ns, -1)[1] \in DOMAIN Contents

Look ==
    /\ nphase = "look"
    /\ IF Descends /\ ~Matches
       THEN /\ ns' = Append(ns, <<>>)
            /\ search' = Append(search, DOMAIN Contents[At(ns, -1)[1]])
            /\ nphase' = "next"
       ELSE /\ ns' = Popped(ns, 1)
            /\ nphase' = IF Matches THEN "found" ELSE "next"
            /\ UNCHANGED search
    /\ UNCHANGED asked

\* The inner findfield has found a name: table, name become the path over the table.
JoinNames ==
    /\ nphase = "found"
    /\ Len(search) = 2
    /\ LET t == Removed(ns, -2) IN ns' = Append(Popped(t, 2), At(t, -2) \o At(t, -1))
    /\ search' = Popped(search, 1)
    /\ UNCHANGED <<asked, nphase>>

WithoutPrefix_Always(name) == Tail(name)
WithoutPrefix(name) == IF Len(name) > 1 /\ name[1] = "_G" THEN Tail(name) ELSE name

\* Back in pushglobalfuncname: the name replaces the function, the rest is popped.
FoundName ==
    /\ nphase = "found"
    /\ Len(search) = 1
    /\ ns' = <<IF asked.by = "taggedcoro" THEN WithoutPrefix(At(ns, -1)) ELSE At(ns, -1)>>
    /\ search' = Popped(search, 1)
    /\ nphase' = "named"
    /\ UNCHANGED asked

NameUsed == nphase = "named" /\ asked' = <<>> /\ ns' = <<>> /\ search' = <<>> /\ nphase' = "idle"

NamesNext ==
    \/ \E q \in Question : Pushfuncname(q)
    \/ \E table \in DOMAIN Contents : \E key \in DOMAIN Contents[table] : NextField(key)
    \/ NoField \/ Look \/ JoinNames \/ FoundName \/ NameUsed
-----------------------------------------------------------------------------
Field(table, key, v) ==
    /\ table \in DOMAIN Contents
    /\ key \in DOMAIN Contents[table] \cap StringKey
    /\ Contents[table][key] = v

Leads(table, path, fn) ==
    \/ Len(path) = 1 /\ Field(table, path[1], fn)
    \/ Len(path) = 2 /\ \E t \in DOMAIN Contents : Field(table, path[1], t) /\ Field(t, path[2], fn)

\* A name that a traceback prints leads to the function it stands for, in the table
\* that was searched or, without the prefix "_G.", in the globals; other words stand
\* there only if no field, nor any field of a field, holds the function.  Either way
\* one value is left on the stack.
NamesResolve ==
    nphase = "named" =>
        /\ Len(ns) = 1
        /\ IF Searches(asked) /\ \E p, k \in StringKey :
                 Leads(Root(asked), <<p>>, asked.fn) \/ Leads(Root(asked), <<p, k>>, asked.fn)
           THEN Leads(Root(asked), ns[1], asked.fn) \/ Leads(Globals, ns[1], asked.fn)
           ELSE ns[1] = OtherName(asked)
=============================================================================
