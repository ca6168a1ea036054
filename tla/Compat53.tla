------------------------------ MODULE Compat53 ------------------------------
(***************************************************************************)
(* Functions of Lua 5.3 that src/src/compat-5.3.c builds from the API of    *)
(* Lua 5.1 or 5.2; taggedcoro.c calls some of them.  A machine is a stack, *)
(* the tables, and what the last call returned.  The same calls are made   *)
(* to two: old runs the code of compat-5.3.c, new does what the manual of  *)
(* Lua 5.3 says.  They part at one kind of call, a table stored in itself:  *)
(* there the code fails (SetsIntoItself), and the calls end.  Metamethods  *)
(* and allocation failures are left out.                                   *)
(***************************************************************************)
EXTENDS LuaStack, FiniteSets

CONSTANTS
    Atom, NilValue,  \* values that are not tables or functions
    TableObject,     \* tables a program can make
    Registry, Globals53, \* those that exist
    Key,             \* keys a program uses: integers, pointers, names
    LoadedKey,       \* "_LOADED"
    Module,          \* what the luaopen function of a module returns
    MaxSlots,        \* bound: the values on the stack
    MaxCalls         \* bound: the calls

\* LUA_REGISTRYINDEX of Lua 5.1, below all indices of a stack: a C function has at
\* most LUAI_MAXCSTACK = 8000 slots.
RegistryIndex == -10000
Chunk == {"arith", "compare"}   \* code in Lua; its address is a key of the registry
ChunkFunction(chunk) == [fn |-> chunk, up |-> <<>>]

\* Nobody else has the address of a chunk, a function is not nil, and no key is a table.
ASSUME CompatAssumption ==
    /\ MaxSlots \in 1..8000 /\ MaxCalls \in Nat
    /\ (Key \cup {LoadedKey}) \cap Chunk = {}
    /\ Registry # Globals53
    /\ Key \cap (TableObject \cup {Registry, Globals53}) = {}
    /\ \A chunk \in Chunk : ChunkFunction(chunk) # NilValue

VARIABLES old, new, calls,
          failed  \* the last call failed on old alone

compatVars == <<old, new, calls, failed>>

Empty == [k \in Key \cup {LoadedKey} \cup Chunk |-> NilValue]

CompatInit ==
    /\ old = [stk |-> <<>>, tab |-> [t \in {Registry, Globals53} |-> Empty], ret |-> NilValue]
    /\ new = old
    /\ calls = 0 /\ failed = FALSE
-----------------------------------------------------------------------------
(* The API of Lua 5.1 (external).                                          *)

On(m, s) == [m EXCEPT !.stk = s]
Returns(m, r) == [m EXCEPT !.ret = r]
Push(m, v) == On(m, Append(m.stk, v))
Pop(m, n) == On(m, Popped(m.stk, n))
Top(m) == At(m.stk, -1)
Object(m, i) == IF i = RegistryIndex THEN Registry ELSE At(m.stk, i)
Pushvalue(m, i) == Push(m, Object(m, i))
Insert(m, i) == On(m, Inserted(m.stk, i))
Replace(m, i) == On(m, Replaced(m.stk, i))
IsTable(m, i) == Object(m, i) \in DOMAIN m.tab

Stored(m, t, k, v) == [m EXCEPT !.tab[t][k] = v]
Getfield(m, i, k) == Push(m, m.tab[Object(m, i)][k])
Setfield(m, i, k) == Stored(Pop(m, 1), Object(m, i), k, Top(m))

\* lua_gettable and lua_rawget, lua_settable and lua_rawset: the key is on the stack.
Gettable(m, i) == Push(Pop(m, 1), m.tab[Object(m, i)][Top(m)])
Settable(m, i) == Stored(Pop(m, 2), Object(m, i), At(m.stk, -2), Top(m))

Newtable(m) ==
    LET t == CHOOSE t \in TableObject : t \notin DOMAIN m.tab
    IN [Push(m, t) EXCEPT !.tab = [x \in DOMAIN m.tab \cup {t} |-> IF x = t THEN Empty ELSE m.tab[x]]]

Pushcclosure(m, f, nup) ==
    Push(Pop(m, nup), [fn |-> f, up |-> SubSeq(m.stk, Len(m.stk) - nup + 1, Len(m.stk))])

\* The chunks of compat-5.3.c, applied to their arguments.
Evaluated(f, args) ==
    IF f.fn = "compare" THEN <<"le", args[1], args[2]>>
    ELSE IF args[1] = "unm" THEN <<"unm", args[2]>> ELSE args

\* The function is below its arguments.
Call(m, nargs) ==
    LET n == Len(m.stk) IN
    Push(Pop(m, nargs + 1), Evaluated(At(m.stk, -nargs - 1), SubSeq(m.stk, n - nargs + 1, n)))

\* lua_objlen of a table that is a list over Key.
Objlen(m, v) == Cardinality({k \in Key : m.tab[v][k] # NilValue})

TypeOf(m, v) == IF v = NilValue THEN "nil" ELSE IF v \in DOMAIN m.tab THEN "table" ELSE "other"
-----------------------------------------------------------------------------
(* compat-5.3.c.                                                           *)

lua_absindex(m, i) == IF i < 0 /\ i > RegistryIndex THEN i + Len(m.stk) + 1 ELSE i

compat53_call_lua(m, chunk, nargs) ==
    LET m1 == Gettable(Push(m, chunk), RegistryIndex)
        m2 == IF Top(m1) # NilValue THEN m1
              ELSE LET c == Pushvalue(Push(Pop(m1, 1), ChunkFunction(chunk)), -1)
                   IN Settable(Insert(Push(c, chunk), -2), RegistryIndex)
    IN Call(Insert(m2, -nargs - 1), nargs)

lua_arith(m, op) ==
    LET m1 == IF op = "unm" THEN Pushvalue(m, -1) ELSE m
    IN compat53_call_lua(Insert(Push(m1, op), -3), "arith", 3)

\* With LUA_OPLE, the one comparison that is not a function of Lua 5.1.
lua_compare(m, i, j) ==
    LET a == lua_absindex(m, i)
        b == lua_absindex(m, j)
        m1 == compat53_call_lua(Pushvalue(Pushvalue(m, a), b), "compare", 2)
    IN Pop(Returns(m1, Top(m1)), 1)

lua_copy(m, from, to) == LET a == lua_absindex(m, to) IN Replace(Pushvalue(m, from), a)

lua_len(m, i) == Push(m, Objlen(m, Object(m, i)))
luaL_len(m, i) == LET m1 == lua_len(m, i) IN Pop(Returns(m1, Top(m1)), 1)

lua_rawgetp(m, i, p) ==
    LET m1 == Gettable(Push(m, p), lua_absindex(m, i)) IN Returns(m1, TypeOf(m1, Top(m1)))

\* The key goes below the value, which moves up.
KeyBelow(m, k) == Insert(Push(m, k), -2)

lua_rawsetp(m, i, p) == Settable(KeyBelow(m, p), lua_absindex(m, i))

lua_geti(m, i, n) ==
    LET m1 == Gettable(Push(m, n), lua_absindex(m, i)) IN Returns(m1, TypeOf(m1, Top(m1)))

lua_seti(m, i, n) == LET a == lua_absindex(m, i) IN Settable(KeyBelow(m, n), a)

\* Whether the store finds the table at the absolute index of before.
FindsTable(m, i, k) == Object(KeyBelow(m, k), lua_absindex(m, i)) = Object(m, i)

luaL_getsubtable(m, i, name) ==
    LET a == lua_absindex(m, i)
        m1 == Gettable(Push(m, name), a)
        m2 == Newtable(Pop(m1, 1))
    IN IF IsTable(m1, -1) THEN Returns(m1, 1)
       ELSE Returns(Settable(Pushvalue(Push(m2, name), -2), a), 0)

\* The loop for the upvalues: each copy brings the next one to the same index.
PushTimes(m, i, n) ==
    LET pushed[k \in 0..n] == IF k = 0 THEN m ELSE Pushvalue(pushed[k - 1], i)
    IN pushed[n]

\* luaL_setfuncs for a list of one function.
luaL_setfuncs(m, name, f, nup) ==
    LET m1 == PushTimes(Push(m, name), -(nup + 1), nup)
    IN Pop(Settable(Pushcclosure(m1, f, nup), -(nup + 3)), nup)

Swapped(m, a, b) == Replace(Replace(Pushvalue(Pushvalue(m, a), b), a), b)

\* After k rounds the ends are a + k and b - k; no more rounds than slots are needed.
compat53_reverse(m, a, b) ==
    LET round[k \in 0..Len(m.stk)] ==
            IF k = 0 THEN m
            ELSE IF a + k - 1 < b - (k - 1)
                 THEN Swapped(round[k - 1], a + k - 1, b - (k - 1))
                 ELSE round[k - 1]
    IN round[Len(m.stk)]

Reversed2_Same(m, idx, n, size) == compat53_reverse(m, idx + n - 1, idx + size - 1)
Reversed2(m, idx, n, size) == compat53_reverse(m, idx + n, idx + size - 1)

lua_rotate(m, i, by) ==
    LET idx == lua_absindex(m, i)
        size == Len(m.stk) - idx + 1
        up == IF by < 0 THEN by + size ELSE by
        n == size - up
        m1 == compat53_reverse(m, idx, idx + n - 1)
    IN IF 0 < up /\ up < size
       THEN compat53_reverse(Reversed2(m1, idx, n, size), idx, idx + size - 1)
       ELSE m

luaL_requiref(m, modname, glb) ==
    LET m1 == Getfield(luaL_getsubtable(m, RegistryIndex, LoadedKey), -1, modname)
        m2 == IF Top(m1) # NilValue THEN m1
              ELSE Setfield(Pushvalue(Push(Pop(m1, 1), Module), -1), -3, modname)
        m3 == IF glb THEN Stored(m2, Globals53, modname, Top(m2)) ELSE m2
    IN Returns(Replace(m3, -2), m.ret)   \* it returns nothing itself
-----------------------------------------------------------------------------
(* The manual of Lua 5.3: [-o, +p] of each function, and its effect.       *)

Slot53(m, i) == IF i < 0 THEN Len(m.stk) + 1 + i ELSE i
Got(m, i, k) == LET v == m.tab[Object(m, i)][k] IN Returns(Push(m, v), TypeOf(m, v))

Rotated(m, i, by) ==
    LET k == Slot53(m, i)
        size == Len(m.stk) - k + 1
    IN On(m, [p \in 1..Len(m.stk) |->
                 IF p < k THEN m.stk[p] ELSE m.stk[k + ((p - k - by) % size)]])

Subtable(m, i, name) ==
    LET t == m.tab[Object(m, i)][name]
        m1 == Newtable(m)
    IN IF t \in DOMAIN m.tab THEN Returns(Push(m, t), 1)
       ELSE Returns(Stored(m1, Object(m, i), name, Top(m1)), 0)

Arith(m, op) ==
    LET n == IF op = "unm" THEN 1 ELSE 2
    IN Push(Pop(m, n), <<op>> \o SubSeq(m.stk, Len(m.stk) - n + 1, Len(m.stk)))

Setfuncs(m, name, f, nup) ==
    Stored(Pop(m, nup), At(m.stk, -(nup + 1)), name,
           [fn |-> f, up |-> SubSeq(m.stk, Len(m.stk) - nup + 1, Len(m.stk))])

Required(m, modname, glb) ==
    LET m1 == Pop(Subtable(m, RegistryIndex, LoadedKey), 1)
        loaded == m1.tab[Registry][LoadedKey]
        v == IF m1.tab[loaded][modname] = NilValue THEN Module ELSE m1.tab[loaded][modname]
        m2 == Stored([Push(m, v) EXCEPT !.tab = m1.tab], loaded, modname, v)
    IN IF glb THEN Stored(m2, Globals53, modname, v) ELSE m2
-----------------------------------------------------------------------------
Height == Len(old.stk)
Index == (-Height)..(-1) \cup 1..Height
TableIndex == {i \in Index \cup {RegistryIndex} : IsTable(old, i)}
CanMakeTable == \E t \in TableObject : t \notin DOMAIN old.tab

Calls(m1, m2) ==
    /\ calls < MaxCalls /\ ~failed
    /\ calls' = calls + 1
    /\ Len(m1.stk) <= MaxSlots
    /\ old' = m1 /\ new' = m2
    /\ UNCHANGED failed

Pushes ==
    \/ \E v \in Atom : Calls(Push(old, v), Push(new, v))
    \/ CanMakeTable /\ Calls(Newtable(old), Newtable(new))

Copies ==
    /\ Height > 0
    /\ \E i, j \in Index :
          Calls(lua_copy(old, i, j), On(new, [new.stk EXCEPT ![Slot53(new, j)] = Object(new, i)]))

Rotates ==
    \E i \in Index : \E n \in (Slot53(old, i) - Height - 1)..(Height + 1 - Slot53(old, i)) :
        Calls(lua_rotate(old, i, n), Rotated(new, i, n))

Lengths == \E i \in TableIndex : Calls(luaL_len(old, i), Returns(new, Objlen(new, Object(new, i))))

Gets ==
    \E i \in TableIndex, k \in Key :
        \/ Calls(lua_rawgetp(old, i, k), Got(new, i, k))
        \/ Calls(lua_geti(old, i, k), Got(new, i, k))
        \/ CanMakeTable /\ Calls(luaL_getsubtable(old, i, k), Subtable(new, i, k))

Assigned(m, i, k) == Stored(Pop(m, 1), Object(m, i), k, Top(m))

Sets ==
    /\ Height > 0
    /\ \E i \in TableIndex, k \in Key :
          /\ FindsTable(old, i, k)
          /\ \/ Calls(lua_rawsetp(old, i, k), Assigned(new, i, k))
             \/ Calls(lua_seti(old, i, k), Assigned(new, i, k))

\* The index is that of the value: the key took its slot, and is no table.  lua_settable
\* raises an error (lua_rawset checks nothing), where Lua 5.3 has t[k] = t.
SetsIntoItself ==
    /\ Height > 0
    /\ calls < MaxCalls /\ ~failed
    /\ \E i \in TableIndex, k \in Key :
          /\ ~FindsTable(old, i, k)
          /\ new' = Assigned(new, i, k)
    /\ failed' = TRUE
    /\ calls' = calls + 1
    /\ UNCHANGED old

SetsFunctions ==
    \E nup \in 0..(Height - 1), k \in Key :
        /\ IsTable(old, -(nup + 1))
        /\ Calls(luaL_setfuncs(old, k, "f", nup), Setfuncs(new, k, "f", nup))

Computes ==
    /\ Height >= 2
    /\ {At(old.stk, -1), At(old.stk, -2)} \subseteq Atom
    /\ \E op \in {"add", "unm"} : Calls(lua_arith(old, op), Arith(new, op))

Compares ==
    \E i, j \in Index :
        /\ {At(old.stk, i), At(old.stk, j)} \subseteq Atom
        /\ Calls(lua_compare(old, i, j),
                 Returns(new, <<"le", Object(new, i), Object(new, j)>>))

Requires ==
    /\ CanMakeTable
    /\ \E k \in Key, glb \in BOOLEAN :
          Calls(luaL_requiref(old, k, glb), Required(new, k, glb))

CompatDone == (calls = MaxCalls \/ failed) /\ UNCHANGED compatVars

CompatNext ==
    \/ Pushes \/ Copies \/ Rotates \/ Lengths \/ Gets \/ Sets \/ SetsIntoItself \/ SetsFunctions
    \/ Computes \/ Compares \/ Requires \/ CompatDone
-----------------------------------------------------------------------------
\* The address of a chunk is compat-5.3's own key of the registry.
Visible(m) ==
    [m EXCEPT !.tab[Registry] = [k \in Key \cup {LoadedKey} |-> m.tab[Registry][k]]]

\* A table of the program holds itself.
HoldsItself(m) == \E t \in DOMAIN m.tab, k \in Key : m.tab[t][k] = t

\* A sequence of calls leaves the stack, the tables and what the call returned as Lua 5.3
\* would: in spite of the values that compat-5.3.c pushes on the way, relative indices
\* mean the same slots, and no value is lost, left over or out of order.  A call fails
\* where one of Lua 5.3 would not (lua_rawsetp and lua_seti, compat-5.3.c:126-132, 530-536)
\* only when it stores a table in itself.
CompatIsLua53 == IF failed THEN HoldsItself(new) ELSE Visible(old) = Visible(new)
=============================================================================
