------------------------------ MODULE LuaStack ------------------------------
(***************************************************************************)
(* The Lua stack of a C function, as a sequence with its top at the end,    *)
(* and the functions of the Lua core that move values on it (external:     *)
(* lua_pushvalue, lua_pop, lua_insert, lua_remove, lua_replace).  An index *)
(* below 0 counts from the top.                                            *)
(***************************************************************************)
EXTENDS Integers, Sequences

Slot(s, i) == IF i < 0 THEN Len(s) + 1 + i ELSE i
At(s, i) == s[Slot(s, i)]

Popped(s, n) == SubSeq(s, 1, Len(s) - n)
Copied(s, i) == Append(s, At(s, i))

Removed(s, i) ==
    LET k == Slot(s, i) IN SubSeq(s, 1, k - 1) \o SubSeq(s, k + 1, Len(s))

\* The top goes to slot i, what was there and above moves up.
Inserted(s, i) ==
    LET k == Slot(s, i) IN
    SubSeq(s, 1, k - 1) \o <<At(s, -1)>> \o SubSeq(s, k, Len(s) - 1)

\* The top replaces what is in slot i.
Replaced(s, i) == Popped([s EXCEPT ![Slot(s, i)] = At(s, -1)], 1)
=============================================================================
