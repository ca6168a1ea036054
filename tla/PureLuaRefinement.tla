-------------------------- MODULE PureLuaRefinement --------------------------
(***************************************************************************)
(* PureLua implements NestedCoro, as NestedCoroRefinement says of the C    *)
(* version, but values are at the callee while a yield is on its way.      *)
(***************************************************************************)
EXTENDS PureLua, NestedCoroRefinement

luaValBar == IF CalleeIs("yield") THEN stk[Callee] ELSE valBar

LeakedByLua(v) == <<"sentinel", "thread", "tag">> \o v
RefusedByLua(i, depth) ==
    IF i = depth THEN <<"sentinel", "msg">> ELSE <<"nil", "msg">>

LuaNested == INSTANCE NestedCoro WITH
    LeakedValues <- LeakedByLua, RefusedValues <- RefusedByLua,
    chain <- chainBar, held <- heldBar, made <- {t \in Thread : status[t] # "none"},
    tagof <- tag, inC <- {t \in Thread : ccall[t]},
    phase <- phaseBar, want <- wantBar, val <- luaValBar

\* taggedcoro.lua implements the coroutines of the README, up to the first time that
\* line 110 suspends one.
LuaImplementsNestedCoro ==
    LuaNested!Init /\ [][echoed' \/ LuaNested!Next]_<<LuaNested!vars, echoed>>
=============================================================================
