------------------------ MODULE NestedCoroRefinement ------------------------
(***************************************************************************)
(* TaggedCoro implements NestedCoro: what the metadata, the frames and the *)
(* values on the stacks of the C implementation mean in terms of the       *)
(* README.                                                                 *)
(***************************************************************************)
EXTENDS TaggedCoroQueries, FiniteSets, SequencesExt

\* s goes from t by steps of `next' to where there is none.
IsPath(s, t, next) ==
    /\ s[1] = t
    /\ \A i, j \in DOMAIN s : s[i] = s[j] => i = j
    /\ \A i \in DOMAIN s : next[s[i]] = IF i = Len(s) THEN Nil ELSE s[i + 1]

\* A walk in order, when it comes to an end.
Path(t, next) ==
    LET W == Walk(t, next) IN CHOOSE s \in [1..Cardinality(W) -> W] : IsPath(s, t, next)

\* StackOf(t) in order.
StackFrom(t) == Path(t, link)

Stack == StackFrom(Main)
Leaf == Last(Stack)

CalleeIs(s) == mode = "back" /\ status[Callee] = s

\* A coroutine that returned or died is no longer on the stack of the README,
\* though its caller has not looked at it yet.
chainBar == IF CalleeIs("done") \/ CalleeIs("err") THEN Front(Stack) ELSE Stack

\* A coroutine may be resumed when it is suspended and nobody waits for it.
heldBar ==
    [t \in Thread |->
        IF status[t] \in {"new", "yield"} /\ \A p \in Thread : link[p] # t
        THEN StackFrom(t) ELSE <<>>]

\* On its way to the end of the stack what is passed is on cur or already there.
InTransit == IF stk[cur] # <<>> THEN stk[cur] ELSE stk[Leaf]

\* A failed yield is an error from the moment the failure is on its way back.
phaseBar ==
    CASE mode \in {"run", "raise", "exit"} -> mode
      [] mode = "broken" -> "lost"
      [] CalleeIs("yield") -> "yield"
      [] CalleeIs("done") -> "run"
      [] CalleeIs("err") -> IF frame[cur] = "raw" THEN "run" ELSE "raise"
      [] mode = "cont" ->
            IF frame[Leaf] = "yieldk" /\ SaysFailed(InTransit) THEN "raise" ELSE "run"

wantBar ==
    IF ~CalleeIs("yield") THEN Nil
    ELSE IF frame[Leaf] = "uyield" THEN RawTag ELSE ytag

valBar ==
    IF phaseBar \notin {"run", "yield"} THEN <<>>
    ELSE IF mode = "run" THEN stk[cur]
    ELSE IF mode = "cont" THEN InTransit
    ELSE IF CalleeIs("err") THEN <<"msg">>
    ELSE IF CalleeIs("done") \/ frame[cur] = "raw" THEN stk[Callee]
    ELSE stk[Leaf]

\* The C values of the two departures: the tag, thread and sentinel come last, and
\* only the main thread answers a refused untagged yield with nil.
LeakedByC(v) == v \o <<"tag", "thread", "sentinel">>
RefusedByC(i, depth) == IF i = 2 THEN <<"nil", "msg">> ELSE <<"sentinel", "msg">>

Nested == INSTANCE NestedCoro WITH
    LeakedValues <- LeakedByC, RefusedValues <- RefusedByC,
    chain <- chainBar, held <- heldBar, made <- {t \in Thread : status[t] # "none"},
    tagof <- tag, inC <- {t \in Thread : ccall[t]},
    phase <- phaseBar, want <- wantBar, val <- valBar

\* Every step of the C implementation is a step, or no step, of the README's
\* coroutines: who handles a yield, which stack a resume rewinds, whose yield fails
\* and which values everybody sees.
ImplementsNestedCoro == Nested!Spec
=============================================================================
