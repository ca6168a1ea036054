------------------------- MODULE TaggedCoroQueries -------------------------
(***************************************************************************)
(* What the C implementation answers about coroutines, src/src/            *)
(* taggedcoro.c: status, isyieldable and the walk of traceback, and the    *)
(* properties that relate those answers to what happens to the coroutines. *)
(***************************************************************************)
EXTENDS TaggedCoro

\* tc.parent(co), tc.tag(co), tc.source(co): a slot of the metadata; an untagged
\* coroutine has none, and the nil that was found instead is returned.
Coparent(co) == IF co \in coroset THEN parent[co] ELSE Nil
Cotag(co)    == IF co \in coroset THEN tag[co] ELSE Nil
Cosource(co) == IF co \in coroset THEN source[co] ELSE Nil

\* taggedcoro_costatus: what tc.status(co) returns to the running coroutine.
Costatus(co) ==
    CASE co = cur -> "running"
      [] co # cur /\ status[co] = "yield" ->
            IF co \in coroset /\ stacked[co] THEN "stacked" ELSE "suspended"
      [] co # cur /\ status[co] = "active" -> "normal"
      [] status[co] = "new" -> "suspended"
      [] status[co] \in {"done", "err"} -> "dead"

\* Sets of threads that nothing leaves by a step of `next' from thread to thread; Nil
\* is no step.
Closed(S, next) == \A p \in S : next[p] # Nil => next[p] \in S

\* What a walk from t by steps of `next' comes across.
Walk(t, next) ==
    {q \in Thread : \A S \in SUBSET (Thread \ {q}) : t \in S => ~Closed(S, next)}

\* taggedcoro_yieldable after its first check goes from t up along the parents, as
\* long as they can yield, to an untagged coroutine or one with tag g.
NextAsked(g) ==
    [p \in Thread |->
        IF p \in coroset /\ tag[p] # g /\ parent[p] # Nil
        THEN IF Yieldable(parent[p]) THEN parent[p] ELSE Nil
        ELSE Nil]

\* The loop ends, with the answer true, at h.
Handler(t, g, h) == h \in coroset /\ tag[h] = g /\ h \in Walk(t, NextAsked(g))

\* tc.isyieldable(g)
Isyieldable(g) == Yieldable(cur) /\ \E h \in Thread : Handler(cur, g, h)

\* auxtraceback's loop over threads ends at an untagged one or one without a parent.
NextTraced == [p \in Thread |-> IF p \in coroset THEN parent[p] ELSE Nil]

\* pushsource: a traceback of co starts at its source.
TraceStart(co) ==
    IF co \in coroset /\ source[co] # Nil THEN source[co] ELSE co

Traceback(co) == Walk(TraceStart(co), NextTraced)

\* The stack of coroutines that begins with t: t, the one its pending call resumes,
\* and so on to the coroutine at the end, the one that runs or yielded.
StackOf(t) == Walk(t, link)

Idle == mode \in {"run", "raise"}

-----------------------------------------------------------------------------
\* tc.isyieldable(g) walks parents, a yield walks the pending calls: they agree.
\* A tagged yield is taken by the very coroutine the walk from its yielder finds,
\* and it fails, or escapes to coroutine.resume, only when the walk finds none.  What
\* isyieldable promises to the running coroutine is a caller that tc.tag says has tag g.
YieldGoesWhereIsyieldableSays ==
    /\ CalleeYielded /\ YieldTag # RawTag =>
        /\ ForMe => Handler(Yielder, YieldTag, Callee)
        /\ Blocked => \A h \in Thread : ~Handler(Yielder, YieldTag, h)
    /\ mode = "back" /\ frame[cur] = "raw" /\ status[Callee] = "yield" /\ frame[Callee] = "yieldk"
        => \A h \in Thread : ~Handler(Callee, ytag, h)
    /\ mode = "run" => \A g \in Tag : Isyieldable(g) =>
        \E t \in Thread : Cotag(t) = g /\ t \in StackOf(Main)

\* meta[4]: the source of a suspended tagged coroutine is the end of its suspended
\* stack, where the yield came from, and everything between passed that yield
\* along.  Arguments of the next call are put on that coroutine's stack unseen.
SourceIsYielder ==
    Idle => \A t \in coroset :
        status[t] = "yield" /\ ~stacked[t] =>
            /\ Cosource(t) \in StackOf(t)
            /\ frame[Cosource(t)] = "yieldk"
            /\ \A q \in StackOf(t) \ {Cosource(t)} : frame[q] = "passk"

\* The same for an untagged coroutine that an untagged yield suspended: untaggedk
\* finds the yielder in the metadata of the coroutine it called.
SourceBelowUntagged ==
    Idle => \A u \in Thread :
        status[u] = "yield" /\ frame[u] = "untk" =>
            /\ Cosource(link[u]) \in StackOf(u)
            /\ frame[Cosource(link[u])] = "uyield"

\* A traceback of any coroutine ends: the parent links, which outlive the calls
\* that set them, lead out of every set of coroutines, so that they form no cycle.
TracebackEnds ==
    \A S \in (SUBSET coroset) \ {{}} : \E t \in S : Coparent(t) \notin S

\* The list of a full traceback of the running coroutine: it and its callers, each
\* followed by the one that called it, which is what tc.parent says, up to the main
\* thread or the first untagged coroutine; in front of them at most coroutines that
\* died of an error.
ListsCallers(listed) ==
    /\ cur \in listed
    /\ \A t \in listed :
          \/ status[t] = "err"
          \/ /\ status[t] = "active" /\ cur \in StackOf(t)
             /\ t \in coroset \ {Main} => Coparent(t) \in listed /\ link[Coparent(t)] = t
    /\ listed \cap (Untagged \cup {Main}) # {}

\* A traceback of the running coroutine is full as long as the coroutine has caught
\* no error of one it called.  From then on it starts at the source of that error,
\* which is dead, and more is not sure (see RunningTracebackFull).
TracebackListsCallers ==
    mode = "run" =>
        IF Cosource(cur) = Nil THEN ListsCallers(Traceback(cur))
                               ELSE status[TraceStart(cur)] = "err"

\* tc.status: the status strings of the coroutines describe one stack of running
\* coroutines: "normal" is waiting for the running one; "stacked" is on the stack
\* of a coroutine that is "suspended".
StatusDescribesStacks ==
    mode = "run" => \A t \in Thread : status[t] # "none" =>
        /\ Costatus(t) = "normal" => t \in StackOf(Main) /\ cur \in StackOf(t)
        /\ Costatus(t) = "stacked" =>
              \E r \in Thread :
                /\ status[r] # "none" /\ Costatus(r) = "suspended"
                /\ t \in StackOf(r)

\* The source of a coroutine that died of an error is a coroutine that did too:
\* never one that merely yielded once, or none at all.
DeadSourceIsDead ==
    Idle => \A t \in coroset :
        status[t] = "err" => Cosource(t) # Nil /\ status[Cosource(t)] = "err"

-----------------------------------------------------------------------------
(* Liveness.                                                               *)

\* cur has just found that the tagged yield of y goes no further.
StoppedFrom(y) == CalleeYielded /\ Blocked /\ YieldTag # RawTag /\ Yielder = y
RaisedIn(y) == cur = y /\ mode = "raise"

\* A tagged yield without a handler is an error in the coroutine that yielded, at
\* the yield, however many coroutines it passed on its way; here, when the call
\* that stops it runs under the trampoline of auxcall.
FailureReachesYielder ==
    \A y \in Thread : (StoppedFrom(y) /\ frame[cur] = "call") ~> RaisedIn(y)

-----------------------------------------------------------------------------
(* What src/README.md says and the code does not do.                       *)

\* README.md:49, "A tagged yield that reaches an untagged coroutine fails at the
\* point of the call to `yield`": as above, in whichever call it is stopped.
TaggedYieldFailsAtYield == \A y \in Thread : StoppedFrom(y) ~> RaisedIn(y)

\* README.md:20, "On a successful yield, any coroutine that has been passed through
\* ... becomes `stacked'": a coroutine nobody passed through is not, and a call of
\* it is not refused.
OnlyPassedAreStacked == StackedIsOnAStack

\* README.md:55, "you can still get a traceback of the full stack of the dead
\* coroutine": one that died of an error is itself on its traceback.
DeadTracebackComplete ==
    Idle => \A t \in coroset : status[t] = "err" => t \in Traceback(t)

\* README.md:57-60: traceback "includes a full traceback, following `source` to reach
\* the source of the error and tracing `parent` back to the main thread"; here that of
\* the running coroutine.  In the C version a later call of the dead source cuts it off;
\* PureLua, on the same variables, satisfies it (LuaTracebackListsCallers).
RunningTracebackFull == mode = "run" => ListsCallers(Traceback(cur))
=============================================================================
