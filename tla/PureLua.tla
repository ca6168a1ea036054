------------------------------ MODULE PureLua ------------------------------
(***************************************************************************)
(* The pure Lua implementation, src/src/taggedcoro.lua.  Its threads, their *)
(* metadata and the program around it are those of TaggedCoro, as are the  *)
(* modes; what differs is here:                                            *)
(*  - values travel through every coroutine of a stack, both ways, as      *)
(*    arguments and results of coroutine.resume and coroutine.yield        *)
(*  - callk is an ordinary recursive function, a continuation can do all   *)
(*    that a call can                                                      *)
(*  - the failure of a yield is passed on by resuming, not by a trampoline  *)
(*  - isyieldable looks at a flag saved by the call                        *)
(* Frames: "call" in callk, "passk" suspended by the pcall(yield) of a     *)
(* callkk, "untk" by the one that line 110 hands to callk.                 *)
(***************************************************************************)
EXTENDS TaggedCoroQueries

VARIABLES
    parentYieldable,  \* thread -> meta.parent_isyieldable
    echoed            \* history: line 110 has suspended a coroutine

luaVars == <<vars, parentYieldable, echoed>>
onlyLua == <<parentYieldable, echoed>>

LuaInit ==
    /\ Init
    /\ parentYieldable = [t \in Thread |-> FALSE]
    /\ echoed = FALSE

-----------------------------------------------------------------------------
LuaResumable_StackedToo(co) == status[co] \in {"new", "yield"} /\ co \in coroset

\* What M.call lets through: M.status is "suspended" and there is metadata.
LuaResumable(co) ==
    /\ status[co] \in {"new", "yield"}
    /\ co \in coroset
    /\ ~stacked[co]

SavesYieldable_Callee(co) == parentYieldable' = [parentYieldable EXCEPT ![co] = co # Main]
SavesYieldable(co) == parentYieldable' = [parentYieldable EXCEPT ![co] = Yieldable(cur)]

Call(co, v) ==
    /\ mode = "run"
    /\ LuaResumable(co)
    /\ stk' = [stk EXCEPT ![cur] = <<>>, ![co] = v]
    /\ ClearsSource(co)
    /\ SetsParent(co)
    /\ SavesYieldable(co)
    /\ Resumes(co, "call")
    /\ UNCHANGED <<ccall, coroset, tag, stacked, inflight, echoed>>

CallRefused(co) ==
    /\ mode = "run"
    /\ status[co] # "none"
    /\ ~LuaResumable(co)
    /\ mode' = "raise"
    /\ Consumes
    /\ UNCHANGED <<lua, meta, cur, inflight, onlyLua>>

-----------------------------------------------------------------------------
(* callk after coroutine.resume returns.                                   *)

Stacks(co) == stacked' = [stacked EXCEPT ![co] = TRUE]
LuaForMe == ~IsRaw /\ ytag = tag[Callee]

LuaYielder_Callee == Callee
LuaYielder == yfrom

LuaBackForMe ==
    /\ CalleeYielded
    /\ LuaForMe
    /\ source' = [source EXCEPT ![Callee] = LuaYielder]
    /\ Moves(Callee)
    /\ mode' = "run"
    /\ LeavesFrame
    /\ NoYieldInFlight
    /\ UNCHANGED <<status, ccall, coroset, tag, stacked, parent, cur, onlyLua>>

\* An untagged yield sets out under the tag MARK and, for its yielder, the coroutine
\* that passes it; in an untagged coroutine it goes on as it is.
SetsOut ==
    IF cur \in coroset THEN ytag' = RawTag /\ yfrom' = cur ELSE NoYieldInFlight

LuaBackPass ==
    /\ CalleeYielded
    /\ ~LuaForMe
    /\ Yieldable(cur)
    /\ IsRaw \/ cur \in coroset
    /\ IF IsRaw THEN SetsOut ELSE UNCHANGED inflight
    /\ Stacks(Callee)
    /\ Moves(Callee)
    /\ Suspends("passk")
    /\ UNCHANGED <<link, ccall, coroset, tag, parent, source, onlyLua>>

\* Line 110: an untagged yield that others passed along reaches an untagged
\* coroutine, which yields the values; they are not stacked.
BackEcho ==
    /\ CalleeYielded
    /\ ~IsRaw
    /\ ytag = RawTag
    /\ Yieldable(cur)
    /\ cur \notin coroset
    /\ Moves(Callee)
    /\ Suspends("untk")
    /\ NoYieldInFlight
    /\ echoed' = TRUE
    /\ UNCHANGED <<link, ccall, meta, parentYieldable>>

LuaRefused ==
    ~LuaForMe /\ IF Yieldable(cur) THEN ~IsRaw /\ ytag # RawTag /\ cur \notin coroset ELSE TRUE

Refusal_AlwaysNil == <<"nil", "msg">>

\* What the callee is resumed with: nil only where callk sees the tag MARK.  Of a
\* coroutine that made the untagged yield itself it sees that the pcall(yield) failed.
Refusal == IF ~IsRaw /\ ytag = RawTag THEN <<"nil", "msg">> ELSE <<"sentinel", "msg">>

LuaBackRefused ==
    /\ CalleeYielded
    /\ LuaRefused
    /\ stk' = [stk EXCEPT ![Callee] = Refusal]
    /\ IF IsRaw THEN Unstacks(Callee) ELSE UNCHANGED stacked
    /\ Resumes(Callee, "call")
    /\ NoYieldInFlight
    /\ UNCHANGED <<ccall, coroset, tag, parent, source, onlyLua>>

\* coroutine.resume returns: a tagged yield comes with MARK, thread and tag in front.
LuaRawBack ==
    /\ mode = "back"
    /\ frame[cur] = "raw"
    /\ stk' = [stk EXCEPT
         ![Callee] = <<>>,
         ![cur] = IF status[Callee] = "err" THEN <<"msg">>
                  ELSE IF frame[Callee] = "yieldk"
                       THEN <<"sentinel", "thread", "tag">> \o stk[Callee]
                       ELSE stk[Callee]]
    /\ mode' = "run"
    /\ LeavesFrame
    /\ NoYieldInFlight
    /\ UNCHANGED <<status, ccall, meta, cur, onlyLua>>

-----------------------------------------------------------------------------
(* What a resumed coroutine continues with.                                *)

\* callkk: all it was resumed with goes on to the next coroutine of the stack.
LuaContPassk ==
    /\ mode = "cont"
    /\ frame[cur] = "passk"
    /\ status[Callee] \in {"new", "yield"}
    /\ stk' = [stk EXCEPT ![Callee] = stk[cur], ![cur] = <<>>]
    /\ Unstacks(Callee)
    /\ Resumes(Callee, "call")
    /\ UNCHANGED <<ccall, coroset, tag, parent, source, inflight, onlyLua>>

\* The same when coroutine.resume refuses it: callk takes that for its error.
LuaContRefused ==
    /\ mode = "cont"
    /\ frame[cur] = "passk"
    /\ status[Callee] \notin {"new", "yield"}
    /\ source' = [t \in Thread |->
                     IF t = Callee \/ (t = cur /\ cur \in coroset)
                     THEN ErrorSource ELSE source[t]]
    /\ Unstacks(Callee)
    /\ Consumes
    /\ mode' = "raise"
    /\ LeavesFrame
    /\ UNCHANGED <<status, ccall, coroset, tag, parent, cur, inflight, onlyLua>>

\* After line 110 callk takes what the coroutine is resumed with for what its callee
\* yielded, and yields it back; or for results, if the callee has died since.
ContEcho ==
    /\ mode = "cont"
    /\ frame[cur] = "untk"
    /\ \/ /\ status[Callee] \in {"done", "err"}
          /\ mode' = "run"
          /\ LeavesFrame
          /\ UNCHANGED <<status, cur, stacked>>
       \/ /\ status[Callee] \notin {"done", "err"}
          /\ Stacks(Callee)
          /\ Suspends("passk")
          /\ UNCHANGED link
    /\ UNCHANGED <<ccall, stk, coroset, tag, parent, source, inflight, onlyLua>>

-----------------------------------------------------------------------------
\* What both versions do alike.
SharedProgram ==
    /\ \/ \E t \in Thread, g \in Tag : Cocreate(t, g)
       \/ \E t \in Thread : CreateUntagged(t)
       \/ \E t \in Thread, v \in Payload : RawResume(t, v)
       \/ \E g \in Tag, v \in Payload : TcYield(g, v)
       \/ \E v \in Payload : RawYield(v) \/ Return(v)
       \/ YieldRefused \/ Throw \/ Catch \/ Die \/ MainEnds \/ EnterC \/ LeaveC
    /\ UNCHANGED onlyLua

SharedLibrary == (BackOK \/ BackErr \/ ContPlain \/ ContYieldk) /\ UNCHANGED onlyLua

LuaProgram ==
    \/ \E t \in Thread, v \in Payload : Call(t, v)
    \/ \E t \in Thread : CallRefused(t)
    \/ SharedProgram

LuaLibrary ==
    \/ LuaBackForMe \/ LuaBackPass \/ BackEcho \/ LuaBackRefused \/ LuaRawBack
    \/ LuaContPassk \/ LuaContRefused \/ ContEcho \/ SharedLibrary

LuaTerminated == mode = "exit" /\ UNCHANGED luaVars

LuaNext == LuaProgram \/ LuaLibrary \/ LuaTerminated

LuaSpec == LuaInit /\ [][LuaNext]_luaVars

LuaFairSpec == LuaSpec /\ WF_luaVars(LuaLibrary)

-----------------------------------------------------------------------------
\* M.isyieldable from t up, along the parents; what their calls saved says whether
\* a parent can yield.
LuaNextAsked(g) ==
    [p \in Thread |->
        IF p \in coroset /\ tag[p] # g /\ parentYieldable[p] THEN parent[p] ELSE Nil]

LuaHandler(t, g, h) == h \in coroset /\ tag[h] = g /\ h \in Walk(t, LuaNextAsked(g))

-----------------------------------------------------------------------------
(* Safety.  Once line 110 has suspended a coroutine nothing is promised:   *)
(* its callee looks free and can get a second resumer.                     *)

\* The invariant of the C version holds for taggedcoro.lua: who waits for whom, the
\* parents and the stacked flags fit together whatever the program does; and all
\* variables have their types.
LuaStructure ==
    /\ TypeOK /\ parentYieldable \in [Thread -> BOOLEAN] /\ echoed \in BOOLEAN
    /\ echoed \/ Structure

\* parent_isyieldable was saved when the parent called; the yield asks later.  Still
\* a tagged yield is taken by the coroutine that M.isyieldable finds, and is refused or
\* leaves for coroutine.resume only when it finds none.
LuaYieldGoesWhereIsyieldableSays ==
    ~echoed =>
        /\ CalleeYielded /\ ~IsRaw /\ ytag # RawTag =>
              /\ LuaForMe => LuaHandler(yfrom, ytag, Callee)
              /\ LuaRefused => \A h \in Thread : ~LuaHandler(yfrom, ytag, h)
        /\ mode = "back" /\ frame[cur] = "raw" /\ status[Callee] = "yield"
              /\ frame[Callee] = "yieldk"
              => \A h \in Thread : ~LuaHandler(Callee, ytag, h)

\* meta.source of a suspended coroutine is the end of the stack it will rewind.
LuaSourceIsYielder == echoed \/ SourceIsYielder

\* In the Lua version a dead coroutine stays on its own traceback: M.call refuses it
\* before it touches the metadata (see DeadTracebackComplete for the C version).
LuaDeadTracebackComplete == echoed \/ DeadTracebackComplete

\* So a traceback of the running coroutine is full, also one that starts at the source
\* of an error it caught (see RunningTracebackFull for the C version).
LuaTracebackListsCallers == echoed \/ RunningTracebackFull

LuaStoppedFrom(y) ==
    CalleeYielded /\ LuaRefused /\ ~IsRaw /\ ytag # RawTag /\ yfrom = y /\ ~echoed

\* A tagged yield that nobody handles is an error in the yielder, at the yield, also
\* when it is refused in a continuation (see TaggedYieldFailsAtYield for the C version):
\* each coroutine of the stack passes the mark of the failure on.
LuaFailureReachesYielder == \A y \in Thread : LuaStoppedFrom(y) ~> RaisedIn(y)

\* src/README.md:42-45: when an untagged coroutine that an untagged yield suspended is
\* resumed, "the whole stack will be resumed, ultimately resuming from the point of the
\* untagged yield": whatever continues hands control on to the next of the stack until
\* the last, the yielder, runs.
ResumeReachesYielder ==
    [][mode = "cont" =>
          IF link[cur] # Nil THEN mode' = "cont" /\ cur' = link[cur]
                             ELSE mode' # "back" /\ cur' = cur]_luaVars
=============================================================================
