---------------------------- MODULE PureLuaProofs ----------------------------
(***************************************************************************)
(* Proofs about PureLua, for any threads, tags and values: its invariants,  *)
(* and that it implements NestedCoro under the mapping of                  *)
(* PureLuaRefinement.                                                      *)
(***************************************************************************)
EXTENDS PureLuaRefinement, NestedCoroProofs

-----------------------------------------------------------------------------
(* The inductive invariant.  What holds also after line 110 has suspended a *)
(* coroutine:                                                              *)

LuaTypes == TypeOK /\ parentYieldable \in [Thread -> BOOLEAN] /\ echoed \in BOOLEAN

Waits ==
    /\ LinkedWhileWaiting
    /\ mode \in {"run", "raise", "exit"} => frame[cur] = "body"

(* And what holds until then, beyond Structure.                            *)

NobodyEchoed == \A t \in Thread : frame[t] # "untk"

\* meta.parent_isyieldable is still true when it is asked.
SavedYieldable ==
    /\ \A p \in Thread : link[p] \in coroset => (parentYieldable[link[p]] <=> Yieldable(p))
    /\ \A t \in Thread : status[t] = "yield" => ~ccall[t]

LuaSourcesEnd ==
    \A t \in coroset :
        status[t] = "yield" /\ ~stacked[t] /\ (\A p \in Thread : link[p] # t)
           => Ends(t, source[t], "yieldk")

LuaYielderEnds ==
    /\ CalleeYielded /\ ~IsRaw /\ ytag # RawTag =>
          /\ Ends(Callee, yfrom, "yieldk")
          /\ \A q \in StackOf(Callee) \ {Callee} : tag[q] # ytag
    /\ mode = "back" /\ status[Callee] = "yield" /\ frame[Callee] = "yieldk"
          => yfrom = Callee /\ ytag # RawTag

\* From the source of what has had an error the parents of the dead lead to it.
NextDead == [p \in Thread |-> IF p \in coroset /\ status[p] = "err" THEN parent[p] ELSE Nil]

DeadChains ==
    \A t \in Thread : source[t] # Nil =>
        \/ status[t] = "yield" /\ \A p \in Thread : link[p] # t
        \/ t \in Walk(source[t], NextDead)

LuaValuesHeld ==
    \A t \in Thread : stk[t] # <<>> /\ status[t] # "err" =>
        /\ mode \in {"run", "raise", "cont"} => t = cur
        /\ mode = "back" => t = Callee

LuaStacks ==
    /\ Structure
    /\ NobodyEchoed
    /\ NotCalledYet
    /\ SavedYieldable
    /\ LuaSourcesEnd
    /\ LuaYielderEnds
    /\ DeadChains
    /\ LuaValuesHeld

LuaInv == LuaTypes /\ Waits /\ (echoed \/ LuaStacks)
-----------------------------------------------------------------------------
(* What holds in any case.                                                 *)

LEMMA LuaInitOK == LuaInit => LuaInv
<1> SUFFICES ASSUME LuaInit PROVE LuaInv
  OBVIOUS
<1>1. TypeOK /\ Structure /\ NotCalledYet
  BY InitOK, StacksInit DEF LuaInit, StacksInv
<1> USE ThreadAssumption DEF LuaInit, Init
<1>2. LuaTypes /\ Waits
  BY <1>1 DEF LuaTypes, Waits, Structure
<1>3. NobodyEchoed /\ SavedYieldable /\ LuaSourcesEnd /\ LuaYielderEnds /\ DeadChains /\ LuaValuesHeld
  BY DEF NobodyEchoed, SavedYieldable, LuaSourcesEnd, LuaYielderEnds, CalleeYielded, InAuxcallk,
         DeadChains, LuaValuesHeld
<1> QED BY <1>1, <1>2, <1>3 DEF LuaInv, LuaStacks

\* Types: callk never resumes a coroutine that does not exist.
LEMMA LuaTypeStep == LuaTypes /\ Waits /\ [LuaNext]_luaVars => LuaTypes' /\ Waits'
<1> SUFFICES ASSUME LuaTypes, Waits, [LuaNext]_luaVars PROVE LuaTypes' /\ Waits'
  OBVIOUS
<1> USE ThreadAssumption
    DEF LuaTypes, Waits, LinkedWhileWaiting, TypeOK, Status, Frame, Mode, lua, meta, inflight,
        onlyLua, Waiting, Calling
<1>1. ASSUME NEW t \in Thread, NEW g \in Tag, Cocreate(t, g), UNCHANGED onlyLua
      PROVE  LuaTypes' /\ Waits'
  BY <1>1, NoValues DEF Cocreate, Consumes
<1>2. ASSUME NEW t \in Thread, CreateUntagged(t), UNCHANGED onlyLua
      PROVE  LuaTypes' /\ Waits'
  BY <1>2, NoValues DEF CreateUntagged, Consumes
<1>3. ASSUME NEW t \in Thread, NEW v \in Payload, Call(t, v)
      PROVE  LuaTypes' /\ Waits'
  <2>1. stk' \in [Thread -> Seq(Val)] /\ parentYieldable' \in [Thread -> BOOLEAN]
    BY <1>3, NoValues, ProgramValues DEF Call, SavesYieldable, Yieldable
  <2> QED BY <1>3, <2>1 DEF Call, ClearsSource, SetsParent, Resumes
<1>4. ASSUME NEW t \in Thread, CallRefused(t)
      PROVE  LuaTypes' /\ Waits'
  BY <1>4, NoValues DEF CallRefused, Consumes
<1>5. ASSUME NEW t \in Thread, NEW v \in Payload, RawResume(t, v), UNCHANGED onlyLua
      PROVE  LuaTypes' /\ Waits'
  BY <1>5, NoValues, ProgramValues DEF RawResume, Resumes
<1>6. ASSUME NEW g \in Tag, NEW v \in Payload, TcYield(g, v), UNCHANGED onlyLua
      PROVE  LuaTypes' /\ Waits'
  BY <1>6, ProgramValues DEF TcYield, Suspends, ToResumer
<1>7. ASSUME NEW v \in Payload, RawYield(v), UNCHANGED onlyLua
      PROVE  LuaTypes' /\ Waits'
  BY <1>7, ProgramValues DEF RawYield, Suspends, ToResumer
<1>8. ASSUME NEW v \in Payload, Return(v), UNCHANGED onlyLua
      PROVE  LuaTypes' /\ Waits'
  BY <1>8, ProgramValues DEF Return, ToResumer
<1>9. CASE (YieldRefused \/ Throw \/ MainEnds) /\ UNCHANGED onlyLua
  <2>1. stk' = [stk EXCEPT ![cur] = <<>>]
    BY <1>9 DEF YieldRefused, Throw, MainEnds, Consumes
  <2>2. stk' \in [Thread -> Seq(Val)]
    BY <2>1, NoValues
  <2> QED BY <1>9, <2>2 DEF YieldRefused, Throw, MainEnds
<1>10. CASE Catch /\ UNCHANGED onlyLua
  BY <1>10, LibraryValues DEF Catch
<1>11. CASE Die /\ UNCHANGED onlyLua
  BY <1>11 DEF Die, ToResumer
<1>12. CASE EnterC /\ UNCHANGED onlyLua
  BY <1>12, NoValues DEF EnterC, Consumes
<1>13. CASE LeaveC /\ UNCHANGED onlyLua
  BY <1>13, NoValues DEF LeaveC, Consumes
<1>14. frame[cur] \in Waiting => Callee \in Thread
  BY DEF Callee
<1>15. CASE BackOK /\ UNCHANGED onlyLua
  <2>1. Callee \in Thread /\ (Moves(Callee) \/ Overflows(Callee))
    BY <1>14, <1>15 DEF BackOK, InAuxcallk
  <2>2. CASE Moves(Callee)
    <3>1. stk' \in [Thread -> Seq(Val)]
      BY <2>1, <2>2, NoValues DEF Moves
    <3> QED BY <1>15, <3>1 DEF BackOK, LeavesFrame
  <2>3. CASE Overflows(Callee)
    <3>1. stk' \in [Thread -> Seq(Val)]
      BY <2>1, <2>3, NoValues DEF Overflows
    <3> QED BY <1>15, <3>1 DEF BackOK, LeavesFrame
  <2> QED BY <2>1, <2>2, <2>3
<1>16. CASE BackErr /\ UNCHANGED onlyLua
  BY <1>14, <1>16, NoValues DEF BackErr, InAuxcallk, ErrorSource, LeavesFrame
<1>17. CASE LuaBackForMe
  BY <1>14, <1>17, NoValues DEF LuaBackForMe, CalleeYielded, InAuxcallk, LuaYielder, Moves,
                                LeavesFrame, NoYieldInFlight
<1>18. CASE LuaBackPass
  <2>1. ytag' \in Tag \cup {RawTag, Nil} /\ yfrom' \in Thread \cup {Nil}
    BY <1>18 DEF LuaBackPass, SetsOut, NoYieldInFlight
  <2> QED BY <1>14, <1>18, <2>1, NoValues
          DEF LuaBackPass, CalleeYielded, InAuxcallk, Stacks, Moves, Suspends, ToResumer
<1>19. CASE BackEcho
  BY <1>14, <1>19, NoValues DEF BackEcho, CalleeYielded, InAuxcallk, Moves, Suspends, ToResumer,
                                NoYieldInFlight
<1>20. CASE LuaBackRefused
  <2>1. Refusal \in Seq(Val) /\ Callee \in Thread
    BY <1>14, <1>20, LibraryValues DEF Refusal, LuaBackRefused, CalleeYielded, InAuxcallk
  <2>2. stacked' \in [Thread -> BOOLEAN]
    BY <1>20 DEF LuaBackRefused, Unstacks
  <2> QED BY <1>20, <2>1, <2>2 DEF LuaBackRefused, CalleeYielded, InAuxcallk, Resumes, NoYieldInFlight
<1>21. CASE LuaRawBack
  <2>1. Callee \in Thread
    BY <1>14, <1>21 DEF LuaRawBack
  <2>2. <<"sentinel", "thread", "tag">> \o stk[Callee] \in Seq(Val)
    BY <2>1, ConcatValues DEF Val, Ctl
  <2> QED BY LibraryValues, <1>21, <2>1, <2>2 DEF LuaRawBack, LeavesFrame, NoYieldInFlight
<1>22. CASE ContPlain /\ UNCHANGED onlyLua
  BY <1>22 DEF ContPlain, LeavesFrame
<1>23. CASE ContYieldk /\ UNCHANGED onlyLua
  <2>1. stk' \in [Thread -> Seq(Val)]
    <3>1. stk' = stk \/ stk' = [stk EXCEPT ![cur] = <<>>]
      BY <1>23 DEF ContYieldk, Consumes
    <3>2. stk \in [Thread -> Seq(Val)] /\ [stk EXCEPT ![cur] = <<>>] \in [Thread -> Seq(Val)]
      BY NoValues
    <3> QED BY <3>1, <3>2
  <2> QED BY <1>23, <2>1 DEF ContYieldk, LeavesFrame
<1>24. CASE LuaContPassk
  BY <1>14, <1>24, NoValues DEF LuaContPassk, Unstacks, Resumes
<1>25. CASE LuaContRefused
  BY <1>14, <1>25, NoValues DEF LuaContRefused, Unstacks, ErrorSource, Consumes, LeavesFrame
<1>26. CASE ContEcho
  <2>1. CASE mode' = "run" /\ LeavesFrame /\ UNCHANGED <<status, cur, stacked>>
    BY <1>26, <2>1 DEF ContEcho, LeavesFrame
  <2>2. CASE Stacks(Callee) /\ Suspends("passk") /\ UNCHANGED link
    BY <1>14, <1>26, <2>2 DEF ContEcho, Stacks, Suspends, ToResumer
  <2> QED BY <1>26, <2>1, <2>2 DEF ContEcho
<1>27. CASE UNCHANGED luaVars
  BY <1>27 DEF luaVars, vars
<1> QED BY <1>1, <1>2, <1>3, <1>4, <1>5, <1>6, <1>7, <1>8, <1>9, <1>10, <1>11, <1>12, <1>13,
           <1>15, <1>16, <1>17, <1>18, <1>19, <1>20, <1>21, <1>22, <1>23, <1>24, <1>25, <1>26,
           <1>27
        DEF LuaNext, LuaProgram, LuaLibrary, LuaTerminated, SharedProgram, SharedLibrary

-----------------------------------------------------------------------------
(* Until line 110 suspends a coroutine.                                    *)

\* What both versions do alike; among it the refusals of M.call, which raise an error.
Shared == SharedProgram \/ SharedLibrary \/ UNCHANGED luaVars

LEMMA SharedIsNext == Shared => [Next]_vars /\ UNCHANGED onlyLua
<1>1. SharedProgram => Program /\ UNCHANGED onlyLua
  BY DEF SharedProgram, Program
<1>2. SharedLibrary => Library /\ UNCHANGED onlyLua
  BY DEF SharedLibrary, Library
<1> QED BY <1>1, <1>2 DEF Shared, luaVars, onlyLua, Next

LEMMA SharedSteps ==
    ASSUME [LuaNext]_luaVars
    PROVE  \/ Shared
           \/ \E t \in Thread, v \in Payload : Call(t, v)
           \/ LuaBackForMe \/ LuaBackPass \/ BackEcho \/ LuaBackRefused \/ LuaRawBack
           \/ LuaContPassk \/ LuaContRefused \/ ContEcho
<1>1. ASSUME NEW t \in Thread, CallRefused(t)
      PROVE  SharedProgram
  BY <1>1 DEF CallRefused, Throw, SharedProgram
<1> QED BY <1>1 DEF LuaNext, LuaProgram, LuaLibrary, LuaTerminated, Shared

\* Line 110 is behind what BackEcho does, and what goes on after it.
LEMMA NotEchoedYet ==
    ASSUME LuaInv, [LuaNext]_luaVars, ~echoed'
    PROVE  /\ ~echoed
           /\ ~BackEcho /\ ~LuaContRefused /\ ~ContEcho
<1>1. ~echoed
  BY SharedSteps, SharedIsNext
     DEF onlyLua, Call, LuaBackForMe, LuaBackPass, BackEcho, LuaBackRefused, LuaRawBack,
         LuaContPassk, LuaContRefused, ContEcho
<1>2. LuaStacks /\ LuaTypes
  BY <1>1 DEF LuaInv
<1>3. ~ContEcho
  BY <1>2 DEF ContEcho, LuaStacks, NobodyEchoed, LuaTypes, TypeOK
<1>4. ~LuaContRefused
  BY <1>2 DEF LuaContRefused, LuaStacks, Structure, CalleeMatchesFrame, LinkedWhileWaiting,
              Waiting, Callee, LuaTypes, TypeOK
<1> QED BY <1>1, <1>3, <1>4 DEF BackEcho

\* M.call finds a coroutine that nobody waits for.
LEMMA CalledIsFree ==
    ASSUME TypeOK, Structure, NEW t \in Thread, NEW v \in Payload, Call(t, v)
    PROVE  /\ mode = "run" /\ status[t] \in {"new", "yield"} /\ t \in coroset /\ t # cur
           /\ frame[cur] = "body" /\ link[cur] = Nil /\ ~stacked[t]
           /\ \A p \in Thread : link[p] # t
           /\ link' = [link EXCEPT ![cur] = t]
           /\ frame' = [frame EXCEPT ![cur] = "call"]
           /\ status' = [status EXCEPT ![t] = "active"]
           /\ parent' = [parent EXCEPT ![t] = cur]
           /\ source' = [source EXCEPT ![t] = Nil]
           /\ mode' = "cont" /\ cur' = t
           /\ UNCHANGED <<ccall, coroset, tag, stacked, inflight, echoed>>
<1> USE DEF TypeOK, Structure, CurMatchesMode, LinkedWhileWaiting, CalleeMatchesFrame, Waiting, Calling
<1>1. /\ mode = "run" /\ status[t] \in {"new", "yield"} /\ t \in coroset /\ ~stacked[t]
      /\ t # cur /\ frame[cur] = "body" /\ link[cur] = Nil
  BY DEF Call, LuaResumable
<1>2. \A p \in Thread : link[p] # t
  <2> SUFFICES ASSUME NEW p \in Thread, link[p] = t PROVE FALSE
    OBVIOUS
  <2>1. frame[p] \in Waiting
    BY ThreadAssumption
  <2>2. frame[p] \notin {"passk", "untk"}
    BY <1>1, ThreadAssumption
  <2> QED BY <1>1, <2>1, <2>2, ThreadAssumption
<1> QED BY <1>1, <1>2 DEF Call, Resumes, SetsParent, ClearsSource

\* What callk waits for when coroutine.resume returns what a coroutine yielded.
LEMMA CalleeOfCall ==
    ASSUME TypeOK, Structure, CalleeYielded
    PROVE  /\ mode = "back" /\ frame[cur] \in {"call", "callk"} /\ status[Callee] = "yield"
           /\ Callee \in coroset /\ Callee \in Thread /\ Callee # cur /\ link[cur] = Callee
           /\ ~stacked[Callee]
           /\ \A p \in Thread \ {cur} : link[p] # Callee
           /\ frame[Callee] \in {"yieldk", "uyield", "passk"}
           /\ ~IsRaw => ytag # Nil /\ yfrom # Nil /\ ytag \in Tag \cup {RawTag} /\ yfrom \in Thread
<1> USE ThreadAssumption
    DEF TypeOK, Structure, CurMatchesMode, LinkedWhileWaiting, CalleeMatchesFrame, Waiting,
        Calling, CalleeYielded, InAuxcallk, OneResumer, FramesMatchStatus, Suspended, YieldInFlight
<1>1. /\ mode = "back" /\ frame[cur] \in {"call", "callk"} /\ status[link[cur]] = "yield"
      /\ link[cur] \in coroset /\ link[cur] \in Thread /\ link[cur] # cur
      /\ ~stacked[link[cur]]
  BY DEF Callee
<1>2. \A p \in Thread \ {cur} : link[p] # link[cur]
  BY <1>1
<1>3. frame[link[cur]] \in {"yieldk", "uyield", "passk"}
  BY <1>1 DEF Callee
<1> QED BY <1>1, <1>2, <1>3 DEF Callee, IsRaw

LEMMA LuaStructureStep ==
    ASSUME LuaInv, [LuaNext]_luaVars, ~echoed'
    PROVE  Structure'
<1> LuaTypes /\ LuaStacks /\ TypeOK /\ Structure
  BY NotEchoedYet DEF LuaInv, LuaTypes, LuaStacks
<1> USE ThreadAssumption
    DEF TypeOK, lua, meta, inflight, Structure, FramesMatchStatus, CurMatchesMode,
        CorosetIsCreated, LinkedWhileWaiting, CalleeMatchesFrame, OneResumer,
        RunningHasResumer, ParentIsResumer, YieldInFlight, StackedUnlessOverflow,
        StackedIsOnAStack, CalleeYielded, InAuxcallk, Callee, Waiting, Calling, Suspended
<1>1. CASE Shared
  <2> HIDE DEF TypeOK, Structure
  <2> QED BY <1>1, SharedIsNext, StructureStep
<1>2. ASSUME NEW t \in Thread, NEW v \in Payload, Call(t, v)
      PROVE  Structure'
  <2>1. /\ mode = "run" /\ status[t] \in {"new", "yield"} /\ t \in coroset /\ t # cur
        /\ frame[cur] = "body" /\ link[cur] = Nil /\ ~stacked[t]
        /\ \A p \in Thread : link[p] # t
        /\ link' = [link EXCEPT ![cur] = t]
        /\ frame' = [frame EXCEPT ![cur] = "call"]
        /\ status' = [status EXCEPT ![t] = "active"]
        /\ parent' = [parent EXCEPT ![t] = cur]
        /\ mode' = "cont" /\ cur' = t
        /\ UNCHANGED <<ccall, coroset, tag, stacked, inflight>>
    BY <1>2, CalledIsFree
  <2>2. FramesMatchStatus' /\ CurMatchesMode' /\ CorosetIsCreated' /\ LinkedWhileWaiting'
    BY <2>1
  <2>3. CalleeMatchesFrame'
    BY <2>1
  <2>4. OneResumer' /\ ParentIsResumer'
    BY <2>1
  <2>5. RunningHasResumer'
    <3> SUFFICES ASSUME NEW q \in Thread \ {Main}, status'[q] = "active"
                 PROVE  \E p \in Thread : status'[p] = "active" /\ link'[p] = q
      OBVIOUS
    <3>1. CASE q = t
      BY <2>1, <3>1
    <3>2. CASE q # t
      <4>1. PICK p \in Thread : status[p] = "active" /\ link[p] = q
        BY <2>1, <3>2
      <4> QED BY <2>1, <4>1
    <3> QED BY <3>1, <3>2
  <2>6. YieldInFlight' /\ StackedUnlessOverflow'
    BY <2>1
  <2> QED BY <2>2, <2>3, <2>4, <2>5, <2>6
<1>3. CASE LuaBackForMe
  BY <1>3 DEF LuaBackForMe, LeavesFrame, NoYieldInFlight
<1>4. CASE LuaBackPass
  <2>1. /\ mode = "back" /\ frame[cur] \in {"call", "callk"} /\ status[Callee] = "yield"
        /\ Callee \in coroset /\ Callee \in Thread /\ Callee # cur /\ link[cur] = Callee
        /\ \A p \in Thread \ {cur} : link[p] # Callee
        /\ ~IsRaw => ytag # Nil /\ yfrom # Nil
    <3> HIDE DEF TypeOK, Structure, CalleeYielded, Callee
    <3> QED BY <1>4, CalleeOfCall DEF LuaBackPass
  <2>2. /\ stacked' = [stacked EXCEPT ![Callee] = TRUE]
        /\ status' = [status EXCEPT ![cur] = "yield"]
        /\ frame' = [frame EXCEPT ![cur] = "passk"]
        /\ UNCHANGED <<link, ccall, coroset, tag, parent>>
        /\ cur # Main
    BY <1>4 DEF LuaBackPass, Stacks, Suspends, Yieldable
  <2>3. PICK p \in Thread : status[p] = "active" /\ link[p] = cur /\ cur' = p /\ mode' = "back"
    BY <1>4 DEF LuaBackPass, Suspends, ToResumer
  <2>4. p # cur /\ frame[p] \in Calling
    BY <2>1, <2>3
  <2>5. cur \notin coroset => frame[p] = "raw"
    BY <2>1, <2>3
  <2>6. cur \in coroset => ytag' # Nil /\ yfrom' # Nil
    BY <1>4, <2>1, TagAssumption DEF LuaBackPass, SetsOut
  <2>7. FramesMatchStatus' /\ CurMatchesMode' /\ CorosetIsCreated' /\ LinkedWhileWaiting'
    BY <2>1, <2>2, <2>3, <2>4
  <2>8. CalleeMatchesFrame'
    <3> SUFFICES ASSUME NEW q \in Thread, link[q] # Nil
                 PROVE  /\ frame'[q] \in Calling =>
                              IF q = cur' /\ mode' \in {"back", "broken"}
                              THEN status'[link[q]] \in {"yield", "done", "err"}
                              ELSE status'[link[q]] = "active"
                        /\ frame'[q] = "raw" => link[q] \in Untagged
                        /\ frame'[q] # "raw" => link[q] \in coroset'
                        /\ frame'[q] \in {"call", "callk"} => ~stacked'[link[q]]
                        /\ frame'[q] \in {"passk", "untk"} =>
                              stacked'[link[q]] /\ status'[link[q]] = "yield"
      BY <2>2
    <3>1. CASE q = cur
      BY <2>1, <2>2, <3>1
    <3>2. CASE q = p
      BY <2>1, <2>2, <2>3, <2>4, <3>2
    <3>3. CASE q # cur /\ q # p
      <4>1. link[q] # cur /\ link[q] # Callee
        BY <2>1, <2>3, <3>3
      <4> QED BY <2>1, <2>2, <2>3, <3>3, <4>1
    <3> QED BY <3>1, <3>2, <3>3
  <2>9. OneResumer' /\ RunningHasResumer' /\ ParentIsResumer'
    BY <2>1, <2>2, <2>3, <2>4
  <2>10. YieldInFlight' /\ StackedUnlessOverflow'
    BY <2>1, <2>2, <2>3, <2>4, <2>5, <2>6
  <2> QED BY <2>7, <2>8, <2>9, <2>10
<1>5. CASE LuaBackRefused
  <2>1. stacked' = stacked
    <3>1. Callee \in Thread /\ ~stacked[Callee]
      <4> HIDE DEF TypeOK, Structure, CalleeYielded, Callee
      <4> QED BY <1>5, CalleeOfCall DEF LuaBackRefused
    <3>2. [stacked EXCEPT ![Callee] = FALSE] = stacked
      BY <3>1
    <3> QED BY <1>5, <3>2 DEF LuaBackRefused, Unstacks
  <2> QED BY <1>5, <2>1 DEF LuaBackRefused, Resumes, NoYieldInFlight
<1>6. CASE LuaRawBack
  <2>1. FramesMatchStatus' /\ CurMatchesMode' /\ CorosetIsCreated' /\ LinkedWhileWaiting'
    BY <1>6 DEF LuaRawBack, LeavesFrame, NoYieldInFlight
  <2>2. CalleeMatchesFrame'
    BY <1>6 DEF LuaRawBack, LeavesFrame, NoYieldInFlight
  <2>3. OneResumer' /\ RunningHasResumer' /\ ParentIsResumer'
    BY <1>6 DEF LuaRawBack, LeavesFrame, NoYieldInFlight
  <2>4. YieldInFlight' /\ StackedUnlessOverflow'
    BY <1>6 DEF LuaRawBack, LeavesFrame, NoYieldInFlight
  <2> QED BY <2>1, <2>2, <2>3, <2>4
<1>7. CASE LuaContPassk
  <2>1. /\ Callee # cur /\ Callee \in Thread /\ link[cur] = Callee
        /\ status[Callee] = "yield" /\ frame[Callee] \in Suspended
    BY <1>7 DEF LuaContPassk
  <2>2. FramesMatchStatus' /\ CurMatchesMode' /\ CorosetIsCreated' /\ LinkedWhileWaiting'
    BY <1>7, <2>1 DEF LuaContPassk, Resumes, Unstacks
  <2>3. CalleeMatchesFrame'
    BY <1>7, <2>1 DEF LuaContPassk, Resumes, Unstacks
  <2>4. OneResumer' /\ RunningHasResumer' /\ ParentIsResumer'
    BY <1>7, <2>1 DEF LuaContPassk, Resumes, Unstacks
  <2>5. YieldInFlight' /\ StackedUnlessOverflow'
    BY <1>7, <2>1 DEF LuaContPassk, Resumes, Unstacks
  <2> QED BY <2>2, <2>3, <2>4, <2>5
<1> QED BY <1>1, <1>2, <1>3, <1>4, <1>5, <1>6, <1>7, SharedSteps, NotEchoedYet

\* A step changes the frame, and what it waits for, of the running coroutine only, and
\* gives metadata only to a coroutine that it creates.
LEMMA LuaOthersStay ==
    ASSUME LuaInv, [LuaNext]_luaVars, ~echoed'
    PROVE  /\ \A p \in Thread \ {cur} : link'[p] = link[p] /\ frame'[p] = frame[p]
           /\ \A t \in coroset : t \in coroset' /\ tag'[t] = tag[t]
           /\ \A t \in coroset' : t \in coroset \/ (status[t] = "none" /\ status'[t] = "new")
<1> TypeOK /\ Structure
  BY NotEchoedYet DEF LuaInv, LuaTypes, LuaStacks
<1>1. CASE Shared
  BY <1>1, SharedIsNext, OthersStay, CorosetStep
<1>2. ASSUME NEW t \in Thread, NEW v \in Payload, Call(t, v)
      PROVE  /\ \A p \in Thread \ {cur} : link'[p] = link[p] /\ frame'[p] = frame[p]
             /\ UNCHANGED <<coroset, tag>>
  BY <1>2 DEF Call, Resumes, TypeOK
<1>3. CASE LuaBackForMe \/ LuaBackPass \/ LuaBackRefused \/ LuaRawBack \/ LuaContPassk
  BY <1>3 DEF LuaBackForMe, LuaBackPass, LuaBackRefused, LuaRawBack, LuaContPassk, LeavesFrame,
              Suspends, Resumes, TypeOK, lua, meta
<1> QED BY <1>1, <1>2, <1>3, SharedSteps, NotEchoedYet

\* So the stack below one that does not run stays as it is.
LEMMA LuaStackStays ==
    ASSUME LuaInv, [LuaNext]_luaVars, ~echoed', NEW t \in Thread, status[t] # "active"
    PROVE  /\ StackOf(t)' = StackOf(t)
           /\ \A q \in StackOf(t) : link'[q] = link[q] /\ frame'[q] = frame[q]
BY NotEchoedYet, LuaTypeStep, LuaOthersStay, StackKept DEF LuaInv, LuaTypes, LuaStacks

LEMMA NobodyEchoedStep ==
    ASSUME LuaInv, [LuaNext]_luaVars, ~echoed'
    PROVE  NobodyEchoed'
<1> TypeOK /\ Structure /\ NobodyEchoed
  BY NotEchoedYet DEF LuaInv, LuaTypes, LuaStacks
<1>1. CASE SharedProgram
  BY <1>1 DEF TypeOK, NobodyEchoed, SharedProgram, lua, Cocreate, CreateUntagged, RawResume,
     TcYield, RawYield, Return, YieldRefused, Throw, Catch, Die, MainEnds, EnterC, LeaveC, Resumes,
     Suspends
<1>2. CASE SharedLibrary
  BY <1>2 DEF TypeOK, NobodyEchoed, SharedLibrary, BackOK, BackErr, ContPlain, ContYieldk, LeavesFrame
<1>3. ASSUME NEW t \in Thread, NEW v \in Payload, Call(t, v)
      PROVE  NobodyEchoed'
  BY <1>3 DEF TypeOK, NobodyEchoed, Call, Resumes
<1>4. CASE LuaBackForMe \/ LuaBackPass \/ LuaBackRefused \/ LuaRawBack \/ LuaContPassk
  BY <1>4 DEF LuaBackForMe, LuaBackPass, LuaBackRefused, LuaRawBack, LuaContPassk, LeavesFrame,
              Suspends, Resumes, TypeOK, NobodyEchoed
<1>5. CASE UNCHANGED luaVars
  BY <1>5 DEF luaVars, vars, NobodyEchoed
<1> QED BY <1>1, <1>2, <1>3, <1>4, <1>5, SharedSteps, NotEchoedYet DEF Shared

LEMMA LuaNotCalledYetStep ==
    ASSUME LuaInv, [LuaNext]_luaVars, ~echoed'
    PROVE  NotCalledYet'
<1> TypeOK /\ Structure /\ NotCalledYet
  BY NotEchoedYet DEF LuaInv, LuaTypes, LuaStacks
<1>1. CASE Shared
  BY <1>1, SharedIsNext, NotCalledYetStep
<1>2. ASSUME NEW t \in Thread, NEW v \in Payload, Call(t, v)
      PROVE  NotCalledYet'
  <2>1. t # Main
    BY <1>2, CalledIsFree DEF Structure, CurMatchesMode
  <2> QED BY <1>2, <2>1, CalledIsFree, ThreadAssumption DEF NotCalledYet, TypeOK
<1>3. CASE LuaBackForMe
  <2>1. status[Callee] = "yield" /\ Callee \in coroset
    BY <1>3, CalleeOfCall DEF LuaBackForMe
  <2>2. /\ source' = [source EXCEPT ![Callee] = LuaYielder]
        /\ UNCHANGED <<status, coroset, parent>>
    BY <1>3 DEF LuaBackForMe
  <2> QED BY <2>1, <2>2 DEF NotCalledYet, TypeOK
<1>4. CASE LuaBackPass \/ LuaBackRefused \/ LuaRawBack \/ LuaContPassk
  <2>1. UNCHANGED <<coroset, parent, source>>
    BY <1>4 DEF LuaBackPass, LuaBackRefused, LuaRawBack, LuaContPassk, meta
  <2>2. \A t \in Thread : status'[t] = "new" => status[t] = "new"
    BY <1>4 DEF LuaBackPass, LuaBackRefused, LuaRawBack, LuaContPassk, Suspends, Resumes, TypeOK
  <2> QED BY <2>1, <2>2 DEF NotCalledYet
<1> QED BY <1>1, <1>2, <1>3, <1>4, SharedSteps, NotEchoedYet

\* Whatever somebody waits for has been created; who runs waits for nobody.
LEMMA CalleeIsCreated ==
    ASSUME TypeOK, Structure, NEW p \in Thread, link[p] # Nil
    PROVE  /\ link[p] \in Thread /\ status[link[p]] \notin {"none", "new"}
           /\ p = cur => mode \notin {"run", "raise"}
<1>1. link[p] \in Thread /\ frame[p] \in Waiting
  BY DEF TypeOK, Structure, LinkedWhileWaiting
<1>2. CASE frame[p] \in Calling
  BY <1>1, <1>2 DEF Structure, CalleeMatchesFrame, CurMatchesMode, Calling
<1>3. CASE frame[p] \in {"passk", "untk"}
  BY <1>1, <1>3 DEF Structure, CalleeMatchesFrame, CurMatchesMode
<1> QED BY <1>1, <1>2, <1>3 DEF Waiting

\* A call that goes on waits for whom it waited for.
CallsStay ==
    /\ \A t \in Thread : ccall'[t] # ccall[t] => t = cur /\ mode \in {"run", "raise"} /\ status'[cur] # "yield"
    /\ \A p \in Thread : link'[p] \in coroset' => link'[p] = link[p]
    /\ \A t \in Thread : status'[t] = "yield" => status[t] = "yield" \/ (t = cur /\ Yieldable(cur))
    /\ UNCHANGED parentYieldable

LEMMA CallsStaySteps ==
    ASSUME LuaInv, [LuaNext]_luaVars, ~echoed'
    PROVE  CallsStay \/ \E t \in Thread, v \in Payload : Call(t, v)
<1> TypeOK /\ Structure
  BY NotEchoedYet DEF LuaInv, LuaTypes, LuaStacks
<1>0. cur \in Thread /\ status[cur] = "active" /\ Nil \notin coroset' /\ coroset \cap Untagged = {}
  BY LuaTypeStep, ThreadAssumption DEF LuaInv, LuaTypes, TypeOK, Structure, CurMatchesMode, CorosetIsCreated
<1> USE DEF CallsStay, TypeOK, lua, meta, onlyLua
<1>1. ASSUME NEW t \in Thread, NEW g \in Tag, Cocreate(t, g), UNCHANGED onlyLua
      PROVE  CallsStay
  BY <1>0, <1>1 DEF Cocreate
<1>2. ASSUME NEW t \in Thread, NEW v \in Payload, RawResume(t, v), UNCHANGED onlyLua
      PROVE  CallsStay
  BY <1>0, <1>2 DEF RawResume, Resumes
<1>3. ASSUME (\E g \in Tag, v \in Payload : TcYield(g, v)) \/ (\E v \in Payload : RawYield(v)),
             UNCHANGED onlyLua
      PROVE  CallsStay
  BY <1>0, <1>3 DEF TcYield, RawYield, Suspends
<1>4. ASSUME (\E v \in Payload : Return(v)) \/ Die \/ (\E t \in Thread : CreateUntagged(t)),
             UNCHANGED onlyLua
      PROVE  CallsStay
  BY <1>0, <1>4 DEF Return, Die, CreateUntagged
<1>5. ASSUME YieldRefused \/ Throw \/ Catch \/ MainEnds \/ EnterC \/ LeaveC, UNCHANGED onlyLua
      PROVE  CallsStay
  BY <1>0, <1>5 DEF YieldRefused, Throw, Catch, MainEnds, EnterC, LeaveC
<1>6. CASE SharedProgram
  BY <1>1, <1>2, <1>3, <1>4, <1>5, <1>6 DEF SharedProgram
<1>7. CASE SharedLibrary
  BY <1>0, <1>7 DEF SharedLibrary, BackOK, BackErr, ContPlain, ContYieldk, LeavesFrame
<1>8. CASE LuaBackForMe \/ LuaRawBack
  BY <1>0, <1>8 DEF LuaBackForMe, LuaRawBack, LeavesFrame
<1>9. CASE LuaBackPass
  BY <1>0, <1>9 DEF LuaBackPass, Suspends
<1>10. CASE LuaBackRefused \/ LuaContPassk
  BY <1>0, <1>10 DEF LuaBackRefused, LuaContPassk, Resumes, Callee
<1>11. CASE UNCHANGED luaVars
  BY <1>11 DEF luaVars, vars
<1> QED BY <1>6, <1>7, <1>8, <1>9, <1>10, <1>11, SharedSteps, NotEchoedYet DEF Shared

\* What a call saved stays true: who waits neither enters nor leaves a C function.
LEMMA SavedYieldableStep ==
    ASSUME LuaInv, [LuaNext]_luaVars, ~echoed'
    PROVE  SavedYieldable'
<1> TypeOK /\ Structure /\ SavedYieldable /\ parentYieldable \in [Thread -> BOOLEAN]
  BY NotEchoedYet DEF LuaInv, LuaTypes, LuaStacks
<1>1. ASSUME NEW t \in Thread, NEW v \in Payload, Call(t, v)
      PROVE  SavedYieldable'
  <2>1. /\ link' = [link EXCEPT ![cur] = t] /\ \A p \in Thread : link[p] # t
        /\ status' = [status EXCEPT ![t] = "active"]
        /\ ccall' = ccall /\ coroset' = coroset /\ t \in coroset
    BY <1>1, CalledIsFree
  <2>2. parentYieldable' = [parentYieldable EXCEPT ![t] = Yieldable(cur)]
    BY <1>1 DEF Call, SavesYieldable
  <2>3. ASSUME NEW p \in Thread, link'[p] \in coroset'
        PROVE  parentYieldable'[link'[p]] <=> Yieldable(p)'
    <3>1. CASE p = cur
      BY <2>1, <2>2, <3>1 DEF Yieldable, TypeOK
    <3>2. CASE p # cur
      BY <2>1, <2>2, <2>3, <3>2 DEF SavedYieldable, Yieldable, TypeOK
    <3> QED BY <3>1, <3>2
  <2> QED BY <2>1, <2>3 DEF SavedYieldable, TypeOK
<1>2. CASE CallsStay
  <2>1. ASSUME NEW p \in Thread, link'[p] \in coroset'
        PROVE  parentYieldable'[link'[p]] <=> Yieldable(p)'
    <3>1. link'[p] = link[p] /\ link[p] # Nil
      BY <1>2, <2>1, LuaTypeStep, ThreadAssumption DEF CallsStay, LuaInv, LuaTypes, TypeOK
    <3>2. link[p] \in coroset
      BY <2>1, <3>1, LuaOthersStay, CalleeIsCreated
    <3>3. ccall'[p] = ccall[p]
      BY <1>2, <3>1, CalleeIsCreated DEF CallsStay
    <3> QED BY <1>2, <3>1, <3>2, <3>3 DEF SavedYieldable, Yieldable, CallsStay
  <2>2. ASSUME NEW t \in Thread, status'[t] = "yield"
        PROVE  ~ccall'[t]
    <3>1. ~ccall[t]
      BY <1>2, <2>2 DEF SavedYieldable, Yieldable, CallsStay
    <3>2. ccall'[t] = ccall[t]
      BY <1>2, <2>2 DEF CallsStay
    <3> QED BY <3>1, <3>2
  <2> QED BY <2>1, <2>2 DEF SavedYieldable
<1> QED BY <1>1, <1>2, CallsStaySteps

\* Who suspends itself is waited for.  While a coroutine stays suspended it stays
\* stacked, and only callk changes its source, when it lets go of it.
LEMMA LuaSuspendedMeta ==
    ASSUME LuaInv, [LuaNext]_luaVars, ~echoed', NEW t \in Thread, status'[t] = "yield"
    PROVE  /\ status[t] # "yield" => \E p \in Thread : link'[p] = t
           /\ status[t] = "yield" =>
                 /\ stacked[t] => stacked'[t]
                 /\ source'[t] # source[t] => t = Callee /\ LuaBackForMe
                 /\ t \in coroset /\ link[cur] = t /\ link'[cur] # t => LuaBackForMe
<1> TypeOK /\ Structure
  BY NotEchoedYet DEF LuaInv, LuaTypes, LuaStacks
<1>0. /\ cur \in Thread /\ status[cur] = "active" /\ coroset \cap Untagged = {}
      /\ mode \in {"run", "raise"} => link[cur] = Nil
      /\ mode = "cont" /\ frame[cur] \in {"body", "uyield", "yieldk"} => link[cur] = Nil
      /\ link[cur] # Nil => link[cur] \in Thread
  BY DEF TypeOK, Structure, CurMatchesMode, CorosetIsCreated, LinkedWhileWaiting, Waiting, Calling
<1> USE ThreadAssumption DEF TypeOK, lua, meta, onlyLua
<1>1. ASSUME NEW co \in Thread, NEW v \in Payload, Call(co, v)
      PROVE  t # co /\ status[t] = "yield" /\ stacked'[t] = stacked[t] /\ source'[t] = source[t] /\ link[cur] = Nil
  BY <1>0, <1>1, CalledIsFree
<1>2. CASE SharedProgram
  <2>1. ASSUME status[t] # "yield"
        PROVE  \E p \in Thread : link'[p] = t
    BY <1>0, <1>2, <2>1
       DEF SharedProgram, Cocreate, CreateUntagged, RawResume, TcYield, RawYield, Return,
           YieldRefused, Throw, Catch, Die, MainEnds, EnterC, LeaveC, Resumes, Suspends, ToResumer
  <2>2. stacked' = stacked /\ source' = source /\ link[cur] = Nil
    BY <1>0, <1>2
       DEF SharedProgram, Cocreate, CreateUntagged, RawResume, TcYield, RawYield, Return,
           YieldRefused, Throw, Catch, Die, MainEnds, EnterC, LeaveC
  <2> QED BY <1>0, <2>1, <2>2
<1>3. CASE BackErr
  <2>1. /\ status[Callee] # "yield" /\ link[cur] = Callee /\ UNCHANGED <<status, stacked>>
        /\ \A q \in Thread : q # Callee /\ q # cur => source'[q] = source[q]
    BY <1>3 DEF BackErr, Callee
  <2> QED BY <1>0, <2>1
<1>4. CASE BackOK \/ ContPlain \/ ContYieldk
  BY <1>0, <1>4 DEF BackOK, ContPlain, ContYieldk, LeavesFrame, Callee
<1>5. CASE LuaBackForMe
  BY <1>0, <1>5 DEF LuaBackForMe
<1>6. CASE LuaRawBack
  <2>1. link[cur] \notin coroset
    BY <1>0, <1>6 DEF LuaRawBack, Structure, CalleeMatchesFrame, LinkedWhileWaiting, Waiting, Calling
  <2> QED BY <1>0, <1>6, <2>1 DEF LuaRawBack, LeavesFrame
<1>7. CASE LuaBackPass
  BY <1>0, <1>7 DEF LuaBackPass, Suspends, ToResumer, Stacks
<1>8. CASE LuaBackRefused \/ LuaContPassk
  <2>1. Callee # t /\ Callee \in Thread
    BY <1>0, <1>8 DEF LuaBackRefused, CalleeYielded, LuaContPassk, Resumes, Callee, InAuxcallk, Structure,
                      LinkedWhileWaiting, Waiting, Calling
  <2> QED BY <1>0, <1>8, <2>1 DEF LuaBackRefused, LuaContPassk, Resumes, Unstacks, Callee
<1>9. CASE UNCHANGED luaVars
  BY <1>9 DEF luaVars, vars
<1> QED BY <1>1, <1>2, <1>3, <1>4, <1>5, <1>6, <1>7, <1>8, <1>9, <1>0, SharedSteps, NotEchoedYet
        DEF Shared, SharedLibrary

\* The source of whatever can be called next is the end of its stack.
LEMMA LuaSourcesEndStep ==
    ASSUME LuaInv, [LuaNext]_luaVars, ~echoed'
    PROVE  LuaSourcesEnd'
<1> TypeOK /\ Structure /\ LuaSourcesEnd /\ LuaYielderEnds
  BY NotEchoedYet DEF LuaInv, LuaTypes, LuaStacks
<1>0. TypeOK' /\ coroset' \subseteq Thread
  BY LuaTypeStep DEF LuaInv, LuaTypes, TypeOK
<1> SUFFICES ASSUME NEW t \in coroset', status'[t] = "yield", ~stacked'[t],
                    \A p \in Thread : link'[p] # t
             PROVE  Ends(t, source[t], "yieldk")'
  BY DEF LuaSourcesEnd
<1>1. /\ t \in Thread /\ status[t] = "yield" /\ ~stacked[t] /\ t \in coroset
      /\ source'[t] # source[t] => t = Callee /\ LuaBackForMe
      /\ link[cur] = t => LuaBackForMe
  BY <1>0, LuaSuspendedMeta, LuaOthersStay DEF TypeOK
<1>2. PICK y \in Thread : y = source'[t] /\ Ends(t, y, "yieldk")
  <2>1. CASE link[cur] = t
    <3>1. t = Callee /\ CalleeYielded /\ ~IsRaw /\ ytag = tag[t] /\ source'[t] = yfrom
      BY <1>1, <2>1 DEF LuaBackForMe, LuaForMe, Callee, TypeOK, LuaYielder
    <3>2. ytag # RawTag
      BY <1>1, <3>1, TagAssumption DEF TypeOK
    <3>3. Ends(t, yfrom, "yieldk") /\ yfrom \in Thread
      BY <3>1, <3>2, CalleeOfCall DEF LuaYielderEnds
    <3> QED BY <3>1, <3>3
  <2>2. CASE link[cur] # t
    <3>1. \A p \in Thread : link[p] # t
      BY <2>2, LuaOthersStay
    <3>2. Ends(t, source[t], "yieldk") /\ source'[t] = source[t]
      BY <1>1, <2>2, <3>1 DEF LuaSourcesEnd, Callee
    <3>3. source[t] \in Thread
      BY <1>1, <3>2, SuspendedBelow DEF Ends
    <3> QED BY <3>2, <3>3
  <2> QED BY <2>1, <2>2
<1> QED BY <1>1, <1>2, LuaStackStays DEF Ends

\* A yield is on its way after a yield, or after callk passed one along.
LEMMA LuaYieldStep ==
    ASSUME LuaInv, [LuaNext]_luaVars, ~echoed', mode' = "back", status'[link'[cur']] = "yield"
    PROVE  \/ UNCHANGED vars
           \/ /\ \/ \E g \in Tag, v \in Payload : TcYield(g, v)
                 \/ \E v \in Payload : RawYield(v)
                 \/ LuaBackPass
              /\ link' = link /\ link'[cur'] = cur /\ cur # cur'
<1> TypeOK /\ Structure
  BY NotEchoedYet DEF LuaInv, LuaTypes, LuaStacks
<1>0. /\ cur \in Thread /\ status[cur] = "active"
      /\ mode = "run" => link[cur] = Nil
  BY DEF TypeOK, Structure, CurMatchesMode, LinkedWhileWaiting, Waiting, Calling
<1> USE ThreadAssumption DEF TypeOK, lua
<1>1. ASSUME NEW t \in Thread, NEW v \in Payload, Call(t, v)
      PROVE  FALSE
  BY <1>1 DEF Call, Resumes
<1>2. CASE \/ \E g \in Tag, v \in Payload : TcYield(g, v)
           \/ \E v \in Payload : RawYield(v)
  BY <1>0, <1>2 DEF TcYield, RawYield, Suspends, ToResumer
<1>3. CASE LuaBackPass
  <2>1. Callee # cur /\ Callee = link[cur]
    BY <1>3, CalleeOfCall DEF LuaBackPass
  <2> QED BY <1>0, <1>3, <2>1 DEF LuaBackPass, Suspends, ToResumer
<1>4. ASSUME (\E v \in Payload : Return(v)) \/ Die
      PROVE  FALSE
  <2>1. status'[cur] \in {"done", "err"} /\ link'[cur'] = cur
    BY <1>0, <1>4 DEF Return, Die, ToResumer
  <2> QED BY <2>1
<1>5. CASE SharedProgram
  BY <1>2, <1>4, <1>5
  DEF SharedProgram, Cocreate, CreateUntagged, RawResume, YieldRefused, Throw, Catch, MainEnds,
      EnterC, LeaveC, Resumes
<1>6. CASE SharedLibrary
  BY <1>6 DEF SharedLibrary, BackOK, BackErr, ContPlain, ContYieldk
<1>7. CASE LuaBackForMe \/ LuaBackRefused \/ LuaRawBack \/ LuaContPassk
  BY <1>7 DEF LuaBackForMe, LuaBackRefused, LuaRawBack, LuaContPassk, Resumes
<1>8. CASE UNCHANGED luaVars
  BY <1>8 DEF luaVars
<1> QED BY <1>1, <1>2, <1>3, <1>5, <1>6, <1>7, <1>8, SharedSteps, NotEchoedYet DEF Shared

\* A tagged yield on its way comes from the end of the callee's stack, and has passed
\* nobody who has its tag.
LEMMA LuaYielderEndsStep ==
    ASSUME LuaInv, [LuaNext]_luaVars, ~echoed'
    PROVE  LuaYielderEnds'
<1> TypeOK /\ Structure /\ LuaYielderEnds
  BY NotEchoedYet DEF LuaInv, LuaTypes, LuaStacks
<1>0. /\ TypeOK' /\ Structure' /\ cur \in Thread /\ status[cur] = "active"
      /\ Steps(link) /\ Steps(link') /\ frame \in [Thread -> Frame]
  BY LuaTypeStep, LuaStructureStep DEF LuaInv, LuaTypes, TypeOK, Structure, CurMatchesMode, Steps
<1>1. CASE UNCHANGED vars
  <2>1. StackOf(Callee)' = StackOf(Callee)
    BY <1>1 DEF vars, StackOf, Callee
  <2> QED BY <1>1, <2>1 DEF vars, LuaYielderEnds, CalleeYielded, InAuxcallk, Callee, Ends, IsRaw
<1>2. CASE ~UNCHANGED vars
  <2> SUFFICES ASSUME mode' = "back", status'[link'[cur']] = "yield"
               PROVE  LuaYielderEnds'
    BY DEF LuaYielderEnds, CalleeYielded, InAuxcallk, Callee
  <2>1. PICK c \in Thread : c = cur
    BY <1>0
  <2>2. link' = link /\ link'[cur'] = c /\ cur # cur' /\ Callee' = c
    BY <1>2, <2>1, LuaYieldStep DEF Callee
  <2>3. ASSUME NEW g \in Tag, NEW v \in Payload, TcYield(g, v)
        PROVE  LuaYielderEnds'
    <3>1. link[c] = Nil /\ frame'[c] = "yieldk" /\ ytag' = g /\ yfrom' = c /\ g # RawTag
      BY <1>0, <2>1, <2>3, TagAssumption
      DEF TcYield, Suspends, Structure, CurMatchesMode, LinkedWhileWaiting, Waiting, Calling
    <3>2. StackOf(c)' = {c}
      BY <1>0, <2>2, <3>1, WalkEnds DEF StackOf
    <3>3. Ends(c, c, "yieldk")'
      BY <3>1, <3>2 DEF Ends
    <3> QED BY <2>2, <3>1, <3>2, <3>3 DEF LuaYielderEnds, Ends
  <2>4. ASSUME NEW v \in Payload, RawYield(v)
        PROVE  LuaYielderEnds'
    <3>1. frame'[c] = "uyield"
      BY <1>0, <2>1, <2>4 DEF RawYield, Suspends
    <3> QED BY <2>2, <3>1 DEF LuaYielderEnds, IsRaw
  <2>5. CASE LuaBackPass
    <3>1. frame'[c] = "passk" /\ tag' = tag /\ CalleeYielded
      BY <1>0, <2>1, <2>5 DEF LuaBackPass, Suspends
    <3>2. CASE c \notin coroset
      <4>1. c \notin coroset'
        BY <2>5, <3>2 DEF LuaBackPass
      <4>2. frame'[cur'] \notin {"call", "callk"}
        BY <1>0, <2>2, <4>1, ThreadAssumption DEF Structure, CalleeMatchesFrame, TypeOK
      <4> QED BY <2>2, <3>1, <4>2 DEF LuaYielderEnds, CalleeYielded, InAuxcallk
    <3>3. CASE c \in coroset /\ IsRaw
      <4>1. ytag' = RawTag
        BY <2>1, <2>5, <3>3 DEF LuaBackPass, SetsOut
      <4> QED BY <2>2, <3>1, <4>1 DEF LuaYielderEnds
    <3>4. CASE ~IsRaw /\ ytag = RawTag
      <4>1. ytag' = RawTag
        BY <2>5, <3>4 DEF LuaBackPass, inflight
      <4> QED BY <2>2, <3>1, <4>1 DEF LuaYielderEnds
    <3>5. CASE ~IsRaw /\ ytag # RawTag
      <4>1. PICK y \in Thread, d \in Thread, g \in Tag :
               /\ y = yfrom /\ d = Callee /\ d = link[c] /\ g = ytag /\ status[d] = "yield"
        BY <2>1, <3>1, <3>5, CalleeOfCall
      <4>2. ytag' = g /\ yfrom' = y /\ tag[d] # g
        BY <2>5, <3>5, <4>1 DEF LuaBackPass, inflight, LuaForMe
      <4>3. StackOf(c)' = {c} \cup StackOf(d)'
        BY <1>0, <2>2, <4>1, WalkFirst, ThreadAssumption DEF StackOf
      <4>4. StackOf(d)' = StackOf(d) /\ c \notin StackOf(d)
        BY <1>0, <2>1, <4>1, LuaStackStays, CurNotBelow
      <4>5. Ends(d, y, "yieldk") /\ \A q \in StackOf(d) \ {d} : tag[q] # g
        BY <3>1, <3>5, <4>1 DEF LuaYielderEnds
      <4>6. y \in StackOf(d) /\ frame'[y] = "yieldk" /\ \A q \in StackOf(d) \ {y} : frame'[q] = "passk"
        BY <4>1, <4>5, LuaStackStays DEF Ends
      <4>7. Ends(c, y, "yieldk")'
        BY <3>1, <4>3, <4>4, <4>6 DEF Ends
      <4>8. \A q \in StackOf(c)' \ {c} : tag'[q] # g
        BY <3>1, <4>2, <4>3, <4>4, <4>5
      <4> QED BY <2>2, <3>1, <4>2, <4>7, <4>8 DEF LuaYielderEnds, Ends
    <3> QED BY <3>2, <3>3, <3>4, <3>5
  <2> QED BY <1>2, <2>3, <2>4, <2>5, LuaYieldStep
<1> QED BY <1>1, <1>2

\* The dead stay dead, and their parents stay: M.call refuses them.
LEMMA DeadKept ==
    ASSUME LuaInv, [LuaNext]_luaVars, ~echoed'
    PROVE  \A p \in Thread : NextDead[p] # Nil => NextDead'[p] = NextDead[p]
<1> TypeOK /\ Structure
  BY NotEchoedYet DEF LuaInv, LuaTypes, LuaStacks
<1>0. status[cur] = "active" /\ cur \in Thread
  BY DEF TypeOK, Structure, CurMatchesMode
<1> SUFFICES ASSUME NEW p \in Thread, p \in coroset, status[p] = "err"
             PROVE  status'[p] = "err" /\ parent'[p] = parent[p]
  BY LuaOthersStay DEF NextDead
<1>1. ASSUME NEW t \in Thread, NEW v \in Payload, Call(t, v)
      PROVE  status'[p] = "err" /\ parent'[p] = parent[p]
  BY <1>1, CalledIsFree DEF TypeOK
<1>2. CASE Shared
  <2>1. status'[p] = "err"
    BY <1>2, SharedIsNext, DeadStep
  <2>2. parent' = parent
    BY <1>2
    DEF Shared, SharedProgram, SharedLibrary, meta, luaVars, vars, Cocreate, CreateUntagged, RawResume,
        TcYield, RawYield, Return, YieldRefused, Throw, Catch, Die, MainEnds, EnterC, LeaveC, BackOK,
        BackErr, ContPlain, ContYieldk
  <2> QED BY <2>1, <2>2
<1>3. CASE LuaBackForMe \/ LuaBackPass \/ LuaRawBack
  BY <1>0, <1>3 DEF LuaBackForMe, LuaBackPass, LuaRawBack, Suspends, meta, TypeOK
<1>4. CASE LuaBackRefused \/ LuaContPassk
  <2>1. status' = [status EXCEPT ![Callee] = "active"] /\ status[Callee] # "err" /\ parent' = parent
    BY <1>4 DEF LuaBackRefused, CalleeYielded, LuaContPassk, Resumes
  <2> QED BY <2>1 DEF TypeOK
<1> QED BY <1>1, <1>2, <1>3, <1>4, SharedSteps, NotEchoedYet

\* A suspended coroutine is resumed by M.call, or by who waits for it; coroutine.resume
\* is for untagged ones.
LEMMA WhoResumes ==
    ASSUME LuaInv, [LuaNext]_luaVars, ~echoed',
           NEW t \in Thread, status[t] = "yield", \A p \in Thread : link[p] # t
    PROVE  \/ status'[t] = "yield" /\ \A p \in Thread : link'[p] # t
           \/ source'[t] = Nil
<1> TypeOK /\ Structure /\ NotCalledYet
  BY NotEchoedYet DEF LuaInv, LuaTypes, LuaStacks
<1>0. status[cur] = "active" /\ cur \in Thread
  BY DEF TypeOK, Structure, CurMatchesMode
<1> USE ThreadAssumption DEF TypeOK, lua
<1>1. ASSUME NEW co \in Thread, NEW v \in Payload, Call(co, v)
      PROVE  \/ status'[t] = "yield" /\ \A p \in Thread : link'[p] # t
             \/ source'[t] = Nil
  BY <1>1, CalledIsFree
<1>2. ASSUME NEW u \in Thread, NEW v \in Payload, RawResume(u, v)
      PROVE  \/ status'[t] = "yield" /\ \A p \in Thread : link'[p] # t
             \/ source'[t] = Nil
  <2>1. CASE u = t
    BY <1>2, <2>1 DEF RawResume, NotCalledYet, Structure, CorosetIsCreated, meta
  <2>2. CASE u # t
    BY <1>2, <2>2 DEF RawResume, Resumes
  <2> QED BY <2>1, <2>2
<1>3. CASE SharedProgram
  BY <1>0, <1>2, <1>3
  DEF SharedProgram, Cocreate, CreateUntagged, TcYield, RawYield, Return, YieldRefused, Throw, Catch,
      Die, MainEnds, EnterC, LeaveC, Suspends
<1>4. CASE SharedLibrary \/ LuaBackForMe \/ LuaRawBack
  BY <1>4 DEF SharedLibrary, BackOK, BackErr, ContPlain, ContYieldk, LuaBackForMe, LuaRawBack, LeavesFrame
<1>5. CASE LuaBackPass
  BY <1>0, <1>5 DEF LuaBackPass, Suspends
<1>6. CASE LuaBackRefused \/ LuaContPassk
  BY <1>0, <1>6 DEF LuaBackRefused, LuaContPassk, Resumes, Callee
<1>7. CASE UNCHANGED luaVars
  BY <1>7 DEF luaVars, vars
<1> QED BY <1>1, <1>3, <1>4, <1>5, <1>6, <1>7, SharedSteps, NotEchoedYet DEF Shared

\* How a source comes about.
LEMMA SourceSteps ==
    ASSUME LuaInv, [LuaNext]_luaVars, ~echoed', NEW t \in Thread, source'[t] # source[t]
    PROVE  \/ source'[t] = Nil
           \/ LuaBackForMe /\ t = Callee
           \/ BackErr /\ source'[t] = ErrorSource /\ (t = Callee \/ (t = cur /\ cur \in coroset))
<1> TypeOK /\ Structure
  BY NotEchoedYet DEF LuaInv, LuaTypes, LuaStacks
<1>1. ASSUME NEW co \in Thread, NEW v \in Payload, Call(co, v)
      PROVE  source'[t] = Nil
  BY <1>1, CalledIsFree DEF TypeOK
<1>2. CASE SharedProgram
  BY <1>2
  DEF SharedProgram, meta, Cocreate, CreateUntagged, RawResume, TcYield, RawYield, Return,
      YieldRefused, Throw, Catch, Die, MainEnds, EnterC, LeaveC
<1>3. CASE SharedLibrary
  BY <1>3 DEF SharedLibrary, BackOK, BackErr, ContPlain, ContYieldk, meta
<1>4. CASE LuaBackForMe
  BY <1>4 DEF LuaBackForMe, TypeOK
<1>5. CASE LuaBackPass \/ LuaBackRefused \/ LuaRawBack \/ LuaContPassk
  BY <1>5 DEF LuaBackPass, LuaBackRefused, LuaRawBack, LuaContPassk, meta
<1>6. CASE UNCHANGED luaVars
  BY <1>6 DEF luaVars, vars
<1> QED BY <1>1, <1>2, <1>3, <1>4, <1>5, <1>6, SharedSteps, NotEchoedYet DEF Shared

\* From every source that an error left the parents of the dead lead to it.
LEMMA DeadChainsStep ==
    ASSUME LuaInv, [LuaNext]_luaVars, ~echoed'
    PROVE  DeadChains'
<1> TypeOK /\ Structure /\ DeadChains
  BY NotEchoedYet DEF LuaInv, LuaTypes, LuaStacks
<1>0. TypeOK' /\ Steps(NextDead) /\ Steps(NextDead')
  BY LuaTypeStep DEF LuaInv, LuaTypes, TypeOK, Steps, NextDead
<1>1. ASSUME NEW s \in Thread
      PROVE  Walk(s, NextDead) \subseteq Walk(s, NextDead')
  BY <1>0, DeadKept, WalkGrows
<1> SUFFICES ASSUME NEW t \in Thread, NEW s \in Thread, s = source'[t]
             PROVE  \/ status'[t] = "yield" /\ \A p \in Thread : link'[p] # t
                    \/ t \in Walk(s, NextDead')
  BY <1>0 DEF DeadChains, TypeOK
<1>2. CASE source'[t] = source[t]
  <2>1. CASE t \in Walk(source[t], NextDead)
    BY <1>1, <1>2, <2>1
  <2>2. CASE status[t] = "yield" /\ \A p \in Thread : link[p] # t
    BY <2>2, WhoResumes, ThreadAssumption
  <2> QED BY <1>2, <2>1, <2>2, ThreadAssumption DEF DeadChains
<1>3. CASE LuaBackForMe /\ t = Callee
  BY <1>3, CalleeOfCall, ThreadAssumption DEF LuaBackForMe, LeavesFrame, TypeOK
<1>4. CASE BackErr /\ s = ErrorSource /\ (t = Callee \/ (t = cur /\ cur \in coroset))
  <2>1. /\ Callee \in Thread /\ Callee \in coroset /\ status[Callee] = "err"
        /\ parent[Callee] = cur /\ cur \in Thread
    BY <1>4, ThreadAssumption
    DEF BackErr, InAuxcallk, Callee, TypeOK, Structure, LinkedWhileWaiting, CalleeMatchesFrame,
        ParentIsResumer, Waiting, Calling
  <2>2. Callee \in Walk(s, NextDead')
    <3>1. CASE source[Callee] = Nil
      BY <1>4, <2>1, <3>1, WalkBegins DEF ErrorSource
    <3>2. CASE source[Callee] # Nil
      <4>1. s = source[Callee] /\ Callee \in Walk(s, NextDead)
        BY <1>4, <2>1, <3>2 DEF ErrorSource, DeadChains
      <4> QED BY <1>1, <4>1
    <3> QED BY <3>1, <3>2
  <2>3. NextDead'[Callee] = cur
    BY <2>1, DeadKept, ThreadAssumption DEF NextDead
  <2>4. cur \in Walk(s, NextDead')
    BY <1>0, <2>1, <2>2, <2>3, WalkGoesOn, ThreadAssumption DEF Closed
  <2> QED BY <1>4, <2>2, <2>4
<1> QED BY <1>2, <1>3, <1>4, SourceSteps, ThreadAssumption

\* Values move with control.
LEMMA LuaValuesHeldStep ==
    ASSUME LuaInv, [LuaNext]_luaVars, ~echoed'
    PROVE  LuaValuesHeld'
<1> TypeOK /\ Structure /\ LuaValuesHeld
  BY NotEchoedYet DEF LuaInv, LuaTypes, LuaStacks
<1>0. /\ cur \in Thread /\ status[cur] = "active"
      /\ mode = "run" => link[cur] = Nil
      /\ link[cur] # Nil => link[cur] \in Thread
  BY DEF TypeOK, Structure, CurMatchesMode, LinkedWhileWaiting, Waiting, Calling
<1> SUFFICES ASSUME NEW t \in Thread, stk'[t] # <<>>, status'[t] # "err"
             PROVE  /\ mode' \in {"run", "raise", "cont"} => t = cur'
                    /\ mode' = "back" => t = Callee'
  BY DEF LuaValuesHeld
<1> USE ThreadAssumption DEF TypeOK, lua
<1>d. status[t] # "err"
  <2>1. CASE Shared
    BY <2>1, SharedIsNext, DeadStep
  <2>2. ASSUME NEW co \in Thread, NEW v \in Payload, Call(co, v)
        PROVE  status[t] # "err"
    BY <2>2, CalledIsFree
  <2>3. CASE LuaBackForMe \/ LuaBackPass \/ LuaRawBack
    BY <1>0, <2>3 DEF LuaBackForMe, LuaBackPass, LuaRawBack, Suspends
  <2>4. CASE LuaBackRefused \/ LuaContPassk
    BY <1>0, <2>4 DEF LuaBackRefused, LuaContPassk, Resumes, CalleeYielded
  <2> QED BY <2>1, <2>2, <2>3, <2>4, SharedSteps, NotEchoedYet
<1>h. stk[t] # <<>> => /\ mode \in {"run", "raise", "cont"} => t = cur
                       /\ mode = "back" => t = Callee
  BY <1>d DEF LuaValuesHeld
<1>1. ASSUME NEW co \in Thread, NEW v \in Payload, Call(co, v)
      PROVE  t = cur' /\ mode' = "cont"
  BY <1>0, <1>h, <1>1 DEF Call, Resumes
<1>2. ASSUME NEW u \in Thread, NEW v \in Payload, RawResume(u, v)
      PROVE  t = cur' /\ mode' = "cont"
  BY <1>0, <1>h, <1>2 DEF RawResume, Resumes
<1>3. ASSUME \/ \E g \in Tag, v \in Payload : TcYield(g, v)
             \/ \E v \in Payload : RawYield(v) \/ Return(v)
      PROVE  t = Callee' /\ mode' = "back"
  BY <1>0, <1>h, <1>3 DEF TcYield, RawYield, Return, Suspends, ToResumer, Callee
<1>4. CASE Die
  BY <1>0, <1>h, <1>4 DEF Die, ToResumer
<1>5. CASE \/ \E co \in Thread, g \in Tag : Cocreate(co, g)
           \/ \E co \in Thread : CreateUntagged(co)
           \/ YieldRefused \/ Throw \/ MainEnds \/ EnterC \/ LeaveC
  <2>1. stk' = [stk EXCEPT ![cur] = <<>>] /\ mode \in {"run", "raise"}
    BY <1>5 DEF Cocreate, CreateUntagged, YieldRefused, Throw, MainEnds, EnterC, LeaveC, Consumes
  <2> QED BY <1>0, <1>h, <2>1
<1>6. CASE Catch
  BY <1>0, <1>h, <1>6 DEF Catch
<1>7. CASE SharedProgram
  BY <1>2, <1>3, <1>4, <1>5, <1>6, <1>7 DEF SharedProgram
<1>8. CASE BackOK \/ BackErr
  <2>1. mode = "back" /\ mode' \in {"run", "raise"} /\ cur' = cur /\ Callee \in Thread
    BY <1>0, <1>8
    DEF BackOK, BackErr, InAuxcallk, Callee, Structure, LinkedWhileWaiting, Waiting, Calling
  <2>2. t # cur => stk'[t] = IF t = Callee THEN <<>> ELSE stk[t]
    BY <1>0, <1>8, <2>1 DEF BackOK, BackErr, Moves, Overflows
  <2> QED BY <1>h, <2>1, <2>2
<1>9. CASE LuaBackForMe \/ LuaRawBack
  <2>1. mode = "back" /\ mode' = "run" /\ cur' = cur /\ Callee \in Thread
    BY <1>0, <1>9
    DEF LuaBackForMe, LuaRawBack, CalleeYielded, InAuxcallk, Callee, Structure, LinkedWhileWaiting,
        Waiting, Calling
  <2>2. t # cur => stk'[t] = IF t = Callee THEN <<>> ELSE stk[t]
    BY <1>0, <1>9, <2>1 DEF LuaBackForMe, LuaRawBack, Moves
  <2> QED BY <1>h, <2>1, <2>2
<1>10. CASE ContPlain \/ ContYieldk
  <2>1. mode = "cont" /\ cur' = cur /\ mode' \in {"run", "raise"} /\ (t # cur => stk'[t] = stk[t])
    BY <1>10 DEF ContPlain, ContYieldk, Consumes
  <2> QED BY <1>h, <2>1
<1>11. CASE LuaBackPass
  <2>1. mode = "back" /\ mode' = "back" /\ Callee \in Thread /\ Callee' = cur
    BY <1>0, <1>11, CalleeOfCall DEF LuaBackPass, Suspends, ToResumer, Callee
  <2>2. t # cur => stk'[t] = IF t = Callee THEN <<>> ELSE stk[t]
    BY <1>0, <1>11, <2>1 DEF LuaBackPass, Moves
  <2> QED BY <1>h, <2>1, <2>2
<1>12. CASE LuaBackRefused
  <2>1. mode = "back" /\ mode' = "cont" /\ cur' = Callee /\ (t # Callee => stk'[t] = stk[t])
    BY <1>12 DEF LuaBackRefused, CalleeYielded, InAuxcallk, Resumes
  <2> QED BY <1>h, <2>1
<1>13. CASE LuaContPassk
  <2>1. mode = "cont" /\ mode' = "cont" /\ cur' = Callee
    BY <1>13 DEF LuaContPassk, Resumes
  <2>2. t # Callee => stk'[t] = IF t = cur THEN <<>> ELSE stk[t]
    BY <1>0, <1>13 DEF LuaContPassk
  <2> QED BY <1>h, <2>1, <2>2
<1>14. CASE UNCHANGED luaVars
  BY <1>h, <1>14 DEF luaVars, vars, Callee
<1> QED BY <1>1, <1>7, <1>8, <1>9, <1>10, <1>11, <1>12, <1>13, <1>14, SharedSteps, NotEchoedYet
        DEF Shared, SharedLibrary

-----------------------------------------------------------------------------
\* The inductive invariant of the Lua version: until line 110 suspends a coroutine the
\* stacks, their parents, sources, saved flags and values are as described above, and
\* the types are right in any case.
LEMMA LuaStep == LuaInv /\ [LuaNext]_luaVars => LuaInv'
<1> SUFFICES ASSUME LuaInv, [LuaNext]_luaVars PROVE LuaInv'
  OBVIOUS
<1>1. LuaTypes' /\ Waits'
  BY LuaTypeStep DEF LuaInv
<1>2. ~echoed' => LuaStacks'
  BY LuaStructureStep, NobodyEchoedStep, LuaNotCalledYetStep, SavedYieldableStep,
     LuaSourcesEndStep, LuaYielderEndsStep, DeadChainsStep, LuaValuesHeldStep DEF LuaStacks
<1> QED BY <1>1, <1>2 DEF LuaInv

\* The inductive invariant: types, and until line 110 has suspended a coroutine the
\* structure, stacks, sources, saved flags and values of the Lua version fit together.
THEOREM LuaInvariant == LuaSpec => []LuaInv
BY LuaInitOK, LuaStep, PTL DEF LuaSpec

\* taggedcoro.lua keeps who waits for whom, the parents and the stacked flags in order
\* whatever the program does, and every variable has its type.
THEOREM LuaStructureHolds == LuaSpec => []LuaStructure
<1>1. LuaInv => LuaStructure
  BY DEF LuaInv, LuaTypes, LuaStacks, LuaStructure
<1> QED BY <1>1, LuaInvariant, PTL

\* meta.source of a suspended coroutine is where the yield came from, for a call that
\* returned what was yielded, at the end of the stack that a call will rewind.
THEOREM LuaSourceYielded == LuaSpec => []LuaSourceIsYielder
<1>1. ASSUME LuaInv, ~echoed, Idle, NEW t \in coroset, status[t] = "yield", ~stacked[t]
      PROVE  Ends(t, source[t], "yieldk")
  <2>1. TypeOK /\ Structure /\ LuaSourcesEnd
    BY <1>1 DEF LuaInv, LuaTypes, LuaStacks
  <2>2. \A p \in Thread : link[p] # t
    <3> SUFFICES ASSUME NEW p \in Thread, link[p] = t PROVE FALSE
      OBVIOUS
    <3>1. link[p] # Nil /\ frame[p] \in Waiting
      BY <2>1, ThreadAssumption DEF TypeOK, Structure, LinkedWhileWaiting
    <3>2. frame[p] \in Calling
      BY <1>1, <2>1, <3>1 DEF Structure, CalleeMatchesFrame, Waiting
    <3> QED BY <1>1, <2>1, <3>1, <3>2 DEF Idle, Structure, CalleeMatchesFrame
  <2> QED BY <1>1, <2>1, <2>2 DEF LuaSourcesEnd
<1>2. LuaInv => LuaSourceIsYielder
  BY <1>1 DEF LuaSourceIsYielder, SourceIsYielder, Cosource, Ends
<1> QED BY <1>2, LuaInvariant, PTL

\* A coroutine that died of an error is on its own traceback, wherever that starts.
THEOREM LuaDeadTraceback == LuaSpec => []LuaDeadTracebackComplete
<1>1. ASSUME LuaInv, ~echoed, NEW t \in coroset, status[t] = "err"
      PROVE  t \in Traceback(t)
  <2>1. TypeOK /\ DeadChains /\ t \in Thread /\ Steps(NextTraced)
    BY <1>1 DEF LuaInv, LuaTypes, LuaStacks, TypeOK, Steps, NextTraced
  <2>2. CASE source[t] = Nil
    BY <2>1, <2>2, WalkBegins DEF Traceback, TraceStart
  <2>3. CASE source[t] # Nil
    <3>1. PICK s \in Thread : s = source[t]
      BY <2>1, <2>3 DEF TypeOK
    <3>2. t \in Walk(s, NextDead)
      BY <1>1, <2>1, <2>3, <3>1 DEF DeadChains
    <3>3. \A p \in Thread : NextDead[p] # Nil => NextTraced[p] = NextDead[p]
      BY DEF NextDead, NextTraced
    <3>4. Walk(s, NextDead) \subseteq Walk(s, NextTraced)
      BY <2>1, <3>3, WalkGrows
    <3> QED BY <1>1, <2>3, <3>1, <3>2, <3>4 DEF Traceback, TraceStart
  <2> QED BY <2>2, <2>3
<1>2. LuaInv => LuaDeadTracebackComplete
  BY <1>1 DEF LuaDeadTracebackComplete, DeadTracebackComplete
<1> QED BY <1>2, LuaInvariant, PTL

-----------------------------------------------------------------------------
(* What M.isyieldable says.                                                *)

LEMMA LuaAskedSteps ==
    ASSUME TypeOK, NEW g
    PROVE  Steps(LuaNextAsked(g))
BY DEF TypeOK, Steps, LuaNextAsked

LEMMA LuaYielderIsEnd ==
    ASSUME TypeOK, Structure, LuaYielderEnds, CalleeYielded, ~IsRaw, ytag # RawTag
    PROVE  /\ Callee \in Thread /\ Callee \in coroset /\ status[Callee] = "yield"
           /\ yfrom \in StackOf(Callee) /\ yfrom \in Thread /\ link[yfrom] = Nil
           /\ \A q \in StackOf(Callee) \ {yfrom} : frame[q] = "passk"
           /\ \A q \in StackOf(Callee) \ {Callee} : tag[q] # ytag
<1>1. Callee \in Thread /\ Callee \in coroset /\ status[Callee] = "yield" /\ yfrom \in Thread
  BY CalleeOfCall
<1>2. Ends(Callee, yfrom, "yieldk") /\ \A q \in StackOf(Callee) \ {Callee} : tag[q] # ytag
  BY DEF LuaYielderEnds
<1> QED BY <1>1, <1>2 DEF Ends, Structure, LinkedWhileWaiting, Waiting, Calling

\* Who takes a yield is who the walk of M.isyieldable from its yielder finds: what the
\* calls on the way have saved says that all that pass the yield along can.
LEMMA LuaTakerIsFound ==
    ASSUME TypeOK, Structure, SavedYieldable, LuaYielderEnds,
           CalleeYielded, ~IsRaw, ytag # RawTag, LuaForMe
    PROVE  LuaHandler(yfrom, ytag, Callee)
<1> DEFINE W == Walk(yfrom, LuaNextAsked(ytag))
           S == StackOf(Callee)
<1>1. /\ Callee \in Thread /\ Callee \in coroset /\ status[Callee] = "yield"
      /\ yfrom \in S /\ yfrom \in Thread /\ link[yfrom] = Nil
      /\ \A q \in S \ {yfrom} : frame[q] = "passk"
      /\ \A q \in S \ {Callee} : tag[q] # ytag
  BY LuaYielderIsEnd
<1>2. /\ Closed(W, LuaNextAsked(ytag)) /\ yfrom \in W
      /\ Closed(S, link) /\ S \subseteq Thread /\ Callee \in S
  BY <1>1, LuaAskedSteps, LinkSteps, WalkBegins, WalkGoesOn DEF StackOf
<1>3. ASSUME Callee \notin W
      PROVE  FALSE
  <2>1. ASSUME NEW p \in S \ W, link[p] # Nil, link[p] \in W
        PROVE  FALSE
    <3>1. PICK q \in S : q = link[p] /\ q # Callee /\ p # yfrom
      BY <1>2, <1>3, <2>1 DEF Closed
    <3>2. frame[p] = "passk" /\ q \in coroset /\ p \in Thread /\ q \in Thread
      BY <1>1, <1>2, <2>1, <3>1 DEF Structure, CalleeMatchesFrame
    <3>3. tag[q] # ytag /\ parent[q] = p
      BY <1>1, <3>1, <3>2 DEF Structure, ParentIsResumer
    <3>4. parentYieldable[q]
      <4>1. status[p] = "yield"
        BY <1>1, SuspendedBelow
      <4> QED BY <3>1, <3>2, <4>1 DEF Yieldable, SavedYieldable, Structure, CurMatchesMode
    <3>5. LuaNextAsked(ytag)[q] = p /\ p # Nil
      BY <3>2, <3>3, <3>4, ThreadAssumption DEF LuaNextAsked
    <3> QED BY <1>2, <2>1, <3>1, <3>5 DEF Closed
  <2>2. Closed(S \ W, link)
    BY <1>2, <2>1 DEF Closed
  <2>3. S \subseteq S \ W
    BY <1>1, <1>2, <1>3, <2>2, WalkStays DEF StackOf
  <2> QED BY <1>1, <1>2, <2>3
<1> QED BY <1>1, <1>3 DEF LuaHandler, LuaForMe

\* When a yield is refused, that walk finds nobody.
LEMMA LuaNobodyIsFound ==
    ASSUME TypeOK, Structure, SavedYieldable, LuaYielderEnds,
           CalleeYielded, ~IsRaw, ytag # RawTag, LuaRefused, NEW h \in Thread
    PROVE  ~LuaHandler(yfrom, ytag, h)
<1> DEFINE S == StackOf(Callee)
           V == S \cup {p \in {cur} : Yieldable(p)}
<1>1. /\ Callee \in Thread /\ cur \in Thread /\ coroset \subseteq Thread /\ Callee \in coroset
      /\ yfrom \in Thread /\ yfrom \in S /\ \A q \in S \ {Callee} : tag[q] # ytag
  BY LuaYielderIsEnd DEF TypeOK
<1>2. ~(Yieldable(cur) /\ cur \in coroset) /\ tag[Callee] # ytag
  BY DEF LuaRefused, LuaForMe
<1>3. \A q \in S : tag[q] # ytag
  BY <1>1, <1>2
<1>4. S \subseteq Thread
  BY <1>1, WalkBegins DEF StackOf
<1>5. ASSUME NEW p \in V, LuaNextAsked(ytag)[p] # Nil
      PROVE  LuaNextAsked(ytag)[p] \in V
  <2>1. p \in Thread /\ p \in coroset /\ parentYieldable[p] /\ LuaNextAsked(ytag)[p] = parent[p]
    BY <1>1, <1>4, <1>5 DEF LuaNextAsked
  <2>2. p \in S
    BY <1>2, <2>1
  <2>3. CASE p = Callee
    <3>1. parent[p] = cur /\ Yieldable(cur)
      BY <1>1, <2>1, <2>3 DEF Structure, ParentIsResumer, Callee, SavedYieldable
    <3> QED BY <2>1, <3>1
  <2>4. CASE p # Callee
    <3>1. PICK q \in S : link[q] = p
      BY <1>1, <2>2, <2>4, LinkSteps, WalkReaches DEF StackOf
    <3>2. parent[p] = q
      BY <1>4, <2>1, <3>1 DEF Structure, ParentIsResumer
    <3> QED BY <2>1, <3>2
  <2> QED BY <2>3, <2>4
<1>6. Walk(yfrom, LuaNextAsked(ytag)) \subseteq V
  <2>1. V \in SUBSET Thread /\ yfrom \in V
    BY <1>1, <1>4
  <2>2. Closed(V, LuaNextAsked(ytag))
    BY <1>5 DEF Closed
  <2> HIDE DEF V
  <2> QED BY <1>1, <2>1, <2>2, WalkStays
<1> QED BY <1>2, <1>3, <1>6 DEF LuaHandler

\* A tagged yield goes where M.isyieldable, asked by its yielder, says, although that
\* looks at flags that were saved when the coroutines were called.
THEOREM LuaYieldGoesRight == LuaSpec => []LuaYieldGoesWhereIsyieldableSays
<1>1. LuaInv => LuaYieldGoesWhereIsyieldableSays
  <2> SUFFICES ASSUME LuaInv, ~echoed
               PROVE  LuaYieldGoesWhereIsyieldableSays
    BY DEF LuaYieldGoesWhereIsyieldableSays
  <2>1. TypeOK /\ Structure /\ SavedYieldable /\ LuaYielderEnds
    BY DEF LuaInv, LuaTypes, LuaStacks
  <2>2. ASSUME mode = "back", frame[cur] = "raw", status[Callee] = "yield", frame[Callee] = "yieldk",
               NEW h \in Thread
        PROVE  ~LuaHandler(Callee, ytag, h)
    <3>1. Callee \in Thread /\ Callee \notin coroset
      BY <2>1, <2>2, ThreadAssumption
      DEF TypeOK, Callee, Structure, CalleeMatchesFrame, CorosetIsCreated, LinkedWhileWaiting,
          Waiting, Calling
    <3>2. LuaNextAsked(ytag)[Callee] = Nil
      BY <3>1 DEF LuaNextAsked
    <3>3. Walk(Callee, LuaNextAsked(ytag)) = {Callee}
      BY <3>1, <3>2, WalkEnds
    <3> QED BY <3>1, <3>3 DEF LuaHandler
  <2> QED BY <2>1, <2>2, LuaTakerIsFound, LuaNobodyIsFound DEF LuaYieldGoesWhereIsyieldableSays
<1> QED BY <1>1, LuaInvariant, PTL

-----------------------------------------------------------------------------
(* The refinement of NestedCoro, until line 110 suspends a coroutine.      *)

\* An untagged yield that others have passed comes from the end of the stack.
LuaRawYieldEnds ==
    mode = "back" /\ status[Callee] = "yield" /\ frame[Callee] = "passk"
          /\ (frame[cur] = "raw" \/ ytag = RawTag)
       => \E y \in Thread : Ends(Callee, y, "uyield")

LuaChains ==
    /\ OneRunningStack /\ HasPaths(link)
    /\ PendingC /\ UntaggedTags
    /\ LuaRawYieldEnds

\* What every step of the Lua version does to the stacks is what one of the C version
\* does.
LEMMA LuaStepKinds ==
    ASSUME LuaInv, [LuaNext]_luaVars, ~echoed'
    PROVE  \/ StacksStay
           \/ \E co \in Thread : Calls(co) \/ CallsDead(co)
           \/ CallReturns
           \/ GivesBack
<1> TypeOK /\ Structure
  BY NotEchoedYet DEF LuaInv, LuaTypes, LuaStacks
<1>1. CASE Shared
  BY <1>1, SharedIsNext, StepKinds
<1>2. ASSUME NEW t \in Thread, NEW v \in Payload, Call(t, v)
      PROVE  Calls(t)
  BY <1>2, CalledIsFree DEF Call, Calls, Calling
<1>3. CASE LuaBackForMe \/ LuaRawBack
  BY <1>3 DEF LuaBackForMe, LuaRawBack, CalleeYielded, InAuxcallk, CallReturns
<1>4. CASE LuaBackPass
  BY <1>4 DEF LuaBackPass, CalleeYielded, InAuxcallk, Yieldable, Suspends, GivesBack, TypeOK
<1>5. CASE LuaBackRefused
  <2>1. /\ mode = "back" /\ status[Callee] = "yield" /\ Callee \in Thread /\ link[cur] = Callee
    BY <1>5, CalleeOfCall DEF LuaBackRefused
  <2>2. Calls(Callee)
    BY <1>5, <2>1 DEF LuaBackRefused, Calls, Calling
  <2> QED BY <2>1, <2>2
<1>6. CASE LuaContPassk
  <2>1. status[Callee] \in {"new", "yield"} /\ link[cur] = Callee /\ link[cur] # Nil
    BY <1>6 DEF LuaContPassk, Callee, Structure, LinkedWhileWaiting, Waiting, TypeOK
  <2>2. Callee \in Thread
    BY <2>1 DEF TypeOK
  <2>3. Calls(Callee)
    BY <1>6, <2>1 DEF LuaContPassk, Calls, Calling
  <2> QED BY <2>2, <2>3
<1> QED BY <1>1, <1>2, <1>3, <1>4, <1>5, <1>6, SharedSteps, NotEchoedYet

\* As in the C version nothing yields over a C call.
LEMMA LuaPendingCStep ==
    ASSUME LuaInv, [LuaNext]_luaVars, ~echoed', PendingC
    PROVE  PendingC'
<1> TypeOK /\ Structure
  BY NotEchoedYet DEF LuaInv, LuaTypes, LuaStacks
<1>0. cur \in Thread /\ status[cur] = "active" /\ \A t \in Thread : status[t] # "active" => ~ccall[t] /\ t # Main
  BY DEF TypeOK, Structure, CurMatchesMode, PendingC
<1>1. CASE Shared
  BY <1>1, SharedIsNext, PendingCStep
<1>2. ASSUME NEW t \in Thread, NEW v \in Payload, Call(t, v)
      PROVE  PendingC'
  <2>1. status[t] # "active" /\ t # cur
    BY <1>2, CalledIsFree
  <2> QED BY <1>0, <1>2, <2>1, CalledIsFree DEF PendingC, TypeOK
<1>3. CASE LuaBackForMe \/ LuaRawBack
  BY <1>3 DEF LuaBackForMe, LuaRawBack, LeavesFrame, PendingC, TypeOK
<1>4. CASE LuaBackPass
  BY <1>4 DEF LuaBackPass, Suspends, ToResumer, Yieldable, PendingC, TypeOK
<1>5. CASE LuaBackRefused \/ LuaContPassk
  <2>1. Callee \in Thread /\ status[Callee] # "active" /\ Callee # cur
    <3>1. CASE LuaBackRefused
      BY <3>1, CalleeOfCall DEF LuaBackRefused
    <3>2. CASE LuaContPassk
      BY <1>0, <3>2 DEF LuaContPassk, Callee, Structure, LinkedWhileWaiting, Waiting, TypeOK
    <3> QED BY <1>5, <3>1, <3>2
  <2>2. Resumes(Callee, "call") /\ ccall' = ccall
    BY <1>5 DEF LuaBackRefused, LuaContPassk
  <2> QED BY <1>0, <2>1, <2>2 DEF Resumes, PendingC, TypeOK
<1> QED BY <1>1, <1>2, <1>3, <1>4, <1>5, SharedSteps, NotEchoedYet

\* Tags are in the metadata of tagged coroutines, which the Lua version makes as the C
\* version does.
LEMMA LuaUntaggedTagsStep ==
    ASSUME LuaInv, [LuaNext]_luaVars, ~echoed', UntaggedTags
    PROVE  UntaggedTags'
<1> TypeOK /\ Structure
  BY NotEchoedYet DEF LuaInv, LuaTypes, LuaStacks
<1>1. CASE Shared
  BY <1>1, SharedIsNext, UntaggedTagsStep
<1>2. CASE \/ \E t \in Thread, v \in Payload : Call(t, v)
           \/ LuaBackForMe \/ LuaBackPass \/ LuaBackRefused \/ LuaRawBack \/ LuaContPassk
  <2>1. coroset' = coroset /\ tag' = tag
    BY <1>2 DEF Call, LuaBackForMe, LuaBackPass, LuaBackRefused, LuaRawBack, LuaContPassk, meta
  <2> QED BY <2>1 DEF UntaggedTags
<1> QED BY <1>1, <1>2, SharedSteps, NotEchoedYet

\* An untagged yield sets out from a callee, and goes on as it set out.
LEMMA LuaRawYieldEndsStep ==
    ASSUME LuaInv, [LuaNext]_luaVars, ~echoed', LuaRawYieldEnds
    PROVE  LuaRawYieldEnds'
<1> TypeOK /\ Structure /\ LuaYielderEnds
  BY NotEchoedYet DEF LuaInv, LuaTypes, LuaStacks
<1>0. /\ TypeOK' /\ Structure' /\ cur \in Thread /\ status[cur] = "active"
      /\ Steps(link) /\ Steps(link') /\ frame \in [Thread -> Frame]
  BY LuaTypeStep, LuaStructureStep DEF LuaInv, LuaTypes, TypeOK, Steps, Structure, CurMatchesMode
<1>1. CASE UNCHANGED vars
  <2>1. StackOf(Callee)' = StackOf(Callee)
    BY <1>1 DEF vars, StackOf, Walk, Closed, Callee
  <2> QED BY <1>1, <2>1 DEF vars, LuaRawYieldEnds, Callee, Ends
<1>2. CASE ~UNCHANGED vars
  <2> SUFFICES ASSUME mode' = "back", status'[link'[cur']] = "yield", frame'[link'[cur']] = "passk",
                      frame'[cur'] = "raw" \/ ytag' = RawTag
               PROVE  LuaRawYieldEnds'
    BY DEF LuaRawYieldEnds, Callee
  <2>1. PICK c \in Thread : c = cur
    BY <1>0
  <2>2. link' = link /\ link'[cur'] = c /\ cur # cur' /\ Callee' = c
    BY <1>2, <2>1, LuaYieldStep DEF Callee
  <2>3. LuaBackPass
    <3>1. ~(\E g \in Tag, v \in Payload : TcYield(g, v)) /\ ~(\E v \in Payload : RawYield(v))
      BY <1>0, <2>1, <2>2 DEF TcYield, RawYield, Suspends
    <3> QED BY <1>2, <3>1, LuaYieldStep
  <2>4. PICK d \in Thread : /\ d = Callee /\ d = link[c] /\ status[d] = "yield" /\ d # c
                            /\ frame[d] \in {"yieldk", "uyield", "passk"}
    BY <2>1, <2>3, CalleeOfCall DEF LuaBackPass
  <2>5. StackOf(d)' = StackOf(d) /\ c \notin StackOf(d) /\ StackOf(c)' = {c} \cup StackOf(d)'
        /\ \A q \in StackOf(d) : frame'[q] = frame[q]
    <3>1. StackOf(d)' = StackOf(d) /\ \A q \in StackOf(d) : frame'[q] = frame[q]
      BY <2>4, LuaStackStays
    <3>2. c \notin StackOf(d)
      BY <2>1, <2>4, CurNotBelow
    <3>3. StackOf(c)' = {c} \cup StackOf(d)'
      BY <1>0, <2>2, <2>4, WalkFirst, ThreadAssumption DEF StackOf
    <3> QED BY <3>1, <3>2, <3>3
  <2>6. frame'[c] = "passk"
    BY <1>0, <2>1, <2>3 DEF LuaBackPass, Suspends
  <2>7. PICK y \in Thread : Ends(d, y, "uyield")
    <3>1. CASE frame[d] = "uyield"
      <4>1. link[d] = Nil
        BY <3>1 DEF Structure, LinkedWhileWaiting, Waiting, Calling
      <4>2. Closed({d}, link)
        BY <4>1 DEF Closed
      <4>3. StackOf(d) = {d}
        BY <1>0, <4>2, WalkStays, WalkBegins DEF StackOf
      <4> QED BY <3>1, <4>3 DEF Ends
    <3>2. CASE frame[d] # "uyield"
      <4>1. ~IsRaw /\ c \in coroset /\ ytag' = ytag /\ coroset' = coroset
        BY <2>1, <2>3, <2>4, <3>2 DEF LuaBackPass, IsRaw, inflight
      <4>2. ytag = RawTag
        <5>1. frame'[cur'] # "raw"
          BY <1>0, <2>2, <4>1, ThreadAssumption DEF Structure, CalleeMatchesFrame, CorosetIsCreated, TypeOK
        <5> QED BY <4>1, <5>1
      <4>3. mode = "back" /\ status[Callee] = "yield" /\ CalleeYielded
        BY <2>3 DEF LuaBackPass, CalleeYielded, InAuxcallk
      <4>4. frame[d] = "passk"
        BY <2>4, <3>2, <4>2, <4>3 DEF LuaYielderEnds
      <4> QED BY <2>4, <4>2, <4>3, <4>4 DEF LuaRawYieldEnds
    <3> QED BY <3>1, <3>2
  <2>8. Ends(c, y, "uyield")'
    <3>1. y \in StackOf(d) /\ frame'[y] = "uyield" /\ \A q \in StackOf(d) \ {y} : frame'[q] = "passk"
      BY <2>5, <2>7 DEF Ends
    <3> QED BY <2>5, <2>6, <3>1 DEF Ends
  <2> QED BY <2>2, <2>8 DEF LuaRawYieldEnds
<1> QED BY <1>1, <1>2

\* Every step keeps it.
LEMMA LuaChainsStep ==
    ASSUME LuaInv, [LuaNext]_luaVars, ~echoed', LuaChains
    PROVE  LuaChains'
<1> TypeOK /\ TypeOK' /\ Structure
  BY NotEchoedYet, LuaTypeStep DEF LuaInv, LuaTypes, LuaStacks
<1>1. OneRunningStack'
  BY LuaStepKinds, OneRunningStackStep DEF LuaChains
<1>2. HasPaths(link')
  BY LuaStepKinds, HasPathsStep DEF LuaChains
<1>3. HasPaths(link)' <=> HasPaths(link')
  BY DEF HasPaths, IsPath
<1> QED BY <1>1, <1>2, <1>3, LuaPendingCStep, LuaUntaggedTagsStep, LuaRawYieldEndsStep DEF LuaChains

\* It holds when the library is loaded.
LEMMA LuaChainsInit == LuaInit => LuaChains
<1> SUFFICES ASSUME LuaInit PROVE LuaChains
  OBVIOUS
<1>1. NestedInv /\ StacksInv
  BY NestedInvInit, StacksInit DEF LuaInit
<1>2. LuaRawYieldEnds
  BY DEF LuaRawYieldEnds, LuaInit, Init
<1> QED BY <1>1, <1>2 DEF LuaChains, NestedInv, StacksInv

\* What the refinement needs beyond LuaInv.
THEOREM LuaChainsInvariant == LuaSpec => [](echoed \/ LuaChains)
<1>1. LuaInit => LuaInv /\ (echoed \/ LuaChains)
  BY LuaInitOK, LuaChainsInit
<1>2. LuaInv /\ (echoed \/ LuaChains) /\ [LuaNext]_luaVars => LuaInv' /\ (echoed' \/ LuaChains')
  BY LuaStep, LuaChainsStep, NotEchoedYet
<1> QED BY <1>1, <1>2, PTL DEF LuaSpec

-----------------------------------------------------------------------------
(* Tracebacks of the running coroutine.                                    *)

\* A walk has one end.
LEMMA WalkHasOneEnd ==
    ASSUME NEW t \in Thread, NEW next, Steps(next),
           NEW c \in Walk(t, next), next[c] = Nil, NEW d \in Walk(t, next), next[d] = Nil
    PROVE  c = d
<1> DEFINE S == {p \in Walk(t, next) : c \in Walk(p, next)}
<1>1. Walk(t, next) \subseteq Thread /\ t \in Walk(t, next) /\ Closed(Walk(t, next), next)
  BY WalkBegins, WalkGoesOn
<1>2. ASSUME NEW p \in S, next[p] # Nil
      PROVE  next[p] \in S
  <2>1. p \in Thread /\ p # c /\ Walk(p, next) = {p} \cup Walk(next[p], next)
    BY <1>1, <1>2, WalkFirst
  <2> QED BY <1>1, <1>2, <2>1 DEF Closed
<1>3. Walk(t, next) \subseteq S
  BY <1>1, <1>2, WalkStays DEF Closed
<1>4. c \in Walk(d, next)
  BY <1>3
<1> QED BY <1>1, <1>4, WalkEnds

\* A traceback of the running coroutine lists it and its callers up to the main thread
\* or an untagged coroutine, also when it starts at the source of an error that the
\* coroutine has caught: between that source and the coroutine all are dead.
THEOREM LuaTracebackIsRight == LuaSpec => []LuaTracebackListsCallers
<1>1. ASSUME LuaInv, ~echoed, LuaChains
      PROVE  ListsCallers(Traceback(cur))
  <2> DEFINE callers == Walk(cur, NextTraced)
  <2>1. TypeOK /\ Structure /\ NotCalledYet /\ DeadChains /\ OneRunningStack
    BY <1>1 DEF LuaInv, LuaTypes, LuaStacks, LuaChains
  <2>2. /\ cur \in callers
        /\ \A t \in callers :
              /\ t \in Thread /\ status[t] = "active" /\ cur \in StackOf(t)
              /\ t \in coroset \ {Main} => Coparent(t) \in callers /\ link[Coparent(t)] = t
        /\ callers \cap (Untagged \cup {Main}) # {}
    BY <2>1, CallersListed
  <2>3. /\ Steps(NextTraced) /\ Steps(NextDead) /\ cur \in Thread /\ status[cur] = "active"
        /\ \A p \in Thread : NextDead[p] # Nil => NextTraced[p] = NextDead[p]
    BY <2>1 DEF TypeOK, Structure, CurMatchesMode, Steps, NextTraced, NextDead
  <2> HIDE DEF callers
  <2>4. CASE TraceStart(cur) = cur
    BY <2>2, <2>4 DEF ListsCallers, Traceback, callers
  <2>5. CASE TraceStart(cur) # cur
    <3>1. PICK s \in Thread : s = source[cur] /\ s = TraceStart(cur) /\ source[cur] # Nil
      BY <2>1, <2>3, <2>5 DEF TraceStart, TypeOK
    <3> DEFINE dead == Walk(s, NextDead)
               listed == Walk(s, NextTraced)
               E == {t \in dead : status[t] = "err"} \cup callers
    <3>2. cur \in dead /\ NextDead[cur] = Nil
      BY <2>1, <2>3, <3>1 DEF DeadChains, NextDead
    <3>3. s \in dead /\ dead \subseteq Thread /\ Closed(dead, NextDead)
      BY <2>3, WalkBegins, WalkGoesOn
    <3>4. ASSUME NEW t \in dead
          PROVE  t \in E
      <4>1. CASE NextDead[t] = Nil
        <5>1. t = cur
          BY <2>3, <3>2, <4>1, WalkHasOneEnd
        <5> QED BY <2>2, <5>1
      <4>2. CASE NextDead[t] # Nil
        BY <3>3, <4>2 DEF NextDead
      <4> QED BY <4>1, <4>2
    <3>5. Closed(callers, NextTraced)
      BY <2>3, WalkGoesOn DEF callers
    <3>6. ASSUME NEW t \in E, NextTraced[t] # Nil
          PROVE  NextTraced[t] \in E
      <4>1. CASE t \in callers
        BY <3>5, <3>6, <4>1 DEF Closed
      <4>2. CASE t \in dead /\ status[t] = "err"
        <5>1. NextDead[t] = NextTraced[t]
          BY <3>3, <4>2 DEF NextDead, NextTraced
        <5> QED BY <3>3, <3>4, <3>6, <4>2, <5>1 DEF Closed
      <4> QED BY <3>6, <4>1, <4>2
    <3>7. E \subseteq Thread /\ Closed(E, NextTraced)
      BY <2>2, <3>3, <3>6 DEF Closed
    <3>8. listed \subseteq E
      BY <3>3, <3>4, <3>7, WalkStays
    <3>9. cur \in listed
      BY <2>3, <3>2, WalkGrows
    <3>10. callers \subseteq listed
      BY <2>3, <3>9, WalkWithin DEF callers
    <3>11. Traceback(cur) = listed
      BY <3>1 DEF Traceback
    <3> HIDE DEF listed, dead
    <3>12. \A t \in listed :
              \/ status[t] = "err"
              \/ /\ status[t] = "active" /\ cur \in StackOf(t)
                 /\ t \in coroset \ {Main} => Coparent(t) \in listed /\ link[Coparent(t)] = t
      BY <2>2, <3>8, <3>10
    <3> QED BY <2>2, <3>9, <3>10, <3>11, <3>12 DEF ListsCallers
  <2> QED BY <2>4, <2>5
<1>2. LuaInv /\ (echoed \/ LuaChains) => LuaTracebackListsCallers
  BY <1>1 DEF LuaTracebackListsCallers, RunningTracebackFull
<1> QED BY <1>2, LuaInvariant, LuaChainsInvariant, PTL

-----------------------------------------------------------------------------
(* The refinement mapping of the Lua version.                              *)

\* It differs from that of the C version only while a yield is on its way.
LEMMA LuaValIsVal ==
    ASSUME CalleeIs("yield") => frame[cur] = "raw" \/ Leaf = Callee
    PROVE  luaValBar = valBar
<1>1. CASE CalleeIs("yield")
  <2>1. mode = "back" /\ ~CalleeIs("done") /\ ~CalleeIs("err")
    BY <1>1 DEF CalleeIs
  <2>2. phaseBar = "yield"
    BY <1>1, <2>1 DEF phaseBar
  <2>3. valBar = IF frame[cur] = "raw" THEN stk[Callee] ELSE stk[Leaf]
    BY <2>1, <2>2 DEF valBar
  <2> QED BY <1>1, <2>3 DEF luaValBar
<1>2. CASE ~CalleeIs("yield")
  BY <1>2 DEF luaValBar
<1> QED BY <1>1, <1>2

\* The same after a step.
LEMMA LuaValIsValNext ==
    ASSUME CalleeIs("yield")' => frame'[cur'] = "raw" \/ Leaf' = Callee'
    PROVE  luaValBar' = valBar'
<1>1. CASE CalleeIs("yield")'
  <2>1. mode' = "back" /\ ~CalleeIs("done")' /\ ~CalleeIs("err")'
    BY <1>1 DEF CalleeIs
  <2>2. phaseBar' = "yield"
    BY <1>1, <2>1 DEF phaseBar
  <2>3. valBar' = IF frame'[cur'] = "raw" THEN stk'[Callee'] ELSE stk'[Leaf']
    BY <2>1, <2>2 DEF valBar
  <2> QED BY <1>1, <2>3 DEF luaValBar
<1>2. CASE ~CalleeIs("yield")'
  BY <1>2 DEF luaValBar
<1> QED BY <1>1, <1>2

\* Where the values agree the steps do, but for those whose values the two versions
\* choose.
LEMMA SameSteps ==
    ASSUME luaValBar = valBar, luaValBar' = valBar'
    PROVE  /\ UNCHANGED Nested!vars => UNCHANGED LuaNested!vars
           /\ \A t, g : Nested!Create(t, g) => LuaNested!Create(t, g)
           /\ \A t, v : Nested!Call(t, v) => LuaNested!Call(t, v)
           /\ \A g, v : Nested!Yield(g, v) => LuaNested!Yield(g, v)
           /\ \A v : Nested!Return(v) => LuaNested!Return(v)
           /\ Nested!Fails => LuaNested!Fails
           /\ Nested!Catch => LuaNested!Catch
           /\ Nested!Die => LuaNested!Die
           /\ Nested!MainEnds => LuaNested!MainEnds
           /\ Nested!EnterOrLeaveC => LuaNested!EnterOrLeaveC
<1>1. UNCHANGED Nested!vars => UNCHANGED LuaNested!vars
  BY DEF Nested!vars, LuaNested!vars
<1>2. \A t, g : Nested!Create(t, g) => LuaNested!Create(t, g)
  BY DEF Nested!Create, LuaNested!Create
<1>3. \A t, v : Nested!Call(t, v) => LuaNested!Call(t, v)
  BY DEF Nested!Call, LuaNested!Call
<1>4. \A g, v : Nested!Yield(g, v) => LuaNested!Yield(g, v)
  BY DEF Nested!Yield, LuaNested!Yield, Nested!CanYield, LuaNested!CanYield,
         Nested!Depth, LuaNested!Depth
<1>5. \A v : Nested!Return(v) => LuaNested!Return(v)
  BY DEF Nested!Return, LuaNested!Return, Nested!Depth, LuaNested!Depth, Nested!Running,
         LuaNested!Running, Nested!Last, LuaNested!Last, Nested!Front, LuaNested!Front
<1>6. Nested!Fails => LuaNested!Fails
  BY DEF Nested!Fails, LuaNested!Fails
<1>7. Nested!Catch => LuaNested!Catch
  BY DEF Nested!Catch, LuaNested!Catch, Nested!Running, LuaNested!Running, Nested!Last, LuaNested!Last
<1>8. Nested!Die => LuaNested!Die
  BY DEF Nested!Die, LuaNested!Die, Nested!Depth, LuaNested!Depth, Nested!Running,
         LuaNested!Running, Nested!Last, LuaNested!Last, Nested!Front, LuaNested!Front
<1>9. Nested!MainEnds => LuaNested!MainEnds
  BY DEF Nested!MainEnds, LuaNested!MainEnds, Nested!Depth, LuaNested!Depth
<1>10. Nested!EnterOrLeaveC => LuaNested!EnterOrLeaveC
  BY DEF Nested!EnterOrLeaveC, LuaNested!EnterOrLeaveC, Nested!Running, LuaNested!Running,
         Nested!Last, LuaNested!Last
<1> QED BY <1>1, <1>2, <1>3, <1>4, <1>5, <1>6, <1>7, <1>8, <1>9, <1>10

\* All that is known of a state of the Lua version.
LuaAll == LuaInv /\ ~echoed /\ LuaChains

\* So the lemmas about the mapping of the C version apply.
LEMMA LuaHasChains == LuaAll => ChainsInv /\ LuaStacks /\ LuaTypes
BY DEF LuaAll, LuaInv, LuaTypes, LuaStacks, LuaChains, ChainsInv

\* The end of what a yield has passed.
LEMMA EndIsLeaf ==
    ASSUME ChainsInv, mode = "back", status[Callee] = "yield",
           NEW y, NEW how \in {"yieldk", "uyield"}, Ends(Callee, y, how)
    PROVE  y = Leaf /\ frame[Leaf] = how
<1>1. y \in StackOf(Callee) /\ frame[y] = how /\ y \in Thread
  BY CalleeYieldedFacts DEF Ends
<1>2. link[y] = Nil
  BY <1>1, RunFacts DEF Structure, LinkedWhileWaiting, Waiting, Calling
<1> QED BY <1>1, <1>2, CalleeYieldedFacts

\* What the invariants say of a yield that is on its way, seen from callk.
LEMMA LuaYieldFacts ==
    ASSUME LuaAll, CalleeYielded
    PROVE  /\ mode = "back" /\ status[Callee] = "yield" /\ frame[cur] \in {"call", "callk"}
           /\ wantBar = (IF IsRaw THEN RawTag ELSE ytag)
           /\ frame[Leaf] = (IF wantBar = RawTag THEN "uyield" ELSE "yieldk")
           /\ IsRaw => Leaf = Callee
           /\ ~IsRaw /\ ytag = RawTag => Leaf # Callee
           /\ luaValBar = stk[Callee]
           /\ StackOf(Callee) \subseteq coroset
           /\ \A q \in StackOf(Callee) \ {Callee} : tag[q] # wantBar
           /\ LuaForMe <=> tag[Callee] = wantBar
<1> ChainsInv /\ LuaStacks /\ LuaYielderEnds /\ LuaRawYieldEnds
  BY LuaHasChains DEF LuaStacks, LuaAll, LuaChains
<1>1. mode = "back" /\ status[Callee] = "yield" /\ frame[cur] \in {"call", "callk"}
  BY DEF CalleeYielded, InAuxcallk
<1>2. /\ Callee \in coroset /\ Callee \in Thread /\ frame[Callee] \in {"yieldk", "uyield", "passk"}
  BY RunFacts, CalleeOfCall
<1>3. \A q \in Thread : tag[q] # RawTag
  BY RunFacts, TagAssumption
<1>4. CalleeIs("yield") /\ luaValBar = stk[Callee]
  BY <1>1 DEF CalleeIs, luaValBar
<1>5. CASE IsRaw
  <2>1. frame[Callee] = "uyield" /\ link[Callee] = Nil
    BY <1>2, <1>5, RunFacts DEF IsRaw, Structure, LinkedWhileWaiting, Waiting, Calling
  <2>2. Leaf = Callee /\ wantBar = RawTag
    BY <1>1, <2>1, CalleeYieldedFacts
  <2>3. StackOf(Callee) \subseteq {Callee}
    <3>1. Closed({Callee}, link)
      BY <2>1 DEF Closed
    <3> QED BY <1>2, <3>1, WalkStays DEF StackOf
  <2> QED BY <1>1, <1>2, <1>3, <1>4, <1>5, <2>1, <2>2, <2>3 DEF LuaForMe
<1>6. CASE ~IsRaw /\ ytag = RawTag
  <2>1. frame[Callee] = "passk"
    BY <1>1, <1>2, <1>6 DEF IsRaw, LuaYielderEnds
  <2>2. PICK y \in Thread : Ends(Callee, y, "uyield")
    BY <1>1, <1>6, <2>1 DEF LuaRawYieldEnds
  <2>3. y = Leaf /\ frame[Leaf] = "uyield"
    BY <1>1, <2>2, EndIsLeaf
  <2>4. wantBar = RawTag
    BY <1>1, <2>3, CalleeYieldedFacts
  <2>5. StackOf(Callee) \subseteq coroset /\ StackOf(Callee) \subseteq Thread
    BY <1>1, <1>2, <2>2, RunFacts, EndsTagged, CalleeYieldedFacts
  <2> QED BY <1>1, <1>2, <1>3, <1>4, <1>6, <2>1, <2>3, <2>4, <2>5 DEF LuaForMe
<1>7. CASE ~IsRaw /\ ytag # RawTag
  <2>1. Ends(Callee, yfrom, "yieldk") /\ \A q \in StackOf(Callee) \ {Callee} : tag[q] # ytag
    BY <1>7 DEF LuaYielderEnds
  <2>2. yfrom = Leaf /\ frame[Leaf] = "yieldk"
    BY <1>1, <2>1, EndIsLeaf
  <2>3. wantBar = ytag
    BY <1>1, <2>2, CalleeYieldedFacts
  <2>4. StackOf(Callee) \subseteq coroset
    BY <1>2, <2>1, RunFacts, EndsTagged
  <2> QED BY <1>1, <1>2, <1>4, <1>7, <2>1, <2>2, <2>3, <2>4 DEF LuaForMe
<1> QED BY <1>5, <1>6, <1>7

\* The yield that cur has been given is where the README has it.
LEMMA LuaReachesHere ==
    ASSUME LuaAll, CalleeYielded, NEW i, i = Len(Callers) + 1
    PROVE  /\ i \in 2..LuaNested!Depth /\ LuaNested!Depth = Len(Stack)
           /\ LuaNested!Reaches(i)
           /\ chainBar[i] = Callee /\ chainBar[i - 1] = cur
           /\ i = 2 <=> cur = Main
           /\ LuaNested!CanYield(i - 1) <=> Yieldable(cur)
           /\ cur \in Untagged <=> cur \notin coroset
           /\ i = LuaNested!Depth <=> Leaf = Callee
<1> ChainsInv
  BY LuaHasChains
<1> DEFINE n == Len(Stack)
<1>1. /\ i \in 2..n /\ n \in Nat /\ Stack[i] = Callee /\ Stack[i - 1] = cur
      /\ i = 2 <=> cur = Main
      /\ i - 1 > 1 <=> cur # Main
      /\ \A j \in i..n : Stack[j] \in StackOf(Callee)
      /\ \A j \in i + 1..n : Stack[j] \in StackOf(Callee) \ {Callee}
      /\ chainBar = Stack /\ phaseBar = "yield"
  BY LuaYieldFacts, CalleeYieldedFacts DEF CallOfCur
<1>2. LuaNested!Depth = n
  BY <1>1 DEF LuaNested!Depth
<1>3. ASSUME NEW j \in i..n
      PROVE  Stack[j] \notin Untagged /\ j > 1 /\ Stack[j] \notin InC
  <2>1. Stack[j] \in StackOf(Callee) /\ j > 1
    BY <1>1
  <2>2. Stack[j] \in Thread /\ Stack[j] \in coroset /\ ~ccall[Stack[j]]
    BY <2>1, LuaYieldFacts, CalleeYieldedFacts
  <2> QED BY <2>1, <2>2, RunFacts DEF InC, Structure, CorosetIsCreated
<1>4. \A j \in i + 1..n : tag[Stack[j]] # wantBar
  BY <1>1, LuaYieldFacts
<1>5. LuaNested!Reaches(i)
  BY <1>1, <1>2, <1>3, <1>4 DEF LuaNested!Reaches, LuaNested!CanYield, InC
<1>6. LuaNested!CanYield(i - 1) <=> Yieldable(cur)
  <2>1. LuaNested!CanYield(i - 1) <=> (i - 1 > 1 /\ Stack[i - 1] \notin InC)
    BY <1>1 DEF LuaNested!CanYield, InC
  <2>2. cur \in InC <=> ccall[cur]
    BY RunFacts DEF InC
  <2> QED BY <1>1, <2>1, <2>2 DEF Yieldable
<1>7. cur \in Untagged <=> cur \notin coroset
  BY RunFacts DEF Structure, CorosetIsCreated
<1>8. i = n <=> Leaf = Callee
  <2>1. Leaf = Stack[n]
    BY DEF Leaf, Last
  <2>2. i # n => n \in i + 1..n
    BY <1>1
  <2>3. i # n => Stack[n] # Callee
    BY <1>1, <2>2
  <2> QED BY <1>1, <2>1, <2>3
<1> QED BY <1>1, <1>2, <1>5, <1>6, <1>7, <1>8

-----------------------------------------------------------------------------
(* A lemma per action.                                                     *)

\* Nothing but a yield on its way tells the two mappings apart.
LEMMA SameValues ==
    /\ mode \in {"run", "raise", "cont", "exit"} => luaValBar = valBar
    /\ mode' \in {"run", "raise", "cont", "exit"} => luaValBar' = valBar'
BY DEF luaValBar, CalleeIs

\* call, resume and wrap.
LEMMA LuaCallRefines ==
    ASSUME LuaAll, TypeOK', NEW t \in Thread, NEW v \in Payload, Call(t, v)
    PROVE  LuaNested!Call(t, v)
<1> ChainsInv /\ LuaStacks
  BY LuaHasChains
<1>1. /\ mode = "run" /\ Resumes(t, "call") /\ tag' = tag /\ ccall' = ccall /\ mode' = "cont"
      /\ stk' = [stk EXCEPT ![cur] = <<>>, ![t] = v] /\ "call" \in Calling
  BY DEF Call, Resumes, Calling
<1>2. Free(t)
  BY RunFacts, CalledIsFree DEF Free
<1>3. \A u \in Thread : u # cur /\ status[u] # "err" => stk[u] = <<>>
  BY <1>1 DEF LuaStacks, LuaValuesHeld
<1>4. Nested!Call(t, v)
  BY <1>1, <1>2, <1>3, DirectCall
<1> QED BY <1>1, <1>4, SameValues, SameSteps

\* coroutine.resume of an untagged coroutine.
LEMMA LuaRawResumeRefines ==
    ASSUME LuaAll, TypeOK', NEW t \in Thread, NEW v \in Payload, RawResume(t, v)
    PROVE  LuaNested!Call(t, v)
<1> ChainsInv /\ LuaStacks
  BY LuaHasChains
<1>1. /\ mode = "run" /\ Resumes(t, "raw") /\ tag' = tag /\ ccall' = ccall /\ mode' = "cont"
      /\ stk' = [stk EXCEPT ![cur] = <<>>, ![t] = v] /\ "raw" \in Calling
      /\ t \in Untagged /\ status[t] \in {"new", "yield"}
  BY DEF RawResume, Resumes, Calling, meta
<1>2. Free(t)
  BY <1>1, CalledIsFreeHere
<1>3. \A u \in Thread : u # cur /\ status[u] # "err" => stk[u] = <<>>
  BY <1>1 DEF LuaStacks, LuaValuesHeld
<1>4. Nested!Call(t, v)
  BY <1>1, <1>2, <1>3, DirectCall
<1> QED BY <1>1, <1>4, SameValues, SameSteps

\* tc.yield and coroutine.yield.
LEMMA LuaYieldRefines ==
    ASSUME LuaAll, NEW g \in Tag \cup {RawTag}, NEW v \in Payload,
           (g \in Tag /\ TcYield(g, v)) \/ (g = RawTag /\ RawYield(v))
    PROVE  LuaNested!Yield(g, v)
<1> ChainsInv
  BY LuaHasChains
<1>1. Nested!Yield(g, v)
  BY YieldRefines
<1>2. mode = "run" /\ cur # Main /\ ToResumer /\ link' = link /\ tag' = tag
      /\ status' = [status EXCEPT ![cur] = "yield"]
  BY DEF TcYield, RawYield, Suspends, Yieldable, meta
<1>3. Callee' = cur /\ Leaf' = cur
  BY <1>2, BackBars
<1>4. luaValBar = valBar /\ luaValBar' = valBar'
  BY <1>2, <1>3, SameValues, LuaValIsValNext
<1> QED BY <1>1, <1>4, SameSteps

\* A body returns, or dies.
LEMMA LuaEndsRefine ==
    ASSUME LuaAll
    PROVE  /\ \A v \in Payload : Return(v) => LuaNested!Return(v)
           /\ Die => LuaNested!Die
<1> ChainsInv
  BY LuaHasChains
<1>1. ASSUME NEW v \in Payload, Return(v)
      PROVE  LuaNested!Return(v)
  <2>1. mode = "run" /\ cur # Main /\ ToResumer /\ link' = link /\ tag' = tag
        /\ status' = [status EXCEPT ![cur] = "done"]
    BY <1>1 DEF Return, meta
  <2>2. Callee' = cur /\ Leaf' = cur
    BY <2>1, BackBars
  <2>3. luaValBar = valBar /\ luaValBar' = valBar'
    BY <2>1, <2>2, SameValues, LuaValIsValNext
  <2> QED BY <1>1, <2>3, ReturnRefines, SameSteps
<1>2. ASSUME Die
      PROVE  LuaNested!Die
  <2>1. mode = "raise" /\ cur # Main /\ ToResumer /\ link' = link /\ tag' = tag
        /\ status' = [status EXCEPT ![cur] = "err"]
    BY <1>2 DEF Die, meta
  <2>2. Callee' = cur /\ Leaf' = cur
    BY <2>1, BackBars
  <2>3. luaValBar = valBar /\ luaValBar' = valBar'
    BY <2>1, <2>2, SameValues, LuaValIsValNext
  <2> QED BY <1>2, <2>3, DieRefines, SameSteps
<1> QED BY <1>1, <1>2

\* The call of cur returns what was yielded.
LEMMA LuaCutHere ==
    ASSUME LuaAll, TypeOK', mode = "back", status[Callee] = "yield", LeavesFrame, mode' = "run",
           status' = status, cur' = cur, tag' = tag, ccall' = ccall, NEW i, i = Len(Callers) + 1
    PROVE  LuaNested!Cut(i) /\ LuaNested!Resolved /\ luaValBar' = stk'[cur]
<1>1. Nested!Cut(i) /\ Nested!Resolved /\ valBar' = stk'[cur]
  BY LuaHasChains, CutHere
<1> QED BY <1>1, SameValues
    DEF Nested!Cut, LuaNested!Cut, Nested!Resolved, LuaNested!Resolved, Nested!Depth, LuaNested!Depth

\* The callee has the tag of the yield.
LEMMA LuaBackForMeRefines ==
    ASSUME LuaAll, TypeOK', LuaBackForMe
    PROVE  \E i \in 2..LuaNested!Depth : LuaNested!Handled(i)
<1> ChainsInv
  BY LuaHasChains
<1>1. /\ CalleeYielded /\ LuaForMe /\ Moves(Callee) /\ mode' = "run" /\ LeavesFrame
      /\ status' = status /\ cur' = cur /\ tag' = tag /\ ccall' = ccall
  BY DEF LuaBackForMe
<1>2. PICK i : i = Len(Callers) + 1
  OBVIOUS
<1>3. i \in 2..LuaNested!Depth /\ LuaNested!Reaches(i) /\ chainBar[i] = Callee
  BY <1>1, <1>2, LuaReachesHere
<1>4. tag[chainBar[i]] = wantBar
  BY <1>1, <1>3, LuaYieldFacts
<1>5. LuaNested!Cut(i) /\ LuaNested!Resolved /\ luaValBar' = stk'[cur]
  BY <1>1, <1>2, LuaYieldFacts, LuaCutHere
<1>6. luaValBar' = luaValBar
  <2>1. stk'[cur] = stk[Callee]
    BY <1>1, RunFacts DEF Moves
  <2> QED BY <1>1, <1>5, <2>1, LuaYieldFacts
<1> QED BY <1>3, <1>4, <1>5, <1>6 DEF LuaNested!Handled

\* cur passes the yield along, a stutter.
LEMMA LuaBackPassStep ==
    ASSUME LuaAll, LuaBackPass
    PROVE  UNCHANGED LuaNested!vars
<1> ChainsInv
  BY LuaHasChains
<1>1. /\ CalleeYielded /\ Suspends("passk") /\ link' = link /\ tag' = tag /\ ccall' = ccall
      /\ Moves(Callee) /\ (~IsRaw => ytag' = ytag)
  BY DEF LuaBackPass, inflight
<1>2. /\ UNCHANGED <<chainBar, heldBar, {t \in Thread : status[t] # "none"}, phaseBar>>
      /\ Callee' = cur /\ CalleeIs("yield")'
      /\ wantBar' = IF frame[Leaf] = "uyield" THEN RawTag ELSE ytag'
  BY <1>1, PassedBars
<1>3. wantBar' = wantBar
  BY <1>1, <1>2, LuaYieldFacts
<1>4. luaValBar' = luaValBar
  <2>1. stk'[cur] = stk[Callee]
    BY <1>1, RunFacts DEF Moves
  <2>2. luaValBar' = stk'[cur]
    BY <1>2 DEF luaValBar
  <2> QED BY <1>1, <2>1, <2>2, LuaYieldFacts
<1> QED BY <1>1, <1>2, <1>3, <1>4 DEF LuaNested!vars

\* A yield that goes no further is the README's error, or the failure it names.
LEMMA LuaBackRefusedRefines ==
    ASSUME LuaAll, TypeOK', LuaBackRefused
    PROVE  \E i \in 2..LuaNested!Depth : LuaNested!NotFound(i) \/ LuaNested!Refused(i)
<1> ChainsInv
  BY LuaHasChains
<1>1. /\ CalleeYielded /\ LuaRefused /\ Resumes(Callee, "call") /\ tag' = tag /\ ccall' = ccall
      /\ stk' = [stk EXCEPT ![Callee] = Refusal]
  BY DEF LuaBackRefused
<1>2. /\ mode = "back" /\ status[Callee] = "yield" /\ Callee \in Thread
      /\ wantBar = (IF IsRaw THEN RawTag ELSE ytag)
      /\ frame[Leaf] = (IF wantBar = RawTag THEN "uyield" ELSE "yieldk")
      /\ IsRaw => Leaf = Callee
      /\ ~IsRaw /\ ytag = RawTag => Leaf # Callee
      /\ tag[Callee] # wantBar
  BY <1>1, LuaYieldFacts, CalleeYieldedFacts DEF LuaRefused
<1>3. PICK i : i = Len(Callers) + 1
  OBVIOUS
<1>4. /\ i \in 2..LuaNested!Depth /\ LuaNested!Reaches(i)
      /\ chainBar[i] = Callee /\ chainBar[i - 1] = cur
      /\ i = 2 <=> cur = Main
      /\ LuaNested!CanYield(i - 1) <=> Yieldable(cur)
      /\ cur \in Untagged <=> cur \notin coroset
      /\ i = LuaNested!Depth <=> Leaf = Callee
  BY <1>1, <1>3, LuaReachesHere
<1>5. LuaNested!Unhandled(i)
  BY <1>1, <1>2, <1>4 DEF LuaNested!Unhandled, LuaRefused
<1>6. stk'[Callee] = Refusal /\ Refusal # <<>>
  BY <1>1, <1>2, RunFacts DEF Refusal
<1>7. /\ chainBar' = chainBar /\ wantBar' = Nil /\ heldBar' = heldBar /\ mode' = "cont"
      /\ {t \in Thread : status'[t] # "none"} = {t \in Thread : status[t] # "none"}
      /\ phaseBar' = IF frame[Leaf] = "yieldk" /\ SaysFailed(Refusal) THEN "raise" ELSE "run"
      /\ luaValBar' = IF phaseBar' = "run" THEN Refusal ELSE <<>>
  <2>1. /\ chainBar' = chainBar /\ wantBar' = Nil /\ heldBar' = heldBar /\ mode' = "cont"
        /\ {t \in Thread : status'[t] # "none"} = {t \in Thread : status[t] # "none"}
        /\ phaseBar' = IF frame[Leaf] = "yieldk" /\ SaysFailed(Refusal) THEN "raise" ELSE "run"
        /\ valBar' = IF phaseBar' = "run" THEN Refusal ELSE <<>>
    BY <1>1, <1>2, <1>6, GivenBack
  <2> QED BY <2>1, SameValues
<1>8. CASE ~IsRaw /\ ytag # RawTag
  <2>1. SaysFailed(Refusal)
    BY <1>8 DEF Refusal, SaysFailed
  <2>2. phaseBar' = "raise" /\ luaValBar' = <<>> /\ wantBar # RawTag
    BY <1>2, <1>7, <1>8, <2>1
  <2>3. LuaNested!NotFound(i)
    BY <1>1, <1>5, <1>7, <2>2 DEF LuaNested!NotFound
  <2> QED BY <1>4, <2>3
<1>9. CASE IsRaw \/ ytag = RawTag
  <2>1. phaseBar' = "run" /\ luaValBar' = Refusal /\ wantBar = RawTag
    BY <1>2, <1>7, <1>9
  <2>2. Refusal = RefusedByLua(i, LuaNested!Depth)
    BY <1>2, <1>4, <1>9 DEF Refusal, RefusedByLua
  <2>3. i = 2 \/ chainBar[i - 1] \in InC
    <3>1. ~Yieldable(cur)
      BY <1>1, <1>9 DEF LuaRefused
    <3> QED BY <1>4, <3>1, RunFacts DEF Yieldable, InC
  <2>4. LuaNested!Resolved
    BY <1>1, <1>7, <2>1 DEF LuaNested!Resolved
  <2>5. LuaNested!Refused(i)
    BY <1>5, <1>7, <2>1, <2>2, <2>3, <2>4 DEF LuaNested!Refused, InC
  <2> QED BY <1>4, <2>5
<1> QED BY <1>8, <1>9

\* What coroutine.resume returns of a yield: all that an untagged coroutine handed
\* out was meant for it, or leaks.
LEMMA LuaRawBackYieldRefines ==
    ASSUME LuaAll, TypeOK', LuaRawBack, status[Callee] = "yield"
    PROVE  LuaNested!Leaks \/ \E i \in 2..LuaNested!Depth : LuaNested!Suspends(i)
<1> ChainsInv /\ LuaStacks /\ LuaYielderEnds /\ LuaRawYieldEnds
  BY LuaHasChains DEF LuaStacks, LuaAll, LuaChains
<1>1. /\ mode = "back" /\ frame[cur] = "raw" /\ mode' = "run" /\ LeavesFrame
      /\ status' = status /\ cur' = cur /\ tag' = tag /\ ccall' = ccall
  BY DEF LuaRawBack, meta
<1>2. PICK i : i = Len(Callers) + 1
  OBVIOUS
<1> DEFINE n == Len(Stack)
<1>3. /\ i \in 2..n /\ n \in Nat /\ Stack[i] = Callee
      /\ \A j \in i..n : Stack[j] \in StackOf(Callee)
      /\ \A j \in i + 1..n : Stack[j] \in StackOf(Callee) \ {Callee}
      /\ chainBar = Stack /\ phaseBar = "yield" /\ link[cur] = Callee /\ link[cur] # Nil
      /\ Callee \in Thread /\ Callee # cur
      /\ wantBar = IF frame[Leaf] = "uyield" THEN RawTag ELSE ytag
      /\ \A q \in StackOf(Callee) : q \in Thread /\ status[q] = "yield" /\ ~ccall[q]
      /\ Callee = Leaf <=> link[Callee] = Nil
  BY <1>1, <1>2, CalleeYieldedFacts DEF CallOfCur
<1>4. LuaNested!Depth = n
  BY <1>3 DEF LuaNested!Depth
<1>5. Callee \in Untagged
  BY <1>1, <1>3, RunFacts DEF Structure, CalleeMatchesFrame
<1>6. LuaNested!Cut(i) /\ LuaNested!Resolved /\ luaValBar' = stk'[cur]
  BY <1>1, <1>2, LuaCutHere
<1>7. luaValBar = stk[Callee]
  BY <1>1 DEF luaValBar, CalleeIs
<1>8. /\ frame[Callee] \in {"yieldk", "uyield", "passk"}
      /\ link[Callee] = Nil <=> frame[Callee] # "passk"
  <2>1. frame[Callee] \in Suspended /\ frame[Callee] # "untk"
    BY <1>3, RunFacts DEF Structure, FramesMatchStatus, LuaStacks, NobodyEchoed
  <2> QED BY <1>3, <2>1, RunFacts DEF Suspended, Structure, LinkedWhileWaiting, Waiting, Calling
<1>9. stk'[cur] = IF frame[Callee] = "yieldk" THEN LeakedByLua(stk[Callee]) ELSE stk[Callee]
  BY <1>3, RunFacts DEF LuaRawBack, LeakedByLua
<1>10. CASE frame[Callee] = "yieldk"
  <2>1. Leaf = Callee /\ Last(Stack) = Callee /\ ytag # RawTag
    BY <1>1, <1>3, <1>8, <1>10 DEF Leaf, LuaYielderEnds
  <2>2. i = n
    <3> SUFFICES ASSUME i # n PROVE FALSE
      OBVIOUS
    <3>1. n \in i + 1..n
      BY <1>3
    <3>2. Stack[n] # Callee
      BY <1>3, <3>1
    <3> QED BY <2>1, <3>2 DEF Last
  <2>3. wantBar # RawTag /\ luaValBar' = LeakedByLua(luaValBar)
    BY <1>3, <1>6, <1>7, <1>9, <1>10, <2>1
  <2>4. LuaNested!Running \in Untagged
    BY <1>3, <1>5, <2>1 DEF LuaNested!Running, LuaNested!Last, Last
  <2>5. LuaNested!Leaks
    BY <1>3, <1>4, <1>6, <2>2, <2>3, <2>4 DEF LuaNested!Leaks
  <2> QED BY <2>5
<1>11. CASE frame[Callee] # "yieldk"
  <2>1. frame[Leaf] = "uyield" /\ \A j \in i + 1..n : Stack[j] \notin Untagged
    <3>1. CASE frame[Callee] = "uyield"
      <4>1. Leaf = Callee /\ Closed({Callee}, link)
        BY <1>3, <1>8, <3>1 DEF Closed
      <4>2. StackOf(Callee) \subseteq {Callee}
        BY <1>3, <4>1, WalkStays DEF StackOf
      <4> QED BY <1>3, <3>1, <4>1, <4>2
    <3>2. CASE frame[Callee] = "passk"
      <4> DEFINE d == link[Callee]
      <4>1. d # Nil /\ d \in Thread
        BY <1>3, <1>8, <3>2, RunFacts
      <4>2. d \in coroset
        BY <1>3, <3>2, <4>1, RunFacts DEF Structure, CalleeMatchesFrame
      <4>3. PICK y \in Thread : Ends(Callee, y, "uyield")
        BY <1>1, <3>2 DEF LuaRawYieldEnds
      <4>4. frame[Leaf] = "uyield"
        BY <1>1, <4>3, EndIsLeaf
      <4>5. StackOf(Callee) = {Callee} \cup StackOf(d)
        BY <1>3, <4>1, RunFacts, LinkSteps, WalkFirst DEF StackOf
      <4>6. Ends(d, y, "uyield")
        BY <3>2, <4>3, <4>5 DEF Ends
      <4>7. StackOf(d) \subseteq coroset
        BY <4>1, <4>2, <4>6, RunFacts, EndsTagged
      <4>8. \A j \in i + 1..n : Stack[j] \in coroset
        BY <1>3, <4>5, <4>7
      <4> QED BY <1>3, <4>4, <4>8, RunFacts DEF Structure, CorosetIsCreated
    <3> QED BY <1>8, <1>11, <3>1, <3>2
  <2>2. \A j \in i..n : LuaNested!CanYield(j)
    <3>1. \A j \in i..n : j > 1 /\ ~ccall[Stack[j]] /\ Stack[j] \in Thread
      BY <1>3
    <3> QED BY <1>3, <3>1 DEF LuaNested!CanYield
  <2>3. wantBar = RawTag /\ luaValBar' = luaValBar
    BY <1>3, <1>6, <1>7, <1>9, <1>11, <2>1
  <2>4. LuaNested!Suspends(i)
    BY <1>3, <1>4, <1>5, <1>6, <2>1, <2>2, <2>3 DEF LuaNested!Suspends
  <2> QED BY <1>3, <1>4, <2>4
<1> QED BY <1>10, <1>11

\* callk and coroutine.resume of a coroutine that returned or died: a stutter.
LEMMA LuaOverStep ==
    ASSUME MayOverflow = FALSE, LuaAll, TypeOK',
           BackOK \/ BackErr \/ (LuaRawBack /\ status[Callee] # "yield")
    PROVE  UNCHANGED LuaNested!vars
<1> ChainsInv
  BY LuaHasChains
<1>1. BackOK \/ BackErr \/ (RawBack /\ status[Callee] # "yield")
  <2> SUFFICES ASSUME LuaRawBack, status[Callee] # "yield" PROVE RawBack
    OBVIOUS
  <2>1. mode = "back" /\ frame[cur] = "raw" /\ link[cur] # Nil /\ Callee \in Thread
    BY RunFacts, ThreadAssumption DEF LuaRawBack, Callee, Structure, LinkedWhileWaiting, Waiting, Calling
  <2>2. status[Callee] \in {"done", "err"}
    BY <2>1, RunFacts DEF Structure, CalleeMatchesFrame, Callee, Calling
  <2>3. frame[Callee] # "yieldk"
    BY <2>1, <2>2, RunFacts DEF Structure, FramesMatchStatus
  <2> QED BY <2>3 DEF LuaRawBack, RawBack
<1>2. status[Callee] # "yield" /\ mode' \in {"run", "raise"}
  BY <1>1 DEF BackOK, BackErr, RawBack
<1>3. luaValBar = valBar /\ luaValBar' = valBar'
  BY <1>2, SameValues, LuaValIsVal DEF CalleeIs
<1> QED BY <1>1, <1>3, OverStep, SameSteps

\* A suspended coroutine that is resumed passes all on to the next of its stack.
LEMMA LuaContPasskStep ==
    ASSUME LuaAll, LuaContPassk
    PROVE  UNCHANGED LuaNested!vars
<1> ChainsInv /\ LuaStacks
  BY LuaHasChains
<1>1. /\ mode = "cont" /\ frame[cur] = "passk" /\ Resumes(Callee, "call") /\ mode' = "cont"
      /\ tag' = tag /\ ccall' = ccall /\ "call" \in Calling
      /\ stk' = [stk EXCEPT ![Callee] = stk[cur], ![cur] = <<>>]
  BY DEF LuaContPassk, Resumes, Calling
<1>2. link[cur] # Nil
  BY <1>1, RunFacts DEF Structure, LinkedWhileWaiting, Waiting
<1>3. status[Callee] = "yield"
  BY <1>1, <1>2, RunFacts DEF Structure, CalleeMatchesFrame, Callee
<1>4. Callee \in Thread /\ Callee # cur /\ Leaf # cur /\ Leaf \in StackOf(Callee) /\ Leaf \in Thread
  BY <1>1, <1>2, ContBars
<1>5. link' = link /\ cur' = Callee
  <2>1. link' = [link EXCEPT ![cur] = link[cur]]
    BY <1>1 DEF Resumes, Callee
  <2> QED BY <1>1, <2>1, RunFacts DEF Resumes
<1>6. Leaf' = Leaf
  BY <1>5, SameStack DEF Leaf
<1>7. stk[Leaf] = <<>>
  <2>1. status[Leaf] = "yield"
    BY <1>3, <1>4, RunFacts, SuspendedBelow
  <2> QED BY <1>1, <1>4, <2>1 DEF LuaStacks, LuaValuesHeld
<1>8. stk'[Callee] = stk[cur] /\ (Leaf # Callee => stk'[Leaf] = <<>>)
  BY <1>1, <1>4, <1>7, RunFacts
<1>9. InTransit = stk[cur]
  BY <1>7 DEF InTransit
<1>10. InTransit' = InTransit
  <2>1. InTransit' = IF stk'[Callee] # <<>> THEN stk'[Callee] ELSE stk'[Leaf]
    BY <1>5, <1>6 DEF InTransit
  <2> QED BY <1>8, <1>9, <2>1
<1>11. UNCHANGED Nested!vars
  BY <1>1, <1>2, <1>3, <1>10, RewindBars
<1> QED BY <1>1, <1>11, SameValues, SameSteps

\* Every step of the Lua version, until line 110, is one of NestedCoro, or none.
LEMMA LuaNestedStep ==
    ASSUME MayOverflow = FALSE, LuaAll, [LuaNext]_luaVars, ~echoed'
    PROVE  LuaNested!Next \/ UNCHANGED LuaNested!vars
<1> ChainsInv
  BY LuaHasChains
<1>1. TypeOK'
  BY LuaTypeStep DEF LuaAll, LuaInv, LuaTypes
<1>2. CASE SharedProgram
  <2>1. ASSUME NEW t \in Thread, (\E g \in Tag : Cocreate(t, g)) \/ CreateUntagged(t)
        PROVE  LuaNested!Next
    <3>1. \E g \in Tag \cup {Nil} : Nested!Create(t, g)
      BY <1>1, <2>1, CreateStep
    <3>2. mode = "run" /\ mode' = "run"
      BY <2>1 DEF Cocreate, CreateUntagged
    <3> QED BY <3>1, <3>2, SameValues, SameSteps DEF LuaNested!Next
  <2>2. ASSUME NEW t \in Thread, NEW v \in Payload, RawResume(t, v)
        PROVE  LuaNested!Next
    BY <1>1, <2>2, LuaRawResumeRefines DEF LuaNested!Next
  <2>3. ASSUME NEW g \in Tag, NEW v \in Payload, TcYield(g, v)
        PROVE  LuaNested!Next
    BY <2>3, LuaYieldRefines DEF LuaNested!Next
  <2>4. ASSUME NEW v \in Payload, RawYield(v)
        PROVE  LuaNested!Next
    BY <2>4, LuaYieldRefines DEF LuaNested!Next
  <2>5. ASSUME NEW v \in Payload, Return(v)
        PROVE  LuaNested!Next
    BY <2>5, LuaEndsRefine DEF LuaNested!Next
  <2>6. CASE Die
    BY <2>6, LuaEndsRefine DEF LuaNested!Next
  <2>7. CASE YieldRefused \/ Throw
    <3>1. Nested!Fails
      BY <2>7, RaiseStep
    <3>2. mode = "run" /\ mode' = "raise"
      BY <2>7 DEF YieldRefused, Throw
    <3> QED BY <3>1, <3>2, SameValues, SameSteps DEF LuaNested!Next
  <2>8. CASE Catch
    <3>1. mode = "raise" /\ mode' = "run"
      BY <2>8 DEF Catch
    <3> QED BY <2>8, <3>1, CatchStep, SameValues, SameSteps DEF LuaNested!Next
  <2>9. CASE MainEnds
    <3>1. mode \in {"run", "raise"} /\ mode' = "exit"
      BY <2>9 DEF MainEnds
    <3> QED BY <2>9, <3>1, MainEndsStep, SameValues, SameSteps DEF LuaNested!Next
  <2>10. CASE EnterC \/ LeaveC
    <3>1. mode = "run" /\ mode' = "run"
      BY <2>10 DEF EnterC, LeaveC
    <3> QED BY <2>10, <3>1, CCallStep, SameValues, SameSteps DEF LuaNested!Next
  <2> QED BY <1>2, <2>1, <2>2, <2>3, <2>4, <2>5, <2>6, <2>7, <2>8, <2>9, <2>10 DEF SharedProgram
<1>3. CASE BackOK \/ BackErr
  BY <1>1, <1>3, LuaOverStep
<1>4. CASE ContPlain \/ ContYieldk
  <2>1. mode = "cont" /\ mode' \in {"run", "raise"}
    BY <1>4 DEF ContPlain, ContYieldk
  <2> QED BY <1>4, <2>1, ContStep, SameValues, SameSteps
<1>5. CASE UNCHANGED luaVars
  <2>1. UNCHANGED <<chainBar, heldBar, phaseBar, wantBar, luaValBar>>
    BY <1>5 DEF luaVars, vars, chainBar, heldBar, phaseBar, wantBar, luaValBar, valBar, Stack,
       StackFrom, Leaf, CalleeIs, Callee, InTransit, SaysFailed
  <2>2. {t \in Thread : status[t] # "none"}' = {t \in Thread : status[t] # "none"}
        /\ {t \in Thread : ccall[t]}' = {t \in Thread : ccall[t]} /\ tag' = tag
    BY <1>5 DEF luaVars, vars
  <2> QED BY <2>1, <2>2 DEF LuaNested!vars
<1>6. CASE Shared
  BY <1>2, <1>3, <1>4, <1>5, <1>6 DEF Shared, SharedLibrary
<1>7. ASSUME NEW t \in Thread, NEW v \in Payload, Call(t, v)
      PROVE  LuaNested!Next
  BY <1>1, <1>7, LuaCallRefines DEF LuaNested!Next
<1>8. CASE LuaBackForMe
  BY <1>1, <1>8, LuaBackForMeRefines DEF LuaNested!Next
<1>9. CASE LuaBackPass
  BY <1>9, LuaBackPassStep
<1>10. CASE LuaBackRefused
  BY <1>1, <1>10, LuaBackRefusedRefines DEF LuaNested!Next
<1>11. CASE LuaRawBack
  <2>1. CASE status[Callee] = "yield"
    BY <1>1, <1>11, <2>1, LuaRawBackYieldRefines DEF LuaNested!Next
  <2>2. CASE status[Callee] # "yield"
    BY <1>1, <1>11, <2>2, LuaOverStep
  <2> QED BY <2>1, <2>2
<1>12. CASE LuaContPassk
  BY <1>12, LuaContPasskStep
<1>13. ~BackEcho /\ ~LuaContRefused /\ ~ContEcho
  BY NotEchoedYet DEF LuaAll
<1> QED BY <1>6, <1>7, <1>8, <1>9, <1>10, <1>11, <1>12, <1>13, SharedSteps

\* taggedcoro.lua implements the coroutines that src/README.md describes, with the
\* departures of NestedCoro, up to the first time that line 110 suspends a coroutine: who
\* handles a yield, which stack a call puts back, which yield fails and where, and the
\* values everybody sees.  MayOverflow is about moveyielded, which this version has not.
THEOREM LuaImplementsNested ==
    ASSUME MayOverflow = FALSE PROVE LuaSpec => LuaImplementsNestedCoro
<1>1. LuaInit => LuaNested!Init
  <2> SUFFICES ASSUME LuaInit PROVE LuaNested!Init
    OBVIOUS
  <2>1. Nested!Init /\ mode = "run"
    BY NestedStart DEF LuaInit, Init
  <2>2. luaValBar = valBar
    BY <2>1, SameValues
  <2> QED BY <2>1, <2>2 DEF Nested!Init, LuaNested!Init
<1>2. LuaInv /\ (echoed \/ LuaChains) /\ [LuaNext]_luaVars
      => [echoed' \/ LuaNested!Next]_<<LuaNested!vars, echoed>>
  <2> SUFFICES ASSUME LuaInv, echoed \/ LuaChains, [LuaNext]_luaVars, ~echoed'
               PROVE  LuaNested!Next \/ UNCHANGED <<LuaNested!vars, echoed>>
    OBVIOUS
  <2>1. ~echoed
    BY NotEchoedYet
  <2>2. LuaNested!Next \/ UNCHANGED LuaNested!vars
    BY <2>1, LuaNestedStep DEF LuaAll
  <2>3. echoed' = echoed
    BY <2>1, LuaTypeStep DEF LuaInv, LuaTypes
  <2> QED BY <2>2, <2>3
<1>3. LuaSpec => []LuaInv /\ [](echoed \/ LuaChains)
  BY LuaInvariant, LuaChainsInvariant
<1> QED BY <1>1, <1>2, <1>3, PTL DEF LuaSpec, LuaImplementsNestedCoro
=============================================================================
