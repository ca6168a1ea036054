-------------------------- MODULE TaggedCoroProofs --------------------------
(***************************************************************************)
(* Proofs about TaggedCoro and TaggedCoroQueries, for any threads, tags    *)
(* and values: the links, flags and parents of coroutines (Structure),     *)
(* then whole stacks of coroutines and the values and sources that pass    *)
(* along them (StacksInv), which the properties of TaggedCoroQueries and   *)
(* NoValuesLeftBehind are about.                                           *)
(***************************************************************************)
EXTENDS TaggedCoroQueries, SequenceTheorems, TLAPS

\* Sequences over the values of the program, and those the library puts on a
\* stack, are sequences of values.
LEMMA ProgramValues == Payload \subseteq Seq(Val)
BY SeqMonotonic, DataAssumption DEF Val

LEMMA LibraryValues ==
    /\ <<>> \in Seq(Val)
    /\ <<"msg">> \in Seq(Val)
    /\ <<"nil", "msg">> \in Seq(Val)
    /\ <<"sentinel", "msg">> \in Seq(Val)
    /\ <<"tag", "thread", "sentinel">> \in Seq(Val)
<1>1. {"nil", "msg", "sentinel", "tag", "thread"} \subseteq Val
  BY DEF Val, Ctl
<1> QED BY <1>1

LEMMA NoValues == <<>> \in Seq(Val)
BY LibraryValues

LEMMA ConcatValues ==
    ASSUME NEW s \in Seq(Val), NEW t \in Seq(Val)
    PROVE  s \o t \in Seq(Val)
BY ConcatProperties

-----------------------------------------------------------------------------
\* The state luaopen_taggedcoro leaves satisfies the inductive invariant.
LEMMA InitOK == Init => TypeOK /\ Structure
<1> SUFFICES ASSUME Init PROVE TypeOK /\ Structure
  OBVIOUS
<1> USE DEF Init
<1>1. TypeOK
  BY ThreadAssumption, NoValues DEF TypeOK, Status, Frame, Mode
<1>2. Structure
  BY ThreadAssumption
  DEF Structure, FramesMatchStatus, CurMatchesMode, CorosetIsCreated, LinkedWhileWaiting,
      CalleeMatchesFrame, OneResumer, RunningHasResumer, ParentIsResumer, YieldInFlight,
      StackedUnlessOverflow, StackedIsOnAStack, CalleeYielded, InAuxcallk,
      Waiting, Calling, Suspended
<1> QED BY <1>1, <1>2

-----------------------------------------------------------------------------
\* Every step keeps the types: Structure says that the thread cur waits for, the
\* yielder of a yield on its way and the source of a suspended stack exist.
LEMMA TypeStep == TypeOK /\ Structure /\ [Next]_vars => TypeOK'
<1> SUFFICES ASSUME TypeOK, Structure, [Next]_vars PROVE TypeOK'
  OBVIOUS
<1> USE DEF TypeOK, Status, Frame, Mode, lua, meta, inflight
<1>1. ASSUME NEW t \in Thread, NEW g \in Tag, Cocreate(t, g) PROVE TypeOK'
  BY <1>1, NoValues DEF Cocreate, Consumes
<1>2. ASSUME NEW t \in Thread, CreateUntagged(t) PROVE TypeOK'
  BY <1>2 DEF CreateUntagged, Consumes
<1>3. ASSUME NEW t \in Thread, NEW v \in Payload, Cocall(t, v) PROVE TypeOK'
  <2>1. ArgTarget(t) \in Thread
    BY DEF ArgTarget
  <2>2. stk[ArgTarget(t)] \o v \in Seq(Val)
    BY <2>1, ConcatValues, ProgramValues
  <2>3. stk' \in [Thread -> Seq(Val)]
    BY <1>3, <2>1, <2>2, NoValues DEF Cocall
  <2>4. /\ stacked' \in [Thread -> BOOLEAN]
        /\ parent' \in [Thread -> Thread \cup {Nil}]
        /\ source' \in [Thread -> Thread \cup {Nil}]
    BY <1>3 DEF Cocall, ClearsSource, SetsParent, Unstacks
  <2>5. /\ status' \in [Thread -> Status]
        /\ frame' \in [Thread -> Frame]
        /\ link' \in [Thread -> Thread \cup {Nil}]
        /\ cur' \in Thread
        /\ mode' \in Mode
    <3>1. CASE Resumes(t, "call")
      BY <3>1 DEF Resumes
    <3>2. CASE /\ frame' = [frame EXCEPT ![cur] = "call"]
               /\ link' = [link EXCEPT ![cur] = t]
               /\ mode' = "back"
               /\ UNCHANGED <<status, cur>>
      BY <3>2
    <3> QED BY <1>3, <3>1, <3>2 DEF Cocall
  <2> QED BY <1>3, <2>3, <2>4, <2>5 DEF Cocall
<1>4. ASSUME NEW t \in Thread, CocallRefused(t) PROVE TypeOK'
  BY NoValues, <1>4 DEF CocallRefused, Consumes
<1>5. ASSUME NEW t \in Thread, NEW v \in Payload, RawResume(t, v) PROVE TypeOK'
  BY ProgramValues, NoValues, <1>5 DEF RawResume, Resumes
<1>6. ASSUME NEW g \in Tag, NEW v \in Payload, TcYield(g, v) PROVE TypeOK'
  BY ProgramValues, <1>6 DEF TcYield, Suspends, ToResumer
<1>7. ASSUME NEW v \in Payload, RawYield(v) PROVE TypeOK'
  BY ProgramValues, <1>7 DEF RawYield, Suspends, ToResumer
<1>8. ASSUME NEW v \in Payload, Return(v) PROVE TypeOK'
  BY ProgramValues, <1>8 DEF Return, ToResumer
<1>9. CASE YieldRefused
  BY NoValues, <1>9 DEF YieldRefused, Consumes
<1>10. CASE Throw
  BY NoValues, <1>10 DEF Throw, Consumes
<1>11. CASE Catch
  BY LibraryValues, <1>11 DEF Catch
<1>12. CASE Die
  BY <1>12 DEF Die, ToResumer
<1>13. CASE MainEnds
  BY NoValues, <1>13 DEF MainEnds, Consumes
<1>14. CASE EnterC \/ LeaveC
  <2>1. CASE EnterC
    BY <2>1, NoValues DEF EnterC, Consumes
  <2>2. CASE LeaveC
    BY <2>2, NoValues DEF LeaveC, Consumes
  <2> QED BY <1>14, <2>1, <2>2
<1>15. ASSUME InAuxcallk
       PROVE  /\ Callee \in Thread
              /\ CalleeYielded => Yielder \in Thread /\ YieldTag \in Tag \cup {RawTag}
  BY <1>15 DEF InAuxcallk, CalleeYielded, Callee, Yielder, YieldTag, IsRaw, Structure,
               LinkedWhileWaiting, YieldInFlight, Waiting, Calling
<1>16. CASE BackOK
  <2>1. stk' \in [Thread -> Seq(Val)] /\ mode' \in Mode
    BY <1>15, <1>16, NoValues DEF BackOK, Moves, Overflows
  <2> QED BY <1>16, <2>1 DEF BackOK, LeavesFrame
<1>17. CASE BackForMe
  <2>1. Callee \in Thread /\ Yielder \in Thread
    BY <1>15, <1>17 DEF BackForMe, CalleeYielded
  <2>2. stk' \in [Thread -> Seq(Val)] /\ mode' \in Mode
    BY <1>17, <2>1, NoValues DEF BackForMe, Moves, Overflows
  <2> QED BY <1>17, <2>1, <2>2 DEF BackForMe, LeavesFrame, NoYieldInFlight
<1>18. CASE BackPass
  <2>1. Callee \in Thread /\ Yielder \in Thread /\ YieldTag \in Tag \cup {RawTag}
    BY <1>15, <1>18 DEF BackPass, CalleeYielded
  <2> QED BY <1>18, <2>1 DEF BackPass, Suspends, ToResumer
<1>19. CASE BackStopsHere
  <2>1. Callee \in Thread /\ Yielder \in Thread
    BY <1>15, <1>19 DEF BackStopsHere, CalleeYielded
  <2>2. stk' \in [Thread -> Seq(Val)]
    BY <1>19, <2>1, NoValues DEF BackStopsHere, Moves, Overflows
  <2>3. /\ status' \in [Thread -> Status]
        /\ frame' \in [Thread -> Frame]
        /\ link' \in [Thread -> Thread \cup {Nil}]
        /\ cur' \in Thread
        /\ mode' \in Mode
    BY <1>19 DEF BackStopsHere, LeavesFrame, Suspends, ToResumer
  <2> QED BY <1>19, <2>1, <2>2, <2>3 DEF BackStopsHere, NoYieldInFlight
<1>20. CASE BackFails
  BY LibraryValues, <1>15, <1>20 DEF BackFails, CalleeYielded, FailureValues, Resumes, Unstacks, NoYieldInFlight
<1>21. CASE BackLost
  BY NoValues, <1>21 DEF BackLost, NoYieldInFlight
<1>22. CASE BackErr
  BY NoValues, <1>15, <1>22 DEF BackErr, ErrorSource, LeavesFrame
<1>23. CASE RawBack
  <2>1. Callee \in Thread
    BY <1>23 DEF RawBack, Callee, Structure, LinkedWhileWaiting, Waiting, Calling
  <2>2. stk[Callee] \o <<"tag", "thread", "sentinel">> \in Seq(Val)
    BY <2>1, ConcatValues, LibraryValues
  <2> QED BY LibraryValues, <1>23, <2>1, <2>2 DEF RawBack, LeavesFrame, NoYieldInFlight
<1>24. CASE ContPlain
  BY <1>24 DEF ContPlain, LeavesFrame
<1>25. CASE ContYieldk
  <2>1. stk' \in [Thread -> Seq(Val)] /\ mode' \in Mode
    BY <1>25, NoValues DEF ContYieldk, Consumes
  <2> QED BY <1>25, <2>1 DEF ContYieldk, LeavesFrame
<1>26. ASSUME mode = "cont", frame[cur] \in {"passk", "untk"} PROVE Callee \in Thread
  BY <1>26 DEF Callee, Structure, LinkedWhileWaiting, Waiting, Calling
<1>27. CASE ContPassk
  BY NoValues, <1>26, <1>27 DEF ContPassk, Resumes, Unstacks
<1>28. CASE ContUntaggedk
  <2>1. Callee \in Thread
    BY <1>26, <1>28 DEF ContUntaggedk
  <2>2. source[Callee] \in Thread => stk[source[Callee]] \o stk[cur] \in Seq(Val)
    BY <2>1, ConcatValues
  <2>3. stk' \in [Thread -> Seq(Val)]
    BY <1>28, <2>1, <2>2, NoValues DEF ContUntaggedk
  <2> QED BY <1>28, <2>1, <2>3 DEF ContUntaggedk, Resumes, ClearsSource, Unstacks
<1>29. CASE UNCHANGED vars
  BY <1>29 DEF vars
<1> QED BY <1>1, <1>2, <1>3, <1>4, <1>5, <1>6, <1>7, <1>8, <1>9, <1>10, <1>11, <1>12,
           <1>13, <1>14, <1>16, <1>17, <1>18, <1>19, <1>20, <1>21, <1>22, <1>23, <1>24,
           <1>25, <1>27, <1>28, <1>29
        DEF Next, Program, Library, Terminated
-----------------------------------------------------------------------------
\* When cur gives up control, whoever still runs keeps its resumer.
LEMMA ResumersStay ==
    ASSUME TypeOK, Structure, link[cur] = Nil, link' = link,
           \A t \in Thread : status'[t] = "active" <=> status[t] = "active" /\ t # cur
    PROVE  RunningHasResumer'
<1> SUFFICES ASSUME NEW t \in Thread \ {Main}, status'[t] = "active"
             PROVE  \E p \in Thread : status'[p] = "active" /\ link'[p] = t
  BY DEF RunningHasResumer
<1>1. PICK p \in Thread : status[p] = "active" /\ link[p] = t
  BY DEF Structure, RunningHasResumer
<1>2. p # cur
  BY <1>1, ThreadAssumption
<1> QED BY <1>1, <1>2

\* Every step keeps the inductive invariant.
LEMMA StructureStep == TypeOK /\ Structure /\ [Next]_vars => Structure'
<1> SUFFICES ASSUME TypeOK, Structure, [Next]_vars PROVE Structure'
  OBVIOUS
<1> USE ThreadAssumption
    DEF TypeOK, lua, meta, inflight, Structure, FramesMatchStatus, CurMatchesMode,
        CorosetIsCreated, LinkedWhileWaiting, CalleeMatchesFrame, OneResumer,
        RunningHasResumer, ParentIsResumer, YieldInFlight, StackedUnlessOverflow,
        StackedIsOnAStack, CalleeYielded, InAuxcallk, Callee, Waiting, Calling, Suspended
<1>1. ASSUME NEW t \in Thread, NEW g \in Tag, Cocreate(t, g) PROVE Structure'
  <2>1. FramesMatchStatus' /\ CurMatchesMode' /\ CorosetIsCreated' /\ LinkedWhileWaiting'
    BY <1>1 DEF Cocreate
  <2>2. CalleeMatchesFrame'
    BY <1>1 DEF Cocreate
  <2>3. OneResumer' /\ RunningHasResumer' /\ ParentIsResumer'
    BY <1>1 DEF Cocreate
  <2>4. YieldInFlight' /\ StackedUnlessOverflow'
    BY <1>1 DEF Cocreate
  <2> QED BY <2>1, <2>2, <2>3, <2>4
<1>2. ASSUME NEW t \in Thread, CreateUntagged(t) PROVE Structure'
  BY <1>2 DEF CreateUntagged
<1>3. ASSUME NEW t \in Thread, NEW v \in Payload, Cocall(t, v) PROVE Structure'
  <2>0. mode = "run" /\ Resumable(t)
    BY <1>3 DEF Cocall
  <2>1. /\ status[t] \in {"new", "yield", "err"}
        /\ t \in coroset /\ t # cur
        /\ frame[cur] = "body" /\ link[cur] = Nil
        /\ ~stacked[t]
    <3>1. status[t] \in {"new", "yield", "err"} /\ t \in coroset /\ ~stacked[t]
      BY <2>0 DEF Resumable, Status
    <3>2. frame[cur] = "body" /\ link[cur] = Nil
      BY <2>0
    <3> QED BY <3>1, <3>2
  <2>2. \A p \in Thread : link[p] # t
    <3> SUFFICES ASSUME NEW p \in Thread, link[p] = t PROVE FALSE
      OBVIOUS
    <3>1. frame[p] \in Waiting
      BY <2>1
    <3>2. CASE frame[p] \in Calling
      BY <2>0, <2>1, <3>2
    <3>3. CASE frame[p] \in {"passk", "untk"}
      BY <2>1, <3>3
    <3> QED BY <3>1, <3>2, <3>3
  <2>3. /\ link' = [link EXCEPT ![cur] = t]
        /\ frame' = [frame EXCEPT ![cur] = "call"]
        /\ parent' = [parent EXCEPT ![t] = cur]
        /\ coroset' = coroset
        /\ \/ /\ mode' = "cont" /\ cur' = t
              /\ status[t] # "err" /\ status' = [status EXCEPT ![t] = "active"]
           \/ mode' = "back" /\ cur' = cur /\ status[t] = "err" /\ status' = status
    BY <1>3, <2>1 DEF Cocall, Resumes, SetsParent
  <2>4. stacked' = stacked
    BY <1>3, <2>1 DEF Cocall, Unstacks
  <2>5. FramesMatchStatus' /\ CurMatchesMode' /\ CorosetIsCreated'
    BY <2>1, <2>2, <2>3, <2>4
  <2>6. LinkedWhileWaiting'
    BY <2>1, <2>2, <2>3, <2>4
  <2>7. CalleeMatchesFrame'
    BY <2>1, <2>2, <2>3, <2>4
  <2>8. OneResumer'
    BY <2>1, <2>2, <2>3, <2>4
  <2>9. RunningHasResumer'
    <3> SUFFICES ASSUME NEW q \in Thread \ {Main}, status'[q] = "active"
                 PROVE  \E p \in Thread : status'[p] = "active" /\ link'[p] = q
      OBVIOUS
    <3>1. CASE q = t
      BY <2>1, <2>3, <3>1
    <3>2. CASE q # t
      <4>1. status[q] = "active"
        BY <2>3, <3>2
      <4>2. PICK p \in Thread : status[p] = "active" /\ link[p] = q
        BY <4>1
      <4> QED BY <2>1, <2>3, <4>2
    <3> QED BY <3>1, <3>2
  <2>10. ParentIsResumer' /\ YieldInFlight' /\ StackedUnlessOverflow'
    BY <2>1, <2>2, <2>3, <2>4
  <2> QED BY <2>5, <2>6, <2>7, <2>8, <2>9, <2>10
<1>4. ASSUME NEW t \in Thread, CocallRefused(t) PROVE Structure'
  BY <1>4 DEF CocallRefused
<1>5. ASSUME NEW t \in Thread, NEW v \in Payload, RawResume(t, v) PROVE Structure'
  BY <1>5 DEF RawResume, Resumes
<1>6. ASSUME NEW g \in Tag, NEW v \in Payload, TcYield(g, v) PROVE Structure'
  <2>1. link[cur] = Nil /\ cur # Main
    BY <1>6 DEF TcYield, Suspends, ToResumer, Yieldable
  <2>2. RunningHasResumer'
    BY <1>6, <2>1, ResumersStay DEF TcYield, Suspends, ToResumer
  <2>3. FramesMatchStatus' /\ CurMatchesMode' /\ CorosetIsCreated'
    BY TagAssumption, <1>6, <2>1 DEF TcYield, Suspends, ToResumer
  <2>4. LinkedWhileWaiting'
    BY TagAssumption, <1>6, <2>1 DEF TcYield, Suspends, ToResumer
  <2>5. CalleeMatchesFrame'
    BY TagAssumption, <1>6, <2>1 DEF TcYield, Suspends, ToResumer
  <2>6. OneResumer' /\ ParentIsResumer' /\ YieldInFlight'
    BY TagAssumption, <1>6, <2>1 DEF TcYield, Suspends, ToResumer
  <2>7. StackedUnlessOverflow'
    BY TagAssumption, <1>6, <2>1 DEF TcYield, Suspends, ToResumer
  <2> QED BY <2>2, <2>3, <2>4, <2>5, <2>6, <2>7
<1>7. ASSUME NEW v \in Payload, RawYield(v) PROVE Structure'
  <2>1. link[cur] = Nil /\ cur # Main
    BY <1>7 DEF RawYield, Suspends, ToResumer, Yieldable
  <2>2. RunningHasResumer'
    BY <1>7, <2>1, ResumersStay DEF RawYield, Suspends, ToResumer
  <2>3. FramesMatchStatus' /\ CurMatchesMode' /\ CorosetIsCreated'
    BY <1>7, <2>1 DEF RawYield, Suspends, ToResumer
  <2>4. LinkedWhileWaiting'
    BY <1>7, <2>1 DEF RawYield, Suspends, ToResumer
  <2>5. CalleeMatchesFrame'
    BY <1>7, <2>1 DEF RawYield, Suspends, ToResumer
  <2>6. OneResumer' /\ ParentIsResumer' /\ YieldInFlight'
    BY <1>7, <2>1 DEF RawYield, Suspends, ToResumer
  <2>7. StackedUnlessOverflow'
    BY <1>7, <2>1 DEF RawYield, Suspends, ToResumer
  <2> QED BY <2>2, <2>3, <2>4, <2>5, <2>6, <2>7
<1>8. ASSUME NEW v \in Payload, Return(v) PROVE Structure'
  <2>1. link[cur] = Nil /\ cur # Main
    BY <1>8 DEF Return, ToResumer, Yieldable
  <2>2. RunningHasResumer'
    BY <1>8, <2>1, ResumersStay DEF Return, ToResumer
  <2>3. FramesMatchStatus' /\ CurMatchesMode' /\ CorosetIsCreated'
    BY <1>8, <2>1 DEF Return, ToResumer
  <2>4. LinkedWhileWaiting'
    BY <1>8, <2>1 DEF Return, ToResumer
  <2>5. CalleeMatchesFrame'
    BY <1>8, <2>1 DEF Return, ToResumer
  <2>6. OneResumer' /\ ParentIsResumer' /\ YieldInFlight'
    BY <1>8, <2>1 DEF Return, ToResumer
  <2>7. StackedUnlessOverflow'
    BY <1>8, <2>1 DEF Return, ToResumer
  <2> QED BY <2>2, <2>3, <2>4, <2>5, <2>6, <2>7
<1>9. CASE YieldRefused
  BY <1>9 DEF YieldRefused
<1>10. CASE Throw
  BY <1>10 DEF Throw
<1>11. CASE Catch
  BY <1>11 DEF Catch
<1>12. CASE Die
  <2>1. link[cur] = Nil /\ cur # Main
    BY <1>12 DEF Die, ToResumer, Yieldable
  <2>2. RunningHasResumer'
    BY <1>12, <2>1, ResumersStay DEF Die, ToResumer
  <2>3. FramesMatchStatus' /\ CurMatchesMode' /\ CorosetIsCreated'
    BY <1>12, <2>1 DEF Die, ToResumer
  <2>4. LinkedWhileWaiting'
    BY <1>12, <2>1 DEF Die, ToResumer
  <2>5. CalleeMatchesFrame'
    BY <1>12, <2>1 DEF Die, ToResumer
  <2>6. OneResumer' /\ ParentIsResumer' /\ YieldInFlight'
    BY <1>12, <2>1 DEF Die, ToResumer
  <2>7. StackedUnlessOverflow'
    BY <1>12, <2>1 DEF Die, ToResumer
  <2> QED BY <2>2, <2>3, <2>4, <2>5, <2>6, <2>7
<1>13. CASE MainEnds
  BY <1>13 DEF MainEnds
<1>14. CASE EnterC
  BY <1>14 DEF EnterC
<1>15. CASE LeaveC
  BY <1>15 DEF LeaveC
<1>16. CASE BackOK
  BY <1>16 DEF BackOK, LeavesFrame
<1>17. CASE BackForMe
  BY <1>17 DEF BackForMe, LeavesFrame, NoYieldInFlight
<1>18. CASE BackPass
  <2>1. FramesMatchStatus' /\ CurMatchesMode' /\ CorosetIsCreated' /\ LinkedWhileWaiting'
    BY TagAssumption, <1>18 DEF BackPass, CanPass, YieldTag, Yielder, IsRaw, Yieldable, Suspends,
                               ToResumer
  <2>2. CalleeMatchesFrame'
    BY TagAssumption, <1>18 DEF BackPass, CanPass, YieldTag, Yielder, IsRaw, Yieldable, Suspends,
                               ToResumer
  <2>3. OneResumer' /\ RunningHasResumer' /\ ParentIsResumer'
    BY TagAssumption, <1>18 DEF BackPass, CanPass, YieldTag, Yielder, IsRaw, Yieldable, Suspends,
                               ToResumer
  <2>4. YieldInFlight' /\ StackedUnlessOverflow'
    BY TagAssumption, <1>18 DEF BackPass, CanPass, YieldTag, Yielder, IsRaw, Yieldable, Suspends,
                               ToResumer
  <2> QED BY <2>1, <2>2, <2>3, <2>4
<1>19. CASE BackStopsHere
  <2>1. /\ link[cur] = Callee /\ Callee \in Thread /\ status[Callee] = "yield"
        /\ frame[cur] \in {"call", "callk"} /\ cur \notin coroset /\ cur # Main
    BY <1>19 DEF BackStopsHere, StopsHere, Yieldable
  <2>2. stacked' = [stacked EXCEPT ![Callee] = TRUE] /\ UNCHANGED <<coroset, parent>>
    BY <1>19 DEF BackStopsHere
  <2>3. CASE Suspends("untk") /\ UNCHANGED link
    <3>1. PICK p \in Thread :
             status[p] = "active" /\ link[p] = cur /\ cur' = p /\ mode' = "back"
      BY <2>3 DEF Suspends, ToResumer
    <3>2. p # cur /\ frame[p] = "raw"
      BY <2>1, <3>1
    <3>3. /\ status' = [status EXCEPT ![cur] = "yield"]
          /\ frame' = [frame EXCEPT ![cur] = "untk"]
          /\ link' = link
      BY <2>3 DEF Suspends
    <3>4. FramesMatchStatus' /\ CurMatchesMode' /\ CorosetIsCreated'
      BY <2>1, <2>2, <3>1, <3>2, <3>3
    <3>5. LinkedWhileWaiting'
      BY <2>1, <2>2, <3>1, <3>2, <3>3
    <3>6. CalleeMatchesFrame'
      <4> SUFFICES ASSUME NEW q \in Thread, link[q] # Nil
                   PROVE  /\ frame'[q] \in Calling =>
                                IF q = cur' /\ mode' \in {"back", "broken"}
                                THEN status'[link[q]] \in {"yield", "done", "err"}
                                ELSE status'[link[q]] = "active"
                          /\ frame'[q] = "raw" => link[q] \in Untagged
                          /\ frame'[q] # "raw" => link[q] \in coroset'
                          /\ frame'[q] \in {"call", "callk"} => ~stacked'[link[q]]
                          /\ frame'[q] \in {"passk", "untk"} =>
                                stacked'[link[q]] /\ status'[link[q]] = "yield"
        BY <3>3
      <4>1. CASE q = cur
        BY <2>1, <2>2, <3>3, <4>1
      <4>2. CASE q = p
        BY <2>1, <2>2, <3>1, <3>2, <3>3, <4>2
      <4>3. CASE q # cur /\ q # p
        <5>1. link[q] # cur /\ link[q] # Callee
          BY <2>1, <3>1, <4>3
        <5> QED BY <2>1, <2>2, <3>1, <3>2, <3>3, <4>3, <5>1
      <4> QED BY <4>1, <4>2, <4>3
    <3>7. OneResumer' /\ RunningHasResumer' /\ ParentIsResumer'
      BY <2>1, <2>2, <3>1, <3>2, <3>3
    <3>8. YieldInFlight' /\ StackedUnlessOverflow'
      BY <2>1, <2>2, <3>1, <3>2, <3>3
    <3> QED BY <3>4, <3>5, <3>6, <3>7, <3>8
  <2>4. CASE MayOverflow /\ LeavesFrame /\ mode' = "raise" /\ UNCHANGED <<status, cur>>
    <3>1. FramesMatchStatus' /\ CurMatchesMode' /\ CorosetIsCreated' /\ LinkedWhileWaiting'
      BY <2>1, <2>2, <2>4 DEF LeavesFrame
    <3>2. CalleeMatchesFrame'
      BY <2>1, <2>2, <2>4 DEF LeavesFrame
    <3>3. OneResumer' /\ RunningHasResumer' /\ ParentIsResumer'
      BY <2>1, <2>2, <2>4 DEF LeavesFrame
    <3>4. YieldInFlight' /\ StackedUnlessOverflow'
      BY <2>1, <2>2, <2>4 DEF LeavesFrame
    <3> QED BY <3>1, <3>2, <3>3, <3>4
  <2> QED BY <1>19, <2>3, <2>4 DEF BackStopsHere, Overflows
<1>20. CASE BackFails
  BY <1>20 DEF BackFails, Resumes, Unstacks, NoYieldInFlight
<1>21. CASE BackLost
  BY <1>21 DEF BackLost, NoYieldInFlight
<1>22. CASE BackErr
  BY <1>22 DEF BackErr, LeavesFrame
<1>23. CASE RawBack
  <2>1. FramesMatchStatus' /\ CurMatchesMode' /\ CorosetIsCreated' /\ LinkedWhileWaiting'
    BY <1>23 DEF RawBack, LeavesFrame, NoYieldInFlight
  <2>2. CalleeMatchesFrame'
    BY <1>23 DEF RawBack, LeavesFrame, NoYieldInFlight
  <2>3. OneResumer' /\ RunningHasResumer' /\ ParentIsResumer'
    BY <1>23 DEF RawBack, LeavesFrame, NoYieldInFlight
  <2>4. YieldInFlight' /\ StackedUnlessOverflow'
    BY <1>23 DEF RawBack, LeavesFrame, NoYieldInFlight
  <2> QED BY <2>1, <2>2, <2>3, <2>4
<1>24. CASE ContPlain
  <2>1. link[cur] = Nil /\ frame[cur] \notin {"passk", "untk"}
    BY <1>24 DEF ContPlain
  <2>2. link' = link /\ frame' = [frame EXCEPT ![cur] = "body"]
    BY <1>24, <2>1 DEF ContPlain, LeavesFrame
  <2>3. FramesMatchStatus' /\ CurMatchesMode' /\ CorosetIsCreated' /\ LinkedWhileWaiting'
    BY <1>24, <2>1, <2>2 DEF ContPlain
  <2>4. CalleeMatchesFrame'
    BY <1>24, <2>1, <2>2 DEF ContPlain
  <2>5. OneResumer' /\ RunningHasResumer' /\ ParentIsResumer'
    BY <1>24, <2>1, <2>2 DEF ContPlain
  <2>6. YieldInFlight' /\ StackedUnlessOverflow'
    BY <1>24, <2>1, <2>2 DEF ContPlain
  <2> QED BY <2>3, <2>4, <2>5, <2>6
<1>25. CASE ContYieldk
  <2>1. link[cur] = Nil /\ frame[cur] \notin {"passk", "untk"}
    BY <1>25 DEF ContYieldk
  <2>2. link' = link /\ frame' = [frame EXCEPT ![cur] = "body"]
    BY <1>25, <2>1 DEF ContYieldk, LeavesFrame
  <2>3. FramesMatchStatus' /\ CurMatchesMode' /\ CorosetIsCreated' /\ LinkedWhileWaiting'
    BY <1>25, <2>1, <2>2 DEF ContYieldk
  <2>4. CalleeMatchesFrame'
    BY <1>25, <2>1, <2>2 DEF ContYieldk
  <2>5. OneResumer' /\ RunningHasResumer' /\ ParentIsResumer'
    BY <1>25, <2>1, <2>2 DEF ContYieldk
  <2>6. YieldInFlight' /\ StackedUnlessOverflow'
    BY <1>25, <2>1, <2>2 DEF ContYieldk
  <2> QED BY <2>3, <2>4, <2>5, <2>6
<1>27. CASE ContPassk
  <2>1. /\ Callee # cur /\ Callee \in Thread /\ link[cur] = Callee
        /\ status[Callee] = "yield" /\ frame[Callee] \in Suspended
    BY <1>27 DEF ContPassk
  <2>2. FramesMatchStatus' /\ CurMatchesMode' /\ CorosetIsCreated' /\ LinkedWhileWaiting'
    BY <1>27, <2>1 DEF ContPassk, Resumes, Unstacks
  <2>3. CalleeMatchesFrame'
    BY <1>27, <2>1 DEF ContPassk, Resumes, Unstacks
  <2>4. OneResumer' /\ RunningHasResumer' /\ ParentIsResumer'
    BY <1>27, <2>1 DEF ContPassk, Resumes, Unstacks
  <2>5. YieldInFlight' /\ StackedUnlessOverflow'
    BY <1>27, <2>1 DEF ContPassk, Resumes, Unstacks
  <2> QED BY <2>2, <2>3, <2>4, <2>5
<1>28. CASE ContUntaggedk
  <2>1. /\ Callee # cur /\ Callee \in Thread /\ link[cur] = Callee
        /\ status[Callee] = "yield" /\ frame[Callee] \in Suspended
    BY <1>28 DEF ContUntaggedk
  <2>2. FramesMatchStatus' /\ CurMatchesMode' /\ CorosetIsCreated' /\ LinkedWhileWaiting'
    BY <1>28, <2>1 DEF ContUntaggedk, Resumes, Unstacks
  <2>3. CalleeMatchesFrame'
    BY <1>28, <2>1 DEF ContUntaggedk, Resumes, Unstacks
  <2>4. OneResumer' /\ RunningHasResumer' /\ ParentIsResumer'
    BY <1>28, <2>1 DEF ContUntaggedk, Resumes, Unstacks
  <2>5. YieldInFlight' /\ StackedUnlessOverflow'
    BY <1>28, <2>1 DEF ContUntaggedk, Resumes, Unstacks
  <2> QED BY <2>2, <2>3, <2>4, <2>5
<1>29. CASE UNCHANGED vars
  BY <1>29 DEF vars
<1> QED BY <1>1, <1>2, <1>3, <1>4, <1>5, <1>6, <1>7, <1>8, <1>9, <1>10, <1>11, <1>12,
           <1>13, <1>14, <1>15, <1>16, <1>17, <1>18, <1>19, <1>20, <1>21, <1>22, <1>23,
           <1>24, <1>25, <1>27, <1>28, <1>29
        DEF Next, Program, Library, Terminated
-----------------------------------------------------------------------------
\* Types: every variable keeps its type, whatever the program does.  In
\* particular auxcallk never takes a yielder or a callee that does not exist.
THEOREM TypeCorrect == Spec => []TypeOK
<1>1. TypeOK /\ Structure /\ [Next]_vars => (TypeOK /\ Structure)'
  BY TypeStep, StructureStep
<1> QED BY InitOK, <1>1, PTL DEF Spec

\* The inductive invariant: for any number of threads, tags and values the state
\* of each thread, the call it waits in, the thread it waits for and the metadata
\* of that thread fit together.
THEOREM StructureInvariant == Spec => []Structure
<1>1. TypeOK /\ Structure /\ [Next]_vars => (TypeOK /\ Structure)'
  BY TypeStep, StructureStep
<1> QED BY InitOK, <1>1, PTL DEF Spec

\* No coroutine is resumed by two others: the checks of taggedcoro_cocall
\* (lua_status, lua_getstack, the stacked flag) keep a second caller away from
\* every coroutine that runs, or is in the middle of a suspended stack.
THEOREM NoSecondResumer == Spec => []OneResumer
<1>1. Structure => OneResumer
  BY DEF Structure
<1> QED BY <1>1, StructureInvariant, PTL

\* Every running coroutine but the main thread has one that waits for it, so that
\* a yield, a return or an error always finds the lua_resume it ends.
THEOREM AlwaysResumed == Spec => []RunningHasResumer
<1>1. Structure => RunningHasResumer
  BY DEF Structure
<1> QED BY <1>1, StructureInvariant, PTL

\* meta[3], which isyieldable and traceback follow, is the coroutine that waits
\* for the callee, for as long as it waits.
THEOREM ParentIsRight == Spec => []ParentIsResumer
<1>1. Structure => ParentIsResumer
  BY DEF Structure
<1> QED BY <1>1, StructureInvariant, PTL

\* meta[2] says exactly which coroutines are in the middle of a suspended stack,
\* as long as moving yielded values does not raise an error: with MayOverflow it
\* need not (see OnlyPassedAreStacked).
THEOREM StackedIsRight == Spec => [](MayOverflow \/ StackedIsOnAStack)
<1>1. Structure => MayOverflow \/ StackedIsOnAStack
  BY DEF Structure, StackedUnlessOverflow
<1> QED BY <1>1, StructureInvariant, PTL

-----------------------------------------------------------------------------
(* The inductive invariant, beyond Structure.                              *)

\* y is the end of the stack that begins with t, where it waits in `how', and all
\* before it pass a yield along.
Ends(t, y, how) ==
    /\ y \in StackOf(t)
    /\ frame[y] = how
    /\ \A q \in StackOf(t) \ {y} : frame[q] = "passk"

\* All that run are on one stack, from the main thread to cur.
OneRunningStack ==
    \A t \in Thread : status[t] = "active" => t \in StackOf(Main) /\ cur \in StackOf(t)

\* Nothing suspended passes r along; or r is being rewound.
Root(r) ==
    \/ r = cur /\ mode = "cont"
    \/ /\ status[r] = "yield"
       /\ \A p \in Thread : link[p] = r => frame[p] \notin {"passk", "untk"}

SuspendedStacks ==
    \A t \in Thread : status[t] = "yield" =>
        /\ ~ccall[t]
        /\ \E r \in Thread : Root(r) /\ t \in StackOf(r)

PassedByTagged ==
    \A t \in Thread : /\ frame[t] = "passk" => t \in coroset
                      /\ frame[t] = "untk" => t \notin coroset

\* meta[3] and meta[4] begin as nil.
NotCalledYet ==
    /\ parent[Main] = Nil
    /\ \A t \in Thread :
          status[t] = "new" \/ t \notin coroset => parent[t] = Nil /\ source[t] = Nil

\* meta[4] of what can be called, and of what an untagged coroutine has called.
SourcesEnd ==
    /\ \A t \in coroset :
          status[t] = "yield" /\ ~stacked[t] /\ (\A p \in Thread : link[p] # t)
             => Ends(t, source[t], "yieldk")
    /\ \A u \in Thread : frame[u] = "untk" => Ends(link[u], source[link[u]], "uyield")

\* The same of the yield on its way, which has passed nobody who wants it.
YielderEnds ==
    /\ CalleeYielded =>
          /\ Ends(Callee, Yielder, IF YieldTag = RawTag THEN "uyield" ELSE "yieldk")
          /\ \A q \in StackOf(Callee) \ {Callee} : tag[q] # YieldTag
    /\ mode = "back" /\ status[Callee] = "yield" /\ frame[Callee] = "yieldk"
          => yfrom = Callee /\ ytag # RawTag

\* All other sources come from errors.
SourcesDied ==
    /\ \A t \in Thread : source[t] # Nil =>
          \/ status[source[t]] = "err"
          \/ status[t] = "yield" /\ \A p \in Thread : link[p] = t => frame[p] = "untk"
    /\ \A t \in coroset : status[t] = "err" /\ source[t] = Nil => mode = "back" /\ Callee = t

\* Whose values are to be moved when auxcallk or coroutine.resume continues.
Holder == IF status[Callee] = "yield" /\ frame[cur] # "raw" THEN Yielder ELSE Callee

ValuesHeld ==
    \A t \in Thread : stk[t] # <<>> /\ status[t] # "err" =>
        /\ mode \in {"run", "raise"} => t = cur
        /\ mode = "back" => t = Holder
        /\ mode = "cont" => t = cur \/ (t \in StackOf(cur) /\ link[t] = Nil)

StacksInv ==
    /\ OneRunningStack
    /\ SuspendedStacks
    /\ PassedByTagged
    /\ NotCalledYet
    /\ SourcesEnd
    /\ YielderEnds
    /\ SourcesDied
    /\ ValuesHeld
    /\ TracebackEnds
-----------------------------------------------------------------------------
(* Walks.  Steps(next) is what `next' has to be.                           *)

Steps(next) == next \in [Thread -> Thread \cup {Nil}]

\* A walk begins at its start, and stays in Thread.
LEMMA WalkBegins ==
    ASSUME NEW t \in Thread, NEW next
    PROVE  t \in Walk(t, next) /\ Walk(t, next) \subseteq Thread
BY DEF Walk

\* No step leads out of a walk.
LEMMA WalkGoesOn ==
    ASSUME NEW t \in Thread, NEW next, Steps(next)
    PROVE  Closed(Walk(t, next), next)
<1> SUFFICES ASSUME NEW p \in Walk(t, next), next[p] # Nil, next[p] \notin Walk(t, next)
             PROVE  FALSE
  BY DEF Closed
<1>1. p \in Thread /\ next[p] \in Thread
  BY DEF Walk, Steps
<1>2. PICK S \in SUBSET (Thread \ {next[p]}) : t \in S /\ Closed(S, next)
  BY <1>1 DEF Walk
<1>3. p \notin S
  BY <1>2 DEF Closed
<1> QED BY <1>1, <1>2, <1>3 DEF Walk

\* A walk stays in every set that holds its start and that no step leaves.
LEMMA WalkStays ==
    ASSUME NEW t \in Thread, NEW next, NEW S \in SUBSET Thread, t \in S, Closed(S, next)
    PROVE  Walk(t, next) \subseteq S
<1> SUFFICES ASSUME NEW q \in Walk(t, next), q \notin S
             PROVE  FALSE
  OBVIOUS
<1> QED BY DEF Walk

\* What a walk comes across after its start it reaches by a step.
LEMMA WalkReaches ==
    ASSUME NEW t \in Thread, NEW next, Steps(next), NEW q \in Walk(t, next), q # t
    PROVE  \E p \in Walk(t, next) : next[p] = q
<1> SUFFICES ASSUME \A p \in Walk(t, next) : next[p] # q
             PROVE  FALSE
  OBVIOUS
<1> DEFINE S == Walk(t, next) \ {q}
<1>1. S \in SUBSET Thread /\ t \in S
  BY WalkBegins
<1>2. Closed(S, next)
  BY WalkGoesOn DEF Closed
<1>3. Walk(t, next) \subseteq S
  BY <1>1, <1>2, WalkStays
<1> QED BY <1>3

\* A walk without steps.
LEMMA WalkEnds ==
    ASSUME NEW t \in Thread, NEW next, next[t] = Nil
    PROVE  Walk(t, next) = {t}
<1>1. Closed({t}, next)
  BY DEF Closed
<1> QED BY <1>1, WalkBegins, WalkStays

\* The first step of a walk.
LEMMA WalkFirst ==
    ASSUME NEW t \in Thread, NEW next, Steps(next), next[t] # Nil
    PROVE  /\ next[t] \in Thread
           /\ Walk(t, next) = {t} \cup Walk(next[t], next)
<1>1. next[t] \in Thread
  BY DEF Steps
<1>2. Closed(Walk(next[t], next), next) /\ Closed(Walk(t, next), next)
  BY <1>1, WalkGoesOn
<1>3. Walk(next[t], next) \subseteq Walk(t, next)
  <2>1. next[t] \in Walk(t, next)
    BY <1>2, WalkBegins DEF Closed
  <2> QED BY <1>1, <1>2, <2>1, WalkBegins, WalkStays
<1>4. Walk(t, next) \subseteq {t} \cup Walk(next[t], next)
  <2> DEFINE S == {t} \cup Walk(next[t], next)
  <2>1. Closed(S, next)
    BY <1>1, <1>2, WalkBegins DEF Closed
  <2>2. S \in SUBSET Thread /\ t \in S
    BY <1>1, WalkBegins
  <2> QED BY <2>1, <2>2, WalkStays
<1> QED BY <1>1, <1>3, <1>4, WalkBegins

\* From what a walk comes across there is no way out of it.
LEMMA WalkWithin ==
    ASSUME NEW t \in Thread, NEW next, Steps(next), NEW q \in Walk(t, next)
    PROVE  Walk(q, next) \subseteq Walk(t, next)
BY WalkGoesOn, WalkBegins, WalkStays

\* A walk does not change with steps it does not take.
LEMMA WalkUnchanged ==
    ASSUME NEW t \in Thread, NEW next, Steps(next), NEW next2, Steps(next2),
           \A p \in Walk(t, next) : next2[p] = next[p]
    PROVE  Walk(t, next2) = Walk(t, next)
<1>1. Closed(Walk(t, next), next)
  BY WalkGoesOn
<1>2. Closed(Walk(t, next), next2)
  BY <1>1 DEF Closed
<1>3. Walk(t, next2) \subseteq Walk(t, next)
  BY <1>2, WalkBegins, WalkStays
<1>4. Closed(Walk(t, next2), next2)
  BY WalkGoesOn
<1>5. Closed(Walk(t, next2), next)
  BY <1>3, <1>4 DEF Closed
<1>6. Walk(t, next) \subseteq Walk(t, next2)
  BY <1>5, WalkBegins, WalkStays
<1> QED BY <1>3, <1>6

\* A walk that takes more steps gets at least as far.
LEMMA WalkGrows ==
    ASSUME NEW t \in Thread, NEW next, NEW next2, Steps(next2),
           \A p \in Thread : next[p] # Nil => next2[p] = next[p]
    PROVE  Walk(t, next) \subseteq Walk(t, next2)
<1>1. Closed(Walk(t, next2), next2) /\ t \in Walk(t, next2) /\ Walk(t, next2) \subseteq Thread
  BY WalkGoesOn, WalkBegins
<1>2. Closed(Walk(t, next2), next)
  BY <1>1 DEF Closed
<1> QED BY <1>1, <1>2, WalkStays

-----------------------------------------------------------------------------
(* StacksInv of suspended coroutines.                                         *)

LEMMA LinkSteps == TypeOK => Steps(link)
BY DEF TypeOK, Steps

\* Below a coroutine that does not run nothing runs, and below a suspended one
\* everything is suspended.
LEMMA SuspendedBelow ==
    ASSUME TypeOK, Structure, NEW t \in Thread, NEW q \in StackOf(t)
    PROVE  /\ q \in Thread
           /\ status[t] # "active" => status[q] # "active"
           /\ status[t] = "yield" => status[q] = "yield"
<1> USE DEF TypeOK, Structure, FramesMatchStatus, CurMatchesMode, LinkedWhileWaiting,
            CalleeMatchesFrame, Status, Waiting, Calling, Suspended
<1>1. q \in Thread
  BY WalkBegins DEF StackOf
<1>2. ASSUME NEW p \in Thread, status[p] # "active", link[p] # Nil
      PROVE  status[p] = "yield" /\ link[p] \in Thread /\ status[link[p]] = "yield"
  <2>1. link[p] \in Thread /\ frame[p] \in Waiting
    BY <1>2
  <2>2. status[p] = "yield" /\ frame[p] \in {"passk", "untk"}
    BY <1>2, <2>1
  <2> QED BY <1>2, <2>1, <2>2
<1>3. Closed({p \in Thread : status[p] # "active"}, link)
  BY <1>2 DEF Closed
<1>4. Closed({p \in Thread : status[p] = "yield"}, link)
  BY <1>2 DEF Closed
<1>5. status[t] # "active" => StackOf(t) \subseteq {p \in Thread : status[p] # "active"}
  BY <1>3, WalkStays DEF StackOf
<1>6. status[t] = "yield" => StackOf(t) \subseteq {p \in Thread : status[p] = "yield"}
  BY <1>4, WalkStays DEF StackOf
<1> QED BY <1>1, <1>5, <1>6

\* Hence cur is not on it.
LEMMA CurNotBelow ==
    ASSUME TypeOK, Structure, NEW t \in Thread, status[t] # "active"
    PROVE  cur \notin StackOf(t)
BY SuspendedBelow DEF Structure, CurMatchesMode

\* A step changes the frame, and what it waits for, of the running coroutine only.
LEMMA OthersStay ==
    ASSUME TypeOK, Structure, [Next]_vars
    PROVE  \A p \in Thread \ {cur} : link'[p] = link[p] /\ frame'[p] = frame[p]
<1> USE DEF TypeOK, lua, Resumes, Suspends, LeavesFrame
<1>1. CASE Program
  BY <1>1 DEF Program, Cocreate, CreateUntagged, Cocall, CocallRefused, RawResume, TcYield,
        RawYield, Return, YieldRefused, Throw, Catch, Die, MainEnds, EnterC, LeaveC
<1>2. CASE Library
  BY <1>2 DEF Library, BackOK, BackForMe, BackPass, BackStopsHere, BackFails, BackLost,
        BackErr, RawBack, ContPlain, ContYieldk, ContPassk, ContUntaggedk
<1>3. CASE UNCHANGED vars
  BY <1>3 DEF vars
<1> QED BY <1>1, <1>2, <1>3 DEF Next, Terminated

\* So the stack below one that does not run stays as it is.
LEMMA StackKept ==
    ASSUME TypeOK, Structure, TypeOK',
           \A p \in Thread \ {cur} : link'[p] = link[p] /\ frame'[p] = frame[p],
           NEW t \in Thread, status[t] # "active"
    PROVE  /\ StackOf(t)' = StackOf(t)
           /\ \A q \in StackOf(t) : link'[q] = link[q] /\ frame'[q] = frame[q]
<1>1. Steps(link) /\ Steps(link')
  BY DEF TypeOK, Steps
<1>2. \A q \in StackOf(t) : q \in Thread \ {cur}
  BY SuspendedBelow, CurNotBelow
<1>3. \A q \in StackOf(t) : link'[q] = link[q] /\ frame'[q] = frame[q]
  BY <1>2
<1> QED BY <1>1, <1>3, WalkUnchanged DEF StackOf

LEMMA StackStays ==
    ASSUME TypeOK, Structure, [Next]_vars, NEW t \in Thread, status[t] # "active"
    PROVE  /\ StackOf(t)' = StackOf(t)
           /\ \A q \in StackOf(t) : link'[q] = link[q] /\ frame'[q] = frame[q]
BY TypeStep, OthersStay, StackKept

LEMMA EndsStay ==
    ASSUME TypeOK, Structure, [Next]_vars, NEW t \in Thread, status[t] # "active",
           NEW y, NEW how, Ends(t, y, how)
    PROVE  /\ y \in StackOf(t)'
           /\ frame'[y] = how
           /\ \A q \in StackOf(t)' \ {y} : frame'[q] = "passk"
BY StackStays DEF Ends

-----------------------------------------------------------------------------
(* What steps do to the stacks: there are five kinds.                      *)

\* No stack changes.  What cur executes may begin, or end, where it calls nobody.
StacksStay ==
    /\ UNCHANGED <<link, cur>>
    /\ \A t \in Thread : status'[t] = status[t] \/ (status[t] = "none" /\ status'[t] = "new")
    /\ \/ frame' = frame /\ (mode = "cont" => mode' = "cont")
       \/ link[cur] = Nil /\ frame' = [frame EXCEPT ![cur] = "body"]

\* cur calls co, or rewinds its stack as far as co.
Calls(co) ==
    /\ status[co] \in {"new", "yield"}
    /\ link[cur] \in {Nil, co}
    /\ mode = "cont" => link[cur] = co
    /\ \E how \in Calling : Resumes(co, how)

\* cur calls the dead co.
CallsDead(co) ==
    /\ mode = "run"
    /\ status[co] = "err"
    /\ link[cur] = Nil
    /\ link' = [link EXCEPT ![cur] = co]
    /\ frame' = [frame EXCEPT ![cur] = "call"]
    /\ mode' = "back"
    /\ UNCHANGED <<status, cur>>

\* A call of cur returns.
CallReturns ==
    /\ mode = "back"
    /\ LeavesFrame
    /\ mode' \in {"run", "raise"}
    /\ UNCHANGED <<status, cur>>

\* cur yields, returns or dies.
GivesBack ==
    /\ mode # "cont"
    /\ cur # Main
    /\ ToResumer
    /\ link' = link
    /\ status'[cur] \in {"yield", "done", "err"}
    /\ status' = [status EXCEPT ![cur] = status'[cur]]
    /\ frame' = [frame EXCEPT ![cur] = frame'[cur]]
    /\ status'[cur] = "yield" => ~ccall[cur]
    /\ frame'[cur] \in {"passk", "untk"} => status'[cur] = "yield"

LEMMA StepKinds ==
    ASSUME TypeOK, Structure, [Next]_vars
    PROVE  \/ StacksStay
           \/ \E co \in Thread : Calls(co) \/ CallsDead(co)
           \/ CallReturns
           \/ GivesBack
<1> USE ThreadAssumption
    DEF TypeOK, lua, Structure, CurMatchesMode, FramesMatchStatus, LinkedWhileWaiting,
        CalleeMatchesFrame, Waiting, Calling, Suspended, Callee, Status, Frame
<1>1. ASSUME \E t \in Thread, g \in Tag : Cocreate(t, g)
      PROVE  StacksStay
  BY <1>1 DEF Cocreate, StacksStay
<1>2. ASSUME \E t \in Thread : CreateUntagged(t)
      PROVE  StacksStay
  BY <1>2 DEF CreateUntagged, StacksStay
<1>3. ASSUME NEW t \in Thread, NEW v \in Payload, Cocall(t, v)
      PROVE  Calls(t) \/ CallsDead(t)
  <2>1. mode = "run" /\ Resumable(t) /\ link[cur] = Nil
    BY <1>3 DEF Cocall
  <2>2. CASE status[t] \in {"new", "yield"}
    <3>1. Resumes(t, "call")
      BY <1>3, <2>2 DEF Cocall
    <3> QED BY <2>1, <2>2, <3>1 DEF Calls
  <2>3. CASE status[t] \notin {"new", "yield"}
    <3>1. status[t] = "err"
      BY <2>1, <2>3 DEF Resumable
    <3> QED BY <1>3, <2>1, <2>3, <3>1 DEF Cocall, CallsDead
  <2> QED BY <2>2, <2>3
<1>4. ASSUME (\E t \in Thread : CocallRefused(t)) \/ YieldRefused \/ Throw
      PROVE  StacksStay
  BY <1>4 DEF CocallRefused, YieldRefused, Throw, StacksStay
<1>5. ASSUME Catch \/ MainEnds \/ EnterC \/ LeaveC
      PROVE  StacksStay
  BY <1>5 DEF Catch, MainEnds, EnterC, LeaveC, StacksStay
<1>6. ASSUME NEW u \in Thread, NEW v \in Payload, RawResume(u, v)
      PROVE  Calls(u)
  BY <1>6 DEF RawResume, Calls
<1>7. ASSUME \E g \in Tag, v \in Payload : TcYield(g, v)
      PROVE  GivesBack
  BY <1>7 DEF TcYield, Suspends, GivesBack, Yieldable
<1>8. ASSUME \E v \in Payload : RawYield(v)
      PROVE  GivesBack
  BY <1>8 DEF RawYield, Suspends, GivesBack, Yieldable
<1>9. ASSUME (\E v \in Payload : Return(v)) \/ Die
      PROVE  GivesBack
  BY <1>9 DEF Return, Die, GivesBack
<1>10. ASSUME BackOK \/ BackErr \/ RawBack
       PROVE  CallReturns
  BY <1>10 DEF BackOK, BackErr, RawBack, InAuxcallk, CallReturns
<1>11. ASSUME BackForMe
       PROVE  CallReturns
  BY <1>11 DEF BackForMe, CalleeYielded, InAuxcallk, CallReturns
<1>12. ASSUME BackPass
       PROVE  GivesBack
  BY <1>12 DEF BackPass, CalleeYielded, InAuxcallk, CanPass, Yieldable, Suspends, GivesBack
<1>13. ASSUME BackStopsHere
       PROVE  GivesBack \/ CallReturns
  BY <1>13 DEF BackStopsHere, CalleeYielded, InAuxcallk, StopsHere, Yieldable, Suspends,
               GivesBack, CallReturns
<1>14. ASSUME BackFails
       PROVE  \E co \in Thread : Calls(co)
  <2>1. Callee \in Thread
    BY <1>14 DEF BackFails
  <2>2. Calls(Callee)
    BY <1>14, <2>1 DEF BackFails, CalleeYielded, InAuxcallk, Calls
  <2> QED BY <2>1, <2>2
<1>15. ASSUME BackLost \/ ContPlain \/ ContYieldk
       PROVE  StacksStay
  <2>1. CASE BackLost
    BY <2>1 DEF BackLost, CalleeYielded, InAuxcallk, StacksStay
  <2>2. CASE ContPlain \/ ContYieldk
    <3>1. frame[cur] \in {"body", "uyield", "yieldk"} /\ LeavesFrame /\ UNCHANGED <<status, cur>>
      BY <2>2 DEF ContPlain, ContYieldk
    <3>2. link[cur] = Nil
      BY <3>1
    <3>3. link' = link
      BY <3>1, <3>2 DEF LeavesFrame
    <3> QED BY <3>1, <3>2, <3>3 DEF LeavesFrame, StacksStay
  <2> QED BY <1>15, <2>1, <2>2
<1>16. ASSUME ContPassk \/ ContUntaggedk
       PROVE  \E co \in Thread : Calls(co)
  <2>1. Callee \in Thread
    BY <1>16 DEF ContPassk, ContUntaggedk
  <2>2. Calls(Callee)
    BY <1>16, <2>1 DEF ContPassk, ContUntaggedk, Calls, Resumes
  <2> QED BY <2>1, <2>2
<1>17. ASSUME UNCHANGED vars
       PROVE  StacksStay
  BY <1>17 DEF vars, StacksStay
<1> HIDE DEF TypeOK, Structure
<1> QED BY <1>1, <1>2, <1>3, <1>4, <1>5, <1>6, <1>7, <1>8, <1>9, <1>10, <1>11, <1>12, <1>13,
           <1>14, <1>15, <1>16, <1>17
        DEF Next, Program, Library, Terminated

\* The stack of a coroutine only grows, unless a call of cur returns.
LEMMA StacksGrow ==
    ASSUME TypeOK, TypeOK', NEW t \in Thread,
           StacksStay \/ GivesBack \/ \E co \in Thread : Calls(co) \/ CallsDead(co)
    PROVE  StackOf(t) \subseteq StackOf(t)'
<1>1. Steps(link')
  BY DEF TypeOK, Steps
<1>2. \A p \in Thread : link[p] # Nil => link'[p] = link[p]
  <2>1. CASE StacksStay \/ GivesBack
    BY <2>1 DEF StacksStay, GivesBack
  <2>2. ASSUME NEW co \in Thread, Calls(co) \/ CallsDead(co)
        PROVE  \A p \in Thread : link[p] # Nil => link'[p] = link[p]
    BY <2>2 DEF Calls, CallsDead, Resumes, TypeOK
  <2> QED BY <2>1, <2>2
<1> QED BY <1>1, <1>2, WalkGrows DEF StackOf

\* cur keeps its place on the stacks of those that run when its call returns.
LEMMA ReturnsOnStack ==
    ASSUME TypeOK, TypeOK', Structure, OneRunningStack, CallReturns,
           NEW t \in Thread, status[t] = "active"
    PROVE  cur \in StackOf(t)' /\ StackOf(t) \subseteq StackOf(t)' \cup StackOf(Callee)
<1> DEFINE S == StackOf(t)'
<1>1. /\ Steps(link) /\ Steps(link') /\ cur \in Thread
      /\ Callee \in Thread /\ status[Callee] # "active"
  BY DEF TypeOK, Steps, Callee, CallReturns, Structure, CurMatchesMode,
         LinkedWhileWaiting, CalleeMatchesFrame, Waiting, Calling
<1>2. link' = [link EXCEPT ![cur] = Nil] /\ link \in [Thread -> Thread \cup {Nil}]
  BY DEF CallReturns, LeavesFrame, TypeOK
<1>3. t \in S /\ S \subseteq Thread /\ Closed(S, link')
  BY <1>1, WalkBegins, WalkGoesOn DEF StackOf
<1>4. cur \in S
  <2> SUFFICES ASSUME cur \notin S PROVE FALSE
    OBVIOUS
  <2>1. Closed(S, link)
    BY <1>2, <1>3 DEF Closed
  <2>2. StackOf(t) \subseteq S
    BY <1>3, <2>1, WalkStays DEF StackOf
  <2> QED BY <2>2 DEF OneRunningStack
<1>5. Closed(S \cup StackOf(Callee), link)
  <2>1. /\ Callee \in StackOf(Callee) /\ StackOf(Callee) \subseteq Thread
        /\ Closed(StackOf(Callee), link)
    BY <1>1, WalkBegins, WalkGoesOn DEF StackOf
  <2> QED BY <1>2, <1>3, <2>1 DEF Closed, Callee
<1>6. StackOf(t) \subseteq S \cup StackOf(Callee)
  BY <1>1, <1>3, <1>5, WalkBegins, WalkStays DEF StackOf
<1> QED BY <1>4, <1>6

\* Every step keeps all that run on one stack.
LEMMA OneRunningStackStep ==
    ASSUME TypeOK, TypeOK', Structure, OneRunningStack,
           \/ StacksStay
           \/ \E co \in Thread : Calls(co) \/ CallsDead(co)
           \/ CallReturns
           \/ GivesBack
    PROVE  OneRunningStack'
<1> SUFFICES ASSUME NEW t \in Thread, status'[t] = "active"
             PROVE  t \in StackOf(Main)' /\ cur' \in StackOf(t)'
  BY DEF OneRunningStack
<1> USE ThreadAssumption
<1>0. /\ Steps(link) /\ Steps(link') /\ status \in [Thread -> Status]
      /\ cur \in Thread /\ status[cur] = "active" /\ status[Main] = "active"
  BY DEF TypeOK, Steps, Structure, CurMatchesMode
<1>1. CASE StacksStay
  <2>1. status[t] = "active" /\ cur' = cur
    BY <1>1 DEF StacksStay
  <2> QED BY <1>1, <2>1, StacksGrow DEF OneRunningStack
<1>2. ASSUME NEW co \in Thread, Calls(co)
      PROVE  t \in StackOf(Main)' /\ cur' \in StackOf(t)'
  <2>1. /\ link'[cur] = co /\ cur' = co /\ co # Nil
        /\ status[t] = "active" \/ t = co
    BY <1>0, <1>2 DEF Calls, Resumes, TypeOK
  <2>2. ASSUME NEW q \in Thread, status[q] = "active"
        PROVE  co \in StackOf(q)'
    <3>1. cur \in StackOf(q)'
      BY <1>2, <2>2, StacksGrow DEF OneRunningStack
    <3> QED BY <1>0, <2>1, <3>1, WalkGoesOn DEF StackOf, Closed
  <2>3. co \in StackOf(Main)' /\ co \in StackOf(co)'
    BY <1>0, <2>2, WalkBegins DEF StackOf
  <2>4. status[t] = "active" => t \in StackOf(Main)'
    BY <1>2, StacksGrow DEF OneRunningStack
  <2> QED BY <2>1, <2>2, <2>3, <2>4
<1>3. ASSUME NEW co \in Thread, CallsDead(co)
      PROVE  t \in StackOf(Main)' /\ cur' \in StackOf(t)'
  <2>1. status[t] = "active" /\ cur' = cur
    BY <1>3 DEF CallsDead
  <2> QED BY <1>3, <2>1, StacksGrow DEF OneRunningStack
<1>4. CASE CallReturns
  <2>1. status[t] = "active" /\ cur' = cur
    BY <1>4 DEF CallReturns
  <2>2. Callee \in Thread /\ status[Callee] # "active"
    BY <1>4 DEF TypeOK, Callee, CallReturns, Structure, CurMatchesMode,
                  LinkedWhileWaiting, CalleeMatchesFrame, Waiting, Calling
  <2>3. t \notin StackOf(Callee)
    BY <2>1, <2>2, SuspendedBelow
  <2> QED BY <1>0, <1>4, <2>1, <2>3, ReturnsOnStack DEF OneRunningStack
<1>5. CASE GivesBack
  <2>1. PICK p \in Thread : link[p] = cur /\ cur' = p
    BY <1>5 DEF GivesBack, ToResumer
  <2>2. status[t] = "active" /\ t # cur /\ link' = link
    BY <1>0, <1>5 DEF GivesBack
  <2>3. PICK q \in StackOf(t) : link[q] = cur
    BY <1>0, <2>2, WalkReaches DEF OneRunningStack, StackOf
  <2>4. q = p
    <3>1. q \in Thread /\ cur # Nil
      BY <1>0, WalkBegins DEF StackOf
    <3> QED BY <2>1, <2>3, <3>1 DEF Structure, OneResumer
  <2> QED BY <2>1, <2>2, <2>3, <2>4 DEF OneRunningStack, StackOf
<1> QED BY <1>1, <1>2, <1>3, <1>4, <1>5

\* Every step keeps a suspended coroutine on the stack of a root.
LEMMA SuspendedStacksStep ==
    ASSUME TypeOK, Structure, SuspendedStacks, [Next]_vars
    PROVE  SuspendedStacks'
<1> SUFFICES ASSUME NEW t \in Thread, status'[t] = "yield"
             PROVE  ~ccall'[t] /\ \E r \in Thread : Root(r)' /\ t \in StackOf(r)'
  BY DEF SuspendedStacks
<1> USE ThreadAssumption
<1>0. /\ TypeOK' /\ Steps(link) /\ Steps(link')
      /\ status \in [Thread -> Status] /\ frame \in [Thread -> Frame]
      /\ link \in [Thread -> Thread \cup {Nil}]
      /\ cur \in Thread /\ status[cur] = "active"
  BY TypeStep DEF TypeOK, Steps, Structure, CurMatchesMode
<1>1. ~ccall'[t]
  <2>1. status[t] = "yield" \/ (t = cur /\ ~ccall[t])
    <3>1. CASE StacksStay \/ CallReturns
      BY <3>1 DEF StacksStay, CallReturns
    <3>2. CASE \E co \in Thread : Calls(co) \/ CallsDead(co)
      BY <1>0, <3>2 DEF Calls, CallsDead, Resumes
    <3>3. CASE GivesBack
      BY <1>0, <3>3 DEF GivesBack
    <3> QED BY <3>1, <3>2, <3>3, StepKinds
  <2>2. ~ccall[t]
    BY <2>1 DEF SuspendedStacks
  <2>3. ccall'[t] # ccall[t] => EnterC \/ LeaveC \/ Catch \/ Die
    <3>1. CASE Program
      BY <3>1 DEF Program, lua, Cocreate, CreateUntagged, Cocall, CocallRefused, RawResume, TcYield,
        RawYield, Return, YieldRefused, Throw, MainEnds
    <3>2. CASE Library
      BY <3>2 DEF Library, lua, BackOK, BackForMe, BackPass, BackStopsHere, BackFails, BackLost,
        BackErr, RawBack, ContPlain, ContYieldk, ContPassk, ContUntaggedk
    <3>3. CASE UNCHANGED vars
      BY <3>3 DEF vars
    <3> QED BY <3>1, <3>2, <3>3 DEF Next, Terminated
  <2>4. EnterC \/ LeaveC \/ Catch \/ Die => ccall'[t] = ccall[t]
    <3>1. Die => status'[cur] = "err"
      BY <1>0 DEF Die
    <3>2. EnterC \/ LeaveC \/ Catch => status'[cur] = "active"
      BY <1>0 DEF EnterC, LeaveC, Catch
    <3>3. EnterC \/ LeaveC \/ Catch \/ Die => t # cur
      BY <3>1, <3>2
    <3>4. ccall \in [Thread -> BOOLEAN]
      BY DEF TypeOK
    <3> QED BY <3>3, <3>4 DEF EnterC, LeaveC, Catch, Die
  <2> QED BY <2>2, <2>3, <2>4
<1> SUFFICES \E r \in Thread : Root(r)' /\ t \in StackOf(r)'
  BY <1>1
<1>2. ASSUME status[t] = "yield" PROVE \E r \in Thread : Root(r) /\ t \in StackOf(r)
  BY <1>2 DEF SuspendedStacks
<1>3. CASE StacksStay
  <2>1. status[t] = "yield" /\ t # cur
    BY <1>0, <1>3 DEF StacksStay
  <2>2. PICK r \in Thread : Root(r) /\ t \in StackOf(r)
    BY <1>2, <2>1
  <2>3. t \in StackOf(r)'
    BY <1>3, <2>2, StacksGrow, TypeStep
  <2>4. Root(r)'
    <3>1. CASE r = cur /\ mode = "cont"
      <4>1. link[cur] # Nil
        BY <1>0, <2>1, <2>2, <3>1, WalkEnds DEF StackOf
      <4> QED BY <1>3, <3>1, <4>1 DEF StacksStay, Root
    <3>2. CASE status[r] = "yield" /\ \A p \in Thread : link[p] = r => frame[p] \notin {"passk", "untk"}
      <4>1. status'[r] = "yield"
        BY <1>3, <3>2 DEF StacksStay
      <4>2. \A p \in Thread : link'[p] = r => frame'[p] \notin {"passk", "untk"}
        BY <1>0, <1>3, <3>2 DEF StacksStay
      <4> QED BY <4>1, <4>2 DEF Root
    <3> QED BY <2>2, <3>1, <3>2 DEF Root
  <2> QED BY <2>3, <2>4
<1>4. ASSUME NEW co \in Thread, Calls(co)
      PROVE  \E r \in Thread : Root(r)' /\ t \in StackOf(r)'
  <2>1. /\ status[t] = "yield" /\ cur' = co /\ mode' = "cont" /\ co # cur
        /\ link' = [link EXCEPT ![cur] = co]
        /\ \E how \in Calling : frame' = [frame EXCEPT ![cur] = how]
        /\ status' = [status EXCEPT ![co] = "active"]
    BY <1>0, <1>4 DEF Calls, Resumes
  <2>2. Root(co)'
    BY <2>1 DEF Root
  <2>3. PICK r \in Thread : Root(r) /\ t \in StackOf(r)
    BY <1>2, <2>1
  <2>4. CASE r = cur
    <3>1. mode = "cont" /\ link[cur] = co
      BY <1>0, <1>4, <2>3, <2>4 DEF Root, Calls
    <3>2. t \in StackOf(co)
      BY <1>0, <2>1, <2>3, <2>4, <3>1, WalkFirst DEF StackOf
    <3>3. t \in StackOf(co)'
      BY <1>4, <3>2, StacksGrow, TypeStep
    <3> QED BY <2>2, <3>3
  <2>5. CASE r # cur
    <3>1. t \in StackOf(r)'
      BY <1>4, <2>3, StacksGrow, TypeStep
    <3>2. r # co => Root(r)'
      <4> SUFFICES ASSUME r # co PROVE Root(r)'
        OBVIOUS
      <4>1. status[r] = "yield" /\ \A p \in Thread : link[p] = r => frame[p] \notin {"passk", "untk"}
        BY <2>3, <2>5 DEF Root
      <4>2. \A p \in Thread : link'[p] = r => p # cur /\ link[p] = r /\ frame'[p] = frame[p]
        BY <1>0, <2>1
      <4> QED BY <1>0, <2>1, <4>1, <4>2 DEF Root
    <3> QED BY <2>2, <3>1, <3>2
  <2> QED BY <2>4, <2>5
<1>5. ASSUME NEW co \in Thread, CallsDead(co)
      PROVE  \E r \in Thread : Root(r)' /\ t \in StackOf(r)'
  <2>1. /\ status[t] = "yield" /\ mode = "run" /\ status[co] = "err"
        /\ link' = [link EXCEPT ![cur] = co]
        /\ frame' = [frame EXCEPT ![cur] = "call"]
        /\ status' = status
    BY <1>5 DEF CallsDead
  <2>2. PICK r \in Thread : Root(r) /\ t \in StackOf(r)
    BY <1>2, <2>1
  <2>3. status[r] = "yield" /\ \A p \in Thread : link[p] = r => frame[p] \notin {"passk", "untk"}
    BY <2>1, <2>2 DEF Root
  <2>4. \A p \in Thread : link'[p] = r => link[p] = r /\ frame'[p] = frame[p]
    BY <1>0, <2>1, <2>3
  <2>5. Root(r)'
    BY <2>1, <2>3, <2>4 DEF Root
  <2> QED BY <1>5, <2>2, <2>5, StacksGrow, TypeStep
<1>6. CASE CallReturns
  <2>1. /\ status[t] = "yield" /\ mode = "back"
        /\ link' = [link EXCEPT ![cur] = Nil]
        /\ frame' = [frame EXCEPT ![cur] = "body"]
        /\ status' = status
    BY <1>6 DEF CallReturns, LeavesFrame
  <2>2. PICK r \in Thread : Root(r) /\ t \in StackOf(r)
    BY <1>2, <2>1
  <2>3. status[r] = "yield" /\ \A p \in Thread : link[p] = r => frame[p] \notin {"passk", "untk"}
    BY <2>1, <2>2 DEF Root
  <2>4. \A p \in Thread : link'[p] = r => link[p] = r /\ frame'[p] = frame[p]
    BY <1>0, <2>1
  <2>5. Root(r)'
    BY <2>1, <2>3, <2>4 DEF Root
  <2> QED BY <2>2, <2>3, <2>5, StackStays
<1>7. CASE GivesBack
  <2>1. PICK c \in Thread : c = cur
    BY <1>0
  <2>2. PICK p \in Thread : status[p] = "active" /\ link[p] = c /\ cur' = p
    BY <1>7, <2>1 DEF GivesBack, ToResumer
  <2>3. /\ mode # "cont" /\ link' = link
        /\ \A q \in Thread \ {c} : status'[q] = status[q] /\ frame'[q] = frame[q]
        /\ frame'[c] \in {"passk", "untk"} => status'[c] = "yield"
    BY <1>0, <1>7, <2>1 DEF GivesBack
  <2>4. status'[c] = "yield" => Root(c)'
    <3>1. frame[p] \notin {"passk", "untk"}
      BY <2>2, <2>3 DEF Structure, FramesMatchStatus, Suspended
    <3>2. p # c
      <4>1. CASE mode \in {"run", "raise", "exit"}
        BY <1>0, <2>1, <2>2, <4>1
        DEF Structure, CurMatchesMode, LinkedWhileWaiting, Waiting, Calling
      <4>2. CASE mode \in {"back", "broken"}
        BY <1>0, <2>1, <2>2, <4>2 DEF Structure, CurMatchesMode, CalleeMatchesFrame
      <4> QED BY <2>3, <4>1, <4>2 DEF TypeOK, Mode
    <3>3. \A q \in Thread : link[q] = c => q = p
      BY <1>0, <2>2 DEF Structure, OneResumer
    <3> QED BY <2>3, <3>1, <3>2, <3>3 DEF Root
  <2>5. CASE t = c
    BY <1>0, <2>4, <2>5, WalkBegins DEF StackOf
  <2>6. CASE t # c
    <3>1. PICK r \in Thread : Root(r) /\ t \in StackOf(r)
      BY <1>2, <2>3, <2>6
    <3>2. status[r] = "yield" /\ r # c /\ \A q \in Thread : link[q] = r => frame[q] \notin {"passk", "untk"}
      BY <1>0, <2>1, <2>3, <3>1 DEF Root
    <3>3. t \in StackOf(r)'
      BY <1>7, <3>1, StacksGrow, TypeStep
    <3>4. CASE link[c] = r /\ frame'[c] \in {"passk", "untk"}
      <4>1. t \in StackOf(c)'
        BY <1>0, <2>3, <3>3, <3>4, WalkFirst DEF StackOf
      <4> QED BY <2>3, <2>4, <3>4, <4>1
    <3>5. CASE ~(link[c] = r /\ frame'[c] \in {"passk", "untk"})
      <4>1. Root(r)'
        BY <2>3, <3>2, <3>5 DEF Root
      <4> QED BY <3>3, <4>1
    <3> QED BY <3>4, <3>5
  <2> QED BY <2>5, <2>6
<1> QED BY <1>3, <1>4, <1>5, <1>6, <1>7, StepKinds

-----------------------------------------------------------------------------
(* The metadata.                                                           *)

\* Only a coroutine that is created gets metadata, and keeps it.
LEMMA CorosetStep ==
    ASSUME TypeOK, Structure, [Next]_vars
    PROVE  /\ \A t \in coroset : t \in coroset' /\ tag'[t] = tag[t]
           /\ \A t \in coroset' : t \in coroset \/ (status[t] = "none" /\ status'[t] = "new")
<1> USE DEF TypeOK, Structure, CorosetIsCreated, meta
<1>1. CASE \E t \in Thread, g \in Tag : Cocreate(t, g)
  BY <1>1 DEF Cocreate
<1>2. CASE coroset' = coroset /\ tag' = tag
  BY <1>2
<1>3. CASE Program
  BY <1>1, <1>2, <1>3
  DEF Program, CreateUntagged, Cocall, CocallRefused, RawResume, TcYield, RawYield, Return,
      YieldRefused, Throw, Catch, Die, MainEnds, EnterC, LeaveC
<1>4. CASE Library
  BY <1>2, <1>4
  DEF Library, BackOK, BackForMe, BackPass, BackStopsHere, BackFails, BackLost, BackErr,
      RawBack, ContPlain, ContYieldk, ContPassk, ContUntaggedk
<1>5. CASE UNCHANGED vars
  BY <1>2, <1>5 DEF vars
<1> QED BY <1>3, <1>4, <1>5 DEF Next, Terminated

\* Only auxcallk suspends cur while it waits for another.
LEMMA PassingStep ==
    ASSUME TypeOK, Structure, [Next]_vars, frame'[cur] \in {"passk", "untk"}
    PROVE  \/ frame'[cur] = frame[cur] /\ UNCHANGED vars
           \/ frame'[cur] = "passk" /\ BackPass
           \/ frame'[cur] = "untk" /\ BackStopsHere /\ Suspends("untk")
<1> USE DEF TypeOK, Structure, CurMatchesMode, lua, Resumes, Suspends, LeavesFrame
<1>1. CASE Program
  BY <1>1 DEF Program, Cocreate, CreateUntagged, Cocall, CocallRefused, RawResume, TcYield,
        RawYield, Return, YieldRefused, Throw, Catch, Die, MainEnds, EnterC, LeaveC
<1>2. CASE Library
  BY <1>2 DEF Library, BackOK, BackForMe, BackPass, BackStopsHere, BackFails, BackLost,
        BackErr, RawBack, ContPlain, ContYieldk, ContPassk, ContUntaggedk, CalleeYielded, InAuxcallk
<1>3. CASE UNCHANGED vars
  BY <1>3 DEF vars
<1> QED BY <1>1, <1>2, <1>3 DEF Next, Terminated

\* Tagged coroutines pass yields along, untagged ones stop them.
LEMMA PassedByTaggedStep ==
    ASSUME TypeOK, Structure, PassedByTagged, [Next]_vars
    PROVE  PassedByTagged'
<1> SUFFICES ASSUME NEW t \in Thread
             PROVE  /\ frame'[t] = "passk" => t \in coroset'
                    /\ frame'[t] = "untk" => t \notin coroset'
  BY DEF PassedByTagged
<1>1. frame[t] = "untk" => (t \in coroset' <=> t \in coroset)
  BY CorosetStep DEF Structure, FramesMatchStatus
<1>2. CASE t # cur
  BY <1>1, <1>2, CorosetStep, OthersStay DEF PassedByTagged
<1>3. CASE t = cur /\ UNCHANGED vars
  BY <1>3 DEF vars, PassedByTagged
<1>4. CASE t = cur /\ BackPass
  BY <1>4 DEF TypeOK, BackPass, CanPass, Suspends
<1>5. CASE t = cur /\ BackStopsHere
  BY <1>5 DEF TypeOK, BackStopsHere, StopsHere, Suspends, LeavesFrame
<1> QED BY <1>2, <1>3, <1>4, <1>5, PassingStep

\* Parents and sources are of coroutines that have been called.
LEMMA NotCalledYetStep ==
    ASSUME TypeOK, Structure, NotCalledYet, [Next]_vars
    PROVE  NotCalledYet'
<1> USE DEF TypeOK, Structure, CurMatchesMode, CorosetIsCreated, LinkedWhileWaiting,
            CalleeMatchesFrame, Waiting, Calling, Callee, meta, Status
<1>1. ASSUME NEW t \in Thread, parent'[t] # parent[t] \/ source'[t] # source[t]
      PROVE  t \in coroset /\ status[t] # "none" /\ status'[t] # "new" /\ (parent'[t] # parent[t] => t # Main)
  <2>1. CASE Program
    <3>1. ASSUME NEW co \in Thread, NEW v \in Payload, Cocall(co, v)
          PROVE  t = co /\ t \in coroset /\ status[t] # "none" /\ status'[t] # "new" /\ t # Main
      <4>1. co \in coroset /\ status[co] \notin {"none", "done", "active"} /\ t = co
        BY <1>1, <3>1 DEF Cocall, Resumable, ClearsSource, SetsParent
      <4>2. status'[t] # "new"
        BY <3>1, <4>1 DEF Cocall, Resumes
      <4> QED BY <4>1, <4>2
    <3> QED BY <1>1, <2>1, <3>1
        DEF Program, Cocreate, CreateUntagged, CocallRefused, RawResume, TcYield, RawYield,
            Return, YieldRefused, Throw, Catch, Die, MainEnds, EnterC, LeaveC
  <2>2. CASE Library
    <3>1. CASE BackForMe \/ BackStopsHere
      <4>1. /\ source' = [source EXCEPT ![Callee] = Yielder] /\ parent' = parent
            /\ status[Callee] = "yield" /\ frame[cur] \in {"call", "callk"}
        BY <3>1 DEF BackForMe, BackStopsHere, CalleeYielded, InAuxcallk
      <4>2. t = Callee /\ t \in coroset
        BY <1>1, <4>1
      <4>3. status' = status \/ status' = [status EXCEPT ![cur] = "yield"]
        BY <3>1 DEF BackForMe, BackStopsHere, Suspends
      <4> QED BY <4>1, <4>2, <4>3
    <3>2. CASE BackErr
      BY <1>1, <3>2 DEF BackErr, InAuxcallk
    <3>3. CASE ContUntaggedk
      BY <1>1, <3>3 DEF ContUntaggedk, ClearsSource, Resumes
    <3> QED BY <1>1, <2>2, <3>1, <3>2, <3>3
        DEF Library, BackOK, BackPass, BackFails, BackLost, RawBack, ContPlain, ContYieldk, ContPassk
  <2>3. CASE UNCHANGED vars
    BY <1>1, <2>3 DEF vars
  <2> QED BY <2>1, <2>2, <2>3 DEF Next, Terminated
<1>2. ASSUME NEW t \in Thread, status'[t] = "new" \/ t \notin coroset'
      PROVE  status[t] = "new" \/ t \notin coroset
  BY <1>2, CorosetStep, StepKinds DEF StacksStay, Calls, CallsDead, CallReturns, GivesBack, Resumes
<1>3. parent'[Main] = Nil
  BY ThreadAssumption, <1>1 DEF NotCalledYet
<1>4. ASSUME NEW t \in Thread, status'[t] = "new" \/ t \notin coroset'
      PROVE  parent'[t] = Nil /\ source'[t] = Nil
  BY <1>1, <1>2, <1>4, CorosetStep DEF NotCalledYet
<1> QED BY <1>3, <1>4 DEF NotCalledYet

\* The dead stay dead.
LEMMA DeadStep ==
    ASSUME TypeOK, Structure, [Next]_vars, NEW t \in Thread, status[t] = "err"
    PROVE  status'[t] = "err"
BY StepKinds DEF TypeOK, Structure, CurMatchesMode, StacksStay, Calls, CallsDead, CallReturns,
                 GivesBack, Resumes

\* What is called and had a source had its own, which is gone now, or that of an
\* error.
LEMMA CalledSource ==
    ASSUME TypeOK, Structure, NotCalledYet, SourcesDied, [Next]_vars,
           NEW t \in Thread, status[t] = "yield", status'[t] = "active",
           source'[t] = source[t], source[t] # Nil
    PROVE  status[source[t]] = "err"
<1> USE DEF TypeOK, Structure, CurMatchesMode, CorosetIsCreated, LinkedWhileWaiting,
            CalleeMatchesFrame, Waiting, Calling, Callee, Resumes
<1>1. ASSUME NEW co \in Thread, NEW v \in Payload, Cocall(co, v)
      PROVE  FALSE
  BY <1>1 DEF Cocall, ClearsSource
<1>2. ASSUME NEW u \in Thread, NEW v \in Payload, RawResume(u, v)
      PROVE  FALSE
  BY <1>2 DEF RawResume, NotCalledYet
<1>3. CASE BackFails
  <2>1. t = Callee /\ frame[cur] = "call"
    BY <1>3 DEF BackFails
  <2> QED BY <2>1 DEF SourcesDied
<1>4. CASE ContPassk
  <2>1. t = Callee /\ frame[cur] = "passk"
    BY <1>4 DEF ContPassk
  <2> QED BY <2>1 DEF SourcesDied
<1>5. CASE ContUntaggedk
  BY <1>5 DEF ContUntaggedk, ClearsSource
<1>6. CASE UNCHANGED vars
  BY <1>6 DEF vars
<1>7. CASE Program
  BY <1>1, <1>2, <1>7
  DEF Program, lua, Cocreate, CreateUntagged, CocallRefused, TcYield, RawYield, Return,
      YieldRefused, Throw, Catch, Die, MainEnds, EnterC, LeaveC, Suspends
<1>8. CASE Library
  BY <1>3, <1>4, <1>5, <1>8
  DEF Library, lua, BackOK, BackForMe, BackPass, BackStopsHere, BackLost, BackErr, RawBack,
      ContPlain, ContYieldk, Suspends
<1> QED BY <1>6, <1>7, <1>8 DEF Next, Terminated

\* Who waits for a suspended coroutine goes on waiting for it as an untagged one.
LEMMA UntaggedWait ==
    ASSUME TypeOK, Structure, [Next]_vars,
           NEW t \in Thread, status[t] = "yield", status'[t] = "yield",
           \A p \in Thread : link[p] = t => frame[p] = "untk"
    PROVE  \A p \in Thread : link'[p] = t => frame'[p] = "untk"
<1> SUFFICES ASSUME NEW p \in Thread, link'[p] = t PROVE frame'[p] = "untk"
  OBVIOUS
<1> USE ThreadAssumption DEF TypeOK, Structure, CurMatchesMode
<1>1. CASE p # cur
  BY <1>1, OthersStay
<1>2. CASE p = cur
  <2>1. CASE StacksStay
    BY <1>2, <2>1 DEF StacksStay
  <2>2. CASE GivesBack
    BY <1>2, <2>2 DEF GivesBack, FramesMatchStatus, Suspended
  <2>3. CASE CallReturns
    BY <1>2, <2>3 DEF CallReturns, LeavesFrame
  <2>4. ASSUME NEW co \in Thread, Calls(co) \/ CallsDead(co) PROVE FALSE
    BY <1>2, <2>4 DEF Calls, CallsDead, Resumes
  <2> QED BY <2>1, <2>2, <2>3, <2>4, StepKinds
<1> QED BY <1>1, <1>2

\* A source is that of an error, or belongs to a suspended coroutine.
LEMMA SourcesDiedStep ==
    ASSUME TypeOK, Structure, NotCalledYet, SourcesDied, [Next]_vars
    PROVE  SourcesDied'
<1> USE DEF TypeOK, Structure, CurMatchesMode, CorosetIsCreated, LinkedWhileWaiting,
            CalleeMatchesFrame, Waiting, Calling, Callee
<1>1. ASSUME NEW t \in Thread, source'[t] # Nil
      PROVE  \/ status'[source'[t]] = "err"
             \/ status'[t] = "yield" /\ \A p \in Thread : link'[p] = t => frame'[p] = "untk"
  <2>1. CASE source'[t] = source[t]
    <3>1. CASE status[source[t]] = "err"
      BY <1>1, <2>1, <3>1, DeadStep
    <3>2. CASE status[source[t]] # "err"
      <4>1. status[t] = "yield" /\ \A p \in Thread : link[p] = t => frame[p] = "untk"
        BY <1>1, <2>1, <3>2 DEF SourcesDied
      <4>2. status'[t] \in {"yield", "active"}
        BY <4>1, StepKinds DEF StacksStay, Calls, CallsDead, CallReturns, GivesBack, Resumes
      <4> QED BY <1>1, <2>1, <3>2, <4>1, <4>2, CalledSource, UntaggedWait
    <3> QED BY <3>1, <3>2
  <2>2. CASE source'[t] # source[t]
    <3>1. CASE BackForMe \/ BackStopsHere
      <4>1. /\ source' = [source EXCEPT ![Callee] = Yielder]
            /\ status[Callee] = "yield" /\ frame[cur] \in {"call", "callk"}
        BY <3>1 DEF BackForMe, BackStopsHere, CalleeYielded, InAuxcallk
      <4>2. t = Callee /\ \A p \in Thread : link[p] = t => p = cur
        BY <2>2, <4>1 DEF OneResumer
      <4>3. \/ status' = status /\ LeavesFrame
            \/ Suspends("untk") /\ link' = link
        BY <3>1 DEF BackForMe, BackStopsHere
      <4> QED BY <4>1, <4>2, <4>3 DEF Suspends, LeavesFrame
    <3>2. CASE BackErr
      <4>1. status[Callee] = "err" /\ Callee \in Thread /\ status' = status
        BY <3>2 DEF BackErr, InAuxcallk
      <4>2. status[ErrorSource] = "err"
        BY <4>1 DEF ErrorSource, SourcesDied
      <4>3. source'[t] = ErrorSource
        BY <2>2, <3>2 DEF BackErr
      <4> QED BY <4>1, <4>2, <4>3
    <3>3. CASE Program
      BY <1>1, <2>2, <3>3
      DEF Program, meta, Cocreate, CreateUntagged, Cocall, CocallRefused, RawResume, TcYield,
          RawYield, Return, YieldRefused, Throw, Catch, Die, MainEnds, EnterC, LeaveC, ClearsSource
    <3>4. CASE Library
      BY <1>1, <2>2, <3>1, <3>2, <3>4
      DEF Library, meta, BackOK, BackPass, BackFails, BackLost, RawBack, ContPlain, ContYieldk,
          ContPassk, ContUntaggedk, ClearsSource
    <3>5. CASE UNCHANGED vars
      BY <2>2, <3>5 DEF vars
    <3> QED BY <3>3, <3>4, <3>5 DEF Next, Terminated
  <2> QED BY <2>1, <2>2
<1>2. ASSUME NEW t \in coroset', status'[t] = "err", source'[t] = Nil
      PROVE  mode' = "back" /\ link'[cur'] = t
  <2>1. t \in coroset /\ status[t] # "none"
    BY <1>2, CorosetStep
  <2>2. CASE Program
    BY <1>2, <2>1, <2>2
    DEF Program, lua, meta, Cocreate, CreateUntagged, Cocall, CocallRefused, RawResume, TcYield,
        RawYield, Return, YieldRefused, Throw, Catch, Die, MainEnds, EnterC, LeaveC, ClearsSource,
        SourcesDied, Resumes, Suspends, ToResumer
  <2>3. CASE Library
    BY <1>2, <2>1, <2>3
    DEF Library, lua, meta, BackOK, BackForMe, BackPass, BackStopsHere, BackFails, BackLost,
        BackErr, RawBack, ContPlain, ContYieldk, ContPassk, ContUntaggedk, ClearsSource,
        SourcesDied, Resumes, Suspends, ToResumer, CalleeYielded, InAuxcallk, ErrorSource
  <2>4. CASE UNCHANGED vars
    BY <1>2, <2>4 DEF vars, SourcesDied
  <2> QED BY <2>2, <2>3, <2>4 DEF Next, Terminated
<1> QED BY <1>1, <1>2 DEF SourcesDied

\* While a coroutine stays suspended it also stays stacked, and only auxcallk
\* changes its source.
LEMMA SuspendedMeta ==
    ASSUME TypeOK, Structure, [Next]_vars,
           NEW t \in Thread, status[t] = "yield", status'[t] = "yield"
    PROVE  /\ stacked[t] => stacked'[t]
           /\ source'[t] # source[t] => t = Callee /\ (BackForMe \/ BackStopsHere)
<1> USE DEF TypeOK, Structure, CurMatchesMode, CalleeMatchesFrame, LinkedWhileWaiting,
            Waiting, Calling, Callee, Resumes
<1>1. CASE Program
  <2>1. ASSUME NEW co \in Thread, NEW v \in Payload, Cocall(co, v)
        PROVE  co # t
    BY <2>1 DEF Cocall
  <2> QED BY <1>1, <2>1
      DEF Program, meta, Cocreate, CreateUntagged, Cocall, CocallRefused, RawResume, TcYield,
          RawYield, Return, YieldRefused, Throw, Catch, Die, MainEnds, EnterC, LeaveC, ClearsSource,
          Unstacks
<1>2. CASE BackForMe \/ BackStopsHere
  BY <1>2 DEF BackForMe, BackStopsHere
<1>3. CASE BackErr
  BY <1>3 DEF BackErr, InAuxcallk
<1>4. CASE BackFails
  BY <1>4 DEF BackFails, CalleeYielded, InAuxcallk, Unstacks
<1>5. CASE ContPassk \/ ContUntaggedk
  BY <1>5 DEF ContPassk, ContUntaggedk, Unstacks, ClearsSource
<1>6. CASE BackOK \/ BackPass \/ BackLost \/ RawBack \/ ContPlain \/ ContYieldk
  BY <1>6 DEF meta, BackOK, BackPass, BackLost, RawBack, ContPlain, ContYieldk
<1>7. CASE UNCHANGED vars
  BY <1>7 DEF vars
<1> QED BY <1>1, <1>2, <1>3, <1>4, <1>5, <1>6, <1>7 DEF Next, Library, Terminated

\* A suspended coroutine is let go of by a handler, by an untagged coroutine whose
\* stack overflows, and by coroutine.resume.
LEMMA LetGo ==
    ASSUME TypeOK, Structure, [Next]_vars,
           NEW t \in Thread, status[t] = "yield", link[cur] = t, link'[cur] # t
    PROVE  \/ BackForMe
           \/ BackStopsHere /\ stacked'[t]
           \/ RawBack /\ t \notin coroset
<1> USE ThreadAssumption
    DEF TypeOK, Structure, CurMatchesMode, CalleeMatchesFrame, LinkedWhileWaiting,
        Waiting, Calling, Callee, lua
<1>1. CASE Program
  BY <1>1
  DEF Program, Cocreate, CreateUntagged, Cocall, CocallRefused, RawResume, TcYield,
      RawYield, Return, YieldRefused, Throw, Catch, Die, MainEnds, EnterC, LeaveC
<1>2. CASE BackStopsHere
  BY <1>2 DEF BackStopsHere
<1>3. CASE BackForMe
  BY <1>3
<1>4. CASE RawBack
  BY <1>4 DEF RawBack, CorosetIsCreated
<1>5. CASE BackOK \/ BackPass \/ BackFails \/ BackLost \/ BackErr
  BY <1>5 DEF BackOK, BackPass, BackFails, BackLost, BackErr, Resumes
<1>6. CASE ContPlain \/ ContYieldk \/ ContPassk \/ ContUntaggedk
  BY <1>6 DEF ContPlain, ContYieldk, ContPassk, ContUntaggedk, Resumes, LeavesFrame
<1>7. CASE UNCHANGED vars
  BY <1>7 DEF vars
<1> QED BY <1>1, <1>2, <1>3, <1>4, <1>5, <1>6, <1>7 DEF Next, Library, Terminated

\* The source of whatever can be called next is the end of its stack.
LEMMA SourcesEndStep ==
    ASSUME TypeOK, Structure, SourcesEnd, YielderEnds, [Next]_vars
    PROVE  SourcesEnd'
<1> USE ThreadAssumption
<1>0. /\ TypeOK' /\ Structure' /\ cur \in Thread /\ status[cur] = "active"
      /\ link \in [Thread -> Thread \cup {Nil}]
      /\ coroset \subseteq Thread
  BY TypeStep, StructureStep DEF TypeOK, Structure, CurMatchesMode
<1>1. ASSUME NEW t \in coroset', status'[t] = "yield", ~stacked'[t],
             \A p \in Thread : link'[p] # t
      PROVE  Ends(t, source[t], "yieldk")'
  <2>1. t \in coroset
    BY <1>1, CorosetStep
  <2>2. status[t] = "yield"
    BY <1>0, <1>1, <2>1, StepKinds
    DEF StacksStay, Calls, CallsDead, CallReturns, GivesBack, ToResumer, Resumes, TypeOK
  <2>3. ~stacked[t] /\ (source'[t] # source[t] => t = Callee /\ (BackForMe \/ BackStopsHere))
    BY <1>0, <1>1, <2>1, <2>2, SuspendedMeta
  <2>4. CASE link[cur] = t
    <3>1. BackForMe /\ t = Callee
      BY <1>0, <1>1, <2>1, <2>2, <2>4, LetGo DEF Callee
    <3>2. source'[t] = Yielder
      BY <1>0, <2>1, <3>1 DEF BackForMe, TypeOK
    <3>3. YieldTag # RawTag
      BY <1>0, <2>1, <3>1, TagAssumption DEF BackForMe, ForMe, TypeOK
    <3>4. Ends(t, Yielder, "yieldk")
      BY <3>1, <3>3 DEF BackForMe, YielderEnds
    <3> QED BY <1>0, <2>1, <2>2, <3>2, <3>4, EndsStay DEF Ends
  <2>5. CASE link[cur] # t
    <3>1. \A p \in Thread : link[p] # t
      BY <1>1, <2>5, OthersStay
    <3>2. Ends(t, source[t], "yieldk")
      BY <2>1, <2>2, <2>3, <3>1 DEF SourcesEnd
    <3>3. source'[t] = source[t]
      BY <2>3, <2>5 DEF Callee
    <3> QED BY <1>0, <2>1, <2>2, <3>2, <3>3, EndsStay DEF Ends
  <2> QED BY <2>4, <2>5
<1>2. ASSUME NEW u \in Thread, frame'[u] = "untk"
      PROVE  Ends(link[u], source[link[u]], "uyield")'
  <2>1. PICK t \in Thread : t = link'[u] /\ status'[t] = "yield"
    BY <1>0, <1>2 DEF TypeOK, Structure, LinkedWhileWaiting, CalleeMatchesFrame, Waiting, Calling
  <2>2. SUFFICES Ends(t, source[t], "uyield")'
    BY <2>1 DEF Ends
  <2>3. CASE u # cur \/ UNCHANGED vars
    <3>1. frame[u] = "untk" /\ link[u] = t
      BY <1>2, <2>1, <2>3, OthersStay DEF vars
    <3>2. status[t] = "yield"
      BY <1>0, <2>1, <3>1 DEF Structure, CalleeMatchesFrame
    <3>3. Ends(t, source[t], "uyield")
      BY <3>1 DEF SourcesEnd
    <3>4. source'[t] = source[t]
      <4>1. CASE UNCHANGED vars
        BY <4>1 DEF vars
      <4>2. CASE u # cur
        <5>1. link[cur] # t
          BY <1>0, <3>1, <4>2 DEF Structure, OneResumer
        <5> QED BY <2>1, <3>2, <5>1, SuspendedMeta DEF Callee
      <4> QED BY <2>3, <4>1, <4>2
    <3> QED BY <1>0, <3>2, <3>3, <3>4, EndsStay DEF Ends
  <2>4. CASE u = cur /\ ~UNCHANGED vars
    <3>1. BackStopsHere /\ Suspends("untk")
      BY <1>0, <1>2, <2>4, PassingStep
    <3>2. /\ t = Callee /\ status[t] = "yield" /\ source'[t] = Yielder /\ YieldTag = RawTag
          /\ CalleeYielded
      <4>1. link' = link
        BY <3>1, <1>0, <1>2, <2>4 DEF BackStopsHere, LeavesFrame, TypeOK
      <4> QED BY <2>1, <2>4, <3>1, <4>1 DEF BackStopsHere, Callee, CalleeYielded, StopsHere, TypeOK
    <3>3. Ends(t, Yielder, "uyield")
      BY <3>2 DEF YielderEnds
    <3> QED BY <3>2, <3>3, EndsStay DEF Ends
  <2> QED BY <2>3, <2>4
<1> QED BY <1>1, <1>2 DEF SourcesEnd

\* A yield is on its way after a yield, or after auxcallk passed one along.
LEMMA YieldStep ==
    ASSUME TypeOK, Structure, [Next]_vars, mode' = "back", status'[link'[cur']] = "yield"
    PROVE  \/ UNCHANGED vars
           \/ /\ \/ \E g \in Tag, v \in Payload : TcYield(g, v)
                 \/ \E v \in Payload : RawYield(v)
                 \/ BackPass
                 \/ BackStopsHere /\ Suspends("untk")
              /\ link' = link /\ link'[cur'] = cur /\ cur # cur'
<1> USE ThreadAssumption
    DEF TypeOK, Structure, CurMatchesMode, CalleeMatchesFrame, LinkedWhileWaiting,
        FramesMatchStatus, Waiting, Calling, lua, Resumes, LeavesFrame
<1>1. ASSUME NEW co \in Thread, NEW v \in Payload, Cocall(co, v) PROVE FALSE
  BY <1>1 DEF Cocall
<1>2. CASE \/ \E g \in Tag, v \in Payload : TcYield(g, v)
           \/ \E v \in Payload : RawYield(v)
  <2>1. link[cur] = Nil
    BY <1>2 DEF TcYield, RawYield
  <2> QED BY <1>2, <2>1 DEF TcYield, RawYield, Suspends, ToResumer
<1>3. CASE BackPass \/ (BackStopsHere /\ Suspends("untk"))
  <2>1. Callee # cur /\ Callee = link[cur]
    BY <1>3 DEF BackPass, BackStopsHere, CalleeYielded, InAuxcallk, Callee
  <2>2. link' = link
    BY <1>3, <2>1 DEF BackPass, BackStopsHere, Suspends
  <2> QED BY <1>3, <2>1, <2>2 DEF Suspends, ToResumer, BackPass, Callee
<1>4. ASSUME NEW v \in Payload, Return(v) PROVE FALSE
  <2>1. cur # Nil /\ status'[cur] = "done"
    BY <1>4 DEF Return
  <2> QED BY <1>4, <2>1 DEF Return, ToResumer
<1>5. CASE Die
  <2>1. cur # Nil /\ status'[cur] = "err"
    BY <1>5 DEF Die
  <2> QED BY <1>5, <2>1 DEF Die, ToResumer
<1>6. CASE Program
  BY <1>1, <1>2, <1>4, <1>5, <1>6
  DEF Program, Cocreate, CreateUntagged, CocallRefused, RawResume, YieldRefused, Throw, Catch,
      MainEnds, EnterC, LeaveC
<1>7. CASE Library
  BY <1>3, <1>7
  DEF Library, BackOK, BackForMe, BackStopsHere, BackFails, BackLost, BackErr, RawBack,
      ContPlain, ContYieldk, ContPassk, ContUntaggedk
<1> QED BY <1>6, <1>7 DEF Next, Terminated

\* A yield on its way comes from the end of the callee's stack, and has passed
\* nobody who has its tag.
LEMMA YielderEndsStep ==
    ASSUME TypeOK, Structure, YielderEnds, [Next]_vars
    PROVE  YielderEnds'
<1> USE ThreadAssumption
<1>0. /\ TypeOK' /\ Structure' /\ cur \in Thread /\ status[cur] = "active"
      /\ Steps(link) /\ Steps(link') /\ frame \in [Thread -> Frame]
  BY TypeStep, StructureStep DEF TypeOK, Structure, CurMatchesMode, Steps
<1>1. CASE UNCHANGED vars
  <2>1. StackOf(Callee)' = StackOf(Callee)
    BY <1>1 DEF vars, StackOf, Callee
  <2> QED BY <1>1, <2>1 DEF vars, YielderEnds, CalleeYielded, InAuxcallk, Callee, Ends, Yielder, YieldTag, IsRaw
<1>2. CASE ~UNCHANGED vars
  <2> SUFFICES ASSUME mode' = "back", status'[link'[cur']] = "yield"
               PROVE  YielderEnds'
    BY DEF YielderEnds, CalleeYielded, InAuxcallk, Callee
  <2>1. PICK c \in Thread : c = cur
    BY <1>0
  <2>2. link' = link /\ link'[cur'] = c /\ cur # cur' /\ Callee' = c
    BY <1>2, <2>1, YieldStep DEF Callee
  <2>3. ASSUME link[c] = Nil
        PROVE  StackOf(c)' = {c}
    BY <1>0, <2>2, <2>3, WalkEnds DEF StackOf
  <2>4. ASSUME NEW g \in Tag, NEW v \in Payload, TcYield(g, v)
        PROVE  YielderEnds'
    <3>1. link[c] = Nil /\ frame'[c] = "yieldk" /\ ytag' = g /\ yfrom' = c /\ g # RawTag
      BY <1>0, <2>1, <2>4, TagAssumption
      DEF TcYield, Suspends, Structure, CurMatchesMode, LinkedWhileWaiting, Waiting, Calling
    <3>2. StackOf(c)' = {c} /\ ~IsRaw' /\ YieldTag' = g /\ Yielder' = c
      BY <2>2, <2>3, <3>1 DEF IsRaw, YieldTag, Yielder
    <3>3. Ends(c, c, "yieldk")'
      BY <3>1, <3>2 DEF Ends
    <3> QED BY <2>2, <3>1, <3>2, <3>3 DEF YielderEnds, Ends
  <2>5. ASSUME NEW v \in Payload, RawYield(v)
        PROVE  YielderEnds'
    <3>1. link[c] = Nil /\ frame'[c] = "uyield"
      BY <1>0, <2>1, <2>5
      DEF RawYield, Suspends, Structure, CurMatchesMode, LinkedWhileWaiting, Waiting, Calling
    <3>2. StackOf(c)' = {c} /\ IsRaw' /\ YieldTag' = RawTag /\ Yielder' = c
      BY <2>2, <2>3, <3>1 DEF IsRaw, YieldTag, Yielder
    <3>3. Ends(c, c, "uyield")'
      BY <3>1, <3>2 DEF Ends
    <3> QED BY <2>2, <3>1, <3>2, <3>3 DEF YielderEnds, Ends
  <2>6. CASE BackPass
    <3>1. PICK y \in Thread, d \in Thread : y = Yielder /\ d = Callee /\ d = link[c]
      BY <1>0, <2>1, <2>6
      DEF TypeOK, BackPass, CalleeYielded, InAuxcallk, Callee, Yielder, IsRaw, Structure,
          LinkedWhileWaiting, YieldInFlight, Waiting, Calling
    <3>2. /\ frame'[c] = "passk" /\ ytag' = YieldTag /\ yfrom' = y /\ tag' = tag
          /\ status[d] = "yield" /\ CalleeYielded /\ tag[d] # YieldTag
      BY <1>0, <2>1, <2>6, <3>1 DEF BackPass, Suspends, CalleeYielded, ForMe
    <3>3. ~IsRaw' /\ YieldTag' = YieldTag /\ Yielder' = y
      BY <2>2, <3>2 DEF IsRaw, YieldTag, Yielder
    <3>4. StackOf(c)' = {c} \cup StackOf(d)'
      BY <1>0, <2>2, <3>1, WalkFirst DEF StackOf
    <3>5. StackOf(d)' = StackOf(d) /\ c \notin StackOf(d)
      BY <1>0, <2>1, <3>2, StackStays, CurNotBelow
    <3>6. PICK how : how = IF YieldTag = RawTag THEN "uyield" ELSE "yieldk"
      OBVIOUS
    <3>7. Ends(d, y, how) /\ \A q \in StackOf(d) \ {d} : tag[q] # YieldTag
      BY <3>1, <3>2, <3>6 DEF YielderEnds
    <3>8. y \in StackOf(d) /\ frame'[y] = how /\ \A q \in StackOf(d) \ {y} : frame'[q] = "passk"
      BY <3>2, <3>5, <3>7, EndsStay
    <3>9. Ends(c, y, how)'
      BY <3>2, <3>4, <3>5, <3>8 DEF Ends
    <3>10. \A q \in StackOf(c)' \ {c} : tag'[q] # YieldTag'
      BY <3>2, <3>3, <3>4, <3>5, <3>7
    <3>11. CalleeYielded' => /\ Ends(c, y, IF YieldTag = RawTag THEN "uyield" ELSE "yieldk")'
                             /\ \A q \in StackOf(c)' \ {c} : tag'[q] # YieldTag'
      BY <3>3, <3>6, <3>9, <3>10 DEF Ends
    <3> QED BY <2>2, <3>2, <3>3, <3>11 DEF YielderEnds, Ends
  <2>7. CASE BackStopsHere /\ Suspends("untk")
    <3>1. frame'[c] = "untk" /\ c \notin coroset'
      BY <1>0, <2>1, <2>7 DEF BackStopsHere, Suspends, StopsHere
    <3>2. frame'[cur'] \notin {"call", "callk"}
      BY <1>0, <2>2, <3>1 DEF Structure, CalleeMatchesFrame, TypeOK
    <3> QED BY <2>2, <3>1, <3>2 DEF YielderEnds, CalleeYielded, InAuxcallk
  <2> QED BY <1>2, <2>4, <2>5, <2>6, <2>7, YieldStep
<1> QED BY <1>1, <1>2

\* The parents form no cycle.
LEMMA TracebackEndsStep ==
    ASSUME TypeOK, Structure, NotCalledYet, TracebackEnds, [Next]_vars
    PROVE  TracebackEnds'
<1> SUFFICES ASSUME NEW S \in (SUBSET coroset') \ {{}}
             PROVE  \E t \in S : Coparent(t)' \notin S
  BY DEF TracebackEnds
<1> USE ThreadAssumption DEF TypeOK
<1>0. coroset' \subseteq Thread /\ Nil \notin S
  BY TypeStep
<1>1. ASSUME NEW co \in Thread, NEW v \in Payload, Cocall(co, v)
      PROVE  \E t \in S : Coparent(t)' \notin S
  <2>1. /\ co \in coroset /\ status[co] # "active" /\ coroset' = coroset
        /\ parent' = [parent EXCEPT ![co] = cur]
    BY <1>1 DEF Cocall, Resumable, SetsParent
  <2>2. CASE co \notin S
    <3>1. PICK t \in S : Coparent(t) \notin S
      BY <2>1 DEF TracebackEnds
    <3>2. Coparent(t)' = Coparent(t)
      BY <2>1, <2>2 DEF Coparent
    <3> QED BY <3>1, <3>2
  <2>3. CASE cur \notin S /\ co \in S
    <3>1. Coparent(co)' = cur
      BY <2>1 DEF Coparent
    <3> QED BY <2>3, <3>1
  <2>4. CASE cur \in S
    <3> DEFINE R == {t \in S : status[t] = "active"}
    <3>1. R \in (SUBSET coroset) \ {{}}
      BY <2>1, <2>4 DEF Structure, CurMatchesMode
    <3>2. PICK t \in R : Coparent(t) \notin R
      BY <3>1 DEF TracebackEnds
    <3>3. t \in coroset /\ t \in Thread /\ t # co /\ status[t] = "active"
      BY <2>1, <3>1
    <3>4. Coparent(t)' = parent[t]
      BY <2>1, <3>3 DEF Coparent
    <3>5. CASE t = Main
      BY <1>0, <3>2, <3>4, <3>5 DEF NotCalledYet
    <3>6. CASE t # Main
      <4>1. PICK p \in Thread : status[p] = "active" /\ link[p] = t
        BY <3>3, <3>6 DEF Structure, RunningHasResumer
      <4>2. parent[t] = p
        BY <3>3, <4>1 DEF Structure, ParentIsResumer
      <4> QED BY <3>2, <3>3, <3>4, <4>1, <4>2 DEF Coparent
    <3> QED BY <3>5, <3>6
  <2> QED BY <2>2, <2>3, <2>4
<1>2. CASE parent' = parent
  <2>1. CASE S \subseteq coroset
    <3>1. PICK t \in S : Coparent(t) \notin S
      BY <2>1 DEF TracebackEnds
    <3>2. Coparent(t)' = Coparent(t)
      BY <1>2, <2>1, CorosetStep DEF Coparent
    <3> QED BY <3>1, <3>2
  <2>2. ASSUME NEW t \in S, t \notin coroset
        PROVE  Coparent(t)' = Nil
    BY <1>0, <1>2, <2>2 DEF Coparent, NotCalledYet
  <2> QED BY <1>0, <2>1, <2>2
<1>3. CASE Program
  BY <1>1, <1>2, <1>3
  DEF Program, meta, Cocreate, CreateUntagged, CocallRefused, RawResume, TcYield, RawYield,
      Return, YieldRefused, Throw, Catch, Die, MainEnds, EnterC, LeaveC
<1>4. CASE Library
  BY <1>2, <1>4
  DEF Library, meta, BackOK, BackForMe, BackPass, BackStopsHere, BackFails, BackLost, BackErr,
      RawBack, ContPlain, ContYieldk, ContPassk, ContUntaggedk
<1>5. CASE UNCHANGED vars
  BY <1>2, <1>5 DEF vars
<1> QED BY <1>3, <1>4, <1>5 DEF Next, Terminated

-----------------------------------------------------------------------------
(* The values that coroutines pass.                                        *)

\* The coroutine that gets the arguments of a call is at the end of the stack that
\* is called, or dead.
LEMMA ArgumentsReachEnd ==
    ASSUME TypeOK, Structure, NotCalledYet, SourcesEnd, SourcesDied,
           NEW co \in Thread, Resumable(co), mode = "run"
    PROVE  LET a == ArgTarget(co) IN
           /\ a \in Thread /\ a # cur
           /\ status[co] = "err" => status[a] = "err"
           /\ status[co] # "err" => a = co \/ status[a] = "err" \/ (a \in StackOf(co) /\ link[a] = Nil)
<1> USE ThreadAssumption DEF TypeOK, Structure, CurMatchesMode, Status
<1>1. status[co] \in {"new", "yield", "err"} /\ co \in coroset /\ ~stacked[co] /\ co # cur
  BY DEF Resumable
<1>2. CASE source[co] = Nil
  BY <1>1, <1>2 DEF ArgTarget
<1>3. CASE source[co] # Nil /\ status[source[co]] = "err"
  BY <1>1, <1>3 DEF ArgTarget
<1>4. CASE source[co] # Nil /\ status[source[co]] # "err"
  <2>1. status[co] = "yield" /\ \A p \in Thread : link[p] = co => frame[p] = "untk"
    BY <1>4 DEF SourcesDied
  <2>2. \A p \in Thread : link[p] # co
    BY <1>1, <2>1 DEF CalleeMatchesFrame
  <2>3. Ends(co, source[co], "yieldk")
    BY <1>1, <2>1, <2>2 DEF SourcesEnd
  <2>4. source[co] \in Thread /\ source[co] # cur
    BY <2>1, <2>3, SuspendedBelow DEF Ends
  <2>5. link[source[co]] = Nil
    BY <2>3, <2>4 DEF Ends, LinkedWhileWaiting, Waiting, Calling
  <2> QED BY <1>4, <2>1, <2>3, <2>4, <2>5 DEF ArgTarget, Ends
<1> QED BY <1>2, <1>3, <1>4

\* The yielder of a yield on its way exists and is not cur.
LEMMA YielderIsEnd ==
    ASSUME TypeOK, Structure, YielderEnds, CalleeYielded
    PROVE  /\ Callee \in Thread /\ Callee # cur /\ status[Callee] = "yield"
           /\ Yielder \in StackOf(Callee) /\ Yielder \in Thread /\ Yielder # cur
           /\ link[Yielder] = Nil
<1>1. Callee \in Thread /\ Callee # cur /\ status[Callee] = "yield"
  BY DEF TypeOK, Structure, CalleeYielded, InAuxcallk, Callee, CurMatchesMode, LinkedWhileWaiting,
         Waiting, Calling
<1>2. Yielder \in StackOf(Callee) /\ frame[Yielder] \in {"uyield", "yieldk"}
  BY DEF YielderEnds, Ends
<1>3. Yielder \in Thread /\ Yielder # cur
  BY <1>1, <1>2, SuspendedBelow, CurNotBelow
<1>4. link[Yielder] = Nil
  BY <1>2, <1>3 DEF Structure, LinkedWhileWaiting, Waiting, Calling
<1> QED BY <1>1, <1>2, <1>3, <1>4

\* Every step leaves values only where somebody is about to take them.
LEMMA ValuesHeldStep ==
    ASSUME TypeOK, Structure, NotCalledYet, SourcesEnd, YielderEnds, SourcesDied, ValuesHeld,
           [Next]_vars
    PROVE  ValuesHeld'
<1> SUFFICES ASSUME NEW t \in Thread, stk'[t] # <<>>, status'[t] # "err"
             PROVE  /\ mode' \in {"run", "raise"} => t = cur'
                    /\ mode' = "back" => t = Holder'
                    /\ mode' = "cont" => t = cur' \/ (t \in Walk(cur', link') /\ link'[t] = Nil)
  BY DEF ValuesHeld, StackOf
<1> USE ThreadAssumption
<1>0. /\ TypeOK' /\ Structure' /\ Steps(link) /\ Steps(link')
      /\ stk \in [Thread -> Seq(Val)] /\ status \in [Thread -> Status]
      /\ link \in [Thread -> Thread \cup {Nil}] /\ frame \in [Thread -> Frame]
      /\ cur \in Thread /\ status[cur] = "active"
      /\ status[t] # "err"
  BY TypeStep, StructureStep, DeadStep DEF TypeOK, Structure, CurMatchesMode, Steps
<1>1. CASE mode \in {"run", "raise"} /\ cur' = cur /\ mode' \in {"run", "raise", "exit"}
           /\ \A q \in Thread \ {cur} : stk'[q] = stk[q]
  BY <1>0, <1>1 DEF ValuesHeld
<1>2. CASE \/ \E q \in Thread, g \in Tag : Cocreate(q, g)
           \/ \E q \in Thread : CreateUntagged(q) \/ CocallRefused(q)
           \/ YieldRefused \/ Throw \/ Catch \/ MainEnds \/ EnterC \/ LeaveC
  BY <1>0, <1>1, <1>2
  DEF Cocreate, CreateUntagged, CocallRefused, YieldRefused, Throw, Catch, MainEnds, EnterC,
      LeaveC, Consumes
<1>3. ASSUME NEW co \in Thread, NEW v \in Payload, Cocall(co, v)
      PROVE  \/ mode' = "cont" /\ (t = cur' \/ (t \in Walk(cur', link') /\ link'[t] = Nil))
             \/ mode' = "back" /\ t = Holder'
  <2>1. mode = "run" /\ Resumable(co) /\ stk' = [stk EXCEPT ![cur] = <<>>, ![ArgTarget(co)] = @ \o v]
    BY <1>3 DEF Cocall
  <2>2. PICK a \in Thread : a = ArgTarget(co) /\ a # cur
    BY <2>1, ArgumentsReachEnd
  <2>3. t = a
    BY <1>0, <2>1, <2>2 DEF ValuesHeld
  <2>4. CASE status[co] \in {"new", "yield"}
    <3>1. mode' = "cont" /\ cur' = co
      BY <1>3, <2>4 DEF Cocall, Resumes
    <3>2. t = co \/ (t \in StackOf(co) /\ link[t] = Nil)
      BY <1>0, <2>1, <2>2, <2>3, <2>4, ArgumentsReachEnd
    <3>3. t \in StackOf(co) => t \in Walk(co, link') /\ link'[t] = link[t]
      BY <1>0, <2>4, StackStays DEF StackOf
    <3> QED BY <3>1, <3>2, <3>3
  <2>5. CASE status[co] \notin {"new", "yield"}
    <3>1. status[co] = "err"
      BY <1>0, <2>1, <2>5 DEF Resumable, Status
    <3> QED BY <1>0, <2>1, <2>2, <2>3, <3>1, ArgumentsReachEnd
  <2> QED BY <2>4, <2>5
<1>4. ASSUME NEW u \in Thread, NEW v \in Payload, RawResume(u, v)
      PROVE  mode' = "cont" /\ t = cur'
  BY <1>0, <1>4 DEF RawResume, Resumes, ValuesHeld
<1>5. CASE \/ \E g \in Tag, v \in Payload : TcYield(g, v)
           \/ \E v \in Payload : RawYield(v) \/ Return(v)
  <2>1. t = cur
    BY <1>0, <1>5 DEF TcYield, RawYield, Return, ValuesHeld
  <2>2. mode' = "back" /\ link'[cur'] = cur
    BY <1>5 DEF TcYield, RawYield, Return, Suspends, ToResumer
  <2>3. Callee' = t
    BY <2>1, <2>2 DEF Callee
  <2>4. CASE \E g \in Tag, v \in Payload : TcYield(g, v)
    <3>1. yfrom' = t
      BY <2>1, <2>4 DEF TcYield
    <3> QED BY <2>2, <2>3, <3>1 DEF Holder, Yielder
  <2>5. CASE \E v \in Payload : RawYield(v)
    <3>1. frame'[t] = "uyield"
      BY <1>0, <2>1, <2>5 DEF RawYield, Suspends
    <3> QED BY <2>2, <2>3, <3>1 DEF Holder, Yielder, IsRaw
  <2>6. CASE \E v \in Payload : Return(v)
    <3>1. status'[t] = "done"
      BY <1>0, <2>1, <2>6 DEF Return
    <3> QED BY <2>2, <2>3, <3>1 DEF Holder
  <2> QED BY <1>5, <2>4, <2>5, <2>6
<1>6. CASE Die
  <2>1. stk' = stk /\ mode = "raise" /\ status'[cur] = "err"
    BY <1>0, <1>6 DEF Die
  <2> QED BY <1>0, <2>1 DEF ValuesHeld
<1>7. CASE BackOK \/ BackErr \/ RawBack
  <2>1. /\ mode = "back" /\ mode' \in {"run", "raise"} /\ cur' = cur
        /\ \A q \in Thread \ {cur} : stk'[q] # <<>> => q # Callee /\ stk[q] # <<>>
    BY <1>0, <1>7 DEF BackOK, BackErr, RawBack, InAuxcallk, Moves, Overflows
  <2>2. Holder = Callee
    <3>1. CASE BackOK \/ BackErr
      BY <3>1 DEF Holder, BackOK, BackErr
    <3>2. CASE RawBack
      BY <3>2 DEF Holder, RawBack
    <3> QED BY <1>7, <3>1, <3>2
  <2> QED BY <1>0, <2>1, <2>2 DEF ValuesHeld
<1>8. ASSUME CalleeYielded, frame[cur] # "raw"
      PROVE  Holder = Yielder /\ (stk[t] # <<>> => t = Yielder)
  BY <1>0, <1>8 DEF Holder, CalleeYielded, InAuxcallk, ValuesHeld
<1>9. CASE BackForMe
  <2>1. /\ CalleeYielded /\ frame[cur] # "raw" /\ mode' \in {"run", "raise"} /\ cur' = cur
        /\ Moves(Yielder) \/ Overflows(Yielder)
    BY <1>9 DEF BackForMe, CalleeYielded, InAuxcallk
  <2>2. t # cur => stk'[t] = <<>>
    BY <1>0, <1>8, <2>1 DEF Moves, Overflows
  <2> QED BY <2>1, <2>2
<1>10. CASE BackPass
  <2>1. /\ CalleeYielded /\ frame[cur] # "raw" /\ stk' = stk /\ cur \in coroset'
        /\ mode' = "back" /\ link'[cur'] = cur /\ frame'[cur] = "passk" /\ yfrom' = Yielder
    BY <1>0, <1>10 DEF BackPass, CalleeYielded, InAuxcallk, CanPass, Suspends, ToResumer
  <2>2. frame'[cur'] # "raw" /\ status'[cur] = "yield"
    BY <1>0, <1>10, <2>1 DEF BackPass, Suspends, Structure, CalleeMatchesFrame, CorosetIsCreated, TypeOK
  <2>3. Holder' = Yielder
    BY <2>1, <2>2 DEF Holder, Yielder, IsRaw, Callee
  <2> QED BY <1>8, <2>1, <2>3
<1>11. CASE BackStopsHere
  <2>1. CalleeYielded /\ frame[cur] # "raw" /\ Yielder # cur
    BY <1>11, YielderIsEnd DEF BackStopsHere, CalleeYielded, InAuxcallk
  <2>2. t # cur => stk'[t] = <<>>
    BY <1>0, <1>8, <1>11, <2>1 DEF BackStopsHere, Moves, Overflows
  <2>3. t = cur
    BY <2>2
  <2>4. CASE mode' = "raise" /\ cur' = cur
    BY <2>3, <2>4
  <2>5. CASE Suspends("untk") /\ link' = link
    <3>1. mode' = "back" /\ link'[cur'] = cur /\ cur \notin coroset'
      BY <1>11, <2>5 DEF BackStopsHere, StopsHere, Suspends, ToResumer
    <3>2. frame'[cur'] = "raw"
      BY <1>0, <3>1 DEF Structure, CalleeMatchesFrame, TypeOK
    <3>3. Holder' = cur
      BY <3>1, <3>2 DEF Holder, Callee
    <3> QED BY <2>3, <3>1, <3>3
  <2> QED BY <1>11, <2>4, <2>5 DEF BackStopsHere
<1>12. CASE BackFails
  <2>1. /\ CalleeYielded /\ frame[cur] # "raw" /\ mode' = "cont" /\ cur' = Callee
        /\ stk' = [stk EXCEPT ![Callee] = FailureValues] /\ link' = link
    <3>1. link[cur] = Callee
      BY DEF Callee
    <3> QED BY <1>0, <1>12, <3>1 DEF BackFails, CalleeYielded, InAuxcallk, Resumes
  <2>2. t = Callee \/ t = Yielder
    BY <1>0, <1>8, <2>1
  <2> QED BY <2>1, <2>2, YielderIsEnd DEF StackOf
<1>13. CASE BackLost
  BY <1>13 DEF BackLost
<1>14. CASE ContPlain \/ ContYieldk
  <2>1. /\ mode = "cont" /\ frame[cur] \in {"body", "uyield", "yieldk"} /\ cur' = cur
        /\ \A q \in Thread \ {cur} : stk'[q] = stk[q] /\ mode' \in {"run", "raise"}
    BY <1>0, <1>14 DEF ContPlain, ContYieldk, Consumes
  <2>2. StackOf(cur) = {cur}
    <3>1. link[cur] = Nil
      BY <1>0, <2>1 DEF Structure, LinkedWhileWaiting, Waiting, Calling
    <3> QED BY <1>0, <3>1, WalkEnds DEF StackOf
  <2>3. t = cur
    BY <1>0, <2>1, <2>2 DEF ValuesHeld
  <2> QED BY <1>14, <2>1, <2>3 DEF ContPlain, ContYieldk
<1>15. CASE ContPassk \/ ContUntaggedk
  <2>1. /\ mode = "cont" /\ frame[cur] \in {"passk", "untk"} /\ mode' = "cont" /\ cur' = Callee
        /\ Callee \in Thread /\ status[Callee] = "yield" /\ link' = link
    <3>1. link[cur] = Callee
      BY DEF Callee
    <3> QED BY <1>0, <1>15, <3>1
        DEF ContPassk, ContUntaggedk, Resumes, Structure, LinkedWhileWaiting, CalleeMatchesFrame,
            Waiting, Calling
  <2>2. StackOf(cur) = {cur} \cup StackOf(Callee)
    BY <1>0, <2>1, WalkFirst DEF StackOf, Callee
  <2>3. ASSUME t # cur, stk[t] # <<>>
        PROVE  t \in StackOf(Callee) /\ link[t] = Nil
    BY <1>0, <2>1, <2>2, <2>3 DEF ValuesHeld
  <2>4. Callee # cur
    BY <1>0, <2>1
  <2>5. CASE ContPassk
    <3>1. t # cur /\ (t # Callee => stk[t] # <<>>)
      BY <1>0, <2>1, <2>4, <2>5 DEF ContPassk
    <3> QED BY <2>1, <2>3, <3>1 DEF StackOf
  <2>6. CASE ContUntaggedk
    <3>1. Ends(Callee, source[Callee], "uyield")
      <4>1. frame[cur] = "untk"
        BY <2>6 DEF ContUntaggedk
      <4> QED BY <1>0, <4>1 DEF SourcesEnd, Callee
    <3>2. source[Callee] \in StackOf(Callee) /\ source[Callee] \in Thread /\ source[Callee] # cur
      BY <2>1, <3>1, SuspendedBelow, CurNotBelow DEF Ends
    <3>3. link[source[Callee]] = Nil
      BY <3>1, <3>2 DEF Ends, Structure, LinkedWhileWaiting, Waiting, Calling
    <3>4. t # cur /\ (t # source[Callee] => stk[t] # <<>>)
      BY <1>0, <2>6, <3>2 DEF ContUntaggedk
    <3> QED BY <2>1, <2>3, <3>2, <3>3, <3>4 DEF StackOf
  <2> QED BY <1>15, <2>5, <2>6
<1>16. CASE UNCHANGED vars
  <2>1. Holder' = Holder
    BY <1>16 DEF vars, Holder, Callee, Yielder, IsRaw
  <2> QED BY <1>0, <1>16, <2>1 DEF vars, ValuesHeld, StackOf
<1> QED BY <1>2, <1>3, <1>4, <1>5, <1>6, <1>7, <1>9, <1>10, <1>11, <1>12, <1>13, <1>14, <1>15,
           <1>16
        DEF Next, Program, Library, Terminated

-----------------------------------------------------------------------------
\* The main thread alone, which has called nobody.
LEMMA StacksInit == Init => StacksInv
<1> SUFFICES ASSUME Init PROVE StacksInv
  OBVIOUS
<1> USE ThreadAssumption DEF Init
<1>1. OneRunningStack
  BY WalkBegins DEF OneRunningStack, StackOf
<1>2. SuspendedStacks /\ PassedByTagged /\ NotCalledYet /\ SourcesEnd /\ SourcesDied /\ ValuesHeld
  BY DEF SuspendedStacks, PassedByTagged, NotCalledYet, SourcesEnd, SourcesDied, ValuesHeld
<1>3. YielderEnds
  BY DEF YielderEnds, CalleeYielded, InAuxcallk
<1>4. TracebackEnds
  <2> SUFFICES ASSUME NEW S \in (SUBSET {Main}) \ {{}}
               PROVE  \E t \in S : Coparent(t) \notin S
    BY DEF TracebackEnds
  <2>1. PICK t \in S : TRUE
    OBVIOUS
  <2>2. t = Main /\ Coparent(t) = Nil /\ Nil \notin S
    BY <2>1 DEF Coparent
  <2> QED BY <2>2
<1> QED BY <1>1, <1>2, <1>3, <1>4 DEF StacksInv

\* Every step keeps the inductive invariant.
LEMMA StacksStep == TypeOK /\ Structure /\ StacksInv /\ [Next]_vars => StacksInv'
<1> SUFFICES ASSUME TypeOK, Structure, StacksInv, [Next]_vars PROVE StacksInv'
  OBVIOUS
<1> USE DEF StacksInv
<1>1. OneRunningStack'
  BY TypeStep, StepKinds, OneRunningStackStep
<1> QED BY <1>1, SuspendedStacksStep, PassedByTaggedStep, NotCalledYetStep,
           SourcesEndStep, YielderEndsStep, SourcesDiedStep, ValuesHeldStep, TracebackEndsStep

\* The inductive invariant: for any number of threads, tags and values the stacks
\* of coroutines, the sources in their metadata, the yield on its way and the
\* values on their stacks fit together.
THEOREM StacksInvariant == Spec => [](TypeOK /\ Structure /\ StacksInv)
<1>1. TypeOK /\ Structure /\ StacksInv /\ [Next]_vars => (TypeOK /\ Structure /\ StacksInv)'
  BY TypeStep, StructureStep, StacksStep
<1> QED BY InitOK, StacksInit, <1>1, PTL DEF Spec

\* Whatever is yielded, passed along, rewound or fails: when Lua code runs again no
\* values are left on the stack of any coroutine but the one that runs and the dead.
THEOREM NoValuesLeft == Spec => []NoValuesLeftBehind
<1>1. StacksInv => NoValuesLeftBehind
  BY DEF StacksInv, ValuesHeld, NoValuesLeftBehind
<1> QED BY <1>1, StacksInvariant, PTL

\* The parents form no cycle: every loop over them, in isyieldable and traceback,
\* ends, also when it starts at a coroutine that is suspended or dead.
THEOREM ParentsEnd == Spec => []TracebackEnds
<1>1. StacksInv => TracebackEnds
  BY DEF StacksInv
<1> QED BY <1>1, StacksInvariant, PTL

\* A coroutine dead of an error has a source, and that died too.
THEOREM SourceDied == Spec => []DeadSourceIsDead
<1>1. TypeOK /\ Structure /\ StacksInv => DeadSourceIsDead
  <2> SUFFICES ASSUME TypeOK, Structure, StacksInv, Idle, NEW t \in coroset, status[t] = "err"
               PROVE  Cosource(t) # Nil /\ status[Cosource(t)] = "err"
    BY DEF DeadSourceIsDead
  <2>1. source[t] # Nil
    BY DEF StacksInv, SourcesDied, Idle
  <2>2. status[source[t]] = "err"
    BY <2>1 DEF StacksInv, SourcesDied, TypeOK
  <2> QED BY <2>1, <2>2 DEF Cosource
<1> QED BY <1>1, StacksInvariant, PTL

\* The source of a coroutine that can be resumed is the one that yielded: the
\* arguments of the next call, which auxcallk puts on its stack, reach it.
THEOREM SourceYielded == Spec => []SourceIsYielder
<1>1. TypeOK /\ Structure /\ StacksInv => SourceIsYielder
  <2> SUFFICES ASSUME TypeOK, Structure, StacksInv, Idle,
                      NEW t \in coroset, status[t] = "yield", ~stacked[t]
               PROVE  /\ Cosource(t) \in StackOf(t)
                      /\ frame[Cosource(t)] = "yieldk"
                      /\ \A q \in StackOf(t) \ {Cosource(t)} : frame[q] = "passk"
    BY DEF SourceIsYielder
  <2>1. t \in Thread
    BY DEF TypeOK
  <2>2. ASSUME NEW p \in Thread, link[p] = t
        PROVE  FALSE
    BY <2>1, <2>2, ThreadAssumption
    DEF Idle, Structure, CalleeMatchesFrame, CorosetIsCreated, LinkedWhileWaiting, Waiting, Calling
  <2>3. Ends(t, source[t], "yieldk")
    BY <2>2 DEF StacksInv, SourcesEnd
  <2> QED BY <2>3 DEF Ends, Cosource
<1> QED BY <1>1, StacksInvariant, PTL

\* The same for a coroutine of coroutine.create that stopped an untagged yield.
THEOREM UntaggedSourceYielded == Spec => []SourceBelowUntagged
<1>1. TypeOK /\ Structure /\ StacksInv => SourceBelowUntagged
  <2> SUFFICES ASSUME TypeOK, Structure, StacksInv, NEW u \in Thread, frame[u] = "untk"
               PROVE  /\ Cosource(link[u]) \in StackOf(u)
                      /\ frame[Cosource(link[u])] = "uyield"
    BY DEF SourceBelowUntagged
  <2>1. link[u] \in coroset /\ link[u] # Nil
    BY DEF Structure, CalleeMatchesFrame, LinkedWhileWaiting, Waiting, Calling
  <2>2. Ends(link[u], source[link[u]], "uyield")
    BY DEF StacksInv, SourcesEnd
  <2>3. StackOf(link[u]) \subseteq StackOf(u)
    BY <2>1, LinkSteps, WalkFirst DEF StackOf
  <2> QED BY <2>1, <2>2, <2>3 DEF Ends, Cosource
<1> QED BY <1>1, StacksInvariant, PTL

-----------------------------------------------------------------------------
(* The answers to queries.                                                 *)

\* What a coroutine that runs has for a parent is the one that waits for it.
LEMMA RunningParent ==
    ASSUME TypeOK, Structure, NotCalledYet, NEW t \in coroset, status[t] = "active", parent[t] # Nil
    PROVE  /\ t # Main /\ parent[t] \in Thread
           /\ status[parent[t]] = "active" /\ link[parent[t]] = t
<1>1. t # Main /\ t \in Thread
  BY DEF NotCalledYet, TypeOK
<1>2. PICK p \in Thread : status[p] = "active" /\ link[p] = t
  BY <1>1 DEF Structure, RunningHasResumer
<1>3. parent[t] = p
  BY <1>2 DEF Structure, ParentIsResumer
<1> QED BY <1>1, <1>2, <1>3

\* The walk that begins with the running coroutine goes from callee to caller, up to the
\* main thread or an untagged coroutine.
LEMMA CallersListed ==
    ASSUME TypeOK, Structure, OneRunningStack, NotCalledYet
    PROVE  LET callers == Walk(cur, NextTraced) IN
           /\ cur \in callers
           /\ \A t \in callers :
                 /\ t \in Thread /\ status[t] = "active" /\ cur \in StackOf(t)
                 /\ t \in coroset \ {Main} => Coparent(t) \in callers /\ link[Coparent(t)] = t
           /\ callers \cap (Untagged \cup {Main}) # {}
<1> DEFINE callers == Walk(cur, NextTraced)
           running == {t \in Thread : status[t] = "active"}
<1>1. /\ cur \in Thread /\ cur \in running /\ Main \in running /\ coroset \subseteq Thread
      /\ Steps(NextTraced) /\ Steps(link)
  BY ThreadAssumption DEF TypeOK, Structure, CurMatchesMode, Steps, NextTraced
<1>2. Closed(running, NextTraced)
  BY <1>1, RunningParent DEF Closed, NextTraced
<1>3. callers \subseteq running
  BY <1>1, <1>2, WalkStays
<1>4. cur \in callers /\ Closed(callers, NextTraced)
  BY <1>1, WalkBegins, WalkGoesOn
<1>5. ASSUME NEW t \in callers, t \in coroset \ {Main}
      PROVE  Coparent(t) \in callers /\ link[Coparent(t)] = t
  <2>1. PICK p \in Thread : status[p] = "active" /\ link[p] = t
    BY <1>3, <1>5 DEF Structure, RunningHasResumer
  <2>2. parent[t] = p /\ p # Nil
    BY <1>5, <2>1, ThreadAssumption DEF Structure, ParentIsResumer
  <2>3. NextTraced[t] = p
    BY <1>1, <1>5, <2>2 DEF NextTraced
  <2> QED BY <1>4, <1>5, <2>1, <2>2, <2>3 DEF Closed, Coparent
<1>6. ASSUME callers \cap (Untagged \cup {Main}) = {}
      PROVE  FALSE
  <2>1. callers \subseteq coroset \ {Main}
    BY <1>3, <1>6 DEF Structure, CorosetIsCreated
  <2>2. ASSUME NEW p \in Thread \ callers, link[p] # Nil, link[p] \in callers
        PROVE  FALSE
    <3>1. link[p] \in coroset /\ parent[link[p]] = p
      BY <2>1, <2>2 DEF Structure, ParentIsResumer
    <3> QED BY <1>5, <2>1, <2>2, <3>1 DEF Coparent
  <2>3. Closed(Thread \ callers, link)
    BY <1>1, <2>2 DEF Closed, Steps
  <2>4. StackOf(Main) \subseteq Thread \ callers
    BY <1>1, <1>6, <2>3, WalkStays DEF StackOf
  <2> QED BY <1>1, <1>4, <2>4 DEF OneRunningStack
<1>7. \A t \in callers : cur \in StackOf(t)
  BY <1>3 DEF OneRunningStack
<1> QED BY <1>3, <1>4, <1>5, <1>6, <1>7

\* A traceback of the running coroutine starts at the coroutine and lists its callers, or
\* it starts at a coroutine that died of an error.
THEOREM TracebackIsRight == Spec => []TracebackListsCallers
<1>1. TypeOK /\ Structure /\ StacksInv => TracebackListsCallers
  <2> SUFFICES ASSUME TypeOK, Structure, StacksInv
               PROVE  /\ Cosource(cur) = Nil => ListsCallers(Traceback(cur))
                      /\ Cosource(cur) # Nil => status[TraceStart(cur)] = "err"
    BY DEF TracebackListsCallers
  <2>1. ASSUME Cosource(cur) = Nil
        PROVE  ListsCallers(Traceback(cur))
    <3>1. Traceback(cur) = Walk(cur, NextTraced)
      BY <2>1 DEF Traceback, TraceStart, Cosource
    <3> QED BY <3>1, CallersListed DEF ListsCallers, StacksInv
  <2>2. ASSUME Cosource(cur) # Nil
        PROVE  status[TraceStart(cur)] = "err"
    <3>1. TraceStart(cur) = source[cur] /\ source[cur] # Nil
      BY <2>2 DEF TraceStart, Cosource
    <3> QED BY <3>1 DEF StacksInv, SourcesDied, TypeOK, Structure, CurMatchesMode
  <2> QED BY <2>1, <2>2
<1> QED BY <1>1, StacksInvariant, PTL

\* The statuses are those of one stack of running coroutines and of stacks that are
\* suspended; as for meta[2] itself, unless moving values raises an error.
THEOREM StatusIsRight == Spec => [](MayOverflow \/ StatusDescribesStacks)
<1>1. TypeOK /\ Structure /\ StacksInv => MayOverflow \/ StatusDescribesStacks
  <2> SUFFICES ASSUME TypeOK, Structure, StacksInv, ~MayOverflow, mode = "run",
                      NEW t \in Thread, status[t] # "none"
               PROVE  /\ Costatus(t) = "normal" => t \in StackOf(Main) /\ cur \in StackOf(t)
                      /\ Costatus(t) = "stacked" =>
                            \E r \in Thread :
                              /\ status[r] # "none" /\ Costatus(r) = "suspended"
                              /\ t \in StackOf(r)
    BY DEF StatusDescribesStacks
  <2>1. status[t] \in {"new", "active", "yield", "done", "err"} /\ status[cur] = "active"
    BY DEF TypeOK, Status, Structure, CurMatchesMode
  <2>2. CASE t = cur
    BY <2>2 DEF Costatus
  <2>3. CASE t # cur /\ status[t] = "active"
    <3>1. Costatus(t) = "normal"
      BY <2>3 DEF Costatus
    <3> QED BY <2>3, <3>1 DEF StacksInv, OneRunningStack
  <2>4. CASE t # cur /\ status[t] = "yield"
    <3>1. PICK r \in Thread : Root(r) /\ t \in StackOf(r)
      BY <2>4 DEF StacksInv, SuspendedStacks
    <3>2. status[r] = "yield" /\ \A p \in Thread : link[p] = r => frame[p] \notin {"passk", "untk"}
      BY <3>1 DEF Root
    <3>3. ~stacked[r] /\ r # cur
      BY <2>1, <3>2 DEF Structure, StackedUnlessOverflow, StackedIsOnAStack
    <3>4. Costatus(r) = "suspended"
      BY <3>2, <3>3 DEF Costatus
    <3>5. Costatus(t) # "normal"
      BY <2>4 DEF Costatus
    <3> QED BY <3>1, <3>2, <3>4, <3>5
  <2>5. CASE t # cur /\ status[t] = "new"
    BY <2>5 DEF Costatus
  <2>6. CASE t # cur /\ status[t] \in {"done", "err"}
    BY <2>6 DEF Costatus
  <2> QED BY <2>1, <2>2, <2>3, <2>4, <2>5, <2>6
<1> QED BY <1>1, StacksInvariant, PTL

LEMMA AskedSteps ==
    ASSUME TypeOK, NEW g
    PROVE  Steps(NextAsked(g))
BY DEF TypeOK, Steps, NextAsked

\* Who takes a yield is who the walk of isyieldable from its yielder finds: against
\* the calls, that walk goes through all that pass the yield along.
LEMMA TakerIsFound ==
    ASSUME TypeOK, Structure, StacksInv, CalleeYielded, YieldTag # RawTag, ForMe
    PROVE  Handler(Yielder, YieldTag, Callee)
<1> DEFINE g == YieldTag
           W == Walk(Yielder, NextAsked(g))
           S == StackOf(Callee)
<1>1. /\ Callee \in Thread /\ status[Callee] = "yield"
      /\ Yielder \in Thread /\ Yielder \in S /\ link[Yielder] = Nil
  BY YielderIsEnd DEF StacksInv
<1>2. Callee \in coroset
  BY <1>1, ThreadAssumption DEF CalleeYielded, InAuxcallk, Callee, Structure, CalleeMatchesFrame, TypeOK
<1>3. /\ \A q \in S \ {Yielder} : frame[q] = "passk"
      /\ \A q \in S \ {Callee} : tag[q] # g
  BY DEF StacksInv, YielderEnds, Ends
<1>4. Closed(W, NextAsked(g)) /\ Yielder \in W /\ Closed(S, link) /\ S \subseteq Thread /\ Callee \in S
  BY <1>1, AskedSteps, LinkSteps, WalkBegins, WalkGoesOn DEF StackOf
<1>5. ASSUME Callee \notin W
      PROVE  FALSE
  <2>1. ASSUME NEW p \in S \ W, link[p] # Nil, link[p] \in W
        PROVE  FALSE
    <3>1. PICK q \in S : q = link[p] /\ q # Callee /\ p # Yielder
      BY <1>4, <1>5, <2>1 DEF Closed
    <3>2. frame[p] = "passk" /\ q \in coroset /\ p \in Thread /\ q \in Thread
      BY <1>3, <1>4, <2>1, <3>1 DEF Structure, CalleeMatchesFrame
    <3>3. tag[q] # g /\ parent[q] = p
      BY <1>3, <3>1, <3>2 DEF Structure, ParentIsResumer
    <3>4. Yieldable(p)
      <4>1. status[p] = "yield"
        BY <1>1, SuspendedBelow
      <4> QED BY <3>2, <4>1 DEF Yieldable, StacksInv, SuspendedStacks, Structure, CurMatchesMode
    <3>5. NextAsked(g)[q] = p /\ p # Nil
      BY <3>2, <3>3, <3>4, ThreadAssumption DEF NextAsked
    <3> QED BY <1>4, <2>1, <3>1, <3>5 DEF Closed
  <2>2. Closed(S \ W, link)
    BY <1>4, <2>1 DEF Closed
  <2>3. S \subseteq S \ W
    BY <1>1, <1>4, <1>5, <2>2, WalkStays DEF StackOf
  <2> QED BY <1>1, <1>4, <2>3
<1> QED BY <1>2, <1>5 DEF Handler, ForMe

\* When a yield goes no further, that walk finds nobody.
LEMMA NobodyIsFound ==
    ASSUME TypeOK, Structure, StacksInv, CalleeYielded, YieldTag # RawTag, Blocked, NEW h \in Thread
    PROVE  ~Handler(Yielder, YieldTag, h)
<1> DEFINE g == YieldTag
           S == StackOf(Callee)
           V == S \cup {p \in {cur} : Yieldable(p)}
<1>1. /\ Callee \in Thread /\ cur \in Thread /\ coroset \subseteq Thread
      /\ Yielder \in Thread /\ Yielder \in S
  BY YielderIsEnd DEF StacksInv, TypeOK
<1>2. ~(Yieldable(cur) /\ cur \in coroset) /\ tag[Callee] # g
  BY DEF Blocked, CanPass, ForMe
<1>3. \A q \in S : tag[q] # g
  BY <1>2 DEF StacksInv, YielderEnds
<1>4. S \subseteq Thread
  BY <1>1, WalkBegins DEF StackOf
<1>5. ASSUME NEW p \in V, NextAsked(g)[p] # Nil
      PROVE  NextAsked(g)[p] \in V
  <2>1. p \in coroset /\ Yieldable(parent[p]) /\ NextAsked(g)[p] = parent[p]
    BY <1>1, <1>4, <1>5 DEF NextAsked
  <2>2. p \in S
    BY <1>2, <2>1
  <2>3. CASE p = Callee
    <3>1. parent[p] = cur
      BY <1>1, <2>1, <2>3 DEF Structure, ParentIsResumer, Callee
    <3> QED BY <2>1, <3>1
  <2>4. CASE p # Callee
    <3>1. PICK q \in S : link[q] = p
      BY <1>1, <2>2, <2>4, LinkSteps, WalkReaches DEF StackOf
    <3>2. parent[p] = q
      BY <1>4, <2>1, <3>1 DEF Structure, ParentIsResumer
    <3> QED BY <2>1, <3>2
  <2> QED BY <2>3, <2>4
<1>6. Walk(Yielder, NextAsked(g)) \subseteq V
  <2>1. V \in SUBSET Thread /\ Yielder \in V
    BY <1>1, <1>4
  <2>2. Closed(V, NextAsked(g))
    BY <1>5 DEF Closed
  <2> HIDE DEF V
  <2> QED BY <1>1, <2>1, <2>2, WalkStays
<1> QED BY <1>2, <1>3, <1>6 DEF Handler

\* A tagged yield goes where tc.isyieldable, asked by its yielder, says, and whoever
\* tc.isyieldable promises the running coroutine runs itself.
THEOREM YieldGoesRight == Spec => []YieldGoesWhereIsyieldableSays
<1>1. TypeOK /\ Structure /\ StacksInv => YieldGoesWhereIsyieldableSays
  <2> SUFFICES ASSUME TypeOK, Structure, StacksInv
               PROVE  YieldGoesWhereIsyieldableSays
    OBVIOUS
  <2>1. ASSUME mode = "back", frame[cur] = "raw", status[Callee] = "yield", frame[Callee] = "yieldk",
               NEW h \in Thread
        PROVE  ~Handler(Callee, ytag, h)
    <3>1. Callee \in Thread /\ Callee \notin coroset
      BY <2>1, ThreadAssumption
      DEF TypeOK, Callee, Structure, CalleeMatchesFrame, CorosetIsCreated, LinkedWhileWaiting,
          Waiting, Calling
    <3>2. NextAsked(ytag)[Callee] = Nil
      BY <3>1 DEF NextAsked
    <3>3. Walk(Callee, NextAsked(ytag)) = {Callee}
      BY <3>1, <3>2, WalkEnds
    <3> QED BY <3>1, <3>3 DEF Handler
  <2>2. ASSUME mode = "run", NEW g \in Tag, Isyieldable(g)
        PROVE  \E t \in Thread : Cotag(t) = g /\ t \in StackOf(Main)
    <3> DEFINE running == {t \in Thread : status[t] = "active"}
    <3>1. PICK h \in Thread : Handler(cur, g, h)
      BY <2>2 DEF Isyieldable
    <3>2. cur \in Thread /\ cur \in running /\ coroset \subseteq Thread
      BY DEF TypeOK, Structure, CurMatchesMode
    <3>3. Closed(running, NextAsked(g))
      BY <3>2, RunningParent DEF Closed, NextAsked, StacksInv
    <3>4. status[h] = "active"
      BY <3>1, <3>2, <3>3, WalkStays DEF Handler
    <3> QED BY <3>1, <3>4 DEF Handler, Cotag, StacksInv, OneRunningStack
  <2> QED BY <2>1, <2>2, TakerIsFound, NobodyIsFound DEF YieldGoesWhereIsyieldableSays
<1> QED BY <1>1, StacksInvariant, PTL
=============================================================================
