----------------------------- MODULE TaggedCoro -----------------------------
(***************************************************************************)
(* The C implementation of tagged coroutines, src/src/taggedcoro.c: the    *)
(* stack of coroutines that call one another, and what create, call,       *)
(* resume, yield and their continuations do to it.                         *)
(*                                                                         *)
(* One Lua state runs one coroutine at a time, `cur'.  What the running    *)
(* Lua program does next is nondeterministic (the actions of Program); in  *)
(* between, the C code runs alone:                                         *)
(*   mode = "back"  lua_resume has just returned to the auxcallk that      *)
(*                  cur is executing (or to coroutine.resume)              *)
(*   mode = "cont"  cur has just been resumed, and what it is suspended in *)
(*                  runs: its body, or the continuation of a yield         *)
(*   mode = "run"   cur executes Lua code                                  *)
(*   mode = "raise" a Lua error unwinds cur's own stack                    *)
(*   mode = "exit"  the main chunk ended                                   *)
(*   mode = "broken" a C function returned -1 to the Lua core: what the    *)
(*                  state is from there on C does not define               *)
(***************************************************************************)
EXTENDS Integers, Sequences

CONSTANTS
    Thread,      \* every lua_State that may exist
    Main,        \* the main thread
    Nil,         \* Lua's nil
    Tag,         \* the tags of the program
    RawTag,      \* the light userdata &getco, when it stands for a tag
    Untagged,    \* the threads the program creates with coroutine.create
    Unyielding,  \* the threads whose bodies call through unyieldable C code
    MayOverflow, \* whether moving yielded values can exceed the Lua stack
    Arg,         \* the values a program passes
    Payload,     \* the argument lists it passes
    MaxHeld      \* bound: values left on the stack of a dead coroutine

\* What the library itself puts on a stack beside the program's values.
Ctl == {"nil", "msg", "sentinel", "tag", "thread"}
Val == Arg \cup Ctl

ASSUME ThreadAssumption ==
    /\ Main \in Thread
    /\ Untagged \subseteq Thread \ {Main}
    /\ Unyielding \subseteq Thread \ {Main}
    /\ Nil \notin Thread

ASSUME TagAssumption ==
    /\ RawTag \notin Tag
    /\ Nil \notin Tag
    /\ RawTag # Nil

ASSUME DataAssumption ==
    /\ Arg \cap Ctl = {}
    /\ Payload \subseteq Seq(Arg)
    /\ MayOverflow \in BOOLEAN
    /\ MaxHeld \in Nat

VARIABLES
    status,   \* thread -> none, new, active (running or normal), yield, done, err
    frame,    \* thread -> what it is in: its Lua body, a call or a yield
    link,     \* thread -> the thread that call resumes, Nil when in none
    ccall,    \* thread -> TRUE inside an unyieldable C call (nny > 0)
    stk,      \* thread -> the values on its stack above the fixed slots
    coroset,  \* the threads that have a metadata table
    tag,      \* thread -> meta[1]
    stacked,  \* thread -> meta[2]
    parent,   \* thread -> meta[3]
    source,   \* thread -> meta[4], the yielder or the source of an error
    cur,      \* the running thread
    mode,     \* what runs in it
    ytag,     \* the tag a yield on its way carries, Nil when there is none
    yfrom     \* and the coroutine it comes from

lua  == <<status, frame, link, ccall>>
meta == <<coroset, tag, stacked, parent, source>>
inflight == <<ytag, yfrom>>
vars == <<status, frame, link, ccall, stk, coroset, tag, stacked, parent,
          source, cur, mode, ytag, yfrom>>

Status == {"none", "new", "active", "yield", "done", "err"}
\* "body"   running, or not started yet
\* "call"   in auxcallk under the trampoline of auxcall
\* "callk"  in auxcallk run as a continuation: no trampoline below it
\* "raw"    in coroutine.resume
\* "yieldk" suspended by tc.yield        "uyield" by coroutine.yield
\* "passk"  suspended by auxcallk, which passes a tagged yield along
\* "untk"   suspended by auxcallk, an untagged yield stops here
Frame == {"body", "call", "callk", "raw", "yieldk", "uyield", "passk", "untk"}
Mode  == {"run", "back", "cont", "raise", "exit", "broken"}

TypeOK ==
    /\ status  \in [Thread -> Status]
    /\ frame   \in [Thread -> Frame]
    /\ link    \in [Thread -> Thread \cup {Nil}]
    /\ ccall   \in [Thread -> BOOLEAN]
    /\ stk     \in [Thread -> Seq(Val)]
    /\ coroset \subseteq Thread
    /\ tag     \in [Thread -> Tag \cup {Nil}]
    /\ stacked \in [Thread -> BOOLEAN]
    /\ parent  \in [Thread -> Thread \cup {Nil}]
    /\ source  \in [Thread -> Thread \cup {Nil}]
    /\ cur     \in Thread
    /\ mode    \in Mode
    /\ ytag    \in Tag \cup {RawTag, Nil}
    /\ yfrom   \in Thread \cup {Nil}

\* luaopen_taggedcoro: the main thread has metadata, with no tag.
Init ==
    /\ status  = [t \in Thread |-> IF t = Main THEN "active" ELSE "none"]
    /\ frame   = [t \in Thread |-> "body"]
    /\ link    = [t \in Thread |-> Nil]
    /\ ccall   = [t \in Thread |-> FALSE]
    /\ stk     = [t \in Thread |-> <<>>]
    /\ coroset = {Main}
    /\ tag     = [t \in Thread |-> Nil]
    /\ stacked = [t \in Thread |-> FALSE]
    /\ parent  = [t \in Thread |-> Nil]
    /\ source  = [t \in Thread |-> Nil]
    /\ cur = Main
    /\ mode = "run"
    /\ ytag = Nil
    /\ yfrom = Nil
-----------------------------------------------------------------------------
(* The Lua core, as taggedcoro.c uses it.                                  *)

\* lua_isyieldable: not in the main thread, no unyieldable C call pending.
Yieldable(t) == t # Main /\ ~ccall[t]

\* Control goes back to the lua_resume that runs cur.
ToResumer ==
    \E p \in Thread :
        /\ status[p] = "active"
        /\ link[p] = cur
        /\ cur' = p
        /\ mode' = "back"

\* cur suspends itself, waiting in `how'.
Suspends(how) ==
    /\ status' = [status EXCEPT ![cur] = "yield"]
    /\ frame' = [frame EXCEPT ![cur] = how]
    /\ ToResumer

\* lua_resume(co): cur waits in `how' while co runs.
Resumes(co, how) ==
    /\ status' = [status EXCEPT ![co] = "active"]
    /\ frame' = [frame EXCEPT ![cur] = how]
    /\ link' = [link EXCEPT ![cur] = co]
    /\ cur' = co
    /\ mode' = "cont"

\* The call or yield that cur was in is over.
LeavesFrame ==
    /\ frame' = [frame EXCEPT ![cur] = "body"]
    /\ link' = [link EXCEPT ![cur] = Nil]

\* The program lets go of the values it was last given.
Consumes == stk' = [stk EXCEPT ![cur] = <<>>]

-----------------------------------------------------------------------------
(* The program: what Lua code may do while it runs in cur.                 *)

\* tc.create(g, f), tc.wrap(g, f).  A nil tag stands for "coroutine", which is
\* one of Tag.
Cocreate(t, g) ==
    /\ mode = "run"
    /\ status[t] = "none"
    /\ t \notin Untagged
    /\ status' = [status EXCEPT ![t] = "new"]
    /\ coroset' = coroset \cup {t}
    /\ tag' = [tag EXCEPT ![t] = g]
    /\ Consumes
    /\ UNCHANGED <<frame, link, ccall, stacked, parent, source, cur, mode, inflight>>

\* coroutine.create(f)
CreateUntagged(t) ==
    /\ mode = "run"
    /\ status[t] = "none"
    /\ t \in Untagged
    /\ status' = [status EXCEPT ![t] = "new"]
    /\ Consumes
    /\ UNCHANGED <<frame, link, ccall, meta, cur, mode, inflight>>

\* Slips the properties must notice are named Operator_Slip, here and below: no
\* test of meta[2], no test for a coroutine that has frames.
Resumable_StackedToo(co) == status[co] \notin {"none", "done", "active"} /\ co \in coroset
Resumable_RunningToo(co) == status[co] \notin {"none", "done"} /\ co \in coroset /\ ~stacked[co]

\* The checks of taggedcoro_cocall.  A coroutine that died of an error passes
\* them: its lua_status is neither LUA_OK nor LUA_YIELD.
Resumable(co) ==
    /\ status[co] \notin {"none", "done", "active"}
    /\ co \in coroset
    /\ ~stacked[co]

\* The arguments of a call go straight to the coroutine that yielded.
ArgTarget(co) == IF source[co] = Nil THEN co ELSE source[co]

ClearsSource_Not(co) == UNCHANGED source
SetsParent_Once(co) ==
    parent' = IF parent[co] = Nil THEN [parent EXCEPT ![co] = cur] ELSE parent
Unstacks_Not(co) == UNCHANGED stacked

\* What is written to coroset[co] when it is called and when it is resumed.
ClearsSource(co) == source' = [source EXCEPT ![co] = Nil]
SetsParent(co) == parent' = [parent EXCEPT ![co] = cur]
Unstacks(co) == stacked' = [stacked EXCEPT ![co] = FALSE]

\* tc.call(co, ...): taggedcoro_cocall, auxcall, and auxcallk up to the resume.
\* lua_resume itself refuses what is neither new nor suspended, with an error.
Cocall(co, v) ==
    /\ mode = "run"
    /\ Resumable(co)
    /\ Len(stk[ArgTarget(co)]) + Len(v) <= MaxHeld
    /\ stk' = [stk EXCEPT ![cur] = <<>>, ![ArgTarget(co)] = @ \o v]
    /\ ClearsSource(co)
    /\ SetsParent(co)
    /\ Unstacks(co)
    /\ \/ /\ status[co] \in {"new", "yield"}
          /\ Resumes(co, "call")
       \/ /\ status[co] \notin {"new", "yield"}
          /\ frame' = [frame EXCEPT ![cur] = "call"]
          /\ link' = [link EXCEPT ![cur] = co]
          /\ mode' = "back"
          /\ UNCHANGED <<status, cur>>
    /\ UNCHANGED <<ccall, coroset, tag, inflight>>

\* tc.call of a dead, running, normal, untagged or stacked coroutine.
CocallRefused(co) ==
    /\ mode = "run"
    /\ status[co] # "none"
    /\ ~Resumable(co)
    /\ mode' = "raise"
    /\ Consumes
    /\ UNCHANGED <<lua, meta, cur, inflight>>

\* coroutine.resume(u, ...) of an untagged coroutine that can be resumed.
RawResume(u, v) ==
    /\ mode = "run"
    /\ u \in Untagged
    /\ status[u] \in {"new", "yield"}
    /\ stk' = [stk EXCEPT ![cur] = <<>>, ![u] = v]
    /\ Resumes(u, "raw")
    /\ UNCHANGED <<ccall, meta, inflight>>

\* tc.yield(g, ...): values, tag, yielder and sentinel go to the resumer.  The
\* values stay on the yielder's stack until its handler takes them.
TcYield(g, v) ==
    /\ mode = "run"
    /\ Yieldable(cur)
    /\ stk' = [stk EXCEPT ![cur] = v]
    /\ ytag' = g
    /\ yfrom' = cur
    /\ Suspends("yieldk")
    /\ UNCHANGED <<link, ccall, meta>>

\* coroutine.yield(...)
RawYield(v) ==
    /\ mode = "run"
    /\ Yieldable(cur)
    /\ stk' = [stk EXCEPT ![cur] = v]
    /\ Suspends("uyield")
    /\ UNCHANGED <<link, ccall, meta, inflight>>

\* Either yield in the main thread or inside an unyieldable C call: lua_yieldk
\* raises an error.
YieldRefused ==
    /\ mode = "run"
    /\ ~Yieldable(cur)
    /\ mode' = "raise"
    /\ Consumes
    /\ UNCHANGED <<lua, meta, cur, inflight>>

\* The body of a coroutine returns.
Return(v) ==
    /\ mode = "run"
    /\ cur # Main
    /\ ~ccall[cur]
    /\ status' = [status EXCEPT ![cur] = "done"]
    /\ stk' = [stk EXCEPT ![cur] = v]
    /\ ToResumer
    /\ UNCHANGED <<frame, link, ccall, meta, inflight>>

\* error(...)
Throw ==
    /\ mode = "run"
    /\ mode' = "raise"
    /\ Consumes
    /\ UNCHANGED <<lua, meta, cur, inflight>>

\* tc.resume (a protected taggedcoro_cocall) or pcall catches the error, inside
\* or outside of a pending C call.
Catch ==
    /\ mode = "raise"
    /\ mode' = "run"
    /\ stk' = [stk EXCEPT ![cur] = <<"msg">>]
    /\ ccall' \in {ccall, [ccall EXCEPT ![cur] = FALSE]}
    /\ UNCHANGED <<status, frame, link, meta, cur, inflight>>

\* No handler in cur: the coroutine is dead, its resumer gets the error.
Die ==
    /\ mode = "raise"
    /\ cur # Main
    /\ status' = [status EXCEPT ![cur] = "err"]
    /\ ccall' = [ccall EXCEPT ![cur] = FALSE]
    /\ ToResumer
    /\ UNCHANGED <<frame, link, stk, meta, inflight>>

\* The main chunk returns, or dies of an error.
MainEnds ==
    /\ mode \in {"run", "raise"}
    /\ cur = Main
    /\ mode' = "exit"
    /\ Consumes
    /\ UNCHANGED <<lua, meta, cur, inflight>>

\* cur calls Lua code through a C function that cannot yield, and returns.
EnterC ==
    /\ mode = "run"
    /\ cur \in Unyielding
    /\ ~ccall[cur]
    /\ ccall' = [ccall EXCEPT ![cur] = TRUE]
    /\ Consumes
    /\ UNCHANGED <<status, frame, link, meta, cur, mode, inflight>>

LeaveC ==
    /\ mode = "run"
    /\ ccall[cur]
    /\ ccall' = [ccall EXCEPT ![cur] = FALSE]
    /\ Consumes
    /\ UNCHANGED <<status, frame, link, meta, cur, mode, inflight>>
-----------------------------------------------------------------------------
(* auxcallk after lua_resume returns: cur executes it, Callee was resumed. *)

Callee == link[cur]

InAuxcallk == mode = "back" /\ frame[cur] \in {"call", "callk"}

CalleeYielded == InAuxcallk /\ status[Callee] = "yield"

\* A yield without the sentinel comes from coroutine.yield: it gets the light
\* userdata for its tag, and the callee for its yielder.
IsRaw   == frame[Callee] = "uyield"
Yielder_Callee == Callee
YieldTag_Swapped == IF IsRaw THEN RawTag ELSE yfrom
YieldTag == IF IsRaw THEN RawTag ELSE ytag
Yielder == IF IsRaw THEN Callee ELSE yfrom

ForMe == YieldTag = tag[Callee]

CanPass_Unyieldable == cur \in coroset

\* lua_isyieldable(L), and coroset[L]: whether cur may itself yield the tag on.
CanPass == Yieldable(cur) /\ cur \in coroset

\* An untagged yield stops at an untagged coroutine.
StopsHere == Yieldable(cur) /\ cur \notin coroset /\ YieldTag = RawTag

Blocked == ~ForMe /\ ~CanPass /\ ~StopsHere

Overflows_Keeps(co) == MayOverflow /\ stk[co] # <<>> /\ UNCHANGED stk

\* moveyielded: all values of `co' move to cur, or none fits and they are gone.
Moves(co) == stk' = [stk EXCEPT ![co] = <<>>, ![cur] = stk[co]]
Overflows(co) ==
    /\ MayOverflow
    /\ stk[co] # <<>>
    /\ stk' = [stk EXCEPT ![co] = <<>>]

NoYieldInFlight == ytag' = Nil /\ yfrom' = Nil

\* The callee returned: its results are those of the call.
BackOK ==
    /\ InAuxcallk
    /\ status[Callee] = "done"
    /\ \/ Moves(Callee) /\ mode' = "run"
       \/ Overflows(Callee) /\ mode' = "raise"
    /\ LeavesFrame
    /\ UNCHANGED <<status, ccall, meta, cur, inflight>>

\* The callee has the tag of the yield: the call returns what was yielded.
BackForMe ==
    /\ CalleeYielded
    /\ ForMe
    /\ source' = [source EXCEPT ![Callee] = Yielder]
    /\ \/ Moves(Yielder) /\ mode' = "run"
       \/ Overflows(Yielder) /\ mode' = "raise"
    /\ LeavesFrame
    /\ NoYieldInFlight
    /\ UNCHANGED <<status, ccall, coroset, tag, stacked, parent, cur>>

\* cur yields the same tag, yielder and sentinel to its own resumer.
BackPass ==
    /\ CalleeYielded
    /\ ~ForMe
    /\ CanPass
    /\ stacked' = [stacked EXCEPT ![Callee] = TRUE]
    /\ ytag' = YieldTag
    /\ yfrom' = Yielder
    /\ Suspends("passk")
    /\ UNCHANGED <<link, ccall, stk, coroset, tag, parent, source>>

\* An untagged yield reaches the untagged cur, which suspends as if the yield
\* were its own.  stacked and source are set before the values are moved.
BackStopsHere ==
    /\ CalleeYielded
    /\ ~ForMe
    /\ StopsHere
    /\ stacked' = [stacked EXCEPT ![Callee] = TRUE]
    /\ source' = [source EXCEPT ![Callee] = Yielder]
    /\ \/ Moves(Yielder) /\ Suspends("untk") /\ UNCHANGED link
       \/ /\ Overflows(Yielder)
          /\ LeavesFrame
          /\ mode' = "raise"
          /\ UNCHANGED <<status, cur>>
    /\ NoYieldInFlight
    /\ UNCHANGED <<ccall, coroset, tag, parent>>

FailureValues_NoTest == IF cur = Main THEN <<"nil", "msg">> ELSE <<"sentinel", "msg">>

\* What the trampoline pushes: nil and a message for an untagged yield that
\* reached the main thread, sentinel and message for every other failure.
FailureValues ==
    IF cur = Main /\ YieldTag = RawTag THEN <<"nil", "msg">> ELSE <<"sentinel", "msg">>

\* The yield goes no further: auxcallk returns -1 to the trampoline of auxcall,
\* which resumes the callee with the failure.
BackFails ==
    /\ CalleeYielded
    /\ frame[cur] = "call"
    /\ Blocked
    /\ stk' = [stk EXCEPT ![Callee] = FailureValues]
    /\ Unstacks(Callee)
    /\ Resumes(Callee, "call")
    /\ NoYieldInFlight
    /\ UNCHANGED <<ccall, coroset, tag, parent, source>>

\* The same in a continuation: the -1 goes to the Lua core instead.
BackLost ==
    /\ CalleeYielded
    /\ frame[cur] = "callk"
    /\ Blocked
    /\ stk' = [stk EXCEPT ![Callee] = <<>>]
    /\ mode' = "broken"
    /\ NoYieldInFlight
    /\ UNCHANGED <<lua, meta, cur>>

ErrorSource_Running == IF source[Callee] = Nil THEN cur ELSE source[Callee]

\* lua_resume failed, the callee died: it, and cur when that is tagged, remember
\* where the error started, and the error goes on in cur.
ErrorSource == IF source[Callee] = Nil THEN Callee ELSE source[Callee]

BackErr ==
    /\ InAuxcallk
    /\ status[Callee] \notin {"done", "yield"}
    /\ source' = [t \in Thread |->
                     IF t = Callee \/ (t = cur /\ cur \in coroset)
                     THEN ErrorSource ELSE source[t]]
    /\ stk' = [stk EXCEPT ![Callee] = <<>>]
    /\ mode' = "raise"
    /\ LeavesFrame
    /\ UNCHANGED <<status, ccall, coroset, tag, stacked, parent, cur, inflight>>

\* coroutine.resume returns: results, the error message, or what an untagged
\* coroutine yielded, to which a tagged yield adds its tag, thread and sentinel.
RawBack ==
    /\ mode = "back"
    /\ frame[cur] = "raw"
    /\ stk' = [stk EXCEPT
         ![Callee] = <<>>,
         ![cur] = IF status[Callee] = "err" THEN <<"msg">>
                  ELSE IF frame[Callee] = "yieldk"
                       THEN stk[Callee] \o <<"tag", "thread", "sentinel">>
                       ELSE stk[Callee]]
    /\ mode' = "run"
    /\ LeavesFrame
    /\ NoYieldInFlight
    /\ UNCHANGED <<status, ccall, meta, cur>>

-----------------------------------------------------------------------------
(* What a coroutine that has just been resumed continues with.             *)

\* Its body, or coroutine.yield, which returns what it was resumed with.
ContPlain ==
    /\ mode = "cont"
    /\ frame[cur] \in {"body", "uyield"}
    /\ mode' = "run"
    /\ LeavesFrame
    /\ UNCHANGED <<status, ccall, stk, meta, cur, inflight>>

\* yieldk: the sentinel in front makes it an error, else tc.yield returns.
SaysFailed(s) == s # <<>> /\ Head(s) = "sentinel"

ContYieldk ==
    /\ mode = "cont"
    /\ frame[cur] = "yieldk"
    /\ \/ SaysFailed(stk[cur]) /\ mode' = "raise" /\ Consumes
       \/ ~SaysFailed(stk[cur]) /\ mode' = "run" /\ UNCHANGED stk
    /\ LeavesFrame
    /\ UNCHANGED <<status, ccall, meta, cur, inflight>>

\* auxcallk as the continuation of a yield it passed along: it resumes the next
\* coroutine of the stack.  If it was resumed with anything that is the two
\* values of a failure, which replace what is on that coroutine's stack.
ContPassk ==
    /\ mode = "cont"
    /\ frame[cur] = "passk"
    /\ stk' = IF stk[cur] = <<>> THEN stk
              ELSE [stk EXCEPT ![Callee] = stk[cur], ![cur] = <<>>]
    /\ Unstacks(Callee)
    /\ Resumes(Callee, "callk")
    /\ UNCHANGED <<ccall, coroset, tag, parent, source, inflight>>

\* untaggedk: the arguments go straight to the yielder.
ContUntaggedk ==
    /\ mode = "cont"
    /\ frame[cur] = "untk"
    /\ stk' = [stk EXCEPT ![cur] = <<>>, ![source[Callee]] = @ \o stk[cur]]
    /\ ClearsSource(Callee)
    /\ Unstacks(Callee)
    /\ Resumes(Callee, "callk")
    /\ UNCHANGED <<ccall, coroset, tag, parent, inflight>>

-----------------------------------------------------------------------------
Program ==
    \/ \E t \in Thread, g \in Tag : Cocreate(t, g)
    \/ \E t \in Thread : CreateUntagged(t)
    \/ \E t \in Thread, v \in Payload : Cocall(t, v)
    \/ \E t \in Thread : CocallRefused(t)
    \/ \E t \in Thread, v \in Payload : RawResume(t, v)
    \/ \E g \in Tag, v \in Payload : TcYield(g, v)
    \/ \E v \in Payload : RawYield(v)
    \/ \E v \in Payload : Return(v)
    \/ YieldRefused \/ Throw \/ Catch \/ Die \/ MainEnds \/ EnterC \/ LeaveC

\* The C code runs to its end without giving control to anybody else.
Library ==
    \/ BackOK \/ BackForMe \/ BackPass \/ BackStopsHere \/ BackFails \/ BackLost
    \/ BackErr \/ RawBack
    \/ ContPlain \/ ContYieldk \/ ContPassk \/ ContUntaggedk

Terminated == mode \in {"exit", "broken"} /\ UNCHANGED vars

Next == Program \/ Library \/ Terminated

Spec == Init /\ [][Next]_vars

FairSpec == Spec /\ WF_vars(Library)
-----------------------------------------------------------------------------
(* Safety.                                                                 *)

\* No two calls wait for the same coroutine.  taggedcoro_cocall has only the
\* stacked flag to tell a coroutine that handled a yield from one in the middle
\* of a suspended stack.
OneResumer ==
    \A p, q \in Thread : link[p] # Nil /\ link[p] = link[q] => p = q

\* Whoever runs was called by somebody who waits for it, down to the main
\* thread: a suspension, return or error always has a lua_resume to go to.
RunningHasResumer ==
    \A t \in Thread \ {Main} :
        status[t] = "active" => \E p \in Thread : status[p] = "active" /\ link[p] = t

\* meta[2]: a coroutine is marked as stacked exactly while a suspended coroutine
\* has it on its stack, so that it is refused neither too long nor too briefly.
StackedIsOnAStack ==
    \A t \in Thread :
        stacked[t] <=> \E p \in Thread : link[p] = t /\ frame[p] \in {"passk", "untk"}

\* meta[3]: the parent of a tagged coroutine that runs, or is stacked, is the
\* coroutine waiting for it; isyieldable and traceback walk these links.
ParentIsResumer ==
    \A p \in Thread : link[p] \in coroset => parent[link[p]] = p

\* The values of a yield stay on the yielder's stack until its handler takes
\* them, and those of a failed yield are cleared on the way back: once Lua code
\* runs again nothing is left on any other stack than that of a dead coroutine,
\* where a later resume would deliver it.
NoValuesLeftBehind ==
    mode \in {"run", "raise"} =>
        \A t \in Thread \ {cur} : status[t] # "err" => stk[t] = <<>>

-----------------------------------------------------------------------------
(* The inductive invariant behind the first four, and behind TypeOK.       *)

Suspended == {"yieldk", "uyield", "passk", "untk"}
Calling   == {"call", "callk", "raw"}
Waiting   == Calling \cup {"passk", "untk"}

\* The status of a thread and the frame it is in go together.
FramesMatchStatus ==
    \A t \in Thread :
        /\ status[t] \in {"none", "new", "done", "err"} => frame[t] = "body"
        /\ status[t] = "yield" => frame[t] \in Suspended
        /\ status[t] = "active" /\ frame[t] \in Suspended => t = cur /\ mode = "cont"

CurMatchesMode ==
    /\ status[cur] = "active"
    /\ status[Main] = "active"
    /\ mode \in {"run", "raise", "exit"} => frame[cur] = "body"
    /\ mode \in {"back", "broken"} => frame[cur] \in Calling
    /\ mode = "cont" => frame[cur] \notin Calling

CorosetIsCreated ==
    \A t \in Thread : t \in coroset <=> status[t] # "none" /\ t \notin Untagged

LinkedWhileWaiting ==
    \A p \in Thread : link[p] # Nil <=> frame[p] \in Waiting

\* What the callee of a call looks like, by what the caller waits in.
CalleeMatchesFrame ==
    \A p \in Thread : link[p] # Nil =>
        LET t == link[p] IN
        /\ frame[p] \in Calling =>
              IF p = cur /\ mode \in {"back", "broken"}
              THEN status[t] \in {"yield", "done", "err"}
              ELSE status[t] = "active"
        /\ frame[p] = "raw" => t \in Untagged
        /\ frame[p] # "raw" => t \in coroset
        /\ frame[p] \in {"call", "callk"} => ~stacked[t]
        /\ frame[p] \in {"passk", "untk"} => stacked[t] /\ status[t] = "yield"

\* A callee of auxcallk that yielded did so itself or passed a yield along, which
\* then has a tag and a yielder.
YieldInFlight ==
    CalleeYielded =>
        /\ frame[Callee] # "untk"
        /\ frame[Callee] # "uyield" => ytag # Nil /\ yfrom # Nil

StackedUnlessOverflow == MayOverflow \/ StackedIsOnAStack

Structure ==
    /\ FramesMatchStatus
    /\ CurMatchesMode
    /\ CorosetIsCreated
    /\ LinkedWhileWaiting
    /\ CalleeMatchesFrame
    /\ OneResumer
    /\ RunningHasResumer
    /\ ParentIsResumer
    /\ YieldInFlight
    /\ StackedUnlessOverflow

-----------------------------------------------------------------------------
\* Every call into the library ends: the trampoline and the continuations that
\* pass a yield along or rewind a stack give control back to Lua code.
ControlReturns == mode \in {"back", "cont"} ~> mode \notin {"back", "cont"}
=============================================================================
