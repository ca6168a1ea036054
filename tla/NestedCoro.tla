----------------------------- MODULE NestedCoro -----------------------------
(***************************************************************************)
(* What src/README.md promises of tagged coroutines, with no links, flags  *)
(* or continuations: one sequence of coroutines that called each other,    *)
(* and for every suspended coroutine the piece of such a sequence that     *)
(* its last yield cut off.                                                 *)
(*                                                                         *)
(* Where the code departs from the README the action says so (Leaks, Lost, *)
(* and the values of Refused): TaggedCoro and PureLua are shown to         *)
(* implement this specification, these actions included.                   *)
(***************************************************************************)
EXTENDS Integers, Sequences, SequencesExt

CONSTANTS
    Thread, Main, Nil, Tag, RawTag, Untagged, Unyielding, Payload,
    LeakedValues(_),  \* what Leaks makes of the yielded values
    RefusedValues(_, _)  \* what a refused untagged yield returns, see Refused

VARIABLES
    chain,   \* the main thread, the coroutine it called, ..., the running one
    held,    \* thread -> the sequence a resume of it puts back; <<>> when none may
    made,    \* the threads that exist
    tagof,   \* thread -> its tag, Nil for an untagged one
    inC,     \* the coroutines inside an unyieldable C call
    phase,   \* run, raise, yield (a yield looks for its handler), exit, lost
    want,    \* the tag it looks for
    val      \* what was just passed to the running coroutine, or is yielded

vars == <<chain, held, made, tagof, inC, phase, want, val>>

Running == Last(chain)
Depth == Len(chain)

Init ==
    /\ chain = <<Main>>
    /\ held = [t \in Thread |-> <<>>]
    /\ made = {Main}
    /\ tagof = [t \in Thread |-> Nil]
    /\ inC = {}
    /\ phase = "run"
    /\ want = Nil
    /\ val = <<>>

CanYield(i) == i > 1 /\ chain[i] \notin inC
Cut(i) ==
    /\ chain' = SubSeq(chain, 1, i - 1)
    /\ held' = [held EXCEPT ![chain[i]] = SubSeq(chain, i, Depth)]

-----------------------------------------------------------------------------
Create(t, g) ==
    /\ phase = "run"
    /\ t \notin made
    /\ made' = made \cup {t}
    /\ tagof' = [tagof EXCEPT ![t] = g]
    /\ g = Nil <=> t \in Untagged
    /\ held' = [held EXCEPT ![t] = <<t>>]
    /\ val' = <<>>
    /\ UNCHANGED <<chain, inC, phase, want>>

\* call and resume: the whole stack that t holds is put back, and its end
\* continues with the arguments.
Call(t, v) ==
    /\ phase = "run"
    /\ held[t] # <<>>
    /\ chain' = chain \o held[t]
    /\ held' = [held EXCEPT ![t] = <<>>]
    /\ val' = v
    /\ UNCHANGED <<made, tagof, inC, phase, want>>

\* A stacked, dead or running coroutine, an error of the program, a yield where
\* nothing can yield.
Fails ==
    /\ phase = "run"
    /\ phase' = "raise"
    /\ val' = <<>>
    /\ UNCHANGED <<chain, held, made, tagof, inC, want>>

Yield(g, v) ==
    /\ phase = "run"
    /\ CanYield(Depth)
    /\ phase' = "yield"
    /\ want' = g
    /\ val' = v
    /\ UNCHANGED <<chain, held, made, tagof, inC>>

\* The yield got as far as coroutine i: all from there up to the yielder are
\* tagged, can yield, and those above i do not want it.
Reaches(i) ==
    /\ phase = "yield"
    /\ \A j \in i..Depth : chain[j] \notin Untagged /\ CanYield(j)
    /\ \A j \in i + 1 .. Depth : tagof[chain[j]] # want

Resolved == phase' = "run" /\ want' = Nil /\ UNCHANGED <<made, tagof, inC>>

\* "yields to the dynamically closest resume of a coroutine with that tag"
Handled(i) ==
    /\ Reaches(i)
    /\ tagof[chain[i]] = want
    /\ Cut(i)
    /\ UNCHANGED val
    /\ Resolved

\* What stops the yield on its way from i, the last it reached, to its caller.
Unhandled(i) == Reaches(i) /\ tagof[chain[i]] # want /\ ~(
                    CanYield(i - 1) /\ chain[i - 1] \notin Untagged)

\* "If there is no coroutine with the tag an error is thrown at the point of the
\* yield"
NotFound(i) ==
    /\ Unhandled(i)
    /\ want # RawTag
    /\ phase' = "raise"
    /\ want' = Nil
    /\ val' = <<>>
    /\ UNCHANGED <<chain, held, made, tagof, inC>>

\* Departure: a yield that an untagged coroutine stops can break the Lua state.
Lost(i) ==
    /\ Unhandled(i)
    /\ want # RawTag
    /\ chain[i - 1] \in Untagged
    /\ phase' = "lost"
    /\ want' = Nil
    /\ val' = <<>>
    /\ UNCHANGED <<chain, held, made, tagof, inC>>

\* Departure: a tagged yield of an untagged coroutine itself does not fail, what
\* resumed it gets the values with the tag, the thread and a mark of the library.
Leaks ==
    /\ phase = "yield"
    /\ Running \in Untagged
    /\ want # RawTag
    /\ Cut(Depth)
    /\ val' = LeakedValues(val)
    /\ Resolved

\* "when an untagged yield reaches an untagged parent, the parent will suspend as
\* if the yield was intended for it"
Suspends(i) ==
    /\ phase = "yield"
    /\ want = RawTag
    /\ chain[i] \in Untagged
    /\ \A j \in i..Depth : CanYield(j)
    /\ \A j \in i + 1 .. Depth : chain[j] \notin Untagged
    /\ Cut(i)
    /\ UNCHANGED val
    /\ Resolved

\* "the yield is supressed, and the source resumes from the untagged yield with the
\* call to yield returning nil" and a message, when it reaches the main thread.
\* Departure: for a C call that stops it, and for the main thread in the Lua version,
\* RefusedValues says where each implementation returns its own mark instead of nil.
Refused(i) ==
    /\ Unhandled(i)
    /\ want = RawTag
    /\ i = 2 \/ chain[i - 1] \in inC
    /\ val' = RefusedValues(i, Depth)
    /\ UNCHANGED <<chain, held>>
    /\ Resolved

-----------------------------------------------------------------------------
Return(v) ==
    /\ phase = "run"
    /\ Depth > 1
    /\ Running \notin inC
    /\ chain' = Front(chain)
    /\ val' = v
    /\ UNCHANGED <<held, made, tagof, inC, phase, want>>

Catch ==
    /\ phase = "raise"
    /\ phase' = "run"
    /\ val' = <<"msg">>
    /\ inC' \in {inC, inC \ {Running}}
    /\ UNCHANGED <<chain, held, made, tagof, want>>

\* call propagates the error of a coroutine, coroutine.resume returns it.
Die ==
    /\ phase = "raise"
    /\ Depth > 1
    /\ chain' = Front(chain)
    /\ inC' = inC \ {Running}
    /\ IF Running \in Untagged
       THEN phase' = "run" /\ val' = <<"msg">>
       ELSE UNCHANGED <<phase, val>>
    /\ UNCHANGED <<held, made, tagof, want>>

MainEnds ==
    /\ phase \in {"run", "raise"}
    /\ Depth = 1
    /\ phase' = "exit"
    /\ val' = <<>>
    /\ UNCHANGED <<chain, held, made, tagof, inC, want>>

EnterOrLeaveC ==
    /\ phase = "run"
    /\ Running \in Unyielding
    /\ inC' = IF Running \in inC THEN inC \ {Running} ELSE inC \cup {Running}
    /\ val' = <<>>
    /\ UNCHANGED <<chain, held, made, tagof, phase, want>>

Next ==
    \/ \E t \in Thread, g \in Tag \cup {Nil} : Create(t, g)
    \/ \E t \in Thread, v \in Payload : Call(t, v)
    \/ \E g \in Tag \cup {RawTag}, v \in Payload : Yield(g, v)
    \/ \E i \in 2..Depth :
          \/ Handled(i) \/ NotFound(i) \/ Lost(i) \/ Suspends(i) \/ Refused(i)
    \/ \E v \in Payload : Return(v)
    \/ Leaks \/ Fails \/ Catch \/ Die \/ MainEnds \/ EnterOrLeaveC

Spec == Init /\ [][Next]_vars
=============================================================================
