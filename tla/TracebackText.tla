---------------------------- MODULE TracebackText ----------------------------
(***************************************************************************)
(* The lines of a traceback: lastlevel and auxtraceback of                 *)
(* src/src/taggedcoro.c, for all coroutines from the source of an error to *)
(* the main thread, and luaL_traceback of src/src/compat-5.3.c, for one.   *)
(* Level k of a coroutine exists when it has more than k frames.           *)
(*                                                                         *)
(* Modelled of the text is which level each line shows, and the slots of   *)
(* the Lua stack that its pieces take until lua_concat makes them one.     *)
(***************************************************************************)
EXTENDS FunctionNames

CONSTANTS
    Depth,      \* numbers of frames of a coroutine
    FirstLevel  \* values of the argument level

ASSUME TextAssumption == Depth \subseteq Nat /\ FirstLevel \subseteq Int

LEVELS1 == 10
LEVELS2 == 11
COMPAT53_LEVELS1 == 12
COMPAT53_LEVELS2 == 10

VARIABLES
    job,     \* what is asked: by whose code, from which level, frames per coroutine
    at,      \* the coroutine of job.depths that is being shown
    level, n1, last, li, le,    \* locals of the C functions; n1 is mark in compat-5.3.c
    height,  \* slots in use above top
    room,    \* height for which the stack has been checked
    lines,   \* history: coroutine -> the levels shown, -1 for "..."
    tphase   \* idle, last (in lastlevel), lines (the loop over levels), done

textVars == <<job, at, level, n1, last, li, le, height, room, lines, tphase>>

\* luaL_traceback is for one coroutine, auxtraceback goes on to the parents.
Job ==
    [by : {"taggedcoro"}, from : FirstLevel, depths : Depth \X Depth]
    \cup [by : {"taggedcoro", "compat53"}, from : FirstLevel, depths : {<<d>> : d \in Depth}]

TextInit ==
    /\ job = <<>> /\ at = 0 /\ level = 0 /\ n1 = 0 /\ last = 0 /\ li = 0 /\ le = 0
    /\ height = 0 /\ room = 0 /\ lines = <<>> /\ tphase = "idle"

InTaggedcoro == job.by = "taggedcoro"
Exists(k) == 0 <= k /\ k < job.depths[at]   \* lua_getstack

\* The message, if there is one, and the heading are on the stack.
Traceback(q, msg) ==
    /\ tphase = "idle"
    /\ job' = q
    /\ at' = 1 /\ level' = q.from
    /\ height' = msg + 1
    /\ li' = 1 /\ le' = 1
    /\ lines' = [i \in DOMAIN q.depths |-> <<>>]
    /\ tphase' = "last"
    /\ UNCHANGED <<n1, last, room>>
-----------------------------------------------------------------------------
(* lastlevel.  While le is a level it still looks for an upper bound.      *)

Doubles ==
    /\ tphase = "last"
    /\ Exists(le)
    /\ li' = le /\ le' = 2 * le
    /\ UNCHANGED <<job, at, level, n1, last, height, room, lines, tphase>>

Halves ==
    /\ tphase = "last"
    /\ ~Exists(le) /\ li < le
    /\ LET m == (li + le) \div 2 IN
          IF Exists(m) THEN li' = m + 1 /\ UNCHANGED le ELSE le' = m /\ UNCHANGED li
    /\ UNCHANGED <<job, at, level, n1, last, height, room, lines, tphase>>

Lastlevel_Bound == le
Lastlevel == le - 1

\* taggedcoro.c checks for ten slots per coroutine, compat-5.3.c relies on those every
\* C function has, LUA_MINSTACK.
LastFound ==
    /\ tphase = "last"
    /\ ~Exists(le) /\ li = le
    /\ last' = Lastlevel
    /\ n1' = IF InTaggedcoro
             THEN IF last' - level > LEVELS1 + LEVELS2 THEN LEVELS1 ELSE -1
             ELSE IF last' > COMPAT53_LEVELS1 + COMPAT53_LEVELS2 THEN COMPAT53_LEVELS1 ELSE 0
    /\ room' = IF InTaggedcoro THEN height + 10 ELSE 20
    /\ tphase' = "lines"
    /\ UNCHANGED <<job, at, level, li, le, height, lines>>
-----------------------------------------------------------------------------
TooMany == Exists(level) /\ IF InTaggedcoro THEN n1 = 0 ELSE level + 1 = n1
ShowsLevel == tphase = "lines" /\ Exists(level) /\ ~TooMany

Concatenated_Line(h) == h + 1
Concatenated(h) == 1

Shows(k) == lines' = [lines EXCEPT ![at] = Append(@, k)]
Counts == n1' = IF InTaggedcoro THEN n1 - 1 ELSE n1

\* One level: its pieces, and everything above top, become one string.
Line ==
    /\ ShowsLevel
    /\ Shows(level)
    /\ level' = level + 1
    /\ Counts
    /\ height' = Concatenated(height)
    /\ UNCHANGED <<job, at, last, li, le, room, tphase>>

\* "..." stays a piece of its own until the next line.
Dots ==
    /\ tphase = "lines"
    /\ TooMany
    /\ Shows(-1)
    /\ level' = IF InTaggedcoro THEN last - LEVELS2 + 1 ELSE last - COMPAT53_LEVELS2
    /\ Counts
    /\ height' = height + 1
    /\ UNCHANGED <<job, at, last, li, le, room, tphase>>

\* coroset[current].parent is the next coroutine.
NextThread ==
    /\ tphase = "lines"
    /\ ~Exists(level)
    /\ at < Len(job.depths)
    /\ at' = at + 1 /\ level' = 1
    /\ li' = 1 /\ le' = 1
    /\ tphase' = "last"
    /\ UNCHANGED <<job, n1, last, height, room, lines>>

\* The main thread has no parent; or current is untagged, which adds a line.
TextEnds ==
    /\ tphase = "lines"
    /\ ~Exists(level)
    /\ at = Len(job.depths)
    /\ height' = 1
    /\ tphase' = "done"
    /\ UNCHANGED <<job, at, level, n1, last, li, le, room, lines>>

TextUsed ==
    /\ tphase = "done"
    /\ job' = <<>> /\ at' = 0 /\ level' = 0 /\ n1' = 0 /\ last' = 0 /\ li' = 0 /\ le' = 0
    /\ height' = 0 /\ room' = 0 /\ lines' = <<>> /\ tphase' = "idle"

TextNext ==
    \/ \E q \in Job, msg \in 0..1 : Traceback(q, msg)
    \/ Doubles \/ Halves \/ LastFound \/ Line \/ Dots \/ NextThread \/ TextEnds \/ TextUsed

\* Lines and names take turns, on stacks of their own here.
TextSpec ==
    /\ NamesInit /\ TextInit
    /\ [][\/ NamesNext /\ UNCHANGED textVars
          \/ TextNext /\ UNCHANGED namesVars]_<<namesVars, textVars>>
-----------------------------------------------------------------------------
Levels(k, m) == [i \in 1..(m - k + 1) |-> k + i - 1]

\* The levels of a coroutine with d frames that are to be seen, from level k on.
Shown(k, d) ==
    LET max == d - 1 IN
    IF k < 0 THEN <<>>
    ELSE IF InTaggedcoro /\ max - k >= 22
         THEN Levels(k, k + 9) \o <<-1>> \o Levels(max - 10, max)
    ELSE IF ~InTaggedcoro /\ max >= 23 /\ k <= 11
         THEN Levels(k, 10) \o <<-1>> \o Levels(max - 10, max)
    ELSE Levels(k, max)

\* A traceback shows every level once and in order, from the innermost; of a
\* coroutine that has too many it leaves out some in the middle, says so, and the
\* outermost eleven follow, whatever the depth that lastlevel had to find.
ShowsAllLevels ==
    tphase = "done" =>
        \A i \in DOMAIN lines : lines[i] = Shown(IF i = 1 THEN job.from ELSE 1, job.depths[i])

\* The most that finding the name of one function takes of the stack.
NameRoom == 6

\* luaL_checkstack, called once for all lines of a coroutine, has made room for every
\* one of them: for "..." or all text so far, three pieces and the search for a name,
\* in the worst case to the last slot.
TracebackFits ==
    /\ Len(ns) <= NameRoom
    /\ tphase = "lines" => height + (IF ShowsLevel THEN 3 + NameRoom ELSE 2) <= room
=============================================================================
