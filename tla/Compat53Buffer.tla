---------------------------- MODULE Compat53Buffer ----------------------------
(***************************************************************************)
(* The string buffers that src/src/compat-5.3.c gives Lua 5.1: bytes are    *)
(* gathered in an array of the luaL_Buffer itself and, when that is full,  *)
(* in a userdata (a box) that must be on top of the Lua stack, below a     *)
(* value that is about to be added.                                        *)
(*                                                                         *)
(* The n-th byte added is n: the order and the loss of bytes can be seen.  *)
(* Sizes are of type size_t and wrap around at SizeMod.                    *)
(***************************************************************************)
EXTENDS LuaStack

CONSTANTS
    SizeMod,     \* 2 to the width of size_t
    BufferSize,  \* LUAL_BUFFERSIZE
    Size,        \* the sizes a C function asks room for
    MaxAdded     \* bound: the bytes added to one buffer

ASSUME BufferAssumption ==
    /\ SizeMod \in Nat /\ BufferSize \in 1..(SizeMod - 1)
    /\ Size \subseteq 0..(SizeMod - 1)
    /\ MaxAdded \in 0..(SizeMod - 1)

VARIABLES
    bs,        \* the Lua stack: "other" values, boxes, strings
    ptr,       \* 0 for the array of the buffer, or the number of a box
    capacity, nelems,
    memory,    \* what is in the first bytes at ptr
    ready,     \* bytes luaL_prepbuffsize has been asked for and not yet used
    added,     \* history: the bytes added
    bphase     \* idle, open, result, error

bufferVars == <<bs, ptr, capacity, nelems, memory, ready, added, bphase>>

Other == [is |-> "other", of |-> 0]
Box(n) == [is |-> "box", of |-> n]
String(s) == [is |-> "string", of |-> s]
Next_(l) == [i \in 1..l |-> added + i]   \* the next bytes to add

BufferInit ==
    /\ bs = <<Other>> /\ ptr = 0 /\ capacity = 0 /\ nelems = 0 /\ memory = <<>>
    /\ ready = 0 /\ added = 0 /\ bphase = "idle"
-----------------------------------------------------------------------------
luaL_buffinit ==
    /\ bphase = "idle"
    /\ ptr' = 0 /\ capacity' = BufferSize /\ nelems' = 0 /\ memory' = <<>>
    /\ ready' = 0 /\ added' = 0 /\ bphase' = "open"
    /\ UNCHANGED bs

Free == (capacity - nelems) % SizeMod
Doubled == (capacity * 2) % SizeMod

NewCapacity_Doubled(s) == Doubled
NewCapacity(s) == IF (Doubled - nelems) % SizeMod < s THEN (nelems + s) % SizeMod ELSE Doubled

TooLarge(s) == Free < s /\ NewCapacity(s) < capacity

\* luaL_prepbuffsize on a stack s1; the new box replaces the one on top.
Prepared(s1, s) ==
    IF Free >= s THEN s1
    ELSE LET s2 == Append(s1, Box(ptr + 1)) IN IF ptr # 0 THEN Replaced(s2, -2) ELSE s2

Grows(s) ==
    IF Free >= s THEN UNCHANGED <<ptr, capacity>>
    ELSE ptr' = ptr + 1 /\ capacity' = NewCapacity(s)

Fails(s) ==
    /\ TooLarge(s)
    /\ bphase' = "error"
    /\ UNCHANGED <<bs, ptr, capacity, nelems, memory, ready, added>>

Prepbuffsize(s) ==
    /\ bphase = "open"
    /\ \/ Fails(s)
       \/ /\ ~TooLarge(s)
          /\ Grows(s)
          /\ bs' = Prepared(bs, s)
          /\ ready' = s
          /\ UNCHANGED <<nelems, memory, added, bphase>>

\* The C function writes l bytes to the room it got, and luaL_addsize.
Addsize(l) ==
    /\ bphase = "open"
    /\ l \in 1..ready
    /\ added + l <= MaxAdded
    /\ nelems' = (nelems + l) % SizeMod
    /\ memory' = memory \o Next_(l)
    /\ added' = added + l
    /\ ready' = 0
    /\ UNCHANGED <<bs, ptr, capacity, bphase>>

\* The end of luaL_addlstring and luaL_addvalue: l bytes are added, the stack is s1.
Adds(s1, l) ==
    /\ bphase = "open"
    /\ added + l <= MaxAdded
    /\ \/ Fails(l)
       \/ /\ ~TooLarge(l)
          /\ Grows(l)
          /\ bs' = s1
          /\ nelems' = (nelems + l) % SizeMod
          /\ memory' = memory \o Next_(l)
          /\ added' = added + l
          /\ ready' = 0
          /\ UNCHANGED bphase

Addlstring(l) == Adds(Prepared(bs, l), l)

\* luaL_addchar asks for room itself only when there is none.
Addchar ==
    IF nelems < capacity THEN
        /\ bphase = "open" /\ added < MaxAdded
        /\ nelems' = nelems + 1 /\ memory' = memory \o Next_(1) /\ added' = added + 1
        /\ ready' = 0
        /\ UNCHANGED <<bs, ptr, capacity, bphase>>
    ELSE Addlstring(1)

BelowBox(s) == IF ptr # 0 THEN Inserted(s, -2) ELSE s

\* luaL_addvalue of a string of l bytes that the C function has just pushed: the box
\* goes on top of it, is perhaps replaced, and the value is removed from below.
Addvalue(l) ==
    LET s1 == Prepared(BelowBox(Append(bs, String(Next_(l)))), l)
    IN Adds(Removed(s1, IF ptr' # 0 THEN -2 ELSE -1), l)

Pushresult ==
    /\ bphase = "open"
    /\ LET s1 == Append(bs, String(SubSeq(memory, 1, nelems))) IN
          bs' = IF ptr # 0 THEN Replaced(s1, -2) ELSE s1
    /\ bphase' = "result"
    /\ UNCHANGED <<ptr, capacity, nelems, memory, ready, added>>

\* The C function pops the result, or is left by the error.
BufferUsed ==
    /\ bphase \in {"result", "error"}
    /\ bs' = <<Other>> /\ ptr' = 0 /\ capacity' = 0 /\ nelems' = 0 /\ memory' = <<>>
    /\ ready' = 0 /\ added' = 0 /\ bphase' = "idle"

BufferNext ==
    \/ luaL_buffinit
    \/ \E s \in Size : Prepbuffsize(s) \/ Addsize(s) \/ Addlstring(s) \/ Addvalue(s)
    \/ Addchar \/ Pushresult \/ BufferUsed

BufferSpec == BufferInit /\ [][BufferNext]_bufferVars
-----------------------------------------------------------------------------
\* Between calls the stack is as the C function left it, with the current box and no
\* other on top once the array was too small; the array or box has the bytes added and
\* room for those asked for, however size_t wrapped on the way; and the result is all
\* bytes in order.
BufferKeepsContent ==
    LET bytes == [i \in 1..added |-> i] IN
    /\ bphase = "open" =>
          /\ bs = IF ptr = 0 THEN <<Other>> ELSE <<Other, Box(ptr)>>
          /\ memory = bytes /\ nelems = added
          /\ nelems + ready <= capacity
    /\ bphase = "result" => bs = <<Other, String(bytes)>>
=============================================================================
