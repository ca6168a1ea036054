------------------------- MODULE AtomicTransactions -------------------------
(***************************************************************************)
(* What a transactional memory promises: every transaction that commits    *)
(* does so at one moment, at which the memory still is what it has read;   *)
(* it starts over only when somebody changed what it used; and one that    *)
(* retries sleeps only while nobody has.  No time stamps, copies or        *)
(* condition variables.                                                    *)
(***************************************************************************)
CONSTANTS Thread, Name, Value, Nil

VARIABLES
    mem,        \* name -> its value, Nil before it is declared
    phase,      \* thread -> idle, run or wait
    got,        \* thread -> what its transaction has read from the memory
    put,        \* thread -> what it will write
    disturbed,  \* the threads whose transaction used something since changed
    told        \* thread -> what the last read returned

vars == <<mem, phase, got, put, disturbed, told>>

None == [n \in {} |-> Nil]
With(f, n, v) == [m \in (DOMAIN f) \cup {n} |-> IF m = n THEN v ELSE f[m]]
Footprint(t) == DOMAIN got[t] \cup DOMAIN put[t]

Init ==
    /\ mem = [n \in Name |-> Nil]
    /\ phase = [t \in Thread |-> "idle"]
    /\ got = [t \in Thread |-> None]
    /\ put = [t \in Thread |-> None]
    /\ disturbed = {}
    /\ told = [t \in Thread |-> Nil]

Declare(n, v) ==
    /\ mem[n] = Nil
    /\ mem' = [mem EXCEPT ![n] = v]
    /\ UNCHANGED <<phase, got, put, disturbed, told>>

\* All threads in S forget what their transactions did so far.
Forgotten(S) ==
    /\ got' = [t \in Thread |-> IF t \in S THEN None ELSE got[t]]
    /\ put' = [t \in Thread |-> IF t \in S THEN None ELSE put[t]]
    /\ told' = [t \in Thread |-> IF t \in S THEN Nil ELSE told[t]]

Begin(t) ==
    /\ phase[t] = "idle"
    /\ phase' = [phase EXCEPT ![t] = "run"]
    /\ UNCHANGED <<mem, got, put, disturbed, told>>

\* A transaction sees its own writes, and the same value whenever it reads again.
Read(t, n) ==
    /\ phase[t] = "run"
    /\ mem[n] # Nil
    /\ IF n \in Footprint(t)
       THEN /\ told' = [told EXCEPT ![t] = IF n \in DOMAIN put[t] THEN put[t][n] ELSE got[t][n]]
            /\ UNCHANGED got
       ELSE /\ told' = [told EXCEPT ![t] = mem[n]]
            /\ got' = [got EXCEPT ![t] = With(@, n, mem[n])]
    /\ UNCHANGED <<mem, phase, put, disturbed>>

Write(t, n, v) ==
    /\ phase[t] = "run"
    /\ mem[n] # Nil
    /\ put' = [put EXCEPT ![t] = With(@, n, v)]
    /\ told' = [told EXCEPT ![t] = Nil]
    /\ UNCHANGED <<mem, phase, got, disturbed>>

\* What t has written disturbs every other transaction that used it and wakes those
\* that wait for it.
Hit(t) == {u \in Thread \ {t} : Footprint(u) \cap DOMAIN put[t] # {}}
Woken(t) == {u \in Hit(t) : phase[u] = "wait"}

Commit(t) ==
    /\ phase[t] = "run"
    /\ t \notin disturbed
    /\ \A n \in DOMAIN got[t] : got[t][n] = mem[n]
    /\ mem' = [n \in Name |-> IF n \in DOMAIN put[t] THEN put[t][n] ELSE mem[n]]
    /\ phase' = [u \in Thread |->
                    IF u = t THEN "idle" ELSE IF u \in Woken(t) THEN "run" ELSE phase[u]]
    /\ disturbed' = (disturbed \cup Hit(t)) \ Woken(t)
    /\ Forgotten(Woken(t) \cup {t})

Restart(t) ==
    /\ phase[t] = "run"
    /\ t \in disturbed
    /\ disturbed' = disturbed \ {t}
    /\ Forgotten({t})
    /\ UNCHANGED <<mem, phase>>

Wait(t) ==
    /\ phase[t] = "run"
    /\ t \notin disturbed
    /\ phase' = [phase EXCEPT ![t] = "wait"]
    /\ UNCHANGED <<mem, got, put, disturbed, told>>

Abandon(t) ==
    /\ phase[t] = "run"
    /\ phase' = [phase EXCEPT ![t] = "idle"]
    /\ disturbed' = disturbed \ {t}
    /\ Forgotten({t})
    /\ UNCHANGED mem

Next ==
    \/ \E n \in Name, v \in Value : Declare(n, v)
    \/ \E t \in Thread :
          \/ Begin(t) \/ Commit(t) \/ Restart(t) \/ Wait(t) \/ Abandon(t)
          \/ \E n \in Name : Read(t, n) \/ \E v \in Value : Write(t, n, v)

Spec == Init /\ [][Next]_vars
=============================================================================
