--------------------------------- MODULE Stm ---------------------------------
(***************************************************************************)
(* The transactional memory of src/contrib/stm.lua.  A transaction's block *)
(* runs in a coroutine tagged "stm"; get, set, retry, rollback and its end *)
(* are yields to the loop of stm.transaction, which keeps what the block   *)
(* used in tvars and the shared variables in db.                           *)
(*                                                                         *)
(* Threads are cooperative (the thread library, which is not in the        *)
(* repository): a block may let others run between two of its requests, as *)
(* it yields to the scheduler through the "stm" coroutine, but the loop    *)
(* handles one request without interruption.  A transaction inside a       *)
(* transaction just runs its block and is part of the outer one.           *)
(***************************************************************************)
EXTENDS Integers

CONSTANTS
    Thread, Name, Value, Nil,
    MaxTransactions,  \* bound: the transactions all threads start
    MaxRequests       \* bound: the gets and sets of one attempt at it

ASSUME StmAssumption ==
    /\ Nil \notin Value
    /\ MaxTransactions \in Nat
    /\ MaxRequests \in Nat

VARIABLES
    db,        \* name -> value and timestamp
    declared,  \* the names that are in db
    pc,        \* thread -> idle, run (the block runs), wait (for a signal)
    tvars,     \* thread -> name -> value, timestamp and dirty, as the block sees them
    told,      \* thread -> what its last get returned
    got,       \* history: thread -> name -> the value copied from db to tvars
    started,   \* transactions begun
    requests   \* thread -> gets and sets of this attempt

vars == <<db, declared, pc, tvars, told, got, started, requests>>

Cell  == [value : Value \cup {Nil}, timestamp : Nat]
Entry == [value : Value \cup {Nil}, timestamp : Nat, dirty : BOOLEAN]
IsPartial(f, S) == DOMAIN f \subseteq Name /\ f \in [DOMAIN f -> S]

TypeOK ==
    /\ db \in [Name -> Cell]
    /\ declared \subseteq Name
    /\ pc \in [Thread -> {"idle", "run", "wait"}]
    /\ DOMAIN tvars = Thread /\ DOMAIN got = Thread
    /\ \A t \in Thread : IsPartial(tvars[t], Entry) /\ IsPartial(got[t], Value)
    /\ told \in [Thread -> Value \cup {Nil}]
    /\ started \in 0..MaxTransactions
    /\ requests \in [Thread -> 0..MaxRequests]

None == [n \in {} |-> Nil]
With(f, n, v) == [m \in (DOMAIN f) \cup {n} |-> IF m = n THEN v ELSE f[m]]

Init ==
    /\ db = [n \in Name |-> [value |-> Nil, timestamp |-> 0]]
    /\ declared = {}
    /\ pc = [t \in Thread |-> "idle"]
    /\ tvars = [t \in Thread |-> None]
    /\ told = [t \in Thread |-> Nil]
    /\ got = [t \in Thread |-> None]
    /\ started = 0
    /\ requests = [t \in Thread |-> 0]
-----------------------------------------------------------------------------
\* stm.var.  The program declares every name once: doing it again would reset the
\* timestamp and replace the condition variable under everybody that uses it.
Var(n, v) ==
    /\ n \notin declared
    /\ declared' = declared \cup {n}
    /\ db' = [db EXCEPT ![n] = [value |-> v, timestamp |-> 0]]
    /\ UNCHANGED <<pc, tvars, told, got, started, requests>>

Begin(t) ==
    /\ pc[t] = "idle"
    /\ started < MaxTransactions
    /\ started' = started + 1
    /\ pc' = [pc EXCEPT ![t] = "run"]
    /\ UNCHANGED <<db, declared, tvars, told, got, requests>>

Asks(t, n) ==
    /\ pc[t] = "run"
    /\ n \in declared
    /\ requests[t] < MaxRequests
    /\ requests' = [requests EXCEPT ![t] = @ + 1]
    /\ UNCHANGED <<db, declared, pc, started>>

Copied(n) == [value |-> db[n].value, timestamp |-> db[n].timestamp, dirty |-> FALSE]

Get(t, n) ==
    /\ Asks(t, n)
    /\ IF n \in DOMAIN tvars[t]
       THEN UNCHANGED <<tvars, got>>
       ELSE /\ tvars' = [tvars EXCEPT ![t] = With(@, n, Copied(n))]
            /\ got' = [got EXCEPT ![t] = With(@, n, db[n].value)]
    /\ told' = [told EXCEPT ![t] = tvars'[t][n].value]

Set(t, n, v) ==
    /\ Asks(t, n)
    /\ tvars' = [tvars EXCEPT ![t] =
                    IF n \in DOMAIN @ THEN [@ EXCEPT ![n].value = v, ![n].dirty = TRUE]
                    ELSE With(@, n, [Copied(n) EXCEPT !.value = v, !.dirty = TRUE])]
    /\ told' = [told EXCEPT ![t] = Nil]
    /\ UNCHANGED got

\* Slips the properties must notice: a comparison that finds every copy stale, a
\* validation of the variables written only.
Stale_Equal(t) == \E n \in DOMAIN tvars[t] : db[n].timestamp >= tvars[t][n].timestamp
Stale_DirtyOnly(t) ==
    \E n \in DOMAIN tvars[t] : tvars[t][n].dirty /\ db[n].timestamp > tvars[t][n].timestamp

Stale(t) == \E n \in DOMAIN tvars[t] : db[n].timestamp > tvars[t][n].timestamp

\* stm.transaction(blk) again, or for the threads of S that were woken: nothing
\* remains of the attempt.
Discards(S) ==
    /\ tvars' = [t \in Thread |-> IF t \in S THEN None ELSE tvars[t]]
    /\ told' = [t \in Thread |-> IF t \in S THEN Nil ELSE told[t]]
    /\ got' = [t \in Thread |-> IF t \in S THEN None ELSE got[t]]
    /\ requests' = [t \in Thread |-> IF t \in S THEN 0 ELSE requests[t]]

\* A retry or commit that comes too late starts over.
Restart(t) ==
    /\ pc[t] = "run"
    /\ Stale(t)
    /\ Discards({t})
    /\ UNCHANGED <<db, declared, pc, started>>

\* stm.retry: waits for a signal of one of the variables used.
Retry(t) ==
    /\ pc[t] = "run"
    /\ ~Stale(t)
    /\ pc' = [pc EXCEPT ![t] = "wait"]
    /\ UNCHANGED <<db, declared, tvars, told, got, started, requests>>

Dirty(t) == {n \in DOMAIN tvars[t] : tvars[t][n].dirty}

Stamped_Same(t, n) == [value |-> tvars[t][n].value, timestamp |-> db[n].timestamp]
Stamped_Entry(t, n) == tvars[t][n]
Stamped(t, n) == [value |-> tvars[t][n].value, timestamp |-> db[n].timestamp + 1]

\* Whom thread.signal wakes.  The library is external: that a signal wakes all who
\* wait for the variable is what retry needs of it.
Signalled_Nobody(t) == {}
Signalled(t) == {u \in Thread : pc[u] = "wait" /\ DOMAIN tvars[u] \cap Dirty(t) # {}}

Commit(t) ==
    /\ pc[t] = "run"
    /\ ~Stale(t)
    /\ db' = [n \in Name |-> IF n \in Dirty(t) THEN Stamped(t, n) ELSE db[n]]
    /\ pc' = [u \in Thread |->
                 IF u = t THEN "idle" ELSE IF u \in Signalled(t) THEN "run" ELSE pc[u]]
    /\ Discards(Signalled(t) \cup {t})
    /\ UNCHANGED <<declared, started>>

\* stm.rollback; an error in the block, or in the loop that was asked for a variable
\* that does not exist, leaves stm.transaction with no more effect.
Rollback(t) ==
    /\ pc[t] = "run"
    /\ pc' = [pc EXCEPT ![t] = "idle"]
    /\ Discards({t})
    /\ UNCHANGED <<db, declared, started>>

Step(t) ==
    \/ \E n \in Name : Get(t, n) \/ \E v \in Value : Set(t, n, v)
    \/ Restart(t) \/ Retry(t) \/ Commit(t) \/ Rollback(t)

Terminated ==
    /\ \A t \in Thread : pc[t] = "wait" \/ (pc[t] = "idle" /\ started = MaxTransactions)
    /\ UNCHANGED vars

Next ==
    \/ \E n \in Name, v \in Value : Var(n, v)
    \/ \E t \in Thread : Begin(t) \/ Step(t)
    \/ Terminated

Spec == Init /\ [][Next]_vars

\* The scheduler gets round to every thread that can run, and a block makes its next
\* request or ends.
FairSpec == Spec /\ \A t \in Thread : WF_vars(Step(t))
-----------------------------------------------------------------------------
\* A copy in tvars is never newer than db, and while its timestamp is that of db the
\* value once read is still there: what validation by timestamps rests on.
SnapshotIsCurrent ==
    \A t \in Thread : \A n \in DOMAIN tvars[t] :
        /\ tvars[t][n].timestamp <= db[n].timestamp
        /\ tvars[t][n].timestamp = db[n].timestamp /\ n \in DOMAIN got[t]
              => got[t][n] = db[n].value

\* No wake-up is lost: whoever waits after a retry has seen the latest version of
\* all it used, so that a transaction that could go on never sleeps.
WaitersAreCurrent == \A t \in Thread : pc[t] = "wait" => ~Stale(t)

\* A transaction that goes on for ever is one whose variables others keep changing:
\* stm.transaction starts over for as long as they do, so that it may starve, but only
\* by such changes.  Once they stop it ends: by a commit, a rollback or a wait.
UsedChanges(t) == \E n \in DOMAIN tvars[t] : db'[n] # db[n]
StarvesOnlyByConflicts ==
    \A t \in Thread : <>[](pc[t] = "run") => []<><<UsedChanges(t)>>_vars

\* stm.lua implements atomic transactions: whatever others commit in between, a
\* commit takes effect as if the whole block had run at that moment, it starts over
\* only after a conflict, and get returns the block's own view.
Atomic == INSTANCE AtomicTransactions WITH
    mem <- [n \in Name |-> db[n].value],
    phase <- pc,
    put <- [t \in Thread |-> [n \in Dirty(t) |-> tvars[t][n].value]],
    disturbed <- {t \in Thread : Stale(t)}

ImplementsAtomicTransactions == Atomic!Spec
=============================================================================
