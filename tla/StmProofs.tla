------------------------------ MODULE StmProofs ------------------------------
(***************************************************************************)
(* Proofs about the transactional memory of Stm, for any threads, names    *)
(* and values and any bounds: its types, what validation by timestamps     *)
(* rests on, that no wake-up is lost, and the safety part of the           *)
(* refinement: every step is one of AtomicTransactions or changes nothing. *)
(***************************************************************************)
EXTENDS Stm, TLAPS

\* What a transaction has used is declared; what it has read from db is in tvars, and
\* still has the value read unless the transaction has written it.
Copies ==
    /\ \A n \in Name : n \in declared <=> db[n].value # Nil
    /\ \A t \in Thread :
          /\ DOMAIN got[t] \subseteq DOMAIN tvars[t]
          /\ DOMAIN tvars[t] \subseteq declared
          /\ \A n \in DOMAIN tvars[t] :
                /\ tvars[t][n].value \in Value
                /\ ~tvars[t][n].dirty => n \in DOMAIN got[t] /\ got[t][n] = tvars[t][n].value

\* The inductive invariant.
IInv == TypeOK /\ Copies /\ SnapshotIsCurrent /\ WaitersAreCurrent

-----------------------------------------------------------------------------
\* The variables of a transaction that has just begun.
LEMMA NoneDef == DOMAIN None = {} /\ \A S : IsPartial(None, S)
  BY DEF None, IsPartial

\* A copy that is made or changed keeps the type of tvars.
LEMMA WithTyped ==
    ASSUME NEW S, NEW f, IsPartial(f, S), NEW n \in Name, NEW v \in S
    PROVE  IsPartial(With(f, n, v), S)
  BY DEF With, IsPartial

\* Init: nothing is declared, and no transaction has begun.
LEMMA InitOK == Init => IInv
<1> SUFFICES ASSUME Init PROVE IInv
  OBVIOUS
<1> USE StmAssumption, NoneDef DEF Init
<1>1. TypeOK
  BY DEF TypeOK, Cell
<1>2. Copies
  BY DEF Copies
<1>3. SnapshotIsCurrent
  BY DEF SnapshotIsCurrent
<1>4. WaitersAreCurrent
  BY DEF WaitersAreCurrent
<1> QED BY <1>1, <1>2, <1>3, <1>4 DEF IInv

\* stm.var: nobody has used the name yet.
LEMMA VarOK == \A n \in Name, v \in Value : IInv /\ Var(n, v) => IInv'
<1> SUFFICES ASSUME NEW n \in Name, NEW v \in Value, IInv, Var(n, v) PROVE IInv'
  OBVIOUS
<1> USE StmAssumption DEF IInv, Var
<1>1. TypeOK'
  BY DEF TypeOK, Cell, IsPartial
<1>2. Copies'
  BY DEF Copies, TypeOK, IsPartial
<1>3. \A t \in Thread : \A m \in DOMAIN tvars[t] : db'[m] = db[m]
  BY DEF Copies, TypeOK, IsPartial
<1>4. SnapshotIsCurrent'
  BY <1>3 DEF SnapshotIsCurrent
<1>5. WaitersAreCurrent'
  BY <1>3 DEF WaitersAreCurrent, Stale
<1> QED BY <1>1, <1>2, <1>4, <1>5

LEMMA BeginOK == \A t \in Thread : IInv /\ Begin(t) => IInv'
<1> SUFFICES ASSUME NEW t \in Thread, IInv, Begin(t) PROVE IInv'
  OBVIOUS
<1> USE StmAssumption DEF IInv, Begin
<1>1. TypeOK'
  BY DEF TypeOK, IsPartial
<1>2. Copies' /\ SnapshotIsCurrent'
  BY DEF Copies, SnapshotIsCurrent
<1>3. WaitersAreCurrent'
  BY DEF WaitersAreCurrent, Stale, TypeOK
<1> QED BY <1>1, <1>2, <1>3

\* A name that is copied from db has a value, and its copy is current.
LEMMA CopiedOK ==
    ASSUME IInv, NEW n \in declared
    PROVE  /\ n \in Name
           /\ db[n].value \in Value
           /\ Copied(n) \in Entry
           /\ \A v \in Value : [Copied(n) EXCEPT !.value = v, !.dirty = TRUE] \in Entry
  BY DEF IInv, TypeOK, Copies, Cell, Entry, Copied

LEMMA GetOK == \A t \in Thread, n \in Name : IInv /\ Get(t, n) => IInv'
<1> SUFFICES ASSUME NEW t \in Thread, NEW n \in Name, IInv, Get(t, n) PROVE IInv'
  OBVIOUS
<1>1. /\ n \in declared
      /\ UNCHANGED <<db, declared, pc, started>>
      /\ requests' \in [Thread -> 0..MaxRequests]
      /\ told' = [told EXCEPT ![t] = tvars'[t][n].value]
  BY StmAssumption DEF Get, Asks, IInv, TypeOK
<1>2. CASE n \in DOMAIN tvars[t]
  <2>1. UNCHANGED <<tvars, got>>
    BY <1>2 DEF Get
  <2>2. tvars[t][n].value \in Value
    BY <1>2 DEF IInv, Copies
  <2>3. TypeOK'
    BY <1>1, <2>1, <2>2 DEF IInv, TypeOK
  <2>4. Copies' /\ SnapshotIsCurrent' /\ WaitersAreCurrent'
    BY <1>1, <2>1 DEF IInv, Copies, SnapshotIsCurrent, WaitersAreCurrent, Stale
  <2> QED BY <2>3, <2>4 DEF IInv
<1>3. CASE n \notin DOMAIN tvars[t]
  <2> DEFINE tv == With(tvars[t], n, Copied(n))
             gt == With(got[t], n, db[n].value)
             c == Copied(n)
  <2>1. /\ DOMAIN tvars = Thread /\ DOMAIN got = Thread
        /\ IsPartial(tvars[t], Entry) /\ IsPartial(got[t], Value)
        /\ n \notin DOMAIN got[t]
    BY <1>3 DEF IInv, TypeOK, Copies
  <2>2. tvars' = [tvars EXCEPT ![t] = tv] /\ got' = [got EXCEPT ![t] = gt]
    BY <1>3 DEF Get
  <2>3. /\ DOMAIN tv = DOMAIN tvars[t] \cup {n} /\ tv[n] = c
        /\ \A m \in DOMAIN tvars[t] : tv[m] = tvars[t][m]
        /\ DOMAIN gt = DOMAIN got[t] \cup {n} /\ gt[n] = db[n].value
        /\ \A m \in DOMAIN got[t] : gt[m] = got[t][m]
    BY <1>3, <2>1 DEF With
  <2>4. IsPartial(tv, Entry) /\ IsPartial(gt, Value)
    BY <1>1, <2>1, CopiedOK, WithTyped
  <2>5. /\ c.value = db[n].value /\ c.timestamp = db[n].timestamp /\ c.dirty = FALSE
        /\ db[n].value \in Value /\ db[n].timestamp \in Nat
    BY <1>1, CopiedOK DEF Copied, IInv, TypeOK, Cell
  <2> HIDE DEF tv, gt, c
  <2>6. /\ DOMAIN tvars' = Thread /\ DOMAIN got' = Thread
        /\ tvars'[t] = tv /\ got'[t] = gt
        /\ \A u \in Thread : u # t => tvars'[u] = tvars[u] /\ got'[u] = got[u]
    BY <2>1, <2>2
  <2>7. TypeOK'
    BY <1>1, <2>3, <2>4, <2>5, <2>6 DEF IInv, TypeOK
  <2>8. Copies'
    BY <1>1, <2>3, <2>5, <2>6 DEF IInv, Copies
  <2>9. SnapshotIsCurrent'
    BY <1>1, <2>3, <2>5, <2>6 DEF IInv, SnapshotIsCurrent
  <2>10. WaitersAreCurrent'
    <3>1. pc'[t] # "wait"
      BY <1>1 DEF Get, Asks
    <3> QED BY <1>1, <2>6, <3>1 DEF IInv, WaitersAreCurrent, Stale
  <2> QED BY <2>7, <2>8, <2>9, <2>10 DEF IInv
<1> QED BY <1>2, <1>3

LEMMA SetOK == \A t \in Thread, n \in Name, v \in Value : IInv /\ Set(t, n, v) => IInv'
<1> SUFFICES ASSUME NEW t \in Thread, NEW n \in Name, NEW v \in Value, IInv, Set(t, n, v)
             PROVE IInv'
  OBVIOUS
<1> DEFINE fresh == [Copied(n) EXCEPT !.value = v, !.dirty = TRUE]
           tv == IF n \in DOMAIN tvars[t]
                 THEN [tvars[t] EXCEPT ![n].value = v, ![n].dirty = TRUE]
                 ELSE With(tvars[t], n, fresh)
<1>1. /\ n \in declared
      /\ UNCHANGED <<db, declared, pc, got, started>>
      /\ requests' \in [Thread -> 0..MaxRequests]
      /\ told' = [told EXCEPT ![t] = Nil]
      /\ tvars' = [tvars EXCEPT ![t] = tv]
  BY StmAssumption DEF Set, Asks, IInv, TypeOK
<1>2. /\ DOMAIN tvars = Thread /\ IsPartial(tvars[t], Entry)
      /\ n \notin DOMAIN tvars[t] => n \notin DOMAIN got[t]
      /\ db[n].timestamp \in Nat
  BY DEF IInv, TypeOK, Copies, Cell
<1>3. /\ fresh \in Entry /\ fresh.value = v /\ fresh.dirty = TRUE
      /\ fresh.timestamp = db[n].timestamp
  BY <1>1, CopiedOK DEF Copied
<1>4. /\ DOMAIN tv = DOMAIN tvars[t] \cup {n}
      /\ \A m \in DOMAIN tvars[t] : m # n => tv[m] = tvars[t][m]
      /\ tv[n].value = v /\ tv[n].dirty = TRUE
      /\ n \in DOMAIN tvars[t] => tv[n].timestamp = tvars[t][n].timestamp
      /\ n \notin DOMAIN tvars[t] => tv[n].timestamp = db[n].timestamp
      /\ IsPartial(tv, Entry)
  <2>1. CASE n \in DOMAIN tvars[t]
    BY <1>2, <2>1 DEF IsPartial, Entry
  <2>2. CASE n \notin DOMAIN tvars[t]
    <3> HIDE DEF fresh
    <3>1. tv = With(tvars[t], n, fresh)
      BY <2>2
    <3> HIDE DEF tv
    <3>2. IsPartial(tv, Entry)
      BY <1>2, <1>3, <3>1, WithTyped
    <3>3. /\ DOMAIN tv = DOMAIN tvars[t] \cup {n} /\ tv[n] = fresh
          /\ \A m \in DOMAIN tvars[t] : tv[m] = tvars[t][m]
      BY <2>2, <3>1 DEF With
    <3> QED BY <1>3, <2>2, <3>2, <3>3
  <2> QED BY <2>1, <2>2
<1> HIDE DEF tv, fresh
<1>5. /\ DOMAIN tvars' = Thread /\ tvars'[t] = tv
      /\ \A u \in Thread : u # t => tvars'[u] = tvars[u]
  BY <1>1, <1>2
<1>6. TypeOK'
  BY <1>1, <1>4, <1>5 DEF IInv, TypeOK
<1>7. Copies'
  BY <1>1, <1>4, <1>5 DEF IInv, Copies
<1>8. SnapshotIsCurrent'
  BY <1>1, <1>2, <1>4, <1>5 DEF IInv, SnapshotIsCurrent
<1>9. WaitersAreCurrent'
  <2>1. pc'[t] # "wait"
    BY <1>1 DEF Set, Asks
  <2> QED BY <1>1, <1>5, <2>1 DEF IInv, WaitersAreCurrent, Stale
<1> QED BY <1>6, <1>7, <1>8, <1>9 DEF IInv

\* A transaction that starts over, or ends, knows nothing any more.
LEMMA DiscardsOK ==
    ASSUME NEW S \in SUBSET Thread, IInv, Discards(S)
    PROVE  /\ DOMAIN tvars' = Thread /\ DOMAIN got' = Thread
           /\ \A t \in S : DOMAIN tvars'[t] = {} /\ DOMAIN got'[t] = {}
           /\ \A t \in Thread \ S : tvars'[t] = tvars[t] /\ got'[t] = got[t]
           /\ \A t \in Thread : IsPartial(tvars'[t], Entry) /\ IsPartial(got'[t], Value)
           /\ told' \in [Thread -> Value \cup {Nil}]
           /\ requests' \in [Thread -> 0..MaxRequests]
<1> USE StmAssumption, NoneDef DEF Discards, IInv, TypeOK
<1>1. DOMAIN tvars' = Thread /\ DOMAIN got' = Thread
  OBVIOUS
<1>2. \A t \in Thread : /\ t \in S => tvars'[t] = None /\ got'[t] = None
                        /\ t \notin S => tvars'[t] = tvars[t] /\ got'[t] = got[t]
  OBVIOUS
<1>3. \A t \in Thread : IsPartial(tvars'[t], Entry) /\ IsPartial(got'[t], Value)
  BY <1>2
<1>4. told' \in [Thread -> Value \cup {Nil}] /\ requests' \in [Thread -> 0..MaxRequests]
  OBVIOUS
<1> QED BY <1>1, <1>2, <1>3, <1>4

\* Restart and Rollback: db does not change.
LEMMA ForgetOK ==
    ASSUME NEW t \in Thread, IInv, Discards({t}), UNCHANGED <<db, declared, started>>,
           pc' \in [Thread -> {"idle", "run", "wait"}],
           \A u \in Thread : pc'[u] = "wait" => pc[u] = "wait"
    PROVE  IInv'
<1>1. /\ DOMAIN tvars' = Thread /\ DOMAIN got' = Thread
      /\ DOMAIN tvars'[t] = {} /\ DOMAIN got'[t] = {}
      /\ \A u \in Thread : u # t => tvars'[u] = tvars[u] /\ got'[u] = got[u]
      /\ \A u \in Thread : IsPartial(tvars'[u], Entry) /\ IsPartial(got'[u], Value)
      /\ told' \in [Thread -> Value \cup {Nil}]
      /\ requests' \in [Thread -> 0..MaxRequests]
  BY DiscardsOK
<1>2. TypeOK'
  BY <1>1 DEF IInv, TypeOK
<1>3. Copies' /\ SnapshotIsCurrent' /\ WaitersAreCurrent'
  BY <1>1 DEF IInv, Copies, SnapshotIsCurrent, WaitersAreCurrent, Stale
<1> QED BY <1>2, <1>3 DEF IInv

LEMMA RestartOK == \A t \in Thread : IInv /\ (Restart(t) \/ Rollback(t)) => IInv'
<1> SUFFICES ASSUME NEW t \in Thread, IInv, Restart(t) \/ Rollback(t) PROVE IInv'
  OBVIOUS
<1>1. /\ Discards({t}) /\ UNCHANGED <<db, declared, started>>
      /\ pc' \in [Thread -> {"idle", "run", "wait"}]
      /\ \A u \in Thread : pc'[u] = "wait" => pc[u] = "wait"
  BY DEF Restart, Rollback, IInv, TypeOK
<1> QED BY <1>1, ForgetOK

\* stm.retry: validation comes before the wait, with nothing in between.
LEMMA RetryOK == \A t \in Thread : IInv /\ Retry(t) => IInv'
<1> SUFFICES ASSUME NEW t \in Thread, IInv, Retry(t) PROVE IInv'
  OBVIOUS
<1>1. TypeOK'
  BY DEF IInv, TypeOK, Retry
<1>2. Copies' /\ SnapshotIsCurrent'
  BY DEF IInv, Copies, SnapshotIsCurrent, Retry
<1>3. WaitersAreCurrent'
  BY DEF IInv, TypeOK, WaitersAreCurrent, Stale, Retry
<1> QED BY <1>1, <1>2, <1>3 DEF IInv

\* A commit: what it writes is newer than every copy of it, and all who wait for it
\* are woken.
LEMMA CommitOK == \A t \in Thread : IInv /\ Commit(t) => IInv'
<1> SUFFICES ASSUME NEW t \in Thread, IInv, Commit(t) PROVE IInv'
  OBVIOUS
<1> DEFINE S == Signalled(t) \cup {t}
<1>1. /\ S \in SUBSET Thread /\ Discards(S)
      /\ UNCHANGED <<declared, started>>
      /\ Dirty(t) \subseteq DOMAIN tvars[t] /\ Dirty(t) \subseteq declared
      /\ declared \subseteq Name
      /\ \A n \in Dirty(t) : tvars[t][n].value \in Value
  BY DEF Commit, Signalled, Dirty, IInv, Copies, TypeOK
<1>2. /\ DOMAIN tvars' = Thread /\ DOMAIN got' = Thread
      /\ \A u \in S : DOMAIN tvars'[u] = {} /\ DOMAIN got'[u] = {}
      /\ \A u \in Thread \ S : tvars'[u] = tvars[u] /\ got'[u] = got[u]
      /\ \A u \in Thread : IsPartial(tvars'[u], Entry) /\ IsPartial(got'[u], Value)
      /\ told' \in [Thread -> Value \cup {Nil}]
      /\ requests' \in [Thread -> 0..MaxRequests]
  <2> HIDE DEF S
  <2> QED BY <1>1, DiscardsOK
<1>3. /\ \A n \in Name \ Dirty(t) : db'[n] = db[n]
      /\ \A n \in Dirty(t) : /\ db'[n].value = tvars[t][n].value
                             /\ db'[n].timestamp = db[n].timestamp + 1
      /\ \A n \in Name : db[n].timestamp \in Nat
  BY <1>1 DEF Commit, Stamped, IInv, TypeOK, Cell
<1>4. db' \in [Name -> Cell]
  BY <1>1 DEF Commit, Stamped, IInv, TypeOK, Cell
<1>5. /\ pc' \in [Thread -> {"idle", "run", "wait"}]
      /\ \A u \in Thread : pc'[u] = "wait" => u \notin S /\ pc[u] = "wait"
  BY DEF Commit, IInv, TypeOK
<1>6. \A u \in Thread \ S : pc[u] = "wait" => DOMAIN tvars[u] \cap Dirty(t) = {}
  BY DEF Signalled
<1>7. \A u \in Thread : DOMAIN tvars[u] \subseteq Name
  BY DEF IInv, TypeOK, IsPartial
<1> HIDE DEF S
<1>8. TypeOK'
  BY <1>1, <1>2, <1>4, <1>5 DEF IInv, TypeOK
<1>9. Copies'
  <2>1. \A n \in Name : n \in declared' <=> db'[n].value # Nil
    BY <1>1, <1>3, StmAssumption DEF IInv, Copies
  <2> QED BY <1>1, <1>2, <2>1 DEF IInv, Copies
<1>10. SnapshotIsCurrent'
  <2> SUFFICES ASSUME NEW u \in Thread \ S, NEW n \in DOMAIN tvars[u]
               PROVE  /\ tvars[u][n].timestamp <= db'[n].timestamp
                      /\ tvars[u][n].timestamp = db'[n].timestamp /\ n \in DOMAIN got[u]
                            => got[u][n] = db'[n].value
    BY <1>1, <1>2 DEF SnapshotIsCurrent
  <2>1. n \in Name /\ tvars[u][n].timestamp \in Nat
    BY <1>7 DEF IInv, TypeOK, IsPartial, Entry
  <2> QED BY <1>3, <2>1 DEF IInv, SnapshotIsCurrent
<1>11. WaitersAreCurrent'
  BY <1>2, <1>3, <1>5, <1>6, <1>7 DEF IInv, WaitersAreCurrent, Stale
<1> QED BY <1>8, <1>9, <1>10, <1>11 DEF IInv

-----------------------------------------------------------------------------
LEMMA Inductive == IInv /\ [Next]_vars => IInv'
<1> SUFFICES ASSUME IInv, [Next]_vars PROVE IInv'
  OBVIOUS
<1>1. CASE UNCHANGED vars
  BY <1>1 DEF vars, IInv, TypeOK, Copies, SnapshotIsCurrent, WaitersAreCurrent, Stale
<1>2. CASE Next
  BY <1>1, <1>2, VarOK, BeginOK, GetOK, SetOK, RestartOK, RetryOK, CommitOK
  DEF Next, Step, Terminated
<1> QED BY <1>1, <1>2

LEMMA Invariant == Spec => []IInv
  BY InitOK, Inductive, PTL DEF Spec

\* stm.var, get, set and the commits keep the types of db, of the copies and of what
\* a get returned.
THEOREM StmTypes == Spec => []TypeOK
  BY Invariant, PTL DEF IInv

\* What validation by timestamps rests on: a copy is never newer than db, and with the
\* timestamp of db the value read is still there.
THEOREM SnapshotsAreRight == Spec => []SnapshotIsCurrent
  BY Invariant, PTL DEF IInv

\* No wake-up of a transaction that retries is lost.
THEOREM NoLostWakeup == Spec => []WaitersAreCurrent
  BY Invariant, PTL DEF IInv

-----------------------------------------------------------------------------
(* The refinement.                                                         *)

\* What the abstract variables put and disturbed stand for.
Puts(t) == [n \in Dirty(t) |-> tvars[t][n].value]
Disturbed == {t \in Thread : Stale(t)}

\* What a transaction has used is what it has read from db or written.
LEMMA Footprints ==
    IInv => \A t \in Thread :
        /\ DOMAIN tvars[t] = DOMAIN got[t] \cup Dirty(t)
        /\ \A n \in DOMAIN tvars[t] : n \notin Dirty(t) => got[t][n] = tvars[t][n].value
        /\ DOMAIN Puts(t) = Dirty(t)
        /\ \A n \in Dirty(t) : Puts(t)[n] = tvars[t][n].value
  BY DEF IInv, Copies, Dirty, Puts

\* A transaction whose copies, and the versions of what it copied, stay as they are
\* means the same to AtomicTransactions.
LEMMA Unmoved ==
    ASSUME NEW t \in Thread, tvars'[t] = tvars[t],
           \A n \in DOMAIN tvars[t] : db'[n].timestamp = db[n].timestamp
    PROVE  Puts(t)' = Puts(t) /\ Stale(t)' = Stale(t)
<1>1. Dirty(t)' = Dirty(t)
  BY DEF Dirty
<1> QED BY <1>1 DEF Puts, Stale

\* To refine a step is to show its effect on the abstract variables.
LEMMA StmInitRefines == Init => Atomic!Init
<1> SUFFICES ASSUME Init PROVE Atomic!Init
  OBVIOUS
<1>1. \A t \in Thread : Dirty(t) = {} /\ ~Stale(t)
  BY NoneDef DEF Init, Dirty, Stale
<1>2. \A t \in Thread : [n \in Dirty(t) |-> tvars[t][n].value] = None
  BY <1>1 DEF None
<1> QED BY <1>1, <1>2 DEF Init, Atomic!Init, Atomic!None, None

LEMMA VarRefines ==
    \A n \in Name, v \in Value : IInv /\ Var(n, v) => Atomic!Declare(n, v)
<1> SUFFICES ASSUME NEW n \in Name, NEW v \in Value, IInv, Var(n, v)
             PROVE  Atomic!Declare(n, v)
  OBVIOUS
<1>1. \A t \in Thread : n \notin DOMAIN tvars[t]
  BY DEF IInv, Copies, Var
<1>2. db[n].value = Nil /\ db' = [db EXCEPT ![n] = [value |-> v, timestamp |-> 0]]
  BY DEF IInv, Copies, Var
<1>3. db \in [Name -> Cell]
  BY DEF IInv, TypeOK
<1>4. \A m \in Name : db'[m].value = IF m = n THEN v ELSE db[m].value
  BY <1>2, <1>3
<1>5. \A t \in Thread : Puts(t)' = Puts(t) /\ Stale(t)' = Stale(t)
  <2>1. ASSUME NEW t \in Thread, NEW m \in DOMAIN tvars[t] PROVE db'[m] = db[m]
    BY <1>1, <1>2, <2>1
  <2> QED BY <2>1, Unmoved DEF Var
<1> QED BY <1>2, <1>4, <1>5 DEF Atomic!Declare, Var, Puts

LEMMA BeginRefines == \A t \in Thread : IInv /\ Begin(t) => Atomic!Begin(t)
<1> SUFFICES ASSUME NEW t \in Thread, IInv, Begin(t) PROVE Atomic!Begin(t)
  OBVIOUS
<1>1. \A u \in Thread : Puts(u)' = Puts(u) /\ Stale(u)' = Stale(u)
  BY Unmoved DEF Begin
<1> QED BY <1>1 DEF Atomic!Begin, Begin, Puts

\* stm.retry that finds nothing stale.
LEMMA RetryRefines == \A t \in Thread : IInv /\ Retry(t) => Atomic!Wait(t)
<1> SUFFICES ASSUME NEW t \in Thread, IInv, Retry(t) PROVE Atomic!Wait(t)
  OBVIOUS
<1>1. \A u \in Thread : Puts(u)' = Puts(u) /\ Stale(u)' = Stale(u)
  BY Unmoved DEF Retry
<1> QED BY <1>1 DEF Atomic!Wait, Retry, Puts

\* stm.get: the first one of a name copies it, later ones return the block's own view.
LEMMA GetRefines == \A t \in Thread, n \in Name : IInv /\ Get(t, n) => Atomic!Read(t, n)
<1> SUFFICES ASSUME NEW t \in Thread, NEW n \in Name, IInv, Get(t, n) PROVE Atomic!Read(t, n)
  OBVIOUS
<1>1. /\ pc[t] = "run" /\ UNCHANGED <<db, declared, pc, started>>
      /\ told' = [told EXCEPT ![t] = tvars'[t][n].value]
      /\ db[n].value # Nil
  BY DEF Get, Asks, IInv, Copies
<1>2. CASE n \in DOMAIN tvars[t]
  <2>1. UNCHANGED <<tvars, got>>
    BY <1>2 DEF Get
  <2>2. \A u \in Thread : Puts(u)' = Puts(u) /\ Stale(u)' = Stale(u)
    BY <1>1, <2>1, Unmoved
  <2>3. tvars[t][n].value = IF n \in DOMAIN Puts(t) THEN Puts(t)[n] ELSE got[t][n]
    BY <1>2, Footprints
  <2>4. n \in Atomic!Footprint(t)
    BY <1>2, Footprints DEF Atomic!Footprint, Puts
  <2> QED BY <1>1, <2>1, <2>2, <2>3, <2>4 DEF Atomic!Read, Puts
<1>3. CASE n \notin DOMAIN tvars[t]
  <2>1. /\ DOMAIN tvars = Thread
        /\ tvars' = [tvars EXCEPT ![t] = With(@, n, Copied(n))]
        /\ got' = [got EXCEPT ![t] = With(@, n, db[n].value)]
    BY <1>3 DEF Get, IInv, TypeOK
  <2>2. /\ DOMAIN tvars'[t] = DOMAIN tvars[t] \cup {n}
        /\ tvars'[t][n] = Copied(n)
        /\ \A m \in DOMAIN tvars[t] : tvars'[t][m] = tvars[t][m]
        /\ \A u \in Thread : u # t => tvars'[u] = tvars[u]
    BY <1>3, <2>1 DEF With
  <2>3. n \notin Atomic!Footprint(t)
    BY <1>3, Footprints DEF Atomic!Footprint, Puts
  <2>4. Puts(t)' = Puts(t) /\ Stale(t)' = Stale(t)
    <3>1. Dirty(t)' = Dirty(t)
      BY <2>2 DEF Dirty, Copied
    <3>2. ~(db[n].timestamp > Copied(n).timestamp)
      BY DEF Copied, IInv, TypeOK, Cell
    <3>3. Dirty(t) \subseteq DOMAIN tvars[t]
      BY DEF Dirty
    <3> QED BY <1>1, <2>2, <3>1, <3>2, <3>3 DEF Puts, Stale
  <2>5. \A u \in Thread : Puts(u)' = Puts(u) /\ Stale(u)' = Stale(u)
    BY <1>1, <2>2, <2>4, Unmoved
  <2>6. told' = [told EXCEPT ![t] = db[n].value]
    BY <1>1, <2>2 DEF Copied
  <2> QED BY <1>1, <2>1, <2>3, <2>5, <2>6 DEF Atomic!Read, Atomic!With, With, Puts
<1> QED BY <1>2, <1>3

\* stm.set, of a name used before or not.
LEMMA SetRefines ==
    \A t \in Thread, n \in Name, v \in Value : IInv /\ Set(t, n, v) => Atomic!Write(t, n, v)
<1> SUFFICES ASSUME NEW t \in Thread, NEW n \in Name, NEW v \in Value, IInv, Set(t, n, v)
             PROVE  Atomic!Write(t, n, v)
  OBVIOUS
<1>1. /\ pc[t] = "run" /\ UNCHANGED <<db, declared, pc, got, started>>
      /\ told' = [told EXCEPT ![t] = Nil]
      /\ db[n].value # Nil /\ db[n].timestamp \in Nat
      /\ DOMAIN tvars = Thread /\ IsPartial(tvars[t], Entry)
  BY DEF Set, Asks, IInv, Copies, TypeOK, Cell
<1>2. /\ DOMAIN tvars'[t] = DOMAIN tvars[t] \cup {n}
      /\ \A m \in DOMAIN tvars[t] : m # n => tvars'[t][m] = tvars[t][m]
      /\ tvars'[t][n].value = v /\ tvars'[t][n].dirty = TRUE
      /\ n \in DOMAIN tvars[t] => tvars'[t][n].timestamp = tvars[t][n].timestamp
      /\ n \notin DOMAIN tvars[t] => tvars'[t][n].timestamp = db[n].timestamp
      /\ \A u \in Thread : u # t => tvars'[u] = tvars[u]
  <2>1. CASE n \in DOMAIN tvars[t]
    BY <1>1, <2>1 DEF Set, IsPartial, Entry
  <2>2. CASE n \notin DOMAIN tvars[t]
    BY <1>1, <2>2 DEF Set, With, Copied
  <2> QED BY <2>1, <2>2
<1>3. Dirty(t)' = Dirty(t) \cup {n}
  BY <1>2 DEF Dirty
<1>4. Puts(t)' = With(Puts(t), n, v)
  <2>1. Dirty(t) \subseteq DOMAIN tvars[t]
    BY DEF Dirty
  <2> QED BY <1>2, <1>3, <2>1 DEF Puts, With
<1>5. Stale(t)' = Stale(t)
  BY <1>1, <1>2 DEF Stale
<1>6. \A u \in Thread : u # t => Puts(u)' = Puts(u) /\ Stale(u)' = Stale(u)
  BY <1>1, <1>2, Unmoved
<1>7. [u \in Thread |-> Puts(u)]' = [[u \in Thread |-> Puts(u)] EXCEPT ![t] = With(@, n, v)]
  BY <1>4, <1>6
<1> QED BY <1>1, <1>5, <1>6, <1>7 DEF Atomic!Write, Atomic!With, With, Puts

\* What is left of a transaction that starts over or ends is neither written nor stale.
LEMMA Forgets ==
    ASSUME NEW S \in SUBSET Thread, IInv, Discards(S)
    PROVE  /\ Atomic!Forgotten(S)
           /\ \A t \in S : Stale(t)' = FALSE
<1>1. /\ DOMAIN tvars' = Thread /\ \A t \in S : DOMAIN tvars'[t] = {}
      /\ \A t \in Thread \ S : tvars'[t] = tvars[t]
  BY DiscardsOK
<1>2. \A t \in Thread : Puts(t)' = IF t \in S THEN None ELSE Puts(t)
  BY <1>1 DEF Puts, Dirty, None
<1>3. \A t \in S : Stale(t)' = FALSE
  BY <1>1 DEF Stale
<1> QED BY <1>2, <1>3 DEF Discards, Atomic!Forgotten, Atomic!None, None, Puts

LEMMA RestartRefines == \A t \in Thread : IInv /\ Restart(t) => Atomic!Restart(t)
<1> SUFFICES ASSUME NEW t \in Thread, IInv, Restart(t) PROVE Atomic!Restart(t)
  OBVIOUS
<1>1. Discards({t}) /\ UNCHANGED <<db, pc>> /\ pc[t] = "run" /\ Stale(t)
  BY DEF Restart
<1>2. Atomic!Forgotten({t}) /\ Stale(t)' = FALSE
  BY <1>1, Forgets
<1>3. \A u \in Thread : u # t => Stale(u)' = Stale(u)
  BY <1>1, DiscardsOK DEF Stale
<1> QED BY <1>1, <1>2, <1>3 DEF Atomic!Restart

LEMMA RollbackRefines == \A t \in Thread : IInv /\ Rollback(t) => Atomic!Abandon(t)
<1> SUFFICES ASSUME NEW t \in Thread, IInv, Rollback(t) PROVE Atomic!Abandon(t)
  OBVIOUS
<1>1. /\ Discards({t}) /\ UNCHANGED db /\ pc[t] = "run"
      /\ pc' = [pc EXCEPT ![t] = "idle"]
  BY DEF Rollback
<1>2. Atomic!Forgotten({t}) /\ Stale(t)' = FALSE
  BY <1>1, Forgets
<1>3. \A u \in Thread : u # t => Stale(u)' = Stale(u)
  BY <1>1, DiscardsOK DEF Stale
<1> QED BY <1>1, <1>2, <1>3 DEF Atomic!Abandon

\* A commit that found nothing stale: all it has read still is what is in db, and it
\* disturbs exactly the transactions that used what it writes.
LEMMA CommitRefines == \A t \in Thread : IInv /\ Commit(t) => Atomic!Commit(t)
<1> SUFFICES ASSUME NEW t \in Thread, IInv, Commit(t) PROVE Atomic!Commit(t)
  OBVIOUS
<1> DEFINE hit == Atomic!Hit(t)
           woken == Atomic!Woken(t)
<1>1. pc[t] = "run" /\ ~Stale(t)
  BY DEF Commit
<1>2. /\ hit = {u \in Thread \ {t} : DOMAIN tvars[u] \cap Dirty(t) # {}}
      /\ woken = {u \in hit : pc[u] = "wait"}
      /\ Signalled(t) = woken
  <2>1. \A u \in Thread : Atomic!Footprint(u) = DOMAIN tvars[u]
    BY Footprints DEF Atomic!Footprint, Puts
  <2>2. /\ hit = {u \in Thread \ {t} : DOMAIN tvars[u] \cap Dirty(t) # {}}
        /\ woken = {u \in hit : pc[u] = "wait"}
    BY <2>1 DEF Atomic!Hit, Atomic!Woken
  <2> HIDE DEF hit, woken
  <2> QED BY <1>1, <2>2 DEF Signalled
<1> HIDE DEF hit, woken
<1>3. \A n \in DOMAIN got[t] : got[t][n] = db[n].value
  <2> SUFFICES ASSUME NEW n \in DOMAIN got[t] PROVE got[t][n] = db[n].value
    OBVIOUS
  <2>1. n \in DOMAIN tvars[t] /\ n \in Name
    BY DEF IInv, Copies, TypeOK
  <2>2. tvars[t][n].timestamp \in Nat /\ db[n].timestamp \in Nat
    BY <2>1 DEF IInv, TypeOK, IsPartial, Entry, Cell
  <2>3. tvars[t][n].timestamp = db[n].timestamp
    BY <1>1, <2>1, <2>2 DEF Stale, IInv, SnapshotIsCurrent
  <2> QED BY <2>1, <2>3 DEF IInv, SnapshotIsCurrent
<1>4. [n \in Name |-> db[n].value]' =
        [n \in Name |-> IF n \in DOMAIN Puts(t) THEN Puts(t)[n] ELSE db[n].value]
  BY Footprints DEF Commit, Stamped
<1>5. PICK S \in SUBSET Thread : S = woken \cup {t} /\ Discards(S)
  <2>1. woken \cup {t} \in SUBSET Thread /\ Discards(woken \cup {t})
    BY <1>2 DEF Commit
  <2> QED BY <2>1
<1>6. pc' = [u \in Thread |->
                  IF u = t THEN "idle" ELSE IF u \in woken THEN "run" ELSE pc[u]]
  BY <1>2 DEF Commit
<1>7. \A u \in Thread \ S : tvars'[u] = tvars[u]
  BY <1>5, DiscardsOK
<1>8. Atomic!Forgotten(woken \cup {t})
  <2>1. Atomic!Forgotten(S)
    BY <1>5, Forgets
  <2> QED BY <1>5, <2>1 DEF Atomic!Forgotten
<1>9. \A u \in S : Stale(u)' = FALSE
  BY <1>5, Forgets
<1>10. /\ \A n \in Name \ Dirty(t) : db'[n].timestamp = db[n].timestamp
       /\ \A n \in Name \cap Dirty(t) : db'[n].timestamp = db[n].timestamp + 1
       /\ \A n \in Name : db[n].timestamp \in Nat
  BY DEF Commit, Stamped, IInv, TypeOK, Cell
<1>11. \A u \in Thread \ S : Stale(u)' = (Stale(u) \/ u \in hit)
  <2> SUFFICES ASSUME NEW u \in Thread \ S
               PROVE  Stale(u)' = (Stale(u) \/ u \in hit)
    OBVIOUS
  <2>1. tvars'[u] = tvars[u]
    BY <1>7
  <2>2. DOMAIN tvars[u] \subseteq Name
    BY DEF IInv, TypeOK, IsPartial
  <2>3. \A n \in DOMAIN tvars[u] :
            tvars[u][n].timestamp \in Nat /\ tvars[u][n].timestamp <= db[n].timestamp
    BY DEF IInv, TypeOK, IsPartial, Entry, SnapshotIsCurrent
  <2>4. CASE u \in hit
    <3>1. PICK n \in DOMAIN tvars[u] : n \in Dirty(t)
      BY <1>2, <1>5, <2>4
    <3>2. db'[n].timestamp > tvars'[u][n].timestamp
      BY <1>10, <2>1, <2>2, <2>3, <3>1
    <3> QED BY <2>1, <2>4, <3>1, <3>2 DEF Stale
  <2>5. CASE u \notin hit
    <3>1. \A n \in DOMAIN tvars[u] : db'[n].timestamp = db[n].timestamp
      BY <1>2, <1>5, <1>10, <2>2, <2>5
    <3> QED BY <2>1, <2>5, <3>1 DEF Stale
  <2> QED BY <2>4, <2>5
<1>12. {u \in Thread : Stale(u)}' = ({u \in Thread : Stale(u)} \cup hit) \ woken
  <2>1. t \notin hit /\ woken \subseteq S /\ S \subseteq woken \cup {t}
    BY <1>2, <1>5
  <2>2. \A u \in Thread : Stale(u)' <=> (Stale(u) \/ u \in hit) /\ u \notin woken
    BY <1>1, <1>9, <1>11, <2>1
  <2>3. hit \subseteq Thread
    BY <1>2
  <2> QED BY <2>2, <2>3
<1>13. t \notin {u \in Thread : Stale(u)}
  BY <1>1
<1>14. \A n \in DOMAIN got[t] : got[t][n] = [m \in Name |-> db[m].value][n]
  BY <1>3 DEF IInv, Copies, TypeOK
<1> QED
  BY <1>1, <1>4, <1>6, <1>8, <1>12, <1>13, <1>14 DEF Atomic!Commit, hit, woken, Puts

LEMMA StepRefines == IInv /\ [Next]_vars => [Atomic!Next]_Atomic!vars
<1> SUFFICES ASSUME IInv, [Next]_vars PROVE [Atomic!Next]_Atomic!vars
  OBVIOUS
<1>1. CASE UNCHANGED vars
  BY <1>1 DEF vars, Atomic!vars, Dirty, Stale
<1>2. CASE Next
  <2>1. CASE Terminated
    BY <1>1, <2>1 DEF Terminated
  <2> QED
    BY <1>2, <2>1, VarRefines, BeginRefines, GetRefines, SetRefines, RestartRefines,
       RollbackRefines, RetryRefines, CommitRefines
    DEF Next, Step, Atomic!Next
<1> QED BY <1>1, <1>2

\* stm.lua implements atomic transactions, for any number of threads, variables and
\* values: every request of a block, commit, restart and wait is one step of them.
THEOREM StmImplementsAtomic == Spec => ImplementsAtomicTransactions
<1>1. Init /\ IInv => Atomic!Init
  BY StmInitRefines
<1> QED BY <1>1, StepRefines, Invariant, PTL DEF Spec, ImplementsAtomicTransactions, Atomic!Spec
=============================================================================
