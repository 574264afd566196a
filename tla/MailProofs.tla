----------------------------- MODULE MailProofs ------------------------------
(***************************************************************************)
(* Fetching mail: who may write (MailLease), and what the cursors of a     *)
(* mailbox claim (MailCursor).                                             *)
(*                                                                         *)
(* FencedWrites and TruthfulAnswer, for any number of fetches and writes.  *)
(*                                                                         *)
(* A worker at work holds the lock unless its lease has let the lock go,   *)
(* and a lease lets it go only with a verdict: no counted write is in      *)
(* flight, and no batch is, for its run could be failed. Once revoked, the *)
(* flag keeps the worker from starting another.                            *)
(*                                                                         *)
(* An answer is given once, after the flag was set: from then on the       *)
(* lease no longer releases the lock, and a worker that takes it late      *)
(* finds the flag before it hands the lock to its lease.                   *)
(*                                                                         *)
(* CursorsCovered, CompleteMeansAll and CursorAdvances, for any mailbox    *)
(* and any sequence of runs: what a cursor claims is in the store, and a   *)
(* run knows of every message of its walk that the store does not have     *)
(* that it is on its list, or beyond the list when more remains.           *)
(***************************************************************************)
EXTENDS MailLease, MailCursor, FiniteSetTheorems, WellFoundedInduction, TLAPS

\* Where a worker has a store write in flight, or could commit without asking again.
InWrite == {"counted", "inside", "after"}
Held == {"flocked", "fresh", "ready", "publish", "batch", "closing", "refused"} \cup InWrite

\* The parts of the inductive invariant.
TxnAt == \A f \in Fetch : txn = f <=> at[f] \in {"inside", "batch"}
CountedAt == \A f \in Fetch : at[f] \in InWrite => writes[f] # 0
RunAt == \A f \in Fetch : at[f] \in {"publish", "batch"} => runs[f]
FlagSet == \A f \in Fetch : revoker[f] \in {"drain", "revoke", "release"} \/ revoked[f] => abandoned[f]
Drained == \A f \in Fetch : revoker[f] = "revoke" => at[f] \notin InWrite
Quiet == \A f \in Fetch : revoked[f] => at[f] \notin InWrite \cup {"batch"}
LockAt == \A f \in Fetch : at[f] \in Held => lock = f \/ (revoked[f] /\ release[f])

IInv == TypeOK /\ TxnAt /\ CountedAt /\ RunAt /\ FlagSet /\ Drained /\ Quiet /\ LockAt

-----------------------------------------------------------------------------
LEMMA Flips ==
  ASSUME NEW S, NEW g \in [S -> BOOLEAN], NEW x \in S, NEW b \in BOOLEAN
  PROVE [g EXCEPT ![x] = b] \in [S -> BOOLEAN]
  OBVIOUS

LEMMA InitIInv == Init => IInv
  BY NoneAssumption, RoundAssumption
     DEF Init, IInv, TypeOK, TxnAt, CountedAt, RunAt, FlagSet, Drained, Quiet, LockAt, InWrite, Held, Counted

\* Each step of a worker, of the thread that abandons it, of the caller and of the system.
LEMMA StepIInv == IInv /\ [Next]_vars => IInv'
<1> SUFFICES ASSUME IInv, [Next]_vars PROVE IInv'
  OBVIOUS
<1> USE NoneAssumption, RoundAssumption
        DEF IInv, TypeOK, TxnAt, CountedAt, RunAt, FlagSet, Drained, Quiet, LockAt, InWrite, Held, Counted,
            worker, lease, caller, Goes, Writes
<1>1. CASE UNCHANGED vars
  BY <1>1 DEF vars
<1>2. ASSUME NEW f \in Fetch, TakeLock(f) PROVE IInv'
  BY <1>2 DEF TakeLock
<1>3. ASSUME NEW f \in Fetch, HoldLock(f) PROVE IInv'
  <2>1. release' = release \/ release' = [release EXCEPT ![f] = TRUE]
    BY <1>3 DEF HoldLock
  <2>2. release' \in [Fetch -> BOOLEAN]
    BY <2>1, Flips
  <2> QED
    BY <1>3, <2>2 DEF HoldLock
<1>4. ASSUME NEW f \in Fetch, Leave(f) PROVE IInv'
  BY <1>4 DEF Leave
<1>5. ASSUME NEW f \in Fetch, BeginWrite(f) PROVE IInv'
  BY <1>5 DEF BeginWrite
<1>6. ASSUME NEW f \in Fetch, OpenTxn(f) PROVE IInv'
  BY <1>6 DEF OpenTxn
<1>7. ASSUME NEW f \in Fetch, Commit(f) PROVE IInv'
  BY <1>7 DEF Commit
<1>8. ASSUME NEW f \in Fetch, EndWrite(f) PROVE IInv'
  <2>1. runs' = runs \/ runs' = [runs EXCEPT ![f] = TRUE]
    BY <1>8 DEF EndWrite
  <2>2. runs' \in [Fetch -> BOOLEAN]
    BY <2>1, Flips
  <2>3. TypeOK'
    <3>1. \E place \in {"refused", "publish", "ready"} : at' = [at EXCEPT ![f] = place]
      BY <1>8 DEF EndWrite
    <3> QED
      BY <1>8, <2>2, <3>1 DEF EndWrite
  <2>4. (TxnAt /\ CountedAt /\ RunAt)'
    BY <1>8 DEF EndWrite
  <2>5. (FlagSet /\ Drained /\ Quiet /\ LockAt)'
    BY <1>8 DEF EndWrite
  <2> QED
    BY <2>3, <2>4, <2>5
<1>9. ASSUME NEW f \in Fetch, OpenBatch(f) PROVE IInv'
  BY <1>9 DEF OpenBatch
<1>10. ASSUME NEW f \in Fetch, CommitBatch(f) PROVE IInv'
  BY <1>10 DEF CommitBatch
<1>11. ASSUME NEW f \in Fetch, FailRun(f) PROVE IInv'
  BY <1>11 DEF FailRun
<1>12. ASSUME NEW f \in Fetch, Stops(f) PROVE IInv'
  BY <1>12 DEF Stops
<1>13. ASSUME NEW f \in Fetch, Abandon(f) PROVE IInv'
  BY <1>13 DEF Abandon
<1>14. ASSUME NEW f \in Fetch, Drain(f) PROVE IInv'
  BY <1>14 DEF Drain
<1>15. ASSUME NEW f \in Fetch, Revoke(f) PROVE IInv'
  <2>1. revoked' = revoked \/ revoked' = [revoked EXCEPT ![f] = TRUE]
    BY <1>15 DEF Revoke
  <2>2. revoked' \in [Fetch -> BOOLEAN]
    BY <2>1, Flips
  <2>3. TypeOK'
    BY <1>15, <2>2 DEF Revoke
  <2>4. (TxnAt /\ CountedAt /\ RunAt)'
    BY <1>15 DEF Revoke
  <2>5. (FlagSet /\ Drained /\ Quiet /\ LockAt)'
    BY <1>15 DEF Revoke
  <2> QED
    BY <2>3, <2>4, <2>5
<1>16. ASSUME NEW f \in Fetch, Release(f) PROVE IInv'
  BY <1>16 DEF Release
<1>17. ASSUME NEW f \in Fetch, Settle(f) PROVE IInv'
  BY <1>17 DEF Settle
<1>18. ASSUME NEW f \in Fetch, Crash(f) PROVE IInv'
  BY <1>18 DEF Crash
<1> QED
  BY <1>1, <1>2, <1>3, <1>4, <1>5, <1>6, <1>7, <1>8, <1>9, <1>10, <1>11, <1>12, <1>13, <1>14,
     <1>15, <1>16, <1>17, <1>18 DEF Next, Works, Calls

LEMMA IInvFences == IInv => FencedWrites
  BY NoneAssumption DEF IInv, TypeOK, TxnAt, Quiet, LockAt, FencedWrites, InWrite, Held

\* Every state of every run is of the declared types.
THEOREM LeaseTypes == Spec => []TypeOK
<1>1. IInv => TypeOK
  BY DEF IInv
<1> QED
  BY <1>1, InitIInv, StepIInv, PTL DEF Spec

\* A store transaction is open only for the holder of the writer lock, however many fetches
\* are started, abandoned, blocked or killed (FetchLease.abandon, fetch_lock).
THEOREM LeaseFences == Spec => []FencedWrites
  BY InitIInv, StepIInv, IInvFences, PTL DEF Spec

-----------------------------------------------------------------------------
(* The answer to the caller.                                                *)

Told == \A f \in Fetch : answer[f] # "none" => settled[f] /\ revoker[f] # "no"
Flagged == \A f \in Fetch : revoker[f] # "no" => abandoned[f] \/ at[f] = "done"
Handed ==
  \A f \in Fetch :
    /\ at[f] \in {"new", "flocked"} => ~release[f]
    /\ at[f] \in Held \ {"flocked"} => release[f]
LockUsed == \A f \in Fetch : lock = f => at[f] \notin {"new", "done"}

AInv == TypeOK /\ Told /\ Flagged /\ Handed /\ LockUsed /\ TruthfulAnswer

LEMMA InitAInv == Init => AInv
  BY NoneAssumption, RoundAssumption
     DEF Init, AInv, TypeOK, Told, Flagged, Handed, LockUsed, TruthfulAnswer, InWrite, Held, Counted

LEMMA StepAInv == AInv /\ TypeOK' /\ [Next]_vars => AInv'
<1> SUFFICES ASSUME AInv, TypeOK', [Next]_vars PROVE AInv'
  OBVIOUS
<1> USE NoneAssumption
        DEF AInv, TypeOK, Told, Flagged, Handed, LockUsed, TruthfulAnswer, InWrite, Held,
            worker, lease, caller, Goes, Writes
<1>1. CASE UNCHANGED vars
  BY <1>1 DEF vars
<1>2. ASSUME NEW f \in Fetch, TakeLock(f) PROVE AInv'
  BY <1>2 DEF TakeLock
<1>3. ASSUME NEW f \in Fetch, HoldLock(f) PROVE AInv'
  BY <1>3 DEF HoldLock
<1>4. ASSUME NEW f \in Fetch, Leave(f) PROVE AInv'
  BY <1>4 DEF Leave
<1>5. ASSUME NEW f \in Fetch, BeginWrite(f) PROVE AInv'
  BY <1>5 DEF BeginWrite
<1>6. ASSUME NEW f \in Fetch, OpenTxn(f) PROVE AInv'
  BY <1>6 DEF OpenTxn
<1>7. ASSUME NEW f \in Fetch, Commit(f) PROVE AInv'
  BY <1>7 DEF Commit
<1>8. ASSUME NEW f \in Fetch, EndWrite(f) PROVE AInv'
  BY <1>8 DEF EndWrite
<1>9. ASSUME NEW f \in Fetch, OpenBatch(f) PROVE AInv'
  BY <1>9 DEF OpenBatch
<1>10. ASSUME NEW f \in Fetch, CommitBatch(f) PROVE AInv'
  BY <1>10 DEF CommitBatch
<1>11. ASSUME NEW f \in Fetch, FailRun(f) PROVE AInv'
  BY <1>11 DEF FailRun
<1>12. ASSUME NEW f \in Fetch, Stops(f) PROVE AInv'
  BY <1>12 DEF Stops
<1>13. ASSUME NEW f \in Fetch, Abandon(f) PROVE AInv'
  BY <1>13 DEF Abandon
<1>14. ASSUME NEW f \in Fetch, Drain(f) PROVE AInv'
  BY <1>14 DEF Drain
<1>15. ASSUME NEW f \in Fetch, Revoke(f) PROVE AInv'
  BY <1>15 DEF Revoke
<1>16. ASSUME NEW f \in Fetch, Release(f) PROVE AInv'
  BY <1>16 DEF Release
<1>17. ASSUME NEW f \in Fetch, Settle(f) PROVE AInv'
  BY <1>17 DEF Settle
<1>18. ASSUME NEW f \in Fetch, Crash(f) PROVE AInv'
  BY <1>18 DEF Crash
<1> QED
  BY <1>1, <1>2, <1>3, <1>4, <1>5, <1>6, <1>7, <1>8, <1>9, <1>10, <1>11, <1>12, <1>13, <1>14,
     <1>15, <1>16, <1>17, <1>18 DEF Next, Works, Calls

\* What the tool told its caller of the writer lock stays true, whatever the worker and the
\* thread that abandons it do afterwards (FetchLease.settle, hold_lock).
THEOREM LeaseTruthful == Spec => []TruthfulAnswer
<1>1. IInv => TypeOK
  BY DEF IInv
<1>2. AInv => TruthfulAnswer
  BY DEF AInv
<1> QED
  BY <1>1, <1>2, InitIInv, StepIInv, InitAInv, StepAInv, PTL DEF Spec

-----------------------------------------------------------------------------
(* Sets of UIDs: their ends, and the parts a walk takes.                    *)

LEMMA UidsCount ==
  ASSUME NEW S \in SUBSET Uid
  PROVE  IsFiniteSet(S) /\ Cardinality(S) \in Nat
<1>1. IsFiniteSet(Uid)
  BY BoundAssumption, FS_Interval DEF Uid
<1> QED  BY <1>1, FS_Subset, FS_CardinalityType

LEMMA MinIs ==
  ASSUME NEW S \in SUBSET Uid, S # {}
  PROVE  Min(S) \in S /\ \A x \in S : Min(S) <= x
<1> DEFINE T == {Below(S, x) : x \in S}
<1>1. T \subseteq FiniteSubsetsOf(Uid) /\ T # {}
  <2>1. \A t \in T : t \in SUBSET Uid
    BY DEF Below
  <2> QED  BY <2>1, UidsCount DEF FiniteSubsetsOf
<1>2. PICK t \in T : \A b \in T : <<b, t>> \notin StrictSubsetOrdering(Uid)
  BY <1>1, FS_StrictSubsetOrderingWellFounded, WFMin
<1>3. PICK m \in S : t = Below(S, m)
  OBVIOUS
<1>4. ASSUME NEW x \in S, x < m PROVE FALSE
  <2> S \subseteq Int
    BY DEF Uid
  <2>1. ASSUME NEW y \in Below(S, x) PROVE y \in Below(S, m)
    <3>1. y \in S /\ y < x
      BY DEF Below
    <3> QED  BY <1>4, <3>1 DEF Below
  <2>3. x \in Below(S, m) /\ x \notin Below(S, x)
    BY <1>4 DEF Below
  <2>2. <<Below(S, x), Below(S, m)>> \in StrictSubsetOrdering(Uid)
    BY <2>1, <2>3 DEF StrictSubsetOrdering, Below
  <2> QED  BY <1>2, <1>3, <2>2
<1>5. \A x \in S : m <= x
  BY <1>4 DEF Uid
<1> HIDE DEF T
<1> QED  BY <1>5 DEF Min

LEMMA MaxIs ==
  ASSUME NEW S \in SUBSET Uid, S # {}
  PROVE  Max(S) \in S /\ \A x \in S : x <= Max(S)
<1> DEFINE T == {Above(S, x) : x \in S}
<1>1. T \subseteq FiniteSubsetsOf(Uid) /\ T # {}
  <2>1. \A t \in T : t \in SUBSET Uid
    BY DEF Above
  <2> QED  BY <2>1, UidsCount DEF FiniteSubsetsOf
<1>2. PICK t \in T : \A b \in T : <<b, t>> \notin StrictSubsetOrdering(Uid)
  BY <1>1, FS_StrictSubsetOrderingWellFounded, WFMin
<1>3. PICK m \in S : t = Above(S, m)
  OBVIOUS
<1>4. ASSUME NEW x \in S, m < x PROVE FALSE
  <2> S \subseteq Int
    BY DEF Uid
  <2>1. ASSUME NEW y \in Above(S, x) PROVE y \in Above(S, m)
    <3>1. y \in S /\ x < y
      BY DEF Above
    <3> QED  BY <1>4, <3>1 DEF Above
  <2>3. x \in Above(S, m) /\ x \notin Above(S, x)
    BY <1>4 DEF Above
  <2>2. <<Above(S, x), Above(S, m)>> \in StrictSubsetOrdering(Uid)
    BY <2>1, <2>3 DEF StrictSubsetOrdering, Above
  <2> QED  BY <1>2, <1>3, <2>2
<1>5. \A x \in S : m >= x
  BY <1>4 DEF Uid
<1> HIDE DEF T
<1>6. Max(S) \in S /\ \A x \in S : Max(S) >= x
  BY <1>5 DEF Max
<1> QED  BY <1>6 DEF Uid

LEMMA CountGrows ==
  ASSUME NEW S \in SUBSET Uid, NEW T \in SUBSET S
  PROVE  Cardinality(T) <= Cardinality(S)
BY UidsCount, FS_Subset

\* A walk upwards leaves nothing out below what it takes.
LEMMA OldestIs ==
  ASSUME NEW S \in SUBSET Uid, NEW n \in Int
  PROVE  /\ Oldest(S, n) \subseteq S
         /\ \A u \in S \ Oldest(S, n), v \in Oldest(S, n) : v < u
         /\ n > 0 /\ S # {} => Oldest(S, n) # {}
<1>1. ASSUME NEW u \in S \ Oldest(S, n), NEW v \in Oldest(S, n) PROVE v < u
  <2>1. CASE u <= v
    <3> u \in Int /\ v \in Int /\ S \subseteq Int
      BY <1>1 DEF Uid, Oldest
    <3>4. ASSUME NEW y \in Below(S, u) PROVE y \in Below(S, v)
      <4>1. y \in S /\ y < u
        BY DEF Below
      <4> QED  BY <2>1, <4>1 DEF Below
    <3>1. Below(S, u) \subseteq Below(S, v) /\ Below(S, v) \subseteq Uid
      BY <3>4 DEF Below
    <3>2. Cardinality(Below(S, u)) <= Cardinality(Below(S, v))
      BY <3>1, CountGrows
    <3>3. Cardinality(Below(S, u)) \in Nat /\ Cardinality(Below(S, v)) \in Nat
      BY <3>1, UidsCount
    <3> QED  BY <1>1, <3>2, <3>3 DEF Oldest
  <2>2. u \in Nat /\ v \in Nat
    BY <1>1 DEF Oldest, Uid
  <2> QED  BY <2>1, <2>2
<1>2. ASSUME n > 0, S # {} PROVE Min(S) \in Oldest(S, n)
  <2> S \subseteq Int
    BY DEF Uid
  <2>1. ASSUME NEW y \in Below(S, Min(S)) PROVE FALSE
    <3>1. y \in S /\ y < Min(S)
      BY DEF Below
    <3>2. Min(S) \in Int /\ y \in Int /\ Min(S) <= y
      BY <1>2, <3>1, MinIs
    <3> QED  BY <3>1, <3>2
  <2>2. Cardinality(Below(S, Min(S))) = 0
    BY <2>1, FS_EmptySet
  <2> QED  BY <1>2, <2>2, MinIs DEF Oldest
<1> QED  BY <1>1, <1>2 DEF Oldest

\* A walk downwards leaves nothing out above what it takes.
LEMMA NewestIs ==
  ASSUME NEW S \in SUBSET Uid, NEW n \in Int
  PROVE  /\ Newest(S, n) \subseteq S
         /\ \A u \in S \ Newest(S, n), v \in Newest(S, n) : u < v
         /\ n > 0 /\ S # {} => Newest(S, n) # {}
<1>1. ASSUME NEW u \in S \ Newest(S, n), NEW v \in Newest(S, n) PROVE u < v
  <2>1. CASE v <= u
    <3> u \in Int /\ v \in Int /\ S \subseteq Int
      BY <1>1 DEF Uid, Newest
    <3>4. ASSUME NEW y \in Above(S, u) PROVE y \in Above(S, v)
      <4>1. y \in S /\ u < y
        BY DEF Above
      <4> QED  BY <2>1, <4>1 DEF Above
    <3>1. Above(S, u) \subseteq Above(S, v) /\ Above(S, v) \subseteq Uid
      BY <3>4 DEF Above
    <3>2. Cardinality(Above(S, u)) <= Cardinality(Above(S, v))
      BY <3>1, CountGrows
    <3>3. Cardinality(Above(S, u)) \in Nat /\ Cardinality(Above(S, v)) \in Nat
      BY <3>1, UidsCount
    <3> QED  BY <1>1, <3>2, <3>3 DEF Newest
  <2>2. u \in Nat /\ v \in Nat
    BY <1>1 DEF Newest, Uid
  <2> QED  BY <2>1, <2>2
<1>2. ASSUME n > 0, S # {} PROVE Max(S) \in Newest(S, n)
  <2> S \subseteq Int
    BY DEF Uid
  <2>1. ASSUME NEW y \in Above(S, Max(S)) PROVE FALSE
    <3>1. y \in S /\ Max(S) < y
      BY DEF Above
    <3>2. Max(S) \in Int /\ y \in Int /\ y <= Max(S)
      BY <1>2, <3>1, MaxIs
    <3> QED  BY <3>1, <3>2
  <2>2. Cardinality(Above(S, Max(S))) = 0
    BY <2>1, FS_EmptySet
  <2> QED  BY <1>2, <2>2, MaxIs DEF Newest
<1> QED  BY <1>1, <1>2 DEF Newest

\* What a batch covers: a part of the list from its end, with the messages still there.
LEMMA OldestBatch ==
  ASSUME NEW S \in SUBSET Uid, NEW n \in 1..Cardinality(S)
  PROVE  /\ S # {} /\ Oldest(S, n) # {} /\ Oldest(S, n) \subseteq S
         /\ Max(Oldest(S, n)) \in Oldest(S, n)
         /\ \A u \in S : u <= Max(Oldest(S, n)) <=> u \in Oldest(S, n)
<1>1. S # {}
  <2>1. S = {} => Cardinality(S) = 0
    BY FS_EmptySet
  <2> QED  BY <2>1
<1>2. n > 0 /\ n \in Int
  BY UidsCount
<1>3. Oldest(S, n) # {} /\ Oldest(S, n) \subseteq S
  BY <1>1, <1>2, OldestIs
<1> DEFINE m == Max(Oldest(S, n))
<1>4. m \in Oldest(S, n) /\ \A x \in Oldest(S, n) : x <= m
  BY <1>3, MaxIs
<1>5. \A u \in S \ Oldest(S, n) : m < u
  BY <1>2, <1>4, OldestIs
<1>6. S \subseteq Int
  BY DEF Uid
<1> HIDE DEF m
<1>7. m \in Int
  BY <1>3, <1>4, <1>6
<1>8. \A u \in S : u <= m <=> u \in Oldest(S, n)
  BY <1>4, <1>5, <1>6, <1>7
<1> QED  BY <1>1, <1>3, <1>4, <1>8 DEF m

LEMMA NewestBatch ==
  ASSUME NEW S \in SUBSET Uid, NEW n \in 1..Cardinality(S)
  PROVE  /\ S # {} /\ Newest(S, n) # {} /\ Newest(S, n) \subseteq S
         /\ Min(Newest(S, n)) \in Newest(S, n)
         /\ \A u \in S : Min(Newest(S, n)) <= u <=> u \in Newest(S, n)
<1>1. S # {}
  <2>1. S = {} => Cardinality(S) = 0
    BY FS_EmptySet
  <2> QED  BY <2>1
<1>2. n > 0 /\ n \in Int
  BY UidsCount
<1>3. Newest(S, n) # {} /\ Newest(S, n) \subseteq S
  BY <1>1, <1>2, NewestIs
<1> DEFINE m == Min(Newest(S, n))
<1>4. m \in Newest(S, n) /\ \A x \in Newest(S, n) : m <= x
  BY <1>3, MinIs
<1>5. \A u \in S \ Newest(S, n) : u < m
  BY <1>2, <1>4, NewestIs
<1>6. S \subseteq Int
  BY DEF Uid
<1> HIDE DEF m
<1>7. m \in Int
  BY <1>3, <1>4, <1>6
<1>8. \A u \in S : m <= u <=> u \in Newest(S, n)
  BY <1>4, <1>5, <1>6, <1>7
<1> QED  BY <1>1, <1>3, <1>4, <1>8 DEF m

-----------------------------------------------------------------------------
(* The invariant, action by action.                                         *)

USE DEF server, store

IsForward(f) == f.valid \in Nat /\ f.epoch \in Nat /\ f.uid \in Nat /\ f.base \in Nat /\ 1 <= f.base
IsBack(b) == /\ b.valid \in Nat /\ b.epoch \in Nat /\ b.low \in Nat /\ b.since \in Nat
             /\ b.wsince \in Nat /\ b.whigh \in Nat

\* What the types say of the numbers in play.
LEMMA Numbers ==
  ASSUME CursorTypes
  PROVE  /\ validity \in Nat /\ next \in Nat \ {0} /\ mails \in Nat
         /\ \A u \in alive : u \in Int /\ day[u] \in Nat
         /\ Wanted \subseteq alive
         /\ fwd # Unset => fwd \in Forwards /\ IsForward(fwd)
         /\ back # Unset => back \in Backs /\ IsBack(back)
         /\ run # Unset => /\ run \in Runs /\ run.left \in Int /\ run.target \in Nat /\ run.top \in Nat
                           /\ run.uids \subseteq Uid /\ run.uids \subseteq Int
                           /\ run.more \in BOOLEAN /\ run.exists \in BOOLEAN
                           /\ run.fwd # Unset => run.fwd \in Forwards /\ IsForward(run.fwd)
                           /\ run.back # Unset => run.back \in Backs /\ IsBack(run.back)
<1>1. /\ validity \in Nat /\ next \in Nat \ {0} /\ mails \in Nat
      /\ \A u \in alive : u \in Int /\ day[u] \in Nat
      /\ Wanted \subseteq alive
  BY BoundAssumption DEF CursorTypes, Uid, Wanted
<1>2. fwd # Unset => fwd \in Forwards /\ IsForward(fwd)
  BY DEF CursorTypes, Forwards, IsForward
<1>3. back # Unset => back \in Backs /\ IsBack(back)
  BY DEF CursorTypes, Backs, IsBack
<1>4. run # Unset =>
        /\ run \in Runs /\ run.left \in Int /\ run.target \in Nat /\ run.top \in Nat
        /\ run.uids \subseteq Uid /\ run.more \in BOOLEAN /\ run.exists \in BOOLEAN
        /\ run.fwd \in Forwards \cup {Unset} /\ run.back \in Backs \cup {Unset}
  BY DEF CursorTypes, Runs
<1>5. run # Unset => /\ run.fwd # Unset => IsForward(run.fwd)
                     /\ run.back # Unset => IsBack(run.back)
  BY <1>4 DEF Forwards, Backs, IsForward, IsBack
<1>6. Uid \subseteq Int
  BY DEF Uid
<1> QED  BY <1>1, <1>2, <1>3, <1>4, <1>5, <1>6

LEMMA DeliverKeeps ==
  ASSUME CInv, Deliver
  PROVE  CInv'
<1>a. /\ CursorTypes /\ CursorsClaim /\ RunBegun /\ ForwardWalk /\ Forwarded
      /\ Backfilling /\ BackWalk /\ CompleteMeansAll
  BY DEF CInv
<1>1. /\ run = Unset /\ run' = Unset /\ mails < MaxMail /\ mails' = mails + 1 /\ next' = next + 1
      /\ alive' = alive \cup {next} /\ validity' = validity /\ UNCHANGED store /\ complete' = Unset
  BY DEF Deliver
<1>2. day' \in [Uid -> 0..MaxDay] /\ \A u \in alive : day'[u] = day[u]
  BY BoundAssumption DEF Deliver, CInv, CursorTypes, Uid
<1>3. next \in Uid /\ next \notin alive /\ mails' \in 0..MaxMail
      /\ next' <= mails' + 1 /\ alive' \subseteq Uid /\ \A u \in alive' : u < next'
  BY BoundAssumption, <1>1 DEF Deliver, CInv, CursorTypes, Uid
<1>4. CursorTypes'
  BY <1>a, <1>1, <1>2, <1>3, Numbers DEF CursorTypes
<1>5. CursorsClaim'
  BY <1>a, Numbers, <1>1, <1>2 DEF CursorsClaim, IsForward, ForwardClaim, BackClaim, Wanted
<1>6. RunBegun'
  BY <1>1 DEF RunBegun
<1>7. ForwardWalk'
  BY <1>1 DEF ForwardWalk, At
<1>8. Forwarded'
  BY <1>1 DEF Forwarded, At
<1>9. Backfilling'
  BY <1>1 DEF Backfilling, At
<1>10. BackWalk'
  BY <1>1 DEF BackWalk, At
<1>11. CompleteMeansAll'
  BY <1>1 DEF CompleteMeansAll
<1> QED  BY <1>4, <1>5, <1>6, <1>7, <1>8, <1>9, <1>10, <1>11 DEF CInv

LEMMA ExpungeKeeps ==
  ASSUME CInv, Expunge
  PROVE  CInv'
<1>a. /\ CursorTypes /\ CursorsClaim /\ RunBegun /\ ForwardWalk /\ Forwarded
      /\ Backfilling /\ BackWalk /\ CompleteMeansAll
  BY DEF CInv
<1>1. /\ alive' \subseteq alive /\ UNCHANGED <<validity, next, mails, store, run>> /\ complete' = Unset
  BY DEF Expunge
<1>2. day' \in [Uid -> 0..MaxDay] /\ \A u \in alive' : day'[u] = day[u]
  BY BoundAssumption DEF Expunge, CInv, CursorTypes, Uid
<1>3. CursorTypes'
  BY <1>a, <1>1, <1>2 DEF CursorTypes
<1>4. CursorsClaim'
  BY <1>a, <1>1, <1>2 DEF CursorsClaim, ForwardClaim, BackClaim, Wanted
<1>5. RunBegun'
  BY <1>a, <1>1 DEF RunBegun
<1>6. ForwardWalk'
  BY <1>a, <1>1 DEF ForwardWalk, Ascends, At, Wanted
<1>7. Forwarded'
  BY <1>a, <1>1 DEF Forwarded, At, Wanted
<1>8. Backfilling'
  BY <1>a, <1>1, <1>2 DEF Backfilling, At, BackClaim, Wanted
<1>9. BackWalk'
  BY <1>a, <1>1, <1>2 DEF BackWalk, Descends, At, Wanted
<1>10. CompleteMeansAll'
  BY <1>1 DEF CompleteMeansAll
<1> QED  BY <1>3, <1>4, <1>5, <1>6, <1>7, <1>8, <1>9, <1>10 DEF CInv

LEMMA RenumberKeeps ==
  ASSUME CInv, Renumber
  PROVE  CInv'
<1>a. /\ CursorTypes /\ CursorsClaim /\ RunBegun /\ ForwardWalk /\ Forwarded
      /\ Backfilling /\ BackWalk /\ CompleteMeansAll
  BY DEF CInv
<1>1. /\ run = Unset /\ run' = Unset /\ validity' = validity + 1 /\ next' = 1 /\ alive' = {}
      /\ day' = [u \in Uid |-> 0] /\ kept' = {} /\ complete' = Unset /\ UNCHANGED <<mails, fwd, back>>
  BY DEF Renumber
<1>2. CursorTypes'
  BY <1>a, <1>1, BoundAssumption DEF CursorTypes
<1>3. CursorsClaim'
  BY <1>a, Numbers, <1>1 DEF CursorsClaim, IsForward
<1>4. RunBegun'
  BY <1>1 DEF RunBegun
<1>5. ForwardWalk'
  BY <1>1 DEF ForwardWalk, At
<1>6. Forwarded'
  BY <1>1 DEF Forwarded, At
<1>7. Backfilling'
  BY <1>1 DEF Backfilling, At
<1>8. BackWalk'
  BY <1>1 DEF BackWalk, At
<1>9. CompleteMeansAll'
  BY <1>1 DEF CompleteMeansAll
<1> QED  BY <1>2, <1>3, <1>4, <1>5, <1>6, <1>7, <1>8, <1>9 DEF CInv

LEMMA BeginKeeps ==
  ASSUME CInv, Begin
  PROVE  CInv'
<1>a. /\ CursorTypes /\ CursorsClaim /\ RunBegun /\ ForwardWalk /\ Forwarded
      /\ Backfilling /\ BackWalk /\ CompleteMeansAll
  BY DEF CInv
<1>1. PICK left \in 0..MaxMessages, target \in 0..MaxDay :
        run' = [stage |-> "examined", left |-> left, target |-> target, top |-> next - 1,
                exists |-> alive # {}, uids |-> {}, more |-> FALSE, fwd |-> Unset, back |-> Unset]
  BY DEF Begin
<1>2. left \in Int /\ target \in Nat
  BY BoundAssumption
<1>3. run' \in Runs /\ run'.stage = "examined" /\ run'.top = next - 1 /\ run'.exists = (alive # {})
  BY <1>1, <1>2, <1>a, Numbers DEF Runs
<1>4. run = Unset /\ complete' = Unset /\ UNCHANGED <<server, store>>
  BY DEF Begin
<1>5. CursorTypes'
  BY <1>a, <1>3, <1>4 DEF CursorTypes
<1>6. CursorsClaim'
  BY <1>a, <1>4 DEF CursorsClaim, ForwardClaim, BackClaim, Wanted
<1>7. RunBegun'
  BY <1>1, <1>4 DEF RunBegun
<1>8. ForwardWalk'
  BY <1>1 DEF ForwardWalk, At
<1>9. Forwarded'
  BY <1>1 DEF Forwarded, At
<1>10. Backfilling'
  BY <1>1 DEF Backfilling, At
<1>11. BackWalk'
  BY <1>1 DEF BackWalk, At
<1>12. CompleteMeansAll'
  BY <1>4 DEF CompleteMeansAll
<1> QED  BY <1>5, <1>6, <1>7, <1>8, <1>9, <1>10, <1>11, <1>12 DEF CInv

\* A walk, and the epoch that a new forward cursor gets.
LEMMA WalkIs ==
  ASSUME CursorTypes, run # Unset, NEW stage \in {"forward", "widen", "extend"},
         NEW found \in SUBSET Uid, NEW chosen \in SUBSET Uid
  PROVE  LET r == Walk(stage, found, chosen) IN
         /\ r \in Runs /\ r.stage = stage /\ r.uids = chosen /\ r.more = (chosen # found)
         /\ r.target = run.target /\ r.top = run.top /\ r.exists = run.exists
         /\ r.fwd = run.fwd /\ r.back = run.back
<1>1. Cardinality(chosen) \in Int /\ run.left - Cardinality(chosen) \in Int
  BY UidsCount, Numbers
<1> QED  BY <1>1, Numbers DEF Walk, Runs

LEMMA EpochIs ==
  ASSUME CursorTypes, CursorsClaim, Followed = Unset
  PROVE  /\ Epoch \in Nat
         /\ fwd # Unset => Epoch = fwd.epoch + 1 /\ Epoch > fwd.epoch
         /\ back # Unset => Epoch > back.epoch
<1>1. fwd # Unset => fwd.valid # validity
  BY DEF Followed
<1> QED  BY <1>1, Numbers DEF Epoch, IsForward, IsBack, CursorsClaim

LEMMA ForwardIs ==
  ASSUME CursorTypes, CursorsClaim, Followed = Unset, NEW base \in Nat \ {0}, NEW uid \in Nat
  PROVE  LET f == Forward(base, uid) IN
         /\ f \in Forwards /\ f.valid = validity /\ f.epoch = Epoch /\ f.uid = uid /\ f.base = base
         /\ f # Unset
BY EpochIs, Numbers, UnsetAssumption DEF Forward, Forwards

LEMMA PresentIs ==
  ASSUME CursorTypes, RunBegun, run # Unset
  PROVE  Present = alive
BY Numbers DEF Present, RunBegun, CursorTypes

LEMMA StartEmptyKeeps ==
  ASSUME CInv, run # Unset, run.stage = "examined", UNCHANGED <<server, kept, back, complete>>,
         Followed = Unset, ~run.exists, fwd' = Forward(run.top + 1, run.top),
         run' = [run EXCEPT !.stage = "forwarded", !.fwd = fwd']
  PROVE  CInv'
<1>a. /\ CursorTypes /\ CursorsClaim /\ RunBegun /\ ForwardWalk /\ Forwarded
      /\ Backfilling /\ BackWalk /\ CompleteMeansAll
  BY DEF CInv
<1>1. alive = {} /\ run.top \in Nat /\ run.top = next - 1
  BY <1>a, Numbers DEF RunBegun
<1>2. /\ fwd' \in Forwards /\ fwd'.valid = validity /\ fwd'.epoch = Epoch /\ fwd'.uid = run.top
      /\ fwd'.base = run.top + 1 /\ fwd' # Unset
  <2>1. run.top + 1 \in Nat \ {0} /\ run.top \in Nat
    BY <1>1
  <2> QED  BY <1>a, <2>1, ForwardIs
<1>3. /\ run' \in Runs /\ run'.stage = "forwarded" /\ run'.fwd = fwd' /\ run'.top = run.top
      /\ run'.exists = run.exists
  BY <1>2, <1>a, Numbers DEF Runs
<1>4. CursorTypes'
  BY <1>a, <1>2, <1>3 DEF CursorTypes
<1>5. CursorsClaim'
  BY <1>a, Numbers, <1>2, EpochIs DEF CursorsClaim, RunBegun, IsBack, ForwardClaim, Wanted
<1>6. RunBegun'
  BY <1>a DEF RunBegun
<1>7. ForwardWalk'
  BY <1>a DEF ForwardWalk, At
<1>8. Forwarded'
  BY <1>1, <1>2 DEF Forwarded, Wanted
<1>9. Backfilling'
  BY <1>a DEF Backfilling, At
<1>10. BackWalk'
  BY <1>a DEF BackWalk, At
<1>11. CompleteMeansAll'
  BY <1>a DEF CompleteMeansAll, RunBegun
<1> QED  BY <1>4, <1>5, <1>6, <1>7, <1>8, <1>9, <1>10, <1>11 DEF CInv

LEMMA StartNothingKeeps ==
  ASSUME CInv, run # Unset, run.stage = "examined", UNCHANGED <<server, kept, fwd, back, complete>>,
         Followed # Unset \/ run.exists,
         run' = (IF Followed = Unset THEN Unset
                 ELSE IF run.top > Followed.uid THEN Unset
                 ELSE [run EXCEPT !.stage = "forwarded", !.fwd = Followed])
  PROVE  CInv'
<1>a. /\ CursorTypes /\ CursorsClaim /\ RunBegun /\ ForwardWalk /\ Forwarded
      /\ Backfilling /\ BackWalk /\ CompleteMeansAll
  BY DEF CInv
<1>1. \/ run' = Unset
      \/ /\ run' \in Runs /\ run'.stage = "forwarded" /\ run'.fwd = fwd /\ run'.top = run.top
         /\ run'.exists = run.exists /\ fwd # Unset /\ fwd.valid = validity /\ run.top <= fwd.uid
  <2>1. CASE run' = Unset
    BY <2>1
  <2>2. CASE Followed # Unset /\ ~(run.top > Followed.uid)
    <3>1. Followed = fwd /\ fwd # Unset /\ fwd.valid = validity /\ run.top <= fwd.uid
      BY <1>a, <2>2, Numbers DEF Followed, IsForward
    <3>2. run' = [run EXCEPT !.stage = "forwarded", !.fwd = fwd]
      BY <2>2, <3>1
    <3> QED  BY <1>a, <3>1, <3>2, Numbers DEF Runs
  <2> QED  BY <2>1, <2>2
<1>2. CursorTypes'
  BY <1>a, <1>1 DEF CursorTypes
<1>3. CursorsClaim'
  BY <1>a DEF CursorsClaim, ForwardClaim, BackClaim, Wanted
<1>4. RunBegun'
  BY <1>a DEF RunBegun
<1>5. ForwardWalk'
  BY <1>a DEF ForwardWalk, At
<1>6. Forwarded'
  <2>1. ASSUME run' # Unset PROVE \A u \in Wanted : fwd.base <= u => u \in kept
    <3>1. fwd # Unset /\ fwd.valid = validity /\ next - 1 <= fwd.uid
      BY <1>1, <1>a, <2>1 DEF RunBegun
    <3>2. \A u \in Wanted : u < next
      BY <1>a DEF CursorTypes, Wanted
    <3> QED  BY <1>a, <3>1, <3>2, Numbers DEF CursorsClaim, ForwardClaim, IsForward
  <2> QED  BY <1>1, <2>1 DEF Forwarded, At, Wanted
<1>7. Backfilling'
  BY <1>a DEF Backfilling, At
<1>8. BackWalk'
  BY <1>a DEF BackWalk, At
<1>9. CompleteMeansAll'
  BY <1>a DEF CompleteMeansAll, Since, Wanted
<1> QED  BY <1>2, <1>3, <1>4, <1>5, <1>6, <1>7, <1>8, <1>9 DEF CInv

LEMMA StartFollowingKeeps ==
  ASSUME CInv, run # Unset, run.stage = "examined", UNCHANGED <<server, kept, fwd, back, complete>>,
         Followed # Unset,
         run' = [Walk("forward", Above(Present, Followed.uid),
                      Oldest(Above(Present, Followed.uid), run.left)) EXCEPT !.fwd = Followed]
  PROVE  CInv'
<1>a. /\ CursorTypes /\ CursorsClaim /\ RunBegun /\ ForwardWalk /\ Forwarded
      /\ Backfilling /\ BackWalk /\ CompleteMeansAll
  BY DEF CInv
<1>1. fwd # Unset /\ fwd.valid = validity /\ Followed = fwd
  BY DEF Followed
<1>2. PICK c \in SUBSET Uid, found \in SUBSET Uid :
        /\ found = Above(alive, fwd.uid) /\ c \subseteq found /\ \A u \in found \ c, v \in c : v < u
        /\ run' = [Walk("forward", found, c) EXCEPT !.fwd = fwd]
  <2>1. Above(alive, fwd.uid) \in SUBSET Uid
    BY <1>a DEF Above, CursorTypes
  <2> QED  BY <1>1, <1>a, <2>1, Numbers, PresentIs, OldestIs
<1>3. /\ run' \in Runs /\ run'.stage = "forward" /\ run'.fwd = fwd /\ run'.top = run.top
      /\ run'.exists = run.exists /\ run'.uids = c /\ run'.more = (c # found)
  BY <1>1, <1>2, <1>a, Numbers, WalkIs DEF Runs
<1>4. \A u \in Wanted : fwd.base <= u => u \in kept \/ u \in found
  BY <1>1, <1>2, <1>a, Numbers DEF CursorsClaim, ForwardClaim, IsForward, Above, Wanted
<1>5. fwd.base <= next /\ \A u \in c : fwd.base <= u /\ fwd.uid < u /\ u < next
  BY <1>1, <1>2, <1>a, Numbers DEF CursorsClaim, IsForward, Above, CursorTypes
<1>6. c # found => \A u \in found \ c, v \in c : v < u
  BY <1>2
<1>7. CursorTypes'
  BY <1>a, <1>3 DEF CursorTypes
<1>8. CursorsClaim'
  BY <1>a DEF CursorsClaim, ForwardClaim, BackClaim, Wanted
<1>9. RunBegun'
  BY <1>a, <1>3 DEF RunBegun
<1>10. ForwardWalk'
  BY <1>1, <1>2, <1>3, <1>4, <1>5 DEF ForwardWalk, Ascends, Wanted
<1>11. Forwarded'
  BY <1>3 DEF Forwarded, At
<1>12. Backfilling'
  BY <1>3 DEF Backfilling, At
<1>13. BackWalk'
  BY <1>3 DEF BackWalk, At
<1>14. CompleteMeansAll'
  BY <1>a DEF CompleteMeansAll, Since, Wanted
<1> QED  BY <1>7, <1>8, <1>9, <1>10, <1>11, <1>12, <1>13, <1>14 DEF CInv

LEMMA StartFreshKeeps ==
  ASSUME CInv, run # Unset, run.stage = "examined", UNCHANGED <<server, store, complete>>,
         Followed = Unset, Newest(Present, run.left) # {},
         run' = [Walk("forward", Newest(Present, run.left), Newest(Present, run.left))
                   EXCEPT !.fwd = Forward(Min(Newest(Present, run.left)), 0)]
  PROVE  CInv'
<1>a. /\ CursorTypes /\ CursorsClaim /\ RunBegun /\ ForwardWalk /\ Forwarded
      /\ Backfilling /\ BackWalk /\ CompleteMeansAll
  BY DEF CInv
<1>1. PICK c \in SUBSET Uid, m \in Uid :
        /\ m \in c
        /\ c \subseteq alive /\ \A u \in c : m <= u
        /\ \A u \in alive \ c : u < m
        /\ run' = [Walk("forward", c, c) EXCEPT !.fwd = Forward(m, 0)]
  <2>1. alive \in SUBSET Uid
    BY <1>a DEF CursorTypes
  <2> QED  BY <1>a, <2>1, Numbers, PresentIs, NewestIs, MinIs
<1>2. m \in Nat \ {0} /\ m < next
  BY <1>1, <1>a DEF CursorTypes, Uid
<1>3. /\ run' \in Runs /\ run'.stage = "forward" /\ run'.top = run.top
      /\ run'.exists = run.exists /\ run'.uids = c /\ run'.more = FALSE
      /\ run'.fwd = Forward(m, 0)
  <2>1. LET r == Walk("forward", c, c) IN
        /\ r \in Runs /\ r.stage = "forward" /\ r.uids = c /\ r.more = (c # c)
        /\ r.top = run.top /\ r.exists = run.exists
    BY <1>a, WalkIs
  <2>2. Forward(m, 0) \in Forwards
    BY <1>2, <1>a, ForwardIs
  <2> QED  BY <1>1, <2>1, <2>2 DEF Runs
<1>4. /\ run'.fwd.valid = validity /\ run'.fwd.epoch = Epoch /\ run'.fwd.uid = 0
      /\ run'.fwd.base = m /\ run'.fwd # Unset
  BY <1>2, <1>3, <1>a, ForwardIs
<1>5. c \subseteq Int /\ c # {} /\ \A u \in c : u < next /\ 0 < u
  BY <1>1, <1>a DEF CursorTypes, Uid
<1>6. CursorTypes'
  BY <1>a, <1>3 DEF CursorTypes
<1>7. CursorsClaim'
  BY <1>a DEF CursorsClaim, ForwardClaim, BackClaim, Wanted
<1>8. RunBegun'
  BY <1>a, <1>3 DEF RunBegun
<1>9. ForwardWalk'
  BY <1>a, Numbers, <1>1, <1>3, <1>4, <1>5, EpochIs DEF ForwardWalk, Ascends, Wanted
<1>10. Forwarded'
  BY <1>3 DEF Forwarded, At
<1>11. Backfilling'
  BY <1>3 DEF Backfilling, At
<1>12. BackWalk'
  BY <1>3 DEF BackWalk, At
<1>13. CompleteMeansAll'
  BY <1>a DEF CompleteMeansAll, Since, Wanted
<1> QED  BY <1>6, <1>7, <1>8, <1>9, <1>10, <1>11, <1>12, <1>13 DEF CInv

LEMMA StartGoneKeeps ==
  ASSUME CInv, run # Unset, run.stage = "examined", UNCHANGED <<server, store>>,
         run.left > 0, Newest(Present, run.left) = {}, Completes
  PROVE  CInv'
<1>a. /\ CursorTypes /\ CursorsClaim /\ RunBegun /\ ForwardWalk /\ Forwarded
      /\ Backfilling /\ BackWalk /\ CompleteMeansAll
  BY DEF CInv
<1>1. alive = {}
  <2>1. alive \in SUBSET Uid
    BY <1>a DEF CursorTypes
  <2> QED  BY <1>a, <2>1, Numbers, PresentIs, NewestIs
<1>2. run' = Unset /\ complete' \in Reports
  BY <1>a, Numbers DEF Completes, Reports
<1>3. CursorTypes'
  BY <1>a, <1>2 DEF CursorTypes
<1>4. CursorsClaim'
  BY <1>a DEF CursorsClaim, ForwardClaim, BackClaim, Wanted
<1>5. RunBegun'
  BY <1>2 DEF RunBegun
<1>6. ForwardWalk'
  BY <1>2 DEF ForwardWalk, At
<1>7. Forwarded'
  BY <1>2 DEF Forwarded, At
<1>8. Backfilling'
  BY <1>2 DEF Backfilling, At
<1>9. BackWalk'
  BY <1>2 DEF BackWalk, At
<1>10. CompleteMeansAll'
  BY <1>1 DEF CompleteMeansAll, Between, Above, Since, Wanted
<1> QED  BY <1>3, <1>4, <1>5, <1>6, <1>7, <1>8, <1>9, <1>10 DEF CInv

LEMMA StartForwardKeeps ==
  ASSUME CInv, StartForward
  PROVE  CInv'
<1>1. run # Unset /\ run.stage = "examined" /\ UNCHANGED <<server, kept, back>>
  BY DEF StartForward
<1> QED
  BY <1>1, StartEmptyKeeps, StartNothingKeeps, StartFollowingKeeps, StartFreshKeeps,
     StartGoneKeeps DEF StartForward

LEMMA ForwardBatchKeeps ==
  ASSUME CInv, ForwardBatch
  PROVE  CInv'
<1>a. /\ CursorTypes /\ CursorsClaim /\ RunBegun /\ ForwardWalk /\ Forwarded
      /\ Backfilling /\ BackWalk /\ CompleteMeansAll
  BY DEF CInv
<1>1. run # Unset /\ run.stage = "forward" /\ UNCHANGED <<server, back, complete>>
  BY DEF ForwardBatch
<1>2. run.fwd # Unset /\ run.fwd \in Forwards /\ IsForward(run.fwd) /\ run \in Runs /\ run.uids \in SUBSET Uid
  BY <1>1, <1>a, Numbers DEF ForwardWalk, At
<1>3. PICK c \in SUBSET run.uids, m \in Uid :
        /\ m \in c
        /\ \A u \in run.uids : u <= m <=> u \in c
        /\ kept' = kept \cup Fetched(c) /\ fwd' = [run.fwd EXCEPT !.uid = m]
        /\ run' = [run EXCEPT !.uids = @ \ c, !.fwd = fwd']
  <2>1. PICK n \in 1..Cardinality(run.uids) :
    /\ kept' = kept \cup Fetched(Oldest(run.uids, n))
    /\ fwd' = [run.fwd EXCEPT !.uid = Max(Oldest(run.uids, n))]
    /\ run' = [run EXCEPT !.uids = @ \ Oldest(run.uids, n), !.fwd = fwd']
    BY DEF ForwardBatch
  <2> DEFINE c == Oldest(run.uids, n)  m == Max(c)
  <2>2. /\ c \in SUBSET run.uids /\ m \in c /\ m \in Uid
        /\ \A u \in run.uids : u <= m <=> u \in c
    BY <1>2, OldestBatch
  <2> HIDE DEF c, m
  <2>3. /\ kept' = kept \cup Fetched(c) /\ fwd' = [run.fwd EXCEPT !.uid = m]
        /\ run' = [run EXCEPT !.uids = @ \ c, !.fwd = fwd']
    BY <2>1 DEF c, m
  <2> QED  BY <2>2, <2>3
<1>4. m \in Nat /\ m \in run.uids
  BY <1>2, <1>3 DEF Uid
<1>5. /\ fwd' \in Forwards /\ fwd'.valid = validity /\ fwd'.epoch = run.fwd.epoch /\ fwd'.uid = m
      /\ fwd'.base = run.fwd.base /\ fwd' # Unset
  BY <1>1, <1>2, <1>3, <1>4, <1>a, UnsetAssumption DEF Forwards, ForwardWalk, At
<1>6. /\ run' \in Runs /\ run'.stage = "forward" /\ run'.fwd = fwd' /\ run'.top = run.top
      /\ run'.exists = run.exists /\ run'.uids = run.uids \ c /\ run'.more = run.more
  BY <1>1, <1>2, <1>3, <1>5 DEF Runs
<1>7. kept \subseteq kept' /\ kept' \subseteq Uid /\ \A u \in Wanted : u \in c => u \in kept'
  BY <1>2, <1>3, <1>a DEF Fetched, Wanted, CursorTypes
<1>8. /\ run.fwd.base <= next /\ m < next
      /\ run.fwd = fwd \/ fwd = Unset \/ fwd.epoch < run.fwd.epoch
      /\ \A u \in Wanted : run.fwd.base <= u => u \in kept \/ u \in run.uids
           \/ (run.more /\ m < u /\ \A v \in run.uids : v < u)
  BY <1>1, <1>4, <1>a DEF ForwardWalk, Ascends, At
<1>9. \A u \in run.uids : run.fwd.base <= u /\ run.fwd.uid < u /\ u < next /\ u \in Int
  BY <1>1, <1>2, <1>a DEF ForwardWalk, At, Uid
<1>10. /\ \A u \in Wanted : run.fwd.base <= u /\ u <= m => u \in kept'
       /\ \A u \in Wanted : run.fwd.base <= u => u \in kept' \/ u \in run'.uids
            \/ (run'.more /\ \A v \in run'.uids : v < u)
       /\ \A v \in run'.uids : m < v
       /\ Wanted' = Wanted
  BY <1>3, <1>4, <1>6, <1>7, <1>8, <1>9, <1>1, <1>a, Numbers DEF Wanted
<1>11. CursorTypes'
  BY <1>a, <1>1, <1>5, <1>6, <1>7 DEF CursorTypes
<1>12. CursorsClaim'
  BY <1>a, Numbers, <1>1, <1>2, <1>3, <1>5, <1>7, <1>8, <1>9
  DEF CursorsClaim, IsForward, IsBack, ForwardClaim, BackClaim, Wanted
<1>13. RunBegun'
  BY <1>a, <1>1, <1>3 DEF RunBegun
<1>14. ForwardWalk'
  <2>1. \A u \in run'.uids : run'.fwd.base <= u /\ run'.fwd.uid < u /\ u < next
    BY <1>5, <1>6, <1>9, <1>10
  <2>2. run'.fwd.valid = validity' /\ run'.fwd.base <= next' /\ run'.fwd # Unset
    BY <1>1, <1>5, <1>6, <1>8, <1>a DEF ForwardWalk, At, RunBegun
  <2>3. Ascends'
    BY <1>5, <1>6, <1>10 DEF Ascends
  <2> QED  BY <1>1, <1>5, <1>6, <2>1, <2>2, <2>3 DEF ForwardWalk, At
<1>15. Forwarded'
  BY <1>1, <1>3 DEF Forwarded, At
<1>16. Backfilling'
  BY <1>1, <1>3 DEF Backfilling, At
<1>17. BackWalk'
  BY <1>1, <1>3 DEF BackWalk, At
<1>18. CompleteMeansAll'
  BY <1>a, <1>1 DEF CompleteMeansAll, RunBegun
<1> QED  BY <1>11, <1>12, <1>13, <1>14, <1>15, <1>16, <1>17, <1>18 DEF CInv

LEMMA EndForwardKeeps ==
  ASSUME CInv, EndForward
  PROVE  CInv'
<1>a. /\ CursorTypes /\ CursorsClaim /\ RunBegun /\ ForwardWalk /\ Forwarded
      /\ Backfilling /\ BackWalk /\ CompleteMeansAll
  BY DEF CInv
<1>1. run # Unset /\ run.stage = "forward" /\ run.uids = {} /\ UNCHANGED <<server, store, complete>>
  BY DEF EndForward
<1>2. \/ run' = Unset
      \/ /\ run' \in Runs /\ run'.stage = "forwarded" /\ run'.fwd = run.fwd /\ run'.top = run.top
         /\ run'.exists = run.exists /\ ~run.more
  BY <1>1, <1>a, Numbers DEF EndForward, Runs
<1>3. /\ run.fwd = fwd /\ fwd # Unset /\ fwd.valid = validity
      /\ ~run.more => \A u \in Wanted : fwd.base <= u => u \in kept
  BY <1>1, <1>a DEF ForwardWalk, Ascends, At
<1>4. CursorTypes'
  BY <1>a, <1>1, <1>2 DEF CursorTypes
<1>5. CursorsClaim'
  BY <1>a, <1>1 DEF CursorsClaim, ForwardClaim, BackClaim, Wanted
<1>6. RunBegun'
  BY <1>a, <1>1, <1>2 DEF RunBegun
<1>7. ForwardWalk'
  BY <1>2 DEF ForwardWalk, At
<1>8. Forwarded'
  <2>1. Wanted' = Wanted
    BY <1>1 DEF Wanted
  <2>2. run' # Unset => run'.fwd = fwd /\ ~run.more
    BY <1>2, <1>3
  <2> QED  BY <1>1, <1>3, <2>1, <2>2 DEF Forwarded, At
<1>9. Backfilling'
  BY <1>2 DEF Backfilling, At
<1>10. BackWalk'
  BY <1>2 DEF BackWalk, At
<1>11. CompleteMeansAll'
  BY <1>a, <1>1 DEF CompleteMeansAll, Since, Wanted
<1> QED  BY <1>4, <1>5, <1>6, <1>7, <1>8, <1>9, <1>10, <1>11 DEF CInv

LEMMA NoBackfillKeeps ==
  ASSUME CInv, NoBackfill
  PROVE  CInv'
<1>a. /\ CursorTypes /\ CursorsClaim /\ RunBegun /\ ForwardWalk /\ Forwarded
      /\ Backfilling /\ BackWalk /\ CompleteMeansAll
  BY DEF CInv
<1>1. run # Unset /\ run' = Unset /\ UNCHANGED <<server, store>> /\ complete' \in Reports /\ complete'.since = 0
  BY <1>a, Numbers DEF NoBackfill, Completes, Reports
<1>2. \A u \in Wanted : fwd.base <= u => u \in kept
  BY <1>a DEF Forwarded, NoBackfill, At
<1>3. fwd.base \in Nat /\ Wanted' = Wanted
  BY <1>1, <1>a, Numbers DEF Forwarded, NoBackfill, At, IsForward, Wanted
<1>4. CursorTypes'
  BY <1>a, <1>1 DEF CursorTypes
<1>5. CursorsClaim'
  BY <1>a, <1>1 DEF CursorsClaim, ForwardClaim, BackClaim, Wanted
<1>6. RunBegun'
  BY <1>1 DEF RunBegun
<1>7. ForwardWalk'
  BY <1>1 DEF ForwardWalk, At
<1>8. Forwarded'
  BY <1>1 DEF Forwarded, At
<1>9. Backfilling'
  BY <1>1 DEF Backfilling, At
<1>10. BackWalk'
  BY <1>1 DEF BackWalk, At
<1>11. CompleteMeansAll'
  BY <1>a, Numbers, <1>1, <1>2, <1>3 DEF CompleteMeansAll, Between, Above
<1> QED  BY <1>4, <1>5, <1>6, <1>7, <1>8, <1>9, <1>10, <1>11 DEF CInv

\* The backfill cursor that a run starts from claims what is there.
LEMMA BackfilledIs ==
  ASSUME CInv, At({"forwarded"})
  PROVE  /\ Backfilled \in Backs /\ Follows(Backfilled, fwd) /\ Backfilled.low <= fwd.base
         /\ BackClaim(Backfilled, fwd)
<1>1. run # Unset /\ run.fwd = fwd /\ fwd # Unset /\ fwd.valid = validity /\ IsForward(fwd) /\ run.target \in Nat
  BY Numbers DEF CInv, Forwarded, At
<1> DEFINE fresh == [valid |-> run.fwd.valid, epoch |-> run.fwd.epoch, low |-> run.fwd.base,
                     since |-> run.target, wsince |-> 0, whigh |-> 0]
<1>2. CASE Backfilled = fresh
  <2>1. /\ fresh \in Backs /\ fresh.valid = fwd.valid /\ fresh.epoch = fwd.epoch
        /\ fresh.low = fwd.base /\ fresh.wsince = 0
    BY <1>1 DEF Backs, IsForward
  <2> HIDE DEF fresh
  <2>2. BackClaim(fresh, fwd)
    BY <2>1, <1>1, Numbers DEF BackClaim, IsForward, CInv
  <2> QED  BY <1>1, <1>2, <2>1, <2>2 DEF Follows, IsForward
<1>3. CASE Backfilled = back /\ back # Unset /\ back.epoch = fwd.epoch
  <2>1. back \in Backs
    BY <1>3, Numbers DEF CInv
  <2> QED  BY <1>1, <1>3, <2>1 DEF CInv, CursorsClaim, Follows
<1>4. Backfilled = fresh \/ (Backfilled = back /\ back # Unset /\ back.epoch = fwd.epoch)
  BY <1>1 DEF Backfilled
<1> QED  BY <1>2, <1>3, <1>4

LEMMA WidenedIs ==
  ASSUME CInv, At({"forwarded"}), run.target > 0
  PROVE  LET b == Widened(Backfilled) IN
         /\ b \in Backs /\ Follows(b, fwd) /\ b.low <= fwd.base /\ BackClaim(b, fwd)
         /\ b.low = Backfilled.low /\ b.since = Backfilled.since
         /\ b.wsince = run.target /\ b.whigh <= fwd.base
<1> DEFINE b == Backfilled
<1>1. /\ run.target \in Nat /\ run.fwd = fwd /\ fwd.base \in Nat
  BY Numbers DEF CInv, Forwarded, At, IsForward
<1>2. b \in Backs /\ Follows(b, fwd) /\ b.low <= fwd.base /\ BackClaim(b, fwd)
  BY BackfilledIs
<1> HIDE DEF b
<1>3. CASE Widened(b) = b /\ b.wsince = run.target /\ b.whigh \in b.low..fwd.base
  BY <1>1, <1>2, <1>3 DEF b, Backs
<1>4. CASE Widened(b) = [b EXCEPT !.wsince = run.target, !.whigh = fwd.base]
  <2>1. /\ Widened(b) \in Backs /\ Widened(b).low = b.low /\ Widened(b).since = b.since
        /\ Widened(b).wsince = run.target /\ Widened(b).whigh = fwd.base
        /\ Widened(b).valid = b.valid /\ Widened(b).epoch = b.epoch
    BY <1>1, <1>2, <1>4 DEF Backs
  <2>2. Follows(Widened(b), fwd) /\ Widened(b).low <= fwd.base /\ Widened(b).whigh <= fwd.base
    BY <1>1, <1>2, <2>1 DEF Follows
  <2>3. BackClaim(Widened(b), fwd)
    BY <1>1, <1>2, <2>1, Numbers DEF BackClaim, CInv
  <2> QED  BY <2>1, <2>2, <2>3 DEF b
<1>5. \/ Widened(b) = b /\ b.wsince = run.target /\ b.whigh \in b.low..fwd.base
      \/ Widened(b) = [b EXCEPT !.wsince = run.target, !.whigh = fwd.base]
  BY <1>1 DEF Widened
<1> QED  BY <1>3, <1>4, <1>5 DEF b

LEMMA WidenKeeps ==
  ASSUME CInv, Widen
  PROVE  CInv'
<1>a. /\ CursorTypes /\ CursorsClaim /\ RunBegun /\ ForwardWalk /\ Forwarded
      /\ Backfilling /\ BackWalk /\ CompleteMeansAll
  BY DEF CInv
<1>1. /\ run # Unset /\ At({"forwarded"}) /\ run.target > 0 /\ UNCHANGED <<server, store, complete>>
  BY DEF Widen, At
<1>2. PICK b \in Backs :
        /\ b = Widened(Backfilled) /\ Follows(b, fwd) /\ b.low <= fwd.base /\ BackClaim(b, fwd)
        /\ b.wsince = run.target /\ b.whigh <= fwd.base
  BY <1>1, WidenedIs
<1>3. PICK c \in SUBSET Uid, found \in SUBSET alive :
        /\ c \subseteq found /\ \A u \in found \ c, v \in c : u < v
        /\ found = LET days == Since(Above(Below(alive, b.whigh), b.low - 1), run.target) IN
                   IF b.since = 0 THEN days ELSE Before(days, b.since)
        /\ run' = [Walk("widen", found, c) EXCEPT !.back = b]
  <2> DEFINE days == Since(Above(Below(alive, b.whigh), b.low - 1), run.target)
             found == IF b.since = 0 THEN days ELSE Before(days, b.since)
  <2>1. found \in SUBSET alive /\ found \in SUBSET Uid
    BY <1>a DEF Above, Below, Since, Before, CursorTypes
  <2>2. run' = [Walk("widen", found, Newest(found, run.left)) EXCEPT !.back = b]
    BY <1>1, <1>2, <1>a, PresentIs DEF Widen
  <2> HIDE DEF found
  <2> QED  BY <1>1, <1>a, <2>1, <2>2, Numbers, NewestIs DEF found
<1>4. /\ run' \in Runs /\ run'.stage = "widen" /\ run'.fwd = run.fwd /\ run'.top = run.top
      /\ run'.exists = run.exists /\ run'.target = run.target /\ run'.uids = c
      /\ run'.more = (c # found) /\ run'.back = b /\ b # Unset
  <2>1. LET r == Walk("widen", found, c) IN
        /\ r \in Runs /\ r.stage = "widen" /\ r.uids = c /\ r.more = (c # found) /\ r.fwd = run.fwd
        /\ r.top = run.top /\ r.exists = run.exists /\ r.target = run.target
    BY <1>1, <1>3, <1>a, WalkIs DEF CursorTypes
  <2>2. b # Unset
    BY <1>2, UnsetAssumption
  <2> QED  BY <1>2, <1>3, <2>1, <2>2 DEF Runs
<1>5. IsBack(b) /\ IsForward(fwd) /\ fwd # Unset /\ fwd.valid = validity /\ run.fwd = fwd
  BY <1>1, <1>2, <1>a, Numbers DEF IsBack, Backs, Forwarded, At
<1>6. \A u \in alive : u \in found <=>
        /\ b.low <= u /\ u < b.whigh /\ day[u] >= run.target
        /\ b.since = 0 \/ day[u] < b.since
  BY <1>1, <1>3, <1>5, <1>a, Numbers DEF Above, Below, Since, Before, IsBack
<1>7. \A u \in Wanted : b.low <= u /\ u < b.whigh /\ day[u] >= run.target => u \in kept \/ u \in found
  BY <1>2, <1>5, <1>6, <1>a, Numbers DEF BackClaim, IsBack, IsForward
<1>8. CursorTypes'
  BY <1>a, <1>1, <1>4 DEF CursorTypes
<1>9. CursorsClaim'
  BY <1>a, <1>1 DEF CursorsClaim, ForwardClaim, BackClaim, Wanted
<1>10. RunBegun'
  BY <1>a, <1>1, <1>4 DEF RunBegun
<1>11. ForwardWalk'
  BY <1>4 DEF ForwardWalk, At
<1>12. Forwarded'
  BY <1>a, <1>1, <1>4 DEF Forwarded, At, Wanted
<1>13. Backfilling'
  BY <1>1, <1>2, <1>4 DEF Backfilling, BackClaim, Wanted
<1>14. BackWalk'
  BY <1>1, <1>2, <1>3, <1>4, <1>6, <1>7 DEF BackWalk, Descends, At, Wanted
<1>15. CompleteMeansAll'
  BY <1>a, <1>1 DEF CompleteMeansAll, Since, Wanted
<1> QED  BY <1>8, <1>9, <1>10, <1>11, <1>12, <1>13, <1>14, <1>15 DEF CInv

LEMMA WidenBatchKeeps ==
  ASSUME CInv, WidenBatch
  PROVE  CInv'
<1>a. /\ CursorTypes /\ CursorsClaim /\ RunBegun /\ ForwardWalk /\ Forwarded
      /\ Backfilling /\ BackWalk /\ CompleteMeansAll
  BY DEF CInv
<1>1. /\ run # Unset /\ run.stage = "widen" /\ UNCHANGED <<server, fwd, complete>>
      /\ run.fwd = fwd /\ fwd # Unset /\ fwd.valid = validity /\ IsForward(fwd)
  BY <1>a, Numbers DEF WidenBatch, Forwarded, At
<1>2. run.back \in Backs /\ IsBack(run.back) /\ run \in Runs /\ run.uids \in SUBSET Uid
  BY <1>1, <1>a, Numbers DEF Backfilling, At
<1>3. PICK c \in SUBSET run.uids, m \in Uid :
        /\ m \in c
        /\ \A u \in run.uids : m <= u <=> u \in c
        /\ kept' = kept \cup Fetched(c) /\ back' = [run.back EXCEPT !.whigh = m]
        /\ run' = [run EXCEPT !.uids = @ \ c, !.back = back']
  <2>1. PICK n \in 1..Cardinality(run.uids) :
    /\ kept' = kept \cup Fetched(Newest(run.uids, n))
    /\ back' = [run.back EXCEPT !.whigh = Min(Newest(run.uids, n))]
    /\ run' = [run EXCEPT !.uids = @ \ Newest(run.uids, n), !.back = back']
    BY DEF WidenBatch
  <2> DEFINE c == Newest(run.uids, n)  m == Min(c)
  <2>2. /\ c \in SUBSET run.uids /\ m \in c /\ m \in Uid
        /\ \A u \in run.uids : m <= u <=> u \in c
    BY <1>2, NewestBatch
  <2> HIDE DEF c, m
  <2>3. /\ kept' = kept \cup Fetched(c) /\ back' = [run.back EXCEPT !.whigh = m]
        /\ run' = [run EXCEPT !.uids = @ \ c, !.back = back']
    BY <2>1 DEF c, m
  <2> QED  BY <2>2, <2>3
<1>4. m \in Nat /\ m \in run.uids
  BY <1>2, <1>3 DEF Uid
<1>5. /\ back' \in Backs /\ Follows(back', fwd) /\ back'.low = run.back.low /\ back'.since = run.back.since
      /\ back'.wsince = run.target /\ back'.whigh = m /\ back' # Unset /\ back'.low <= fwd.base
      /\ back'.valid = fwd.valid /\ back'.epoch = fwd.epoch
  BY <1>1, <1>2, <1>3, <1>4, <1>a, UnsetAssumption DEF Backs, Backfilling, BackWalk, At, Follows
<1>6. /\ run' \in Runs /\ run'.stage = "widen" /\ run'.fwd = fwd /\ run'.top = run.top
      /\ run'.exists = run.exists /\ run'.uids = run.uids \ c /\ run'.more = run.more
      /\ run'.target = run.target /\ run'.back = back'
  BY <1>1, <1>2, <1>3, <1>5 DEF Runs
<1>7. kept \subseteq kept' /\ kept' \subseteq Uid /\ \A u \in Wanted : u \in c => u \in kept'
  BY <1>2, <1>3, <1>a DEF Fetched, Wanted, CursorTypes
<1>8. /\ \A u \in run.uids : u \in Int /\ run.back.low <= u /\ u < run.back.whigh
      /\ run.target > 0 /\ BackClaim(run.back, fwd) /\ run.back.wsince = run.target
      /\ Descends(run.back.low, run.back.whigh)
  BY <1>1, <1>2, <1>a DEF BackWalk, Backfilling, At, Uid
<1>9. Wanted' = Wanted
  BY <1>1 DEF Wanted
<1>10. BackClaim(back, fwd)'
  <2> SUFFICES ASSUME NEW u \in Wanted, u < fwd.base,
                      \/ back'.low <= u /\ day[u] >= back'.since
                      \/ back'.wsince # 0 /\ m <= u /\ day[u] >= run.target
               PROVE  u \in kept'
    BY <1>1, <1>5, <1>7, <1>9 DEF BackClaim
  <2> u \in Int /\ day[u] \in Int
    BY <1>a, Numbers
  <2>1. CASE back'.low <= u /\ day[u] >= back'.since
    BY <1>5, <1>7, <1>8, <2>1 DEF BackClaim
  <2>2. CASE m <= u /\ day[u] >= run.target
    <3>1. CASE run.back.whigh <= u
      BY <1>2, <1>7, <1>8, <2>2, <3>1 DEF BackClaim, IsBack
    <3>2. CASE u < run.back.whigh
      <4>1. run.back.low <= u
        BY <1>2, <1>4, <1>8, <2>2 DEF IsBack
      <4>2. u \in kept \cup run.uids
        BY <1>4, <1>8, <2>2, <3>2, <4>1 DEF Descends
      <4> QED  BY <1>3, <1>7, <2>2, <4>2
    <3> QED  BY <1>2, <3>1, <3>2 DEF IsBack
  <2> QED  BY <2>1, <2>2
<1>11. /\ \A u \in run'.uids : run.back.low <= u /\ u < m
       /\ \A u \in Wanted : run.back.low <= u /\ u < m /\ day[u] >= run.target =>
            u \in kept' \cup run'.uids \/ (run.more /\ \A v \in run'.uids : u < v)
  <2>1. \A u \in run'.uids : run.back.low <= u /\ u < m
    BY <1>3, <1>4, <1>6, <1>8
  <2>2. ASSUME NEW u \in Wanted, run.back.low <= u, u < m, day[u] >= run.target
        PROVE  u \in kept' \cup run'.uids \/ (run.more /\ \A v \in run'.uids : u < v)
    <3>1. u < run.back.whigh /\ u \in Int
      BY <1>2, <1>4, <1>8, <1>a, <2>2, Numbers DEF IsBack
    <3>2. u \in kept \cup run.uids \/ (run.more /\ \A v \in run.uids : u < v)
      BY <1>8, <2>2, <3>1 DEF Descends
    <3> QED  BY <1>6, <1>7, <3>2
  <2> QED  BY <2>1, <2>2
<1>12. CursorTypes'
  BY <1>a, <1>1, <1>5, <1>6, <1>7 DEF CursorTypes
<1>13. CursorsClaim'
  BY <1>1, <1>5, <1>7, <1>9, <1>10, <1>a, Numbers DEF CursorsClaim, ForwardClaim, IsForward
<1>14. RunBegun'
  BY <1>a, <1>1, <1>3 DEF RunBegun
<1>15. ForwardWalk'
  BY <1>1, <1>3 DEF ForwardWalk, At
<1>16. Forwarded'
  BY <1>a, <1>1, <1>3 DEF Forwarded, At, Wanted
<1>17. Backfilling'
  BY <1>1, <1>5, <1>6, <1>8, <1>10 DEF Backfilling, At, Follows, BackClaim
<1>18. BackWalk'
  BY <1>1, <1>5, <1>6, <1>9, <1>11 DEF BackWalk, At, Descends
<1>19. CompleteMeansAll'
  BY <1>a, <1>1 DEF CompleteMeansAll, RunBegun
<1> QED  BY <1>12, <1>13, <1>14, <1>15, <1>16, <1>17, <1>18, <1>19 DEF CInv

LEMMA EndWidenKeeps ==
  ASSUME CInv, EndWiden
  PROVE  CInv'
<1>a. /\ CursorTypes /\ CursorsClaim /\ RunBegun /\ ForwardWalk /\ Forwarded
      /\ Backfilling /\ BackWalk /\ CompleteMeansAll
  BY DEF CInv
<1>1. /\ run # Unset /\ run.stage = "widen" /\ run.uids = {} /\ UNCHANGED <<server, kept, fwd, complete>>
      /\ run.fwd = fwd /\ fwd # Unset /\ fwd.valid = validity /\ IsForward(fwd)
  BY <1>a, Numbers DEF EndWiden, Forwarded, At
<1>2. run.back \in Backs /\ IsBack(run.back) /\ run \in Runs /\ run.target \in Nat
  BY <1>1, <1>a, Numbers DEF Backfilling, At
<1>3. /\ run.target > 0 /\ BackClaim(run.back, fwd) /\ run.back.wsince = run.target
      /\ Descends(run.back.low, run.back.whigh) /\ Follows(run.back, fwd) /\ run.back.low <= fwd.base
  BY <1>1, <1>a DEF BackWalk, Backfilling, At
<1>4. \/ run' = Unset /\ back' = back
      \/ /\ back' = [run.back EXCEPT !.since = run.target, !.wsince = 0, !.whigh = 0]
         /\ run' = [run EXCEPT !.stage = "widened", !.back = back'] /\ ~run.more
  BY <1>2, Numbers DEF EndWiden
<1>5. ASSUME back' # back \/ run' # Unset
      PROVE  /\ back' \in Backs /\ back'.low = run.back.low /\ back'.since = run.target /\ back'.wsince = 0
             /\ back'.valid = fwd.valid /\ back'.epoch = fwd.epoch /\ back' # Unset
             /\ run' \in Runs /\ run'.stage = "widened" /\ run'.back = back' /\ run'.fwd = fwd
             /\ run'.top = run.top /\ run'.exists = run.exists /\ run'.target = run.target
  <2>1. /\ back' = [run.back EXCEPT !.since = run.target, !.wsince = 0, !.whigh = 0]
        /\ run' = [run EXCEPT !.stage = "widened", !.back = back']
    BY <1>4, <1>5
  <2>2. /\ back' \in Backs /\ back'.low = run.back.low /\ back'.since = run.target /\ back'.wsince = 0
        /\ back'.valid = run.back.valid /\ back'.epoch = run.back.epoch
    BY <1>2, <2>1 DEF Backs
  <2>3. /\ run' \in Runs /\ run'.stage = "widened" /\ run'.back = back' /\ run'.fwd = fwd
        /\ run'.top = run.top /\ run'.exists = run.exists /\ run'.target = run.target
    BY <1>1, <1>2, <2>1, <2>2 DEF Runs
  <2> QED  BY <1>3, <2>2, <2>3, UnsetAssumption DEF Follows
<1>6. ASSUME back' # back \/ run' # Unset
      PROVE  BackClaim(back, fwd)'
  <2>1. ASSUME NEW u \in Wanted, u < fwd.base, run.back.low <= u, day[u] >= run.target
        PROVE  u \in kept
    <3> u \in Int /\ run.back.whigh \in Int
      BY <1>2, <1>a, Numbers DEF IsBack
    <3>1. CASE run.back.whigh <= u
      BY <1>2, <1>3, <2>1, <3>1 DEF BackClaim, IsBack
    <3>2. CASE u < run.back.whigh
      BY <1>1, <1>3, <1>4, <1>6, <2>1, <3>2 DEF Descends
    <3> QED  BY <3>1, <3>2
  <2>2. Wanted' = Wanted
    BY <1>1 DEF Wanted
  <2>3. /\ back'.low = run.back.low /\ back'.since = run.target /\ back'.wsince = 0
        /\ fwd' = fwd /\ kept' = kept /\ day' = day
    BY <1>1, <1>5, <1>6
  <2> QED  BY <2>1, <2>2, <2>3 DEF BackClaim
<1>7. CursorTypes'
  BY <1>a, <1>1, <1>5 DEF CursorTypes
<1>8. CursorsClaim'
  BY <1>a, <1>1, <1>3, <1>5, <1>6 DEF CursorsClaim, IsForward, ForwardClaim, BackClaim, Wanted
<1>9. RunBegun'
  BY <1>a, <1>1, <1>5 DEF RunBegun
<1>10. ForwardWalk'
  BY <1>5 DEF ForwardWalk, At
<1>11. Forwarded'
  BY <1>a, <1>1, <1>5 DEF Forwarded, At, Wanted
<1>12. Backfilling'
  BY <1>a, <1>1, <1>5, <1>6 DEF Backfilling, At, Follows
<1>13. BackWalk'
  BY <1>a, Numbers, <1>1, <1>5 DEF BackWalk, At
<1>14. CompleteMeansAll'
  BY <1>a, <1>1 DEF CompleteMeansAll, Since, Wanted
<1> QED  BY <1>7, <1>8, <1>9, <1>10, <1>11, <1>12, <1>13, <1>14 DEF CInv

\* Where the extension starts from.
LEMMA ExtendFrom ==
  ASSUME CInv, Extend
  PROVE  \E b \in Backs :
           /\ Follows(b, fwd) /\ b.low <= fwd.base /\ BackClaim(b, fwd) /\ b.since <= run.target
           /\ run' = [Walk("extend", Since(Below(Present, b.low), run.target),
                           Newest(Since(Below(Present, b.low), run.target), run.left))
                        EXCEPT !.back = b]
<1>1. CASE run.stage = "widened"
  <2>1. /\ run.back \in Backs /\ Follows(run.back, fwd)
        /\ run.back.low <= fwd.base /\ BackClaim(run.back, fwd)
        /\ run.back.since <= run.target
    BY <1>1, Numbers DEF Extend, CInv, Backfilling, BackWalk, At
  <2> QED  BY <1>1, <2>1 DEF Extend
<1>2. CASE run.stage = "forwarded"
  <2>1. At({"forwarded"})
    BY <1>2 DEF Extend, At
  <2> QED  BY <1>2, <2>1, BackfilledIs DEF Extend
<1> QED  BY <1>1, <1>2 DEF Extend

LEMMA ExtendKeeps ==
  ASSUME CInv, Extend
  PROVE  CInv'
<1>a. /\ CursorTypes /\ CursorsClaim /\ RunBegun /\ ForwardWalk /\ Forwarded
      /\ Backfilling /\ BackWalk /\ CompleteMeansAll
  BY DEF CInv
<1>1. /\ run # Unset /\ run.stage \in {"widened", "forwarded"} /\ run.target > 0
      /\ UNCHANGED <<server, store, complete>>
  BY DEF Extend
<1>2. run.fwd = fwd /\ fwd # Unset /\ fwd.valid = validity /\ IsForward(fwd)
  BY <1>1, <1>a, Numbers DEF Forwarded, At
<1>3. PICK b \in Backs :
        /\ Follows(b, fwd) /\ b.low <= fwd.base /\ BackClaim(b, fwd) /\ b.since <= run.target
        /\ run' = [Walk("extend", Since(Below(alive, b.low), run.target),
                        Newest(Since(Below(alive, b.low), run.target), run.left)) EXCEPT !.back = b]
  BY <1>1, <1>a, PresentIs, ExtendFrom
<1>4. PICK c \in SUBSET Uid, found \in SUBSET Uid :
        /\ c \subseteq found /\ \A u \in found \ c, v \in c : u < v
        /\ found = Since(Below(alive, b.low), run.target)
        /\ run' = [Walk("extend", found, c) EXCEPT !.back = b]
  <2>1. Since(Below(alive, b.low), run.target) \in SUBSET Uid
    BY <1>a DEF Below, Since, CursorTypes
  <2> QED  BY <1>1, <1>3, <1>a, <2>1, Numbers, NewestIs
<1>5. /\ run' \in Runs /\ run'.stage = "extend" /\ run'.fwd = fwd /\ run'.top = run.top
      /\ run'.exists = run.exists /\ run'.target = run.target /\ run'.uids = c
      /\ run'.more = (c # found) /\ run'.back = b /\ b # Unset
  <2>1. LET r == Walk("extend", found, c) IN
        /\ r \in Runs /\ r.stage = "extend" /\ r.uids = c /\ r.more = (c # found) /\ r.fwd = run.fwd
        /\ r.top = run.top /\ r.exists = run.exists /\ r.target = run.target
    BY <1>1, <1>4, <1>a, WalkIs
  <2> QED  BY <1>2, <1>4, <2>1, UnsetAssumption DEF Runs
<1>6. \A u \in alive : u \in found <=> u < b.low /\ day[u] >= run.target
  BY <1>4 DEF Since, Below
<1>7. c \subseteq Int /\ \A u \in c : u < b.low
  BY <1>4, <1>6 DEF Since, Below, Uid
<1>8. CursorTypes'
  BY <1>a, <1>1, <1>5 DEF CursorTypes
<1>9. CursorsClaim'
  BY <1>a, <1>1 DEF CursorsClaim, ForwardClaim, BackClaim, Wanted
<1>10. RunBegun'
  BY <1>a, <1>1, <1>5 DEF RunBegun
<1>11. ForwardWalk'
  BY <1>5 DEF ForwardWalk, At
<1>12. Forwarded'
  BY <1>a, <1>1, <1>5 DEF Forwarded, At, Wanted
<1>13. Backfilling'
  BY <1>1, <1>3, <1>5 DEF Backfilling, BackClaim, Wanted
<1>14. BackWalk'
  BY <1>1, <1>3, <1>4, <1>5, <1>6, <1>7 DEF BackWalk, Descends, At, Wanted
<1>15. CompleteMeansAll'
  BY <1>a, <1>1 DEF CompleteMeansAll, Since, Wanted
<1> QED  BY <1>8, <1>9, <1>10, <1>11, <1>12, <1>13, <1>14, <1>15 DEF CInv

LEMMA ExtendBatchKeeps ==
  ASSUME CInv, ExtendBatch
  PROVE  CInv'
<1>a. /\ CursorTypes /\ CursorsClaim /\ RunBegun /\ ForwardWalk /\ Forwarded
      /\ Backfilling /\ BackWalk /\ CompleteMeansAll
  BY DEF CInv
<1>1. /\ run # Unset /\ run.stage = "extend" /\ UNCHANGED <<server, fwd, complete>>
      /\ run.fwd = fwd /\ fwd # Unset /\ fwd.valid = validity /\ IsForward(fwd) /\ run.target \in Nat
  BY <1>a, Numbers DEF ExtendBatch, Forwarded, At
<1>2. run.back \in Backs /\ IsBack(run.back) /\ run \in Runs /\ run.uids \in SUBSET Uid
  BY <1>1, <1>a, Numbers DEF Backfilling, At
<1>3. PICK c \in SUBSET run.uids, m \in Uid :
        /\ m \in c
        /\ \A u \in run.uids : m <= u <=> u \in c
        /\ kept' = kept \cup Fetched(c) /\ back' = [run.back EXCEPT !.low = m, !.since = Covers(run.back)]
        /\ run' = [run EXCEPT !.uids = @ \ c, !.back = back']
  <2>1. PICK n \in 1..Cardinality(run.uids) :
    /\ kept' = kept \cup Fetched(Newest(run.uids, n))
    /\ back' = [run.back EXCEPT !.low = Min(Newest(run.uids, n)), !.since = Covers(run.back)]
    /\ run' = [run EXCEPT !.uids = @ \ Newest(run.uids, n), !.back = back']
    BY DEF ExtendBatch
  <2> DEFINE c == Newest(run.uids, n)  m == Min(c)
  <2>2. /\ c \in SUBSET run.uids /\ m \in c /\ m \in Uid
        /\ \A u \in run.uids : m <= u <=> u \in c
    BY <1>2, NewestBatch
  <2> HIDE DEF c, m
  <2>3. /\ kept' = kept \cup Fetched(c)
        /\ back' = [run.back EXCEPT !.low = m, !.since = Covers(run.back)]
        /\ run' = [run EXCEPT !.uids = @ \ c, !.back = back']
    BY <2>1 DEF c, m
  <2> QED  BY <2>2, <2>3
<1>4. /\ m \in Nat /\ m \in run.uids
      /\ Covers(run.back) \in Nat /\ Covers(run.back) >= run.back.since /\ Covers(run.back) >= run.target
  BY <1>1, <1>2, <1>3 DEF Uid, Covers, Larger, IsBack
<1>5. /\ \A u \in run.uids : u \in Int /\ u < run.back.low
      /\ run.target > 0 /\ BackClaim(run.back, fwd) /\ run.back.low <= fwd.base
      /\ Descends(0, run.back.low) /\ Follows(run.back, fwd)
  BY <1>1, <1>2, <1>a DEF BackWalk, Backfilling, At, Uid
<1>6. /\ back' \in Backs /\ back'.low = m /\ back'.since = Covers(run.back)
      /\ back'.wsince = run.back.wsince /\ back'.whigh = run.back.whigh /\ back' # Unset
      /\ back'.low <= fwd.base /\ back'.valid = fwd.valid /\ back'.epoch = fwd.epoch
  <2>1. /\ back' \in Backs /\ back'.low = m /\ back'.since = Covers(run.back)
        /\ back'.wsince = run.back.wsince /\ back'.whigh = run.back.whigh
        /\ back'.valid = run.back.valid /\ back'.epoch = run.back.epoch
    BY <1>2, <1>3, <1>4 DEF Backs
  <2> QED  BY <1>1, <1>2, <1>4, <1>5, <2>1, UnsetAssumption DEF Follows, IsBack, IsForward
<1>7. /\ run' \in Runs /\ run'.stage = "extend" /\ run'.fwd = fwd /\ run'.top = run.top
      /\ run'.exists = run.exists /\ run'.uids = run.uids \ c /\ run'.more = run.more
      /\ run'.target = run.target /\ run'.back = back'
  BY <1>1, <1>2, <1>3, <1>6 DEF Runs
<1>8. /\ kept \subseteq kept' /\ kept' \subseteq Uid /\ \A u \in Wanted : u \in c => u \in kept'
      /\ Wanted' = Wanted
  BY <1>1, <1>2, <1>3, <1>a DEF Fetched, Wanted, CursorTypes
<1>9. BackClaim(back, fwd)'
  <2> SUFFICES ASSUME NEW u \in Wanted, u < fwd.base,
                      \/ m <= u /\ day[u] >= Covers(run.back)
                      \/ run.back.wsince # 0 /\ run.back.whigh <= u /\ day[u] >= run.back.wsince
               PROVE  u \in kept'
    BY <1>1, <1>6, <1>8 DEF BackClaim
  <2> u \in Int /\ day[u] \in Int
    BY <1>a, Numbers
  <2>1. CASE run.back.wsince # 0 /\ run.back.whigh <= u /\ day[u] >= run.back.wsince
    BY <1>5, <1>8, <2>1 DEF BackClaim
  <2>2. CASE m <= u /\ day[u] >= Covers(run.back)
    <3>1. CASE run.back.low <= u
      BY <1>2, <1>4, <1>5, <1>8, <2>2, <3>1 DEF BackClaim, IsBack
    <3>2. CASE u < run.back.low
      <4>1. 0 <= u /\ day[u] >= run.target
        BY <1>1, <1>4, <2>2
      <4>2. u \in kept \cup run.uids
        BY <1>4, <1>5, <2>2, <3>2, <4>1 DEF Descends
      <4> QED  BY <1>3, <1>8, <2>2, <4>2
    <3> QED  BY <1>2, <3>1, <3>2 DEF IsBack
  <2> QED  BY <2>1, <2>2
<1>10. /\ \A u \in run'.uids : u < m
       /\ \A u \in Wanted : 0 <= u /\ u < m /\ day[u] >= run.target =>
            u \in kept' \cup run'.uids \/ (run.more /\ \A v \in run'.uids : u < v)
  <2>1. \A u \in run'.uids : u < m
    BY <1>3, <1>4, <1>5, <1>7
  <2>2. ASSUME NEW u \in Wanted, 0 <= u, u < m, day[u] >= run.target
        PROVE  u \in kept' \cup run'.uids \/ (run.more /\ \A v \in run'.uids : u < v)
    <3>1. u < run.back.low /\ u \in Int
      BY <1>2, <1>4, <1>5, <1>a, <2>2, Numbers DEF IsBack
    <3>2. u \in kept \cup run.uids \/ (run.more /\ \A v \in run.uids : u < v)
      BY <1>5, <2>2, <3>1 DEF Descends
    <3> QED  BY <1>7, <1>8, <3>2
  <2> QED  BY <2>1, <2>2
<1>11. Covers(run.back) <= run.target
  <2>1. run.back.since <= run.target
    BY <1>1, <1>a DEF BackWalk, At
  <2> QED  BY <1>1, <1>2, <2>1 DEF Covers, Larger, IsBack
<1>12. CursorTypes'
  BY <1>a, <1>1, <1>6, <1>7, <1>8 DEF CursorTypes
<1>13. CursorsClaim'
  BY <1>1, <1>6, <1>8, <1>9, <1>a, Numbers DEF CursorsClaim, ForwardClaim, IsForward
<1>14. RunBegun'
  BY <1>a, <1>1, <1>3 DEF RunBegun
<1>15. ForwardWalk'
  BY <1>1, <1>3 DEF ForwardWalk, At
<1>16. Forwarded'
  BY <1>a, <1>1, <1>3 DEF Forwarded, At, Wanted
<1>17. Backfilling'
  BY <1>1, <1>5, <1>6, <1>7, <1>9 DEF Backfilling, At, Follows, BackClaim
<1>18. BackWalk'
  BY <1>1, <1>6, <1>7, <1>8, <1>10, <1>11 DEF BackWalk, At, Descends
<1>19. CompleteMeansAll'
  BY <1>a, <1>1 DEF CompleteMeansAll, RunBegun
<1> QED  BY <1>12, <1>13, <1>14, <1>15, <1>16, <1>17, <1>18, <1>19 DEF CInv

LEMMA EndExtendKeeps ==
  ASSUME CInv, EndExtend
  PROVE  CInv'
<1>a. /\ CursorTypes /\ CursorsClaim /\ RunBegun /\ ForwardWalk /\ Forwarded
      /\ Backfilling /\ BackWalk /\ CompleteMeansAll
  BY DEF CInv
<1>1. /\ run # Unset /\ run.stage = "extend" /\ run.uids = {} /\ run' = Unset
      /\ UNCHANGED <<server, kept, fwd>>
      /\ run.fwd = fwd /\ fwd # Unset /\ fwd.valid = validity /\ IsForward(fwd) /\ run.target \in Nat
  BY <1>a, Numbers DEF EndExtend, Completes, Forwarded, At
<1>2. run.back \in Backs /\ IsBack(run.back)
  BY <1>1, <1>a, Numbers DEF Backfilling, At
<1>3. /\ run.target > 0 /\ BackClaim(run.back, fwd) /\ run.back.low <= fwd.base
      /\ Descends(0, run.back.low) /\ Follows(run.back, fwd)
      /\ run.back.since <= run.target
      /\ \A u \in Wanted : fwd.base <= u => u \in kept
  BY <1>1, <1>a DEF BackWalk, Backfilling, Forwarded, At
<1>4. /\ Covers(run.back) \in Nat /\ Covers(run.back) >= run.back.since /\ Covers(run.back) >= run.target
      /\ Covers(run.back) \in {run.back.since, run.target}
  BY <1>1, <1>2 DEF Covers, Larger, IsBack
<1>5. \/ UNCHANGED <<back, complete>>
      \/ /\ back' = [run.back EXCEPT !.low = 1, !.since = Covers(run.back)] /\ ~run.more
         /\ complete' = [top |-> run.top, since |-> run.target]
  BY <1>1, <1>a, Numbers DEF EndExtend, Completes
<1>6. ASSUME ~run.more, NEW u \in Wanted, day[u] >= run.target
      PROVE  u \in kept
  <2> u \in Int /\ day[u] \in Int /\ u \in Uid
    BY <1>a, Numbers DEF Wanted, CursorTypes
  <2>1. CASE fwd.base <= u
    BY <1>3, <2>1
  <2>2. CASE u < run.back.low
    <3>1. 0 <= u
      BY DEF Uid
    <3> QED  BY <1>1, <1>3, <1>6, <2>2, <3>1 DEF Descends
  <2>3. CASE u < fwd.base /\ run.back.low <= u
    <3>1. day[u] >= run.back.since
      BY <1>1, <1>2, <1>3, <1>6 DEF IsBack
    <3> QED  BY <1>3, <2>3, <3>1 DEF BackClaim
  <2> QED  BY <1>1, <1>2, <2>1, <2>2, <2>3 DEF IsForward, IsBack
<1>7. ASSUME back' # back \/ complete' # complete
      PROVE  /\ ~run.more /\ complete' \in Reports /\ complete'.since = run.target
             /\ back' \in Backs /\ back' # Unset /\ back'.low = 1 /\ back'.since = Covers(run.back)
             /\ back'.wsince = run.back.wsince /\ back'.whigh = run.back.whigh
             /\ back'.valid = fwd.valid /\ back'.epoch = fwd.epoch
  <2>1. /\ back' = [run.back EXCEPT !.low = 1, !.since = Covers(run.back)] /\ ~run.more
        /\ complete' = [top |-> run.top, since |-> run.target]
    BY <1>5, <1>7
  <2>2. complete' \in Reports /\ complete'.since = run.target
    BY <1>1, <1>a, <2>1, Numbers DEF Reports
  <2>3. /\ back' \in Backs /\ back'.low = 1 /\ back'.since = Covers(run.back)
        /\ back'.wsince = run.back.wsince /\ back'.whigh = run.back.whigh
        /\ back'.valid = run.back.valid /\ back'.epoch = run.back.epoch
    BY <1>2, <1>4, <2>1 DEF Backs
  <2> QED  BY <1>3, <2>1, <2>2, <2>3, UnsetAssumption DEF Follows
<1>8. Wanted' = Wanted /\ \A u \in Wanted : u \in Int /\ day[u] \in Int /\ 1 <= u
  BY <1>1, <1>a, Numbers DEF Wanted, CursorTypes, Uid
<1>9. ASSUME back' # back \/ complete' # complete
      PROVE  BackClaim(back, fwd)'
  <2> SUFFICES ASSUME NEW u \in Wanted, u < fwd.base,
                      \/ day[u] >= Covers(run.back)
                      \/ run.back.wsince # 0 /\ run.back.whigh <= u /\ day[u] >= run.back.wsince
               PROVE  u \in kept
    BY <1>1, <1>7, <1>8, <1>9 DEF BackClaim
  <2>1. CASE day[u] >= Covers(run.back)
    <3>1. day[u] >= run.target
      BY <1>1, <1>4, <1>8, <2>1
    <3> QED  BY <1>6, <1>7, <1>9, <3>1
  <2> QED  BY <1>3, <2>1 DEF BackClaim
<1>10. 1 <= fwd.base
  BY <1>1, <1>a, Numbers DEF IsForward
<1>11. CursorTypes'
  BY <1>1, <1>7, <1>a DEF CursorTypes
<1>12. CursorsClaim'
  <2>1. CASE back' = back /\ complete' = complete
    BY <1>1, <1>a, <2>1 DEF CursorsClaim, ForwardClaim, BackClaim, Wanted
  <2>2. CASE back' # back \/ complete' # complete
    <3>1. back'.low <= fwd.base
      BY <1>7, <1>10, <2>2
    <3>2. ForwardClaim(fwd)' <=> ForwardClaim(fwd)
      BY <1>1, <1>8 DEF ForwardClaim
    <3> QED  BY <1>1, <1>7, <1>9, <1>a, <2>2, <3>1, <3>2, Numbers DEF CursorsClaim, IsForward
  <2> QED  BY <2>1, <2>2
<1>13. RunBegun'
  BY <1>1 DEF RunBegun
<1>14. ForwardWalk'
  BY <1>1 DEF ForwardWalk, At
<1>15. Forwarded'
  BY <1>1 DEF Forwarded, At
<1>16. Backfilling'
  BY <1>1 DEF Backfilling, At
<1>17. BackWalk'
  BY <1>1 DEF BackWalk, At
<1>18. CompleteMeansAll'
  <2>1. CASE back' = back /\ complete' = complete
    BY <1>1, <1>a, <2>1 DEF CompleteMeansAll, RunBegun
  <2>2. CASE back' # back \/ complete' # complete
    <3>1. ASSUME NEW u \in Wanted, u > fwd.base - 1 PROVE u \in kept
      BY <1>1, <1>3, <1>8, <3>1 DEF IsForward
    <3>2. ASSUME NEW u \in Wanted, day[u] >= run.target PROVE u \in kept
      BY <1>6, <1>7, <2>2, <3>2
    <3> QED  BY <1>1, <1>7, <1>8, <2>2, <3>1, <3>2 DEF CompleteMeansAll, Between, Above, Since
  <2> QED  BY <2>1, <2>2
<1> QED  BY <1>11, <1>12, <1>13, <1>14, <1>15, <1>16, <1>17, <1>18 DEF CInv

LEMMA StopKeeps ==
  ASSUME CInv, Stop
  PROVE  CInv'
<1>a. /\ CursorTypes /\ CursorsClaim /\ RunBegun /\ ForwardWalk /\ Forwarded
      /\ Backfilling /\ BackWalk /\ CompleteMeansAll
  BY DEF CInv
<1>1. /\ run' = Unset /\ UNCHANGED <<server, store, complete>>
  BY DEF Stop
<1>2. CursorTypes'
  BY <1>a, <1>1 DEF CursorTypes
<1>3. CursorsClaim'
  BY <1>a, <1>1 DEF CursorsClaim, ForwardClaim, BackClaim, Wanted
<1>4. RunBegun'
  BY <1>1 DEF RunBegun
<1>5. ForwardWalk'
  BY <1>1 DEF ForwardWalk, At
<1>6. Forwarded'
  BY <1>1 DEF Forwarded, At
<1>7. Backfilling'
  BY <1>1 DEF Backfilling, At
<1>8. BackWalk'
  BY <1>1 DEF BackWalk, At
<1>9. CompleteMeansAll'
  BY <1>a, <1>1 DEF CompleteMeansAll, Since, Wanted
<1> QED  BY <1>2, <1>3, <1>4, <1>5, <1>6, <1>7, <1>8, <1>9 DEF CInv

LEMMA CursorStarts ==
  CursorInit => CInv
<1>1. ASSUME CursorInit PROVE CursorTypes
  BY <1>1, BoundAssumption DEF CursorInit, CursorTypes, Uid
<1> QED
  BY <1>1 DEF CursorInit, CInv, CursorsClaim, RunBegun, ForwardWalk, Forwarded, Backfilling,
              BackWalk, CompleteMeansAll, At

LEMMA CursorStep ==
  CInv /\ [CursorNext]_cursorVars => CInv'
<1> SUFFICES ASSUME CInv, [CursorNext]_cursorVars PROVE CInv'
  OBVIOUS
<1>1. CASE CursorNext
  BY <1>1, DeliverKeeps, ExpungeKeeps, RenumberKeeps, BeginKeeps, StartForwardKeeps,
     ForwardBatchKeeps, EndForwardKeeps, NoBackfillKeeps, WidenKeeps, WidenBatchKeeps,
     EndWidenKeeps, ExtendKeeps, ExtendBatchKeeps, EndExtendKeeps, StopKeeps DEF CursorNext
<1>2. CASE UNCHANGED cursorVars
  <2> USE <1>2 DEF cursorVars
  <2>1. Wanted' = Wanted
    BY DEF Wanted
  <2>2. CursorTypes' /\ RunBegun'
    BY DEF CInv, CursorTypes, RunBegun, Uid
  <2>3. CursorsClaim'
    BY <2>1 DEF CInv, CursorsClaim, ForwardClaim, BackClaim
  <2>4. ForwardWalk' /\ Forwarded' /\ Backfilling' /\ BackWalk'
    BY <2>1 DEF CInv, ForwardWalk, Forwarded, Backfilling, BackWalk, At, Ascends, Descends,
                Follows, BackClaim
  <2>5. CompleteMeansAll'
    BY <2>1 DEF CInv, CompleteMeansAll, Between, Above, Since
  <2> QED  BY <2>2, <2>3, <2>4, <2>5 DEF CInv
<1> QED  BY <1>1, <1>2

\* The invariant: what the cursors claim is in the store, and what the run in progress has
\* walked through is there too, whatever was delivered, expunged or renumbered before it and
\* wherever an earlier run was stopped.
THEOREM CursorInvariant ==
  CursorSpec => []CInv
<1> QED  BY CursorStarts, CursorStep, PTL DEF CursorSpec

\* The stored cursors claim no message that was not fetched (write_batch commits a cursor
\* with the messages it passes).
THEOREM CursorCovered ==
  CursorSpec => []CursorsCovered
<1>1. CInv => CursorsCovered
  <2> SUFFICES ASSUME CInv PROVE CursorsCovered
    OBVIOUS
  <2>1. ASSUME fwd # Unset, fwd.valid = validity
        PROVE  Between(Wanted, fwd.base, fwd.uid + 1) \subseteq kept
    <3> SUFFICES ASSUME NEW u \in Wanted, fwd.base <= u, u < fwd.uid + 1 PROVE u \in kept
      BY DEF Between
    <3>1. u \in Int /\ fwd.uid \in Int
      BY <2>1, Numbers DEF CInv, IsForward
    <3> QED  BY <2>1, <3>1 DEF CInv, CursorsClaim, ForwardClaim
  <2>2. ASSUME fwd # Unset, fwd.valid = validity, back # Unset, back.epoch = fwd.epoch
        PROVE  Since(Between(Wanted, back.low, fwd.base), back.since) \subseteq kept
    BY <2>2 DEF CInv, CursorsClaim, BackClaim, Since, Between
  <2> QED  BY <2>1, <2>2 DEF CursorsCovered
<1> QED  BY <1>1, CursorInvariant, PTL

\* A run that reports to be complete has left nothing behind (_Run.run, the report of the
\* fetch): everything from the base up, and everything dated on or after its `--since`.
THEOREM CursorComplete ==
  CursorSpec => []CompleteMeansAll
<1>1. CInv => CompleteMeansAll
  BY DEF CInv
<1> QED  BY <1>1, CursorInvariant, PTL

\* The forward cursor goes only onward, and keeps its base until the mailbox is renumbered.
THEOREM CursorOnward ==
  CursorSpec => CursorAdvances
<1> DEFINE Onward == fwd # Unset =>
             /\ fwd' # Unset /\ fwd'.epoch >= fwd.epoch
             /\ fwd'.epoch = fwd.epoch => fwd'.uid >= fwd.uid /\ fwd'.base = fwd.base
<1>1. ASSUME CInv, UNCHANGED fwd PROVE Onward
  BY <1>1, Numbers DEF CInv, IsForward
<1>2. ASSUME CInv, ForwardBatch PROVE Onward
  <2> SUFFICES ASSUME fwd # Unset PROVE Onward
    OBVIOUS
  <2>1. /\ run # Unset /\ run.fwd # Unset /\ run.fwd \in Forwards /\ IsForward(run.fwd) /\ IsForward(fwd)
        /\ run.uids \in SUBSET Uid
    BY <1>2, Numbers DEF CInv, ForwardBatch, ForwardWalk, At
  <2>2. PICK n \in 1..Cardinality(run.uids) :
          fwd' = [run.fwd EXCEPT !.uid = Max(Oldest(run.uids, n))]
    BY <1>2 DEF ForwardBatch
  <2>3. Max(Oldest(run.uids, n)) \in run.uids /\ Max(Oldest(run.uids, n)) \in Nat
    BY <2>1, OldestBatch DEF Uid
  <2>4. /\ fwd' \in Forwards /\ fwd'.epoch = run.fwd.epoch /\ fwd'.base = run.fwd.base
        /\ fwd'.uid = Max(Oldest(run.uids, n)) /\ fwd' # Unset
    BY <2>1, <2>2, <2>3, UnsetAssumption DEF Forwards
  <2>5. run.fwd.uid < fwd'.uid /\ (run.fwd = fwd \/ fwd.epoch < run.fwd.epoch)
    BY <1>2, <2>1, <2>3, <2>4 DEF CInv, ForwardBatch, ForwardWalk, At
  <2>6. fwd.epoch \in Int /\ run.fwd.epoch \in Int /\ run.fwd.uid \in Int /\ fwd'.uid \in Int
    BY <2>1, <2>3, <2>4 DEF IsForward
  <2>7. CASE run.fwd = fwd
    BY <2>4, <2>5, <2>6, <2>7
  <2>8. CASE fwd.epoch < run.fwd.epoch
    BY <2>4, <2>6, <2>8
  <2> QED  BY <2>5, <2>7, <2>8
<1>3. ASSUME CInv, StartForward, fwd' # fwd PROVE Onward
  <2>1. Followed = Unset /\ run # Unset /\ fwd' = Forward(run.top + 1, run.top)
    BY <1>3 DEF StartForward
  <2>2. run.top + 1 \in Nat \ {0} /\ run.top \in Nat
    BY <1>3, <2>1, Numbers DEF CInv
  <2>3. fwd' # Unset /\ fwd'.epoch = Epoch
    BY <1>3, <2>1, <2>2, ForwardIs DEF CInv
  <2>4. fwd # Unset => Epoch \in Nat /\ Epoch > fwd.epoch /\ fwd.epoch \in Nat
    BY <1>3, <2>1, EpochIs, Numbers DEF CInv, IsForward
  <2> QED  BY <2>3, <2>4
<1>4. ASSUME CInv, [CursorNext]_cursorVars PROVE [Onward]_cursorVars
  <2>1. UNCHANGED fwd \/ ForwardBatch \/ StartForward
    BY <1>4 DEF CursorNext, cursorVars, Deliver, Expunge, Renumber, Begin, EndForward,
                NoBackfill, Widen, WidenBatch, EndWiden, Extend, ExtendBatch, EndExtend, Stop
  <2> QED  BY <1>1, <1>2, <1>3, <1>4, <2>1
<1> QED  BY <1>4, CursorInvariant, PTL DEF CursorSpec, CursorAdvances
=============================================================================
