------------------------------ MODULE MailLease ------------------------------
(***************************************************************************)
(* The lease of a mail fetch (imports/mail/imap_sync.py): the per-home     *)
(* writer lock, the worker thread that fetches under it, and the caller    *)
(* (the mordred_mail_sync tool) that may stop waiting, revoke the fetch    *)
(* and hand the lock to the next one while the worker is still blocked.    *)
(*                                                                         *)
(* Times are not modelled: a deadline may pass at any moment, a busy store *)
(* may stay busy for longer than anybody waits, a server may answer late.  *)
(***************************************************************************)
EXTENDS Naturals

CONSTANTS Fetch, None,
          MaxRound   \* bound of the writes of one fetch after its sweep: its budget

ASSUME NoneAssumption == None \notin Fetch
ASSUME RoundAssumption == MaxRound \in Nat

VARIABLES
  lock,       \* mail/.lock: the fetch that holds it
  txn,        \* the store's write transaction (BEGIN IMMEDIATE): the fetch it is open for
  at,         \* where each worker is
  kind,       \* the counted write each worker is making
  rounds,     \* how many writes each worker has begun
  row,        \* the import_runs row of each fetch's last batch
  abandoned, settled, writes, release, runs,   \* the FetchLease of each fetch
  revoker,    \* where the thread that abandons each fetch is
  revoked,    \* its verdict on the drain and on the runs
  answer      \* what the tool tells its caller about the lock

worker == <<at, kind, rounds>>
lease == <<abandoned, settled, writes, release, runs>>
caller == <<revoker, revoked, answer>>
vars == <<lock, txn, row, worker, lease, caller>>

Counted == {"sweep", "own", "begin", "move"}

TypeOK ==
  /\ lock \in Fetch \cup {None} /\ txn \in Fetch \cup {None}
  /\ at \in [Fetch -> {"new", "flocked", "fresh", "ready", "counted", "inside", "after",
                       "publish", "batch", "closing", "refused", "leaving", "done"}]
  /\ kind \in [Fetch -> Counted \cup {"none"}] /\ rounds \in [Fetch -> 0..MaxRound]
  /\ row \in [Fetch -> {"none", "open", "failed", "committed"}]
  /\ abandoned \in [Fetch -> BOOLEAN] /\ settled \in [Fetch -> BOOLEAN] /\ release \in [Fetch -> BOOLEAN]
  /\ runs \in [Fetch -> BOOLEAN] /\ revoked \in [Fetch -> BOOLEAN]
  /\ writes \in [Fetch -> 0..1]
  /\ revoker \in [Fetch -> {"no", "drain", "revoke", "release", "done"}]
  /\ answer \in [Fetch -> {"none", "released", "retained"}]

Init ==
  /\ lock = None /\ txn = None
  /\ at = [f \in Fetch |-> "new"] /\ kind = [f \in Fetch |-> "none"] /\ rounds = [f \in Fetch |-> 0]
  /\ row = [f \in Fetch |-> "none"]
  /\ abandoned = [f \in Fetch |-> FALSE] /\ settled = [f \in Fetch |-> FALSE]
  /\ writes = [f \in Fetch |-> 0] /\ release = [f \in Fetch |-> FALSE] /\ runs = [f \in Fetch |-> FALSE]
  /\ revoker = [f \in Fetch |-> "no"] /\ revoked = [f \in Fetch |-> FALSE]
  /\ answer = [f \in Fetch |-> "none"]

-----------------------------------------------------------------------------
(* The worker: the lock.                                                    *)

Goes(f, place) == at' = [at EXCEPT ![f] = place]
Writes(f, k, n) == kind' = [kind EXCEPT ![f] = k] /\ writes' = [writes EXCEPT ![f] = n]

\* fetch_lock; held elsewhere, the fetch ends with sync_in_progress.
TakeLock(f) ==
  /\ at[f] = "new"
  /\ IF lock = None THEN lock' = f /\ Goes(f, "flocked") ELSE Goes(f, "done") /\ UNCHANGED lock
  /\ UNCHANGED <<txn, row, kind, rounds, lease, caller>>

HoldLock(f) ==
  /\ at[f] = "flocked"
  /\ IF abandoned[f]
     THEN Goes(f, "leaving") /\ UNCHANGED release
     ELSE release' = [release EXCEPT ![f] = TRUE] /\ Goes(f, "fresh")
  /\ UNCHANGED <<lock, txn, row, kind, rounds, abandoned, settled, writes, runs, caller>>

\* Fault: a worker that was abandoned trusts the lease to release its lock.
LeaveTrusting(f) ==
  /\ at[f] = "leaving" /\ Goes(f, "done")
  /\ lock' = IF lock = f /\ ~abandoned[f] THEN None ELSE lock
  /\ UNCHANGED <<txn, row, kind, rounds, lease, caller>>

\* The end of fetch_lock: a no-op when the lease has released it already.
Leave(f) ==
  /\ at[f] = "leaving" /\ Goes(f, "done")
  /\ lock' = IF lock = f THEN None ELSE lock
  /\ UNCHANGED <<txn, row, kind, rounds, lease, caller>>

-----------------------------------------------------------------------------
(* The worker: store writes.                                                *)

\* FetchLease.writing. The sweep of the runs a dead writer left open comes first; a run
\* is opened for a batch; own addresses, cursor moves and the record of the fetch are others.
BeginWrite(f) ==
  /\ at[f] \in {"fresh", "ready"}
  /\ IF abandoned[f]
     THEN Goes(f, "leaving") /\ UNCHANGED <<kind, rounds, writes>>
     ELSE /\ Goes(f, "counted")
          /\ \/ at[f] = "fresh" /\ Writes(f, "sweep", 1) /\ UNCHANGED rounds
             \/ /\ at[f] = "ready" /\ rounds[f] < MaxRound /\ rounds' = [rounds EXCEPT ![f] = @ + 1]
                /\ \E k \in {"own", "begin", "move"} : Writes(f, k, 1)
  /\ UNCHANGED <<lock, txn, row, abandoned, settled, release, runs, caller>>

\* ImportStore._transaction: the guard runs inside it. Own addresses take no guard.
OpenTxn(f) ==
  /\ at[f] = "counted" /\ txn = None
  /\ IF abandoned[f] /\ kind[f] # "own"
     THEN Goes(f, "leaving") /\ Writes(f, "none", 0) /\ UNCHANGED txn
     ELSE txn' = f /\ Goes(f, "inside") /\ UNCHANGED <<kind, writes>>
  /\ UNCHANGED <<lock, row, rounds, abandoned, settled, release, runs, caller>>

Commit(f) ==
  /\ at[f] = "inside" /\ txn' = None /\ Goes(f, "after")
  /\ row' = CASE kind[f] = "sweep" -> [g \in Fetch |-> IF row[g] = "open" THEN "failed" ELSE row[g]]
              [] kind[f] = "begin" -> [row EXCEPT ![f] = "open"]
              [] OTHER -> row
  /\ UNCHANGED <<lock, kind, rounds, lease, caller>>

\* The write is counted until its run is registered (FetchLease.opened).
EndWrite(f) ==
  /\ at[f] = "after" /\ Writes(f, "none", 0)
  /\ IF kind[f] = "begin"
     THEN runs' = [runs EXCEPT ![f] = TRUE] /\ Goes(f, IF abandoned[f] THEN "refused" ELSE "publish")
     ELSE UNCHANGED runs /\ Goes(f, "ready")
  /\ UNCHANGED <<lock, txn, row, rounds, abandoned, settled, release, caller>>

\* write_batch is not counted: its guard and the state of its run protect it.
OpenBatch(f) ==
  /\ at[f] = "publish" /\ txn = None
  /\ IF abandoned[f] \/ row[f] # "open"
     THEN Goes(f, "closing") /\ UNCHANGED txn ELSE txn' = f /\ Goes(f, "batch")
  /\ UNCHANGED <<lock, row, kind, rounds, lease, caller>>

CommitBatch(f) ==
  /\ at[f] = "batch" /\ txn' = None /\ row' = [row EXCEPT ![f] = "committed"]
  /\ runs' = [runs EXCEPT ![f] = FALSE] /\ Goes(f, "ready")
  /\ UNCHANGED <<lock, kind, rounds, abandoned, settled, writes, release, caller>>

\* After a refused or failed batch: run_fail (not retried, a busy store is ignored), then
\* closed; the run of a fetch abandoned in between stays with the lease, which revokes it too.
FailRun(f) ==
  /\ at[f] \in {"closing", "refused"} /\ Goes(f, "leaving")
  /\ runs' = [runs EXCEPT ![f] = @ /\ at[f] = "refused"]
  /\ \/ txn = None /\ row' = [row EXCEPT ![f] = IF @ = "open" THEN "failed" ELSE @]
     \/ txn # None /\ UNCHANGED row
  /\ UNCHANGED <<lock, txn, kind, rounds, abandoned, settled, writes, release, caller>>

\* The fetch ends, or its store or its server fails it, here or inside a transaction.
Stops(f) ==
  /\ \/ at[f] \in {"fresh", "ready"} /\ Goes(f, "leaving") /\ UNCHANGED <<txn, kind, writes>>
     \/ /\ at[f] \in {"counted", "inside"} /\ Goes(f, "leaving") /\ Writes(f, "none", 0)
        /\ txn' = IF txn = f THEN None ELSE txn
     \/ /\ at[f] \in {"publish", "batch"} /\ Goes(f, "closing") /\ UNCHANGED <<kind, writes>>
        /\ txn' = IF txn = f THEN None ELSE txn
  /\ UNCHANGED <<lock, row, rounds, abandoned, settled, release, runs, caller>>

-----------------------------------------------------------------------------
(* The caller: FetchLease.abandon in a thread of its own, and settle.       *)

Abandon(f) ==
  /\ revoker[f] = "no" /\ at[f] # "done"
  /\ abandoned' = [abandoned EXCEPT ![f] = TRUE] /\ revoker' = [revoker EXCEPT ![f] = "drain"]
  /\ UNCHANGED <<lock, txn, row, worker, settled, writes, release, runs, revoked, answer>>

\* _drained: the writes in flight end, or the deadline passes.
Drain(f) ==
  /\ revoker[f] = "drain"
  /\ \/ writes[f] = 0 /\ revoker' = [revoker EXCEPT ![f] = "revoke"]
     \/ writes[f] # 0 /\ revoker' = [revoker EXCEPT ![f] = "release"]
  /\ UNCHANGED <<lock, txn, row, worker, lease, revoked, answer>>

\* Fault: a run that a busy store does not let fail counts as revoked.
RevokeBlind(f) ==
  /\ revoker[f] = "revoke" /\ revoker' = [revoker EXCEPT ![f] = "release"]
  /\ revoked' = [revoked EXCEPT ![f] = TRUE]
  /\ row' = [row EXCEPT ![f] = IF runs[f] /\ txn = None /\ @ = "open" THEN "failed" ELSE @]
  /\ UNCHANGED <<lock, txn, worker, lease, answer>>

\* _revoke: run_fail, a run that is not open any more counts as closed. The transaction
\* of another writer makes the store busy, and so does the batch that is being written.
Revoke(f) ==
  /\ revoker[f] = "revoke" /\ revoker' = [revoker EXCEPT ![f] = "release"]
  /\ \/ ~runs[f] /\ revoked' = [revoked EXCEPT ![f] = TRUE] /\ UNCHANGED row
     \/ /\ runs[f] /\ txn = None /\ revoked' = [revoked EXCEPT ![f] = TRUE]
        /\ row' = [row EXCEPT ![f] = IF @ = "open" THEN "failed" ELSE @]
     \/ runs[f] /\ txn # None /\ UNCHANGED <<row, revoked>>
  /\ UNCHANGED <<lock, txn, worker, lease, answer>>

\* Fault: the lock is released after the caller was told that it is retained.
ReleaseLate(f) ==
  /\ revoker[f] = "release" /\ revoker' = [revoker EXCEPT ![f] = "done"]
  /\ lock' = IF release[f] /\ lock = f /\ revoked[f] THEN None ELSE lock
  /\ UNCHANGED <<txn, row, worker, lease, revoked, answer>>

Release(f) ==
  /\ revoker[f] = "release" /\ revoker' = [revoker EXCEPT ![f] = "done"]
  /\ lock' = IF release[f] /\ lock = f /\ revoked[f] /\ ~settled[f] THEN None ELSE lock
  /\ UNCHANGED <<txn, row, worker, lease, revoked, answer>>

\* At the bound of the call, whatever the revoker has reached.
Settle(f) ==
  /\ revoker[f] # "no" /\ ~settled[f] /\ settled' = [settled EXCEPT ![f] = TRUE]
  /\ answer' = [answer EXCEPT ![f] = IF release[f] /\ lock = f THEN "retained" ELSE "released"]
  /\ UNCHANGED <<lock, txn, row, worker, abandoned, writes, release, runs, revoker, revoked>>

-----------------------------------------------------------------------------
\* The process dies: its transaction is rolled back, its lock and its threads are gone.
Crash(f) ==
  /\ at[f] \notin {"new", "done"} /\ Goes(f, "done")
  /\ lock' = (IF lock = f THEN None ELSE lock) /\ txn' = (IF txn = f THEN None ELSE txn)
  /\ revoker' = [revoker EXCEPT ![f] = "done"]
  /\ UNCHANGED <<row, kind, rounds, lease, revoked, answer>>

Works(f) ==
  \/ TakeLock(f) \/ HoldLock(f) \/ Leave(f)
  \/ BeginWrite(f) \/ OpenTxn(f) \/ Commit(f) \/ EndWrite(f)
  \/ OpenBatch(f) \/ CommitBatch(f) \/ FailRun(f) \/ Stops(f)

Calls(f) == Drain(f) \/ Revoke(f) \/ Release(f) \/ Settle(f)

Next == \E f \in Fetch : Works(f) \/ Abandon(f) \/ Calls(f) \/ Crash(f)

\* Every wait of a worker is bounded: its socket's, its resolver's and its store's.
Fairness == \A f \in Fetch : WF_vars(Works(f)) /\ WF_vars(Calls(f))

Spec == Init /\ [][Next]_vars /\ Fairness

-----------------------------------------------------------------------------
(* Properties.                                                              *)

\* A store transaction is open only for the fetch that holds the writer lock: the lock is
\* never handed on while a write of the abandoned worker can still be committed
\* (FetchLease: the flag, the drain, the runs failed, and the lock kept otherwise).
FencedWrites == txn # None => lock = txn

\* What the tool reports of the lock stays true: "retained" until the worker has ended,
\* and "released" for good, but for a lock the worker took in the meantime and gives back
\* before it does anything (FetchLease.settle, hold_lock).
TruthfulAnswer ==
  \A f \in Fetch :
    /\ answer[f] = "retained" => lock = f \/ at[f] = "done"
    /\ answer[f] = "released" => lock # f \/ at[f] = "flocked" \/ (at[f] = "leaving" /\ ~release[f])

\* The writer lock is always given back, by the lease or by the worker, whoever gave up.
LockFreed == \A f \in Fetch : lock = f ~> lock # f
=============================================================================
