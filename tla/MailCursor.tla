------------------------------ MODULE MailCursor ------------------------------
(***************************************************************************)
(* The cursors of one mailbox (imports/mail/imap_sync.py, _Run): the       *)
(* forward cursor, which follows new mail, and the backfill cursor of      *)
(* `--since`, which widens what is covered below it. A run may be stopped  *)
(* after any batch; the server delivers, expunges and renumbers mail.      *)
(*                                                                         *)
(* One fetch at a time (MailLease). Messages are their UIDs and days.      *)
(***************************************************************************)
EXTENDS Integers, FiniteSetsExt

CONSTANTS MaxMail, MaxDay,  \* bounds of the messages delivered and of their calendar
          MaxValid,         \* bound of UIDVALIDITY
          MaxMessages,      \* the largest max_messages
          Oversize,         \* the UIDs of messages too large to fetch
          Unset

ASSUME BoundAssumption == {MaxMail, MaxDay, MaxValid, MaxMessages} \subseteq Nat
ASSUME OversizeAssumption == Oversize \subseteq Nat

\* What the store has of a mailbox: the position of each cursor.
Forwards == [valid : Nat, epoch : Nat, uid : Nat, base : Nat \ {0}]
Backs == [valid : Nat, epoch : Nat, low : Nat, since : Nat, wsince : Nat, whigh : Nat]
ASSUME UnsetAssumption == Unset \notin Forwards \cup Backs

VARIABLES
  validity, next,   \* the server's UIDVALIDITY and UIDNEXT
  alive, day,       \* the UIDs of its messages, and the day of each
  mails,            \* how many it has delivered
  kept,             \* the UIDs of this UIDVALIDITY whose messages are in the store
  fwd, back,        \* the stored cursors
  run,              \* the run in progress
  complete          \* history: the report of the run that has just ended

server == <<validity, next, alive, day, mails>>
store == <<kept, fwd, back>>
cursorVars == <<server, store, run, complete>>

Uid == 1..MaxMail

CursorInit ==
  /\ validity = 1 /\ next = 1 /\ mails = 0 /\ alive = {} /\ day = [u \in Uid |-> 0]
  /\ kept = {} /\ fwd = Unset /\ back = Unset /\ run = Unset /\ complete = Unset

-----------------------------------------------------------------------------
(* The server. An EXAMINEd mailbox keeps its UIDs, and what is delivered    *)
(* during a run is above the top that the run has found, as if after it.    *)

Deliver ==
  /\ run = Unset /\ mails < MaxMail /\ mails' = mails + 1 /\ next' = next + 1 /\ alive' = alive \cup {next}
  /\ \E d \in 1..MaxDay : day' = [day EXCEPT ![next] = d]
  /\ UNCHANGED <<validity, store, run>> /\ complete' = Unset

Expunge ==
  /\ \E u \in alive : alive' = alive \ {u} /\ day' = [day EXCEPT ![u] = 0]
  /\ UNCHANGED <<validity, next, mails, store, run>> /\ complete' = Unset

Renumber ==
  /\ run = Unset /\ validity < MaxValid /\ validity' = validity + 1
  /\ next' = 1 /\ alive' = {} /\ day' = [u \in Uid |-> 0] /\ kept' = {} /\ complete' = Unset
  /\ UNCHANGED <<mails, fwd, back, run>>

-----------------------------------------------------------------------------
(* Searching.                                                               *)

Below(S, u) == {v \in S : v < u}
Above(S, u) == {v \in S : v > u}
Oldest(S, n) == {u \in S : Cardinality(Below(S, u)) < n}    \* newer_than
Newest(S, n) == {u \in S : Cardinality(Above(S, u)) < n}    \* walk_down
Since(S, d) == {u \in S : day[u] >= d}
Before(S, d) == {u \in S : day[u] < d}

\* What a run goes through: its UIDs, the oldest or the newest first, and whether more remain.
Walk(stage, found, chosen) ==
  [run EXCEPT !.stage = stage, !.left = @ - Cardinality(chosen),
              !.uids = chosen, !.more = chosen # found]

-----------------------------------------------------------------------------
(* The forward cursor.                                                      *)

Begin ==
  /\ run = Unset /\ complete' = Unset
  /\ \E left \in 0..MaxMessages, target \in 0..MaxDay :
       run' = [stage |-> "examined", left |-> left, target |-> target, top |-> next - 1,
               exists |-> alive # {}, uids |-> {}, more |-> FALSE, fwd |-> Unset, back |-> Unset]
  /\ UNCHANGED <<server, store>>

Followed == IF fwd # Unset /\ fwd.valid = validity THEN fwd ELSE Unset
Epoch == IF fwd = Unset THEN 0 ELSE IF fwd.valid = validity THEN fwd.epoch ELSE fwd.epoch + 1
Present == {u \in alive : u <= run.top}
Forward(base, uid) == [valid |-> validity, epoch |-> Epoch, uid |-> uid, base |-> base]

Completes ==
  /\ run' = Unset
  /\ complete' = [top |-> run.top, since |-> run.target]

StartForward ==
  /\ run # Unset /\ run.stage = "examined"
  /\ LET f == Followed
         found == Above(Present, f.uid)
         newest == Newest(Present, run.left) IN
       \/ /\ f = Unset /\ ~run.exists /\ fwd' = Forward(run.top + 1, run.top)
          /\ run' = [run EXCEPT !.stage = "forwarded", !.fwd = fwd'] /\ UNCHANGED complete
       \/ /\ run.left = 0 /\ (f # Unset \/ run.exists)
          /\ run' = IF f = Unset THEN Unset
                    ELSE IF run.top > f.uid THEN Unset
                    ELSE [run EXCEPT !.stage = "forwarded", !.fwd = f]
          /\ UNCHANGED <<fwd, complete>>
       \/ /\ run.left > 0 /\ f # Unset
          /\ run' = [Walk("forward", found, Oldest(found, run.left)) EXCEPT !.fwd = f]
          /\ UNCHANGED <<fwd, complete>>
       \/ /\ run.left > 0 /\ f = Unset /\ run.exists /\ newest # {}
          /\ run' = [Walk("forward", newest, newest) EXCEPT !.fwd = Forward(Min(newest), 0)]
          /\ UNCHANGED <<fwd, complete>>
       \/ run.left > 0 /\ f = Unset /\ run.exists /\ newest = {} /\ Completes /\ UNCHANGED fwd
  /\ UNCHANGED <<server, kept, back>>

\* A group of UIDs in order: fetched, or passed if expunged or oversize. The messages and the
\* cursor are committed together (write_batch); a cursor may move without a message (set_meta).
Fetched(covered) == (covered \cap alive) \ Oversize

\* Fault: the newest messages are published first.
ForwardBatchNewest ==
  /\ run # Unset /\ run.stage = "forward"
  /\ \E n \in 1..Cardinality(run.uids) :
       LET covered == Newest(run.uids, n) IN
       /\ kept' = kept \cup Fetched(covered)
       /\ fwd' = [run.fwd EXCEPT !.uid = Max(covered)]
       /\ run' = [run EXCEPT !.uids = @ \ covered, !.fwd = fwd']
  /\ UNCHANGED <<server, back, complete>>

\* Fault: the covered range is counted from the first message of this run.
ForwardBatchRebased ==
  /\ run # Unset /\ run.stage = "forward"
  /\ \E n \in 1..Cardinality(run.uids) :
       LET covered == Oldest(run.uids, n) IN
       /\ kept' = kept \cup Fetched(covered)
       /\ fwd' = [run.fwd EXCEPT !.uid = Max(covered), !.base = Min(covered)]
       /\ run' = [run EXCEPT !.uids = @ \ covered, !.fwd = fwd']
  /\ UNCHANGED <<server, back, complete>>

ForwardBatch ==
  /\ run # Unset /\ run.stage = "forward"
  /\ \E n \in 1..Cardinality(run.uids) :
       LET covered == Oldest(run.uids, n) IN
       /\ kept' = kept \cup Fetched(covered)
       /\ fwd' = [run.fwd EXCEPT !.uid = Max(covered)]
       /\ run' = [run EXCEPT !.uids = @ \ covered, !.fwd = fwd']
  /\ UNCHANGED <<server, back, complete>>

EndForward ==
  /\ run # Unset /\ run.stage = "forward" /\ run.uids = {}
  /\ run' = IF run.more THEN Unset ELSE [run EXCEPT !.stage = "forwarded"]
  /\ UNCHANGED <<server, store, complete>>

-----------------------------------------------------------------------------
(* Backfill.                                                                *)

NoBackfill ==
  /\ run # Unset /\ run.stage = "forwarded" /\ run.target = 0 /\ Completes
  /\ UNCHANGED <<server, store>>

Backfilled ==
  LET fresh == [valid |-> run.fwd.valid, epoch |-> run.fwd.epoch, low |-> run.fwd.base,
                since |-> run.target, wsince |-> 0, whigh |-> 0] IN
  IF back = Unset THEN fresh
  ELSE IF <<back.valid, back.epoch>> # <<fresh.valid, fresh.epoch>> \/ back.low >= run.fwd.base
  THEN fresh ELSE back

\* Fault: an interrupted widening is resumed whatever days it was for.
WidenedUnasked(b) == IF b.wsince # 0 THEN b ELSE [b EXCEPT !.wsince = run.target, !.whigh = run.fwd.base]

Widened(b) ==
  IF b.wsince # run.target \/ b.whigh \notin b.low..run.fwd.base
  THEN [b EXCEPT !.wsince = run.target, !.whigh = run.fwd.base] ELSE b

\* The days that an earlier run has not asked for, in what it has covered.
Widen ==
  /\ run # Unset /\ run.stage = "forwarded" /\ run.target > 0
  /\ LET b == Widened(Backfilled)
         days == Since(Above(Below(Present, b.whigh), b.low - 1), run.target)
         found == IF b.since = 0 THEN days ELSE Before(days, b.since) IN
       /\ Backfilled.since = 0 \/ run.target < Backfilled.since
       /\ run' = [Walk("widen", found, Newest(found, run.left)) EXCEPT !.back = b]
  /\ UNCHANGED <<server, store, complete>>

WidenBatch ==
  /\ run # Unset /\ run.stage = "widen"
  /\ \E n \in 1..Cardinality(run.uids) :
       LET covered == Newest(run.uids, n) IN
       /\ kept' = kept \cup Fetched(covered)
       /\ back' = [run.back EXCEPT !.whigh = Min(covered)]
       /\ run' = [run EXCEPT !.uids = @ \ covered, !.back = back']
  /\ UNCHANGED <<server, fwd, complete>>

EndWiden ==
  /\ run # Unset /\ run.stage = "widen" /\ run.uids = {}
  /\ IF run.more THEN run' = Unset /\ back' = back
     ELSE /\ back' = [run.back EXCEPT !.since = run.target, !.wsince = 0, !.whigh = 0]
          /\ run' = [run EXCEPT !.stage = "widened", !.back = back']
  /\ UNCHANGED <<server, kept, fwd, complete>>

\* Below what is covered, by UID. A narrower request makes the cursor claim less.
Larger(a, b) == IF a >= b THEN a ELSE b

Covers(b) == Larger(b.since, run.target)

Extend ==
  /\ run # Unset /\ run.target > 0
  /\ \/ run.stage = "widened"
     \/ run.stage = "forwarded" /\ Backfilled.since # 0 /\ run.target >= Backfilled.since
  /\ LET b == IF run.stage = "widened" THEN run.back ELSE Backfilled
         found == Since(Below(Present, b.low), run.target) IN
       run' = [Walk("extend", found, Newest(found, run.left)) EXCEPT !.back = b]
  /\ UNCHANGED <<server, store, complete>>

ExtendBatch ==
  /\ run # Unset /\ run.stage = "extend"
  /\ \E n \in 1..Cardinality(run.uids) :
       LET covered == Newest(run.uids, n) IN
       /\ kept' = kept \cup Fetched(covered)
       /\ back' = [run.back EXCEPT !.low = Min(covered), !.since = Covers(run.back)]
       /\ run' = [run EXCEPT !.uids = @ \ covered, !.back = back']
  /\ UNCHANGED <<server, fwd, complete>>

EndExtend ==
  /\ run # Unset /\ run.stage = "extend" /\ run.uids = {}
  /\ IF run.more THEN run' = Unset /\ UNCHANGED <<back, complete>>
     ELSE /\ back' = [run.back EXCEPT !.low = 1, !.since = Covers(run.back)]
          /\ Completes
  /\ UNCHANGED <<server, kept, fwd>>

\* The budget, the byte limit, the caller, the server or the process ends the run.
Stop ==
  /\ run # Unset /\ run' = Unset
  /\ UNCHANGED <<server, store, complete>>

CursorNext ==
  \/ Deliver \/ Expunge \/ Renumber
  \/ Begin \/ StartForward \/ ForwardBatch \/ EndForward \/ NoBackfill
  \/ Widen \/ WidenBatch \/ EndWiden \/ Extend \/ ExtendBatch \/ EndExtend \/ Stop

CursorSpec == CursorInit /\ [][CursorNext]_cursorVars

-----------------------------------------------------------------------------
(* Properties.                                                              *)

\* The messages of the mailbox that a fetch has to bring.
Wanted == alive \ Oversize
Between(S, a, b) == {u \in S : a <= u /\ u < b}

\* The cursors claim nothing that is not in the store: no message between the base and the
\* forward cursor is missing, and below the base none of the days that the backfill cursor
\* says were asked for, whatever runs with other dates came first or were stopped.
CursorsCovered ==
  /\ fwd # Unset /\ fwd.valid = validity => Between(Wanted, fwd.base, fwd.uid + 1) \subseteq kept
  /\ fwd # Unset /\ fwd.valid = validity /\ back # Unset /\ back.valid = validity /\ back.epoch = fwd.epoch
     => Since(Between(Wanted, back.low, fwd.base), back.since) \subseteq kept

\* A run that does not report to be partial has left nothing behind: every message from the
\* base to the top it found, and every earlier one dated on or after its `--since`.
CompleteMeansAll ==
  complete # Unset =>
    LET found == Between(Wanted, 1, complete.top + 1) IN
    /\ fwd # Unset => Above(found, fwd.base - 1) \subseteq kept
    /\ complete.since > 0 => Since(found, complete.since) \subseteq kept

\* The forward cursor never goes back within an epoch, and its base stays.
CursorAdvances ==
  [][fwd # Unset => /\ fwd' # Unset /\ fwd'.epoch >= fwd.epoch
                    /\ fwd'.epoch = fwd.epoch => fwd'.uid >= fwd.uid /\ fwd'.base = fwd.base]_cursorVars

-----------------------------------------------------------------------------
(* Why they hold: an inductive invariant. What a cursor claims, and how far *)
(* the run in progress has walked towards what it will claim next.          *)

Runs == [stage : {"examined", "forward", "forwarded", "widen", "widened", "extend"},
         left : Int, target : Nat, top : Nat, exists : BOOLEAN, uids : SUBSET Uid,
         more : BOOLEAN, fwd : Forwards \cup {Unset}, back : Backs \cup {Unset}]
Reports == [top : Nat, since : Nat]

CursorTypes ==
  /\ validity \in Nat /\ next \in Nat \ {0} /\ mails \in 0..MaxMail /\ next <= mails + 1
  /\ alive \subseteq Uid /\ day \in [Uid -> 0..MaxDay] /\ kept \subseteq Uid
  /\ fwd \in Forwards \cup {Unset} /\ back \in Backs \cup {Unset}
  /\ run \in Runs \cup {Unset} /\ complete \in Reports \cup {Unset}
  /\ \A u \in alive : u < next

At(stages) == run # Unset /\ run.stage \in stages
Follows(b, f) == b.valid = f.valid /\ b.epoch = f.epoch

\* What the store has of the mail that a cursor speaks of. An interrupted widening speaks
\* of the part of the covered range that it has been through.
ForwardClaim(f) == \A u \in Wanted : f.base <= u /\ u <= f.uid => u \in kept
BackClaim(b, f) ==
  \A u \in Wanted :
    (u < f.base /\ (\/ (b.low <= u /\ day[u] >= b.since)
                    \/ (b.wsince # 0 /\ b.whigh <= u /\ day[u] >= b.wsince))) => u \in kept

\* The cursors claim what is there, and the backfill cursor was not there before the
\* forward cursor of its epoch.
CursorsClaim ==
  /\ fwd # Unset /\ fwd.valid = validity =>
       fwd.base <= fwd.uid + 1 /\ fwd.uid < next /\ ForwardClaim(fwd)
  /\ fwd # Unset => fwd.valid <= validity
  /\ back # Unset => fwd # Unset /\ back.epoch <= fwd.epoch
  /\ back # Unset /\ back.epoch = fwd.epoch =>
       back.valid = fwd.valid /\ back.low <= fwd.base /\ (fwd.valid = validity => BackClaim(back, fwd))

\* A run walks to the top it found, and what a walk has still to do is either on its list
\* or beyond it, in its direction, when more remains.
RunBegun == run # Unset => complete = Unset /\ run.top = next - 1 /\ (~run.exists => alive = {})

Ascends == \A u \in Wanted : run.fwd.base <= u =>
             u \in kept \cup run.uids \/ (run.more /\ \A v \in run.uids : v < u)
Descends(low, high) ==
  \A u \in Wanted : low <= u /\ u < high /\ day[u] >= run.target =>
    u \in kept \cup run.uids \/ (run.more /\ \A v \in run.uids : u < v)

ForwardWalk == At({"forward"}) =>
  /\ run.fwd # Unset /\ run.fwd.valid = validity /\ run.fwd.base <= next
  /\ run.fwd = fwd \/ (run.uids # {} /\ (fwd = Unset \/ fwd.epoch < run.fwd.epoch))
  /\ \A u \in run.uids : run.fwd.base <= u /\ run.fwd.uid < u /\ u < next
  /\ Ascends

Forwarded == At({"forwarded", "widen", "widened", "extend"}) =>
  /\ run.fwd = fwd /\ fwd # Unset /\ fwd.valid = validity
  /\ \A u \in Wanted : fwd.base <= u => u \in kept

Backfilling == At({"widen", "widened", "extend"}) =>
  /\ run.target > 0 /\ run.back # Unset /\ Follows(run.back, fwd)
  /\ run.back.low <= fwd.base /\ BackClaim(run.back, fwd)

BackWalk ==
  /\ At({"widen"}) => /\ run.back.wsince = run.target
                      /\ \A u \in run.uids : run.back.low <= u /\ u < run.back.whigh
                      /\ Descends(run.back.low, run.back.whigh)
  /\ At({"widened", "extend"}) => run.back.since <= run.target
  /\ At({"extend"}) => (\A u \in run.uids : u < run.back.low) /\ Descends(0, run.back.low)

CInv == /\ CursorTypes /\ CursorsClaim /\ RunBegun /\ ForwardWalk /\ Forwarded
        /\ Backfilling /\ BackWalk /\ CompleteMeansAll
=============================================================================
