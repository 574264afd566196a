----------------------------- MODULE VaultCommit -----------------------------
(***************************************************************************)
(* The file vault (keyvault/vault.py): generations of a manifest, blobs    *)
(* named by their content, a recovery sidecar, and the device anchor whose *)
(* flip commits a generation. Several processes open the vault without its *)
(* lock, write under it, and may die between any two writes.               *)
(*                                                                         *)
(* A wrapped master key (wmk) and a ciphertext are numbers, fresh each     *)
(* time. The memory key inside an enrolled .env counts because a protected *)
(* database is encrypted under it.                                         *)
(***************************************************************************)
EXTENDS Naturals, Sequences, FiniteSets

CONSTANTS Proc, File, Env,
          MaxGen, MaxKey, MaxBlob, MaxStop,   \* bounds of the counters below
          None

ASSUME EnvAssumption == Env \in File
ASSUME BoundAssumption == {MaxGen, MaxKey, MaxBlob, MaxStop} \subseteq Nat

VARIABLES
  anchor,     \* the device anchor: [wmk, gen]
  manifests,  \* manifest.<gen>.mvmf
  blobs,      \* the ciphertexts on disk
  sidecar,    \* the wmk that recovery.mrkv certifies
  lock,       \* .lock of the vault
  lease,      \* the exclusive database lease
  dep,        \* the memory key that protected databases depend on
  handle,     \* the manifest of each process's OpenVault
  op,         \* what each process is doing: steps to go, and on which manifest
  keys, written, stops,
  committed,  \* history: the manifest of the last anchor flip
  overtaken,  \* history: the device goes on under a wmk the sidecar does not certify
  lost        \* history: what a recovery that was overtaken named when it was taken up
              \* all the same, and was collected by then

disk == <<anchor, manifests, blobs, sidecar>>
locks == <<lock, lease>>
counts == <<keys, written, stops>>
ghosts == <<committed, overtaken, lost>>
vars == <<disk, locks, dep, handle, op, counts, ghosts>>

Nothing == 0                       \* no ciphertext, no memory key
Blob == 1..MaxBlob
Manifest == [gen : 0..MaxGen, wmk : 1..MaxKey, files : [File -> 0..MaxBlob], key : 0..MaxBlob]
Pins == [wmk : 1..MaxKey, gen : 0..MaxGen]
Idle == [todo |-> <<>>, on |-> None]

ASSUME NoneAssumption ==
  /\ None \notin Nat /\ None \notin Proc /\ None \notin Manifest /\ None \notin Pins
  /\ None \notin [File -> 0..MaxBlob]

Init ==
  /\ anchor = None /\ manifests = [g \in 0..MaxGen |-> None] /\ blobs = {} /\ sidecar = None
  /\ lock = None /\ lease = None /\ dep = None
  /\ handle = [p \in Proc |-> None] /\ op = [p \in Proc |-> Idle]
  /\ keys = 0 /\ written = 0 /\ stops = 0 /\ committed = None /\ overtaken = FALSE /\ lost = {}

-----------------------------------------------------------------------------
(* What the operations share.                                               *)

Free(p) == op[p].todo = <<>>
Step1(p) == Head(op[p].todo)
At(p, step) == ~Free(p) /\ Step1(p) = step
Starts(p, steps, m) == op' = [op EXCEPT ![p] = [todo |-> steps, on |-> m]]
Proceeds(p) == op' = [op EXCEPT ![p].todo = Tail(@)]
Ends(p) == op' = [op EXCEPT ![p] = Idle]

\* keyvault_lock around the steps that follow; a write that could change the memory
\* key has the database lease before it, and no database may depend on the key.
Enters(p) == lock = None /\ lock' = p
Unleased == UNCHANGED lease
LeasedGuard(p) == lease = None /\ dep = None /\ lease' = p

Used(m) == {m.files[f] : f \in File} \ {Nothing}
OnDisk == {manifests[g] : g \in 0..MaxGen} \ {None}
Artifacts == OnDisk # {} \/ sidecar # None \/ blobs # {}

\* _load_pinned_unverified, verify_pinned
Pinned(pin) == pin # None /\ manifests[pin.gen] # None /\ manifests[pin.gen].wmk = pin.wmk

\* _load_recovery_matched_unverified: the newest manifest that the sidecar certifies.
Certified == {m \in OnDisk : m.wmk = sidecar}
Matched == CHOOSE m \in Certified : \A n \in Certified : n.gen <= m.gen

-----------------------------------------------------------------------------
(* Opening: no lock until the handle is registered.                         *)

ReadAnchor(p) ==
  /\ Free(p) /\ handle[p] = None /\ anchor # None
  /\ Starts(p, <<"load", "register">>, anchor)
  /\ UNCHANGED <<disk, locks, dep, handle, counts, ghosts>>

\* The unwrap may prompt for as long as it likes.
Load(p) ==
  /\ At(p, "load")
  /\ IF Pinned(op[p].on)
     THEN Starts(p, <<"register">>, manifests[op[p].on.gen]) ELSE Ends(p)
  /\ UNCHANGED <<disk, locks, dep, handle, counts, ghosts>>

\* _register_checked_open, against the anchor that was read at first.
Register(p) ==
  /\ At(p, "register") /\ lock = None /\ Ends(p)
  /\ LET m == op[p].on IN
       handle' = IF manifests[m.gen] = m THEN [handle EXCEPT ![p] = m] ELSE handle
  /\ UNCHANGED <<disk, locks, dep, counts, ghosts>>

Close(p) ==
  /\ Free(p) /\ handle[p] # None /\ handle' = [handle EXCEPT ![p] = None]
  /\ UNCHANGED <<disk, locks, dep, op, counts, ghosts>>

-----------------------------------------------------------------------------
(* Writing.                                                                 *)

\* Only on a root without an anchor and without anything left by another vault.
InitVault(p) ==
  /\ Free(p) /\ handle[p] = None /\ keys < MaxKey
  /\ anchor = None /\ ~Artifacts /\ Enters(p) /\ LeasedGuard(p)
  /\ keys' = keys + 1
  /\ Starts(p, <<"sidecar", "manifest", "anchor", "end">>,
            [gen |-> 0, wmk |-> keys', files |-> [f \in File |-> Nothing], key |-> Nothing])
  /\ UNCHANGED <<disk, dep, handle, written, stops, ghosts>>

\* Fault: a handle that another writer has left behind is not refused.
CurrentManifest(p) == anchor # None /\ anchor.wmk = handle[p].wmk

\* The handle is current: anchor, manifest and wmk are the ones it was opened with.
Current(p) ==
  LET m == handle[p] IN
    anchor = [wmk |-> m.wmk, gen |-> m.gen] /\ manifests[m.gen] = m

Successor(m, f, b, k) ==
  [m EXCEPT !.gen = @ + 1, !.files[f] = b, !.key = k]

\* Fault: the memory key changes without a lease and without the guard.
CommitsUnguarded(p, steps, m) ==
  /\ Free(p) /\ handle[p] # None /\ handle[p].gen < MaxGen
  /\ Enters(p) /\ Current(p) /\ Unleased
  /\ Starts(p, steps, m)

Commits(p, steps, m) ==
  /\ Free(p) /\ handle[p] # None /\ handle[p].gen < MaxGen
  /\ Enters(p) /\ Current(p)
  /\ IF m.key # handle[p].key THEN LeasedGuard(p) ELSE Unleased
  /\ Starts(p, steps, m)

EnrollFile(p, f) ==
  /\ handle[p] # None /\ written < MaxBlob /\ written' = written + 1
  /\ \E k \in IF f = Env THEN {handle[p].key, written'} ELSE {handle[p].key} :
       Commits(p, <<"blob", "manifest", "anchor", "gc">>, Successor(handle[p], f, written', k))
  /\ UNCHANGED <<disk, dep, handle, keys, stops, ghosts>>

UnenrollFile(p, f) ==
  /\ handle[p] # None /\ handle[p].files[f] # Nothing
  /\ Commits(p, <<"manifest", "anchor", "gc">>,
             Successor(handle[p], f, Nothing, IF f = Env THEN Nothing ELSE handle[p].key))
  /\ UNCHANGED <<disk, dep, handle, counts, ghosts>>

\* The same master under a new wmk, on this device; it need not be a new one.
RecoverToDevice(p) ==
  /\ Free(p) /\ handle[p] = None /\ keys < MaxKey
  /\ sidecar # None /\ Certified # {} /\ Matched.gen < MaxGen
  /\ Enters(p) /\ LeasedGuard(p)
  /\ keys' = keys + 1
  /\ Starts(p, <<"manifest", "sidecar", "anchor", "gc">>,
            [Matched EXCEPT !.gen = @ + 1, !.wmk = keys'])
  /\ UNCHANGED <<disk, dep, handle, written, stops, ghosts>>

WriteBlob(p) ==
  /\ At(p, "blob") /\ Proceeds(p)
  /\ blobs' = blobs \cup (Used(op[p].on) \ Used(handle[p]))
  /\ UNCHANGED <<anchor, manifests, sidecar, locks, dep, handle, counts, ghosts>>

WriteManifest(p) ==
  /\ At(p, "manifest") /\ Proceeds(p)
  /\ manifests' = [manifests EXCEPT ![op[p].on.gen] = op[p].on]
  /\ overtaken' = (overtaken \/ /\ anchor # None /\ anchor.wmk = op[p].on.wmk
                                 /\ sidecar # anchor.wmk)
  /\ UNCHANGED <<anchor, blobs, sidecar, locks, dep, handle, counts, committed, lost>>

WriteSidecar(p) ==
  /\ At(p, "sidecar") /\ Proceeds(p)
  /\ sidecar' = op[p].on.wmk
  /\ UNCHANGED <<anchor, manifests, blobs, locks, dep, handle, counts, ghosts>>

\* A recovery goes on from what the sidecar certifies, and not from what the device
\* has committed since.
Relapses(m) == overtaken /\ sidecar = m.wmk

\* write_anchor: the commit.
FlipAnchor(p) ==
  /\ At(p, "anchor") /\ Proceeds(p)
  /\ anchor' = [wmk |-> op[p].on.wmk, gen |-> op[p].on.gen] /\ committed' = op[p].on
  /\ IF Relapses(op[p].on) THEN overtaken' = FALSE /\ lost' = lost \cup (Used(op[p].on) \ blobs)
     ELSE UNCHANGED <<overtaken, lost>>
  /\ UNCHANGED <<manifests, blobs, sidecar, locks, dep, handle, counts>>

Leaves(p) ==
  /\ lock' = IF lock = p THEN None ELSE lock
  /\ lease' = IF lease = p THEN None ELSE lease

\* The new handle, and what _gc gets to: nothing, the superseded manifest, or that and
\* some of the blobs that are not kept.
Collect(p, gone) ==
  /\ At(p, "gc") /\ Ends(p) /\ Leaves(p)
  /\ handle' = [handle EXCEPT ![p] = op[p].on]
  /\ \/ UNCHANGED <<manifests, blobs>>
     \/ /\ manifests' = [manifests EXCEPT ![op[p].on.gen - 1] = None]
        /\ \E some \in SUBSET gone : blobs' = blobs \ some
  /\ UNCHANGED <<anchor, sidecar, dep, counts, ghosts>>

\* Fault: what the manifest names is not kept.
GcAll(p) == Collect(p, blobs)

Gc(p) == Collect(p, IF At(p, "gc") THEN blobs \ Used(op[p].on) ELSE {})

EndInit(p) ==
  /\ At(p, "end") /\ Ends(p) /\ Leaves(p)
  /\ handle' = [handle EXCEPT ![p] = op[p].on]
  /\ UNCHANGED <<disk, dep, counts, ghosts>>

-----------------------------------------------------------------------------
(* change_passphrase on the device path: the prompt comes before the lock.  *)

AskRotation(p) ==
  /\ Free(p) /\ handle[p] = None /\ sidecar # None /\ Pinned(anchor)
  /\ Starts(p, <<"rotate">>, manifests[anchor.gen])
  /\ UNCHANGED <<disk, locks, dep, handle, counts, ghosts>>

Resealed(p) ==
  /\ sidecar' = op[p].on.wmk /\ overtaken' = FALSE
  /\ UNCHANGED <<anchor, manifests, blobs, locks, dep, handle, counts, committed, lost>>

\* Fault: what was pinned before the prompt is not pinned again.
RotateUnpinned(p) == At(p, "rotate") /\ lock = None /\ Ends(p) /\ Resealed(p)

Rotate(p) ==
  /\ At(p, "rotate") /\ lock = None /\ Ends(p)
  /\ IF Pinned(anchor) /\ manifests[anchor.gen].wmk = op[p].on.wmk
     THEN Resealed(p)
     ELSE UNCHANGED <<disk, locks, dep, handle, counts, ghosts>>

-----------------------------------------------------------------------------
(* Databases, failures, another machine.                                    *)

\* A conversion takes the lease, reads the memory key of the open vault, and ends in
\* databases that depend on it; or they are all decrypted again.
BeginProtect(p) ==
  /\ Free(p) /\ lease = None /\ lease' = p /\ dep = None
  /\ Pinned(anchor) /\ manifests[anchor.gen].key # Nothing
  /\ Starts(p, <<"protect">>, manifests[anchor.gen])
  /\ UNCHANGED <<disk, lock, dep, handle, counts, ghosts>>

Protect(p) ==
  /\ At(p, "protect") /\ Ends(p) /\ Leaves(p) /\ dep' = op[p].on.key
  /\ UNCHANGED <<disk, handle, counts, ghosts>>

Unprotect(p) ==
  /\ Free(p) /\ lease = None /\ dep # None /\ dep' = None
  /\ UNCHANGED <<disk, locks, handle, op, counts, ghosts>>

\* A step fails, and the handle may live on, or the process dies.
Stop(p) ==
  /\ ~Free(p) /\ Ends(p) /\ Leaves(p) /\ stops < MaxStop /\ stops' = stops + 1
  /\ \E h \in {handle[p], None} : handle' = [handle EXCEPT ![p] = h]
  /\ UNCHANGED <<disk, dep, keys, written, ghosts>>

\* The vault directory moves to a machine that has neither its key nor its anchor.
MoveToNewDevice ==
  /\ anchor # None /\ lock = None /\ lease = None /\ stops < MaxStop /\ stops' = stops + 1
  /\ anchor' = None
  /\ handle' = [p \in Proc |-> None] /\ op' = [p \in Proc |-> Idle]
  /\ UNCHANGED <<manifests, blobs, sidecar, locks, dep, keys, written, ghosts>>

Step(p) ==
  \/ ReadAnchor(p) \/ Load(p) \/ Register(p) \/ Close(p)
  \/ InitVault(p) \/ RecoverToDevice(p)
  \/ \E f \in File : EnrollFile(p, f) \/ UnenrollFile(p, f)
  \/ WriteBlob(p) \/ WriteManifest(p) \/ WriteSidecar(p) \/ FlipAnchor(p) \/ Gc(p) \/ EndInit(p)
  \/ AskRotation(p) \/ Rotate(p)
  \/ BeginProtect(p) \/ Protect(p) \/ Unprotect(p) \/ Stop(p)

Next == MoveToNewDevice \/ \E p \in Proc : Step(p)

Spec == Init /\ [][Next]_vars

-----------------------------------------------------------------------------
(* Properties.                                                              *)

TypeOK ==
  /\ anchor \in Pins \cup {None}
  /\ manifests \in [0..MaxGen -> Manifest \cup {None}]
  /\ blobs \subseteq Blob /\ sidecar \in 1..MaxKey \cup {None}
  /\ {lock, lease} \subseteq Proc \cup {None} /\ dep \in Blob \cup {None}
  /\ handle \in [Proc -> Manifest \cup {None}] /\ committed \in Manifest \cup {None}

Held(m) == Used(m) \subseteq blobs \cup lost
Readable(m) == m \in OnDisk /\ Held(m)

\* Wherever a writer stops, the device that has the anchor opens exactly the
\* generation that was committed last, with every ciphertext it names: a commit or its
\* garbage collection never leaves the anchor on something that is not there. Except
\* (lost): a recovery that was interrupted before its anchor, overtaken by commits of
\* this device, and is then taken up by another recovery, may name ciphertexts that
\* those commits collected. The code does not prevent that: see the README.
CommittedReadable ==
  anchor # None =>
    /\ anchor = [wmk |-> committed.wmk, gen |-> committed.gen] /\ Readable(committed)

\* The passphrase alone opens the vault: the newest manifest that the sidecar certifies
\* is the committed one, or it goes one change beyond it, wherever a recovery stops and
\* whatever other operations do ("the vault is never bricked by this window", between
\* the new manifest and the sidecar). Except (overtaken): a recovery that stopped later,
\* between the sidecar and the anchor, on a device that goes on with its old anchor,
\* and until its passphrase is changed, when the passphrase may open nothing at all;
\* and what is lost by taking up such a recovery. See the README for both.
ColdRecoverable ==
  committed # None /\ ~overtaken =>
    /\ Certified # {} /\ Readable(Matched)
    /\ Cardinality({f \in File : Matched.files[f] # committed.files[f]}) <= 1

\* The memory key of the committed .env is the one that the protected databases were
\* encrypted under: no enrolment, removal or recovery replaces it under them.
KeyKept == dep # None => committed.key = dep

\* The vault implements a register whose clients replace only what they have read: an
\* enrolment that two processes make at once is refused to one of them, never lost. A
\* recovery keeps all that was committed, except where it takes up another one that
\* this device has overtaken (Relapse): what was committed since is lost then.
Reg == INSTANCE VaultRegister WITH
  Client <- Proc, Content <- 0..MaxBlob, Empty <- [f \in File |-> Nothing], Absent <- None,
  map <- IF committed = None THEN None ELSE committed.files,
  key <- IF committed = None THEN None ELSE committed.wmk,
  view <- [p \in Proc |-> IF handle[p] = None THEN None ELSE handle[p].files],
  behind <- overtaken
RegisterSpec == Reg!Spec

-----------------------------------------------------------------------------
(* Why they hold: an inductive invariant.                                   *)

\* What an operation has still to do, by name. A recovery and an enrolment have the
\* same steps left once the manifest and the sidecar are written.
Stages == [free     |-> {<<>>},
           load     |-> {<<"load", "register">>},
           register |-> {<<"register">>},
           rotate   |-> {<<"rotate">>},
           protect  |-> {<<"protect">>},
           fill     |-> {<<"blob", "manifest", "anchor", "gc">>},
           enrol    |-> {<<"manifest", "anchor", "gc">>},
           recover  |-> {<<"manifest", "sidecar", "anchor", "gc">>},
           rewrap   |-> {<<"sidecar", "anchor", "gc">>},
           seal     |-> {<<"sidecar", "manifest", "anchor", "end">>},
           found    |-> {<<"manifest", "anchor", "end">>},
           flip     |-> {<<"anchor", "gc">>, <<"anchor", "end">>},
           close    |-> {<<"gc">>, <<"end">>}]
Stage(steps) == CHOOSE s \in DOMAIN Stages : steps \in Stages[s]
Steps == UNION {Stages[s] : s \in DOMAIN Stages}
Works == [todo : Steps, on : Manifest \cup Pins \cup {None}]
Doing(p, s) == Stage(op[p].todo) \in s

Writing == {"fill", "enrol", "recover", "rewrap", "seal", "found", "flip", "close"}

Operations ==
  /\ op \in [Proc -> Works]
  /\ \A p \in Proc : /\ Doing(p, {"load"}) => op[p].on \in Pins
                     /\ Doing(p, Writing \cup {"register", "rotate", "protect"}) =>
                          op[p].on \in Manifest
  /\ keys \in 0..MaxKey /\ written \in 0..MaxBlob /\ overtaken \in BOOLEAN

\* keyvault_lock around every write; the lease around what may change the memory key.
Excluded ==
  \A p \in Proc : /\ lock = p <=> Doing(p, Writing)
                  /\ lease = p => Doing(p, Writing \cup {"protect"})
                  /\ Doing(p, {"protect"}) => lease = p

OneChange(m, n) == \E f \in File, b \in 0..MaxBlob : n.files = [m.files EXCEPT ![f] = b]
Pin(m) == [wmk |-> m.wmk, gen |-> m.gen]

\* A manifest beyond the committed one, under the same wmk, is a commit that stopped
\* before its anchor: one change, with its ciphertexts.
Beyond(n) ==
  n.gen = committed.gen + 1 /\ OneChange(committed, n) /\ Held(n)

Generations ==
  /\ \A g \in 0..MaxGen :
       manifests[g] # None => manifests[g].gen = g /\ manifests[g].wmk <= keys
  /\ committed = None => /\ anchor = None /\ dep = None /\ ~overtaken
                         /\ \A n \in OnDisk : n.files = [f \in File |-> Nothing]
  /\ committed # None => /\ manifests[committed.gen] = committed /\ Held(committed)
                         /\ anchor # None => anchor = Pin(committed)
                         /\ \A n \in OnDisk : n.wmk = committed.wmk =>
                              n.gen <= committed.gen \/ Beyond(n)

\* The sidecar certifies what this device is committed to, or the one manifest of a
\* recovery that stopped before its anchor; when that is overtaken, only something of
\* a later generation, or nothing.
Certifies ==
  /\ sidecar # None => sidecar <= keys
  /\ committed = None => \A m, n \in Certified : m = n
  /\ committed # None /\ ~overtaken =>
       \/ sidecar = committed.wmk
       \/ \E m \in Certified : /\ m.gen > committed.gen /\ Held(m)
                               /\ OneChange(committed, m) /\ \A n \in Certified : n = m
  /\ overtaken => /\ sidecar # committed.wmk
                  /\ \A m, n \in Certified : m.gen > committed.gen /\ m = n

\* Nothing but a new anchor is missing.
Written(m) ==
  /\ manifests[m.gen] = m /\ (Held(m) \/ Relapses(m))
  /\ \A n \in OnDisk : n.wmk = m.wmk => n.gen <= m.gen
  /\ sidecar = m.wmk \/ overtaken

Enrolling == \A p \in Proc : Doing(p, {"fill", "enrol"}) =>
  /\ committed # None /\ handle[p] = committed /\ anchor # None
  /\ op[p].on.gen = committed.gen + 1 /\ op[p].on.wmk = committed.wmk
  /\ OneChange(committed, op[p].on)
  /\ Doing(p, {"enrol"}) => Held(op[p].on)

Recovering == \A p \in Proc : Doing(p, {"recover", "rewrap"}) =>
  /\ Held(op[p].on) \/ overtaken
  /\ op[p].on.wmk <= keys /\ op[p].on.wmk # sidecar
  /\ \A n \in OnDisk : n.wmk = op[p].on.wmk => n = op[p].on
  /\ \A n \in Certified : n.gen < op[p].on.gen
  /\ committed = None => op[p].on.files = [f \in File |-> Nothing]
  /\ committed # None => /\ op[p].on.gen > committed.gen /\ op[p].on.wmk # committed.wmk
                         /\ OneChange(committed, op[p].on) \/ overtaken
  /\ Doing(p, {"rewrap"}) => manifests[op[p].on.gen] = op[p].on

Founding == \A p \in Proc : Doing(p, {"seal", "found"}) =>
  /\ committed = None /\ OnDisk = {}
  /\ op[p].on.files = [f \in File |-> Nothing] /\ op[p].on.wmk <= keys
  /\ Doing(p, {"found"}) => sidecar = op[p].on.wmk

Flipping == \A p \in Proc : Doing(p, {"flip"}) =>
  /\ Written(op[p].on)
  /\ committed = None => op[p].on.files = [f \in File |-> Nothing]
  /\ committed # None => OneChange(committed, op[p].on) \/ Relapses(op[p].on)
  /\ committed # None /\ op[p].on.wmk = committed.wmk => handle[p] = committed
  /\ overtaken /\ ~Relapses(op[p].on) => /\ op[p].on.wmk = committed.wmk
                                         /\ \A n \in Certified : n.gen > op[p].on.gen

Closing == \A p \in Proc : Doing(p, {"close"}) => committed = op[p].on /\ Written(op[p].on)

\* Who is about to commit another memory key has the lease, and no database depends on
\* the key; a conversion has the lease, and the committed key.
KeyGuarded ==
  \A p \in Proc :
    /\ Doing(p, Writing \ {"close"}) /\ (committed = None \/ op[p].on.key # committed.key) =>
         lease = p /\ dep = None
    /\ Doing(p, {"protect"}) =>
         committed # None /\ op[p].on.key = committed.key /\ op[p].on.key # Nothing

VInv == /\ TypeOK /\ Operations /\ Excluded /\ Generations /\ Certifies
        /\ Enrolling /\ Recovering /\ Founding /\ Flipping /\ Closing /\ KeyGuarded /\ KeyKept
=============================================================================
