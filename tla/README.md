# TLA+ models of Hermes Mordred

Hermes Mordred is a plug-in for the Hermes agent that protects a profile: it
encrypts the agent's databases, routes its traffic through Tor or a VPN, keeps
credentials under hardware keys, and guards what leaves the machine. The code
is Python (`src/src/mordred_hermes/`, 128,000 lines) with small native helpers.
This directory holds TLA+ specifications of the parts whose correctness
depends on the order in which threads, processes and crashes take their steps,
TLC configurations that check them, and proofs checked by TLAPS.

Contents: [inventory](#inventory), [modules](#modules),
[runs](#runs-and-bounds), [fairness](#fairness), [proofs](#proofs),
[findings](#what-the-models-found), [limits](#what-is-not-modelled),
[plan](#plan). Paths below are relative to `src/src/mordred_hermes/` unless they
start with `src/`.

## Inventory

### Data protection at rest

| component | state | operations | who interacts |
|---|---|---|---|
| database leases (`_core/_database_lifecycle.py`, `_core/_database_locking_posix.py`, `dbcrypt/_locking.py`) | `_READERS`, `_WRITERS`, `_HANDLES` per process; one `flock` per open description; `_LEASES` for the process's lifetime | acquire shared / exclusive, release, keep for life, fork callbacks, exit | every process that opens or maintains a home |
| conversion and recovery (`dbcrypt/_migrate.py`, `_maintenance.py`) | databases, sidecars, staging and retained files, marker, schedule, journal | encrypt, decrypt, adopt, restore, resume | runtimes under the shared lease, foreign SQLite processes without one |
| startup (`dbcrypt/_startup.py`, `_shim.py`, `_runtime.py`) | schedule, `startup-conversion.json`, the start's local reads | schedule, cancel, convert at start, postpone, run plain or keyed | desktop page, CLI, maintenance, other starts |
| connections (`dbcrypt/_authority.py`, `_connection.py`) | terminal flag, registered handles, operation count, per-handle `active/closed/revoked`, three kinds of locks | open, use, close, drop, reap, revoke | threads of a runtime; the lease under them |
| backups (`dbcrypt/_backup.py`) | registry, backup journal, external staging | backup, recover, abandon, restore, delete, export | the same lease |
| vault and anchor (`keyvault/vault.py`, `anchor.py`, `vault_master.py`) | generations of a manifest, blobs, recovery sidecar, the device anchor | init, open, enrol, unenrol, change passphrase, recover | several processes, an operator at a prompt, conversions that rely on the memory key |
| keyvault keys and reset (`wizard/_keyvault_reset.py`, `keyvault/_reset_*.py`, `_mail_custody.py`, `_telegram_custody.py`) | native keys, sealed sources, forget journals, the reset journal | initialise, enrol, retire, reset in stages, retry, repair | mail and Telegram synchronisation, exclusive lease |
| memory protection (`keyvault/_memory_hook.py`) | held key, wrapped file functions | install hook, encrypt, decrypt, presence loss | the agent's file access |
| audit log (`keyvault/log_encryption.py`, `privacy_check/audit.py`, `_core/_log_rotation.py`, `_core/_audit_support.py`) | active file with header and data key, rotated files, one writer per process | make a writer, append, rotate, compress, sweep, purge, decrypt | several processes, keyvault initialisation and reset |

### Network

| component | state | operations | who interacts |
|---|---|---|---|
| runtime (`network/runtime.py`) | path state machine, handle, frozen route, liveness counters, managed environment, two locks, one worker thread per route | use, freeze, stop, health, worker loop | hooks, CLI |
| session hooks (`network/hooks.py`, `_registration.py`, `api.py`) | published runtime, policy and configuration read from disk | register, session start, tool and request checks, exit | whoever edits the policy |
| paths (`network/paths/`) | daemons | bring up, tear down, probe | runtime |

### Connectors, guards and user interface

| component | state | hard part |
|---|---|---|
| mail fetch and import store (`imports/`) | writer lock, `FetchLease`, open runs, SQL store, cursors | a caller that abandons a worker which may still write; runs stopped after any batch |
| Telegram (`extension/telegram/`) | session, archive segments and checkpoints | a sync across a reset or forget |
| extension pairing and E2E (`extension/pairing.py`, `webauthn.py`, `api.py`, `e2e.py`) | one-time codes, pairing state, WebAuthn credential, connections, replay evidence | two claims, cancel against commit, authentication over files that change, full cache |
| gateway plug-in, chat, wallet, RPC (`extension/`) | wrapped adapters, history blob | mostly per-request transformation |
| activity (`activity/`) | SQL store, capture sessions | replayed batches, retention |
| LLM guard (`llm_guard/`) | prompt verdicts per process | one decision per request |
| privacy check (`privacy_check/`) | policy, audit | rules over a request |
| desktop (`desktop/`) | ceremony lock, prepared flows, jobs | an operation that outlives its request |
| wizards (`wizard/`) | set-up, uninstall, policy writer, update | long sequential procedures that call the above |
| files (`_core/_config_io.py`, `_private_fs/`) | file locks, atomic replace, identity checks | read-modify-write by several processes |

### What makes each component correct

* Leases: no maintenance scope beside any other scope; a forked child is covered.
* Conversion: a runtime runs only over files of its format; no crash loses the
  original; nothing is armed or swapped unverified; recovery ends.
* Startup: no plain start over a begun conversion; one dead prompt does not
  hang every respawn; a cancelled schedule stays cancelled.
* Connections: the lease outlives every native handle; revocation ends.
* Network runtime: one switch at a time although a lock is let go in the middle;
  a drop is charged to the route that failed; environment, handle and daemons
  agree.
* Session hooks: nothing strict on a route sealed by weaker rules; a drop is final.
* Reset: it removes only what it recorded, all of it before it says so, and a
  retry gets to the end.
* Vault: device and passphrase open the generation that was committed last; no
  writer's change is lost; protected databases keep the key they need.
* Mail: one writer at a time, an abandoned one included; a cursor claims nothing
  that is not stored.
* Pairing: what the terminal said of a code holds, a code pairs once, a principal
  was proven against what is in force, a command is not released twice.
* Audit log: formats, data keys and generations do not mix in a file; an entry
  whose append returned is not lost to a rotation; no call waits for ever.
* Planned ones: see [plan](#plan).

## Modules

`DbHome`, `NetRoute` and `VaultRegister` are abstract specifications: what a component promises.
The others follow the source, one action per step that another thread, process
or crash can see. Each has an MC module, which adds a symmetry set where no
liveness is checked, and one to three configurations.

    DbHome  <-- implemented by -- DbMigration        NetRoute <-- NetRuntime
            <-- implemented by -- DbStartup                   <-- NetSession (uses its variables)
    DbLease     the lock all of them rely on
    DbConnection   handles under one shared lease
    KeyvaultReset  staged erasure under one exclusive lease
    VaultRegister  <-- implemented by -- VaultCommit
    MailLease      one writer at a time; under it, one run of MailCursor
    Pairing        codes, state.json, a connection, replay evidence
    AuditLog       what writers do to the files of the log

### DbLease

One process is its set of threads, its registries (`readers`, `writer`,
`handles`, `life`) and `hook` while its at-fork callbacks have not run. The
kernel is `flock` (a lock per open description) and `refs` (who has a descriptor
on it), so that a fork shares a description and a close unlocks only with the
last descriptor. `OpenRuntime`, `RegisterRuntime`, `AcquireRuntime`,
`ReleaseRuntime` are the steps of `acquire_runtime`; the exclusive ones are those
of `acquire_exclusive` with its re-entry; `NativeClose` is the close outside the
lock; `Fork`, `CoreAfterFork`, `Rejoin`, `NoLeaseToRejoin` the fork and both
callbacks; `KeepForLife`, `ShutdownLease`, `Exit` the lifetime lease. A blocked
thread is a disabled action; a timeout is `RuntimeBusy`.

### DbMigration (and DbHome)

Variables are what recovery can find on disk (databases, identities relative to
the journal, sidecars, staging, retained originals, marker, schedule, journal),
the program counter of the one maintenance process, the formats admitted, and a
foreign SQLite process per path that holds no lease. Contents are reduced to
whether a copy lacks a commit of its original (`behind`, `lost`, `raced` are
ghosts). Both publication modes of the platforms (`os.replace`, and move aside
then publish) are modelled, as are legacy adoption and restore. `Crash` may
happen at every step; `Resume` starts over from the journal, and refuses as the
inventory of the code does: a sidecar without its database (`SidecarsKnown`), or a
file that the journal does not name. `HomeSpec` says
that the whole implements `DbHome`: formats change only while the home is
closed.

### DbStartup

A starting process goes through `gate`, `clear`, `work`, `judge`, `attempt`,
`postpone`, `share`, `strict`, `admit_*` as `run_scheduled_conversion` and the
runtime's admission do; each read of the intent files is one step. The
conversion inside is cut down to the records that other starts look at. `Page`
schedules and cancels, `Maintenance` runs the commands, `Die` ends any process
anywhere, above all in the prompt of the custody. The ghosts `hung` and `swept` say
that a prompt hung, and that a start has swept the record of the schedule away
(`ClearStale`, which holds no lease). It implements `DbHome` too.
The file `db-decryption.pending` is never written by this version and is left
out.

### DbConnection

Threads open, use, close and drop handles of one authority and one of them
revokes it. A call stack of depth two is enough (`at`, `back`, `then`, `victim`,
`todo`): revocation calls into each handle, disposal calls back into the
authority. Locks that are held over other steps (`alock`, `io`, `olock`) are
variables; the state lock covers single steps. `Change` alters the metadata
that the authority checks at each admission.

### NetRuntime (and NetRoute)

Callers of `use` and `stop` take `_operation_lock` and then `_lock`; `join` is
the window in which `_stop_worker_during_switch` has let `_lock` go. Every
bring-up has its own number and its own worker, so that a worker that is stuck in
a probe can meet a newer route. `probed`, `healthy` are the worker's local
variables over the unlocked probe; `proxy` is the managed environment; `Die` is a
daemon that dies. `RouteSpec` states that a frozen runtime implements `NetRoute`:
one route, one environment, dropped or ended for good.

`TeardownCurrent` ends the daemon or fails to: the code logs that and forgets the
handle, and the run is then in the ghost `left`.

A worker that is not inside a probe is assumed to end within the two seconds of
its join; a worker inside a probe may outlive it.

### NetSession

Registration (`Boot` and its steps), then hooks of three kinds (session start,
tool or terminal check, request wrapper) by several actors, over a policy file
and a configuration file that are edited between the reads. The route is the
abstract one of `NetRoute`; operations that meet a held operation lock are
refused. "off" is handled as "lenient" by this code and has no mode of its own.

### KeyvaultReset

The journalled reset with stages `database`, `mail`, `telegram`, `keys`,
`files`. An observation (device, inode, mode, owner, digest) is only ever
compared, so a recorded object is still "own", "none" or "other". The forget
journals of both components, the native key's deletion, its acknowledgement and
the removal of its source are single steps. Beside it: enrolment, repair of an
orphan key, initialisation, an account that is forgotten with or without its rows
(`ForgetAccount`, which may die on the way), files that are imported without any
account (`ImportFiles`), the synchronisations of mail and Telegram, and a
change by hand between attempts or while the prompt is open. `Crash` stands for
a death and for a call that fails; `Managed` says whether databases are
protected, that is, whether a sync holds the runtime lease. History without an
account and a journal of the older version 2 are possible initial states.

### VaultCommit (and VaultRegister)

The files under the vault's root (`manifests`, `blobs`, `sidecar`), the device
`anchor`, the vault's lock and the exclusive database lease. An operation is the
list of the writes that it still has to make (`op[p].todo`) on the manifest it
has built; each write is one step, `Stop` fails or kills an operation between any
two of them, and `FlipAnchor` is the commit. `ReadAnchor`, `Load` and `Register`
are the unlocked open, so that a writer's garbage collection can come in between.
`Commits` is `_commit_new_manifest` up to its first write: current handle and,
when the memory key changes, the lease and no protected database. `AskRotation`
and `Rotate` are `change_passphrase` on both sides of the prompt.
`RecoverToDevice` re-keys a vault; `MoveToNewDevice` copies its directory.
A recovery that died between its sidecar and its anchor leaves a device that may go
on with its old anchor: `overtaken` is true from its next manifest until the passphrase
is changed, or until that recovery is taken up by another (`Relapses`), and `lost` has
the ciphertexts that had been collected by then.
`RegisterSpec` states that all of it implements a register that clients change
only from the value they have read, and whose `Relapse` is the one way to lose a change.

### MailLease

Workers of a fetch (`at`), the lock file, the store's one write transaction, and
per fetch the `FetchLease` (`abandoned`, `settled`, `writes`, `release`, `runs`)
and the thread that abandons it (`revoker`). Each guarded write has its steps
outside and inside the transaction (`BeginWrite`, `OpenTxn`, `Commit`, `EndWrite`;
`OpenBatch`, `CommitBatch`, `FailRun`), because the abandonment comes in between.
`Drain`, `Revoke` and `Release` are `FetchLease.abandon`, and `Settle` is the
tool's answer at its bound. Deadlines pass at any moment. The record of the own
addresses is the one write whose transaction takes no guard.

### MailCursor

One mailbox: the server's UIDs, days and UIDVALIDITY, the stored messages, the
forward and the backfill cursor, and the run that is going through `forward`,
`widen` and `extend`. A batch of any size is committed with its cursor in one
step. `Stop` ends the run after any of them, for whatever reason; the next run
may have another `--since` and another limit. Mail is delivered and expunged in
between, messages may be too large, and the server may renumber.

### Pairing

The files of the extension: `pending`, `state`, `cred`. Each read-modify-write
of theirs is under one lock that the processes share and so is one step; a
handler takes several. The handshake of a code (`PairInit`, then `Commit`,
`CommitUnsure` or `Reject`, and `Mark`) runs on an executor thread beside the
connection; the terminal's side is `Generate`, `Poll`, `Withdraw`, `Observe`, and after its grace
period `Poll` reports a claimed code without an outcome as "assumed" paired, as the
terminal does. The connection authenticates in the reads of `_on_auth` (`Auth`, `AuthNeed`,
`AuthAssert`, `AuthEnd`) and is refused by `Refuse` when the files have another
fingerprint. `SignPrompt` and `SignApprove` are the prompt that outlives a frame.
A pairing is its number, a credential too, and a fingerprint is both. Evidence
of replayed commands ages by `Tick`. One connection is modelled in full; others
do what they do to the files.

### AuditLog

The active file (`active`), its rotations (`rotated`: date, number, and whether
raw, compressed or still being compressed), the two locks, the keyvault with its
generation `epoch`, and per process its writer: `kind`, the data key `mine`, the
generation it was made in (`lease`), the `last` date it saw. A data key is a
number, so that a line can be compared with the header above it. An append is
`Submit` (the timestamp), `EnterVault`, `EnterEncrypted` or `EnterPlain`, the
steps of a rotation if there is one (`Rename`, `Compress`, `Compressed`,
`UnlinkRaw`, `Sweep`), those of a new file (`Create`, `WriteHeader`), and
`WriteSome`, `WriteRest`; `StepFails`, `CompressFails`, `HeaderFails` and
`WriteFails` are their error paths, `Die` a death anywhere. `MakeEncrypted`,
`MakePlain` and `FallBack` are the three outcomes of `make_audit_writer`.
`InitVault`, `PrepareReset`, `FinishReset`, `Purge` and `Midnight` happen around
them. A header or a line is written in two parts; what is appended behind a cut line
is on that line.

## Runs and bounds

| run | module, cfg | question | bounds |
|---|---|---|---|
| lease | MC_DbLease | `Exclusion`, `LifetimeCovered` | 3 processes of 2 threads, 3 descriptions, depth 2 |
| migration | MC_DbMigration | admission, arming, originals, commits, `SwapsOnlyVerified`, `DbHome`; deadlock | 2 databases, both publications, 1 crash, foreign writers |
| recovery | MC_DbMigration, MC_DbRecovery.cfg | does recovery end? | 2 databases, 1 crash, no foreign writers |
| startup | MC_DbStartup | `RunsMatchHome`, `OutcomesInOrder`, `DbHome`; does every start end? | 2 processes, 1 page, 1 maintenance |
| connection | MC_DbConnection | `HandlesAccounted`; does revocation release, do calls return? | 2 threads, 2 handles |
| net_runtime | MC_NetRuntime | `DropIsEarned`, `NoStrayRoute`, `NetRoute` | 2 callers, 2 routes, threshold 2, modes "off" and "strict", kill switch |
| net_session | MC_NetSession | strict sessions on strict routes, final drop and end | 2 actors, 2 edits |
| reset | MC_KeyvaultReset | `WithinConsent`, `CompletesErased`, `NoNewOrphan`, `NoSyncOutlives`; does a retried reset end? | 2 keys, 2 files, 2 crashes, 1 change by hand |
| vault | MC_VaultCommit | `CommittedReadable`, `ColdRecoverable`, `KeyKept`, `VaultRegister` | 2 processes, 2 files, 4 generations, 3 master keys, 2 ciphertexts, 2 failures |
| mail_lease | MC_MailLease | `FencedWrites`, `TruthfulAnswer`; is the lock given back? | 2 fetches, 2 writes each after the sweep |
| mail_cursor | MC_MailCursor | `CursorsCovered`, `CompleteMeansAll`, `CursorAdvances` | 4 messages, 3 days, 1 oversize, limit 2, 2 UIDVALIDITYs |
| pairing | MC_Pairing | `ReportsHold`, `SingleUse`, `PrincipalProven`, `NoReplay`; deadlock | 2 codes, 2 credentials, 2 commands, room for 1 |

`AuditLog` is proved about rather than run with the others: its six invariants are
theorems. Its configurations are kept for whoever changes it: `MC_AuditLog.cfg` (a
failure) and `MC_AuditCrash.cfg` (a death) check `NoSplice`, `OneGeneration`, `AckKept`,
`NamedNoEarlier`, `QuietIsWhole` and `CutIsTheEnd` with 2 processes, 3 entries, 2 in a
file, 2 days, retention 0 and 1 reset, over some two million states each;
`MC_AuditAnswer.cfg` checks `Answered`, with 2 entries, 1 in a file, 1 failure and 1
death.

Why these bounds are enough to see the cases that matter:

* Leases: a parent, a child and a stranger are the roles; two threads per process
  let one fork while the other is inside a step; three descriptions are one per
  simultaneous acquisition that can conflict. The proofs drop the bounds, except
  that the depth of re-entry stays a parameter.
* Migration: with two files one can be swapped and the other not, which is what
  arming and recovery are about. One crash suffices for "a crash at any step, then
  recovery"; a crash of the recovery is a resume of a state that the first crash
  can also leave. The proofs hold for any number of files and crashes.
* Startup: one process in flight and one that waits for it, judges it or follows
  it after it died; the page and the maintenance command come on top of them.
* Connections: the revoker, a user of a handle and an opener; two handles let a
  revocation be in the middle of its list.
* Network runtime: a second route is needed to confuse it with the first, and a
  third adds nothing a worker of an old route could do to a new one. A threshold
  of two separates "one failure" from "dropped". The code asks of a mode whether
  it is "strict" (a failed bring-up refuses) and whether it is "off" (the user's
  proxy stays), in different places: "off" and "strict" give both answers to both.
* Session: two edits are an edit and its undoing between two reads.
* Vault: two writers are one that is left behind and one that went ahead; three
  master keys are the initial one, a recovery, and a recovery of that; two
  ciphertexts replace each other under one name or stand under two. A recovery that
  is overtaken and then taken up needs all three master keys and two failures, and
  `lost` is not empty in some states of the run.
* Mail lease: the fetch that is abandoned and the one that takes its place. Two
  writes allow a run and its batch, or two other writes, after the sweep. The
  theorem holds for any number of either.
* Mail cursor: four messages are one oversize, and one for each of the ranges
  above the forward cursor, between the cursors and below; three days separate
  two requests and the rest; a limit of two stops a run inside a range.
* Pairing: a code that is superseded and the one that supersedes it. Two
  credentials let one be replaced during an authentication. With room for one
  command and two commands the evidence is full at once. The theorems hold for
  any number of codes.
* Audit log: one writer that is left behind with its data key and its date, and
  one that went on. Three entries are one by each and one by the first again, which
  is when it uses what it remembers; two entries fill a file, so that a file may hold
  one of each. A reset and an initialisation after it are two generations. The
  theorems hold for any number of all of them.
* Reset: two keys and two files let a stage be half done; two crashes let a retry
  die as well. An object that was changed by hand makes a reset refuse until
  the user has dealt with it, so `RetryCompletes` makes no promise then.

Deadlock is checked in `migration` and `pairing`, where some process can always go on,
and in `recovery`. The other systems may stop: every process may exit, the network may
be ended, a reset may be complete.

The mutants in `PROJECT.json` pair every property of the passing runs with a
plausible bug (a dropped check, a swapped order, a lock not kept) in a definition
that follows the code; each makes TLC report that very property.

## Fairness

* `RecoverySpec` (DbMigration): weak fairness of the steps of a live maintenance
  process and of `Resume`. A process that runs goes on, and an interrupted home
  meets another recovery at its next start. Crashes are not fair and are bounded.
* `LiveSpec` (DbStartup): the steps of a start are weakly fair. The conversion is
  not: it may wait in a prompt for ever. A start still ends, because its wait for
  the lease has a deadline, which is the point of `StartEnds`.
* `LiveSpec` (DbConnection): thread steps are weakly fair, and so is `Cease`,
  after which the application starts no more calls. Python's locks promise nobody
  a turn, so without it a thread could be passed over for ever.
* `LiveSpec` (KeyvaultReset): the user retries (`Start`, weak) and often enough
  confirms (`Confirm`, strong, because an attempt may also die at the prompt and
  the action is then disabled for a while), what runs goes on, the orphan that is
  reported is repaired. Declining and dying are not fair.
* `Spec` (MailLease): the worker and the abandoning thread of each fetch are
  weakly fair. Every wait of a worker has an end: sockets, the resolver and the
  store have timeouts. Abandoning is not fair, nobody has to.
* `FairSpec` (AuditLog): the steps of an append are weakly fair. The holder of a
  lock is in an append of its own and goes on or dies, and entries are bounded, so
  that a weak promise is enough. Calls, exits and resets are not fair.
* `NetRuntime`, `NetSession`, `DbLease`, `VaultCommit`, `MailCursor` and `Pairing`
  are checked for safety only and state no fairness.

## Proofs

`DbAccessProofs` (DbLease and DbStartup; 1285 obligations), `DatabaseProofs` (DbMigration
and DbConnection; 3807), `KeyvaultProofs` (VaultCommit and KeyvaultReset; 4253),
`MailProofs` (MailLease and MailCursor; 2036), `NetRuntimeProofs` (1566), `NetSessionProofs`
(704), `PairingProofs` (536) and `AuditLogProofs` (2751) are checked with SMT, Zenon and
LS4; liveness, `ENABLED` and recursive operators stay with TLC. Every inductive
invariant was an invariant of a run before it was proved.

**DbLease.** For any sets of processes, threads and descriptions:
`LeaseTypes` (type correctness), `LeaseExclusion` and `LeaseLifetime`. Assumptions:
`None` is no thread or handle, and the depth of re-entry has a positive bound.
Neither property is inductive. `Exclusion` speaks of registries, and the registries
exclude only within a process; between processes the kernel does, and it knows
descriptions, not threads. The strengthening `IInv` says how they are tied:
a thread inside a scope owns one description that nobody else uses
(`OwnsItsDescription`), an exclusive description is alone (`KernelExclusion`), a
scope that was handed its lease carries its lock (`LeaseBacked`), the registries
name exactly the threads inside (`RegistriesAgree`), and a process in its fork
callbacks is in no scope (`QuietOutside`). The fork is the delicate step: the
child shares descriptions with its parent, and the invariant survives because it
owns none of them.

**DbMigration.** For any set of databases, any bound on crashes, both publication
modes, with or without foreign writers: `MigrationTypes`, `MigrationAdmits`
(`AdmittedMatches`) and `MigrationKeepsHome` (the refinement of `DbHome`). The
invariant follows the journal: which steps belong to which journal
(`StepsFollowJournal`), admission only without maintenance and matching the marker
(`AdmissionFollowsMarker`), the journal names every file there is
(`JournalCovers`), after the verification of the survivors a missing staging file
means a published copy (`SurvivorsKept`), and the swaps leave no file behind
(`SwapProgress`). The last two are what makes the removal of the journal a legal
`Reopen` of `DbHome`: at that moment every file has the format of the marker.
One lemma per action shows that it keeps the invariant, one per action that it is
a step or a stutter of `DbHome`.
`MigrationArmsTheWhole` (`ArmsTheWhole`), `MigrationKeepsOriginals`
(`OriginalReachable`), `MigrationLosesNothing` (`NoSilentLoss`) and
`MigrationSwapsVerified` (`SwapsOnlyVerified`) need more: what the process knows of
its copies, and where a foreign commit can be seen. From verification on every copy
that is still staged is complete (`CopiesComplete`); a connection to a displaced inode
was opened after the holder scan (`HoldersKnown`); and whatever a copy lacks shows in
the revision or the WAL of its source, or in the original that lies aside, or was
written through such a connection (`CommitsShow`). `EInv` is the conjunction, inductive
relative to `IInv`. A crash keeps it, because it speaks of the journal and the disk
wherever recovery may start, and of the process only where it is at work.

**DbStartup.** For any set of processes: `StartupInvariant`, `StartupMatchesHome`
(`RunsMatchHome`), `StartupOrdersOutcomes` (`OutcomesInOrder`) and `StartupKeepsHome`
(the refinement of `DbHome`). `Nobody` stands outside the processes. What a start
decides it decides on files that it has read earlier, so the properties rest on what
cannot have changed since. In `SInv` whoever works on the files holds the exclusive
lease and no runtime is admitted beside it (`StartupTypes`); a conversion that is past
its first write has a journal on disk, so that its death is seen (`JournalOpen`); a
guard is in force only between the record of the attempt and that journal
(`GuardHolds`); and a prompt nobody answered has left its schedule and, unless it was
swept away, its record, and nobody at work (`HungWaits`), by which the next start judges
it. The exclusion of the leases is a guard in this model; it is proved in DbLease.

**DbConnection.** For any finite set of threads and any set of handles:
`ConnectionInvariant` and `ConnectionAccounts` (`HandlesAccounted`). Assumptions:
`Nobody` is no thread (`ThreadAssumption`), nor a handle (`HandleAssumption`). A handle
changes hands several times between its opening and its close, and no lock covers
the whole way, so `HInv` says for each native handle that is open who will close it
(`Tracked`): it is registered, on the list of the revoker, being closed, in the
hands of its opener, or in use by a scope that ends with its disposal (`Answerable`). The
rest keeps that answer true: what a caller does follows the facade it has
(`FacadeSays`), one scope at a time is open on a handle and none on one that is to be
disposed of (`ScopesOpen`), a handle that was claimed is being closed (`Claimed`), the
locks belong to the thread whose stack says so (`IoHeld`, `OwnersLocked`), one thread
revokes (`OneRevokes`), and the lease goes with the last counted thread, after which no
handle is open (`OpsCounted`, `LeaseHeld`). The count is a cardinality, which is why the
set of threads must be finite.

**MailLease.** For any number of fetches and writes: `LeaseTypes`, `LeaseFences`
(`FencedWrites`) and `LeaseTruthful` (`TruthfulAnswer`). Assumptions: `None` is no
fetch, and the bound of the writes is a number. The invariant has a worker at work hold
the lock unless its lease let it go (`LockAt`), and the lease lets go only with a
verdict: no counted write in flight (`CountedAt`, `Drained`), the open run failed
(`RunAt`), and the flag set before either (`FlagSet`), so that nothing is left that
could commit (`Quiet`). The answer to the caller has an invariant of its own: it is
given after the flag (`Told`, `Flagged`), and a worker hands its lock to the lease only
while the flag is not set (`Handed`).

**MailCursor.** For any number of messages, days and renumberings and any limit:
`CursorInvariant`, `CursorCovered` (`CursorsCovered`), `CursorComplete`
(`CompleteMeansAll`) and `CursorOnward` (`CursorAdvances`). A cursor is
moved batch by batch by a run that works off a list it asked the server for earlier,
while mail arrives and is expunged. `CInv` relates the cursor to the list: a message
the cursor has not passed is still on the list of the walk or lies beyond it
(`Forwarded`, `Backfilling`), for each of the two walks (`ForwardWalk`, `BackWalk`),
and what the cursors claim holds between runs (`CursorsClaim`).

**Pairing.** For any sets of codes and commands and any number of credentials:
`PairingReports` (`ReportsHold`), `PairingSingleUse` (`SingleUse`), `PairingProven`
(`PrincipalProven`) and `PairingNoReplay` (`NoReplay`). Assumptions: `Nobody` is no code; codes do
not repeat, which is in `Generate`. A committed code is neither deriving nor
unclaimed (`Spent`), an entry is annotated "paired" only after the commit
(`Credited`), and a code that was called failed has an outcome that nobody takes
back, or is gone (`Told`), while of a code that is only assumed paired nothing is
claimed; `Issued` keeps a gone code from coming back. For the
connection: pairings and credentials are numbered upwards (`Numbered`), so that a
fingerprint the files have left does not return (`Onward`), and an authentication
whose assertion was of another credential holds a fingerprint that can no longer
match (`Proving`). For the evidence: a command that was released within the time
to live is in it with its age (`Ageing`).

**AuditLog.** For any number of processes, entries, days, resets, failures and deaths:
`AuditWriters`, `AuditNoSplice` (`NoSplice`) and `AuditOneGeneration` (`OneGeneration`).
The hypothesis `Distinct` says that the values `None` and `NoFile` stand for neither a
process nor a file. A line agrees with its file (`Fit`), but what goes wrong goes wrong
before: in what a writer remembers while it holds no lock. So the invariant ties every
remembered key to the files: no key is above the last one drawn, and whatever file has a
writer's key is of the generation that the writer was made in (`Owned`). Inside an
append the sidecar keeps everybody else out and the lifecycle lock keeps the keyvault in
that generation (`Held`), and each place of the append says what stands in the directory
(`Placed`). The step that writes a line then joins the three. A lemma per action, with
one for all steps that end an append and one for all that touch only rotated files.

The other four are proved relative to that invariant. Most steps write nothing (`Calm`),
so each proof has one lemma for these and one for each that writes (`Writes`).
* `AuditCuts` (`CutIsTheEnd`). Keys are not shared (`KeysApart`), and a log with a cut has
  lost its writer, but for the line being written (`CutsAbandoned`); nobody else can go
  on in it, having another key.
* `AuditNames` (`NamedNoEarlier`). No line is of a day to come, and an encrypted log has none
  after its writer's last date, nor after the day it is about to be named for
  (`LinesDated`); for that, the date of an entry is followed from its submission to the
  line (`EntriesDated`).
* `AuditAcked` (`AckKept`), for any retention that is a number of days. Entries are
  numbered, and the entry of an append is in no file but for the line it is writing
  (`Numbered`, `LinesNumbered`); no file is older than an entry in it, which is what the
  sweep looks at (`FilesYoung`); when a raw file may go, its copy holds what it holds
  (`CopiesHold`); and a rename overwrites nothing, as there are fewer files than
  numbers to try (`SlotFree`).
* `AuditQuiet` (`QuietIsWhole`). While nobody has died, what is not whole is being written
  by an append that holds the lock (`CutHeld`), and two files of one name are the two
  ends of a compression whose maker still holds it (`NamesOnce`).

**NetRuntime.** For any number of threads, bring-ups and tolerated failures:
`RuntimeInvariant`, `RuntimeDropIsEarned` (`DropIsEarned`), `RuntimeNoStrayRoute`
(`NoStrayRoute`) and `RuntimeKeepsRoute` (the refinement of `NetRoute`). The two
properties look inductive and are not: they say nothing of the middle of a switch,
where the old worker may still be in a probe. `RInv` adds who holds the two locks
(`LocksHeld`), what a switch has already undone at each of its steps, and that none
starts once the route is frozen (`SwitchOrder`); every worker but the one of the route
in force was told to stop, and can only be in the probe it was in (`WorkerOrder`), so that
what is counted was counted by the right one (`Counts`). A daemon is gone, or its
tear-down failed (`left`); the lemmas `TornDown` and `TearsDown` serve the two steps
that end one. `RouteSpec` follows from
`SwitchOrder`: only the owner of the operation lock changes a route, and not a frozen
one.

**NetSession.** For any number of threads and of edits: `SessionInvariant`,
`SessionStrict` (`StrictOnStrictRoute`) and `SessionNoWayBack` (`NoWayBack`). Here
the files change under the reader, and the proof says what an admitted call can still
know. While the policy on disk is strict, every mode read since is strict, so a
comparison that succeeds shows a strict seal (`StrictReads`); while no file is edited
all reads give one path (`QuietReads`). Neither is enough without the order of
registration (`BootOrder`) and of the hooks (`HookOrder`); a route that had dropped or
ended when a call began stays so until its end (`NoReturn`).

**VaultCommit.** For any number of processes, files, keys, generations and deaths:
`VaultInvariant`, `VaultCommittedReadable` (`CommittedReadable`), `VaultColdRecoverable`
(`ColdRecoverable`), `VaultKeyKept` (`KeyKept`) and `VaultKeepsRegister` (the refinement
of `VaultRegister`), for every recovery that the code lets through. `NoneAssumption`
says that `None` is not one of the values it stands beside. What has to hold at each
point of a commit depends on what is still to be written, so `VInv` follows the list of
remaining writes: it is one of thirteen stages (`Stages`), only the holder of the lock
is in one that writes (`Excluded`), and each stage says what is on disk already
(`Enrolling`, `Recovering`, `Founding`, `Flipping`, `Closing`). A manifest beyond the
committed one is a commit that stopped, one change further and with its ciphertexts
(`Beyond` in `Generations`); the sidecar certifies the committed manifest, or the single
one of a recovery that stopped (`Certifies`). Both survive garbage collection, which is
what the two readability theorems rest on. While such a recovery is overtaken the
sidecar certifies at most one manifest, of a later generation than the committed one;
what is taken up from there names only ciphertexts that are there or `lost` (`Held`).
Whoever is about to commit another memory key has the lease, and then no database
depends on the old one (`KeyGuarded`).

**KeyvaultReset.** For any sets of keys and files and any numbers of deaths and of
changes by hand: `ResetInvariant`, `ResetErases` (`CompletesErased`),
`ResetWithinConsent` (`WithinConsent`), `ResetNoOrphan` (`NoNewOrphan`) and, with
protected databases, `ResetNoSyncOutlives` (`NoSyncOutlives`). Its hypothesis `Managed`
is a restriction of the code's promise, see the findings. Assumption: `NoJournal` is not
a journal. An attempt believes its journal, so `KInv` says that the journal is right:
what it claims to be done is done (`JournalSays`, `JournalHolds`), nothing is there that
it does not name and an old one covers nothing of value (`Bound`), and the same of the
journal that waits for the person's consent (`PlanHolds`). Within an attempt each step
knows what the check before it has seen: in which stage it is (`StageOfStep`), that what
it is about to remove is its own or gone (`RetiringSays`, `KeysSay`), and what a stage
that asks to advance has left (`StageDone`). `SyncSays` keeps synchronisations out of a
reset that holds the lease. One lemma (`StepKeeps`) serves all the steps that only
remove, another (`Ends`) every way an attempt can stop, a death included; `Touches`
bounds what a step removes, which is what the two action properties are read from.

Only model-checked: the liveness properties. They rest on fairness and on when an action is
enabled, of which the provers here cannot reason. Every safety invariant, action
property and refinement that a run checks is a theorem.

## What the models found

Promises of docs, comments and tests that the code does not keep are stated in
the modules, each with a comment that says so. They are in no configuration; to see
the steps, check the named property with the constants given here.

**`DecryptFindsDay`** (AuditLog, as in `MC_AuditCrash.cfg`). `wizard/audit_cli.py:427`:
"the active ``audit.log`` holds the current UTC day until it rotates, so it is
included only when ``target`` is today".
1. A process appends an entry on one day; the log rotates at an append only.
2. The day ends. `audit decrypt --date` of that day opens the rotated files of that
   name, of which there are none, and not the active log, which holds the entry.

**`RotatesYesterday`** (AuditLog, as in `MC_AuditCrash.cfg`). `privacy_check/audit.py:195`:
"first append on a new UTC day rotates yesterday". The date that is compared is the
process's own (line 206).
1. Two processes have plaintext writers; the first has appended yesterday.
2. The second, new today, appends: it has no last date and rotates nothing.
3. The first appends and rotates the file, with today's entry, under yesterday's
   name. The encrypted writer does not: the file is no longer its own, and is
   rotated under today's (`NamedNoEarlier`).

**`NoStaleSidecar`** (DbMigration, one database, one crash, no foreign writers,
both publications). `dbcrypt/_migrate.py:391`: "left beside the replacement, a stale journal
would be rolled back into it".
1. A restore prepares its copy; the destination has commits in its WAL.
2. The copy is swapped in (`os.replace`), and the process dies before the sidecars
   of the displaced file are dropped.
3. Recovery finds no staging file and skips the swap with its clean-up
   (`_replace_swap`, line 1050), removes the journal, and the old WAL lies beside the restored
   database.

Of the recovery, two leftovers that make it refuse until a person has settled them, both
named in `RecoveryCompletes`. A conversion may die between the creation of a staging file
and the record of its inode (`UnrecordedStaging`). A restore that publishes by moving the
destination aside may die there: a WAL of the destination is then beside no database, and
every recovery ends at "unknown database sidecar" (`dbcrypt/_migrate.py:760`, called at
line 1125); or it dies when the copy has taken the destination's place, and the WAL of the
old file lies beside the new one (`RestoreLeftovers`). A conversion folds its WALs first.

**`RetryRepeats`** (KeyvaultReset, `LiveSpec`, two keys, one file, one crash).
`src/docs/user/QUICKSTART.md:399`: "A failed or interrupted native key deletion keeps its recovery journal,
and retrying reset repeats it". That is so for the keyvault's own keys.
1. A reset of Mail (or Telegram) writes the intent to delete its key and dies.
2. Every further attempt meets a forget journal that is still at "intent", and
   refuses it (`keyvault/_mail_custody.py:457`, `extension/telegram/tee.py:327`). The reset stays pending.

**`CommittedReadable`, `ColdRecoverable` and `RegisterSpec` without their exceptions**
(VaultCommit, as in `MC_VaultCommit.cfg`; put `blobs` for `blobs \cup lost`
in `Held`, or drop `~overtaken`, or drop `Relapse`). `keyvault/vault.py:661-664`: "the anchor
flip is the single commit point, so a crash before it leaves the old generation
authoritative (and the vault still cold-recoverable [...])". The device keeps its old
anchor when a recovery on it dies in its last window.
1. An enrolment dies after its manifest, before the anchor: generation 1 is on disk.
2. `recover_to_device` on the same device goes on from generation 1, writes
   generation 2 and the sidecar for its new master key, and dies before the anchor.
3. The device, still at generation 0, enrols a file. Its commit writes generation 1
   anew and collects the ciphertext of the first enrolment. From here on the
   passphrase opens generation 2, which has not the committed file and names the
   ciphertext that is gone. (Without step 1, the commit overwrites
   the only manifest that the sidecar certifies, and the passphrase opens nothing.)
4. Another recovery picks generation 2 and makes it the device's: the committed file
   is lost, and the manifest that is committed now names a ciphertext that is gone. A
   later `change_passphrase` makes sidecar and anchor agree again, but what is missing
   stays missing, on the device and by the passphrase alone.

Without step 4 the device opens the vault all the time, and `change_passphrase` on
it repairs the sidecar. Run `vault` lets all of this happen, and its properties
except exactly that: `ColdRecoverable` the time from step 3 on until the passphrase is
changed or step 4 is taken (`overtaken`), both readability properties the ciphertexts
named in step 4 (`lost`), and the register the map that step 4 brings back (`Relapse`). The
window that `recover_to_device` itself says does not "brick" the vault, between the new
manifest and the new sidecar, is within `ColdRecoverable`.

Other observations of the vault, all of them closed rather than open: a death of
`init_vault` between its writes leaves a root that both `init_vault` and
`recover_to_device` refuse; a recovery rolls forward an enrolment that died before
its anchor (which is why `VaultRegister` lets a rebinding make one change); an
opener whose manifest is collected under it fails and has to open again.

Of the pairing: a code that paired, lost its annotation and was superseded by
another code can still be "revoked", and its terminal may leave it open
(`ReportsHold` only speaks of pairings in force). `save_webauthn_credential`
binds to whatever pairing is active when it writes, so that a registration which
was admitted under an older pairing binds to the new one. In
`_retained_replay_entries` the second disjunct, `timestamp > accepted_at`, is
implied by the first.

**`NoFalsePaired`** (Pairing, as in `MC_Pairing.cfg`). `extension/pairing.py:1061-1063`:
"so the polling CLI reports rejection instead of a false "Paired" when the handshake
dies after the code is claimed".
1. The terminal issues a code; a frame claims it, and the gateway dies before it
   commits. Nothing is annotated.
2. After the grace period the terminal prints "Paired" and exits with success
   (`wizard/extension_pair_cli.py:182-195`, 219-225). A note says that the outcome was
   never recorded. `ReportsHold` speaks of the reports without that note.

**`InheritedHandlesDiscarded`** (DbLease, as in `MC_DbLease.cfg`).
`dbcrypt/_locking.py:66`: "The core discarded inherited handles/authority in its
earlier callback". The callback closes the handles in `_HANDLES`. An acquisition
opens the lock file before it adds the handle, and `close` takes it off before
the native close.
1. Thread 1 of a process releases its lease: the handle has left the registry, the
   native close is still to come. (Or it has opened the lock file and the handle
   is not yet in the registry.)
2. Thread 2 of the process forks.
3. The callbacks run in the child; the descriptor of thread 1 is in no registry and
   stays open, with its lock.

**`StickyUntilCancelled`** (DbStartup, `SeamSpec`, two processes).
`dbcrypt/_startup.py:24`: "sticky: no start retries it and no other outcome
replaces it until _migrate.unschedule clears it". `run_scheduled_conversion`
(lines 312-317) reads the intent and, when nothing is scheduled, removes the
record of outcomes without a lease.
1. A start finds no schedule and is about to remove the record.
2. The page schedules; another start takes the schedule, dies in the prompt, and
   a third records the interruption.
3. The first start removes that record. The next start asks again.

`OutcomesInOrder` excepts a prompt whose record was swept away like this (`swept`).

**`CancelledStaysPlain`** (DbStartup, `SeamSpec`, two processes).
`desktop/_databases.py:169`: cancelling "refuses once one has started".
`unschedule` (`dbcrypt/_migrate.py:1354`) looks for a journal and a marker.
1. A start takes the schedule and the lease; its attempt authenticates and
   checkpoints. There is no journal yet.
2. The page cancels, which succeeds.
3. The attempt goes on and converts.

**`JournalLeavesSchedule`** (DbStartup, `SeamSpec`, two processes).
`src/tests/test_dbcrypt_startup.py:448`: "our own crash always leaves the
schedule". `_finish` (`dbcrypt/_migrate.py:1105`) removes the schedule first.
1. A scheduled conversion has swapped its files and removes the schedule.
2. It dies, or its next step fails. What is left is a complete journal of an encryption and no schedule.

**`SamePathIsNoop`** (NetSession, 2 actors, no edits). `network/hooks.py:162`: "A
ready same-path call is a runtime no-op". The operation lock
(`network/runtime.py:284`) is taken before the path is compared.
1. Two sessions start over the ready route; the first holds the operation lock.
2. The second raises `AlreadySwitching`, and a strict session start refuses.

**`ModeIsSealed`** (NetSession, 1 actor, 2 edits). `network/hooks.py:260`: "Compare
every activation input before mutating the runtime's policy". The mode is read at
line 190, separately from the configuration that is compared.
1. The policy is edited; a hook reads the new mode.
2. The policy is edited back (or damaged, which reads as strict); the hook compares
   the configuration, finds it unchanged and stores the mode it read: the runtime has a mode that its frozen
   route has not. `StrictOnStrictRoute` holds all the same.

**`RepairUnblocks`** (KeyvaultReset, `LiveSpec`, no crash).
`src/docs/user/QUICKSTART.md:398`: "retry reset after repairing the reported
problem".
1. A reset has journalled its snapshot, and an orphan mail key exists.
2. `_check_orphan` (`wizard/_keyvault_reset.py:82`) refuses the reset until the
   orphan is repaired.
3. `mail forget --force-orphan` is refused by `check_reset_access`
   (`keyvault/_mail_custody.py:524`) until the reset is done.

Of the audit log, after a death, all of it left to the reader of the files: a
rotation that died after its compressed copy leaves the entries twice, and one that
died within leaves a cut `.gz` that `audit decrypt` refuses; a plaintext writer
goes on behind a cut line and so spoils its own line too, and refuses the log for
good when the first line was cut.

**`NoSyncOutlives`** with `Managed = FALSE` (KeyvaultReset, one file, no crash, no
change by hand). `wizard/_keyvault_reset.py:414`: "profile keys, Mail and Telegram
credentials and all their local history removed". With protected databases the
property holds and run `reset` checks it, because a sync then holds the runtime
lease.
1. A Telegram sync unseals its session (`extension/telegram/service.py:480`).
2. A whole reset runs to its end; the sync is still there.
3. The sync takes the archive lock (line 487) and stores history.

Of the network runtime: a tear-down that fails is logged and its handle forgotten
(`network/runtime.py:868-870`; the `disconnect` of a VPN raises, and the `stop` of Tor returns
when its second wait has passed too). The old daemon then goes on beside the route that the
runtime reports, also where its comments speak of "the truthful no-route state" (line 596)
and of "the now-dead daemon". `NoStrayRoute` holds for all but such a daemon (`left`).

## What is not modelled

* Cryptography, SQL, message formats, redaction and policy rules: their
  correctness is about data, and the models take their outcome as a choice.
* Windows: its lock, custody and file calls. The registries and journals
  above them are shared, and the publication that it uses (`retained`) is in DbMigration.
* Within modelled parts: forked children that use inherited handles, a native
  close that fails, the checked VFS (DbConnection); the blackout probe, transport
  tables and what daemons do inside a bring-up (network); the read-only cold
  handle, the rotation by the old passphrase and the retirement of key bindings
  (vault); threads, merges and parser skips, dry runs, several mailboxes and
  forgetting (mail); page sessions, the migration of credentials without an
  origin, the cache in front of `state.json`, the Telegram frames, a clock that goes
  back, and the two files of a fingerprint read apart (pairing); the uninstall caller,
  the generation epoch, changes by hand during an attempt's steps (reset);
  backups other than restore (DbMigration); a truncation that fails, a log that is
  unsafe or foreign, the parser of `audit decrypt`, the refusals of a custom path,
  the removal of a raw file that fails (`UnlinkRaw` always succeeds, while
  `_core/_audit_io.py:188-193` can keep both the raw file and its copy when two unlinks
  fail), and times finer than a day in the sweep (audit log).
* Native helpers, packaging, build and test code.
* The remaining components of the inventory, in the order of the plan.

## Plan

The order is by what would be lost if the part were wrong. Modules are written to
be proved about: constants with named assumptions, one action per operation, named
conjuncts, no recursive operators.

1. `DbLease`: done, proved in `DbAccessProofs`.
2. `DbHome`, `DbMigration`: done, proved in `DatabaseProofs`.
3. `NetRoute`, `NetRuntime`, `NetSession` and their proofs: done.
4. `DbStartup`: done, proved in `DbAccessProofs`.
5. `DbConnection`: done, proved in `DatabaseProofs`.
6. `KeyvaultReset`: done, proved in `KeyvaultProofs`.
7. `MailLease`, `MailCursor`: done, proved in `MailProofs`.
8. `VaultRegister`, `VaultCommit`: done, proved in `KeyvaultProofs`.
9. `DbBackup`: the backup journal, recovery and abandonment. One source, one
   destination, two crashes.
10. `Pairing`, `PairingProofs`: done.
11. `AuditLog`: done, proved in `AuditLogProofs`. Left: the order of the
    locks around the registry of writers (`build_audit_writer` against an append made
    while a key is being unwrapped).
12. Native owners and creation receipts; desktop ceremonies; memory hook; LLM guard.
