----------------------------- MODULE DbMigration -----------------------------
(***************************************************************************)
(* Offline conversion of a Hermes home between plaintext and SQLCipher     *)
(* databases, legacy adoption and restore (dbcrypt/_migrate.py and         *)
(* dbcrypt/_backup.py), with the durable journal that recovery works from, *)
(* runtime admission (_runtime.py, _authority.py) and the foreign writers  *)
(* that hold no lease.                                                     *)
(*                                                                         *)
(* What a file is, relative to the journal, is all its proofs compare:     *)
(* its identity is the recorded source, the recorded staging file or       *)
(* neither; its revision is the recorded one or has moved. Content is      *)
(* reduced to whether a copy lacks a commit of its original.               *)
(***************************************************************************)
EXTENDS Integers, FiniteSets

CONSTANTS Db,            \* the database paths of the home
          Publications,  \* the publication modes of the platforms modelled
          MaxCrash,      \* bound on crashes of a maintenance process
          Foreign,       \* whether processes without the lease write
          NoDb

ASSUME PublicationAssumption == Publications \subseteq {"replace", "retained"}
ASSUME CrashAssumption == MaxCrash \in Nat
ASSUME ForeignAssumption == Foreign \in BOOLEAN
ASSUME NoDbAssumption == NoDb \notin Db

VARIABLES
  (* the file system *)
  main,      \* what lies at each database path: "absent", "plain", "enc"
  mainId,    \* its identity: "source", "prepared" or "other" than recorded
  moved,     \* paths whose revision differs from the recorded source revision
  side,      \* content of -wal / -journal: "none", committed "wal", "hot"
  stale,     \* paths whose sidecars belong to a displaced original
  staged,    \* <path>.mordred-enc: "absent", "partial", "full"
  recorded,  \* paths whose staging identity is the journal's
  retained,  \* paths whose original is kept aside (two-step publication)
  asideMoved,\* retained originals written after they were moved aside
  marker,    \* db-encryption.marker: "none", "legacy", "v2"
  pend,      \* scheduled intents present: "enc", "dec"
  journal,   \* db-encryption.journal.json
  (* the maintenance process that holds the exclusive lease *)
  pc, cur, left, want, crashes,
  (* everyone else *)
  admitted,  \* formats of the runtimes admitted under the shared lease
  held,      \* a foreign connection on each path: "none", "main", "old" inode
  (* ghosts *)
  behind,    \* paths whose export lacks a commit of the original
  raced,     \* a foreign process opened the file after its last holder scan
  lost       \* a commit is in no file any more

fileVars == <<main, mainId, moved, side, stale>>
stageVars == <<staged, recorded>>
asideVars == <<retained, asideMoved>>
recordVars == <<marker, pend, journal>>
procVars == <<pc, cur, left, want, crashes>>
otherVars == <<admitted, held>>
ghostVars == <<behind, raced, lost>>
vars == <<fileVars, stageVars, asideVars, recordVars, procVars, otherVars, ghostVars>>

Phases == {"prepared", "verified", "armed", "swapped", "complete"}
NoJournal == [dir |-> "none", pub |-> "replace", files |-> {}, inv |-> {},
              phase |-> [d \in Db |-> "prepared"], wal |-> {}]
Journalled == journal.dir # "none"

Target(dir) == IF dir = "decrypt" THEN "plain" ELSE "enc"
Source(dir) == IF dir = "decrypt" THEN "enc" ELSE "plain"
Present == {d \in Db : main[d] # "absent"}

\* A plain home, an encrypted one, or one armed by an earlier release.
Init ==
  /\ \/ /\ main \in [Db -> {"absent", "plain"}] /\ marker = "none"
     \/ /\ main \in [Db -> {"absent", "enc"}] /\ marker \in {"legacy", "v2"}
  /\ mainId = [d \in Db |-> "source"]
  /\ moved = {} /\ stale = {}
  /\ side = [d \in Db |-> "none"]
  /\ staged = [d \in Db |-> "absent"] /\ recorded = {}
  /\ retained = {} /\ asideMoved = {}
  /\ pend \in {{}, {"dec"}} /\ journal = NoJournal
  /\ pc = "idle" /\ cur = NoDb /\ left = {} /\ want = "none" /\ crashes = 0
  /\ admitted = {} /\ held = [d \in Db |-> "none"]
  /\ behind = {} /\ raced = {} /\ lost = {}

-----------------------------------------------------------------------------
(* Runtimes, under the shared lease: admission and ordinary work. *)

\* Fault: the marker is read, the journal is not.
AdmitPlainUnchecked ==
  /\ pc = "idle" /\ marker = "none" /\ "dec" \notin pend
  /\ admitted' = admitted \cup {"plain"}
  /\ UNCHANGED <<fileVars, stageVars, asideVars, recordVars, procVars, held, ghostVars>>

\* _refuse_deferred_native_state and _install_native: a plain start refuses a
\* journal, a marker and a scheduled decryption; a scheduled encryption that
\* was postponed is tolerated.
AdmitPlain ==
  /\ pc = "idle"
  /\ ~Journalled /\ marker = "none" /\ "dec" \notin pend
  /\ admitted' = admitted \cup {"plain"}
  /\ UNCHANGED <<fileVars, stageVars, asideVars, recordVars, procVars, held, ghostVars>>

\* Authority.acquire: _require_recovered, then an adopted native marker.
AdmitEncrypted ==
  /\ pc = "idle"
  /\ ~Journalled /\ pend = {} /\ marker = "v2"
  /\ admitted' = admitted \cup {"enc"}
  /\ UNCHANGED <<fileVars, stageVars, asideVars, recordVars, procVars, held, ghostVars>>

\* A runtime creates or writes a database in its own format.
RuntimeCommit(k, d) ==
  /\ k \in admitted /\ main[d] \in {"absent", k}
  /\ main' = [main EXCEPT ![d] = k]
  /\ side' \in {[side EXCEPT ![d] = "none"], [side EXCEPT ![d] = "wal"]}
  /\ moved' = moved \cup {d} /\ stale' = stale \ {d}
  /\ UNCHANGED <<mainId, stageVars, asideVars, recordVars, procVars, otherVars, ghostVars>>

\* A clean stop checkpoints; a crash leaves WAL frames or a hot journal.
RuntimeStop(k) ==
  /\ k \in admitted
  /\ admitted' = admitted \ {k}
  /\ \/ side' = [d \in Db |-> IF main[d] = k THEN "none" ELSE side[d]]
     \/ side' = side
     \/ \E d \in Db : main[d] = k /\ side' = [side EXCEPT ![d] = "hot"]
  /\ UNCHANGED <<main, mainId, moved, stale, stageVars, asideVars, recordVars, procVars,
                 held, ghostVars>>

\* schedule / unschedule, from a running desktop: no lease is upgraded.
Schedule ==
  /\ pend' = pend \cup {"enc"}
  /\ UNCHANGED <<fileVars, stageVars, asideVars, marker, journal, procVars, otherVars, ghostVars>>

Unschedule ==
  /\ ~Journalled /\ marker = "none"
  /\ pend' = pend \ {"enc"}
  /\ UNCHANGED <<fileVars, stageVars, asideVars, marker, journal, procVars, otherVars, ghostVars>>

-----------------------------------------------------------------------------
(* Processes without the lease. They know plaintext only. *)

\* The steps between the holder scan of a swap and its end.
InWindow(d) == cur = d /\ pc \in {"settle", "prove", "replace", "retain", "save_retained",
                                  "publish", "cleanup"}

\* Opening rolls a hot journal back.
ForeignOpen(d) ==
  /\ Foreign /\ held[d] = "none" /\ main[d] = "plain"
  /\ held' = [held EXCEPT ![d] = "main"]
  /\ side' = [side EXCEPT ![d] = IF @ = "hot" THEN "none" ELSE @]
  /\ moved' = IF side[d] = "hot" THEN moved \cup {d} ELSE moved
  /\ raced' = IF InWindow(d) THEN raced \cup {d} ELSE raced
  /\ UNCHANGED <<main, mainId, stale, stageVars, asideVars, recordVars, procVars, admitted,
                 behind, lost>>

\* A commit to the file at the path: into the main file or into its WAL.
ForeignCommit(d) ==
  /\ held[d] = "main"
  /\ \/ moved' = moved \cup {d} /\ UNCHANGED side
     \/ side' = [side EXCEPT ![d] = "wal"] /\ UNCHANGED moved
  /\ behind' = IF mainId[d] = "prepared" THEN behind ELSE behind \cup {d}
  /\ UNCHANGED <<main, mainId, stale, stageVars, asideVars, recordVars, procVars, otherVars,
                 raced, lost>>

\* A commit through a connection whose inode left the path.
ForeignCommitOld(d) ==
  /\ held[d] = "old"
  /\ \/ d \in retained /\ asideMoved' = asideMoved \cup {d} /\ behind' = behind \cup {d} /\ UNCHANGED lost
     \/ d \notin retained /\ lost' = lost \cup {d} /\ UNCHANGED <<asideMoved, behind>>
  /\ UNCHANGED <<fileVars, stageVars, retained, recordVars, procVars, otherVars, raced>>

\* The last close checkpoints the WAL; a crash leaves it, or a hot journal.
ForeignClose(d) ==
  /\ held[d] # "none"
  /\ held' = [held EXCEPT ![d] = "none"]
  /\ \/ /\ held[d] = "main" /\ side[d] = "wal"
        /\ side' = [side EXCEPT ![d] = "none"] /\ moved' = moved \cup {d}
     \/ /\ held[d] = "main" /\ side[d] = "none"
        /\ side' = [side EXCEPT ![d] = "hot"] /\ moved' = moved \cup {d}
     \/ UNCHANGED <<side, moved>>
  /\ UNCHANGED <<main, mainId, stale, stageVars, asideVars, recordVars, procVars, admitted,
                 ghostVars>>

\* In the gap of a two-step publication an opener creates a new file.
ForeignCreate(d) ==
  /\ Foreign /\ main[d] = "absent" /\ d \in retained /\ held[d] = "none"
  /\ main' = [main EXCEPT ![d] = "plain"] /\ mainId' = [mainId EXCEPT ![d] = "other"]
  /\ raced' = IF InWindow(d) THEN raced \cup {d} ELSE raced
  /\ UNCHANGED <<moved, side, stale, stageVars, asideVars, recordVars, procVars, otherVars,
                 behind, lost>>

-----------------------------------------------------------------------------
(* Maintenance, under the exclusive lease: nobody is admitted. *)

Goto(step, d) == pc' = step /\ cur' = d
Exclusive == pc = "idle" /\ admitted = {}
\* _inventory: a sidecar without its database is refused, by recovery too, and outside
\* recovery the survivors of another attempt.
SidecarsKnown == \A d \in Db : side[d] # "none" => main[d] # "absent"
NoOrphan == SidecarsKnown /\ \A d \in Db : staged[d] = "absent" /\ d \notin retained
Open(d) == held[d] = "main" \/ (held[d] = "old" /\ d \in retained)
Displaced(d) == [held EXCEPT ![d] = IF @ = "main" THEN "old" ELSE @]

\* _convert up to discovery: inventory, holders, the databases to convert.
StartConvert(dir) ==
  /\ Exclusive /\ ~Journalled /\ marker # "legacy"
  /\ NoOrphan /\ \A d \in Db : ~Open(d)
  /\ \A d \in Db : side[d] # "hot"      \* a read-only probe cannot roll back
  /\ want' = dir
  /\ left' = {d \in Db : main[d] = Source(dir)}
  /\ Goto("checkpoint", NoDb)
  /\ UNCHANGED <<fileVars, stageVars, asideVars, recordVars, crashes, otherVars, ghostVars>>

\* _checkpoint_source: fold the WAL, roll a hot journal back, before any
\* revision is recorded; a connection still using the WAL refuses.
CheckpointSource(d) ==
  /\ pc = "checkpoint" /\ d \in left /\ ~Open(d)
  /\ side' = [side EXCEPT ![d] = "none"]
  /\ stale' = stale \ {d}
  /\ left' = left \ {d}
  /\ UNCHANGED <<main, mainId, moved, stageVars, asideVars, recordVars, pc, cur, want, crashes,
                 otherVars, ghostVars>>

\* Identities, revisions and the whole inventory become durable at once.
Record(dir, pub, files, phase) ==
  /\ journal' = [dir |-> dir, pub |-> pub, files |-> files, inv |-> Present,
                 phase |-> [d \in Db |-> phase], wal |-> {}]
  /\ mainId' = [d \in Db |-> "source"]
  /\ moved' = moved \ files
  /\ behind' = behind \ files

SavePrepared ==
  /\ pc = "checkpoint" /\ left = {}
  /\ \E pub \in Publications :
       Record(want, pub, {d \in Db : main[d] = Source(want)}, "prepared")
  /\ Goto("bind", NoDb)
  /\ UNCHANGED <<main, side, stale, stageVars, asideVars, marker, pend, left, want, crashes,
                 otherVars, raced, lost>>

\* resume: only this journal's survivors, and nobody has them open.
Resume ==
  /\ Exclusive /\ Journalled /\ SidecarsKnown
  /\ \A d \in Db : (staged[d] # "absent" \/ d \in retained) => d \in journal.files
  /\ \A d \in journal.files : ~Open(d)
  /\ Goto(IF journal.dir = "adopt" THEN "adopt" ELSE "bind", NoDb)
  /\ UNCHANGED <<fileVars, stageVars, asideVars, recordVars, left, want, crashes, otherVars,
                 ghostVars>>

\* _check_inventory_binding: the files of the journal's inventory and no
\* others, each the recorded source or the recorded staging file.
BindingOK ==
  /\ Present \cup (IF journal.pub = "retained" THEN journal.files \cap retained ELSE {}) = journal.inv
  /\ \A d \in Present : mainId[d] \in {"source", "prepared"}

CheckBinding ==
  /\ pc = "bind" /\ BindingOK
  /\ Goto("prepare", NoDb)
  /\ UNCHANGED <<fileVars, stageVars, asideVars, recordVars, left, want, crashes, otherVars,
                 ghostVars>>

-----------------------------------------------------------------------------
(* _complete_preparation: every file is exported and verified before any   *)
(* marker or swap.                                                         *)

Unprepared == {d \in journal.files : journal.phase[d] = "prepared"}

\* The source is the recorded one and its sidecars settle nothing more; a
\* staging file that the journal does not own is never erased.
SourceOK(d) ==
  /\ main[d] # "absent" /\ mainId[d] = "source" /\ d \notin moved
  /\ side[d] = "none"
  /\ staged[d] = "absent" \/ d \in recorded

\* Remove the owned leftover, create an empty file. The file system may give
\* the new file the inode of the one just removed.
ReserveStaging(d) ==
  /\ pc = "prepare" /\ d \in Unprepared /\ SourceOK(d)
  /\ staged' = [staged EXCEPT ![d] = "partial"]
  /\ recorded' \in {recorded, recorded \ {d}}
  /\ Goto("save_reserved", d)
  /\ UNCHANGED <<fileVars, asideVars, recordVars, left, want, crashes, otherVars, ghostVars>>

\* Ownership reaches the journal before the export writes.
SaveReserved ==
  /\ pc = "save_reserved"
  /\ recorded' = recorded \cup {cur}
  /\ Goto("export", cur)
  /\ UNCHANGED <<fileVars, staged, asideVars, recordVars, left, want, crashes, otherVars,
                 ghostVars>>

\* prepare / prepare_plain: reads every commit, folds the sidecars into the
\* source unless another connection keeps the WAL busy.
Export ==
  /\ pc = "export"
  /\ staged' = [staged EXCEPT ![cur] = "full"]
  /\ behind' = behind \ {cur}
  /\ \/ /\ side[cur] # "none"
        /\ side' = [side EXCEPT ![cur] = "none"] /\ moved' = moved \cup {cur}
     \/ /\ side[cur] = "none" \/ held[cur] = "main"
        /\ UNCHANGED <<side, moved>>
  /\ Goto("recheck", cur)
  /\ UNCHANGED <<main, mainId, stale, recorded, asideVars, recordVars, left, want, crashes,
                 otherVars, raced, lost>>

\* _save_journal on the way: only entries change, never what the journal covers.
Rewritten(phase, wal) ==
  [dir |-> journal.dir, pub |-> journal.pub, files |-> journal.files, inv |-> journal.inv,
   phase |-> phase, wal |-> wal]

\* The revision did not change across the export: the copy becomes verified.
RecheckOK(d) == d \notin moved

SaveVerified ==
  /\ pc = "recheck" /\ RecheckOK(cur)
  /\ journal' = Rewritten([journal.phase EXCEPT ![cur] = "verified"], journal.wal \cup {cur})
  /\ Goto("prepare", NoDb)
  /\ UNCHANGED <<fileVars, stageVars, asideVars, marker, pend, left, want, crashes, otherVars,
                 ghostVars>>

\* _verify_survivors, and the untouched databases are in the target format.
SurvivorOK(d) ==
  IF staged[d] # "absent"
  THEN /\ staged[d] = "full" /\ d \in recorded
       /\ IF main[d] # "absent" THEN mainId[d] = "source" /\ d \notin moved
          ELSE d \in retained /\ d \notin asideMoved
  ELSE main[d] # "absent" /\ mainId[d] = "prepared"

SurvivorsOK ==
  /\ \A d \in journal.files : SurvivorOK(d)
  /\ \A d \in journal.inv \ journal.files : main[d] = Target(journal.dir)

\* A replaced file's sidecars, which SQLite may or may not take for its replacement's.
LeftBeside == {d \in stale : side[d] # "none"}

\* Fault: only the prefix exported so far is verified.
VerifyPrefix ==
  /\ pc = "prepare" /\ \A d \in journal.files \ Unprepared : SurvivorOK(d)
  /\ Goto("arm", NoDb)
  /\ UNCHANGED <<fileVars, stageVars, asideVars, recordVars, left, want, crashes, otherVars,
                 ghostVars>>

VerifySurvivors ==
  /\ pc = "prepare" /\ Unprepared = {} /\ SurvivorsOK
  /\ Goto("arm", NoDb)
  /\ UNCHANGED <<fileVars, stageVars, asideVars, recordVars, left, want, crashes, otherVars,
                 ghostVars>>

\* Fault: the marker is left for after the swaps.
ArmLater ==
  /\ pc = "arm" /\ Goto("save_armed", NoDb)
  /\ UNCHANGED <<fileVars, stageVars, asideVars, recordVars, left, want, crashes, otherVars,
                 ghostVars>>

\* Disarm before any plaintext is published; arm before any ciphertext is.
ArmOrDisarm ==
  /\ pc = "arm"
  /\ marker' = IF journal.dir = "decrypt" THEN "none" ELSE "v2"
  /\ Goto("save_armed", NoDb)
  /\ UNCHANGED <<fileVars, stageVars, asideVars, pend, journal, left, want, crashes, otherVars,
                 ghostVars>>

\* What _finish writes to every entry at once.
AllPhases(p) ==
  Rewritten([d \in Db |-> IF d \in journal.files THEN p ELSE journal.phase[d]], journal.wal)

SaveArmed ==
  /\ pc = "save_armed"
  /\ journal' = AllPhases("armed")
  /\ left' = journal.files
  /\ Goto("swap", NoDb)
  /\ UNCHANGED <<fileVars, stageVars, asideVars, marker, pend, want, crashes, otherVars, ghostVars>>

-----------------------------------------------------------------------------
(* The swaps, one file at a time. *)

\* Fault: recovery does not recognise a published file.
NeverSwapped(d) == FALSE

\* Recovery finds the file already published: nothing is left to do for it.
AlreadySwapped(d) ==
  /\ staged[d] = "absent"
  /\ journal.pub = "retained" => main[d] # "absent" /\ mainId[d] = "prepared"

SkipSwapped(d) ==
  /\ pc = "swap" /\ d \in left /\ AlreadySwapped(d)
  /\ Goto("save_swapped", d)
  /\ UNCHANGED <<fileVars, stageVars, asideVars, recordVars, left, want, crashes, otherVars,
                 ghostVars>>

\* _refuse_unsettled_swap, first half: the holder scan. Two prepared
\* survivors are ambiguous and refuse.
ScanOK(d) ==
  /\ held[d] # "main"
  /\ ~(journal.pub = "retained" /\ main[d] # "absent" /\ mainId[d] = "prepared")

ScanHolders(d) ==
  /\ pc = "swap" /\ d \in left /\ ~AlreadySwapped(d) /\ ScanOK(d)
  /\ Goto("settle", d)
  /\ UNCHANGED <<fileVars, stageVars, asideVars, recordVars, left, want, crashes, otherVars,
                 ghostVars>>

\* Fault: the sidecars are not looked at again before the swap.
SettleUnchecked(d) == TRUE

\* Second half: a converted source has no WAL commit and no hot journal. A
\* restore entry carries no such proof: it replaces its destination.
SettleOK(d) == d \in journal.wal => side[d] = "none"

Settle ==
  /\ pc = "settle" /\ SettleOK(cur)
  /\ Goto(IF journal.pub = "replace" THEN "prove"
          ELSE IF main[cur] # "absent" THEN "retain" ELSE "publish", cur)
  /\ UNCHANGED <<fileVars, stageVars, asideVars, recordVars, left, want, crashes, otherVars,
                 ghostVars>>

\* _replace_swap: the identity and revision proof ...
ProofOK(d) ==
  main[d] # "absent" /\ mainId[d] = "source" /\ d \notin moved /\ d \in recorded

ProveIdentity ==
  /\ pc = "prove" /\ ProofOK(cur)
  /\ Goto("replace", cur)
  /\ UNCHANGED <<fileVars, stageVars, asideVars, recordVars, left, want, crashes, otherVars,
                 ghostVars>>

\* The staged copy takes the path; what the sidecars hold is not its own.
TakePath(d) ==
  /\ main' = [main EXCEPT ![d] = Target(journal.dir)]
  /\ mainId' = [mainId EXCEPT ![d] = "prepared"]
  /\ staged' = [staged EXCEPT ![d] = "absent"] /\ recorded' = recorded \ {d}
  /\ stale' = IF side[d] = "none" THEN stale ELSE stale \cup {d}
  /\ moved' = moved \ {d}

\* ... and os.replace. The displaced original is gone with what only it held.
Replace ==
  /\ pc = "replace"
  /\ TakePath(cur)
  /\ held' = Displaced(cur)
  /\ lost' = IF cur \in behind \cap journal.wal THEN lost \cup {cur} ELSE lost
  /\ Goto("cleanup", cur)
  /\ UNCHANGED <<side, asideVars, recordVars, left, want, crashes, admitted, behind, raced>>

\* _retained_swap: the original is renamed aside. The native rename refuses
\* while anyone has the file open.
RetainOK(d) == ProofOK(d) /\ d \notin retained /\ held[d] # "main"

\* Fault: the original is unlinked to make room.
UnlinkOriginal ==
  /\ pc = "retain" /\ RetainOK(cur)
  /\ main' = [main EXCEPT ![cur] = "absent"]
  /\ Goto("save_retained", cur)
  /\ UNCHANGED <<mainId, moved, side, stale, stageVars, asideVars, recordVars, left, want,
                 crashes, otherVars, ghostVars>>

RetainOriginal ==
  /\ pc = "retain" /\ RetainOK(cur)
  /\ main' = [main EXCEPT ![cur] = "absent"]
  /\ retained' = retained \cup {cur} /\ asideMoved' = asideMoved \ {cur}
  /\ Goto("save_retained", cur)
  /\ UNCHANGED <<mainId, moved, side, stale, stageVars, recordVars, left, want, crashes,
                 otherVars, ghostVars>>

SaveRetained ==
  /\ pc = "save_retained"
  /\ Goto("publish", cur)
  /\ UNCHANGED <<fileVars, stageVars, asideVars, recordVars, left, want, crashes, otherVars,
                 ghostVars>>

PublishOK(d) == d \in retained /\ d \notin asideMoved /\ d \in recorded /\ main[d] = "absent"

Publish ==
  /\ pc = "publish" /\ PublishOK(cur)
  /\ TakePath(cur)
  /\ Goto("cleanup", cur)
  /\ UNCHANGED <<side, asideVars, recordVars, left, want, crashes, otherVars, ghostVars>>

\* _cleanup_sidecars: whatever lies beside the path is deleted, a commit that
\* reached the new file's WAL meanwhile included.
CleanupSidecars ==
  /\ pc = "cleanup"
  /\ side' = [side EXCEPT ![cur] = "none"]
  /\ stale' = stale \ {cur}
  /\ lost' = IF side[cur] = "wal" /\ cur \notin stale THEN lost \cup {cur} ELSE lost
  /\ Goto("save_swapped", cur)
  /\ UNCHANGED <<main, mainId, moved, stageVars, asideVars, recordVars, left, want, crashes,
                 otherVars, behind, raced>>

SaveSwapped ==
  /\ pc = "save_swapped"
  /\ journal' = Rewritten([journal.phase EXCEPT ![cur] = "swapped"], journal.wal)
  /\ left' = left \ {cur}
  /\ Goto("swap", NoDb)
  /\ UNCHANGED <<fileVars, stageVars, asideVars, marker, pend, want, crashes, otherVars, ghostVars>>

-----------------------------------------------------------------------------
(* The end of _finish. *)

\* Fault: completion after the first swapped file.
CompleteEarly ==
  /\ pc = "swap" /\ left # journal.files
  /\ journal' = AllPhases("complete")
  /\ Goto("retire", NoDb)
  /\ UNCHANGED <<fileVars, stageVars, asideVars, marker, pend, left, want, crashes, otherVars,
                 ghostVars>>

SaveComplete ==
  /\ pc = "swap" /\ left = {}
  /\ journal' = AllPhases("complete")
  /\ Goto("retire", NoDb)
  /\ UNCHANGED <<fileVars, stageVars, asideVars, marker, pend, left, want, crashes, otherVars,
                 ghostVars>>

\* _retire_originals: an original goes only while its target is verified and
\* nobody wrote the original since it was moved aside.
RetireOK(d) == main[d] # "absent" /\ mainId[d] = "prepared" /\ d \notin asideMoved

RetireOriginal(d) ==
  /\ pc = "retire" /\ d \in journal.files \cap retained /\ RetireOK(d)
  /\ retained' = retained \ {d}
  /\ lost' = IF d \in behind \cap journal.wal THEN lost \cup {d} ELSE lost
  /\ UNCHANGED <<fileVars, stageVars, asideMoved, recordVars, procVars, otherVars, behind, raced>>

RetireDone ==
  /\ pc = "retire" /\ journal.files \cap retained = {}
  /\ journal.pub = "retained" => \A d \in journal.files : RetireOK(d)
  /\ Goto("rm_enc", NoDb)
  /\ UNCHANGED <<fileVars, stageVars, asideVars, recordVars, left, want, crashes, otherVars,
                 ghostVars>>

RemovePending(at, name, next) ==
  /\ pc = at
  /\ pend' = pend \ {name}
  /\ Goto(next, NoDb)
  /\ UNCHANGED <<fileVars, stageVars, asideVars, marker, journal, left, want, crashes, otherVars,
                 ghostVars>>

\* The journal goes last; the identities it recorded mean nothing any more.
RemoveJournal ==
  /\ pc \in {"rm_journal", "rm_adoption"}
  /\ journal' = NoJournal
  /\ mainId' = [d \in Db |-> "source"] /\ moved' = {} /\ recorded' = {}
  /\ want' = "none"
  /\ Goto("idle", NoDb)
  /\ UNCHANGED <<main, side, stale, staged, asideVars, marker, pend, left, crashes, otherVars,
                 ghostVars>>

-----------------------------------------------------------------------------
(* Adoption of a legacy home, and restore of a registered backup. *)

\* adopt_legacy: the complete legacy root is authenticated first.
StartAdoption ==
  /\ Exclusive /\ ~Journalled /\ marker = "legacy"
  /\ NoOrphan /\ \A d \in Db : ~Open(d)
  /\ Present # {} /\ \A d \in Present : main[d] = "enc" /\ side[d] # "hot"
  /\ \E pub \in Publications : Record("adopt", pub, Present, "verified")
  /\ Goto("adopt", NoDb)
  /\ UNCHANGED <<main, side, stale, stageVars, asideVars, marker, pend, left, want, crashes,
                 otherVars, raced, lost>>

\* _finish_adoption
AdoptOK ==
  /\ Present = journal.inv
  /\ \A d \in journal.files : mainId[d] = "source" /\ d \notin moved /\ main[d] = "enc"

FinishAdoption ==
  /\ pc = "adopt" /\ AdoptOK
  /\ marker' = "v2"
  /\ Goto("rm_adoption", NoDb)
  /\ UNCHANGED <<fileVars, stageVars, asideVars, pend, journal, left, want, crashes, otherVars,
                 ghostVars>>

\* restore_database / _restore_copy: stage the backup's copy, then journal it
\* as an encryption whose only file is verified.
StartRestore(d) ==
  /\ Exclusive /\ ~Journalled /\ pend = {} /\ marker = "v2"
  /\ NoOrphan /\ main[d] = "enc" /\ side[d] # "hot" /\ ~Open(d)
  /\ staged' = [staged EXCEPT ![d] = "partial"]
  /\ Goto("restore_copy", d)
  /\ UNCHANGED <<fileVars, recorded, asideVars, recordVars, left, want, crashes, otherVars,
                 ghostVars>>

RestoreCopy ==
  /\ pc = "restore_copy"
  /\ staged' = [staged EXCEPT ![cur] = "full"]
  /\ Goto("restore_save", cur)
  /\ UNCHANGED <<fileVars, recorded, asideVars, recordVars, left, want, crashes, otherVars,
                 ghostVars>>

SaveRestoreJournal ==
  /\ pc = "restore_save"
  /\ \E pub \in Publications : Record("encrypt", pub, {cur}, "verified")
  /\ recorded' = recorded \cup {cur}
  /\ Goto("bind", NoDb)
  /\ UNCHANGED <<main, side, stale, staged, asideVars, marker, pend, left, want, crashes,
                 otherVars, raced, lost>>

-----------------------------------------------------------------------------
(* How an attempt ends early. *)

Stop == Goto("idle", NoDb) /\ left' = {} /\ want' = "none"

\* A proof failed: the attempt raises and leaves the disk as it is.
Refuse ==
  /\ \/ pc = "checkpoint" /\ \E d \in left : Open(d)
     \/ pc = "bind" /\ ~BindingOK
     \/ pc = "prepare" /\ \E d \in Unprepared : ~SourceOK(d)
     \/ pc = "recheck" /\ ~RecheckOK(cur)
     \/ pc = "prepare" /\ Unprepared = {} /\ (~SurvivorsOK \/ LeftBeside \cap journal.files # {})
     \/ pc = "swap" /\ \E d \in left : ~AlreadySwapped(d) /\ ~ScanOK(d)
     \/ pc = "settle" /\ ~SettleOK(cur)
     \/ pc = "prove" /\ ~ProofOK(cur)
     \/ pc = "retain" /\ ~RetainOK(cur)
     \/ pc = "publish" /\ ~PublishOK(cur)
     \/ pc = "retire" /\ \E d \in journal.files : journal.pub = "retained" /\ ~RetireOK(d)
     \/ pc = "adopt" /\ ~AdoptOK
  /\ Stop
  /\ UNCHANGED <<fileVars, stageVars, asideVars, recordVars, crashes, otherVars, ghostVars>>

\* The process dies; the kernel releases the exclusive lease.
Crash ==
  /\ pc # "idle" /\ crashes < MaxCrash
  /\ crashes' = crashes + 1
  /\ Stop
  /\ UNCHANGED <<fileVars, stageVars, asideVars, recordVars, otherVars, ghostVars>>

MaintenanceStep ==
  \/ \E d \in Db : CheckpointSource(d) \/ ReserveStaging(d)
  \/ SavePrepared \/ CheckBinding \/ SaveReserved \/ Export \/ SaveVerified
  \/ VerifySurvivors \/ ArmOrDisarm \/ SaveArmed
  \/ \E d \in Db : SkipSwapped(d) \/ ScanHolders(d) \/ RetireOriginal(d)
  \/ Settle \/ ProveIdentity \/ Replace \/ RetainOriginal \/ SaveRetained \/ Publish
  \/ CleanupSidecars \/ SaveSwapped \/ SaveComplete \/ RetireDone
  \/ RemovePending("rm_enc", "enc", "rm_dec") \/ RemovePending("rm_dec", "dec", "rm_journal")
  \/ RemoveJournal \/ FinishAdoption \/ RestoreCopy \/ SaveRestoreJournal
  \/ Refuse

RuntimeStep ==
  \/ AdmitPlain \/ AdmitEncrypted \/ Schedule \/ Unschedule
  \/ \E k \in {"plain", "enc"} : RuntimeStop(k) \/ \E d \in Db : RuntimeCommit(k, d)

ForeignStep ==
  \E d \in Db : ForeignOpen(d) \/ ForeignCommit(d) \/ ForeignCommitOld(d) \/ ForeignClose(d)
                \/ ForeignCreate(d)

StartStep ==
  \/ \E dir \in {"encrypt", "decrypt"} : StartConvert(dir)
  \/ \E d \in Db : StartRestore(d)
  \/ StartAdoption

Next == MaintenanceStep \/ Resume \/ StartStep \/ Crash \/ RuntimeStep \/ ForeignStep

Spec == Init /\ [][Next]_vars

\* A live maintenance process goes on, and an interrupted home is resumed again.
RecoverySpec == Spec /\ WF_vars(MaintenanceStep) /\ WF_vars(Resume)

-----------------------------------------------------------------------------
(* Properties. *)

JournalType ==
  [dir : {"none", "encrypt", "decrypt", "adopt"}, pub : {"replace", "retained"},
   files : SUBSET Db, inv : SUBSET Db, phase : [Db -> Phases], wal : SUBSET Db]

Pcs == {"idle", "checkpoint", "bind", "prepare", "save_reserved", "export", "recheck", "arm",
        "save_armed", "swap", "settle", "prove", "replace", "retain", "save_retained",
        "publish", "cleanup", "save_swapped", "retire", "rm_enc", "rm_dec", "rm_journal",
        "adopt", "rm_adoption", "restore_copy", "restore_save"}

\* The steps that work on one file.
FilePcs == {"save_reserved", "export", "recheck", "settle", "prove", "replace", "retain",
            "save_retained", "publish", "cleanup", "save_swapped", "restore_copy", "restore_save"}

TypeOK ==
  /\ main \in [Db -> {"absent", "plain", "enc"}]
  /\ mainId \in [Db -> {"source", "prepared", "other"}]
  /\ moved \subseteq Db /\ stale \subseteq Db
  /\ side \in [Db -> {"none", "wal", "hot"}]
  /\ staged \in [Db -> {"absent", "partial", "full"}] /\ recorded \subseteq Db
  /\ retained \subseteq Db /\ asideMoved \subseteq Db
  /\ marker \in {"none", "legacy", "v2"} /\ pend \subseteq {"enc", "dec"}
  /\ journal \in JournalType
  /\ pc \in Pcs /\ cur \in (IF pc \in FilePcs THEN Db ELSE {NoDb}) /\ left \subseteq Db
  /\ want \in {"none", "encrypt", "decrypt"} /\ crashes \in 0 .. MaxCrash
  /\ admitted \subseteq {"plain", "enc"}
  /\ held \in [Db -> {"none", "main", "old"}]
  /\ behind \subseteq Db /\ raced \subseteq Db /\ lost \subseteq Db

\* A runtime is admitted only over a home whose databases are all in the format
\* it reads and writes: never over a half-swapped one, whatever crashed.
AdmittedMatches ==
  \A k \in admitted, d \in Db : main[d] \in {"absent", k}

\* A conversion drops no commit of a foreign writer without noticing, except
\* one that opened the file between the holder scan of its swap and the end of
\* that swap.
NoSilentLoss == lost \subseteq raced

\* "Recovery must never arm only the prefix prepared so far": while a
\* conversion to ciphertext is armed, every file of its journal has been
\* exported and verified; a decryption has disarmed only then too.
ArmsTheWhole ==
  /\ journal.dir = "encrypt" /\ marker = "v2" => Unprepared = {}
  /\ journal.dir = "decrypt" /\ marker = "none" => Unprepared = {}

\* Every crash leaves the data reachable: a path is empty only while its
\* original lies aside under the name the journal records.
OriginalReachable ==
  \A d \in journal.inv : main[d] = "absent" => d \in retained /\ d \in journal.files

\* "left beside the replacement, a stale journal would be rolled back into
\* it": once the journal is gone, no database has the sidecars of the file it
\* replaced.
NoStaleSidecar == ~Journalled => LeftBeside = {}

\* A path changes its file only to a complete, recorded copy whose journal entry
\* was armed, or to give its original up to the retained name.
SwapsOnlyVerified ==
  [][\A d \in Db : mainId'[d] = "prepared" /\ mainId[d] # "prepared" =>
       /\ staged[d] = "full" /\ d \in recorded
       /\ journal.phase[d] # "prepared"
       /\ marker = (IF journal.dir = "decrypt" THEN "none" ELSE "v2")]_vars

\* What only a person can settle: the staging file of a conversion whose inode never
\* reached the journal; or, of a restore, which replaces a database that may have a
\* WAL, the sidecars that are left without their database once it was moved aside, or
\* beside the copy that took its place.
UnrecordedStaging == \E d \in Unprepared : staged[d] # "absent" /\ d \notin recorded
RestoreLeftovers ==
  \E d \in journal.files \ journal.wal : d \in LeftBeside \/ (side[d] # "none" /\ main[d] = "absent")

\* Without foreign writers a conversion, adoption or restore that deaths interrupt is
\* finished by recovery. A home is closed for ever only if, from some moment on, one of
\* the two is in the way: a death fell between the creation of a conversion's staging
\* file and its record, or between the displacement of a restore's destination and the
\* removal of its sidecars. A conversion's own sidecars never are.
RecoveryCompletes == <>[]Journalled => <>[](UnrecordedStaging \/ RestoreLeftovers)

-----------------------------------------------------------------------------
(* The home as its runtimes see it. *)

HomeMode ==
  IF Journalled \/ marker = "legacy" THEN "closed" ELSE IF marker = "none" THEN "plain" ELSE "enc"
HomeFormats == {main[d] : d \in Present}
Home == INSTANCE DbHome WITH mode <- HomeMode, running <- admitted, formats <- HomeFormats

\* Conversion, recovery, adoption and restore keep what the home promises: a
\* runtime runs only over files of its format, and formats change only while
\* nobody is admitted.
HomeSpec == Home!Spec
-----------------------------------------------------------------------------
(* The inductive invariant behind AdmittedMatches and HomeSpec. *)

Unjournalled == {"checkpoint", "restore_copy", "restore_save"}
Adopting == {"adopt", "rm_adoption"}
SwapPcs == {"swap", "settle", "prove", "replace", "retain", "save_retained", "publish",
            "cleanup", "save_swapped"}
EndPcs == {"retire", "rm_enc", "rm_dec", "rm_journal"}
ArmedPcs == {"save_armed"} \cup SwapPcs \cup EndPcs

\* Where the process is and which journal it works from.
StepsFollowJournal ==
  /\ pc \in Unjournalled => journal.dir = "none"
  /\ pc \in Adopting => journal.dir = "adopt"
  /\ pc \notin Unjournalled \cup Adopting \cup {"idle"} => journal.dir \in {"encrypt", "decrypt"}
  /\ pc = "checkpoint" => want \in {"encrypt", "decrypt"}
  /\ pc \in {"restore_copy", "restore_save"} => main[cur] # "absent"

\* Nobody is admitted during maintenance or before recovery; who is admitted
\* matches the marker, and so do the files.
AdmissionFollowsMarker ==
  /\ pc # "idle" \/ journal.dir # "none" => admitted = {}
  /\ "plain" \in admitted => marker = "none"
  /\ "enc" \in admitted => marker = "v2"
  /\ journal.dir = "none" /\ marker = "none" => \A d \in Db : main[d] # "enc"
  /\ journal.dir = "none" /\ marker # "none" => \A d \in Db : main[d] # "plain"

\* The journal names every file there is and owns what is kept aside.
JournalCovers ==
  /\ journal.files \subseteq journal.inv
  /\ journal.dir = "none" => journal.files = {}
  /\ journal.dir = "adopt" => journal.files = journal.inv
  /\ journal.dir # "none" => \A d \in Db : main[d] # "absent" => d \in journal.inv
  /\ retained \subseteq journal.files
  /\ journal.dir = "adopt" \/ pc \in {"rm_enc", "rm_dec", "rm_journal"} => retained = {}
  /\ journal.dir # "none" => \A d \in Db : mainId[d] = "prepared" => main[d] = Target(journal.dir)

\* After _verify_survivors a missing staging file means a published copy, and
\* what is not converted already has the target's format.
SurvivorsKept ==
  pc \in {"arm"} \cup ArmedPcs =>
    /\ \A d \in journal.files : staged[d] = "absent" => mainId[d] = "prepared"
    /\ \A d \in journal.inv \ journal.files : main[d] = Target(journal.dir)

\* The swaps leave no file behind, and the marker is the target's throughout.
SwapProgress ==
  /\ pc \in SwapPcs =>
       /\ left \subseteq journal.files
       /\ \A d \in journal.files \ left : mainId[d] = "prepared"
  /\ pc \in SwapPcs \ {"swap"} => cur \in left
  /\ pc \in {"cleanup", "save_swapped"} => mainId[cur] = "prepared"
  /\ pc \in EndPcs => \A d \in journal.files : mainId[d] = "prepared"
  /\ pc \in ArmedPcs => marker = (IF journal.dir = "decrypt" THEN "none" ELSE "v2")
  /\ pc = "rm_adoption" => marker = "v2" /\ \A d \in Db : main[d] # "plain"

IInv ==
  /\ TypeOK /\ StepsFollowJournal /\ AdmissionFollowsMarker /\ JournalCovers
  /\ SurvivorsKept /\ SwapProgress

-----------------------------------------------------------------------------
(* The inductive invariant behind ArmsTheWhole, SwapsOnlyVerified,          *)
(* OriginalReachable and NoSilentLoss: what the maintenance process has     *)
(* established about the copies, and where a foreign commit shows.          *)

\* From the holder scan of a swap to the moment the copy takes the path.
CopyPcs == {"settle", "prove", "replace", "retain", "save_retained", "publish"}

\* Between verification and the end every copy still staged is complete; one
\* that is about to take the path is there, and its proof still stands.
CopiesComplete ==
  /\ pc \in {"arm"} \cup ArmedPcs =>
       Unprepared = {} /\ \A d \in journal.files : staged[d] # "partial"
  /\ pc \in CopyPcs => staged[cur] = "full"
  /\ pc = "replace" =>
       main[cur] # "absent" /\ mainId[cur] = "source" /\ cur \in recorded /\ cur \notin retained

\* What a path, a name kept aside and a foreign connection say of each other.
\* A connection to a displaced inode, or one that appears during a swap, opened
\* the file after the scan.
HoldersKnown ==
  /\ \A d \in Db : held[d] = "main" \/ mainId[d] = "other" => main[d] # "absent"
  /\ \A d \in Db : held[d] = "old" => d \in raced
  /\ \A d \in retained : main[d] # "absent" => mainId[d] # "source"
  /\ pc \in {"save_reserved", "export", "recheck"} => cur \notin retained
  /\ pc \in CopyPcs \cup {"cleanup"} /\ held[cur] = "main" => cur \in raced

\* A commit that a copy lacks shows: in the revision or the WAL of the source,
\* or, once the original lies aside, in the original or in a file nobody
\* recorded. After the settlement check only a process that opened the file
\* since can have left sidecars.
CommitsShow ==
  /\ \A d \in (journal.files \cap behind) \ retained :
       mainId[d] = "prepared" \/ d \in moved \/ side[d] = "wal" \/ d \in raced
  /\ \A d \in retained \cap behind \cap journal.wal :
       d \in asideMoved \/ mainId[d] = "other" \/ d \in raced
  /\ pc \in {"prove", "replace", "retain"} /\ cur \in journal.wal =>
       side[cur] = "none" \/ cur \in raced
  /\ pc = "replace" => cur \notin moved \/ cur \in raced
  /\ pc = "cleanup" => side[cur] = "none" \/ cur \in stale \/ cur \in raced

EInv ==
  /\ ArmsTheWhole /\ CopiesComplete /\ OriginalReachable
  /\ HoldersKnown /\ CommitsShow /\ NoSilentLoss
=============================================================================
