---------------------------- MODULE KeyvaultReset ----------------------------
(***************************************************************************)
(* `keyvault reset` (wizard/_keyvault_reset.py) on macOS and Linux: under  *)
(* the exclusive database lease a durable journal records what there is,   *)
(* and the stages database, mail, telegram, keys, files erase it. Every    *)
(* step may fail or be the last one of its process; the next attempt goes  *)
(* on from the journal. The uninstall argument is not given here.          *)
(*                                                                         *)
(* An observation (device, inode, mode, owner, digest) is compared, never  *)
(* read: a recorded object is still "own", or "none", or "other". What is  *)
(* present when the journal is made is its own.                            *)
(***************************************************************************)
EXTENDS FiniteSets, Naturals

CONSTANTS WrapKey,    \* the wrapping keys of the keyvault
          KnownFile,  \* its known files: meta.json, digests, ciphertexts
          Managed,    \* databases are protected: a sync holds the runtime lease
          MaxCrash,   \* bound on the deaths of attempts
          MaxForeign, \* bound on the objects changed by hand
          NoJournal

ASSUME CrashAssumption == MaxCrash \in Nat
ASSUME ForeignAssumption == MaxForeign \in Nat
ASSUME ManagedAssumption == Managed \in BOOLEAN

Component == {"mail", "telegram"}
Part(c) == {"sealed", "meta", "native"} \cup IF c = "mail" THEN {"record", "staged"} ELSE {}
Credential == UNION {{<<c, p>> : p \in Part(c)} : c \in Component}
KeyOf(k) == <<"key", k>>
FileOf(f) == <<"file", f>>
Kept == <<"keep", "helper">>   \* what stays: unknown files, the database's sources
Object == Credential \cup {KeyOf(k) : k \in WrapKey} \cup {FileOf(f) : f \in KnownFile} \cup {Kept}

ResetStages == <<"database", "mail", "telegram", "keys", "files", "complete">>
ResetStage == {ResetStages[i] : i \in DOMAIN ResetStages}
After(s) == ResetStages[(CHOOSE i \in DOMAIN ResetStages : ResetStages[i] = s) + 1]

VARIABLES
  at,        \* what is at each recorded path
  db,        \* the components with history in mordred.db
  archive,   \* Telegram's own archive has files
  forget,    \* mail-forget.json, telegram-forget.json and their phase
  journal,   \* .keyvault.reset.json
  plan,      \* the journal an attempt is about to save
  pc,        \* the running attempt
  sync,      \* a synchronisation of each component
  crashes, changes

profileVars == <<at, db, archive, forget>>
resetVars == <<journal, plan, pc>>
boundVars == <<crashes, changes>>
keyvaultVars == <<profileVars, resetVars, sync, boundVars>>

Journals == [stage : ResetStage, seen : SUBSET Object, retired : SUBSET Component,
             key : [WrapKey -> {"pending", "deleting", "deleted"}], old : BOOLEAN]

ASSUME NoJournalAssumption == NoJournal \notin Journals

\* A version 2 journal, of a release that reset the keyvault only.
OldJournal == [stage |-> "keys", seen |-> {}, retired |-> {},
               key |-> [k \in WrapKey |-> "pending"], old |-> TRUE]

Present == {o \in Object : at[o] # "none"}
Here(c, p) == <<c, p>> \in Present

\* check_observations of one object, and of one that may have gone already.
Unchanged(o) == at[o] = IF o \in journal.seen THEN "own" ELSE "none"
UnchangedOrGone(o) == at[o] = "none" \/ Unchanged(o)

\* Set up, an interrupted setup, a forget that was acknowledged, or nothing; history of
\* any component beside it, for "History can outlive credentials".
ResetInit ==
  /\ \E has \in [Component -> {"nothing", "all", "orphan", "forgotten"}], staged \in BOOLEAN :
       /\ at = [o \in Object |->
                 IF o[1] \notin Component THEN "own"
                 ELSE IF o[2] = "staged" THEN (IF staged THEN "own" ELSE "none")
                 ELSE IF \/ has[o[1]] = "all"
                         \/ has[o[1]] = "orphan" /\ o[2] \in {"native", "record"}
                         \/ has[o[1]] = "forgotten" /\ o[2] \in {"sealed", "meta", "record"}
                      THEN "own" ELSE "none"]
       /\ forget = [c \in Component |-> IF has[c] = "forgotten" THEN "deleted" ELSE "none"]
       /\ db \in SUBSET {c \in Component : Managed} /\ archive \in BOOLEAN
  /\ journal \in {NoJournal, OldJournal} /\ plan = NoJournal /\ pc = "idle"
  /\ sync = [c \in Component |-> "idle"]
  /\ crashes = 0 /\ changes = 0

-----------------------------------------------------------------------------
(* The rest of Mordred; a pending journal stops all of it.                  *)

\* A credential transaction: under the lifecycle lock, which an attempt holds while
\* it waits at its prompt, with no reset pending and no forget of the component.
Elsewhere(c) ==
  /\ journal = NoJournal /\ pc # "prepare" /\ forget[c] = "none"
  /\ UNCHANGED <<db, archive, forget, resetVars, sync, boundVars>>

\* mail setup and Telegram setup: the native key first, then the sealed source.
EnrollKey(c) ==
  /\ Elsewhere(c) /\ ~Here(c, "native") /\ ~Here(c, "sealed")
  /\ at' = [o \in Object |-> IF o \in {<<c, "native">>, <<c, "record">>} THEN "own" ELSE at[o]]

Seal(c) ==
  /\ Elsewhere(c) /\ Here(c, "native") /\ ~Here(c, "sealed")
  /\ at' = [at EXCEPT ![<<c, "sealed">>] = "own", ![<<c, "meta">>] = "own"]

\* mail forget --force-orphan, the repair of a native key without a source.
Repair ==
  /\ Elsewhere("mail")
  /\ Here("mail", "native") /\ ~Here("mail", "sealed") /\ ~Here("mail", "meta")
  /\ at' = [at EXCEPT ![<<"mail", "native">>] = "none", ![<<"mail", "record">>] = "none"]

\* mail forget, telegram logout --forget: the native key, its acknowledgement, the source,
\* or the rest of one that died after its acknowledgement: what such a run takes, dying
\* (here before or after the whole source) or not. The rows go too (mail: --rows, last;
\* Telegram: first), or stay. Telegram's archive goes with the account.
Taken(c, phase) ==
  CASE phase = "intent" -> {{}, {"native"}}
    [] phase = "deleted" -> {{"native"}, Part(c) \ {"staged"}}
    [] phase = "none" -> {Part(c) \ {"staged"}}

ForgetAccount(c) ==
  /\ journal = NoJournal /\ pc # "prepare" /\ sync[c] # "running"
  /\ forget[c] = "deleted" \/ (forget[c] = "none" /\ Here(c, "sealed") /\ Here(c, "native"))
  /\ \E phase \in {"none", "intent", "deleted"} : \E gone \in Taken(c, phase) :
       /\ phase = "intent" => forget[c] = "none"
       /\ forget' = [forget EXCEPT ![c] = phase]
       /\ at' = [o \in Object |-> IF \E p \in gone : o = <<c, p>> THEN "none" ELSE at[o]]
       /\ \/ db' = db
          \/ (c = "mail" => phase = "none") /\ db' = db \ {c}
       /\ \/ archive' = archive /\ (c = "telegram" => phase # "none")
          \/ archive' = FALSE /\ c = "telegram" /\ {"meta", "sealed"} \subseteq gone
  /\ UNCHANGED <<resetVars, sync, boundVars>>

\* mail import: files, under the runtime lease, whether or not there is an account.
ImportFiles ==
  /\ Managed /\ pc = "idle" /\ journal = NoJournal
  /\ db' = db \cup {"mail"}
  /\ UNCHANGED <<at, archive, forget, resetVars, sync, boundVars>>

\* keyvault init, over a root whose keys are gone, under the lifecycle lock.
InitKeyvault ==
  /\ journal = NoJournal /\ pc = "idle" /\ \A k \in WrapKey : at[KeyOf(k)] = "none"
  /\ at' = [o \in Object |-> IF o[1] \in {"key", "file"} THEN "own" ELSE at[o]]
  /\ UNCHANGED <<db, archive, forget, resetVars, sync, boundVars>>

\* The Telegram service unseals its session before it asks for the archive's lock.
LoadSession ==
  /\ sync["telegram"] = "idle" /\ (Managed => pc = "idle")
  /\ journal = NoJournal /\ forget["telegram"] = "none"
  /\ Here("telegram", "sealed") /\ Here("telegram", "native")
  /\ sync' = [sync EXCEPT !["telegram"] = "loaded"]
  /\ UNCHANGED <<profileVars, resetVars, boundVars>>

LockArchive ==
  /\ sync["telegram"] = "loaded"
  /\ sync' = [sync EXCEPT !["telegram"] =
               IF journal = NoJournal /\ forget["telegram"] = "none" THEN "running" ELSE "idle"]
  /\ UNCHANGED <<profileVars, resetVars, boundVars>>

\* A fetch takes the writer lock first. Mail goes to a protected database only.
FetchMail ==
  /\ Managed /\ pc = "idle" /\ sync["mail"] = "idle"
  /\ journal = NoJournal /\ Here("mail", "sealed") /\ Here("mail", "native")
  /\ sync' = [sync EXCEPT !["mail"] = "running"]
  /\ UNCHANGED <<profileVars, resetVars, boundVars>>

\* One write transaction of the import store.
Import(c) ==
  /\ sync[c] = "running" /\ Managed /\ journal = NoJournal
  /\ db' = db \cup {c}
  /\ UNCHANGED <<at, archive, forget, resetVars, sync, boundVars>>

\* A segment of Telegram's own archive, under its lock.
AppendSegment ==
  /\ sync["telegram"] = "running" /\ archive' = TRUE
  /\ UNCHANGED <<at, db, forget, resetVars, sync, boundVars>>

EndSync(c) ==
  /\ sync[c] = "running" /\ sync' = [sync EXCEPT ![c] = "idle"]
  /\ UNCHANGED <<profileVars, resetVars, boundVars>>

\* Somebody removes or replaces an object by hand between two attempts, or while
\* one waits at its prompt.
ChangeByHand(o) ==
  /\ o \in Present /\ changes < MaxForeign /\ changes' = changes + 1
  /\ pc = "prepare" \/ (pc = "idle" /\ journal # NoJournal)
  /\ \E new \in {"none", "other"} : new # at[o] /\ at' = [at EXCEPT ![o] = new]
  /\ UNCHANGED <<db, archive, forget, resetVars, sync, crashes>>

-----------------------------------------------------------------------------
(* An attempt: reset_keyvault, coordinate_reset. A refused step keeps the   *)
(* evidence and ends the attempt.                                           *)

\* An older journal has nothing observed yet.
ToUpgrade == journal # NoJournal /\ journal.seen = {}
Observes == journal = NoJournal \/ ToUpgrade

\* _check: the home, the root, the sources of the database and what is kept.
Checked == Unchanged(Kept)

\* Fault: a reset that was interrupted is refused.
MayGoOnAfresh == Observes /\ (ToUpgrade => Present \cap Credential = {} /\ db = {} /\ ~archive)

MayGoOn ==
  IF ToUpgrade THEN Present \cap Credential = {} /\ db = {} /\ ~archive
  ELSE Observes \/ Checked

Proposed ==
  IF journal = NoJournal
  THEN [stage |-> "database", seen |-> Present, retired |-> {},
        key |-> [k \in WrapKey |-> "pending"], old |-> FALSE]
  ELSE IF ToUpgrade THEN [journal EXCEPT !.seen = Present] ELSE journal

\* acquire_exclusive (a protected database is leased by every running sync),
\* then _prepare as far as its prompt.
Prepare(goOn) ==
  /\ pc = "idle"
  /\ pc' = IF goOn THEN "prepare" ELSE "idle"
  /\ plan' = IF goOn THEN Proposed ELSE plan
  /\ at' = IF goOn /\ Observes
           THEN [o \in Object |-> IF at[o] = "none" THEN "none" ELSE "own"] ELSE at
  /\ UNCHANGED <<db, archive, forget, journal, sync, boundVars>>

\* Fault: the exclusive lease is not taken.
StartUnleased == Prepare(MayGoOn)

Start ==
  /\ Managed => \A c \in Component : sync[c] = "idle"
  /\ Prepare(MayGoOn)

\* The person agrees, and the journal is saved.
Confirm ==
  /\ pc = "prepare"
  /\ journal' = plan /\ plan' = NoJournal
  /\ pc' = IF plan.stage = "complete" THEN "clear" ELSE "check"
  /\ UNCHANGED <<profileVars, sync, boundVars>>

Decline ==
  /\ pc = "prepare" /\ pc' = "idle" /\ plan' = NoJournal
  /\ UNCHANGED <<profileVars, journal, sync, boundVars>>

\* A step of the stage machine.
AtStep(step) == pc = step /\ UNCHANGED <<plan, sync, boundVars>>
Moves == UNCHANGED <<profileVars, journal>>
Saves(entry) == journal' = entry /\ UNCHANGED profileVars
Removes(o) == at' = [at EXCEPT ![o] = "none"] /\ UNCHANGED <<db, archive, forget, journal>>

CheckStage ==
  /\ AtStep("check") /\ Moves
  /\ pc' = IF ~Checked THEN "idle"
           ELSE CASE journal.stage = "database" -> "erase"
                  [] journal.stage \in Component -> "observe"
                  [] journal.stage = "keys" -> "key"
                  [] journal.stage = "files" -> "file"

\* erase_reset_history: one transaction.
EraseHistory ==
  /\ AtStep("erase") /\ pc' = "advance" /\ db' = {}
  /\ UNCHANGED <<at, archive, forget, journal>>

-----------------------------------------------------------------------------
(* The stages mail and telegram: _retire_mail, _retire_telegram.            *)

Retiring(step) == AtStep(step) /\ journal.stage \in Component
comp == journal.stage

Observe ==
  /\ Retiring("observe") /\ Moves
  /\ LET known == forget[comp] # "none" \/ comp \in journal.retired
         same == \A p \in Part(comp) :
                   Unchanged(<<comp, p>>) \/ (known /\ at[<<comp, p>>] = "none")
     IN pc' = IF ~same THEN "idle" ELSE IF comp \in journal.retired THEN "finish" ELSE "retire"

\* A component that reset cannot retire: a deletion that was interrupted, a
\* source that does not open, a native key or metadata without a source.
Unretirable(d) ==
  \/ forget[d] = "intent"
  \/ /\ forget[d] = "none"
     /\ IF Here(d, "sealed") THEN ~Here(d, "native")
        ELSE \E p \in Part(d) \ {"staged"} : Here(d, p)

\* Fault: the source goes before its native key.
RetireSourceFirst ==
  /\ Retiring("retire") /\ Moves
  /\ pc' = IF Unretirable(comp) \/ sync[comp] = "running" THEN "idle"
           ELSE IF forget[comp] = "none" /\ ~Here(comp, "sealed")
                THEN (IF comp = "mail" THEN "save" ELSE "wipe") ELSE "clean"

Retire ==
  /\ Retiring("retire") /\ Moves
  /\ pc' = IF Unretirable(comp) \/ sync[comp] = "running" THEN "idle"
           ELSE IF forget[comp] = "deleted" THEN "clean"
           ELSE IF Here(comp, "sealed") THEN "intent"
           ELSE IF comp = "mail" THEN "save" ELSE "wipe"

PublishIntent ==
  /\ Retiring("intent") /\ pc' = "native" /\ forget' = [forget EXCEPT ![comp] = "intent"]
  /\ UNCHANGED <<at, db, archive, journal>>

DeleteNative == Retiring("native") /\ pc' = "acknowledge" /\ Removes(<<comp, "native">>)

Acknowledge ==
  /\ Retiring("acknowledge") /\ pc' = "clean" /\ forget' = [forget EXCEPT ![comp] = "deleted"]
  /\ UNCHANGED <<at, db, archive, journal>>

\* cleanup, clean_source: one file after the other.
CleanSource ==
  /\ Retiring("clean")
  /\ LET order == IF comp = "mail" THEN <<"sealed", "meta", "record">> ELSE <<"meta", "sealed">>
         left == {i \in DOMAIN order : Here(comp, order[i])}
     IN IF left = {} THEN Moves /\ pc' = IF comp = "mail" THEN "save" ELSE "wipe"
        ELSE pc' = "clean" /\ Removes(<<comp, order[CHOOSE i \in left : \A j \in left : i <= j]>>)

\* Fault: the archive is left.
WipeNothing == Retiring("wipe") /\ pc' = "save" /\ Moves

\* _wipe_archive_locked
WipeArchive ==
  /\ Retiring("wipe") /\ pc' = "save" /\ archive' = FALSE
  /\ UNCHANGED <<at, db, forget, journal>>

\* native[stage] = "deleted"; only then may the forget journal go.
SaveRetired ==
  Retiring("save") /\ pc' = "finish" /\ Saves([journal EXCEPT !.retired = @ \cup {comp}])

FinishForget ==
  /\ Retiring("finish") /\ forget' = [forget EXCEPT ![comp] = "none"]
  /\ pc' = IF comp = "mail" THEN "staging" ELSE "advance"
  /\ UNCHANGED <<at, db, archive, journal>>

ClearStaging == Retiring("staging") /\ pc' = "advance" /\ Removes(<<"mail", "staged">>)

-----------------------------------------------------------------------------
(* The stages keys and files, and the end.                                  *)

KeysLeft == {k \in WrapKey : journal.key[k] # "deleted"}
ThisKey == CHOOSE k \in KeysLeft : TRUE
SavesKey(k, progress) == Saves([journal EXCEPT !.key[k] = progress])

IntendKey ==
  /\ AtStep("key") /\ KeysLeft # {}
  /\ LET expected == IF journal.key[ThisKey] = "deleting" THEN UnchangedOrGone(KeyOf(ThisKey))
                     ELSE Unchanged(KeyOf(ThisKey))
     IN IF expected THEN SavesKey(ThisKey, "deleting") /\ pc' = "delete"
        ELSE Moves /\ pc' = "idle"

DeleteKey == AtStep("delete") /\ pc' = "mark" /\ Removes(KeyOf(ThisKey))

MarkKey == AtStep("mark") /\ pc' = "key" /\ SavesKey(ThisKey, "deleted")

LeaveKeys == AtStep("key") /\ KeysLeft = {} /\ pc' = "advance" /\ Moves

\* The files this journal names.
Named == {FileOf(f) : f \in KnownFile} \cap journal.seen

\* Fault: a file that was replaced is removed all the same.
RemoveAnyFile ==
  /\ AtStep("file") /\ Named \cap Present # {}
  /\ \E o \in Named \cap Present : Removes(o)
  /\ pc' = "file"

\* remove_known_files: every one is checked first, then one goes after the other.
RemoveFile ==
  /\ AtStep("file") /\ Named \cap Present # {}
  /\ IF \A o \in Named : UnchangedOrGone(o)
     THEN pc' = "file" /\ \E o \in Named \cap Present : Removes(o)
     ELSE pc' = "idle" /\ Moves

LeaveFiles == AtStep("file") /\ Named \cap Present = {} /\ pc' = "advance" /\ Moves

Advance ==
  /\ AtStep("advance")
  /\ IF Checked
     THEN /\ Saves([journal EXCEPT !.stage = After(@)])
          /\ pc' = IF journal'.stage = "complete" THEN "clear" ELSE "check"
     ELSE Moves /\ pc' = "idle"

\* clear_reset_journal
Clear ==
  /\ AtStep("clear") /\ pc' = "idle"
  /\ IF Checked THEN Saves(NoJournal) ELSE Moves

\* The process ends, or a call fails, before the next step.
Crash ==
  /\ pc # "idle" /\ pc' = "idle" /\ plan' = NoJournal
  /\ crashes < MaxCrash /\ crashes' = crashes + 1
  /\ UNCHANGED <<profileVars, journal, sync, changes>>

Progress ==
  \/ CheckStage \/ EraseHistory \/ Observe \/ Retire \/ PublishIntent \/ DeleteNative
  \/ Acknowledge \/ CleanSource \/ WipeArchive \/ SaveRetired \/ FinishForget \/ ClearStaging
  \/ IntendKey \/ DeleteKey \/ MarkKey \/ LeaveKeys \/ RemoveFile \/ LeaveFiles \/ Advance \/ Clear

ResetNext ==
  \/ \E d \in Component : EnrollKey(d) \/ Seal(d) \/ ForgetAccount(d) \/ Import(d) \/ EndSync(d)
  \/ Repair \/ ImportFiles \/ InitKeyvault \/ LoadSession \/ LockArchive \/ FetchMail \/ AppendSegment
  \/ \E o \in Object : ChangeByHand(o)
  \/ Start \/ Confirm \/ Decline \/ Progress \/ Crash

ResetSpec == ResetInit /\ [][ResetNext]_keyvaultVars

\* Reset is retried and often enough confirmed, what runs goes on, the orphan is repaired.
LiveSpec ==
  /\ ResetSpec /\ WF_keyvaultVars(Start) /\ SF_keyvaultVars(Confirm)
  /\ WF_keyvaultVars(Progress) /\ WF_keyvaultVars(Repair) /\ WF_keyvaultVars(LockArchive)
  /\ \A d \in Component : WF_keyvaultVars(EndSync(d))

-----------------------------------------------------------------------------
(* Properties.                                                              *)

ResetTypes ==
  /\ at \in [Object -> {"none", "own", "other"}]
  /\ db \subseteq Component /\ archive \in BOOLEAN
  /\ forget \in [Component -> {"none", "intent", "deleted"}]
  /\ journal \in Journals \cup {NoJournal} /\ plan \in Journals \cup {NoJournal}
  /\ sync \in [Component -> {"idle", "loaded", "running"}]
  /\ crashes \in 0..MaxCrash /\ changes \in 0..MaxForeign

Pending == journal # NoJournal

\* An attempt removes only objects that the saved journal recorded, as they were
\* recorded: never one that was replaced while it waited at its prompt or between
\* two attempts (_reset_files.check_observations). A reset that an older release
\* began stays inside what was agreed to then: it destroys no credential and no
\* history ("v2 authorized only keyvault keys").
WithinConsent ==
  [][Progress =>
       /\ \A o \in Object : at[o] # "none" /\ at'[o] = "none" =>
            o \in journal.seen /\ at[o] = "own"
       /\ journal.old =>
            /\ \A o \in Credential : at'[o] = at[o]
            /\ db' = db /\ archive' = archive]_keyvaultVars

\* When a reset reports that everything is removed, nothing it recorded is left,
\* whatever attempts died on the way and whatever ran beside them.
CompletesErased ==
  Pending /\ journal.stage = "complete" =>
    /\ \A o \in journal.seen \ {Kept} : at[o] # "own"
    /\ db = {} /\ ~archive

\* Reset never makes an orphan: it leaves no native key without a source or a
\* forget journal, wherever it stops.
Orphan(d) == Here(d, "native") /\ ~Here(d, "sealed") /\ forget[d] = "none"
NoNewOrphan == [][Progress => \A d \in Component : Orphan(d)' => Orphan(d)]_keyvaultVars

\* What a reset removed stays removed ("all their local history removed"): once it has
\* erased the history, no synchronisation is under way that has unsealed the account
\* before, and would store its history again when the reset has reported its end. With
\* protected databases only (Managed), where a sync holds the runtime lease from before
\* it unseals: see the README for the others. Files may be imported again at any time.
NoSync == \A d \in Component : sync[d] = "idle"
NoSyncOutlives == Pending /\ journal.stage # "database" => NoSync

\* Retried often enough, a reset comes to its end, except for a component it
\* cannot retire, an old journal whose scope it must not widen, and an object that
\* somebody changed by hand.
Stuck ==
  \/ \E d \in Component \ journal.retired : Unretirable(d)
  \/ ToUpgrade /\ ~MayGoOn
  \/ changes > 0
RetryCompletes == Pending ~> (~Pending \/ Stuck)

\* "A failed or interrupted native key deletion keeps its recovery journal, and
\* retrying reset repeats it."
RetryRepeats ==
  \A d \in Component : (Pending /\ forget[d] = "intent") ~> (forget[d] # "intent")

\* "Retry reset after repairing the reported problem", of the orphan that
\* _check_orphan reports as "ownership repair required". The code does not keep
\* this: see the README.
RepairUnblocks == (Pending /\ Orphan("mail")) ~> ~Pending

-----------------------------------------------------------------------------
(* Why they hold: an inductive invariant. What a journal claims to be done  *)
(* is done, and each step knows what the steps before it have seen.         *)

ResetSteps == {"idle", "prepare", "check", "erase", "observe", "retire", "intent", "native",
               "acknowledge", "clean", "wipe", "save", "finish", "staging", "key", "delete",
               "mark", "file", "advance", "clear"}
Progressing == pc \notin {"idle", "prepare"}

Absent(o) == at[o] = "none"
Emptied(d) == \A p \in Part(d) \ {"staged"} : Absent(<<d, p>>)
Gone(d) == \A p \in Part(d) : Absent(<<d, p>>)
Wiped(d) == d = "telegram" => ~archive /\ sync["telegram"] # "running"
NoneLeft == \A f \in KnownFile : Absent(FileOf(f))

Later(d) == {"keys", "files", "complete"} \cup IF d = "mail" THEN {"telegram"} ELSE {}

JournalSays(j) ==
  /\ j.old => j.stage \in {"keys", "files", "complete"} /\ NoSync
  /\ ~j.old /\ j.stage # "database" => db = {}
  /\ \A d \in Component :
       /\ d \in j.retired => Emptied(d) /\ Wiped(d)
       /\ ~j.old /\ j.stage \in Later(d) => Gone(d) /\ Wiped(d)
  /\ \A k \in WrapKey : j.key[k] = "deleted" => Absent(KeyOf(k))
  /\ j.stage \in {"files", "complete"} => \A k \in WrapKey : j.key[k] = "deleted"
  /\ j.stage = "complete" => NoneLeft

\* Nothing is there that the journal does not name, and nothing of value outside
\* the scope of an old journal.
Bound(j) ==
  /\ Present \subseteq j.seen
  /\ j.old => db = {} /\ ~archive /\ \A o \in Credential : Absent(o)

PlanOK ==
  /\ pc \in ResetSteps /\ (plan # NoJournal <=> pc = "prepare")
  /\ Progressing => Pending

JournalHolds ==
  /\ Pending => JournalSays(journal)
  /\ Pending /\ (journal # OldJournal \/ Progressing) => Bound(journal)

PlanHolds == plan # NoJournal =>
  /\ JournalSays(plan) /\ Bound(plan)
  /\ ~Pending => plan.stage = "database" /\ plan.retired = {} /\ ~plan.old

StageOfStep ==
  /\ pc = "erase" => journal.stage = "database"
  /\ pc \in {"observe", "retire", "intent", "native", "acknowledge", "clean", "wipe", "save", "finish", "staging"} =>
       journal.stage \in Component
  /\ pc \in {"key", "delete", "mark"} => journal.stage = "keys"
  /\ pc = "file" => journal.stage = "files"
  /\ pc \in {"check", "advance"} => journal.stage # "complete"
  /\ pc = "clear" => journal.stage = "complete"

RetiringSays ==
  /\ \A d \in Component : forget[d] = "deleted" => Absent(<<d, "native">>)
  /\ pc \in {"retire", "intent", "native", "acknowledge", "clean", "wipe", "save", "finish", "staging"} =>
       \A p \in Part(comp) : Absent(<<comp, p>>) \/ (at[<<comp, p>>] = "own" /\ <<comp, p>> \in journal.seen)
  /\ pc \in {"intent", "native", "acknowledge", "clean", "wipe", "save"} => sync[comp] # "running"
  /\ pc = "acknowledge" => Absent(<<comp, "native">>)
  /\ pc = "clean" => forget[comp] = "deleted"
  /\ pc = "wipe" => comp = "telegram" /\ Emptied(comp)
  /\ pc = "save" => Emptied(comp) /\ Wiped(comp)
  /\ pc = "finish" => comp \in journal.retired
  /\ pc = "staging" => comp = "mail" /\ comp \in journal.retired

KeysSay ==
  /\ pc \in {"delete", "mark"} => KeysLeft # {}
  /\ pc = "delete" => Absent(KeyOf(ThisKey)) \/ (at[KeyOf(ThisKey)] = "own" /\ KeyOf(ThisKey) \in journal.seen)
  /\ pc = "mark" => Absent(KeyOf(ThisKey))

StageDone == pc = "advance" =>
  /\ journal.stage = "database" => db = {}
  /\ \A d \in Component : journal.stage = d => Gone(d) /\ Wiped(d)
  /\ journal.stage = "keys" => KeysLeft = {}
  /\ journal.stage = "files" => NoneLeft

\* With databases under protection nothing is fetched while an attempt runs or is pending.
SyncSays == Managed /\ (pc # "idle" \/ Pending) => NoSync

KInv ==
  /\ ResetTypes /\ PlanOK /\ JournalHolds /\ PlanHolds /\ StageOfStep /\ RetiringSays
  /\ KeysSay /\ StageDone /\ SyncSays
=============================================================================
