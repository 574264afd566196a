----------------------------- MODULE DbStartup -----------------------------
(***************************************************************************)
(* Starting Hermes over a home whose databases are to be encrypted         *)
(* (dbcrypt/_startup.py, dbcrypt/_runtime.py): a start converts what the   *)
(* Desktop page scheduled, postpones it and runs plain, or refuses. Beside *)
(* it: the page that schedules and cancels, the maintenance command, and   *)
(* processes that die anywhere, above all in the prompt of the custody.    *)
(*                                                                         *)
(* The lease is the one DbLease specifies and the conversion the one of    *)
(* DbMigration, cut down to the records in mordred/ that starts look at.   *)
(***************************************************************************)
EXTENDS FiniteSets

CONSTANTS Process, Nobody

ASSUME ProcessAssumption == Nobody \notin Process

Sticky == {"attempting", "auth_interrupted"}
\* "other": every outcome but "busy" that a normal restart tries again.
Records == Sticky \cup {"none", "busy", "other"}

VARIABLES
  pending, journal, armed,   \* the schedule, the direction of the journal, the marker
  record,                    \* startup-conversion.json
  facts,                     \* the page saw a plain home with nothing scheduled
  shared, exclusive,         \* holders of the lease
  pc, job, resuming, note, wrote,   \* the processes
  cancelled, hung, guarded, swept   \* ghosts: see Cancel, Die and ClearStale

files == <<pending, journal, armed>>
lease == <<shared, exclusive>>
locals == <<pc, job, resuming, note, wrote>>
ghosts == <<cancelled, hung, guarded, swept>>
startupVars == <<files, record, facts, lease, locals, ghosts>>

StartupInit ==
  /\ pending \in BOOLEAN /\ journal = "none" /\ armed = FALSE /\ record = "none" /\ facts = FALSE
  /\ shared = {} /\ exclusive = Nobody
  /\ pc = [p \in Process |-> "off"] /\ job = [p \in Process |-> "start"]
  /\ resuming = [p \in Process |-> FALSE] /\ note = [p \in Process |-> "none"] /\ wrote = [p \in Process |-> FALSE]
  /\ cancelled = FALSE /\ hung = FALSE /\ guarded = [p \in Process |-> FALSE] /\ swept = FALSE

At(p, s) == pc[p] = s
Go(p, s) == pc' = [pc EXCEPT ![p] = s] /\ UNCHANGED <<job, resuming, note, wrote>>

\* The process ends, and the kernel takes its leases.
End(p) ==
  /\ pc' = [pc EXCEPT ![p] = "off"] /\ job' = [job EXCEPT ![p] = "start"]
  /\ resuming' = [resuming EXCEPT ![p] = FALSE] /\ note' = [note EXCEPT ![p] = "none"]
  /\ wrote' = [wrote EXCEPT ![p] = FALSE]
Quit(p) ==
  /\ End(p) /\ shared' = shared \ {p}
  /\ exclusive' = IF exclusive = p THEN Nobody ELSE exclusive

\* A record is written as a whole or, when the write fails, not at all.
Write(c) == record' \in {c, record}

-----------------------------------------------------------------------------
(* The Desktop page, in a process that holds no lease. *)

\* status_object: the facts encrypt_answer decides on, a while before it schedules.
ReadFacts ==
  /\ facts' = (journal = "none" /\ ~armed /\ ~pending) /\ facts' # facts
  /\ UNCHANGED <<files, record, lease, locals, ghosts>>

SchedulePressed ==
  /\ facts /\ facts' = FALSE
  /\ pending' = TRUE /\ cancelled' = FALSE
  /\ UNCHANGED <<journal, armed, record, lease, locals, hung, guarded, swept>>

\* unschedule, in one transaction of the directory.
Cancel ==
  /\ journal = "none" /\ ~armed /\ pending
  /\ pending' = FALSE /\ record' = "none"
  /\ cancelled' = TRUE /\ hung' = FALSE /\ guarded' = [p \in Process |-> FALSE] /\ swept' = FALSE
  /\ UNCHANGED <<journal, armed, facts, lease, locals>>

-----------------------------------------------------------------------------
(* run_scheduled_conversion, up to the exclusive lease. *)

Launch(p) ==
  /\ At(p, "off") /\ Go(p, "gate")
  /\ UNCHANGED <<files, record, facts, lease, ghosts>>

ReadIntent(p) ==
  /\ At(p, "gate")
  /\ pc' = [pc EXCEPT ![p] = IF pending THEN "work" ELSE "clear"]
  /\ resuming' = [resuming EXCEPT ![p] = pending /\ journal # "none"]
  /\ UNCHANGED <<files, record, facts, lease, job, note, wrote, ghosts>>

\* Nothing was scheduled when it looked: the record is stale. No lease is held, and
\* what has been scheduled since may lose its record.
ClearStale(p) ==
  /\ At(p, "clear") /\ Go(p, "strict")
  /\ Write("none")
  /\ swept' = (swept \/ (pending /\ record' # record))
  /\ UNCHANGED <<files, facts, lease, cancelled, hung, guarded>>

\* A schedule that is not done, or the journal of an encryption it was interrupted in.
ScheduledWork == pending /\ IF journal = "none" THEN ~armed ELSE journal = "encrypt"

CheckWork(p) ==
  /\ At(p, "work") /\ Go(p, IF ScheduledWork THEN "judge" ELSE "strict")
  /\ UNCHANGED <<files, record, facts, lease, ghosts>>

Postpone(p, c) ==
  /\ pc' = [pc EXCEPT ![p] = "postpone"] /\ note' = [note EXCEPT ![p] = c]
  /\ resuming' = [resuming EXCEPT ![p] = FALSE] /\ wrote' = [wrote EXCEPT ![p] = FALSE]
  /\ UNCHANGED job

\* What needs no lease: a durable verdict, and the prechecks.
Judge(p) ==
  /\ At(p, "judge")
  /\ IF ~resuming[p] /\ record = "auth_interrupted" THEN Postpone(p, "none")
     ELSE Go(p, "attempt") \/ Postpone(p, "other")
  /\ UNCHANGED <<files, record, facts, lease, ghosts>>

TakeExclusive(p) ==
  /\ At(p, "attempt") /\ shared = {} /\ exclusive = Nobody
  /\ exclusive' = p /\ Go(p, "inside")
  /\ UNCHANGED <<files, record, facts, shared, ghosts>>

\* Fault: the deadline is never looked at.
PollForever(p) ==
  /\ At(p, "attempt") /\ (shared # {} \/ exclusive # Nobody)
  /\ ~pending /\ journal = "none" /\ Go(p, "strict")
  /\ UNCHANGED <<files, record, facts, lease, ghosts>>

\* DatabaseBusy: a sibling finished, the schedule was cancelled, or the wait is
\* over; else it polls again.
PollBusy(p) ==
  /\ At(p, "attempt") /\ (shared # {} \/ exclusive # Nobody)
  /\ IF ~pending /\ journal = "none" THEN Go(p, "strict") ELSE Postpone(p, "busy")
  /\ UNCHANGED <<files, record, facts, lease, ghosts>>

-----------------------------------------------------------------------------
(* _attempt, under the exclusive lease. *)

Release(p) == exclusive' = Nobody /\ UNCHANGED shared

\* A sibling's conversion came first.
AttemptNothing(p) ==
  /\ At(p, "inside") /\ ~ScheduledWork
  /\ IF pending THEN UNCHANGED record ELSE Write("none")
  /\ Release(p)
  /\ pc' = [pc EXCEPT ![p] = "strict"] /\ resuming' = [resuming EXCEPT ![p] = FALSE]
  /\ UNCHANGED <<files, facts, job, note, wrote, ghosts>>

\* Whoever wrote the record died during its attempt.
AttemptInterrupted(p) ==
  /\ At(p, "inside") /\ ScheduledWork /\ journal = "none" /\ record \in Sticky
  /\ Write("auth_interrupted")
  /\ Release(p) /\ Postpone(p, "none")
  /\ UNCHANGED <<files, facts, ghosts>>

\* The guard is written before the custody is asked; over a journal the attempt
\* goes on without it.
AttemptConversion(p) ==
  /\ At(p, "inside") /\ ScheduledWork /\ (journal # "none" \/ record \notin Sticky)
  /\ \/ /\ record' = "attempting" \/ (journal # "none" /\ record' = record)
        /\ Go(p, "converting") /\ guarded' = [guarded EXCEPT ![p] = (journal = "none")]
        /\ hung' = (hung /\ journal # "none") /\ swept' = (swept /\ journal # "none")
        /\ UNCHANGED lease
     \/ /\ journal = "none" /\ UNCHANGED <<record, guarded, hung, swept>>
        /\ Release(p) /\ Postpone(p, "none")
  /\ UNCHANGED <<files, facts, cancelled>>

\* hermes-mordred databases encrypt or decrypt.
StartMaintenance(p, j) ==
  /\ At(p, "off") /\ shared = {} /\ exclusive = Nobody
  /\ exclusive' = p
  /\ pc' = [pc EXCEPT ![p] = "converting"] /\ job' = [job EXCEPT ![p] = j]
  /\ cancelled' = FALSE
  /\ UNCHANGED <<files, record, facts, shared, resuming, note, wrote, hung, guarded, swept>>

Goal(p) == IF job[p] = "decrypt" THEN "decrypt" ELSE "encrypt"

\* The custody authenticates, and a journal is resumed before a new one is made.
ResumeJournal(p) ==
  /\ At(p, "converting") /\ journal # "none" /\ Go(p, "publish")
  /\ UNCHANGED <<files, record, facts, lease, ghosts>>

WriteJournal(p) ==
  /\ At(p, "converting") /\ journal = "none"
  /\ journal' = Goal(p) /\ wrote' = [wrote EXCEPT ![p] = TRUE] /\ pc' = [pc EXCEPT ![p] = "publish"]
  /\ guarded' = [guarded EXCEPT ![p] = FALSE]
  /\ UNCHANGED <<pending, armed, record, facts, lease, job, resuming, note, cancelled, hung, swept>>

\* The marker changes before the first swap.
PublishMarker(p) ==
  /\ At(p, "publish") /\ armed' = (journal = "encrypt") /\ Go(p, "unpend")
  /\ UNCHANGED <<pending, journal, record, facts, lease, ghosts>>

RemovePending(p) ==
  /\ At(p, "unpend") /\ pending' = FALSE /\ Go(p, "unjournal")
  /\ hung' = FALSE /\ swept' = FALSE
  /\ UNCHANGED <<journal, armed, record, facts, lease, cancelled, guarded>>

RemoveJournal(p) ==
  /\ At(p, "unjournal") /\ journal' = "none" /\ Go(p, IF wrote[p] THEN "converted" ELSE "converting")
  /\ UNCHANGED <<pending, armed, record, facts, lease, ghosts>>

Converted(p) ==
  /\ At(p, "converted")
  /\ IF job[p] = "start"
     THEN /\ Write("none") /\ Release(p)
          /\ pc' = [pc EXCEPT ![p] = "strict"] /\ wrote' = [wrote EXCEPT ![p] = FALSE]
          /\ resuming' = [resuming EXCEPT ![p] = FALSE] /\ UNCHANGED <<job, note>>
     ELSE Quit(p) /\ UNCHANGED record
  /\ UNCHANGED <<files, facts, ghosts>>

InFlight == {"converting", "publish", "unpend", "unjournal"}

\* The conversion raises; its outcome replaces the guard under the lease.
ConversionFails(p) ==
  /\ pc[p] \in InFlight
  /\ IF job[p] = "start" THEN Write("other") /\ Release(p) /\ Postpone(p, "none")
     ELSE Quit(p) /\ UNCHANGED record
  /\ guarded' = [guarded EXCEPT ![p] = FALSE]
  /\ UNCHANGED <<files, facts, cancelled, hung, swept>>

-----------------------------------------------------------------------------
(* _postpone: run plain under the shared lease, if that is safe. *)

\* A journal refuses at once, unless a sibling may be about to finish it.
PostponeCheck(p) ==
  /\ At(p, "postpone")
  /\ IF note[p] # "busy" /\ journal # "none" THEN End(p) ELSE Go(p, "share")
  /\ UNCHANGED <<files, record, facts, lease, ghosts>>

PostponeShared(p) ==
  /\ At(p, "share") /\ exclusive = Nobody
  /\ shared' = shared \cup {p} /\ Go(p, "decide")
  /\ UNCHANGED <<files, record, facts, exclusive, ghosts>>

\* The sibling outlasts the wait.
ShareTimeout(p) ==
  /\ At(p, "share") /\ exclusive # Nobody /\ End(p)
  /\ UNCHANGED <<files, record, facts, lease, ghosts>>

\* Fault: the latest outcome wins.
RecordPostponedAlways(c) == IF c = "none" THEN UNCHANGED record ELSE Write(c)

\* _record_postponed: a sticky code stays, and busy says less than any other.
RecordPostponed(c) ==
  IF c = "none" \/ record \in Sticky \/ (c = "busy" /\ record # "none") THEN UNCHANGED record
  ELSE Write(c)

\* Fault: a busy start does not look for the journal again.
DecideUnchecked(p) ==
  /\ At(p, "decide")
  /\ IF ~pending THEN Write("none") ELSE IF armed THEN UNCHANGED record ELSE RecordPostponed(note[p])
  /\ IF armed
     THEN /\ pc' = [pc EXCEPT ![p] = "strict"] /\ note' = [note EXCEPT ![p] = "none"]
          /\ shared' = shared \ {p} /\ UNCHANGED <<exclusive, job, resuming, wrote>>
     ELSE /\ pc' = [pc EXCEPT ![p] = "plain"] /\ note' = [note EXCEPT ![p] = "none"]
          /\ UNCHANGED <<lease, job, resuming, wrote>>
  /\ UNCHANGED <<files, facts, ghosts>>

\* A journal overrides every outcome; a home armed meanwhile is not a plain one.
Decide(p) ==
  /\ At(p, "decide")
  /\ IF journal # "none" THEN Quit(p) /\ UNCHANGED record
     ELSE /\ IF ~pending THEN Write("none")
             ELSE IF armed THEN UNCHANGED record ELSE RecordPostponed(note[p])
          /\ note' = [note EXCEPT ![p] = "none"] /\ UNCHANGED <<exclusive, job, resuming, wrote>>
          /\ IF armed THEN shared' = shared \ {p} /\ pc' = [pc EXCEPT ![p] = "strict"]
             ELSE UNCHANGED shared /\ pc' = [pc EXCEPT ![p] = "plain"]
  /\ UNCHANGED <<files, facts, ghosts>>

-----------------------------------------------------------------------------
(* _install_native on the ordinary path, and runtimes. *)

\* _refuse_deferred_native_state before any lease, and the look at the marker.
StrictCheck(p) ==
  /\ At(p, "strict")
  /\ IF pending \/ journal # "none" THEN End(p)
     ELSE Go(p, IF armed THEN "admit_keyed" ELSE "admit_plain")
  /\ UNCHANGED <<files, record, facts, lease, ghosts>>

\* Fault: what was seen before the lease is taken for true under it.
AdmitAsSeen(p) ==
  /\ pc[p] \in {"admit_keyed", "admit_plain"} /\ exclusive = Nobody
  /\ shared' = shared \cup {p}
  /\ Go(p, IF At(p, "admit_keyed") THEN "keyed" ELSE "plain")
  /\ UNCHANGED <<files, record, facts, exclusive, ghosts>>

\* The checks are made again under the shared lease.
Admit(p) ==
  /\ pc[p] \in {"admit_keyed", "admit_plain"} /\ exclusive = Nobody
  /\ IF pending \/ journal # "none" \/ armed # At(p, "admit_keyed")
     THEN End(p) /\ UNCHANGED shared
     ELSE Go(p, IF armed THEN "keyed" ELSE "plain") /\ shared' = shared \cup {p}
  /\ UNCHANGED <<files, record, facts, exclusive, ghosts>>

AdmitTimeout(p) ==
  /\ pc[p] \in {"admit_keyed", "admit_plain"} /\ exclusive # Nobody /\ End(p)
  /\ UNCHANGED <<files, record, facts, lease, ghosts>>

\* A process ends anywhere; in an attempt that had published nothing it was killed
\* in the prompt, as far as the next start can tell.
Die(p) ==
  /\ ~At(p, "off") /\ Quit(p)
  /\ hung' = (hung \/ guarded[p])
  /\ guarded' = [guarded EXCEPT ![p] = FALSE]
  /\ UNCHANGED <<files, record, facts, cancelled, swept>>

-----------------------------------------------------------------------------

Maintenance == \E p \in Process, j \in {"encrypt", "decrypt"} : StartMaintenance(p, j)

Conversion(p) ==
  \/ ResumeJournal(p) \/ WriteJournal(p) \/ PublishMarker(p) \/ RemovePending(p)
  \/ RemoveJournal(p) \/ ConversionFails(p)

StartStep(p) ==
  \/ ReadIntent(p) \/ ClearStale(p) \/ CheckWork(p) \/ Judge(p) \/ TakeExclusive(p) \/ PollBusy(p)
  \/ AttemptNothing(p) \/ AttemptInterrupted(p) \/ AttemptConversion(p) \/ Converted(p)
  \/ PostponeCheck(p) \/ PostponeShared(p) \/ ShareTimeout(p) \/ Decide(p)
  \/ StrictCheck(p) \/ Admit(p) \/ AdmitTimeout(p)

Page == ReadFacts \/ SchedulePressed \/ Cancel

StartupNext ==
  \/ Page \/ Maintenance
  \/ \E p \in Process : Launch(p) \/ StartStep(p) \/ Conversion(p) \/ Die(p)

StartupSpec == StartupInit /\ [][StartupNext]_startupVars

\* Scheduled conversions only: nobody runs the maintenance commands.
SeamNext ==
  Page \/ \E p \in Process : Launch(p) \/ StartStep(p) \/ Conversion(p) \/ Die(p)
SeamSpec == StartupInit /\ [][SeamNext]_startupVars

\* Starts go on by themselves; nobody answers the prompt of a conversion.
LiveSpec == StartupSpec /\ \A p \in Process : WF_startupVars(StartStep(p))

-----------------------------------------------------------------------------
(* Properties. *)

Starting == {"gate", "clear", "work", "judge", "attempt", "postpone", "share", "strict",
             "admit_keyed", "admit_plain"}

\* The types; who works on the home holds its lease, and the leases exclude.
StartupTypes ==
  /\ pending \in BOOLEAN /\ journal \in {"none", "encrypt", "decrypt"} /\ armed \in BOOLEAN
  /\ record \in Records /\ facts \in BOOLEAN
  /\ shared = {p \in Process : pc[p] \in {"decide", "plain", "keyed"}}
  /\ exclusive \in Process \cup {Nobody}
  /\ \A p \in Process : exclusive = p <=> pc[p] \in InFlight \cup {"inside", "converted"}
  /\ exclusive # Nobody => shared = {}
  /\ pc \in [Process -> Starting \cup InFlight \cup {"off", "inside", "converted", "decide", "plain", "keyed"}]
  /\ job \in [Process -> {"start", "encrypt", "decrypt"}]
  /\ resuming \in [Process -> BOOLEAN] /\ note \in [Process -> {"none", "busy", "other"}]
  /\ wrote \in [Process -> BOOLEAN]
  /\ cancelled \in BOOLEAN /\ hung \in BOOLEAN /\ guarded \in [Process -> BOOLEAN] /\ swept \in BOOLEAN

\* "Startup never continues plain over" a journal: who runs, runs in the format of
\* the home, with no conversion begun and none left over.
RunsMatchHome ==
  \A p \in Process :
    /\ At(p, "plain") => journal = "none" /\ ~armed
    /\ At(p, "keyed") => journal = "none" /\ armed

\* The verdict over an attempt is passed when it is over: while one is in
\* flight its record stays, or is removed, but is never judged or replaced. And
\* it is passed in time: no start writes its outcome over a home that is converted,
\* where it would tell the page of a failure after the success. A prompt that
\* nobody answered hangs a respawn only once per removal of its record: after an
\* attempt died in it, no start asks the custody again for the same schedule, unless
\* a start that had looked before the schedule was made has swept the record away
\* since. The exception is real, and breaks what the module says: StickyUntilCancelled.
OutcomesInOrder ==
  [][/\ \A p \in Process : guarded'[p] /\ ~guarded[p] => ~hung \/ swept
     /\ \A p \in Process :
          /\ job[p] = "start" /\ pc[p] \in InFlight /\ pc'[p] \in InFlight
          /\ record = "attempting"
          => record' \in {"attempting", "none"}
     /\ record' \notin {record, "none"} =>
          journal # "none" \/ ~armed \/ \E p \in Process : pc[p] \in InFlight]_startupVars

\* The conversion at startup keeps what DbHome promises the runtimes: the format
\* changes only in a closed home, and only while nobody runs.
HomeMode == IF journal # "none" THEN "closed" ELSE IF armed THEN "enc" ELSE "plain"
HomeRuns == {IF At(p, "keyed") THEN "enc" ELSE "plain" : p \in {q \in Process : pc[q] \in {"plain", "keyed"}}}
HomeFormats == {IF armed THEN "enc" ELSE "plain"}
Home == INSTANCE DbHome WITH mode <- HomeMode, running <- HomeRuns, formats <- HomeFormats
HomeSpec == Home!Spec

\* Every start comes to an end: it runs, refuses, or asks the custody.
StartEnds == \A p \in Process : pc[p] \in Starting ~> pc[p] \notin Starting

-----------------------------------------------------------------------------
(* Why they hold: who is past the first write of a conversion has a journal *)
(* on disk, a guard is in force only between the record it wrote and that   *)
(* journal, and a prompt that hung leaves the schedule and, unless it is    *)
(* swept away or a journal has come, its record.                            *)

JournalOpen == \A p \in Process : pc[p] \in {"publish", "unpend", "unjournal"} => journal # "none"
GuardHolds == \A p \in Process : guarded[p] =>
  At(p, "converting") /\ journal = "none" /\ pending /\ (swept \/ record = "attempting")
HungWaits == hung =>
  /\ pending
  /\ journal = "none" /\ ~swept => record \in Sticky
  /\ \A p \in Process : pc[p] # "unjournal"
  /\ journal = "none" => \A p \in Process : job[p] = "start" => pc[p] \notin InFlight \cup {"converted"}

SInv == StartupTypes /\ RunsMatchHome /\ JournalOpen /\ GuardHolds /\ HungWaits

-----------------------------------------------------------------------------
(* Promises of docs and tests that the code does not keep, under SeamSpec   *)
(* with two processes: see the README.                                      *)

\* "Sticky: no start retries it and no other outcome replaces it until unschedule
\* clears it": without a journal the verdict goes only with the schedule.
StickyUntilCancelled ==
  [][record = "auth_interrupted" /\ journal = "none" /\ record' # record => ~pending']_startupVars

\* "Refuses once one has started": a home whose schedule was cancelled is not
\* converted, unless it is scheduled again or maintained.
CancelledStaysPlain == cancelled => journal = "none" /\ ~armed

\* "Our own crash always leaves the schedule": while nobody cancels, the journal
\* that an attempt leaves behind still has its schedule.
JournalLeavesSchedule == journal # "none" /\ exclusive = Nobody /\ ~cancelled => pending
=============================================================================
