------------------------------ MODULE AuditLog ------------------------------
(***************************************************************************)
(* The audit log of a profile on macOS and Linux: the encrypted writer     *)
(* (keyvault/log_encryption.py), the plaintext writer it replaces          *)
(* (privacy_check/audit.py) and their rotation (_core/_log_rotation.py).   *)
(* Every process has one writer. Writers exclude each other by the sidecar *)
(* lock; an encrypted one holds the keyvault's lifecycle lock around it,   *)
(* so that a reset is before or after an append. A process may die at any  *)
(* step; the next one finds what it left.                                  *)
(*                                                                         *)
(* A data key is a number, drawn by the writer that makes a file; 0 is the *)
(* plaintext format. A line records the key it is encrypted under, the     *)
(* keyvault generation it was written in and the day of its timestamp.     *)
(***************************************************************************)
EXTENDS FiniteSets, Integers, Sequences

CONSTANTS Proc, None, NoFile,
          Retain,     \* days a rotated file is kept
          Cap,        \* lines that fill a file
          MaxEntry, MaxDay, MaxReset, MaxFault, MaxDeath   \* bounds of what happens

VARIABLES
  vault, epoch,      \* the keyvault, and its generation epoch
  lifecycle, sidecar,\* the holders of the two locks
  active, rotated,   \* audit.log, and the files beside it
  kind, mine, lease, last,  \* each process's writer: its format, data key, generation, last date
  at, entry, turn,   \* the append each process is in, its entry, the rotation in it
  acked,             \* the entries whose append returned
  today, count, drawn, resets, faults, deaths

vaultVars == <<vault, epoch, resets>>
lockVars == <<lifecycle, sidecar>>
fileVars == <<active, rotated>>
writerVars == <<kind, mine, lease, last>>
stepVars == <<at, entry, turn>>
tally == <<acked, today, count, drawn, faults, deaths>>
vars == <<vaultVars, lockVars, fileVars, writerVars, stepVars, tally>>

Plain == 0
NoEntry == [id |-> 0, day |-> 0]

\* A rotation: the date in the name and its number, and the day it was decided on.
NoTurn == [day |-> 0, n |-> 0, on |-> 0]

Init ==
  /\ vault \in {"absent", "active"} /\ epoch = 1 /\ resets = 0
  /\ lifecycle = None /\ sidecar = None
  /\ active = NoFile /\ rotated = {}
  /\ kind = [p \in Proc |-> "none"] /\ mine = [p \in Proc |-> Plain]
  /\ lease = [p \in Proc |-> 0] /\ last = [p \in Proc |-> 0]
  /\ at = [p \in Proc |-> "idle"] /\ entry = [p \in Proc |-> NoEntry] /\ turn = [p \in Proc |-> NoTurn]
  /\ acked = {} /\ today = 1 /\ count = 0 /\ drawn = 0 /\ faults = 0 /\ deaths = 0

-----------------------------------------------------------------------------
(* Files.                                                                   *)

\* head: the first line is a whole header, or was cut, or there is nothing yet.
File(key, head) ==
  [key |-> key, epoch |-> IF key = Plain THEN 0 ELSE epoch, head |-> head, lines |-> <<>>, mtime |-> today]

Encrypted(f) == f # NoFile /\ f.key # Plain /\ f.head = "whole"
Holds(f, e) == f # NoFile /\ \E i \in DOMAIN f.lines : f.lines[i].id = e.id
Torn(f) == f.lines # <<>> /\ f.lines[Len(f.lines)].state = "torn"

\* _assert_plaintext_append_safe reads the first line only.
PlainMayAppend(f) ==
  \/ f = NoFile
  \/ f.head = "none" /\ f.lines = <<>>
  \/ f.key = Plain /\ f.lines # <<>> /\ f.lines[1].state = "whole"

Rotation(day, n, form, f) == [day |-> day, n |-> n, form |-> form, file |-> f]

\* next_rotation_target: the first number whose raw and compressed names are free.
Slot(day) ==
  LET taken == {r.n : r \in {q \in rotated : q.day = day}}
  IN CHOOSE n \in 0..Cardinality(rotated) : n \notin taken /\ \A m \in 0..(n - 1) : m \in taken

\* os.replace onto that name.
Renamed(day) ==
  {r \in rotated : ~(r.day = day /\ r.n = Slot(day) /\ r.form = "raw")}
    \cup {Rotation(day, Slot(day), "raw", active)}

-----------------------------------------------------------------------------
(* The keyvault and the calendar.                                           *)

\* `keyvault init`: a new root is a new generation.
InitVault ==
  /\ lifecycle = None /\ vault = "absent"
  /\ vault' = "active" /\ epoch' = epoch + 1
  /\ UNCHANGED <<resets, lockVars, fileVars, writerVars, stepVars, tally>>

\* _prepare: the journal is saved and the epoch renewed.
PrepareReset ==
  /\ lifecycle = None /\ vault # "absent" /\ resets < MaxReset
  /\ vault' = "resetting" /\ epoch' = epoch + 1 /\ resets' = resets + 1
  /\ UNCHANGED <<lockVars, fileVars, writerVars, stepVars, tally>>

\* Its stages: at the end keys, files and journal are gone; audit logs stay.
FinishReset ==
  /\ lifecycle = None /\ vault = "resetting" /\ vault' = "absent"
  /\ UNCHANGED <<epoch, resets, lockVars, fileVars, writerVars, stepVars, tally>>

Midnight ==
  /\ today < MaxDay /\ today' = today + 1
  /\ UNCHANGED <<vaultVars, lockVars, fileVars, writerVars, stepVars, acked, count, drawn, faults, deaths>>

\* `audit purge`, one name at a time and without the lock.
Purge(cutoff) ==
  /\ \E r \in rotated :
       /\ r.day < cutoff /\ rotated' = rotated \ {r}
       /\ acked' = {a \in acked : ~Holds(r.file, a)}
  /\ UNCHANGED <<vaultVars, lockVars, active, writerVars, stepVars, today, count, drawn, faults, deaths>>

-----------------------------------------------------------------------------
(* The factory.                                                             *)

\* _rotate_encrypted_log_aside: a rename only.
StepAside ==
  IF Encrypted(active)
  THEN active' = NoFile /\ rotated' = Renamed(today)
  ELSE UNCHANGED fileVars

\* make_audit_writer: the writer of an initialised keyvault.
MakeEncrypted(p) ==
  /\ kind[p] = "none" /\ lifecycle = None /\ vault = "active"
  /\ kind' = [kind EXCEPT ![p] = "encrypted"] /\ lease' = [lease EXCEPT ![p] = epoch]
  /\ UNCHANGED <<vaultVars, lockVars, fileVars, mine, last, stepVars, tally>>

\* No keyvault.
MakePlain(p) ==
  /\ kind[p] = "none" /\ sidecar = None /\ vault = "absent"
  /\ kind' = [kind EXCEPT ![p] = "plain"] /\ StepAside
  /\ UNCHANGED <<vaultVars, lockVars, mine, lease, last, stepVars, tally>>

Submits(p, i) ==
  /\ count < MaxEntry /\ count' = count + 1
  /\ at' = [at EXCEPT ![p] = "waiting"] /\ entry' = [entry EXCEPT ![p] = [id |-> i, day |-> today]]

\* A keyvault that cannot be used, or is being reset: plaintext, and the log says so.
FallBack(p) ==
  /\ kind[p] = "none" /\ sidecar = None /\ vault # "absent"
  /\ vault = "resetting" \/ faults < MaxFault
  /\ faults' = IF vault = "resetting" THEN faults ELSE faults + 1
  /\ kind' = [kind EXCEPT ![p] = "plain"] /\ StepAside /\ Submits(p, count + 1)
  /\ UNCHANGED <<vaultVars, lockVars, mine, lease, last, turn, acked, today, drawn, deaths>>

-----------------------------------------------------------------------------
(* append().                                                                *)

\* The timestamp is taken before any lock.
Submit(p) ==
  /\ at[p] = "idle" /\ kind[p] # "none" /\ Submits(p, count + 1)
  /\ UNCHANGED <<vaultVars, lockVars, fileVars, writerVars, turn, acked, today, drawn, faults, deaths>>

Goes(p, place) == at' = [at EXCEPT ![p] = place]
Wipes(p) == mine' = [mine EXCEPT ![p] = Plain]
Leaves(p) ==
  /\ Goes(p, "idle") /\ entry' = [entry EXCEPT ![p] = NoEntry] /\ turn' = [turn EXCEPT ![p] = NoTurn]
  /\ lifecycle' = IF lifecycle = p THEN None ELSE lifecycle
  /\ sidecar' = IF sidecar = p THEN None ELSE sidecar

\* _assert_keyvault_generation, under the lifecycle lock.
SameGeneration(p) == vault = "active" /\ epoch = lease[p]

EnterVault(p) ==
  /\ at[p] = "waiting" /\ kind[p] = "encrypted" /\ lifecycle = None
  /\ IF SameGeneration(p)
     THEN Goes(p, "vaulted") /\ lifecycle' = p /\ UNCHANGED <<sidecar, mine, entry, turn>>
     ELSE Leaves(p) /\ Wipes(p)
  /\ UNCHANGED <<vaultVars, fileVars, kind, lease, last, tally>>

\* _refresh_active_ownership: the key, if the file is still the one it made.
OwnKey(p) == IF Encrypted(active) /\ active.key = mine[p] THEN mine[p] ELSE Plain

DateChanged(p) == last[p] \notin {0, today} /\ active # NoFile
Full == active # NoFile /\ Len(active.lines) + 1 > Cap

\* What _maybe_rotate, and then _active, do with the file that is there.
RotatesOwn(p) == OwnKey(p) # Plain /\ (DateChanged(p) \/ Full)
Under(p) == IF DateChanged(p) THEN last[p] ELSE today

Turns(p, day) == Goes(p, "rotate") /\ turn' = [turn EXCEPT ![p] = [day |-> day, n |-> 0, on |-> today]]
Dated(p) == last' = [last EXCEPT ![p] = today]

EnterEncrypted(p) ==
  /\ at[p] = "vaulted" /\ sidecar = None /\ sidecar' = p
  /\ IF RotatesOwn(p)
     THEN Turns(p, Under(p)) /\ UNCHANGED <<mine, last>>
     ELSE /\ mine' = [mine EXCEPT ![p] = OwnKey(p)] /\ Dated(p)
          /\ IF OwnKey(p) # Plain THEN Goes(p, "write") /\ UNCHANGED turn
             ELSE IF active = NoFile THEN Goes(p, "create") /\ UNCHANGED turn
             ELSE Turns(p, today)
  /\ UNCHANGED <<vaultVars, lifecycle, fileVars, kind, lease, entry, tally>>

\* The plaintext writer refuses any format but its own, before it rotates.
EnterPlain(p) ==
  /\ at[p] = "waiting" /\ kind[p] = "plain" /\ sidecar = None
  /\ IF ~PlainMayAppend(active)
     THEN Leaves(p) /\ UNCHANGED last
     ELSE /\ sidecar' = p /\ UNCHANGED <<lifecycle, entry>>
          /\ IF DateChanged(p) \/ Full
             THEN Turns(p, Under(p)) /\ UNCHANGED last
             ELSE Goes(p, "write") /\ Dated(p) /\ UNCHANGED turn
  /\ UNCHANGED <<vaultVars, fileVars, kind, mine, lease, tally>>

-----------------------------------------------------------------------------
(* Rotation: rename, compress, remove the raw file, sweep.                  *)

Rename(p) ==
  /\ at[p] = "rotate" /\ active' = NoFile /\ rotated' = Renamed(turn[p].day)
  /\ turn' = [turn EXCEPT ![p].n = Slot(turn[p].day)] /\ Goes(p, "compress")
  /\ UNCHANGED <<vaultVars, lockVars, writerVars, entry, tally>>

\* A rename, or the wrapping of a data key, that fails: so does the append.
StepFails(p) ==
  /\ at[p] \in {"rotate", "create"} /\ faults < MaxFault /\ faults' = faults + 1 /\ Leaves(p)
  /\ UNCHANGED <<vaultVars, fileVars, writerVars, acked, today, count, drawn, deaths>>

Here(p, form) == {r \in rotated : r.day = turn[p].day /\ r.n = turn[p].n /\ r.form = form}

\* compress_rotated_file begins; or a purge has taken the raw file away, before
\* the rename was verified (the append fails) or after.
Compress(p) ==
  /\ at[p] = "compress"
  /\ \/ /\ Here(p, "raw") # {} /\ Goes(p, "compressing")
        /\ rotated' = rotated \cup {[r EXCEPT !.form = "part", !.file.mtime = today] : r \in Here(p, "raw")}
        /\ UNCHANGED <<lockVars, entry, turn>>
     \/ /\ Here(p, "raw") = {} /\ UNCHANGED rotated
        /\ \/ Leaves(p)
           \/ Goes(p, "sweep") /\ UNCHANGED <<lockVars, entry, turn>>
  /\ UNCHANGED <<vaultVars, active, writerVars, tally>>

Compressed(p) ==
  /\ at[p] = "compressing"
  /\ rotated' = (rotated \ Here(p, "part")) \cup {[r EXCEPT !.form = "gz"] : r \in Here(p, "part")}
  /\ Goes(p, "unlink")
  /\ UNCHANGED <<vaultVars, lockVars, active, writerVars, entry, turn, tally>>

\* A gzip failure keeps the raw file.
CompressFails(p) ==
  /\ at[p] = "compressing" /\ faults < MaxFault /\ faults' = faults + 1
  /\ rotated' = rotated \ Here(p, "part") /\ Goes(p, "sweep")
  /\ UNCHANGED <<vaultVars, lockVars, active, writerVars, entry, turn, acked, today, count, drawn, deaths>>

UnlinkRaw(p) ==
  /\ at[p] = "unlink" /\ rotated' = rotated \ Here(p, "raw") /\ Goes(p, "sweep")
  /\ UNCHANGED <<vaultVars, lockVars, active, writerVars, entry, turn, tally>>

Sweep(p) ==
  /\ at[p] = "sweep" /\ rotated' = {r \in rotated : r.file.mtime >= today - Retain}
  /\ Goes(p, IF kind[p] = "plain" THEN "write" ELSE "create")
  /\ Wipes(p) /\ last' = [last EXCEPT ![p] = turn[p].on] /\ turn' = [turn EXCEPT ![p] = NoTurn]
  /\ UNCHANGED <<vaultVars, lockVars, active, kind, lease, entry, tally>>

-----------------------------------------------------------------------------
(* The header, and the entry.                                               *)

\* _active: a fresh data key; the file is there before its header is.
Create(p) ==
  /\ at[p] = "create" /\ drawn' = drawn + 1
  /\ active' = File(drawn + 1, "none") /\ Goes(p, "header")
  /\ UNCHANGED <<vaultVars, lockVars, rotated, writerVars, entry, turn, acked, today, count, faults, deaths>>

WriteHeader(p) ==
  /\ at[p] = "header"
  /\ \/ active.head = "none" /\ active' = [active EXCEPT !.head = "cut"] /\ UNCHANGED <<at, mine>>
     \/ /\ active.head = "cut" /\ active' = [active EXCEPT !.head = "whole"]
        /\ mine' = [mine EXCEPT ![p] = active.key] /\ Goes(p, "write")
  /\ UNCHANGED <<vaultVars, lockVars, rotated, kind, lease, last, entry, turn, tally>>

\* _write_all truncates what it began, and the append fails.
HeaderFails(p) ==
  /\ at[p] = "header" /\ faults < MaxFault /\ faults' = faults + 1
  /\ active' = [active EXCEPT !.head = "none"] /\ Leaves(p)
  /\ UNCHANGED <<vaultVars, rotated, writerVars, acked, today, count, drawn, deaths>>

Line(p, state) == [id |-> entry[p].id, day |-> entry[p].day, key |-> mine[p], state |-> state,
                   epoch |-> IF kind[p] = "plain" THEN 0 ELSE epoch]

\* O_APPEND | O_CREAT: part of the line is in the file, then all of it. What comes
\* after a line that was cut is on that line.
WriteSome(p) ==
  /\ at[p] = "write" /\ Goes(p, "writing")
  /\ LET f == IF active = NoFile THEN File(Plain, "none") ELSE active
         g == IF f.head = "none" THEN [f EXCEPT !.key = mine[p]] ELSE f
     IN active' = [g EXCEPT !.lines = Append(@, Line(p, IF Torn(g) THEN "merging" ELSE "torn")), !.mtime = today]
  /\ UNCHANGED <<vaultVars, lockVars, rotated, writerVars, entry, turn, tally>>

WriteRest(p) ==
  /\ at[p] = "writing"
  /\ active' = [active EXCEPT !.lines[Len(active.lines)].state = IF @ = "torn" THEN "whole" ELSE "merged"]
  /\ acked' = acked \cup {entry[p]} /\ Leaves(p)
  /\ UNCHANGED <<vaultVars, rotated, writerVars, today, count, drawn, faults, deaths>>

WriteFails(p) ==
  /\ at[p] = "writing" /\ faults < MaxFault /\ faults' = faults + 1
  /\ active' = [active EXCEPT !.lines = SubSeq(@, 1, Len(@) - 1)] /\ Leaves(p)
  /\ UNCHANGED <<vaultVars, rotated, writerVars, acked, today, count, drawn, deaths>>

\* The process dies in an append, or ends: its locks and its data key go with it.
Forgets(p) ==
  /\ kind' = [kind EXCEPT ![p] = "none"] /\ Wipes(p) /\ Leaves(p)
  /\ lease' = [lease EXCEPT ![p] = 0] /\ last' = [last EXCEPT ![p] = 0]
  /\ UNCHANGED <<vaultVars, fileVars, acked, today, count, drawn, faults>>

Die(p) == at[p] # "idle" /\ deaths < MaxDeath /\ deaths' = deaths + 1 /\ Forgets(p)
Exit(p) == at[p] = "idle" /\ kind[p] # "none" /\ Forgets(p) /\ UNCHANGED deaths

-----------------------------------------------------------------------------
Appends(p) ==
  \/ EnterVault(p) \/ EnterEncrypted(p) \/ EnterPlain(p)
  \/ Rename(p) \/ StepFails(p) \/ Compress(p) \/ Compressed(p) \/ CompressFails(p) \/ UnlinkRaw(p) \/ Sweep(p)
  \/ Create(p) \/ WriteHeader(p) \/ HeaderFails(p) \/ WriteSome(p) \/ WriteRest(p) \/ WriteFails(p)

Next ==
  \/ InitVault \/ PrepareReset \/ FinishReset \/ Midnight
  \/ \E cutoff \in 2..MaxDay : Purge(cutoff)
  \/ \E p \in Proc : \/ MakeEncrypted(p) \/ MakePlain(p) \/ FallBack(p) \/ Submit(p)
                      \/ Appends(p) \/ Die(p) \/ Exit(p)

Spec == Init /\ [][Next]_vars

\* A process that is in an append is scheduled, and a lock that is free is granted.
FairSpec == Spec /\ \A p \in Proc : WF_vars(Appends(p))

-----------------------------------------------------------------------------
(* Properties.                                                              *)

Files == ({active} \cup {r.file : r \in rotated}) \ {NoFile}
EncryptedLogs == {f \in Files : f.key # Plain /\ f.lines # <<>>}

\* Every line of an encrypted log is encrypted under the data key in that log's
\* header, and no plaintext log holds an encrypted line, whoever wrote to it: a
\* writer checks that the file is still its own before it uses its key, and a
\* plaintext writer that it is not an encrypted one (_refresh_active_ownership,
\* _assert_plaintext_append_safe).
NoSplice == \A f \in Files : \A i \in DOMAIN f.lines : f.lines[i].key = f.key

\* A log is written in one generation of the keyvault: no writer that was made
\* before a reset adds to it after (_assert_keyvault_generation).
OneGeneration == \A f \in EncryptedLogs : \A i \in DOMAIN f.lines : f.lines[i].epoch = f.epoch

\* An entry whose append returned stays on disk in a file that is read, through
\* every rotation, failed or interrupted, until it is purged or has been kept for
\* the retention (next_rotation_target, compress_rotated_file, sweep_retention).
AckKept ==
  \A a \in acked : a.day >= today - Retain =>
    Holds(active, a) \/ \E r \in rotated : r.form \in {"raw", "gz"} /\ Holds(r.file, a)

\* A rotated encrypted log is never named for a day before one of its entries, so
\* a purge by date takes no later entry (EncryptedWriter._maybe_rotate, _active).
NamedNoEarlier ==
  \A r \in rotated : r.file \in EncryptedLogs => \A i \in DOMAIN r.file.lines : r.file.lines[i].day <= r.day

\* While nobody died in an append, whoever holds the lock sees whole files only: no
\* part of a header, of a line or of a compressed file, and no file twice, whatever
\* failed (_read_decrypt_targets: "a partial base64 line or in-progress gzip is
\* never misreported as audit-log corruption").
QuietIsWhole ==
  sidecar = None /\ deaths = 0 =>
    /\ \A f \in Files : f.head # "cut" /\ ~Torn(f)
    /\ \A r, s \in rotated : r.form # "part" /\ (<<r.day, r.n>> = <<s.day, s.n>> => r = s)

\* What a dead process cut is the end of its encrypted log: nobody writes after it
\* (EncryptedWriter._active rotates every file that it did not make).
CutIsTheEnd ==
  \A f \in EncryptedLogs : \A i \in DOMAIN f.lines :
    f.lines[i].state # "whole" => i = Len(f.lines) /\ f.lines[i].state = "torn"

\* Every append returns or raises; no step waits for a lock that is never released.
Answered == \A p \in Proc : at[p] # "idle" ~> at[p] = "idle"

\* "first append on a new UTC day rotates yesterday" (NDJSONWriter._maybe_rotate).
\* With two processes it may rotate what the other wrote today.
RotatesYesterday ==
  \A r \in rotated : r.file.key = Plain => \A i \in DOMAIN r.file.lines : r.file.lines[i].day <= r.day

\* The files that `audit decrypt --date` opens: those named for the day, and the active
\* one if the day is today.
DecryptTargets(day) ==
  {r.file : r \in {q \in rotated : q.day = day /\ q.form \in {"raw", "gz"}}}
    \cup IF day = today THEN {active} ELSE {}

\* "snapshot the encrypted-log files holding target's entries [...] the active audit.log
\* holds the current UTC day until it rotates, so it is included only when target is
\* today" (_read_decrypt_targets). After a midnight without an append it holds the day before.
DecryptFindsDay ==
  (\A p \in Proc : at[p] = "idle") =>
    \A a \in acked : (\E f \in EncryptedLogs : Holds(f, a) /\ f.mtime = a.day) =>
      \E f \in DecryptTargets(a.day) : Holds(f, a)
=============================================================================
