---------------------------- MODULE AuditLogProofs ----------------------------
(***************************************************************************)
(* The safety properties of AuditLog for any number of processes, entries, *)
(* days, resets, failures and deaths.                                      *)
(*                                                                         *)
(* NoSplice, OneGeneration: a writer uses its data key only on a file with *)
(* that key in its header, and between that look and the write it holds    *)
(* the sidecar, so that nobody else touches the file; the lifecycle lock,  *)
(* which it holds around it, keeps the keyvault in its generation. What a  *)
(* writer remembers without a lock is tied to the files by Owned: whatever *)
(* file has its key is of the generation that the writer was made in.      *)
(*                                                                         *)
(* The other four split the steps in two: those that write to the active   *)
(* log (Writes), and those that at most rename, copy or remove whole files *)
(* (Calm). CutIsTheEnd: a log with a cut has lost its writer               *)
(* (CutsAbandoned). NamedNoEarlier: a writer's log has no line after its   *)
(* writer's last date (LinesDated). AckKept: a name is never taken twice   *)
(* (SlotFree), a copy is whole before the raw file goes (CopiesHold), and  *)
(* a file is as young as its entries (FilesYoung). QuietIsWhole: while     *)
(* nobody dies, only the holder of the sidecar has anything cut or twice   *)
(* (CutHeld, NamesOnce).                                                   *)
(***************************************************************************)
EXTENDS AuditLog, FiniteSetTheorems, SequenceTheorems, TLAPS

Places == {"idle", "waiting", "vaulted", "rotate", "compress", "compressing", "unlink", "sweep",
           "create", "header", "write", "writing"}
Locked == Places \ {"idle", "waiting", "vaulted"}
Turned == {"compress", "compressing", "unlink", "sweep", "create"}

LineType == [id : Nat, day : Nat, key : Nat, state : {"torn", "merging", "whole", "merged"}, epoch : Nat]
LogType == [key : Nat, epoch : Nat, head : {"none", "cut", "whole"}, lines : Seq(LineType), mtime : Nat]

\* The constants for "nobody" and "no file" are no process and no file.
Distinct == None \notin Proc /\ NoFile \notin LogType

\* The parts of the inductive invariant.
Types ==
  /\ epoch \in Nat /\ drawn \in Nat /\ today \in Nat /\ count \in Nat
  /\ kind \in [Proc -> {"none", "plain", "encrypted"}] /\ at \in [Proc -> Places]
  /\ mine \in [Proc -> Nat] /\ lease \in [Proc -> Nat]
  /\ entry \in [Proc -> [id : Nat, day : Nat]]

\* A line belongs to its file; a header comes first.
Fit(f) ==
  /\ f \in LogType
  /\ \A i \in DOMAIN f.lines : f.lines[i].key = f.key /\ (f.key # Plain => f.lines[i].epoch = f.epoch)
  /\ f.key = Plain => f.head = "none"
  /\ f.key # Plain /\ f.head # "whole" => f.lines = <<>>
Filed ==
  /\ active # NoFile => Fit(active)
  /\ \A r \in rotated : Fit(r.file) /\ r = [day |-> r.day, n |-> r.n, form |-> r.form, file |-> r.file]

\* No key is drawn twice, and the file of a key is of its writer's generation.
Known(f) == f.key <= drawn /\ \A p \in Proc : mine[p] # Plain /\ f.key = mine[p] => f.epoch = lease[p]
Owned ==
  /\ active # NoFile => Known(active)
  /\ \A r \in rotated : Known(r.file)
  /\ \A p \in Proc : mine[p] <= drawn /\ (kind[p] # "encrypted" => mine[p] = Plain)

Held ==
  \A p \in Proc :
    /\ at[p] \in Locked => sidecar = p
    /\ at[p] \in Locked \cup {"vaulted"} /\ kind[p] = "encrypted" => lifecycle = p /\ epoch = lease[p]
    /\ at[p] \in {"vaulted", "create", "header"} => kind[p] = "encrypted"
    /\ kind[p] = "none" => at[p] = "idle"

\* What stands between two steps of the holder of the sidecar.
Placed ==
  \A p \in Proc :
    /\ at[p] \in {"rotate", "header", "writing"} => active # NoFile
    /\ at[p] \in Turned => active = NoFile
    /\ at[p] = "header" => /\ active.key # Plain /\ active.head # "whole" /\ active.epoch = lease[p]
                           /\ \A r \in rotated : r.file.key # active.key
    /\ at[p] = "write" /\ kind[p] = "encrypted" =>
         active # NoFile /\ active.head = "whole" /\ active.key = mine[p] /\ mine[p] # Plain
    /\ at[p] = "write" /\ kind[p] = "plain" => active = NoFile \/ active.head = "none"
    /\ at[p] = "writing" => active.lines # <<>>

IInv == Types /\ Filed /\ Owned /\ Held /\ Placed

-----------------------------------------------------------------------------
LEMMA InitIInv == Init => IInv
  BY DEF Init, IInv, Types, Filed, Owned, Held, Placed, Places, Locked, Turned, Plain, NoEntry, NoTurn

\* Who holds the sidecar is alone between its lock and its release.
LEMMA Alone ==
  ASSUME Distinct, Held, NEW q \in Proc, sidecar # q
  PROVE  at[q] \notin Locked
  BY DEF Distinct, Held

-----------------------------------------------------------------------------
(* The keyvault, the calendar and a purge.                                  *)

LEMMA VaultStep == Distinct /\ IInv /\ (InitVault \/ PrepareReset \/ FinishReset) => IInv'
<1> SUFFICES ASSUME Distinct, IInv, InitVault \/ PrepareReset \/ FinishReset PROVE IInv'
  OBVIOUS
<1>1. UNCHANGED <<sidecar, lifecycle, fileVars, writerVars, stepVars, tally>> /\ lifecycle = None
  BY DEF InitVault, PrepareReset, FinishReset, lockVars
<1>2. Types'
  BY <1>1 DEF IInv, Types, InitVault, PrepareReset, FinishReset, writerVars, stepVars, tally
<1>3. Filed' /\ Owned' /\ Placed'
  BY <1>1 DEF IInv, Filed, Owned, Known, Placed, fileVars, writerVars, stepVars, tally
<1>4. Held'
  BY <1>1 DEF IInv, Held, Distinct, writerVars, stepVars
<1> QED
  BY <1>2, <1>3, <1>4 DEF IInv

LEMMA MidnightStep == IInv /\ Midnight => IInv'
  BY DEF IInv, Midnight, Types, Filed, Owned, Known, Held, Placed, vaultVars, lockVars, fileVars,
         writerVars, stepVars

LEMMA PurgeStep ==
  ASSUME IInv, NEW cutoff, Purge(cutoff)
  PROVE  IInv'
<1>1. rotated' \subseteq rotated
        /\ UNCHANGED <<vaultVars, lockVars, active, writerVars, stepVars, today, count, drawn>>
  BY DEF Purge
<1> QED
  BY <1>1 DEF IInv, Types, Filed, Owned, Known, Held, Placed, vaultVars, lockVars, writerVars, stepVars

-----------------------------------------------------------------------------
(* The factory.                                                             *)

\* An encrypted log is moved aside as it is.
LEMMA AsideFiles ==
  ASSUME Distinct, Filed, Owned, StepAside
  PROVE  /\ active' = active \/ active' = NoFile
         /\ active' # NoFile => Fit(active')
         /\ \A r \in rotated' : /\ Fit(r.file) /\ Known(r.file)
                                /\ r = [day |-> r.day, n |-> r.n, form |-> r.form, file |-> r.file]
<1>1. CASE Encrypted(active)
  <2>1. active' = NoFile /\ rotated' = Renamed(today)
    BY <1>1 DEF StepAside
  <2>2. \A r \in rotated' : r \in rotated \/ r = Rotation(today, Slot(today), "raw", active)
    BY <2>1 DEF Renamed
  <2>3. Fit(active) /\ Known(active)
    BY <1>1 DEF Encrypted, Filed, Owned
  <2> QED
    BY <2>1, <2>2, <2>3 DEF Filed, Owned, Rotation
<1>2. CASE ~Encrypted(active)
  BY <1>2 DEF StepAside, fileVars, Filed, Owned
<1> QED
  BY <1>1, <1>2

LEMMA MakeEncryptedStep ==
  ASSUME Distinct, IInv, NEW p \in Proc, MakeEncrypted(p)
  PROVE  IInv'
<1>1. /\ kind[p] = "none" /\ at[p] = "idle" /\ mine[p] = Plain
      /\ kind' = [kind EXCEPT ![p] = "encrypted"] /\ lease' = [lease EXCEPT ![p] = epoch]
      /\ UNCHANGED <<vaultVars, lockVars, fileVars, mine, stepVars, tally>>
  BY DEF MakeEncrypted, IInv, Held, Owned, Types
<1>2. Types'
  BY <1>1 DEF IInv, Types, vaultVars, stepVars, tally
<1>3. Filed'
  BY <1>1 DEF IInv, Filed, fileVars
<1>4. Owned'
  BY <1>1 DEF IInv, Types, Owned, Known, fileVars, tally
<1>5. Held' /\ Placed'
  BY <1>1 DEF IInv, Types, Held, Placed, Places, Locked, Turned, vaultVars, lockVars, fileVars, stepVars
<1> QED
  BY <1>2, <1>3, <1>4, <1>5 DEF IInv

\* A writer without a data key, made under the sidecar, in front of an append or not.
LEMMA PlainMade ==
  ASSUME Distinct, IInv, NEW p \in Proc, kind[p] = "none", sidecar = None, StepAside,
         kind' = [kind EXCEPT ![p] = "plain"], at' \in {at, [at EXCEPT ![p] = "waiting"]},
         count' \in Nat, entry' \in [Proc -> [id : Nat, day : Nat]],
         UNCHANGED <<vaultVars, lockVars, mine, lease, today, drawn>>
  PROVE  IInv'
<1>1. mine[p] = Plain /\ \A q \in Proc : at[q] \notin Locked /\ at'[q] \notin Locked
  BY Alone DEF IInv, Owned, Types, Distinct, Locked, Places
<1>2. Types'
  BY DEF IInv, Types, vaultVars, Places
<1>3. Filed'
  BY AsideFiles DEF IInv, Filed
<1>4. Owned'
  BY <1>1, AsideFiles DEF IInv, Types, Owned, Known
<1>5. Held'
  BY <1>1 DEF IInv, Types, Held, vaultVars, lockVars, Distinct
<1>6. Placed'
  BY <1>1 DEF Placed, Locked, Places, Turned
<1> QED
  BY <1>2, <1>3, <1>4, <1>5, <1>6 DEF IInv

LEMMA MakePlainStep ==
  ASSUME Distinct, IInv, NEW p \in Proc, MakePlain(p)
  PROVE  IInv'
<1>1. count' \in Nat /\ entry' \in [Proc -> [id : Nat, day : Nat]]
  BY DEF MakePlain, IInv, Types, tally, stepVars
<1> QED
  BY <1>1, PlainMade DEF MakePlain, tally, stepVars

LEMMA SubmitTypes ==
  ASSUME Types, NEW p \in Proc, Submits(p, count + 1)
  PROVE  /\ count' \in Nat /\ entry' \in [Proc -> [id : Nat, day : Nat]]
         /\ at' = [at EXCEPT ![p] = "waiting"]
  BY DEF Types, Submits

LEMMA FallBackStep ==
  ASSUME Distinct, IInv, NEW p \in Proc, FallBack(p)
  PROVE  IInv'
<1>1. Types
  BY DEF IInv
<1> QED
  BY <1>1, SubmitTypes, PlainMade DEF FallBack

LEMMA SubmitStep ==
  ASSUME IInv, NEW p \in Proc, Submit(p)
  PROVE  IInv'
<1>1. /\ at[p] = "idle" /\ kind[p] # "none" /\ at' = [at EXCEPT ![p] = "waiting"] /\ Types'
      /\ UNCHANGED <<vaultVars, lockVars, fileVars, writerVars, drawn>>
  BY SubmitTypes DEF Submit, IInv, Types, Places, vaultVars, writerVars
<1>2. Filed' /\ Owned'
  BY <1>1 DEF IInv, Filed, Owned, Known, fileVars, writerVars
<1>3. Held' /\ Placed'
  BY <1>1
  DEF IInv, Types, Held, Placed, Places, Locked, Turned, vaultVars, lockVars, fileVars, writerVars
<1> QED
  BY <1>1, <1>2, <1>3 DEF IInv
-----------------------------------------------------------------------------
(* append(), up to the file.                                                *)

\* A file stays known while no writer gains a key or changes its generation.
LEMMA KnownStays ==
  ASSUME NEW f, NEW g, Known(f), g.key = f.key, g.epoch = f.epoch, drawn' = drawn,
         \A q \in Proc : mine'[q] # Plain => mine'[q] = mine[q] /\ lease'[q] = lease[q]
  PROVE  g.key <= drawn' /\ \A q \in Proc : mine'[q] # Plain /\ g.key = mine'[q] => g.epoch = lease'[q]
  BY DEF Known

\* An append ends, with or without its data key, and leaves the files fit.
LEMMA LeavesStep ==
  ASSUME Distinct, IInv, NEW p \in Proc, Leaves(p),
         kind' = kind \/ kind' = [kind EXCEPT ![p] = "none"],
         mine' = mine \/ mine' = [mine EXCEPT ![p] = Plain],
         kind'[p] = "none" => mine'[p] = Plain,
         lease' = lease \/ (mine'[p] = Plain /\ lease' = [lease EXCEPT ![p] = 0]),
         active' # NoFile => active # NoFile /\ Fit(active') /\ active'.epoch = active.epoch
                             /\ active'.key = active.key,
         active' = active \/ at[p] \in Locked,
         UNCHANGED <<vaultVars, rotated, today, count, drawn>>
  PROVE  IInv'
<1>1. /\ at' = [at EXCEPT ![p] = "idle"] /\ entry' = [entry EXCEPT ![p] = NoEntry]
      /\ lifecycle' = (IF lifecycle = p THEN None ELSE lifecycle)
      /\ sidecar' = (IF sidecar = p THEN None ELSE sidecar)
  BY DEF Leaves, Goes
<1>2. Types'
  <2>1. epoch' \in Nat /\ drawn' \in Nat /\ today' \in Nat /\ count' \in Nat
    BY DEF IInv, Types, vaultVars
  <2>2. kind' \in [Proc -> {"none", "plain", "encrypted"}]
    BY DEF IInv, Types
  <2>3. mine' \in [Proc -> Nat] /\ lease' \in [Proc -> Nat]
    BY DEF IInv, Types, Plain
  <2>4. at' \in [Proc -> Places] /\ entry' \in [Proc -> [id : Nat, day : Nat]]
    BY <1>1 DEF IInv, Types, Places, NoEntry
  <2> QED
    BY <2>1, <2>2, <2>3, <2>4 DEF Types
<1>3. Filed'
  BY DEF IInv, Filed
<1>4. Owned'
  <2>1. \A q \in Proc : mine'[q] # Plain => mine'[q] = mine[q] /\ lease'[q] = lease[q]
    BY DEF IInv, Types
  <2>2. \A q \in Proc : mine'[q] <= drawn' /\ (kind'[q] # "encrypted" => mine'[q] = Plain)
    <3>1. \A q \in Proc : mine'[q] <= drawn'
      BY <2>1 DEF IInv, Types, Owned, Plain
    <3>2. \A q \in Proc : kind'[q] # "encrypted" => mine'[q] = Plain
      BY <2>1 DEF IInv, Types, Owned
    <3> QED
      BY <3>1, <3>2
  <2>3. active' # NoFile => Known(active)
    BY DEF IInv, Owned
  <2>4. \A r \in rotated' : Known(r.file)
    BY DEF IInv, Owned
  <2>5. active' # NoFile => Known(active)'
    BY <2>1, <2>3, KnownStays DEF Known
  <2>6. \A r \in rotated' : Known(r.file)'
    BY <2>1, <2>4, KnownStays DEF Known
  <2> QED
    BY <2>2, <2>5, <2>6 DEF Owned, Known
<1>5. Held'
  BY <1>1 DEF IInv, Types, Held, Distinct, vaultVars, Places, Locked
<1>6. Placed'
  <2>1. CASE active' = active
    BY <1>1, <2>1 DEF IInv, Types, Placed, Turned
  <2>2. CASE at[p] \in Locked
    <3>1. \A q \in Proc : q # p => at[q] \notin Locked
      BY <2>2, Alone DEF IInv, Held
    <3> QED
      BY <1>1, <3>1 DEF IInv, Types, Placed, Turned, Locked, Places
  <2> QED
    BY <2>1, <2>2
<1> QED
  BY <1>2, <1>3, <1>4, <1>5, <1>6 DEF IInv

LEMMA EnterVaultStep ==
  ASSUME Distinct, IInv, NEW p \in Proc, EnterVault(p)
  PROVE  IInv'
<1>1. CASE SameGeneration(p)
  <2>1. /\ kind[p] = "encrypted" /\ lifecycle = None /\ lifecycle' = p /\ epoch = lease[p]
        /\ at' = [at EXCEPT ![p] = "vaulted"]
        /\ UNCHANGED <<vaultVars, fileVars, writerVars, sidecar, entry, tally>>
    BY <1>1 DEF EnterVault, SameGeneration, Goes, writerVars
  <2>2. Types' /\ Filed' /\ Owned'
    BY <2>1 DEF IInv, Types, Filed, Owned, Known, Places, vaultVars, fileVars, writerVars, tally
  <2>3. Held' /\ Placed'
    BY <2>1
    DEF IInv, Types, Held, Placed, Distinct, Places, Locked, Turned, vaultVars, fileVars, writerVars
  <2> QED
    BY <2>2, <2>3 DEF IInv
<1>2. CASE ~SameGeneration(p)
  <2>1. /\ Leaves(p) /\ mine' = [mine EXCEPT ![p] = Plain] /\ kind' = kind /\ lease' = lease
        /\ mine'[p] = Plain /\ UNCHANGED <<vaultVars, fileVars, today, count, drawn>>
    BY <1>2 DEF EnterVault, Wipes, tally, IInv, Types
  <2>2. active' # NoFile => active # NoFile /\ Fit(active') /\ active'.epoch = active.epoch
                            /\ active'.key = active.key
    BY <2>1 DEF fileVars, IInv, Filed
  <2> QED
    BY <2>1, <2>2, LeavesStep DEF fileVars
<1> QED
  BY <1>1, <1>2

\* The sidecar is taken, and the writer goes on with its key or without.
LEMMA EnterEncryptedStep ==
  ASSUME Distinct, IInv, NEW p \in Proc, EnterEncrypted(p)
  PROVE  IInv'
<1>1. /\ at[p] = "vaulted" /\ sidecar = None /\ sidecar' = p /\ kind[p] = "encrypted"
      /\ UNCHANGED <<vaultVars, lifecycle, fileVars, kind, lease, entry, tally>>
  BY DEF EnterEncrypted, IInv, Held
<1>2. OwnKey(p) # Plain => /\ active # NoFile /\ active.head = "whole" /\ active.key = mine[p]
                           /\ OwnKey(p) = mine[p]
  BY DEF OwnKey, Encrypted
<1>3. mine' = mine \/ mine' = [mine EXCEPT ![p] = OwnKey(p)]
  BY DEF EnterEncrypted
<1>4. \/ at' = [at EXCEPT ![p] = "rotate"] /\ active # NoFile
      \/ at' = [at EXCEPT ![p] = "write"] /\ OwnKey(p) # Plain /\ mine' = [mine EXCEPT ![p] = OwnKey(p)]
      \/ at' = [at EXCEPT ![p] = "create"] /\ active = NoFile
  BY <1>2 DEF EnterEncrypted, RotatesOwn, Turns, Goes
<1>5. OwnKey(p) \in {Plain, mine[p]}
  BY DEF OwnKey
<1>6. \A q \in Proc : at[q] \notin Locked
  BY <1>1, Alone DEF IInv, Distinct
<1>7. Types' /\ Filed'
  BY <1>1, <1>3, <1>4, <1>5 DEF IInv, Types, Filed, Places, Plain, vaultVars, fileVars, tally
<1>8. Owned'
  BY <1>1, <1>3, <1>5 DEF IInv, Types, Owned, Known, Plain, fileVars, tally
<1>9. Held'
  BY <1>1, <1>4, <1>6 DEF IInv, Types, Held, Distinct, Places, Locked, vaultVars
<1>10. Placed'
  <2>1. \A q \in Proc : q # p => at'[q] \notin Locked
    BY <1>4, <1>6 DEF IInv, Types
  <2>2. at'[p] = "write" => active # NoFile /\ active.head = "whole" /\ active.key = mine'[p]
          /\ mine'[p] # Plain
    BY <1>2, <1>4, <1>5 DEF IInv, Types
  <2>3. (at'[p] = "rotate" => active # NoFile) /\ (at'[p] = "create" => active = NoFile)
    BY <1>4 DEF IInv, Types
  <2>4. at'[p] \in {"rotate", "write", "create"} /\ active' = active /\ kind'[p] = "encrypted"
    BY <1>1, <1>4 DEF IInv, Types, fileVars
  <2> QED
    BY <2>1, <2>2, <2>3, <2>4 DEF Placed, Places, Locked, Turned
<1> QED
  BY <1>7, <1>8, <1>9, <1>10 DEF IInv

LEMMA EnterPlainStep ==
  ASSUME Distinct, IInv, NEW p \in Proc, EnterPlain(p)
  PROVE  IInv'
<1>1. /\ at[p] = "waiting" /\ kind[p] = "plain" /\ sidecar = None
      /\ UNCHANGED <<vaultVars, fileVars, kind, mine, lease, tally>>
  BY DEF EnterPlain
<1>2. CASE ~PlainMayAppend(active)
  <2>1. Leaves(p) /\ active' = active /\ UNCHANGED <<rotated, today, count, drawn>>
    BY <1>1, <1>2 DEF EnterPlain, fileVars, tally
  <2>2. active' # NoFile => active # NoFile /\ Fit(active') /\ active'.epoch = active.epoch
                            /\ active'.key = active.key
    BY <2>1 DEF IInv, Filed
  <2> QED
    BY <1>1, <2>1, <2>2, LeavesStep
<1>3. CASE PlainMayAppend(active)
  <2>1. active = NoFile \/ active.head = "none"
    BY <1>3 DEF PlainMayAppend, IInv, Filed, Fit
  <2>2. /\ sidecar' = p /\ UNCHANGED <<lifecycle, entry>>
        /\ \/ at' = [at EXCEPT ![p] = "rotate"] /\ active # NoFile
           \/ at' = [at EXCEPT ![p] = "write"]
    BY <1>3 DEF EnterPlain, Turns, Goes, DateChanged, Full
  <2>3. \A q \in Proc : at[q] \notin Locked
    BY <1>1, Alone DEF IInv, Distinct
  <2>4. Types' /\ Filed' /\ Owned'
    BY <1>1, <2>2 DEF IInv, Types, Filed, Owned, Known, Places, vaultVars, fileVars, tally
  <2>5. Held'
    BY <1>1, <2>2, <2>3 DEF IInv, Types, Held, Distinct, Places, Locked, vaultVars
  <2>6. Placed'
    BY <1>1, <2>1, <2>2, <2>3 DEF IInv, Types, Placed, Places, Locked, Turned, fileVars
  <2> QED
    BY <2>4, <2>5, <2>6 DEF IInv
<1> QED
  BY <1>2, <1>3

LEMMA StepFailsStep ==
  ASSUME Distinct, IInv, NEW p \in Proc, StepFails(p)
  PROVE  IInv'
<1>1. /\ Leaves(p) /\ kind' = kind /\ mine' = mine /\ lease' = lease /\ active' = active
      /\ at[p] # "idle" /\ UNCHANGED <<vaultVars, rotated, today, count, drawn>>
  BY DEF StepFails, writerVars, fileVars
<1>2. active' # NoFile => active # NoFile /\ Fit(active') /\ active'.epoch = active.epoch
                          /\ active'.key = active.key
  BY <1>1 DEF IInv, Filed
<1>3. kind'[p] = "none" => mine'[p] = Plain
  BY <1>1 DEF IInv, Owned
<1> QED
  BY <1>1, <1>2, <1>3, LeavesStep

\* A death or an exit.
LEMMA ForgetsStep ==
  ASSUME Distinct, IInv, NEW p \in Proc, Forgets(p)
  PROVE  IInv'
<1>1. /\ Leaves(p) /\ kind' = [kind EXCEPT ![p] = "none"] /\ mine' = [mine EXCEPT ![p] = Plain]
      /\ lease' = [lease EXCEPT ![p] = 0] /\ active' = active /\ mine'[p] = Plain
      /\ UNCHANGED <<vaultVars, rotated, today, count, drawn>>
  BY DEF Forgets, Wipes, fileVars, IInv, Types
<1>2. active' # NoFile => active # NoFile /\ Fit(active') /\ active'.epoch = active.epoch
                          /\ active'.key = active.key
  BY <1>1 DEF IInv, Filed
<1> QED
  BY <1>1, <1>2, LeavesStep

-----------------------------------------------------------------------------
(* Between the lock and its release.                                        *)

\* The holder of the sidecar goes on; nobody else is inside.
LEMMA HolderStep ==
  ASSUME Distinct, IInv, NEW p \in Proc, at[p] \in Locked, NEW place \in Locked,
         at' = [at EXCEPT ![p] = place], place \in {"create", "header"} => kind[p] = "encrypted",
         mine' \in [Proc -> Nat], drawn' \in Nat,
         UNCHANGED <<vaultVars, lockVars, kind, lease, entry, today, count>>
  PROVE  Types' /\ Held' /\ at'[p] = place /\ \A q \in Proc : q # p => at'[q] \notin Locked
<1>1. at'[p] = place /\ \A q \in Proc : q # p => at'[q] = at[q]
  BY DEF IInv, Types
<1>2. \A q \in Proc : q # p => at'[q] \notin Locked
  BY <1>1, Alone DEF IInv, Held
<1>3. Types'
  BY DEF IInv, Types, vaultVars, Locked
<1>4. Held'
  BY <1>1, <1>2 DEF IInv, Held, vaultVars, lockVars, Locked, Places
<1> QED
  BY <1>1, <1>2, <1>3, <1>4

\* While the active log is away, only the files beside it change.
LEMMA RotatedStep ==
  ASSUME Distinct, IInv, NEW p \in Proc, at[p] \in Locked, active' = NoFile,
         NEW place \in Turned \cup {"write"}, at' = [at EXCEPT ![p] = place],
         place = "create" => kind[p] = "encrypted", place = "write" => kind[p] = "plain",
         \A r \in rotated' : /\ Fit(r.file) /\ Known(r.file)
                             /\ r = [day |-> r.day, n |-> r.n, form |-> r.form, file |-> r.file],
         mine' = mine \/ mine' = [mine EXCEPT ![p] = Plain],
         UNCHANGED <<vaultVars, lockVars, kind, lease, entry, today, count, drawn>>
  PROVE  IInv'
<1>1. mine' \in [Proc -> Nat] /\ \A q \in Proc : mine'[q] \in {mine[q], Plain}
  BY DEF IInv, Types, Plain
<1>2. Types' /\ Held' /\ at'[p] = place /\ \A q \in Proc : q # p => at'[q] \notin Locked
  <2>1. place \in Locked /\ drawn' \in Nat
    BY DEF Locked, Places, Turned, IInv, Types
  <2> QED
    BY <1>1, <2>1, HolderStep DEF Turned
<1>3. Filed'
  BY DEF Filed
<1>4. Owned'
  <2>1. \A q \in Proc : mine'[q] # Plain => mine'[q] = mine[q] /\ lease'[q] = lease[q]
    BY <1>1
  <2>2. \A r \in rotated' : Known(r.file)'
    BY <2>1, KnownStays DEF Known
  <2>3. \A q \in Proc : mine'[q] <= drawn' /\ (kind'[q] # "encrypted" => mine'[q] = Plain)
    BY <1>1 DEF IInv, Types, Owned, Plain
  <2> QED
    BY <2>2, <2>3 DEF Owned
<1>5. Placed'
  BY <1>2 DEF Placed, Turned, Locked, Places
<1> QED
  BY <1>2, <1>3, <1>4, <1>5 DEF IInv

LEMMA RenameStep ==
  ASSUME Distinct, IInv, NEW p \in Proc, Rename(p)
  PROVE  IInv'
<1>1. /\ at[p] = "rotate" /\ active' = NoFile /\ at' = [at EXCEPT ![p] = "compress"]
      /\ UNCHANGED <<vaultVars, lockVars, kind, mine, lease, entry, today, count, drawn>>
  BY DEF Rename, Goes, writerVars, tally
<1>2. Fit(active) /\ Known(active)
  BY <1>1 DEF IInv, Placed, Filed, Owned
<1>3. \A r \in rotated' : r \in rotated \/ r = Rotation(turn[p].day, Slot(turn[p].day), "raw", active)
  BY DEF Rename, Renamed
<1>4. \A r \in rotated' : /\ Fit(r.file) /\ Known(r.file)
                          /\ r = [day |-> r.day, n |-> r.n, form |-> r.form, file |-> r.file]
  BY <1>2, <1>3 DEF IInv, Filed, Owned, Rotation
<1> QED
  BY <1>1, <1>4, RotatedStep DEF Locked, Places, Turned

\* A copy with another form, or another time, is as fit as its file.
LEMMA CopyFits ==
  ASSUME NEW r, Fit(r.file), Known(r.file), today \in Nat, NEW form, NEW s,
         r = [day |-> r.day, n |-> r.n, form |-> r.form, file |-> r.file],
         s = [r EXCEPT !.form = form] \/ s = [r EXCEPT !.form = form, !.file.mtime = today]
  PROVE  Fit(s.file) /\ Known(s.file) /\ s = [day |-> s.day, n |-> s.n, form |-> s.form, file |-> s.file]
<1>1. s.file = r.file \/ s.file = [r.file EXCEPT !.mtime = today]
  OBVIOUS
<1>2. Fit(s.file) /\ Known(s.file)
  BY <1>1 DEF Fit, Known, LogType
<1>3. s = [day |-> s.day, n |-> s.n, form |-> s.form, file |-> s.file]
  OBVIOUS
<1> QED
  BY <1>2, <1>3

LEMMA CopiesFit ==
  ASSUME IInv, NEW s, NEW form,
         s \in rotated \/ \E r \in rotated : \/ s = [r EXCEPT !.form = form]
                                           \/ s = [r EXCEPT !.form = form, !.file.mtime = today]
  PROVE  Fit(s.file) /\ Known(s.file) /\ s = [day |-> s.day, n |-> s.n, form |-> s.form, file |-> s.file]
<1>1. CASE s \in rotated
  BY <1>1 DEF IInv, Filed, Owned
<1>2. CASE s \notin rotated
  <2>1. PICK r \in rotated : \/ s = [r EXCEPT !.form = form]
                            \/ s = [r EXCEPT !.form = form, !.file.mtime = today]
    BY <1>2
  <2>2. /\ Fit(r.file) /\ Known(r.file) /\ today \in Nat
        /\ r = [day |-> r.day, n |-> r.n, form |-> r.form, file |-> r.file]
    BY DEF IInv, Types, Filed, Owned
  <2> QED
    BY <2>1, <2>2, CopyFits
<1> QED
  BY <1>1, <1>2

LEMMA CompressStep ==
  ASSUME Distinct, IInv, NEW p \in Proc, Compress(p)
  PROVE  IInv'
<1>1. /\ at[p] = "compress" /\ active' = active /\ active = NoFile
      /\ UNCHANGED <<vaultVars, kind, mine, lease, today, count, drawn>>
  BY DEF Compress, IInv, Placed, Turned, writerVars, tally
<1>2. CASE Leaves(p) /\ UNCHANGED rotated
  <2>1. kind'[p] = "none" => mine'[p] = Plain
    BY <1>1 DEF IInv, Owned
  <2> QED
    BY <1>1, <1>2, <2>1, LeavesStep
<1>3. CASE ~(Leaves(p) /\ UNCHANGED rotated)
  <2>1. /\ UNCHANGED <<lockVars, entry>>
        /\ \E place \in {"compressing", "sweep"} : at' = [at EXCEPT ![p] = place]
    BY <1>3 DEF Compress, Goes
  <2>2. \A s \in rotated' : s \in rotated
          \/ \E r \in rotated : s = [r EXCEPT !.form = "part", !.file.mtime = today]
    <3>1. \/ rotated' = rotated
          \/ rotated' = rotated \cup {[r EXCEPT !.form = "part", !.file.mtime = today] : r \in Here(p, "raw")}
      BY DEF Compress
    <3> QED
      BY <3>1 DEF Here
  <2>3. \A s \in rotated' : /\ Fit(s.file) /\ Known(s.file)
                            /\ s = [day |-> s.day, n |-> s.n, form |-> s.form, file |-> s.file]
    BY <2>2, CopiesFit
  <2> QED
    BY <1>1, <2>1, <2>3, RotatedStep DEF Locked, Places, Turned
<1> QED
  BY <1>2, <1>3

LEMMA CompressedStep ==
  ASSUME Distinct, IInv, NEW p \in Proc, Compressed(p)
  PROVE  IInv'
<1>1. /\ at[p] = "compressing" /\ active' = active /\ active = NoFile /\ at' = [at EXCEPT ![p] = "unlink"]
      /\ UNCHANGED <<vaultVars, lockVars, kind, mine, lease, entry, today, count, drawn>>
  BY DEF Compressed, Goes, IInv, Placed, Turned, writerVars, tally
<1>2. \A s \in rotated' : s \in rotated \/ \E r \in rotated : s = [r EXCEPT !.form = "gz"]
  BY DEF Compressed, Here
<1>3. \A s \in rotated' : /\ Fit(s.file) /\ Known(s.file)
                          /\ s = [day |-> s.day, n |-> s.n, form |-> s.form, file |-> s.file]
  BY <1>2, CopiesFit
<1> QED
  BY <1>1, <1>3, RotatedStep DEF Locked, Places, Turned

\* The steps that only remove files: a failed compression, the raw file, the retention.
LEMMA RemovingStep ==
  ASSUME Distinct, IInv, NEW p \in Proc, CompressFails(p) \/ UnlinkRaw(p) \/ Sweep(p)
  PROVE  IInv'
<1>1. PICK place \in {"sweep", "write", "create"} :
        /\ at[p] \in {"compressing", "unlink", "sweep"} /\ at' = [at EXCEPT ![p] = place]
        /\ place = "create" => kind[p] = "encrypted"
        /\ place = "write" => kind[p] = "plain"
  BY DEF CompressFails, UnlinkRaw, Sweep, Goes, IInv, Types, Held
<1>2. /\ active' = active /\ active = NoFile /\ rotated' \subseteq rotated
      /\ mine' = mine \/ mine' = [mine EXCEPT ![p] = Plain]
      /\ UNCHANGED <<vaultVars, lockVars, kind, lease, entry, today, count, drawn>>
  BY DEF CompressFails, UnlinkRaw, Sweep, Wipes, IInv, Placed, Turned, writerVars, tally
<1>3. \A r \in rotated' : /\ Fit(r.file) /\ Known(r.file)
                          /\ r = [day |-> r.day, n |-> r.n, form |-> r.form, file |-> r.file]
  BY <1>2 DEF IInv, Filed, Owned
<1> QED
  BY <1>1, <1>2, <1>3, RotatedStep DEF Locked, Places, Turned

-----------------------------------------------------------------------------
(* The header, and the entry.                                               *)

LEMMA CreateStep ==
  ASSUME Distinct, IInv, NEW p \in Proc, Create(p)
  PROVE  IInv'
<1>1. /\ at[p] = "create" /\ kind[p] = "encrypted" /\ epoch = lease[p] /\ at[p] \in Locked
      /\ at' = [at EXCEPT ![p] = "header"] /\ drawn' = drawn + 1 /\ active' = File(drawn + 1, "none")
      /\ UNCHANGED <<vaultVars, lockVars, rotated, kind, mine, lease, entry, today, count>>
  BY DEF Create, Goes, IInv, Held, Locked, Places, writerVars
<1>2. epoch \in Nat /\ drawn \in Nat /\ today \in Nat /\ mine \in [Proc -> Nat]
  BY DEF IInv, Types
<1>3. /\ active'.key = drawn + 1 /\ active'.key # Plain /\ active'.epoch = lease[p]
      /\ active'.head = "none" /\ active'.lines = <<>> /\ Fit(active')
  <2>1. active' = [key |-> drawn + 1, epoch |-> epoch, head |-> "none", lines |-> <<>>, mtime |-> today]
    BY <1>1, <1>2 DEF File, Plain
  <2>2. active' \in LogType
    BY <2>1, <1>2 DEF LogType
  <2> QED
    BY <1>1, <1>2, <2>1, <2>2 DEF Fit, Plain
<1>4. Types' /\ Held' /\ at'[p] = "header" /\ \A q \in Proc : q # p => at'[q] \notin Locked
  <2>1. "header" \in Locked /\ drawn' \in Nat /\ mine' \in [Proc -> Nat]
    BY <1>1, <1>2 DEF Locked, Places
  <2> QED
    BY <1>1, <2>1, HolderStep
<1>5. Filed'
  BY <1>1, <1>3 DEF IInv, Filed
<1>6. \A q \in Proc : mine[q] <= drawn /\ mine[q] # drawn + 1
  BY <1>2 DEF IInv, Owned
<1>7. Owned'
  <2>1. \A r \in rotated : r.file.key \in Nat /\ r.file.key <= drawn
    BY DEF IInv, Filed, Fit, LogType, Owned, Known
  <2>2. \A r \in rotated' : Known(r.file)'
    BY <1>1, <1>2, <2>1 DEF IInv, Owned, Known
  <2>3. Known(active)'
    BY <1>1, <1>2, <1>3, <1>6 DEF Known
  <2>4. \A q \in Proc : mine'[q] <= drawn' /\ (kind'[q] # "encrypted" => mine'[q] = Plain)
    BY <1>1, <1>2, <1>6 DEF IInv, Owned
  <2> QED
    BY <2>2, <2>3, <2>4 DEF Owned
<1>8. Placed'
  <2>1. \A r \in rotated' : r.file.key # active'.key
    BY <1>1, <1>2, <1>3 DEF IInv, Filed, Fit, LogType, Owned, Known
  <2>2. active' # NoFile
    BY <1>3 DEF Distinct, Fit
  <2> QED
    BY <1>1, <1>3, <1>4, <2>1, <2>2 DEF Placed, Locked, Places, Turned
<1> QED
  BY <1>4, <1>5, <1>7, <1>8 DEF IInv

LEMMA WriteHeaderStep ==
  ASSUME Distinct, IInv, NEW p \in Proc, WriteHeader(p)
  PROVE  IInv'
<1>1. /\ at[p] = "header" /\ kind[p] = "encrypted" /\ at[p] \in Locked
      /\ UNCHANGED <<vaultVars, lockVars, rotated, kind, lease, entry, today, count, drawn>>
  BY DEF WriteHeader, IInv, Held, Locked, Places, tally
<1>2. /\ active # NoFile /\ Fit(active) /\ Known(active) /\ active.key # Plain /\ active.head # "whole"
      /\ active.epoch = lease[p] /\ active.lines = <<>> /\ \A r \in rotated : r.file.key # active.key
  BY <1>1 DEF IInv, Placed, Filed, Owned, Fit
<1>3. /\ Fit(active') /\ active'.key = active.key /\ active'.epoch = active.epoch /\ active' # NoFile
  <2>1. PICK h \in {"cut", "whole"} : active' = [active EXCEPT !.head = h]
    BY DEF WriteHeader
  <2> QED
    BY <1>2, <2>1 DEF Fit, LogType, Distinct, Plain
<1>4. CASE active.head = "none" /\ active' = [active EXCEPT !.head = "cut"] /\ UNCHANGED <<at, mine>>
  <2>1. active'.head = "cut"
    BY <1>2, <1>4 DEF Fit, LogType
  <2>2. Types' /\ Held'
    BY <1>1, <1>4 DEF IInv, Types, Held, vaultVars, lockVars
  <2>3. Filed'
    BY <1>1, <1>3 DEF IInv, Filed
  <2>4. Owned'
    BY <1>1, <1>2, <1>3, <1>4 DEF IInv, Owned, Known
  <2>5. Placed'
    <3>1. at'[p] = "header" /\ \A q \in Proc : q # p => at'[q] \notin Locked
      BY <1>1, <1>4, Alone DEF IInv, Held
    <3> QED
      BY <1>1, <1>2, <1>3, <2>1, <3>1 DEF Placed, Locked, Places, Turned
  <2> QED
    BY <2>2, <2>3, <2>4, <2>5 DEF IInv
<1>5. CASE /\ active' = [active EXCEPT !.head = "whole"]
           /\ mine' = [mine EXCEPT ![p] = active.key] /\ at' = [at EXCEPT ![p] = "write"]
  <2>1. active'.head = "whole" /\ active.key \in Nat
    BY <1>2, <1>5 DEF Fit, LogType
  <2>2. mine' \in [Proc -> Nat] /\ mine'[p] = active.key /\ \A q \in Proc : q # p => mine'[q] = mine[q]
    BY <1>5, <2>1 DEF IInv, Types
  <2>3. Types' /\ Held' /\ at'[p] = "write" /\ \A q \in Proc : q # p => at'[q] \notin Locked
    <3>1. "write" \in Locked /\ drawn' \in Nat
      BY <1>1 DEF Locked, Places, IInv, Types
    <3> QED
      BY <1>1, <1>5, <2>2, <3>1, HolderStep
  <2>4. Filed'
    BY <1>1, <1>3 DEF IInv, Filed
  <2>5. Owned'
    <3>1. Known(active)'
      BY <1>1, <1>2, <1>3, <2>2 DEF Known
    <3>2. \A r \in rotated' : Known(r.file)'
      BY <1>1, <1>2, <2>2 DEF IInv, Owned, Known
    <3>3. \A q \in Proc : mine'[q] <= drawn' /\ (kind'[q] # "encrypted" => mine'[q] = Plain)
      BY <1>1, <1>2, <2>2 DEF IInv, Owned, Known
    <3> QED
      BY <3>1, <3>2, <3>3 DEF Owned
  <2>6. Placed'
    BY <1>1, <1>2, <1>3, <2>1, <2>2, <2>3 DEF Placed, Locked, Places, Turned
  <2> QED
    BY <2>3, <2>4, <2>5, <2>6 DEF IInv
<1> QED
  BY <1>4, <1>5 DEF WriteHeader, Goes

LEMMA HeaderFailsStep ==
  ASSUME Distinct, IInv, NEW p \in Proc, HeaderFails(p)
  PROVE  IInv'
<1>1. /\ at[p] = "header" /\ kind[p] = "encrypted" /\ at[p] \in Locked /\ Leaves(p)
      /\ active' = [active EXCEPT !.head = "none"]
      /\ UNCHANGED <<vaultVars, rotated, kind, mine, lease, today, count, drawn>>
  BY DEF HeaderFails, IInv, Held, Locked, Places, writerVars
<1>2. /\ active # NoFile /\ Fit(active) /\ active.key # Plain /\ active.lines = <<>>
  BY <1>1 DEF IInv, Placed, Filed, Fit
<1>3. Fit(active') /\ active'.key = active.key /\ active'.epoch = active.epoch
  BY <1>1, <1>2 DEF Fit, LogType
<1> QED
  BY <1>1, <1>2, <1>3, LeavesStep

\* A line of the file's key and generation, at the end of the file.
LEMMA AppendFits ==
  ASSUME NEW g, Fit(g), NEW l \in LineType, today \in Nat, l.key = g.key,
         g.key # Plain => l.epoch = g.epoch /\ g.head = "whole",
         NEW h, h = [g EXCEPT !.lines = Append(@, l), !.mtime = today]
  PROVE  Fit(h) /\ h.key = g.key /\ h.epoch = g.epoch /\ h.lines # <<>>
<1>1. /\ g \in LogType /\ g.lines \in Seq(LineType)
      /\ h = [key |-> g.key, epoch |-> g.epoch, head |-> g.head, lines |-> Append(g.lines, l), mtime |-> today]
  BY DEF Fit, LogType
<1>2. /\ Append(g.lines, l) \in Seq(LineType) /\ Append(g.lines, l) # <<>>
      /\ \A i \in DOMAIN Append(g.lines, l) : Append(g.lines, l)[i] = l
           \/ (i \in DOMAIN g.lines /\ Append(g.lines, l)[i] = g.lines[i])
  BY <1>1, AppendProperties
<1>3. h \in LogType
  BY <1>1, <1>2 DEF LogType
<1>4. \A i \in DOMAIN h.lines : h.lines[i].key = h.key /\ (h.key # Plain => h.lines[i].epoch = h.epoch)
  BY <1>1, <1>2 DEF Fit
<1> QED
  BY <1>1, <1>2, <1>3, <1>4 DEF Fit

\* The last line, finished.
LEMMA FinishFits ==
  ASSUME NEW g, Fit(g), g.lines # <<>>, NEW h,
         h = [g EXCEPT !.lines[Len(g.lines)].state = IF @ = "torn" THEN "whole" ELSE "merged"]
  PROVE  Fit(h) /\ h.key = g.key /\ h.epoch = g.epoch
<1> DEFINE n == Len(g.lines)
           last_line == [g.lines[n] EXCEPT !.state = IF @ = "torn" THEN "whole" ELSE "merged"]
           done == [g.lines EXCEPT ![n] = last_line]
<1>1. g \in LogType /\ g.lines \in Seq(LineType) /\ n \in DOMAIN g.lines /\ g.lines[n] \in LineType
  BY DEF Fit, LogType
<1>2. h = [key |-> g.key, epoch |-> g.epoch, head |-> g.head, lines |-> done, mtime |-> g.mtime]
  BY <1>1 DEF LogType
<1>3. /\ last_line \in LineType /\ last_line.key = g.lines[n].key /\ last_line.epoch = g.lines[n].epoch
  BY <1>1 DEF LineType
<1>4. /\ done \in Seq(LineType) /\ DOMAIN done = DOMAIN g.lines
      /\ \A i \in DOMAIN done : done[i].key = g.lines[i].key /\ done[i].epoch = g.lines[i].epoch
  <2> HIDE DEF last_line
  <2> QED
    BY <1>1, <1>3, ExceptSeq
<1>5. h \in LogType
  BY <1>1, <1>2, <1>4 DEF LogType
<1> QED
  BY <1>1, <1>2, <1>4, <1>5 DEF Fit

\* The last line, taken back.
LEMMA TruncateFits ==
  ASSUME NEW g, Fit(g), g.lines # <<>>, NEW h, h = [g EXCEPT !.lines = SubSeq(@, 1, Len(@) - 1)]
  PROVE  Fit(h) /\ h.key = g.key /\ h.epoch = g.epoch
<1> DEFINE n == Len(g.lines) - 1
           less == SubSeq(g.lines, 1, n)
<1>1. g \in LogType /\ g.lines \in Seq(LineType) /\ n \in 0..Len(g.lines)
  BY DEF Fit, LogType
<1>2. h = [key |-> g.key, epoch |-> g.epoch, head |-> g.head, lines |-> less, mtime |-> g.mtime]
  BY <1>1 DEF LogType
<1>3. /\ less \in Seq(LineType)
      /\ \A i \in DOMAIN less : i \in DOMAIN g.lines /\ less[i] = g.lines[i]
      /\ g.lines = <<>> => less = <<>>
  BY <1>1, SubSeqProperties
<1>4. h \in LogType
  BY <1>1, <1>2, <1>3 DEF LogType
<1> QED
  BY <1>1, <1>2, <1>3, <1>4 DEF Fit

LEMMA WriteSomeStep ==
  ASSUME Distinct, IInv, NEW p \in Proc, WriteSome(p)
  PROVE  IInv'
<1> DEFINE f == IF active = NoFile THEN File(Plain, "none") ELSE active
           g == IF f.head = "none" THEN [f EXCEPT !.key = mine[p]] ELSE f
           l == Line(p, IF Torn(g) THEN "merging" ELSE "torn")
<1>1. /\ at[p] = "write" /\ at[p] \in Locked /\ at' = [at EXCEPT ![p] = "writing"]
      /\ active' = [g EXCEPT !.lines = Append(@, l), !.mtime = today]
      /\ kind[p] \in {"plain", "encrypted"}
      /\ UNCHANGED <<vaultVars, lockVars, rotated, kind, mine, lease, entry, today, count, drawn>>
  BY DEF WriteSome, Goes, Locked, Places, writerVars, tally, IInv, Types, Held
<1>2. /\ epoch \in Nat /\ drawn \in Nat /\ today \in Nat /\ mine \in [Proc -> Nat] /\ mine[p] \in Nat
      /\ entry[p] \in [id : Nat, day : Nat]
  BY DEF IInv, Types
<1>3. l \in LineType /\ l.key = mine[p] /\ (kind[p] = "encrypted" => l.epoch = epoch)
  BY <1>2 DEF Line, LineType
<1>4. /\ Fit(g) /\ Known(g) /\ g.key = mine[p]
      /\ g.key # Plain => l.epoch = g.epoch /\ g.head = "whole"
  <2>1. CASE kind[p] = "encrypted"
    <3>1. /\ active # NoFile /\ active.head = "whole" /\ active.key = mine[p] /\ mine[p] # Plain
          /\ Fit(active) /\ Known(active) /\ epoch = lease[p]
      BY <1>1, <2>1 DEF IInv, Placed, Held, Filed, Owned
    <3>2. g = active
      BY <3>1
    <3> QED
      BY <1>3, <2>1, <3>1, <3>2 DEF Known
  <2>2. CASE kind[p] = "plain"
    <3>1. mine[p] = Plain /\ (active = NoFile \/ active.head = "none")
      BY <1>1, <2>2 DEF IInv, Placed, Owned
    <3>2. Fit(f) /\ f.head = "none"
      <4>1. CASE active = NoFile
        <5>1. f = [key |-> Plain, epoch |-> 0, head |-> "none", lines |-> <<>>, mtime |-> today]
          BY <4>1 DEF File
        <5> HIDE DEF f
        <5>2. f \in LogType
          BY <1>2, <5>1 DEF LogType, Plain
        <5>3. DOMAIN f.lines = {}
          BY <5>1
        <5> QED
          BY <5>1, <5>2, <5>3 DEF Fit, Plain
      <4>2. CASE active # NoFile
        BY <3>1, <4>2 DEF IInv, Filed
      <4> QED
        BY <4>1, <4>2
    <3> HIDE DEF f
    <3>3. g = [f EXCEPT !.key = Plain]
      BY <3>1, <3>2
    <3>4. g = [key |-> Plain, epoch |-> f.epoch, head |-> "none", lines |-> f.lines, mtime |-> f.mtime]
      BY <3>2, <3>3 DEF Fit, LogType
    <3>5. \A i \in DOMAIN f.lines : f.lines[i].key = Plain
      BY <3>2 DEF Fit
    <3>6. Fit(g)
      BY <3>2, <3>4, <3>5 DEF Fit, LogType, Plain
    <3> QED
      BY <1>2, <3>1, <3>4, <3>6 DEF Known, Plain
  <2> QED
    BY <1>1, <2>1, <2>2
<1> HIDE DEF g, l
<1>5. Fit(active') /\ active'.key = g.key /\ active'.epoch = g.epoch /\ active'.lines # <<>>
  BY <1>1, <1>2, <1>3, <1>4, AppendFits
<1>6. Types' /\ Held' /\ at'[p] = "writing" /\ \A q \in Proc : q # p => at'[q] \notin Locked
  <2>1. "writing" \in Locked /\ mine' \in [Proc -> Nat] /\ drawn' \in Nat
    BY <1>1, <1>2 DEF Locked, Places
  <2> QED
    BY <1>1, <2>1, HolderStep
<1>7. Filed'
  BY <1>1, <1>5 DEF IInv, Filed
<1>8. Owned'
  <2>1. \A r \in rotated' : Known(r.file)'
    BY <1>1 DEF IInv, Owned, Known
  <2>2. Known(active)'
    BY <1>1, <1>4, <1>5 DEF Known
  <2>3. \A q \in Proc : mine'[q] <= drawn' /\ (kind'[q] # "encrypted" => mine'[q] = Plain)
    BY <1>1 DEF IInv, Owned
  <2> QED
    BY <2>1, <2>2, <2>3 DEF Owned
<1>9. Placed'
  BY <1>5, <1>6 DEF Distinct, Fit, Placed, Locked, Places, Turned
<1> QED
  BY <1>6, <1>7, <1>8, <1>9 DEF IInv

\* The rest of the line is written, or what there is of it is taken back.
LEMMA WriteEndsStep ==
  ASSUME Distinct, IInv, NEW p \in Proc, WriteRest(p) \/ WriteFails(p)
  PROVE  IInv'
<1>1. /\ at[p] = "writing" /\ at[p] \in Locked /\ Leaves(p)
      /\ UNCHANGED <<vaultVars, rotated, kind, mine, lease, today, count, drawn>>
  BY DEF WriteRest, WriteFails, Locked, Places, writerVars
<1>2. active # NoFile /\ Fit(active) /\ active.lines # <<>>
  BY <1>1 DEF IInv, Placed, Filed
<1>3. Fit(active') /\ active'.key = active.key /\ active'.epoch = active.epoch
  <2>1. CASE WriteRest(p)
    BY <1>2, <2>1, FinishFits DEF WriteRest
  <2>2. CASE WriteFails(p)
    BY <1>2, <2>2, TruncateFits DEF WriteFails
  <2> QED
    BY <2>1, <2>2
<1>4. kind'[p] = "none" => mine'[p] = Plain
  BY <1>1 DEF IInv, Owned
<1> QED
  BY <1>1, <1>2, <1>3, <1>4, LeavesStep

-----------------------------------------------------------------------------
(* Formats and generations.                                                 *)

LEMMA AppendsStep ==
  ASSUME Distinct, IInv, NEW p \in Proc, Appends(p)
  PROVE  IInv'
<1>1. CASE EnterVault(p) \/ EnterEncrypted(p) \/ EnterPlain(p)
  BY <1>1, EnterVaultStep, EnterEncryptedStep, EnterPlainStep
<1>2. CASE Rename(p) \/ StepFails(p) \/ Compress(p) \/ Compressed(p)
  BY <1>2, RenameStep, StepFailsStep, CompressStep, CompressedStep
<1>3. CASE CompressFails(p) \/ UnlinkRaw(p) \/ Sweep(p)
  BY <1>3, RemovingStep
<1>4. CASE Create(p) \/ WriteHeader(p) \/ HeaderFails(p)
  BY <1>4, CreateStep, WriteHeaderStep, HeaderFailsStep
<1>5. CASE WriteSome(p) \/ WriteRest(p) \/ WriteFails(p)
  BY <1>5, WriteSomeStep, WriteEndsStep
<1> QED
  BY <1>1, <1>2, <1>3, <1>4, <1>5 DEF Appends

LEMMA NextIInv ==
  ASSUME Distinct, IInv, [Next]_vars
  PROVE  IInv'
<1>1. CASE InitVault \/ PrepareReset \/ FinishReset
  BY <1>1, VaultStep
<1>2. CASE Midnight
  BY <1>2, MidnightStep
<1>3. CASE \E cutoff \in 2..MaxDay : Purge(cutoff)
  BY <1>3, PurgeStep
<1>4. ASSUME NEW p \in Proc, MakeEncrypted(p) \/ MakePlain(p) \/ FallBack(p) \/ Submit(p)
      PROVE  IInv'
  BY <1>4, MakeEncryptedStep, MakePlainStep, FallBackStep, SubmitStep
<1>5. ASSUME NEW p \in Proc, Appends(p) PROVE IInv'
  BY <1>5, AppendsStep
<1>6. ASSUME NEW p \in Proc, Die(p) \/ Exit(p) PROVE IInv'
  BY <1>6, ForgetsStep DEF Die, Exit
<1>7. CASE UNCHANGED vars
  BY <1>7
  DEF vars, vaultVars, lockVars, fileVars, writerVars, stepVars, tally, IInv, Types, Filed, Owned, Known,
      Held, Placed
<1> QED
  BY <1>1, <1>2, <1>3, <1>4, <1>5, <1>6, <1>7 DEF Next

\* The inductive invariant holds of every state that the writers reach.
THEOREM AuditWriters ==
  ASSUME Distinct
  PROVE  Spec => []IInv
<1>1. IInv /\ [Next]_vars => IInv'
  BY NextIInv
<1> QED
  BY <1>1, InitIInv, PTL DEF Spec

\* A log has one format and one data key, whoever wrote to it: EncryptedWriter
\* looks under the sidecar whether the file is its own before it uses its key, and
\* NDJSONWriter whether it is plaintext (_refresh_active_ownership,
\* _assert_plaintext_append_safe).
THEOREM AuditNoSplice ==
  ASSUME Distinct
  PROVE  Spec => []NoSplice
<1>1. IInv => NoSplice
  BY DEF IInv, Filed, Fit, NoSplice, Files
<1> QED
  BY <1>1, AuditWriters, PTL

\* An encrypted log is written in one generation of the keyvault: a writer that was
\* made before a reset adds nothing after it (_assert_keyvault_generation, and the
\* lifecycle lock it is evaluated under).
THEOREM AuditOneGeneration ==
  ASSUME Distinct
  PROVE  Spec => []OneGeneration
<1>1. IInv => OneGeneration
  BY DEF IInv, Filed, Fit, OneGeneration, EncryptedLogs, Files
<1> QED
  BY <1>1, AuditWriters, PTL

-----------------------------------------------------------------------------
(* Steps that write to no file.                                             *)

\* The same file under the same name, or a copy of it.
Kin(r, s) ==
  /\ r.day = s.day /\ r.n = s.n /\ r.file.key = s.file.key /\ r.file.head = s.file.head
  /\ r.file.lines = s.file.lines /\ (r.file.mtime = s.file.mtime \/ r.file.mtime = today)

\* Who is writing to the active log.
InHeader(q) == at[q] \in {"header", "writing"}

\* The active log under a new name: of today, or of the day its rotation was decided for.
GoneAside(r) ==
  /\ active # NoFile /\ r.file = active /\ r.form = "raw"
  /\ r.day = today \/ \E p \in Proc : at[p] = "rotate" /\ r.day = turn[p].day

\* The active log stays, or goes aside while nobody is in it.
Calm ==
  /\ active' = active \/ (active' = NoFile /\ \A q \in Proc : ~InHeader(q))
  /\ \A r \in rotated' : \/ \E s \in rotated : Kin(r, s)
                         \/ GoneAside(r) /\ \A q \in Proc : ~InHeader(q)
  /\ \A q \in Proc :
       /\ mine'[q] \in {mine[q], Plain} /\ (InHeader(q)' => at'[q] = at[q])
       /\ at[q] = "writing" => at'[q] = "writing" \/ mine'[q] = Plain

\* A file that stays is its own kin.
LEMMA KinSame ==
  ASSUME rotated' \subseteq rotated
  PROVE  \A r \in rotated' : \E s \in rotated : Kin(r, s)
BY DEF Kin

\* What Renamed adds is the active log.
LEMMA RenamedKin ==
  ASSUME NEW day, rotated' = Renamed(day)
  PROVE  \A r \in rotated' : (\E s \in rotated : Kin(r, s))
           \/ (r.file = active /\ r.form = "raw" /\ r.day = day)
<1> SUFFICES ASSUME NEW r \in rotated'
             PROVE  (\E s \in rotated : Kin(r, s)) \/ (r.file = active /\ r.form = "raw" /\ r.day = day)
  OBVIOUS
<1>1. CASE r \in rotated
  BY <1>1 DEF Kin
<1>2. CASE r \notin rotated
  BY <1>2 DEF Renamed, Rotation
<1> QED  BY <1>1, <1>2

\* The factory renames a log while nobody holds the sidecar.
LEMMA AsideCalm ==
  ASSUME Distinct, IInv, sidecar = None, StepAside
  PROVE  /\ \A q \in Proc : ~InHeader(q)
         /\ active' = active \/ active' = NoFile
         /\ \A r \in rotated' : (\E s \in rotated : Kin(r, s)) \/ GoneAside(r)
<1>1. \A q \in Proc : ~InHeader(q)
  BY Alone DEF IInv, Distinct, InHeader, Locked, Places
<1>2. CASE Encrypted(active)
  BY <1>1, <1>2, RenamedKin DEF StepAside, Encrypted, GoneAside
<1>3. CASE ~Encrypted(active)
  BY <1>1, <1>3, KinSame DEF StepAside, fileVars
<1> QED  BY <1>2, <1>3, <1>1

\* Compression changes the form of a file and its age, not its lines.
LEMMA CopiesKin ==
  ASSUME IInv, NEW s, NEW form,
         s \in rotated \/ \E r \in rotated : \/ s = [r EXCEPT !.form = form]
                                           \/ s = [r EXCEPT !.form = form, !.file.mtime = today]
  PROVE  \E r \in rotated : Kin(s, r)
<1>1. PICK r \in rotated : \/ s = r
                          \/ s = [r EXCEPT !.form = form]
                          \/ s = [r EXCEPT !.form = form, !.file.mtime = today]
  OBVIOUS
<1>2. r = [day |-> r.day, n |-> r.n, form |-> r.form, file |-> r.file] /\ r.file \in LogType
  BY DEF IInv, Filed, Fit
<1>3. CASE s = r \/ s = [r EXCEPT !.form = form]
  BY <1>2, <1>3 DEF Kin
<1>4. CASE s = [r EXCEPT !.form = form, !.file.mtime = today]
  <2>1. s.day = r.day /\ s.n = r.n /\ s.file = [r.file EXCEPT !.mtime = today]
    BY <1>2, <1>4
  <2> QED  BY <1>2, <2>1 DEF Kin, LogType
<1> QED  BY <1>1, <1>3, <1>4

\* The steps of the keyvault, the calendar and the factory; those of an append up to its line,
\* and the end of a process; and what writes to the active log.
WorldStep ==
  \/ InitVault \/ PrepareReset \/ FinishReset \/ Midnight \/ UNCHANGED vars
  \/ \E cutoff \in 2..MaxDay : Purge(cutoff)
  \/ \E p \in Proc : MakeEncrypted(p) \/ MakePlain(p) \/ FallBack(p) \/ Submit(p)
EarlyStep(p) ==
  \/ EnterVault(p) \/ EnterEncrypted(p) \/ EnterPlain(p) \/ Rename(p) \/ StepFails(p) \/ Compress(p)
  \/ Compressed(p) \/ CompressFails(p) \/ UnlinkRaw(p) \/ Sweep(p) \/ Forgets(p)
CalmStep == WorldStep \/ \E p \in Proc : EarlyStep(p)
Writes(p) == Create(p) \/ WriteHeader(p) \/ HeaderFails(p) \/ WriteSome(p) \/ WriteRest(p) \/ WriteFails(p)

\* Nothing outside an append writes to a file;
LEMMA WorldCalm ==
  ASSUME Distinct, IInv, WorldStep
  PROVE  Calm
<1>0. at \in [Proc -> Places]
  BY DEF IInv, Types
<1>1. CASE InitVault \/ PrepareReset \/ FinishReset \/ Midnight \/ UNCHANGED vars
  <2>1. UNCHANGED <<active, rotated, mine, at>>
    BY <1>1 DEF InitVault, PrepareReset, FinishReset, Midnight, vars, fileVars, writerVars, stepVars
  <2> QED  BY <2>1, KinSame DEF Calm, InHeader
<1>2. CASE \E cutoff \in 2..MaxDay : Purge(cutoff)
  <2>1. rotated' \subseteq rotated /\ UNCHANGED <<active, mine, at>>
    BY <1>2 DEF Purge, writerVars, stepVars
  <2> QED  BY <2>1, KinSame DEF Calm, InHeader
<1>3. ASSUME NEW p \in Proc, MakeEncrypted(p) PROVE Calm
  <2>1. UNCHANGED <<active, rotated, mine, at>>
    BY <1>3 DEF MakeEncrypted, fileVars, stepVars
  <2> QED  BY <2>1, KinSame DEF Calm, InHeader
<1>4. ASSUME NEW p \in Proc, Submit(p) PROVE Calm
  <2>1. UNCHANGED <<active, rotated, mine>> /\ at[p] = "idle" /\ at' = [at EXCEPT ![p] = "waiting"]
    BY <1>4 DEF Submit, Submits, fileVars, writerVars
  <2> QED  BY <1>0, <2>1, KinSame DEF Calm, InHeader
<1>5. ASSUME NEW p \in Proc, MakePlain(p) \/ FallBack(p) PROVE Calm
  <2>1. sidecar = None /\ StepAside /\ mine' = mine /\ (at' = at \/ at' = [at EXCEPT ![p] = "waiting"])
    BY <1>5 DEF MakePlain, FallBack, Submits, stepVars
  <2> QED  BY <1>0, <2>1, AsideCalm DEF Calm, InHeader
<1> QED  BY <1>1, <1>2, <1>3, <1>4, <1>5 DEF WorldStep

\* nor does an append before its line.
LEMMA EarlyCalm ==
  ASSUME Distinct, IInv, NEW p \in Proc, EarlyStep(p)
  PROVE  Calm
<1>0. at \in [Proc -> Places] /\ mine \in [Proc -> Nat]
  BY DEF IInv, Types
<1>1. CASE EnterVault(p) \/ EnterEncrypted(p) \/ EnterPlain(p) \/ StepFails(p) \/ Forgets(p)
  <2>1. UNCHANGED <<active, rotated>>
          /\ \E place \in Places \ {"header", "writing"} : at' = [at EXCEPT ![p] = place]
    BY <1>1
    DEF EnterVault, EnterEncrypted, EnterPlain, StepFails, Forgets, Leaves, Goes, Turns, fileVars, Places
  <2>2. mine' = mine \/ (\E k \in {Plain, mine[p]} : mine' = [mine EXCEPT ![p] = k])
    BY <1>0, <1>1
    DEF EnterVault, EnterEncrypted, EnterPlain, StepFails, Forgets, Wipes, OwnKey, writerVars
  <2>3. at[p] = "writing" => mine'[p] = Plain
    BY <1>0, <1>1 DEF EnterVault, EnterEncrypted, EnterPlain, StepFails, Forgets, Wipes
  <2> QED  BY <1>0, <2>1, <2>2, <2>3, KinSame DEF Calm, InHeader
<1>2. CASE Rename(p)
  <2>1. /\ at[p] = "rotate" /\ active' = NoFile /\ rotated' = Renamed(turn[p].day)
        /\ at' = [at EXCEPT ![p] = "compress"] /\ mine' = mine
    BY <1>2 DEF Rename, Goes, writerVars
  <2>2. active # NoFile /\ \A q \in Proc : ~InHeader(q)
    BY <2>1, Alone DEF IInv, Held, Placed, InHeader, Locked, Places
  <2> QED  BY <1>0, <2>1, <2>2, RenamedKin DEF Calm, InHeader, GoneAside
<1>3. CASE Compress(p) \/ Compressed(p) \/ CompressFails(p) \/ UnlinkRaw(p) \/ Sweep(p)
  <2>1. /\ active' = active /\ at[p] # "writing"
        /\ \E place \in Places \ {"header", "writing"} : at' = [at EXCEPT ![p] = place]
    BY <1>3 DEF Compress, Compressed, CompressFails, UnlinkRaw, Sweep, Leaves, Goes, fileVars, Places
  <2>2. mine' = mine \/ mine' = [mine EXCEPT ![p] = Plain]
    BY <1>3 DEF Compress, Compressed, CompressFails, UnlinkRaw, Sweep, Wipes, writerVars
  <2>3. PICK form \in {"part", "gz"} : \A s \in rotated' :
          \/ s \in rotated
          \/ \E r \in rotated : \/ s = [r EXCEPT !.form = form]
                                \/ s = [r EXCEPT !.form = form, !.file.mtime = today]
    BY <1>3 DEF Compress, Compressed, CompressFails, UnlinkRaw, Sweep, Here
  <2>4. \A s \in rotated' : \E r \in rotated : Kin(s, r)
    BY <2>3, CopiesKin
  <2> QED  BY <1>0, <2>1, <2>2, <2>4 DEF Calm, InHeader
<1> QED  BY <1>1, <1>2, <1>3 DEF EarlyStep

\* A step writes to the active log or to none.
LEMMA CalmOrWrites ==
  ASSUME [Next]_vars
  PROVE  CalmStep \/ \E p \in Proc : Writes(p)
BY DEF Next, Appends, Die, Exit, CalmStep, WorldStep, EarlyStep, Writes

\* Both kinds of calm step.
LEMMA CalmSteps ==
  ASSUME Distinct, IInv, CalmStep
  PROVE  Calm
BY WorldCalm, EarlyCalm DEF CalmStep

\* Who writes is alone, and leaves the rotated files alone.
LEMMA WritesAlone ==
  ASSUME Distinct, IInv, NEW p \in Proc, Writes(p)
  PROVE  /\ at[p] \in {"create", "header", "write", "writing"} /\ rotated' = rotated
         /\ \A q \in Proc : q # p => ~InHeader(q) /\ at'[q] = at[q] /\ at[q] \notin Locked
         /\ kind' = kind /\ lease' = lease /\ last' = last /\ today' = today
<1>1. at[p] \in {"create", "header", "write", "writing"} /\ rotated' = rotated
  BY DEF Writes, Create, WriteHeader, HeaderFails, WriteSome, WriteRest, WriteFails
<1>2. \A q \in Proc : q # p => at[q] \notin Locked
  BY <1>1, Alone DEF IInv, Held, Locked, Places
<1>3. \A q \in Proc : q # p => at'[q] = at[q]
  BY DEF IInv, Types, Writes, Create, WriteHeader, HeaderFails, WriteSome, WriteRest, WriteFails, Leaves,
         Goes
<1>4. kind' = kind /\ lease' = lease /\ last' = last /\ today' = today
  BY DEF Writes, Create, WriteHeader, HeaderFails, WriteSome, WriteRest, WriteFails, writerVars, tally
<1> QED  BY <1>1, <1>2, <1>3, <1>4 DEF InHeader, Locked, Places

\* What a write does to the lines of the active log.
Before == IF active = NoFile THEN <<>> ELSE active.lines
Added(p, l) ==
  /\ Before \in Seq(LineType) /\ active'.lines = Append(Before, l)
  /\ Len(active'.lines) = Len(Before) + 1 /\ Len(active'.lines) \in DOMAIN active'.lines
  /\ active'.lines[Len(active'.lines)] = l
  /\ \A i \in DOMAIN Before :
       i \in DOMAIN active'.lines /\ i # Len(active'.lines) /\ active'.lines[i] = Before[i]
  /\ \A i \in DOMAIN active'.lines :
       i # Len(active'.lines) => i \in DOMAIN Before /\ active'.lines[i] = Before[i]
  /\ l.id = entry[p].id /\ l.day = entry[p].day
  /\ l.state = IF Before # <<>> /\ Before[Len(Before)].state = "torn" THEN "merging" ELSE "torn"
  /\ active' # NoFile /\ active'.mtime = today /\ active'.key = mine[p]
  /\ active'.head = IF active = NoFile THEN "none" ELSE active.head
  /\ mine[p] # Plain => active # NoFile /\ active.key = mine[p]
Finished ==
  /\ DOMAIN active'.lines = DOMAIN active.lines /\ Len(active'.lines) = Len(active.lines)
  /\ \A i \in DOMAIN active.lines :
       /\ active'.lines[i].id = active.lines[i].id /\ active'.lines[i].day = active.lines[i].day
       /\ i # Len(active.lines) => active'.lines[i] = active.lines[i]
       /\ i = Len(active.lines) =>
            active'.lines[i].state = IF active.lines[i].state = "torn" THEN "whole" ELSE "merged"
TakenBack ==
  /\ DOMAIN active'.lines = DOMAIN active.lines \ {Len(active.lines)}
  /\ \A i \in DOMAIN active'.lines : active'.lines[i] = active.lines[i]

\* The first part of a line is put behind the lines that are there.
LEMMA WriteSomeFile ==
  ASSUME Distinct, IInv, IInv', NEW p \in Proc, WriteSome(p)
  PROVE  \E l \in LineType : Added(p, l)
<1> DEFINE f == IF active = NoFile THEN File(Plain, "none") ELSE active
           g == IF f.head = "none" THEN [f EXCEPT !.key = mine[p]] ELSE f
           l == Line(p, IF Torn(g) THEN "merging" ELSE "torn")
<1>1. at[p] = "write" /\ active' = [g EXCEPT !.lines = Append(@, l), !.mtime = today] /\ active' # NoFile
  <2>1. at[p] = "write" /\ at' = [at EXCEPT ![p] = "writing"]
          /\ active' = [g EXCEPT !.lines = Append(@, l), !.mtime = today]
    BY DEF WriteSome, Goes
  <2> QED  BY <2>1 DEF IInv, Types, Placed
<1>2. today \in Nat /\ epoch \in Nat /\ mine[p] \in Nat /\ kind[p] \in {"plain", "encrypted"}
  BY <1>1 DEF IInv, Types, Held
<1>3. f \in LogType /\ f.lines = Before /\ f.head = IF active = NoFile THEN "none" ELSE active.head
  <2>1. CASE active = NoFile
    <3>1. f = [key |-> Plain, epoch |-> 0, head |-> "none", lines |-> <<>>, mtime |-> today]
      BY <2>1 DEF File
    <3> HIDE DEF f
    <3> QED  BY <1>2, <2>1, <3>1 DEF LogType, Plain, Before
  <2>2. CASE active # NoFile
    BY <2>2 DEF IInv, Filed, Fit, Before
  <2> QED  BY <2>1, <2>2
<1>4. /\ f.head = "none" => mine[p] = Plain
      /\ f.head # "none" => active # NoFile /\ active.key = mine[p]
  <2>1. kind[p] = "encrypted" => active # NoFile /\ active.head = "whole" /\ active.key = mine[p]
          /\ mine[p] # Plain
    BY <1>1 DEF IInv, Placed
  <2>2. kind[p] = "plain" => mine[p] = Plain /\ (active = NoFile \/ active.head = "none")
    BY <1>1 DEF IInv, Placed, Owned
  <2> QED  BY <1>2, <1>3, <2>1, <2>2
<1>5. f.head # "none" => f = active
  BY <1>4
<1> HIDE DEF f
<1>6. g \in LogType /\ g.lines = Before /\ g.key = mine[p] /\ g.head = f.head
  BY <1>2, <1>3, <1>4, <1>5 DEF LogType
<1>7. l \in LineType /\ l.id = entry[p].id /\ l.day = entry[p].day
      /\ l.state = IF Before # <<>> /\ Before[Len(Before)].state = "torn" THEN "merging" ELSE "torn"
  BY <1>2, <1>6 DEF Line, LineType, Torn, IInv, Types
<1> HIDE DEF g, l
<1>8. Before \in Seq(LineType) /\ active'.lines = Append(Before, l) /\ active'.mtime = today
      /\ active'.key = mine[p] /\ active'.head = f.head
  BY <1>1, <1>2, <1>6 DEF LogType
<1>9. /\ Len(active'.lines) = Len(Before) + 1 /\ Len(active'.lines) \in DOMAIN active'.lines
      /\ active'.lines[Len(active'.lines)] = l
      /\ \A i \in DOMAIN Before : i \in DOMAIN active'.lines /\ i # Len(active'.lines)
           /\ active'.lines[i] = Before[i]
      /\ \A i \in DOMAIN active'.lines : i # Len(active'.lines) => i \in DOMAIN Before
           /\ active'.lines[i] = Before[i]
  BY <1>7, <1>8, AppendProperties
<1> QED  BY <1>1, <1>3, <1>4, <1>7, <1>8, <1>9 DEF Added

\* The rest changes the last line, and a failure takes it back.
LEMMA WriteEndsFile ==
  ASSUME Distinct, IInv, IInv', NEW p \in Proc, WriteRest(p) \/ WriteFails(p)
  PROVE  /\ active # NoFile /\ active.lines \in Seq(LineType) /\ active.lines # <<>>
         /\ Len(active.lines) \in DOMAIN active.lines
         /\ active'.key = active.key /\ active'.head = active.head /\ active'.mtime = active.mtime
         /\ WriteRest(p) => Finished
         /\ WriteFails(p) => TakenBack
         /\ Finished \/ TakenBack
<1> DEFINE n == Len(active.lines)
<1>1. at[p] = "writing"
  BY DEF WriteRest, WriteFails
<1>2. active \in LogType /\ active # NoFile /\ active.lines \in Seq(LineType) /\ active.lines # <<>>
  BY <1>1 DEF IInv, Placed, Filed, Fit, LogType
<1>3. n \in DOMAIN active.lines /\ active.lines[n] \in LineType
  BY <1>2
<1>4. ASSUME WriteRest(p)
      PROVE Finished /\ active'.key = active.key /\ active'.head = active.head /\ active'.mtime = active.mtime
  <2> DEFINE finished == [active.lines[n] EXCEPT !.state = IF @ = "torn" THEN "whole" ELSE "merged"]
             done == [active.lines EXCEPT ![n] = finished]
  <2>1. active' = [active EXCEPT !.lines = done]
    BY <1>2, <1>4 DEF WriteRest, LogType
  <2>2. /\ finished \in LineType /\ finished.id = active.lines[n].id /\ finished.day = active.lines[n].day
        /\ finished.state = IF active.lines[n].state = "torn" THEN "whole" ELSE "merged"
    BY <1>3 DEF LineType
  <2> HIDE DEF finished
  <2>3. done \in Seq(LineType) /\ DOMAIN done = DOMAIN active.lines /\ Len(done) = Len(active.lines)
        /\ \A i \in DOMAIN active.lines : done[i] = IF i = n THEN finished ELSE active.lines[i]
    BY <1>2, <1>3, <2>2, ExceptSeq
  <2>4. active'.lines = done /\ active'.key = active.key /\ active'.head = active.head
          /\ active'.mtime = active.mtime
    BY <1>2, <2>1 DEF LogType
  <2> HIDE DEF done
  <2> QED  BY <2>2, <2>3, <2>4 DEF Finished
<1>5. ASSUME WriteFails(p)
      PROVE TakenBack /\ active'.key = active.key /\ active'.head = active.head
              /\ active'.mtime = active.mtime
  <2>1. active' = [active EXCEPT !.lines = SubSeq(@, 1, n - 1)]
    BY <1>5 DEF WriteFails
  <2>2. /\ active'.lines = SubSeq(active.lines, 1, n - 1)
        /\ active'.key = active.key /\ active'.head = active.head /\ active'.mtime = active.mtime
    BY <1>2, <2>1 DEF LogType
  <2>3. /\ DOMAIN active'.lines = DOMAIN active.lines \ {n}
        /\ \A i \in DOMAIN active'.lines : active'.lines[i] = active.lines[i]
    BY <1>2, <1>3, <2>2, SubSeqProperties
  <2> QED  BY <2>2, <2>3 DEF TakenBack
<1> QED  BY <1>2, <1>3, <1>4, <1>5

-----------------------------------------------------------------------------
(* Cuts.                                                                    *)

\* Lines that are finished; and all but the last.
AllWhole(f) == \A i \in DOMAIN f.lines : f.lines[i].state = "whole"
OnlyLastCut(f) ==
  \A i \in DOMAIN f.lines : f.lines[i].state # "whole" => i = Len(f.lines) /\ f.lines[i].state = "torn"

\* A key has one writer, and none while its header is written.
KeysApart ==
  /\ \A p, q \in Proc : mine[p] # Plain /\ mine[p] = mine[q] => p = q
  /\ \A p, q \in Proc : at[p] = "header" => mine[q] # active.key

\* A log with a cut has lost its writer, but for the line that is being written.
CutsAbandoned ==
  /\ \A r \in rotated : r.file.key # Plain =>
       OnlyLastCut(r.file) /\ (AllWhole(r.file) \/ \A q \in Proc : mine[q] # r.file.key)
  /\ active # NoFile /\ active.key # Plain =>
       OnlyLastCut(active) /\ (AllWhole(active) \/ \A q \in Proc : mine[q] = active.key => at[q] = "writing")
  /\ \A p \in Proc : at[p] = "writing" /\ active.key # Plain => active.lines[Len(active.lines)].state = "torn"

\* Together.
CutInv == KeysApart /\ CutsAbandoned

\* A calm step leaves a cut where it is.
LEMMA CalmCuts ==
  ASSUME IInv, CutInv, Calm
  PROVE  CutInv'
<1>0. mine \in [Proc -> Nat]
  BY DEF IInv, Types
<1>1. KeysApart'
  <2>1. \A p, q \in Proc : mine'[p] # Plain /\ mine'[p] = mine'[q] => p = q
    BY DEF Calm, CutInv, KeysApart
  <2>2. ASSUME NEW p \in Proc, NEW q \in Proc, at'[p] = "header" PROVE mine'[q] # active'.key
    <3>1. at[p] = "header" /\ active' = active
      BY <2>2 DEF Calm, InHeader
    <3>2. active.key # Plain /\ mine[q] # active.key
      BY <3>1 DEF IInv, Placed, CutInv, KeysApart
    <3> QED  BY <3>1, <3>2 DEF Calm
  <2> QED  BY <2>1, <2>2 DEF KeysApart
<1>2. ASSUME NEW r \in rotated', r.file.key # Plain
      PROVE  OnlyLastCut(r.file) /\ (AllWhole(r.file) \/ \A q \in Proc : mine'[q] # r.file.key)
  <2>1. CASE \E s \in rotated : Kin(r, s)
    <3>1. PICK s \in rotated : Kin(r, s)
      BY <2>1
    <3> QED  BY <1>2, <3>1 DEF Kin, Calm, CutInv, CutsAbandoned, OnlyLastCut, AllWhole
  <2>2. CASE GoneAside(r) /\ \A q \in Proc : ~InHeader(q)
    BY <1>2, <2>2 DEF GoneAside, Calm, CutInv, CutsAbandoned, InHeader
  <2> QED  BY <2>1, <2>2 DEF Calm
<1>3. ASSUME active' # NoFile, active'.key # Plain
      PROVE  OnlyLastCut(active')
               /\ (AllWhole(active') \/ \A q \in Proc : mine'[q] = active'.key => at'[q] = "writing")
  <2>1. active' = active
    BY <1>3 DEF Calm
  <2> QED  BY <1>3, <2>1 DEF Calm, CutInv, CutsAbandoned
<1>4. ASSUME NEW p \in Proc, at'[p] = "writing", active'.key # Plain
      PROVE  active'.lines[Len(active'.lines)].state = "torn"
  <2>1. at[p] = "writing" /\ active' = active
    BY <1>4 DEF Calm, InHeader
  <2> QED  BY <1>4, <2>1 DEF CutInv, CutsAbandoned
<1>5. CutsAbandoned'
  BY <1>2, <1>3, <1>4 DEF CutsAbandoned, OnlyLastCut, AllWhole
<1> QED  BY <1>1, <1>5 DEF CutInv

\* A new file has a new key and no line.
LEMMA CreateCuts ==
  ASSUME Distinct, IInv, IInv', CutInv, NEW p \in Proc, Create(p)
  PROVE  CutInv'
<1>1. /\ active' = File(drawn + 1, "none") /\ at' = [at EXCEPT ![p] = "header"] /\ mine' = mine
      /\ rotated' = rotated /\ \A q \in Proc : q # p => ~InHeader(q) /\ at'[q] = at[q]
  BY WritesAlone DEF Writes, Create, Goes, writerVars
<1>2. active'.key = drawn + 1 /\ active'.lines = <<>> /\ DOMAIN active'.lines = {}
  BY <1>1 DEF File
<1>a. drawn \in Nat /\ at \in [Proc -> Places] /\ \A q \in Proc : mine[q] \in Nat /\ mine[q] <= drawn
  BY DEF IInv, Types, Owned
<1>b. \A q \in Proc : mine'[q] # active'.key
  BY <1>1, <1>2, <1>a
<1>c. \A q \in Proc : at'[q] # "writing"
  BY <1>1, <1>a DEF InHeader
<1>3. KeysApart'
  BY <1>1, <1>b DEF CutInv, KeysApart
<1>4. CutsAbandoned'
  BY <1>1, <1>2, <1>c DEF CutInv, CutsAbandoned, OnlyLastCut, AllWhole
<1> QED  BY <1>3, <1>4 DEF CutInv

\* Its writer takes the key when the header is whole.
LEMMA HeaderCuts ==
  ASSUME Distinct, IInv, IInv', CutInv, NEW p \in Proc, WriteHeader(p) \/ HeaderFails(p)
  PROVE  CutInv'
<1>1. /\ at[p] = "header" /\ rotated' = rotated /\ \A q \in Proc : q # p => ~InHeader(q) /\ at'[q] = at[q]
      /\ at' \in {at, [at EXCEPT ![p] = "write"], [at EXCEPT ![p] = "idle"]}
      /\ mine' = mine \/ (mine' = [mine EXCEPT ![p] = active.key] /\ at' = [at EXCEPT ![p] = "write"])
      /\ \E h \in {"none", "cut", "whole"} : active' = [active EXCEPT !.head = h]
  BY WritesAlone DEF Writes, WriteHeader, HeaderFails, Leaves, Goes, writerVars
<1>2. /\ active # NoFile /\ active.key # Plain /\ active.lines = <<>> /\ active \in LogType
      /\ \A r \in rotated : r.file.key # active.key
  BY <1>1 DEF IInv, Placed, Filed, Fit
<1>3. active'.key = active.key /\ active'.lines = <<>> /\ DOMAIN active'.lines = {}
  BY <1>1, <1>2 DEF LogType
<1>a. at \in [Proc -> Places] /\ mine \in [Proc -> Nat]
  BY DEF IInv, Types
<1>b. \A q \in Proc : at'[q] # "writing" /\ (at'[q] = "header" => q = p /\ mine' = mine)
  BY <1>1, <1>a DEF InHeader
<1>c. \A q \in Proc : mine[q] # active.key /\ (mine'[q] = mine[q] \/ (q = p /\ mine'[q] = active.key))
  BY <1>1, <1>a DEF CutInv, KeysApart
<1>4. KeysApart'
  BY <1>3, <1>b, <1>c DEF CutInv, KeysApart
<1>5. CutsAbandoned'
  BY <1>1, <1>2, <1>3, <1>b, <1>c DEF CutInv, CutsAbandoned, OnlyLastCut, AllWhole
<1> QED  BY <1>4, <1>5 DEF CutInv

\* A key is used on a log that was never cut, so the new line is the only one that is not whole.
LEMMA WriteSomeCuts ==
  ASSUME Distinct, IInv, IInv', CutInv, NEW p \in Proc, WriteSome(p)
  PROVE  CutInv'
<1>1. /\ at[p] = "write" /\ rotated' = rotated /\ at' = [at EXCEPT ![p] = "writing"] /\ mine' = mine
      /\ \A q \in Proc : q # p => ~InHeader(q) /\ at'[q] = at[q]
  BY WritesAlone DEF Writes, WriteSome, Goes, writerVars
<1>2. at \in [Proc -> Places] /\ at'[p] = "writing"
  BY <1>1 DEF IInv, Types
<1>3. \A q \in Proc : at'[q] # "header" /\ (at'[q] = "writing" <=> q = p)
  BY <1>1, <1>2 DEF InHeader
<1>4. KeysApart'
  BY <1>1, <1>3 DEF CutInv, KeysApart
<1>5. ASSUME active'.key # Plain
      PROVE  /\ active'.key = mine[p] /\ OnlyLastCut(active')
                  /\ active'.lines[Len(active'.lines)].state = "torn"
  <2>1. PICK l \in LineType : Added(p, l)
    BY WriteSomeFile
  <2>2. active # NoFile /\ active.key = mine[p] /\ mine[p] = active'.key
    BY <1>5, <2>1 DEF Added
  <2>3. AllWhole(active)
    BY <1>1, <1>5, <2>2 DEF CutInv, CutsAbandoned
  <2>4. Before = active.lines /\ Before \in Seq(LineType)
    BY <2>1, <2>2 DEF Added, Before
  <2>5. Before # <<>> => Len(Before) \in DOMAIN Before
    BY <2>4
  <2>6. l.state = "torn"
    BY <2>1, <2>3, <2>4, <2>5 DEF Added, AllWhole
  <2> QED  BY <2>1, <2>2, <2>3, <2>4, <2>6 DEF Added, OnlyLastCut, AllWhole
<1>6. CutsAbandoned'
  <2>1. active'.key # Plain => \A q \in Proc : mine'[q] = active'.key => at'[q] = "writing"
    BY <1>1, <1>3, <1>5 DEF CutInv, KeysApart
  <2>2. \A r \in rotated' : r.file.key # Plain =>
          OnlyLastCut(r.file) /\ (AllWhole(r.file) \/ \A q \in Proc : mine'[q] # r.file.key)
    BY <1>1 DEF CutInv, CutsAbandoned
  <2> QED  BY <1>5, <2>1, <2>2 DEF CutsAbandoned, OnlyLastCut, AllWhole
<1> QED  BY <1>4, <1>6 DEF CutInv

\* The line is finished, or taken back: every line is whole.
LEMMA WriteEndsCuts ==
  ASSUME Distinct, IInv, IInv', CutInv, NEW p \in Proc, WriteRest(p) \/ WriteFails(p)
  PROVE  CutInv'
<1>1. /\ at[p] = "writing" /\ rotated' = rotated /\ at' = [at EXCEPT ![p] = "idle"] /\ mine' = mine
      /\ \A q \in Proc : q # p => ~InHeader(q) /\ at'[q] = at[q]
  BY WritesAlone DEF Writes, WriteRest, WriteFails, Leaves, Goes, writerVars
<1>2. \A q \in Proc : ~InHeader(q)'
  BY <1>1 DEF IInv, Types, InHeader
<1>3. KeysApart'
  BY <1>1, <1>2 DEF CutInv, KeysApart, InHeader
<1>4. active # NoFile /\ active'.key = active.key /\ (Finished \/ TakenBack)
  BY WriteEndsFile
<1>5. active'.key # Plain => AllWhole(active')
  <2> SUFFICES ASSUME active'.key # Plain PROVE AllWhole(active')
    OBVIOUS
  <2>1. OnlyLastCut(active) /\ active.lines[Len(active.lines)].state = "torn"
    BY <1>1, <1>4 DEF CutInv, CutsAbandoned
  <2> QED  BY <1>4, <2>1 DEF Finished, TakenBack, OnlyLastCut, AllWhole
<1>6. CutsAbandoned'
  <2>1. AllWhole(active') => OnlyLastCut(active')
    BY DEF AllWhole, OnlyLastCut
  <2>2. \A r \in rotated' : r.file.key # Plain =>
          OnlyLastCut(r.file) /\ (AllWhole(r.file) \/ \A q \in Proc : mine'[q] # r.file.key)
    BY <1>1 DEF CutInv, CutsAbandoned
  <2> QED  BY <1>2, <1>5, <2>1, <2>2 DEF CutsAbandoned, OnlyLastCut, AllWhole, InHeader
<1> QED  BY <1>3, <1>6 DEF CutInv

\* There is no file at the start.
LEMMA CutsFromInit == Init => CutInv
  BY DEF Init, CutInv, KeysApart, CutsAbandoned, Plain

\* Every step, by what it does to the files.
LEMMA NextCuts ==
  ASSUME Distinct, IInv, IInv', CutInv, [Next]_vars
  PROVE  CutInv'
<1>1. ASSUME NEW p \in Proc, Writes(p) PROVE CutInv'
  BY <1>1, CreateCuts, HeaderCuts, WriteSomeCuts, WriteEndsCuts DEF Writes
<1> QED  BY <1>1, CalmOrWrites, CalmSteps, CalmCuts

\* What a dead process cut is the end of its encrypted log: a writer uses its key only while
\* it has not been cut off, and whoever finds a file that is not its own moves it aside
\* (EncryptedWriter._active).
THEOREM AuditCuts ==
  ASSUME Distinct
  PROVE  Spec => []CutIsTheEnd
<1>1. Init => CutInv
  BY CutsFromInit
<1>2. IInv /\ IInv' /\ CutInv /\ [Next]_vars => CutInv'
  BY NextCuts
<1>3. CutInv => CutIsTheEnd
  BY DEF CutInv, CutsAbandoned, OnlyLastCut, CutIsTheEnd, EncryptedLogs, Files
<1> QED  BY <1>1, <1>2, <1>3, AuditWriters, PTL DEF Spec

-----------------------------------------------------------------------------
(* Names.                                                                   *)

\* An image is no larger than its set.
LEMMA FiniteImage ==
  ASSUME NEW S, IsFiniteSet(S), NEW f, f = [x \in S |-> f[x]]
  PROVE  IsFiniteSet({f[x] : x \in S}) /\ Cardinality({f[x] : x \in S}) <= Cardinality(S)
<1>1. f \in Surjection(S, {f[x] : x \in S})
  BY DEF Surjection
<1> QED  BY <1>1, FS_Surjection

\* next_rotation_target finds a name that no rotated file has: there are fewer files than
\* numbers to try.
LEMMA SlotFree ==
  ASSUME IsFiniteSet(rotated), NEW day
  PROVE  Slot(day) \in Nat /\ \A r \in rotated : r.day = day => r.n # Slot(day)
<1> DEFINE S == {q \in rotated : q.day = day}
           taken == {r.n : r \in S}
           C == Cardinality(rotated)
           Clear(n) == n \notin taken /\ \A m \in 0..(n - 1) : m \in taken
<1>1. C \in Nat
  BY FS_CardinalityType
<1>2. IsFiniteSet(taken) /\ Cardinality(taken) <= C
  <2> DEFINE f == [q \in S |-> q.n]
  <2>1. IsFiniteSet(S) /\ Cardinality(S) <= C /\ Cardinality(S) \in Nat
    BY FS_Subset, FS_CardinalityType
  <2>2. taken = {f[q] : q \in S} /\ f = [q \in S |-> f[q]]
    OBVIOUS
  <2> HIDE DEF f, S
  <2>3. IsFiniteSet(taken) /\ Cardinality(taken) <= Cardinality(S) /\ Cardinality(taken) \in Nat
    BY <2>1, <2>2, FiniteImage, FS_CardinalityType
  <2> QED  BY <1>1, <2>1, <2>3
<1> HIDE DEF taken
<1>3. ~(0..C \subseteq taken)
  <2> SUFFICES ASSUME 0..C \subseteq taken PROVE FALSE
    OBVIOUS
  <2>1. Cardinality(0..C) = C + 1
    BY <1>1, FS_Interval
  <2>2. Cardinality(0..C) <= Cardinality(taken) /\ Cardinality(taken) \in Nat
    BY <1>2, FS_Subset, FS_CardinalityType
  <2> QED  BY <1>1, <1>2, <2>1, <2>2
<1>4. \E n \in 0..C : Clear(n)
  <2> SUFFICES ASSUME \A n \in 0..C : ~Clear(n) PROVE FALSE
    OBVIOUS
  <2> DEFINE M == {n \in 0..C : \A m \in 0..(n - 1) : m \in taken}
             next == [n \in M |-> n + 1]
  <2>1. IsFiniteSet(M) /\ 0 \in M
    <3>1. IsFiniteSet(0..C) /\ M \in SUBSET (0..C)
      BY <1>1, FS_Interval
    <3>2. 0 \in 0..C /\ 0..(0 - 1) = {}
      BY <1>1
    <3> QED  BY <3>1, <3>2, FS_Subset
  <2>2. ASSUME NEW n \in M PROVE n + 1 \in M \ {0}
    <3>1. n \in taken
      BY <2>2
    <3>2. \A m \in 0..n : m \in taken
      BY <1>1, <2>2, <3>1
    <3>3. n # C
      BY <1>3, <3>2
    <3> QED  BY <1>1, <2>2, <3>2, <3>3
  <2>3. next \in Injection(M, M \ {0})
    <3>1. M \subseteq Int /\ next = [n \in M |-> n + 1]
      BY <1>1
    <3> HIDE DEF M, next
    <3>2. next \in [M -> M \ {0}] /\ \A m, n \in M : next[m] = next[n] => m = n
      BY <2>2, <3>1
    <3> QED  BY <3>2 DEF Injection, IsInjective
  <2> HIDE DEF M, next
  <2>4. IsFiniteSet(M \ {0}) /\ Cardinality(M \ {0}) = Cardinality(M) - 1 /\ Cardinality(M) \in Nat
    BY <2>1, FS_RemoveElement, FS_CardinalityType
  <2>5. Cardinality(M) <= Cardinality(M \ {0})
    BY <2>3, <2>4, FS_Injection
  <2> QED  BY <2>4, <2>5
<1>5. Slot(day) = CHOOSE n \in 0..C : Clear(n)
  BY DEF Slot, taken
<1>6. Slot(day) \in 0..C /\ Clear(Slot(day))
  <2> HIDE DEF Clear
  <2> QED  BY <1>4, <1>5
<1> QED  BY <1>1, <1>6 DEF taken

\* There are finitely many files; dates and turns keep their types.
Turning ==
  /\ IsFiniteSet(rotated)
  /\ last \in [Proc -> Nat] /\ turn \in [Proc -> [day : Nat, n : Nat, on : Nat]]

\* A rename loses no file.
LEMMA RenamedKeeps ==
  ASSUME Turning, NEW day, rotated' = Renamed(day)
  PROVE  /\ IsFiniteSet(rotated') /\ Slot(day) \in Nat
         /\ rotated' = rotated \cup {Rotation(day, Slot(day), "raw", active)}
         /\ \A r \in rotated : ~(r.day = day /\ r.n = Slot(day))
<1>1. Slot(day) \in Nat /\ \A r \in rotated : ~(r.day = day /\ r.n = Slot(day))
  BY SlotFree DEF Turning
<1>2. rotated' = rotated \cup {Rotation(day, Slot(day), "raw", active)}
  BY <1>1 DEF Renamed
<1> QED  BY <1>1, <1>2, FS_AddElement DEF Turning

\* Rotated files stay finitely many: a step adds a copy of each, or one.
LEMMA NextTurning ==
  ASSUME Distinct, IInv, Turning, [Next]_vars
  PROVE  Turning'
<1>0. today \in Nat /\ mine \in [Proc -> Nat]
  BY DEF IInv, Types
<1>1. CASE InitVault \/ PrepareReset \/ FinishReset \/ Midnight \/ UNCHANGED vars
  <2>1. UNCHANGED <<rotated, last, turn>>
    BY <1>1 DEF InitVault, PrepareReset, FinishReset, Midnight, vars, fileVars, writerVars, stepVars
  <2> QED  BY <2>1 DEF Turning
<1>2. ASSUME NEW cutoff \in 2..MaxDay, Purge(cutoff) PROVE Turning'
  <2>1. rotated' \subseteq rotated /\ UNCHANGED <<last, turn>>
    BY <1>2 DEF Purge, writerVars, stepVars
  <2> QED  BY <2>1, FS_Subset DEF Turning
<1>3. ASSUME NEW p \in Proc, MakeEncrypted(p) \/ Submit(p) PROVE Turning'
  <2>1. UNCHANGED <<rotated, last, turn>>
    BY <1>3 DEF MakeEncrypted, Submit, fileVars, writerVars, stepVars
  <2> QED  BY <2>1 DEF Turning
<1>4. ASSUME NEW p \in Proc, MakePlain(p) \/ FallBack(p) PROVE Turning'
  <2>1. (rotated' = rotated \/ rotated' = Renamed(today)) /\ UNCHANGED <<last, turn>>
    BY <1>4 DEF MakePlain, FallBack, StepAside, fileVars, stepVars
  <2> QED  BY <2>1, RenamedKeeps DEF Turning
<1>5. ASSUME NEW p \in Proc, EnterVault(p) \/ EnterEncrypted(p) \/ EnterPlain(p) \/ StepFails(p) \/ Forgets(p)
      PROVE Turning'
  <2>1. rotated' = rotated
    BY <1>5 DEF EnterVault, EnterEncrypted, EnterPlain, StepFails, Forgets, fileVars
  <2>2. last' = last \/ \E d \in {0, today} : last' = [last EXCEPT ![p] = d]
    BY <1>5 DEF EnterVault, EnterEncrypted, EnterPlain, StepFails, Forgets, Dated, writerVars
  <2>3. turn' = turn
          \/ \E d \in {0, today, last[p]}, o \in {0, today} : turn' = [turn EXCEPT ![p] = [day |-> d, n |-> 0, on |-> o]]
    BY <1>5 DEF EnterVault, EnterEncrypted, EnterPlain, StepFails, Forgets, Leaves, Turns, Under, NoTurn
  <2> QED  BY <1>0, <2>1, <2>2, <2>3 DEF Turning
<1>6. ASSUME NEW p \in Proc, Rename(p) PROVE Turning'
  <2>1. /\ rotated' = Renamed(turn[p].day) /\ turn' = [turn EXCEPT ![p].n = Slot(turn[p].day)] /\ last' = last
    BY <1>6 DEF Rename, writerVars
  <2> QED  BY <2>1, RenamedKeeps DEF Turning
<1>7. ASSUME NEW p \in Proc, Compress(p) \/ Compressed(p) PROVE Turning'
  <2>1. last' = last /\ (turn' = turn \/ turn' = [turn EXCEPT ![p] = NoTurn])
    BY <1>7 DEF Compress, Compressed, Leaves, writerVars
  <2>2. IsFiniteSet(rotated')
    <3> DEFINE raws == Here(p, "raw")
               parts == Here(p, "part")
               copy == [r \in raws |-> [r EXCEPT !.form = "part", !.file.mtime = today]]
               moved == [r \in parts |-> [r EXCEPT !.form = "gz"]]
    <3>1. IsFiniteSet(raws) /\ IsFiniteSet(parts) /\ IsFiniteSet(rotated \ parts) /\ IsFiniteSet(rotated)
      BY FS_Subset DEF Here, Turning
    <3>2. \/ rotated' = rotated
          \/ rotated' = rotated \cup {copy[r] : r \in raws}
          \/ rotated' = (rotated \ parts) \cup {moved[r] : r \in parts}
      BY <1>7 DEF Compress, Compressed
    <3>3. copy = [r \in raws |-> copy[r]] /\ moved = [r \in parts |-> moved[r]]
      OBVIOUS
    <3> HIDE DEF copy, moved, raws, parts
    <3>4. IsFiniteSet({copy[r] : r \in raws}) /\ IsFiniteSet({moved[r] : r \in parts})
      BY <3>1, <3>3, FiniteImage
    <3>5. /\ IsFiniteSet(rotated \cup {copy[r] : r \in raws})
          /\ IsFiniteSet((rotated \ parts) \cup {moved[r] : r \in parts})
      BY <3>1, <3>4, FS_Union
    <3> QED  BY <3>1, <3>2, <3>5
  <2> QED  BY <2>1, <2>2 DEF Turning, NoTurn
<1>8. ASSUME NEW p \in Proc, CompressFails(p) \/ UnlinkRaw(p) \/ Sweep(p) PROVE Turning'
  <2>1. /\ rotated' \subseteq rotated /\ (turn' = turn \/ turn' = [turn EXCEPT ![p] = NoTurn])
        /\ (last' = last \/ last' = [last EXCEPT ![p] = turn[p].on])
    BY <1>8 DEF CompressFails, UnlinkRaw, Sweep, writerVars
  <2> QED  BY <2>1, FS_Subset DEF Turning, NoTurn
<1>9. ASSUME NEW p \in Proc, Writes(p) PROVE Turning'
  <2>1. rotated' = rotated /\ last' = last /\ (turn' = turn \/ turn' = [turn EXCEPT ![p] = NoTurn])
    BY <1>9, WritesAlone
    DEF Writes, Create, WriteHeader, HeaderFails, WriteSome, WriteRest, WriteFails, Leaves
  <2> QED  BY <2>1 DEF Turning, NoTurn
<1> QED  BY <1>1, <1>2, <1>3, <1>4, <1>5, <1>6, <1>7, <1>8, <1>9 DEF Next, Appends, Writes, Die, Exit

-----------------------------------------------------------------------------
(* Dates.                                                                   *)

\* No line of f is of a day after it.
DaysPast(f, day) == \A i \in DOMAIN f.lines : f.lines[i].day <= day
Rotating == {"rotate", "compress", "compressing", "unlink", "sweep"}

\* An append is of a day that its writer knows.
EntriesDated ==
  \A p \in Proc :
    /\ entry[p].day <= today /\ turn[p].on <= today
    /\ at[p] \in {"create", "header", "write", "writing"} => entry[p].day <= last[p]
    /\ at[p] \in Rotating => entry[p].day <= turn[p].on

\* No line is of a day to come; an encrypted log has none after its writer's last date, nor
\* after the day that it is about to be named for.
LinesDated ==
  /\ active # NoFile => DaysPast(active, today)
  /\ active # NoFile /\ active.key # Plain =>
       \A q \in Proc : mine[q] = active.key => DaysPast(active, last[q])
  /\ \A p \in Proc : at[p] = "rotate" /\ active # NoFile /\ active.key # Plain =>
       DaysPast(active, turn[p].day)
  /\ \A r \in rotated : r.file.key # Plain => DaysPast(r.file, r.day)

\* Together, with what they rest on.
DateInv == CutInv /\ Turning /\ EntriesDated /\ LinesDated

\* An append ends, or a process does.
LEMMA LeavesDated ==
  ASSUME IInv, Turning, EntriesDated, NEW p \in Proc, Leaves(p),
         last' = last \/ last' = [last EXCEPT ![p] = 0], today' = today
  PROVE  EntriesDated'
<1>1. /\ at' = [at EXCEPT ![p] = "idle"] /\ entry' = [entry EXCEPT ![p] = NoEntry]
      /\ turn' = [turn EXCEPT ![p] = NoTurn] /\ today \in Nat
      /\ at \in [Proc -> Places] /\ entry \in [Proc -> [id : Nat, day : Nat]]
  BY DEF Leaves, Goes, IInv, Types
<1>2. \A q \in Proc : q # p => at'[q] = at[q] /\ entry'[q] = entry[q] /\ turn'[q] = turn[q]
        /\ last'[q] = last[q]
  BY <1>1 DEF Turning
<1>3. at'[p] = "idle" /\ entry'[p].day = 0 /\ turn'[p].on = 0
  BY <1>1 DEF Turning, NoEntry, NoTurn
<1> QED  BY <1>1, <1>2, <1>3 DEF EntriesDated, Rotating

\* The holder of a lock goes on, with the date it knows, or takes today's.
LEMMA GoesDated ==
  ASSUME IInv, Turning, EntriesDated, NEW p \in Proc, NEW place, at' = [at EXCEPT ![p] = place],
         entry' = entry, today' = today, \A q \in Proc : q # p => last'[q] = last[q] /\ turn'[q] = turn[q],
         turn'[p].on <= today,
         place \in {"create", "header", "write", "writing"} => entry[p].day <= last'[p],
         place \in Rotating => entry[p].day <= turn'[p].on
  PROVE  EntriesDated'
<1>1. at'[p] = place /\ \A q \in Proc : q # p => at'[q] = at[q]
  BY DEF IInv, Types
<1> QED  BY <1>1 DEF EntriesDated

\* The day of an append is past when its writer takes a date.
LEMMA NextEntriesDated ==
  ASSUME Distinct, IInv, Turning, EntriesDated, [Next]_vars
  PROVE  EntriesDated'
<1>0. /\ today \in Nat /\ at \in [Proc -> Places] /\ entry \in [Proc -> [id : Nat, day : Nat]]
      /\ last \in [Proc -> Nat] /\ turn \in [Proc -> [day : Nat, n : Nat, on : Nat]]
  BY DEF IInv, Types, Turning
<1>1. CASE InitVault \/ PrepareReset \/ FinishReset \/ Midnight \/ UNCHANGED vars
             \/ \E cutoff \in 2..MaxDay : Purge(cutoff)
  <2>1. UNCHANGED <<at, entry, turn, last>> /\ today' \in {today, today + 1}
    BY <1>1 DEF InitVault, PrepareReset, FinishReset, Midnight, Purge, vars, writerVars, stepVars, tally
  <2> QED  BY <1>0, <2>1 DEF EntriesDated
<1>2. ASSUME NEW p \in Proc, MakeEncrypted(p) \/ MakePlain(p) PROVE EntriesDated'
  <2>1. UNCHANGED <<at, entry, turn, last, today>>
    BY <1>2 DEF MakeEncrypted, MakePlain, stepVars, tally
  <2> QED  BY <2>1 DEF EntriesDated
<1>3. ASSUME NEW p \in Proc, Submit(p) \/ FallBack(p) PROVE EntriesDated'
  <2>1. /\ at' = [at EXCEPT ![p] = "waiting"]
             /\ entry' = [entry EXCEPT ![p] = [id |-> count + 1, day |-> today]]
        /\ UNCHANGED <<turn, last, today>>
    BY <1>3 DEF Submit, FallBack, Submits, writerVars
  <2> QED  BY <1>0, <2>1 DEF EntriesDated, Rotating
<1>4. ASSUME NEW p \in Proc, StepFails(p) \/ HeaderFails(p) \/ WriteRest(p) \/ WriteFails(p) \/ Forgets(p)
      PROVE EntriesDated'
  <2>1. Leaves(p) /\ (last' = last \/ last' = [last EXCEPT ![p] = 0]) /\ today' = today
    BY <1>4 DEF StepFails, HeaderFails, WriteRest, WriteFails, Forgets, writerVars
  <2> QED  BY <2>1, LeavesDated
<1>5. ASSUME NEW p \in Proc, EnterVault(p) PROVE EntriesDated'
  <2>1. CASE SameGeneration(p)
    <3>1. at' = [at EXCEPT ![p] = "vaulted"] /\ UNCHANGED <<entry, turn, last, today>>
      BY <1>5, <2>1 DEF EnterVault, Goes, tally
    <3> QED  BY <3>1, GoesDated DEF EntriesDated, Rotating
  <2>2. CASE ~SameGeneration(p)
    BY <1>5, <2>2, LeavesDated DEF EnterVault, tally
  <2> QED  BY <2>1, <2>2
<1>6. ASSUME NEW p \in Proc, EnterEncrypted(p) PROVE EntriesDated'
  <2>1. entry' = entry /\ today' = today
    BY <1>6 DEF EnterEncrypted, tally
  <2>2. CASE \E d : Turns(p, d)
    <3>1. PICK d : Turns(p, d)
      BY <2>2
    <3>2. at' = [at EXCEPT ![p] = "rotate"] /\ turn'[p].on = today /\ \A q \in Proc : q # p
            => turn'[q] = turn[q] /\ last'[q] = last[q]
      BY <1>0, <1>6, <3>1 DEF Turns, Goes, EnterEncrypted, Dated
    <3> QED  BY <1>0, <2>1, <3>2, GoesDated DEF EntriesDated, Rotating
  <2>3. CASE ~\E d : Turns(p, d)
    <3>1. last' = [last EXCEPT ![p] = today] /\ turn' = turn
            /\ \E place \in {"write", "create"} : at' = [at EXCEPT ![p] = place]
      BY <1>6, <2>3 DEF EnterEncrypted, Goes, Dated
    <3> QED  BY <1>0, <2>1, <3>1, GoesDated DEF EntriesDated, Rotating
  <2> QED  BY <2>2, <2>3
<1>7. ASSUME NEW p \in Proc, EnterPlain(p) PROVE EntriesDated'
  <2>1. today' = today
    BY <1>7 DEF EnterPlain, tally
  <2>2. CASE ~PlainMayAppend(active)
    BY <1>7, <2>1, <2>2, LeavesDated DEF EnterPlain
  <2>3. CASE PlainMayAppend(active) /\ \E d : Turns(p, d)
    <3>1. PICK d : Turns(p, d)
      BY <2>3
    <3>2. entry' = entry /\ at' = [at EXCEPT ![p] = "rotate"] /\ turn'[p].on = today
      BY <1>0, <1>7, <2>3, <3>1 DEF EnterPlain, Turns, Goes
    <3>3. \A q \in Proc : q # p => turn'[q] = turn[q] /\ last'[q] = last[q]
      BY <1>0, <1>7, <2>3, <3>1 DEF EnterPlain, Turns, Dated
    <3> QED  BY <1>0, <2>1, <3>2, <3>3, GoesDated DEF EntriesDated, Rotating
  <2>4. CASE PlainMayAppend(active) /\ ~\E d : Turns(p, d)
    <3>1. entry' = entry /\ last' = [last EXCEPT ![p] = today] /\ turn' = turn
            /\ at' = [at EXCEPT ![p] = "write"]
      BY <1>7, <2>4 DEF EnterPlain, Goes, Dated
    <3> QED  BY <1>0, <2>1, <3>1, GoesDated DEF EntriesDated, Rotating
  <2> QED  BY <2>2, <2>3, <2>4
<1>8. ASSUME NEW p \in Proc, Compress(p) PROVE EntriesDated'
  <2>1. CASE Leaves(p)
    BY <1>8, <2>1, LeavesDated DEF Compress, writerVars, tally
  <2>2. CASE ~Leaves(p)
    <3>1. /\ at[p] = "compress" /\ UNCHANGED <<entry, turn, last, today>>
          /\ \E place \in {"compressing", "sweep"} : at' = [at EXCEPT ![p] = place]
      BY <1>8, <2>2 DEF Compress, Goes, writerVars, tally
    <3> QED  BY <1>0, <3>1, GoesDated DEF EntriesDated, Rotating
  <2> QED  BY <2>1, <2>2
<1>9. ASSUME NEW p \in Proc, Rename(p) \/ Compressed(p) \/ CompressFails(p) \/ UnlinkRaw(p)
      PROVE EntriesDated'
  <2>1. /\ at[p] \in Rotating /\ UNCHANGED <<entry, last, today>>
        /\ \E place \in Rotating : at' = [at EXCEPT ![p] = place]
        /\ turn' = turn \/ turn' = [turn EXCEPT ![p].n = Slot(turn[p].day)]
    BY <1>9 DEF Rename, Compressed, CompressFails, UnlinkRaw, Goes, Rotating, writerVars, tally
  <2>2. turn'[p].on = turn[p].on /\ \A q \in Proc : q # p => turn'[q] = turn[q]
    BY <1>0, <2>1
  <2> QED  BY <1>0, <2>1, <2>2, GoesDated DEF EntriesDated, Rotating
<1>10. ASSUME NEW p \in Proc, Sweep(p) PROVE EntriesDated'
  <2>1. /\ at[p] = "sweep" /\ last' = [last EXCEPT ![p] = turn[p].on] /\ turn' = [turn EXCEPT ![p] = NoTurn]
        /\ UNCHANGED <<entry, today>> /\ \E place \in {"write", "create"} : at' = [at EXCEPT ![p] = place]
    BY <1>10 DEF Sweep, Goes, tally
  <2>2. turn'[p].on = 0 /\ last'[p] = turn[p].on /\ \A q \in Proc : q # p => turn'[q] = turn[q]
          /\ last'[q] = last[q]
    BY <1>0, <2>1 DEF NoTurn
  <2> QED  BY <1>0, <2>1, <2>2, GoesDated DEF EntriesDated, Rotating
<1>11. ASSUME NEW p \in Proc, Create(p) \/ WriteHeader(p) \/ WriteSome(p) PROVE EntriesDated'
  <2>1. /\ at[p] \in {"create", "header", "write"} /\ UNCHANGED <<entry, turn, last, today>>
        /\ \E place \in {"header", "write", "writing"} : at' = [at EXCEPT ![p] = place]
    BY <1>0, <1>11 DEF Create, WriteHeader, WriteSome, Goes, writerVars, tally
  <2> QED  BY <1>0, <2>1, GoesDated DEF EntriesDated, Rotating
<1> QED
  BY <1>1, <1>2, <1>3, <1>4, <1>5, <1>6, <1>7, <1>8, <1>9, <1>10, <1>11 DEF Next, Appends, Die, Exit

\* What is dated differently after a step that writes to no file: who has just taken today's
\* date, or decided to rotate.
LEMMA CalmDates ==
  ASSUME Distinct, IInv, Turning, LinesDated, CalmStep
  PROVE  /\ today' \in {today, today + 1}
         /\ \A q \in Proc : mine'[q] # Plain => last'[q] \in {last[q], today}
         /\ \A q \in Proc : at'[q] = "rotate" /\ active # NoFile /\ active.key # Plain
              => DaysPast(active, turn'[q].day)
<1>0. /\ today \in Nat /\ at \in [Proc -> Places] /\ mine \in [Proc -> Nat]
      /\ last \in [Proc -> Nat] /\ turn \in [Proc -> [day : Nat, n : Nat, on : Nat]]
  BY DEF IInv, Types, Turning
<1>1. today' \in {today, today + 1}
  BY DEF CalmStep, WorldStep, EarlyStep, InitVault, PrepareReset, FinishReset, Midnight, Purge,
         MakeEncrypted, MakePlain, FallBack, Submit, Forgets, EnterVault, EnterEncrypted, EnterPlain,
         Rename, StepFails, Compress, Compressed, CompressFails, UnlinkRaw, Sweep, vars, tally
<1>2. ASSUME UNCHANGED <<last, turn>>, \A q \in Proc : at'[q] = "rotate" => at[q] = "rotate"
      PROVE  /\ \A q \in Proc : mine'[q] # Plain => last'[q] \in {last[q], today}
             /\ \A q \in Proc : at'[q] = "rotate" /\ active # NoFile /\ active.key # Plain
                  => DaysPast(active, turn'[q].day)
  BY <1>2 DEF LinesDated
<1>3. CASE InitVault \/ PrepareReset \/ FinishReset \/ Midnight \/ UNCHANGED vars
             \/ \E cutoff \in 2..MaxDay : Purge(cutoff)
  BY <1>1, <1>2, <1>3
  DEF InitVault, PrepareReset, FinishReset, Midnight, Purge, vars, writerVars, stepVars
<1>4. ASSUME NEW p \in Proc, MakeEncrypted(p) \/ MakePlain(p) \/ FallBack(p) \/ Submit(p)
      PROVE  UNCHANGED <<last, turn>> /\ \A q \in Proc : at'[q] = "rotate" => at[q] = "rotate"
  BY <1>0, <1>4 DEF MakeEncrypted, MakePlain, FallBack, Submit, Submits, writerVars, stepVars
<1>6. ASSUME NEW p \in Proc, StepFails(p) \/ Compress(p) \/ Compressed(p) \/ CompressFails(p)
               \/ UnlinkRaw(p) \/ Rename(p)
      PROVE  \A q \in Proc : last'[q] = last[q]
               /\ (at'[q] = "rotate" => turn'[q] = turn[q] /\ at[q] = "rotate")
  BY <1>0, <1>6
  DEF StepFails, Compress, Compressed, CompressFails, UnlinkRaw, Rename, Leaves, Goes, writerVars
<1>7. ASSUME NEW p \in Proc, Forgets(p) \/ Sweep(p)
      PROVE  \A q \in Proc : (mine'[q] # Plain => last'[q] = last[q])
               /\ (at'[q] = "rotate" => turn'[q] = turn[q] /\ at[q] = "rotate")
  BY <1>0, <1>7 DEF Forgets, Sweep, Wipes, Leaves, Goes
<1>8. ASSUME NEW p \in Proc, EnterVault(p)
      PROVE  \A q \in Proc : last'[q] = last[q]
               /\ (at'[q] = "rotate" => turn'[q] = turn[q] /\ at[q] = "rotate")
  BY <1>0, <1>8 DEF EnterVault, Leaves, Goes
<1>9. ASSUME NEW p \in Proc, EnterEncrypted(p)
      PROVE  /\ \A q \in Proc : last'[q] \in {last[q], today}
             /\ \A q \in Proc : at'[q] = "rotate" /\ active # NoFile /\ active.key # Plain
                  => DaysPast(active, turn'[q].day)
  <2>1. \A q \in Proc : last'[q] \in {last[q], today}
    BY <1>0, <1>9 DEF EnterEncrypted, Dated
  <2>2. \A q \in Proc : q # p => at'[q] = at[q] /\ turn'[q] = turn[q]
    BY <1>0, <1>9 DEF EnterEncrypted, Turns, Goes
  <2>3. ASSUME at'[p] = "rotate"
        PROVE turn'[p].day = today \/ (active.key = mine[p] /\ turn'[p].day = last[p])
    BY <1>0, <1>9, <2>3 DEF EnterEncrypted, Turns, Goes, RotatesOwn, OwnKey, Under
  <2> QED  BY <2>1, <2>2, <2>3 DEF LinesDated
<1>10. ASSUME NEW p \in Proc, EnterPlain(p)
      PROVE  /\ \A q \in Proc : last'[q] \in {last[q], today}
             /\ \A q \in Proc : at'[q] = "rotate" /\ active # NoFile /\ active.key # Plain
                  => DaysPast(active, turn'[q].day)
  <2>1. \A q \in Proc : last'[q] \in {last[q], today}
    BY <1>0, <1>10 DEF EnterPlain, Dated
  <2>2. \A q \in Proc : q # p => at'[q] = at[q] /\ turn'[q] = turn[q]
    BY <1>0, <1>10 DEF EnterPlain, Turns, Goes, Leaves
  <2>3. ASSUME at'[p] = "rotate", active # NoFile, active.key # Plain PROVE active.lines = <<>>
    BY <1>0, <1>10, <2>3 DEF EnterPlain, Leaves, Goes, PlainMayAppend
  <2>4. ASSUME at'[p] = "rotate", active # NoFile, active.key # Plain PROVE DaysPast(active, turn'[p].day)
    BY <2>3, <2>4 DEF DaysPast
  <2> QED  BY <2>1, <2>2, <2>4 DEF LinesDated
<1>11. ASSUME NEW p \in Proc, EarlyStep(p)
       PROVE  /\ \A q \in Proc : mine'[q] # Plain => last'[q] \in {last[q], today}
              /\ \A q \in Proc : at'[q] = "rotate" /\ active # NoFile /\ active.key # Plain
                   => DaysPast(active, turn'[q].day)
  BY <1>6, <1>7, <1>8, <1>9, <1>10, <1>11 DEF EarlyStep, LinesDated
<1> QED  BY <1>1, <1>2, <1>3, <1>4, <1>11 DEF CalmStep, WorldStep

\* A calm step puts no line under an earlier day.
LEMMA CalmLines ==
  ASSUME Distinct, IInv, Turning, LinesDated, CalmStep
  PROVE  LinesDated'
<1>c. Calm
  BY CalmSteps
<1>0. today \in Nat /\ last \in [Proc -> Nat]
        /\ (active # NoFile => \A i \in DOMAIN active.lines : active.lines[i].day \in Nat)
  <2>1. ASSUME active # NoFile, NEW i \in DOMAIN active.lines PROVE active.lines[i].day \in Nat
    <3>1. active.lines \in Seq(LineType)
      BY <2>1 DEF IInv, Filed, Fit, LogType
    <3>2. active.lines[i] \in LineType
      BY <2>1, <3>1
    <3> QED  BY <3>2 DEF LineType
  <2> QED  BY <2>1 DEF IInv, Types, Turning
<1>1. ASSUME active' # NoFile PROVE DaysPast(active', today')
  BY <1>0, <1>1, <1>c, CalmDates DEF Calm, LinesDated, DaysPast
<1>2. ASSUME active' # NoFile, active'.key # Plain, NEW q \in Proc, mine'[q] = active'.key
      PROVE  DaysPast(active', last'[q])
  <2>1. active' = active /\ mine[q] = active.key /\ last'[q] \in {last[q], today}
    BY <1>2, <1>c, CalmDates DEF Calm
  <2> QED  BY <1>2, <2>1 DEF LinesDated
<1>3. ASSUME NEW p \in Proc, at'[p] = "rotate", active' # NoFile, active'.key # Plain
      PROVE DaysPast(active', turn'[p].day)
  BY <1>3, <1>c, CalmDates DEF Calm
<1>4. ASSUME NEW r \in rotated', r.file.key # Plain PROVE DaysPast(r.file, r.day)
  <2>1. CASE \E s \in rotated : Kin(r, s)
    BY <1>4, <2>1 DEF Kin, LinesDated, DaysPast
  <2>2. CASE GoneAside(r)
    BY <1>4, <2>2 DEF GoneAside, LinesDated
  <2> QED  BY <1>c, <2>1, <2>2 DEF Calm
<1> QED  BY <1>1, <1>2, <1>3, <1>4 DEF LinesDated, DaysPast

\* A line is of its entry's day, which its writer has reached.
LEMMA WritesLines ==
  ASSUME Distinct, IInv, IInv', CutInv, Turning, EntriesDated, LinesDated, NEW p \in Proc, Writes(p)
  PROVE  LinesDated'
<1>0. /\ rotated' = rotated /\ today' = today /\ last' = last
      /\ at[p] \in {"create", "header", "write", "writing"} /\ at'[p] # "rotate"
      /\ \A q \in Proc : q # p => at'[q] # "rotate"
  <2>1. at'[p] # "rotate"
    BY DEF Writes, Create, WriteHeader, HeaderFails, WriteSome, WriteRest, WriteFails, Leaves, Goes,
           IInv, Types
  <2> QED  BY <2>1, WritesAlone DEF Locked, Places
<1>1. CASE Create(p) \/ WriteHeader(p) \/ HeaderFails(p)
  <2>1. DOMAIN active'.lines = {}
    <3>1. CASE Create(p)
      BY <3>1 DEF Create, File
    <3>2. CASE WriteHeader(p) \/ HeaderFails(p)
      <4>1. active \in LogType /\ active.lines = <<>>
        BY <3>2 DEF WriteHeader, HeaderFails, IInv, Placed, Filed, Fit
      <4>2. \E h \in {"none", "cut", "whole"} : active' = [active EXCEPT !.head = h]
        BY <3>2 DEF WriteHeader, HeaderFails
      <4> QED  BY <4>1, <4>2 DEF LogType
    <3> QED  BY <1>1, <3>1, <3>2
  <2> QED  BY <1>0, <2>1 DEF LinesDated, DaysPast
<1>2. CASE WriteSome(p)
  <2>1. PICK l \in LineType : Added(p, l)
    BY <1>2, WriteSomeFile
  <2>2. mine' = mine /\ at[p] = "write" /\ l.day <= today /\ l.day <= last[p]
    BY <1>2, <2>1 DEF WriteSome, writerVars, Added, EntriesDated
  <2>3. DaysPast(active', today)
    <3>1. \A i \in DOMAIN Before : Before[i].day <= today
      BY DEF Before, LinesDated, DaysPast
    <3> QED  BY <2>1, <2>2, <3>1 DEF Added, DaysPast
  <2>4. ASSUME NEW q \in Proc, mine'[q] = active'.key, active'.key # Plain PROVE DaysPast(active', last[q])
    <3>1. q = p /\ active # NoFile /\ active.key = mine[p]
      BY <2>1, <2>2, <2>4 DEF Added, CutInv, KeysApart
    <3>2. DaysPast(active, last[p]) /\ Before = active.lines
      BY <2>1, <2>4, <3>1 DEF Added, LinesDated, Before
    <3> QED  BY <2>1, <2>2, <3>1, <3>2 DEF Added, DaysPast
  <2> QED  BY <1>0, <2>3, <2>4 DEF LinesDated
<1>3. CASE WriteRest(p) \/ WriteFails(p)
  <2>1. /\ active # NoFile /\ active'.key = active.key /\ mine' = mine
        /\ \A i \in DOMAIN active'.lines : i \in DOMAIN active.lines
             /\ active'.lines[i].day = active.lines[i].day
    BY <1>3, WriteEndsFile DEF WriteRest, WriteFails, writerVars, Finished, TakenBack
  <2> QED  BY <1>0, <2>1 DEF LinesDated, DaysPast
<1> QED  BY <1>1, <1>2, <1>3 DEF Writes

\* Cuts, names and dates hold together.
LEMMA AuditDates ==
  ASSUME Distinct
  PROVE  Spec => []DateInv
<1>1. Init => DateInv
  <2> SUFFICES ASSUME Init PROVE DateInv
    OBVIOUS
  <2>1. CutInv
    BY CutsFromInit
  <2>2. Turning
    BY FS_EmptySet DEF Init, Turning, NoTurn
  <2>3. EntriesDated /\ LinesDated
    BY DEF Init, EntriesDated, LinesDated, NoEntry, NoTurn, Rotating
  <2> QED  BY <2>1, <2>2, <2>3 DEF DateInv
<1>2. IInv /\ IInv' /\ DateInv /\ [Next]_vars => DateInv'
  <2> SUFFICES ASSUME IInv, IInv', DateInv, [Next]_vars PROVE DateInv'
    OBVIOUS
  <2>1. CutInv' /\ Turning' /\ EntriesDated'
    BY NextCuts, NextTurning, NextEntriesDated DEF DateInv
  <2>2. LinesDated'
    BY CalmOrWrites, CalmLines, WritesLines DEF DateInv
  <2> QED  BY <2>1, <2>2 DEF DateInv
<1> QED  BY <1>1, <1>2, AuditWriters, PTL DEF Spec

\* A rotated encrypted log is named for no day before one of its entries: it is named for
\* the last date of the writer that kept it, or for today (EncryptedWriter._maybe_rotate).
THEOREM AuditNames ==
  ASSUME Distinct
  PROVE  Spec => []NamedNoEarlier
<1>1. DateInv => NamedNoEarlier
  BY DEF DateInv, LinesDated, DaysPast, NamedNoEarlier, EncryptedLogs
<1> QED  BY <1>1, AuditDates, PTL

-----------------------------------------------------------------------------
(* Acknowledged entries.                                                    *)

\* An append is on its way.
Busy(q) == at[q] # "idle"

\* Every append has an entry with a number of its own.
Numbered ==
  /\ acked \subseteq [id : Nat, day : Nat]
  /\ \A a \in acked : a.id <= count /\ a.day <= today
  /\ \A q \in Proc : Busy(q) =>
       /\ entry[q].id <= count /\ \A a \in acked : a.id # entry[q].id
       /\ \A p \in Proc : p # q /\ Busy(p) => entry[p].id # entry[q].id

\* The entry of an append is in no file, but for the line that is being written.
Recorded(line) == line.id <= count /\ \A q \in Proc : Busy(q) => line.id # entry[q].id
LinesNumbered ==
  /\ \A r \in rotated : \A i \in DOMAIN r.file.lines : Recorded(r.file.lines[i])
  /\ active # NoFile => \A i \in DOMAIN active.lines :
       Recorded(active.lines[i])
         \/ (i = Len(active.lines) /\ \E q \in Proc : at[q] = "writing" /\ active.lines[i].id = entry[q].id)
  /\ \A q \in Proc : at[q] = "writing" =>
       active.lines[Len(active.lines)].id = entry[q].id /\ entry[q].day <= active.mtime

\* A file was written to no earlier than its entries were acknowledged for.
Young(f) == \A a \in acked : Holds(f, a) => a.day <= f.mtime
FilesYoung == Young(active) /\ \A r \in rotated : Young(r.file)

\* While a raw file may go, its copy has what it has.
Copied(p, form) ==
  \A a \in acked : (\E r \in Here(p, "raw") : Holds(r.file, a)) => \E s \in Here(p, form) : Holds(s.file, a)
CopiesHold ==
  \A p \in Proc : /\ at[p] = "compressing" => Copied(p, "part")
                  /\ at[p] = "unlink" => Copied(p, "gz")

\* Entries are numbered when they are submitted, and forgotten by the purge of their file.
LEMMA CalmEntries ==
  ASSUME Distinct, IInv, Turning, LinesDated, CalmStep
  PROVE  /\ acked' \subseteq acked /\ count' \in {count, count + 1}
         /\ \A q \in Proc : Busy(q)' =>
              \/ Busy(q) /\ entry'[q] = entry[q]
              \/ ~Busy(q) /\ count' = count + 1 /\ entry'[q].id = count + 1
         /\ \A p, q \in Proc : p # q /\ ~Busy(p) /\ Busy(p)' => Busy(q) \/ ~Busy(q)'
<1>0. at \in [Proc -> Places] /\ entry \in [Proc -> [id : Nat, day : Nat]]
  BY DEF IInv, Types
<1>1. CASE InitVault \/ PrepareReset \/ FinishReset \/ Midnight \/ UNCHANGED vars
             \/ \E cutoff \in 2..MaxDay : Purge(cutoff)
  BY <1>1 DEF InitVault, PrepareReset, FinishReset, Midnight, Purge, vars, stepVars, tally, Busy
<1>2. ASSUME NEW p \in Proc, MakeEncrypted(p) \/ MakePlain(p)
      PROVE  UNCHANGED <<acked, count, at, entry>>
  BY <1>2 DEF MakeEncrypted, MakePlain, stepVars, tally
<1>3. ASSUME NEW p \in Proc, FallBack(p) \/ Submit(p)
      PROVE  /\ acked' = acked /\ count' = count + 1 /\ at[p] = "idle" /\ at' = [at EXCEPT ![p] = "waiting"]
             /\ entry' = [entry EXCEPT ![p] = [id |-> count + 1, day |-> today]]
  <2>1. at[p] = "idle"
    BY <1>3 DEF FallBack, Submit, IInv, Held
  <2> QED  BY <1>3, <2>1 DEF FallBack, Submit, Submits
<1>4. ASSUME NEW p \in Proc, EarlyStep(p)
      PROVE  /\ acked' = acked /\ count' = count
             /\ \A q \in Proc : Busy(q)' => Busy(q) /\ entry'[q] = entry[q]
  <2>1. acked' = acked /\ count' = count
    BY <1>4
    DEF EarlyStep, Forgets, EnterVault, EnterEncrypted, EnterPlain, Rename, StepFails, Compress,
        Compressed, CompressFails, UnlinkRaw, Sweep, tally
  <2>2. \/ at' = [at EXCEPT ![p] = "idle"] /\ entry' = [entry EXCEPT ![p] = NoEntry]
        \/ entry' = entry /\ at[p] # "idle" /\ \E place \in Places : at' = [at EXCEPT ![p] = place]
    BY <1>4
    DEF EarlyStep, Forgets, EnterVault, EnterEncrypted, EnterPlain, Rename, StepFails, Compress,
        Compressed, CompressFails, UnlinkRaw, Sweep, Leaves, Goes, Turns, Places
  <2> QED  BY <1>0, <2>1, <2>2 DEF Busy
<1>5. CASE \E p \in Proc : MakeEncrypted(p) \/ MakePlain(p)
  BY <1>2, <1>5 DEF Busy
<1>6. CASE \E p \in Proc : FallBack(p) \/ Submit(p)
  BY <1>0, <1>3, <1>6 DEF Busy
<1>7. CASE \E p \in Proc : EarlyStep(p)
  BY <1>4, <1>7
<1> QED  BY <1>1, <1>5, <1>6, <1>7 DEF CalmStep, WorldStep

\* Who stops in its line without finishing it is dead.
LEMMA WriterStops ==
  ASSUME IInv, CalmStep, NEW q \in Proc, at[q] = "writing", at'[q] # "writing"
  PROVE  ~Busy(q)'
<1>0. at \in [Proc -> Places]
  BY DEF IInv, Types
<1>1. CASE WorldStep
  BY <1>0, <1>1
  DEF WorldStep, InitVault, PrepareReset, FinishReset, Midnight, Purge, MakeEncrypted, MakePlain,
      FallBack, Submit, Submits, vars, stepVars, Busy, IInv, Held
<1>2. ASSUME NEW p \in Proc, EarlyStep(p) PROVE ~Busy(q)'
  BY <1>0, <1>2
  DEF EarlyStep, Forgets, EnterVault, EnterEncrypted, EnterPlain, Rename, StepFails, Compress,
      Compressed, CompressFails, UnlinkRaw, Sweep, Leaves, Goes, Turns, Busy
<1> QED  BY <1>1, <1>2 DEF CalmStep

\* An entry that has not begun its line is in no file.
LEMMA CalmNumbers ==
  ASSUME Distinct, IInv, IInv', Turning, LinesDated, Numbered, LinesNumbered, CalmStep
  PROVE  Numbered' /\ LinesNumbered'
<1>0. count \in Nat /\ today \in Nat /\ Calm /\ (today' \in {today, today + 1})
        /\ entry \in [Proc -> [id : Nat, day : Nat]]
  BY CalmSteps, CalmDates DEF IInv, Types
<1>1. Numbered'
  BY <1>0, CalmEntries DEF Numbered
<1>2. ASSUME NEW line, line.id \in Nat, Recorded(line) PROVE Recorded(line)'
  BY <1>0, <1>2, CalmEntries DEF Recorded
<1>3. ASSUME NEW r \in rotated', NEW i \in DOMAIN r.file.lines PROVE Recorded(r.file.lines[i])'
  <2>1. r.file.lines[i].id \in Nat
    <3>1. r.file.lines \in Seq(LineType)
      BY DEF IInv, Filed, Fit, LogType
    <3>2. r.file.lines[i] \in LineType
      BY <1>3, <3>1
    <3> QED  BY <3>2 DEF LineType
  <2>2. CASE \E s \in rotated : Kin(r, s)
    BY <1>2, <1>3, <2>1, <2>2 DEF Kin, LinesNumbered
  <2>3. CASE GoneAside(r) /\ \A q \in Proc : ~InHeader(q)
    BY <1>2, <1>3, <2>1, <2>3 DEF GoneAside, LinesNumbered, InHeader
  <2> QED  BY <1>0, <2>2, <2>3 DEF Calm
<1>4. ASSUME active' # NoFile, NEW i \in DOMAIN active'.lines, NEW line, line = active'.lines[i]
      PROVE  Recorded(line)'
               \/ (i = Len(active'.lines) /\ \E q \in Proc : at'[q] = "writing" /\ line.id = entry'[q].id)
  <2>1. active' = active
    BY <1>0, <1>4 DEF Calm
  <2>2. line.id \in Nat
    <3>1. active.lines \in Seq(LineType)
      BY <1>4, <2>1 DEF IInv, Filed, Fit, LogType
    <3>2. active.lines[i] \in LineType
      BY <1>4, <2>1, <3>1
    <3> QED  BY <1>4, <2>1, <3>2 DEF LineType
  <2>3. CASE Recorded(line)
    BY <1>2, <2>2, <2>3
  <2>4. ASSUME i = Len(active.lines), NEW q \in Proc, at[q] = "writing", line.id = entry[q].id
        PROVE  Recorded(line)'
                 \/ (i = Len(active'.lines) /\ \E p \in Proc : at'[p] = "writing" /\ line.id = entry'[p].id)
    <3>1. CASE at'[q] = "writing"
      <4>1. entry'[q] = entry[q]
        BY <2>4, <3>1, CalmEntries DEF Busy
      <4> QED  BY <2>1, <2>4, <3>1, <4>1
    <3>2. CASE at'[q] # "writing"
      <4>1. ~Busy(q)'
        BY <2>4, <3>2, WriterStops
      <4>2. \A p \in Proc : Busy(p) /\ p # q => entry[p].id # entry[q].id
        BY <2>4 DEF Numbered, Busy
      <4>3. entry[q].id <= count /\ entry[q].id \in Nat
        BY <1>0, <2>4 DEF Numbered, Busy
      <4>4. line.id <= count'
        BY <1>0, <2>4, <4>3, CalmEntries
      <4>5. ASSUME NEW p \in Proc, Busy(p)' PROVE line.id # entry'[p].id
        <5>1. p # q
          BY <4>1, <4>5
        <5>2. CASE Busy(p) /\ entry'[p] = entry[p]
          BY <2>4, <4>2, <5>1, <5>2
        <5>3. CASE entry'[p].id = count + 1
          BY <1>0, <2>4, <4>3, <5>3
        <5> QED  BY <4>5, <5>2, <5>3, CalmEntries
      <4> QED  BY <4>4, <4>5 DEF Recorded
    <3> QED  BY <3>1, <3>2
  <2> QED  BY <1>4, <2>1, <2>3, <2>4 DEF LinesNumbered
<1>5. ASSUME NEW q \in Proc, at'[q] = "writing"
      PROVE  active'.lines[Len(active'.lines)].id = entry'[q].id /\ entry'[q].day <= active'.mtime
  <2>1. at[q] = "writing" /\ active' = active /\ entry'[q] = entry[q]
    BY <1>0, <1>5, CalmEntries DEF Calm, InHeader, Busy
  <2> QED  BY <2>1 DEF LinesNumbered
<1>6. LinesNumbered'
  BY <1>3, <1>4, <1>5 DEF LinesNumbered, Recorded, Busy
<1> QED  BY <1>1, <1>6

\* A new file has no line before its header is whole.
LEMMA HeaderLines ==
  ASSUME IInv, NEW p \in Proc, Create(p) \/ WriteHeader(p) \/ HeaderFails(p)
  PROVE  DOMAIN active'.lines = {} /\ (active # NoFile => DOMAIN active.lines = {})
<1>1. CASE Create(p)
  BY <1>1 DEF Create, File, IInv, Placed, Turned
<1>2. CASE WriteHeader(p) \/ HeaderFails(p)
  <2>1. active \in LogType /\ active.lines = <<>>
    BY <1>2 DEF WriteHeader, HeaderFails, IInv, Placed, Filed, Fit
  <2>2. \E h \in {"none", "cut", "whole"} : active' = [active EXCEPT !.head = h]
    BY <1>2 DEF WriteHeader, HeaderFails
  <2> QED  BY <2>1, <2>2 DEF LogType
<1> QED  BY <1>1, <1>2

\* What a write does to the tallies: only the end of a line is acknowledged.
LEMMA WritesEntries ==
  ASSUME Distinct, IInv, NEW p \in Proc, Writes(p)
  PROVE  /\ count' = count /\ today' = today /\ rotated' = rotated /\ Busy(p)
         /\ acked' = IF WriteRest(p) THEN acked \cup {entry[p]} ELSE acked
         /\ \A q \in Proc : Busy(q)' => Busy(q) /\ entry'[q] = entry[q]
         /\ \A q \in Proc : q # p => ~InHeader(q) /\ at'[q] = at[q] /\ at[q] \notin Locked
         /\ WriteRest(p) \/ WriteFails(p) \/ HeaderFails(p) => at'[p] = "idle"
         /\ WriteSome(p) => at[p] = "write" /\ at'[p] = "writing"
         /\ WriteRest(p) \/ WriteFails(p) => at[p] = "writing"
         /\ Create(p) \/ WriteHeader(p) => at'[p] \in {"header", "write"}
<1>0. at \in [Proc -> Places] /\ entry \in [Proc -> [id : Nat, day : Nat]]
  BY DEF IInv, Types
<1>1. /\ at[p] \in {"create", "header", "write", "writing"} /\ today' = today /\ rotated' = rotated
      /\ \A q \in Proc : q # p => ~InHeader(q) /\ at'[q] = at[q] /\ at[q] \notin Locked
  BY WritesAlone
<1>2. count' = count /\ (WriteRest(p) => at[p] = "writing")
  BY DEF Writes, Create, WriteHeader, HeaderFails, WriteSome, WriteRest, WriteFails, tally
<1>3. acked' = IF WriteRest(p) THEN acked \cup {entry[p]} ELSE acked
  BY DEF Writes, Create, WriteHeader, HeaderFails, WriteSome, WriteRest, WriteFails, tally
<1>4. /\ entry' = entry \/ (at' = [at EXCEPT ![p] = "idle"] /\ entry' = [entry EXCEPT ![p] = NoEntry])
      /\ WriteRest(p) \/ WriteFails(p) \/ HeaderFails(p) => at' = [at EXCEPT ![p] = "idle"]
      /\ WriteSome(p) => at[p] = "write" /\ at' = [at EXCEPT ![p] = "writing"]
      /\ WriteRest(p) \/ WriteFails(p) => at[p] = "writing"
      /\ Create(p) => at' = [at EXCEPT ![p] = "header"]
      /\ WriteHeader(p) => at[p] = "header" /\ (at' = at \/ at' = [at EXCEPT ![p] = "write"])
  BY DEF Writes, Create, WriteHeader, HeaderFails, WriteSome, WriteRest, WriteFails, Leaves, Goes
<1> QED  BY <1>0, <1>1, <1>2, <1>3, <1>4 DEF Busy

\* An entry in the active log stays there, but for the one whose write fails.
LEMMA WritesHold ==
  ASSUME Distinct, IInv, IInv', LinesNumbered, NEW p \in Proc, Writes(p), NEW a, a.id # entry[p].id
  PROVE  Holds(active, a) <=> Holds(active', a)
<1>1. CASE Create(p) \/ WriteHeader(p) \/ HeaderFails(p)
  BY <1>1, HeaderLines DEF Holds
<1>2. CASE WriteSome(p)
  <2>1. PICK l \in LineType : Added(p, l)
    BY <1>2, WriteSomeFile
  <2> QED  BY <2>1 DEF Added, Before, Holds
<1>3. CASE WriteRest(p)
  <2>1. active' # NoFile
    <3>1. active # NoFile /\ Fit(active) /\ active.lines # <<>>
      BY <1>3, WriteEndsFile DEF IInv, Filed
    <3> QED  BY <1>3, <3>1, FinishFits DEF WriteRest, Fit, Distinct
  <2> QED  BY <1>3, <2>1, WriteEndsFile DEF Finished, Holds
<1>4. CASE WriteFails(p)
  <2>1. active' # NoFile
    <3>1. active # NoFile /\ Fit(active) /\ active.lines # <<>>
      BY <1>4, WriteEndsFile DEF IInv, Filed
    <3> QED  BY <1>4, <3>1, TruncateFits DEF WriteFails, Fit, Distinct
  <2>2. active.lines[Len(active.lines)].id = entry[p].id
    BY <1>4, WritesEntries DEF LinesNumbered
  <2> QED  BY <1>4, <2>1, <2>2, WriteEndsFile DEF TakenBack, Holds
<1> QED  BY <1>1, <1>2, <1>3, <1>4 DEF Writes

\* What is acknowledged then is in the line just written, and nowhere else.
LEMMA WritesNumbers ==
  ASSUME Distinct, IInv, IInv', EntriesDated, Numbered, LinesNumbered, NEW p \in Proc, Writes(p)
  PROVE  Numbered' /\ LinesNumbered'
<1>0. /\ count \in Nat /\ today \in Nat /\ entry \in [Proc -> [id : Nat, day : Nat]] /\ entry[p].day <= today
      /\ entry[p].id <= count /\ Busy(p)
  BY WritesEntries DEF IInv, Types, EntriesDated, Numbered
<1>1. Numbered'
  <2>1. acked' \subseteq acked \cup {entry[p]} /\ (entry[p] \in acked' => WriteRest(p) \/ entry[p] \in acked)
    BY WritesEntries
  <2>2. acked' \subseteq [id : Nat, day : Nat] /\ \A a \in acked' : a.id <= count' /\ a.day <= today'
    BY <1>0, <2>1, WritesEntries DEF Numbered
  <2>3. ASSUME NEW q \in Proc, Busy(q)', NEW a \in acked' PROVE a.id # entry'[q].id
    <3>1. Busy(q) /\ entry'[q] = entry[q]
      BY <2>3, WritesEntries
    <3>2. CASE a \in acked
      BY <3>1, <3>2 DEF Numbered
    <3>3. CASE a = entry[p] /\ WriteRest(p)
      <4>1. q # p
        BY <2>3, <3>3, WritesEntries DEF Busy
      <4> QED  BY <1>0, <3>1, <3>3, <4>1 DEF Numbered
    <3> QED  BY <2>3, <3>2, <3>3, WritesEntries
  <2> QED  BY <1>0, <2>2, <2>3, WritesEntries DEF Numbered
<1>2. ASSUME NEW line, Recorded(line) PROVE Recorded(line)'
  BY <1>2, WritesEntries DEF Recorded
<1>3. ASSUME NEW r \in rotated', NEW i \in DOMAIN r.file.lines PROVE Recorded(r.file.lines[i])'
  BY <1>2, <1>3, WritesEntries DEF LinesNumbered
<1>4. \A i \in DOMAIN active.lines : active # NoFile => Recorded(active.lines[i])
        \/ (i = Len(active.lines) /\ at[p] = "writing")
  BY WritesEntries DEF LinesNumbered, InHeader
<1>5. ASSUME active' # NoFile, NEW i \in DOMAIN active'.lines, NEW line, line = active'.lines[i]
      PROVE  Recorded(line)'
               \/ (i = Len(active'.lines) /\ \E q \in Proc : at'[q] = "writing" /\ line.id = entry'[q].id)
  <2>1. CASE Create(p) \/ WriteHeader(p) \/ HeaderFails(p)
    BY <1>5, <2>1, HeaderLines
  <2>2. CASE WriteSome(p)
    <3>1. PICK l \in LineType : Added(p, l)
      BY <2>2, WriteSomeFile
    <3>2. CASE i = Len(active'.lines)
      <4>1. entry'[p] = entry[p] /\ at'[p] = "writing"
        BY <2>2, WritesEntries DEF Busy
      <4> QED  BY <1>5, <3>1, <3>2, <4>1 DEF Added
    <3>3. CASE i # Len(active'.lines)
      <4>1. i \in DOMAIN active.lines /\ line = active.lines[i] /\ active # NoFile /\ at[p] = "write"
        BY <1>5, <2>2, <3>1, <3>3, WritesEntries DEF Added, Before
      <4> QED  BY <1>2, <1>4, <4>1
    <3> QED  BY <3>2, <3>3
  <2>3. CASE WriteRest(p)
    <3>1. /\ i \in DOMAIN active.lines /\ line.id = active.lines[i].id /\ active # NoFile /\ at[p] = "writing"
          /\ active.lines[Len(active.lines)].id = entry[p].id
      BY <1>5, <2>3, WriteEndsFile, WritesEntries DEF Finished, LinesNumbered
    <3>2. CASE Recorded(active.lines[i])
      BY <1>2, <3>1, <3>2 DEF Recorded
    <3>3. CASE i = Len(active.lines)
      <4>1. ~Busy(p)'
        BY <2>3, WritesEntries DEF Busy
      <4> QED  BY <1>0, <3>1, <3>3, <4>1, WritesEntries DEF Recorded, Numbered
    <3> QED  BY <1>4, <3>1, <3>2, <3>3
  <2>4. CASE WriteFails(p)
    <3>1. i \in DOMAIN active.lines /\ line = active.lines[i] /\ active # NoFile /\ i # Len(active.lines)
      BY <1>5, <2>4, WriteEndsFile DEF TakenBack
    <3> QED  BY <1>2, <1>4, <3>1
  <2> QED  BY <2>1, <2>2, <2>3, <2>4 DEF Writes
<1>6. ASSUME NEW q \in Proc, at'[q] = "writing"
      PROVE  active'.lines[Len(active'.lines)].id = entry'[q].id /\ entry'[q].day <= active'.mtime
  <2>1. q = p /\ WriteSome(p) /\ entry'[p] = entry[p]
    BY <1>6, WritesEntries DEF Writes, InHeader, Busy
  <2>2. PICK l \in LineType : Added(p, l)
    BY <2>1, WriteSomeFile
  <2> QED  BY <1>0, <2>1, <2>2 DEF Added
<1>7. LinesNumbered'
  BY <1>3, <1>5, <1>6 DEF LinesNumbered, Recorded, Busy
<1> QED  BY <1>1, <1>7

\* A file gets older only by its retention: its copy is of the day it is made.
LEMMA CalmYoung ==
  ASSUME Distinct, IInv, Turning, LinesDated, Numbered, FilesYoung, CalmStep
  PROVE  FilesYoung'
<1>0. Calm /\ acked' \subseteq acked /\ \A a \in acked : a.day <= today
  BY CalmSteps, CalmEntries DEF Numbered
<1>1. \A a \in acked' : Holds(active', a) => a.day <= active'.mtime
  BY <1>0 DEF Calm, FilesYoung, Young, Holds
<1>2. ASSUME NEW r \in rotated', NEW a \in acked', Holds(r.file, a) PROVE a.day <= r.file.mtime
  <2>1. CASE \E s \in rotated : Kin(r, s)
    <3>1. PICK s \in rotated : Kin(r, s)
      BY <2>1
    <3>2. s.file # NoFile
      BY DEF IInv, Filed, Fit, Distinct
    <3>3. Holds(s.file, a)
      BY <1>2, <3>1, <3>2 DEF Kin, Holds
    <3> QED  BY <1>0, <3>1, <3>3 DEF Kin, FilesYoung, Young
  <2>2. CASE GoneAside(r)
    BY <1>0, <1>2, <2>2 DEF GoneAside, FilesYoung, Young
  <2> QED  BY <1>0, <2>1, <2>2 DEF Calm
<1> QED  BY <1>1, <1>2 DEF FilesYoung, Young

\* A write makes its file as young as the entry.
LEMMA WritesYoung ==
  ASSUME Distinct, IInv, IInv', EntriesDated, Numbered, LinesNumbered, FilesYoung, NEW p \in Proc, Writes(p)
  PROVE  FilesYoung'
<1>0. /\ rotated' = rotated /\ entry[p].day <= today /\ \A a \in acked : a.day <= today /\ a.id # entry[p].id
  BY WritesEntries DEF EntriesDated, Numbered
<1>1. ASSUME NEW a \in acked, Holds(active', a) PROVE a.day <= active'.mtime
  <2>1. Holds(active, a)
    BY <1>0, <1>1, WritesHold
  <2>2. CASE Create(p) \/ WriteHeader(p) \/ HeaderFails(p)
    BY <1>1, <2>2, HeaderLines DEF Holds
  <2>3. CASE WriteSome(p)
    BY <1>0, <2>3, WriteSomeFile DEF Added
  <2>4. CASE WriteRest(p) \/ WriteFails(p)
    BY <2>1, <2>4, WriteEndsFile DEF FilesYoung, Young
  <2> QED  BY <2>2, <2>3, <2>4 DEF Writes
<1>2. ASSUME WriteRest(p) PROVE entry[p].day <= active'.mtime /\ \A r \in rotated : ~Holds(r.file, entry[p])
  <2>1. entry[p].day <= active.mtime /\ active'.mtime = active.mtime
    BY <1>2, WriteEndsFile, WritesEntries DEF LinesNumbered
  <2> QED  BY <2>1, WritesEntries DEF LinesNumbered, Recorded, Holds
<1>3. ASSUME NEW a \in acked' PROVE a \in acked \/ (a = entry[p] /\ WriteRest(p))
  BY <1>3, WritesEntries
<1> QED  BY <1>0, <1>1, <1>2, <1>3 DEF FilesYoung, Young

\* Two processes are not both in a rotation; a purge takes a file with the entries it holds.
LEMMA CalmRotation ==
  ASSUME Distinct, IInv, Turning, CalmStep, NEW p \in Proc, at[p] \in {"compressing", "unlink"}, at'[p] = at[p]
  PROVE  /\ turn'[p] = turn[p]
         /\ \/ rotated' = rotated /\ acked' \subseteq acked
            \/ \E r \in rotated : rotated' = rotated \ {r} /\ acked' = {a \in acked : ~Holds(r.file, a)}
<1>0. /\ at \in [Proc -> Places] /\ sidecar = p /\ sidecar # None
      /\ \A q \in Proc : q # p => at[q] \notin Locked /\ sidecar # q
  BY Alone DEF IInv, Types, Held, Locked, Places, Distinct
<1>1. CASE InitVault \/ PrepareReset \/ FinishReset \/ Midnight \/ UNCHANGED vars
  BY <1>1 DEF InitVault, PrepareReset, FinishReset, Midnight, vars, fileVars, stepVars, tally
<1>2. CASE \E cutoff \in 2..MaxDay : Purge(cutoff)
  BY <1>2 DEF Purge, stepVars
<1>3. ASSUME NEW q \in Proc, MakeEncrypted(q) \/ MakePlain(q) \/ FallBack(q) \/ Submit(q)
      PROVE  turn' = turn /\ rotated' = rotated /\ acked' = acked
  BY <1>0, <1>3 DEF MakeEncrypted, MakePlain, FallBack, Submit, fileVars, stepVars, tally
<1>4. ASSUME NEW q \in Proc, EarlyStep(q) PROVE turn'[p] = turn[p] /\ rotated' = rotated /\ acked' = acked
  <2>1. q # p
    <3>1. CASE q = p /\ (Forgets(q) \/ Compressed(q) \/ CompressFails(q) \/ UnlinkRaw(q))
      BY <1>0, <3>1 DEF Forgets, Compressed, CompressFails, UnlinkRaw, Leaves, Goes
    <3>2. CASE q = p /\ (EnterVault(q) \/ EnterEncrypted(q) \/ EnterPlain(q) \/ Rename(q)
                 \/ StepFails(q) \/ Compress(q) \/ Sweep(q))
      BY <3>2 DEF EnterVault, EnterEncrypted, EnterPlain, Rename, StepFails, Compress, Sweep
    <3> QED  BY <1>4, <3>1, <3>2 DEF EarlyStep
  <2>2. EnterVault(q) \/ EnterPlain(q) \/ Forgets(q)
    BY <1>0, <1>4, <2>1
    DEF EarlyStep, EnterEncrypted, Rename, StepFails, Compress, Compressed, CompressFails, UnlinkRaw,
        Sweep, Locked, Places
  <2>3. rotated' = rotated /\ acked' = acked
    BY <2>2 DEF EnterVault, EnterPlain, Forgets, fileVars, tally
  <2>4. turn' = turn \/ turn' = [turn EXCEPT ![q] = NoTurn]
    BY <1>0, <2>2 DEF EnterVault, EnterPlain, Forgets, Leaves
  <2> QED  BY <2>1, <2>3, <2>4 DEF Turning
<1> QED  BY <1>1, <1>2, <1>3, <1>4 DEF CalmStep, WorldStep

\* The copy of a file, or the file under another form.
LEMMA CopyFields ==
  ASSUME IInv, NEW r \in rotated, NEW form, NEW c,
         c = [r EXCEPT !.form = form] \/ c = [r EXCEPT !.form = form, !.file.mtime = today]
  PROVE  /\ c.day = r.day /\ c.n = r.n /\ c.form = form /\ c.file.lines = r.file.lines
         /\ c.file \in LogType /\ r.file \in LogType
<1>1. r = [day |-> r.day, n |-> r.n, form |-> r.form, file |-> r.file] /\ r.file \in LogType /\ today \in Nat
  BY DEF IInv, Types, Filed, Fit
<1>2. CASE c = [r EXCEPT !.form = form]
  BY <1>1, <1>2
<1>3. CASE c = [r EXCEPT !.form = form, !.file.mtime = today]
  <2>1. c = [day |-> r.day, n |-> r.n, form |-> form, file |-> [r.file EXCEPT !.mtime = today]]
    BY <1>1, <1>3
  <2> QED  BY <1>1, <2>1 DEF LogType
<1> QED  BY <1>2, <1>3

\* Who goes on to remove the raw file has made a whole copy of it.
LEMMA CopyMade ==
  ASSUME Distinct, IInv, CopiesHold, NEW p \in Proc, at'[p] \in {"compressing", "unlink"}
  PROVE  /\ Compress(p) => Copied(p, "part")' /\ at'[p] = "compressing" /\ rotated \subseteq rotated'
         /\ Compressed(p) => Copied(p, "gz")' /\ at'[p] = "unlink"
<1>0. at \in [Proc -> Places]
  BY DEF IInv, Types
<1>1. ASSUME Compress(p) PROVE Copied(p, "part")' /\ at'[p] = "compressing" /\ rotated \subseteq rotated'
  <2> DEFINE copy(x) == [x EXCEPT !.form = "part", !.file.mtime = today]
  <2>1. /\ turn' = turn /\ at'[p] = "compressing" /\ acked' = acked
        /\ rotated' = rotated \cup {copy(x) : x \in Here(p, "raw")}
    BY <1>0, <1>1 DEF Compress, Leaves, Goes, tally
  <2>2. ASSUME NEW x \in rotated
        PROVE  /\ copy(x).day = x.day /\ copy(x).n = x.n /\ copy(x).form = "part"
                    /\ copy(x).file.lines = x.file.lines
               /\ copy(x).file \in LogType /\ x.file \in LogType
    BY <2>2, CopyFields
  <2> HIDE DEF copy
  <2>3. \A x \in rotated, a \in acked : Holds(x.file, a) => Holds(copy(x).file, a)
    BY <2>2 DEF Holds, Distinct
  <2>4. Here(p, "raw") \subseteq rotated /\ \A x \in Here(p, "raw") : copy(x) \in Here(p, "part")'
    BY <2>1, <2>2 DEF Here
  <2>5. Here(p, "raw")' = Here(p, "raw")
    BY <2>1, <2>2 DEF Here
  <2> QED  BY <2>1, <2>3, <2>4, <2>5 DEF Copied
<1>2. ASSUME Compressed(p) PROVE Copied(p, "gz")' /\ at'[p] = "unlink"
  <2> DEFINE copy(x) == [x EXCEPT !.form = "gz"]
  <2>1. /\ turn' = turn /\ at'[p] = "unlink" /\ acked' = acked /\ at[p] = "compressing"
        /\ rotated' = (rotated \ Here(p, "part")) \cup {copy(x) : x \in Here(p, "part")}
    BY <1>0, <1>2 DEF Compressed, Goes, tally
  <2>2. ASSUME NEW x \in rotated
        PROVE  /\ copy(x).day = x.day /\ copy(x).n = x.n /\ copy(x).form = "gz"
                    /\ copy(x).file.lines = x.file.lines
               /\ copy(x).file \in LogType /\ x.file \in LogType
    BY <2>2, CopyFields
  <2> HIDE DEF copy
  <2>3. \A x \in rotated, a \in acked : Holds(x.file, a) => Holds(copy(x).file, a)
    BY <2>2 DEF Holds, Distinct
  <2>4. Here(p, "part") \subseteq rotated /\ \A x \in Here(p, "part") : copy(x) \in Here(p, "gz")'
    BY <2>1, <2>2 DEF Here
  <2>5. Here(p, "raw")' \subseteq Here(p, "raw")
    BY <2>1, <2>2 DEF Here
  <2>6. Copied(p, "part")
    BY <2>1 DEF CopiesHold
  <2> QED  BY <2>1, <2>3, <2>4, <2>5, <2>6 DEF Copied
<1> QED  BY <1>1, <1>2

\* Who is in a rotation after a step was in it before, or comes from the step before.
LEMMA Rotations ==
  ASSUME IInv, CalmStep, NEW p \in Proc, at'[p] \in {"compressing", "unlink"}, at'[p] # at[p]
  PROVE  Compress(p) \/ Compressed(p)
<1>0. at \in [Proc -> Places]
  BY DEF IInv, Types
<1>1. CASE WorldStep
  BY <1>0, <1>1
  DEF WorldStep, InitVault, PrepareReset, FinishReset, Midnight, Purge, MakeEncrypted, MakePlain,
      FallBack, Submit, Submits, vars, stepVars
<1>2. ASSUME NEW q \in Proc, EarlyStep(q) PROVE Compress(p) \/ Compressed(p)
  BY <1>0, <1>2
  DEF EarlyStep, Forgets, EnterVault, EnterEncrypted, EnterPlain, Rename, StepFails, Compress,
      Compressed, CompressFails, UnlinkRaw, Sweep, Leaves, Goes, Turns
<1> QED  BY <1>1, <1>2 DEF CalmStep

\* While a raw file may be removed, a purge that takes the copy takes its entries too.
LEMMA CalmCopies ==
  ASSUME Distinct, IInv, Turning, CopiesHold, CalmStep
  PROVE  CopiesHold'
<1>1. ASSUME NEW p \in Proc, at'[p] \in {"compressing", "unlink"}, at'[p] = at[p], NEW form, Copied(p, form)
      PROVE  Copied(p, form)'
  BY <1>1, CalmRotation DEF Copied, Here
<1>2. ASSUME NEW p \in Proc, at'[p] \in {"compressing", "unlink"}
      PROVE  (at'[p] = "compressing" => Copied(p, "part")') /\ (at'[p] = "unlink" => Copied(p, "gz")')
  <2>1. CASE at'[p] = at[p]
    BY <1>1, <1>2, <2>1 DEF CopiesHold
  <2>2. CASE Compress(p) \/ Compressed(p)
    BY <1>2, <2>2, CopyMade
  <2> QED  BY <1>2, <2>1, <2>2, Rotations
<1> QED  BY <1>2 DEF CopiesHold

\* Nobody rotates while another writes.
LEMMA WritesCopies ==
  ASSUME Distinct, IInv, NEW p \in Proc, Writes(p)
  PROVE  CopiesHold'
<1>1. \A q \in Proc : at'[q] \notin {"compressing", "unlink"}
  BY WritesEntries DEF Writes, Locked, Places
<1> QED  BY <1>1 DEF CopiesHold

\* The entry is in a file that is read.
Kept(a) == Holds(active, a) \/ \E r \in rotated : r.form \in {"raw", "gz"} /\ Holds(r.file, a)

\* A log that is renamed is under a name that no file has.
LEMMA AsideKept ==
  ASSUME Turning, NEW day, rotated' = Renamed(day), NEW a, Kept(a)
  PROVE  Kept(a)'
<1> DEFINE aside == Rotation(day, Slot(day), "raw", active)
<1>1. rotated \subseteq rotated' /\ aside \in rotated'
  BY RenamedKeeps
<1>2. aside.form = "raw" /\ aside.file = active
  BY DEF Rotation
<1> HIDE DEF aside
<1> QED  BY <1>1, <1>2 DEF Kept

\* Every step of a rotation, and a purge, keep an entry that is young enough.
LEMMA CalmKept ==
  ASSUME Distinct, Retain \in Nat, IInv, Turning, Numbered, FilesYoung, CopiesHold, CalmStep,
         NEW a \in acked, a \in acked', a.day >= today - Retain, Kept(a)
  PROVE  Kept(a)'
<1>0. today \in Nat /\ a.day \in Nat
  BY DEF IInv, Types, Numbered
<1>1. CASE UNCHANGED fileVars
  BY <1>1 DEF fileVars, Kept
<1>2. ASSUME NEW cutoff \in 2..MaxDay, Purge(cutoff) PROVE Kept(a)'
  BY <1>2 DEF Purge, Kept
<1>3. CASE StepAside
  BY <1>1, <1>3, AsideKept DEF StepAside
<1>4. ASSUME NEW p \in Proc, Rename(p) PROVE Kept(a)'
  BY <1>4, AsideKept DEF Rename
<1>5. ASSUME NEW p \in Proc, Compress(p) \/ Compressed(p) \/ CompressFails(p) PROVE Kept(a)'
  <2>1. active' = active /\ \A r \in rotated : r \in rotated' \/ r.form = "part"
    BY <1>5 DEF Compress, Compressed, CompressFails, Here
  <2> QED  BY <2>1 DEF Kept
<1>6. ASSUME NEW p \in Proc, UnlinkRaw(p) PROVE Kept(a)'
  <2>1. active' = active /\ rotated' = rotated \ Here(p, "raw") /\ Copied(p, "gz")
    BY <1>6 DEF UnlinkRaw, CopiesHold
  <2> QED  BY <2>1 DEF Kept, Copied, Here
<1>7. ASSUME NEW p \in Proc, Sweep(p) PROVE Kept(a)'
  <2>1. active' = active /\ rotated' = {r \in rotated : r.file.mtime >= today - Retain}
    BY <1>7 DEF Sweep
  <2>2. ASSUME NEW r \in rotated, Holds(r.file, a) PROVE r \in rotated'
    <3>1. a.day <= r.file.mtime /\ r.file.mtime \in Nat
      BY <2>2 DEF FilesYoung, Young, IInv, Filed, Fit, LogType
    <3> QED  BY <1>0, <2>1, <3>1
  <2> QED  BY <2>1, <2>2 DEF Kept
<1>8. CASE WorldStep
  BY <1>1, <1>2, <1>3, <1>8
  DEF WorldStep, InitVault, PrepareReset, FinishReset, Midnight, MakeEncrypted, MakePlain, FallBack,
      Submit, vars
<1>9. ASSUME NEW p \in Proc, EarlyStep(p) PROVE Kept(a)'
  BY <1>1, <1>4, <1>5, <1>6, <1>7, <1>9
  DEF EarlyStep, EnterVault, EnterEncrypted, EnterPlain, StepFails, Forgets
<1> QED  BY <1>8, <1>9 DEF CalmStep

\* Together.
AckInv == Numbered /\ LinesNumbered /\ FilesYoung /\ CopiesHold /\ AckKept

\* Every step keeps the entries that are young enough.
LEMMA NextAcks ==
  ASSUME Distinct, Retain \in Nat, IInv, IInv', Turning, EntriesDated, LinesDated, AckInv, [Next]_vars
  PROVE  AckInv'
<1>1. CASE CalmStep
  <2>1. Numbered' /\ LinesNumbered' /\ FilesYoung' /\ CopiesHold'
    BY <1>1, CalmNumbers, CalmYoung, CalmCopies DEF AckInv
  <2>2. ASSUME NEW a \in acked', a.day >= today' - Retain PROVE Kept(a)'
    <3>1. a \in acked /\ a.day \in Nat /\ today \in Nat /\ today' \in {today, today + 1}
      BY <1>1, CalmEntries, CalmDates DEF AckInv, Numbered, IInv, Types
    <3>2. a.day >= today - Retain
      BY <2>2, <3>1
    <3> QED  BY <1>1, <2>2, <3>1, <3>2, CalmKept DEF AckInv, AckKept, Kept
  <2> QED  BY <2>1, <2>2 DEF AckInv, AckKept, Kept
<1>2. ASSUME NEW p \in Proc, Writes(p) PROVE AckInv'
  <2>1. Numbered' /\ LinesNumbered' /\ FilesYoung' /\ CopiesHold'
    BY <1>2, WritesNumbers, WritesYoung, WritesCopies DEF AckInv
  <2>2. rotated' = rotated /\ today' = today /\ \A a \in acked : a.id # entry[p].id
    BY <1>2, WritesEntries DEF AckInv, Numbered
  <2>3. ASSUME NEW a \in acked, a.day >= today - Retain PROVE Kept(a)'
    <3>1. Kept(a)
      BY <2>3 DEF AckInv, AckKept, Kept
    <3> QED  BY <1>2, <2>2, <3>1, WritesHold DEF Kept, AckInv
  <2>4. ASSUME WriteRest(p), NEW a, a = entry[p] PROVE Kept(a)'
    <3>1. active # NoFile /\ Fit(active) /\ active.lines # <<>>
      BY <2>4, WriteEndsFile DEF IInv, Filed
    <3>2. active' # NoFile
      BY <2>4, <3>1, FinishFits DEF WriteRest, Fit, Distinct
    <3>3. active.lines[Len(active.lines)].id = entry[p].id /\ Len(active.lines) \in DOMAIN active.lines
      BY <2>4, WriteEndsFile DEF WriteRest, AckInv, LinesNumbered
    <3> QED  BY <2>4, <3>2, <3>3, WriteEndsFile DEF Finished, Kept, Holds
  <2> QED  BY <1>2, <2>1, <2>2, <2>3, <2>4, WritesEntries DEF AckInv, AckKept, Kept
<1> QED  BY <1>1, <1>2, CalmOrWrites

\* An entry whose append returned is in a file that is read until it is purged or has been
\* kept for the retention: no name is taken twice, a raw file goes only once its whole copy
\* is there, and no file is older than an entry in it (next_rotation_target,
\* compress_rotated_file, sweep_retention).
THEOREM AuditAcked ==
  ASSUME Distinct, Retain \in Nat
  PROVE  Spec => []AckKept
<1>1. Init => AckInv
  BY DEF Init, AckInv, Numbered, LinesNumbered, FilesYoung, Young, CopiesHold, AckKept, Busy, Holds
<1>2. IInv /\ IInv' /\ DateInv /\ AckInv /\ [Next]_vars => AckInv'
  BY NextAcks DEF DateInv
<1>3. AckInv => AckKept
  BY DEF AckInv
<1> QED  BY <1>1, <1>2, <1>3, AuditWriters, AuditDates, PTL DEF Spec

-----------------------------------------------------------------------------
(* While nobody has died.                                                   *)

\* Only the line, or the header, that is being written is not whole.
CutHeld ==
  /\ \A r \in rotated : r.file.head # "cut" /\ \A i \in DOMAIN r.file.lines : r.file.lines[i].state # "torn"
  /\ active # NoFile /\ active.head = "cut" => \E p \in Proc : at[p] = "header"
  /\ active # NoFile => \A i \in DOMAIN active.lines :
       active.lines[i].state = "torn" => i = Len(active.lines) /\ \E p \in Proc : at[p] = "writing"

\* A name has one file, but for the one that is being compressed.
AtSlot(r, p) == r.day = turn[p].day /\ r.n = turn[p].n
\* Two files of one name.
Twins(r, s) == r.day = s.day /\ r.n = s.n
NamesOnce ==
  /\ \A r, s \in rotated : Twins(r, s) /\ r.form = s.form => r = s
  /\ \A r, s \in rotated : Twins(r, s) /\ r.form # s.form =>
       \E p \in Proc : at[p] \in {"compressing", "unlink"} /\ AtSlot(r, p)
  /\ \A r \in rotated : r.form = "part" => \E p \in Proc : at[p] = "compressing" /\ AtSlot(r, p)
  /\ \A p \in Proc, r \in rotated : AtSlot(r, p) =>
       /\ at[p] = "compress" => r.form = "raw"
       /\ at[p] = "compressing" => r.form \in {"raw", "part"}
       /\ at[p] = "unlink" => r.form \in {"raw", "gz"}

\* Of a run without a death.
QuietInv == deaths \in Nat /\ (deaths = 0 => CutHeld /\ NamesOnce)

\* What happens while nobody dies.
Quiet(p) ==
  \/ EnterVault(p) \/ EnterEncrypted(p) \/ EnterPlain(p) \/ Rename(p) \/ StepFails(p) \/ Compress(p)
  \/ Compressed(p) \/ CompressFails(p) \/ UnlinkRaw(p) \/ Sweep(p) \/ Exit(p)

\* A step at the end of which nobody has died.
LEMMA QuietSteps ==
  ASSUME deaths \in Nat, [Next]_vars
  PROVE  /\ deaths' \in Nat
         /\ deaths' = 0 => deaths = 0 /\ (WorldStep \/ \E p \in Proc : Quiet(p) \/ Writes(p))
<1>1. ASSUME NEW p \in Proc, Die(p) PROVE deaths' = deaths + 1
  BY <1>1 DEF Die
<1>2. CASE WorldStep
  BY <1>2
  DEF WorldStep, InitVault, PrepareReset, FinishReset, Midnight, Purge, MakeEncrypted, MakePlain,
      FallBack, Submit, vars, tally
<1>3. ASSUME NEW p \in Proc, Quiet(p) PROVE deaths' = deaths
  BY <1>3
  DEF Quiet, EnterVault, EnterEncrypted, EnterPlain, Rename, StepFails, Compress, Compressed,
      CompressFails, UnlinkRaw, Sweep, Exit, tally
<1>4. ASSUME NEW p \in Proc, Writes(p) PROVE deaths' = deaths
  BY <1>4 DEF Writes, Create, WriteHeader, HeaderFails, WriteSome, WriteRest, WriteFails, tally
<1>5. WorldStep \/ \E p \in Proc : Quiet(p) \/ Writes(p) \/ Die(p)
  BY DEF Next, Appends, WorldStep, Quiet, Writes
<1> QED  BY <1>1, <1>2, <1>3, <1>4, <1>5

\* Who is past the sidecar is alone there.
LEMMA Single ==
  ASSUME Distinct, IInv, NEW p \in Proc, at[p] \in Locked
  PROVE  sidecar = p /\ sidecar # None /\ \A q \in Proc : q # p => at[q] \notin Locked
BY Alone DEF IInv, Held, Distinct

\* Nobody leaves a line or a header as it is.
LEMMA QuietWriters ==
  ASSUME IInv, WorldStep \/ \E p \in Proc : Quiet(p)
  PROVE  CalmStep /\ \A q \in Proc : InHeader(q) => at'[q] = at[q]
<1>0. at \in [Proc -> Places]
  BY DEF IInv, Types
<1>1. CASE WorldStep
  BY <1>0, <1>1
  DEF CalmStep, WorldStep, InitVault, PrepareReset, FinishReset, Midnight, Purge, MakeEncrypted,
      MakePlain, FallBack, Submit, Submits, vars, stepVars, InHeader, Held, IInv
<1>2. ASSUME NEW p \in Proc, Quiet(p) PROVE CalmStep /\ \A q \in Proc : InHeader(q) => at'[q] = at[q]
  <2>1. EarlyStep(p)
    BY <1>2 DEF Quiet, EarlyStep, Exit
  <2>2. at[p] \notin {"header", "writing"} /\ \E place \in Places : at' = [at EXCEPT ![p] = place]
    BY <1>2
    DEF Quiet, EnterVault, EnterEncrypted, EnterPlain, Rename, StepFails, Compress, Compressed,
        CompressFails, UnlinkRaw, Sweep, Exit, Forgets, Leaves, Goes, Turns, Places
  <2> QED  BY <1>0, <2>1, <2>2 DEF CalmStep, InHeader
<1> QED  BY <1>1, <1>2

\* A log is renamed only when nobody is in it.
LEMMA CalmWhole ==
  ASSUME Distinct, IInv, CutHeld, WorldStep \/ \E p \in Proc : Quiet(p)
  PROVE  CutHeld'
<1>0. Calm /\ \A q \in Proc : InHeader(q) => at'[q] = at[q]
  BY CalmSteps, QuietWriters
<1>1. ASSUME NEW r \in rotated'
      PROVE  r.file.head # "cut" /\ \A i \in DOMAIN r.file.lines : r.file.lines[i].state # "torn"
  <2>1. CASE \E s \in rotated : Kin(r, s)
    BY <2>1 DEF Kin, CutHeld
  <2>2. CASE GoneAside(r) /\ \A q \in Proc : ~InHeader(q)
    BY <2>2 DEF GoneAside, CutHeld, InHeader
  <2> QED  BY <1>0, <2>1, <2>2 DEF Calm
<1>2. active' = active \/ active' = NoFile
  BY <1>0 DEF Calm
<1> QED  BY <1>0, <1>1, <1>2 DEF CutHeld, InHeader

\* A write that ends, ends with a whole line or without it.
LEMMA WritesWhole ==
  ASSUME Distinct, IInv, IInv', CutHeld, NEW p \in Proc, Writes(p)
  PROVE  CutHeld'
<1>0. rotated' = rotated /\ at \in [Proc -> Places]
  BY WritesEntries DEF IInv, Types
<1>1. CASE Create(p)
  <2>1. active'.head = "none"
    BY <1>1 DEF Create, File
  <2> QED  BY <1>0, <1>1, <2>1, HeaderLines DEF CutHeld
<1>2. CASE WriteHeader(p) \/ HeaderFails(p)
  <2>1. active \in LogType /\ at[p] = "header"
    BY <1>2 DEF WriteHeader, HeaderFails, IInv, Placed, Filed, Fit
  <2>2. active'.head = "cut" => at'[p] = "header"
    BY <1>2, <2>1 DEF WriteHeader, HeaderFails, LogType
  <2> QED  BY <1>0, <1>2, <2>2, HeaderLines DEF CutHeld
<1>3. CASE WriteSome(p)
  <2>1. PICK l \in LineType : Added(p, l)
    BY <1>3, WriteSomeFile
  <2>2. at'[p] = "writing" /\ \A q \in Proc : at[q] \notin {"header", "writing"}
    BY <1>3, WritesEntries DEF InHeader
  <2>3. active # NoFile => active.head # "cut"
          /\ \A i \in DOMAIN active.lines : active.lines[i].state # "torn"
    BY <2>2 DEF CutHeld
  <2> QED  BY <1>0, <2>1, <2>2, <2>3 DEF Added, Before, CutHeld
<1>4. CASE WriteRest(p) \/ WriteFails(p)
  <2>1. at[p] = "writing" /\ \A q \in Proc : at[q] # "header"
    BY <1>4, WritesEntries DEF InHeader
  <2>2. active # NoFile /\ active'.head = active.head /\ active.head # "cut"
    BY <1>4, <2>1, WriteEndsFile DEF CutHeld
  <2>3. \A i \in DOMAIN active'.lines : active'.lines[i].state # "torn"
    BY <1>4, <2>2, WriteEndsFile DEF Finished, TakenBack, CutHeld
  <2> QED  BY <1>0, <2>2, <2>3 DEF CutHeld
<1> QED  BY <1>1, <1>2, <1>3, <1>4 DEF Writes

\* Fewer files, and the same rotation, if there is one.
LEMMA FewerNames ==
  ASSUME NamesOnce, rotated' \subseteq rotated,
         \A p \in Proc : at[p] \in {"compressing", "unlink"} => at'[p] = at[p],
         \A p \in Proc : at'[p] \in {"compress", "compressing", "unlink"} => at[p] = at'[p],
         \A p \in Proc : at[p] \in {"compress", "compressing", "unlink"} => turn'[p] = turn[p]
  PROVE  NamesOnce'
<1>1. \A r \in rotated', p \in Proc : at[p] \in {"compressing", "unlink"} /\ AtSlot(r, p)
        => at'[p] = at[p] /\ AtSlot(r, p)'
  BY DEF AtSlot
<1>2. ASSUME NEW r \in rotated', NEW s \in rotated', Twins(r, s)
      PROVE  /\ r.form = s.form => r = s
             /\ r.form # s.form => \E p \in Proc : at'[p] \in {"compressing", "unlink"} /\ AtSlot(r, p)'
  BY <1>1, <1>2 DEF NamesOnce
<1>3. ASSUME NEW r \in rotated', r.form = "part" PROVE \E p \in Proc : at'[p] = "compressing" /\ AtSlot(r, p)'
  BY <1>1, <1>3 DEF NamesOnce
<1>4. ASSUME NEW p \in Proc, NEW r \in rotated', AtSlot(r, p)'
      PROVE  /\ at'[p] = "compress" => r.form = "raw"
             /\ at'[p] = "compressing" => r.form \in {"raw", "part"}
             /\ at'[p] = "unlink" => r.form \in {"raw", "gz"}
  BY <1>4 DEF NamesOnce, AtSlot
<1> QED  BY <1>2, <1>3, <1>4 DEF NamesOnce, Twins

\* A file under a name that none has.
LEMMA NewName ==
  ASSUME IInv, Turning, NamesOnce, NEW day, rotated' = Renamed(day),
         \A p \in Proc : at[p] \notin {"compressing", "unlink"},
         \A p \in Proc : at'[p] \notin {"compressing", "unlink"},
         \A p \in Proc : at'[p] = "compress" => turn'[p].day = day /\ turn'[p].n = Slot(day)
  PROVE  NamesOnce'
<1> DEFINE new == Rotation(day, Slot(day), "raw", active)
<1>1. /\ rotated' = rotated \cup {new} /\ new.day = day /\ new.n = Slot(day) /\ new.form = "raw"
      /\ \A r \in rotated : ~(r.day = day /\ r.n = Slot(day))
  BY RenamedKeeps DEF Rotation
<1> HIDE DEF new
<1>2. ASSUME NEW r \in rotated', NEW s \in rotated', Twins(r, s) PROVE r = s
  BY <1>1, <1>2 DEF NamesOnce, Twins
<1>3. \A r \in rotated' : r.form # "part"
  BY <1>1 DEF NamesOnce
<1>4. ASSUME NEW p \in Proc, NEW r \in rotated', AtSlot(r, p)', at'[p] = "compress" PROVE r.form = "raw"
  BY <1>1, <1>4 DEF AtSlot
<1> QED  BY <1>2, <1>3, <1>4 DEF NamesOnce, Twins

\* The copy, under its own form; and then as the file that stays.
LEMMA CopyName ==
  ASSUME Distinct, IInv, NamesOnce, NEW p \in Proc, Compress(p), at'[p] = "compressing"
  PROVE  NamesOnce'
<1> DEFINE copy(x) == [x EXCEPT !.form = "part", !.file.mtime = today]
<1>0. at \in [Proc -> Places]
  BY DEF IInv, Types
<1>1. /\ turn' = turn /\ at[p] = "compress" /\ \A q \in Proc : q # p => at'[q] = at[q]
      /\ rotated' = rotated \cup {copy(x) : x \in Here(p, "raw")}
  BY <1>0 DEF Compress, Leaves, Goes
<1>2. ASSUME NEW x \in rotated
      PROVE  /\ copy(x).day = x.day /\ copy(x).n = x.n /\ copy(x).form = "part"
                  /\ copy(x).file.lines = x.file.lines
             /\ copy(x).file \in LogType /\ x.file \in LogType
  BY <1>2, CopyFields
<1> HIDE DEF copy
<1>3. \A q \in Proc : at[q] \notin {"compressing", "unlink"}
        /\ (q # p => at'[q] \notin {"compress", "compressing", "unlink"})
  BY <1>1, Single DEF Locked, Places
<1>4. \A r, s \in rotated : r.form # "part" /\ (Twins(r, s) => r = s) /\ (AtSlot(r, p) => r.form = "raw")
  BY <1>1, <1>3 DEF NamesOnce
<1>5. \A r \in rotated' : r \in rotated \/ \E x \in rotated : AtSlot(x, p) /\ r = copy(x)
  BY <1>1 DEF Here, AtSlot
<1>6. ASSUME NEW r \in rotated', NEW s \in rotated', Twins(r, s)
      PROVE  /\ r.form = s.form => r = s
             /\ r.form # s.form => AtSlot(r, p)
  <2>1. CASE r \in rotated /\ s \in rotated
    BY <1>4, <1>6, <2>1
  <2>2. CASE \E x \in rotated : AtSlot(x, p) /\ r = copy(x)
    <3>1. PICK x \in rotated : AtSlot(x, p) /\ r = copy(x)
      BY <2>2
    <3>2. AtSlot(r, p) /\ r.form = "part"
      BY <1>2, <3>1 DEF AtSlot
    <3>3. ASSUME s.form = "part" PROVE r = s
      <4>1. PICK y \in rotated : AtSlot(y, p) /\ s = copy(y)
        BY <1>4, <1>5, <3>3
      <4>2. x = y
        BY <1>4, <3>1, <4>1 DEF AtSlot, Twins
      <4> QED  BY <3>1, <4>1, <4>2
    <3> QED  BY <3>2, <3>3
  <2>3. CASE \E x \in rotated : AtSlot(x, p) /\ s = copy(x)
    <3>1. AtSlot(s, p) /\ s.form = "part"
      BY <1>2, <2>3 DEF AtSlot
    <3>2. AtSlot(r, p)
      BY <1>6, <3>1 DEF AtSlot, Twins
    <3> QED  BY <1>4, <2>2, <3>1, <3>2, <1>5
  <2> QED  BY <1>5, <2>1, <2>2, <2>3
<1>7. \A r \in rotated' : /\ r.form = "part" => AtSlot(r, p)
                          /\ AtSlot(r, p) => r.form \in {"raw", "part"}
  BY <1>2, <1>4, <1>5 DEF AtSlot
<1>8. \A r \in rotated' : AtSlot(r, p)' <=> AtSlot(r, p)
  BY <1>1 DEF AtSlot
<1> QED  BY <1>3, <1>6, <1>7, <1>8 DEF NamesOnce, Twins

\* The copy takes its last form; there was none under it.
LEMMA CopyStays ==
  ASSUME Distinct, IInv, NamesOnce, NEW p \in Proc, Compressed(p)
  PROVE  NamesOnce'
<1> DEFINE copy(x) == [x EXCEPT !.form = "gz"]
<1>0. at \in [Proc -> Places]
  BY DEF IInv, Types
<1>1. /\ turn' = turn /\ at[p] = "compressing" /\ at'[p] = "unlink" /\ \A q \in Proc : q # p => at'[q] = at[q]
      /\ rotated' = (rotated \ Here(p, "part")) \cup {copy(x) : x \in Here(p, "part")}
  BY <1>0 DEF Compressed, Goes
<1>2. ASSUME NEW x \in rotated
      PROVE  /\ copy(x).day = x.day /\ copy(x).n = x.n /\ copy(x).form = "gz"
                  /\ copy(x).file.lines = x.file.lines
             /\ copy(x).file \in LogType /\ x.file \in LogType
  BY <1>2, CopyFields
<1> HIDE DEF copy
<1>3. \A q \in Proc : q # p => at[q] \notin Locked
  BY <1>1, Single DEF Locked, Places
<1>4. \A r, s \in rotated : /\ r.form = "part" => AtSlot(r, p)
                            /\ Twins(r, s) /\ r.form = s.form => r = s
                            /\ Twins(r, s) /\ r.form # s.form => AtSlot(r, p)
                            /\ AtSlot(r, p) => r.form \in {"raw", "part"}
  BY <1>1, <1>3 DEF NamesOnce, Locked, Places
<1>5. \A r \in rotated' : \/ r \in rotated /\ r.form # "part" /\ (AtSlot(r, p) => r.form = "raw")
                          \/ \E x \in rotated : x.form = "part" /\ AtSlot(x, p) /\ r = copy(x)
                               /\ r.form = "gz" /\ AtSlot(r, p)
  BY <1>1, <1>2, <1>4 DEF Here, AtSlot
<1>6. ASSUME NEW r \in rotated', NEW s \in rotated', Twins(r, s)
      PROVE  /\ r.form = s.form => r = s
             /\ r.form # s.form => AtSlot(r, p)
  <2>0. AtSlot(r, p) <=> AtSlot(s, p)
    BY <1>6 DEF Twins, AtSlot
  <2>1. CASE r \in rotated /\ s \in rotated
    BY <1>4, <1>6, <2>1
  <2>2. CASE AtSlot(r, p)
    <3>1. ASSUME r.form = s.form PROVE r = s
      <4>1. CASE r.form = "raw"
        BY <1>4, <1>5, <1>6, <3>1, <4>1
      <4>2. CASE r.form = "gz"
        <5>1. PICK x \in rotated, y \in rotated : /\ x.form = "part" /\ AtSlot(x, p) /\ r = copy(x)
                                                   /\ y.form = "part" /\ AtSlot(y, p) /\ s = copy(y)
          BY <1>5, <2>0, <2>2, <3>1, <4>2
        <5>2. x = y
          BY <1>4, <5>1 DEF AtSlot, Twins
        <5> QED  BY <5>1, <5>2
      <4> QED  BY <1>5, <2>2, <4>1, <4>2
    <3> QED  BY <2>2, <3>1
  <2> QED  BY <1>5, <2>0, <2>1, <2>2
<1>7. \A r \in rotated' : /\ r.form # "part"
                          /\ AtSlot(r, p) => r.form \in {"raw", "gz"}
  BY <1>5
<1>8. \A r \in rotated' : AtSlot(r, p)' <=> AtSlot(r, p)
  BY <1>1 DEF AtSlot
<1>9. \A q \in Proc : q # p => at'[q] \notin {"compress", "compressing", "unlink"}
  BY <1>1, <1>3 DEF Locked, Places
<1> QED  BY <1>1, <1>6, <1>7, <1>8, <1>9 DEF NamesOnce, Twins

\* The half of a pair that goes.
LEMMA PairEnds ==
  ASSUME Distinct, IInv, NamesOnce, NEW p \in Proc, CompressFails(p) \/ UnlinkRaw(p)
  PROVE  NamesOnce'
<1>0. at \in [Proc -> Places]
  BY DEF IInv, Types
<1>1. /\ turn' = turn /\ at'[p] = "sweep" /\ \A q \in Proc : q # p => at'[q] = at[q]
      /\ \/ at[p] = "compressing" /\ rotated' = rotated \ Here(p, "part")
         \/ at[p] = "unlink" /\ rotated' = rotated \ Here(p, "raw")
  BY <1>0 DEF CompressFails, UnlinkRaw, Goes
<1>2. \A q \in Proc : q # p => at[q] \notin Locked
  BY <1>1, Single DEF Locked, Places
<1>3. \A q \in Proc : at'[q] \notin {"compress", "compressing", "unlink"}
  BY <1>1, <1>2 DEF Locked, Places
<1>4. ASSUME NEW r \in rotated', NEW s \in rotated', Twins(r, s) PROVE r = s
  <2>1. r \in rotated /\ s \in rotated
    BY <1>1
  <2>2. CASE r.form # s.form
    <3>1. AtSlot(r, p) /\ AtSlot(s, p)
      BY <1>2, <1>4, <2>1, <2>2 DEF NamesOnce, Locked, Places, Twins, AtSlot
    <3> QED  BY <1>1, <2>1, <2>2, <3>1 DEF NamesOnce, Here, AtSlot
  <2> QED  BY <1>4, <2>1, <2>2 DEF NamesOnce
<1>5. ASSUME NEW r \in rotated' PROVE r.form # "part"
  <2>1. r \in rotated
    BY <1>1
  <2>2. ASSUME r.form = "part" PROVE at[p] = "compressing" /\ AtSlot(r, p)
    BY <1>2, <2>1, <2>2 DEF NamesOnce, Locked, Places
  <2> QED  BY <1>1, <2>1, <2>2 DEF Here, AtSlot
<1> QED  BY <1>3, <1>4, <1>5 DEF NamesOnce, Twins

\* Every step but a write, while nobody dies.
LEMMA QuietNames ==
  ASSUME Distinct, IInv, Turning, NamesOnce, WorldStep \/ \E p \in Proc : Quiet(p)
  PROVE  NamesOnce'
<1> DEFINE Copying == {"compress", "compressing", "unlink"}
<1>0. at \in [Proc -> Places] /\ turn \in [Proc -> [day : Nat, n : Nat, on : Nat]]
  BY DEF IInv, Types, Turning
<1>1. CASE InitVault \/ PrepareReset \/ FinishReset \/ Midnight \/ UNCHANGED vars
             \/ \E cutoff \in 2..MaxDay : Purge(cutoff)
  <2>1. rotated' \subseteq rotated /\ at' = at /\ turn' = turn
    BY <1>1 DEF InitVault, PrepareReset, FinishReset, Midnight, Purge, vars, fileVars, stepVars
  <2> QED  BY <2>1, FewerNames
<1>2. ASSUME NEW p \in Proc, MakeEncrypted(p) \/ Submit(p) PROVE NamesOnce'
  <2>1. rotated' = rotated /\ turn' = turn
          /\ (at' = at \/ (at[p] = "idle" /\ at' = [at EXCEPT ![p] = "waiting"]))
    BY <1>2 DEF MakeEncrypted, Submit, Submits, fileVars, stepVars
  <2> QED  BY <1>0, <2>1, FewerNames
<1>3. ASSUME NEW p \in Proc, MakePlain(p) \/ FallBack(p) PROVE NamesOnce'
  <2>1. /\ sidecar = None /\ (rotated' = rotated \/ rotated' = Renamed(today)) /\ turn' = turn
        /\ at' = at \/ at' = [at EXCEPT ![p] = "waiting"]
    BY <1>3 DEF MakePlain, FallBack, Submits, StepAside, fileVars, stepVars
  <2>2. \A q \in Proc : at[q] \notin Copying /\ at'[q] \notin Copying
    BY <1>0, <2>1, Alone DEF IInv, Distinct, Locked, Places
  <2> QED  BY <2>1, <2>2, FewerNames, NewName
<1>4. ASSUME NEW p \in Proc, EnterVault(p) \/ EnterEncrypted(p) \/ EnterPlain(p) \/ StepFails(p)
               \/ Sweep(p) \/ Exit(p)
      PROVE  NamesOnce'
  <2>1. /\ rotated' \subseteq rotated /\ at[p] \notin Copying
        /\ \E place \in Places \ Copying : at' = [at EXCEPT ![p] = place]
        /\ turn' = turn \/ \E t : turn' = [turn EXCEPT ![p] = t]
    BY <1>4
    DEF EnterVault, EnterEncrypted, EnterPlain, StepFails, Sweep, Exit, Forgets, Leaves, Goes, Turns,
        fileVars, Places
  <2> QED  BY <1>0, <2>1, FewerNames
<1>5. ASSUME NEW p \in Proc, Rename(p) PROVE NamesOnce'
  <2>1. /\ at[p] = "rotate" /\ at' = [at EXCEPT ![p] = "compress"] /\ rotated' = Renamed(turn[p].day)
        /\ turn' = [turn EXCEPT ![p].n = Slot(turn[p].day)]
    BY <1>5 DEF Rename, Goes
  <2>2. \A q \in Proc : at[q] \notin Copying /\ at'[q] \notin Copying \ {"compress"}
          /\ (at'[q] = "compress" => q = p)
    BY <1>0, <2>1, Single DEF Locked, Places
  <2>3. turn'[p].day = turn[p].day /\ turn'[p].n = Slot(turn[p].day)
    BY <1>0, <2>1
  <2> QED  BY <2>1, <2>2, <2>3, NewName
<1>6. ASSUME NEW p \in Proc, Compress(p), at'[p] # "compressing" PROVE NamesOnce'
  <2>1. /\ rotated' = rotated /\ at[p] = "compress"
        /\ \E place \in {"idle", "sweep"} : at' = [at EXCEPT ![p] = place]
    BY <1>0, <1>6 DEF Compress, Leaves, Goes
  <2>2. \A q \in Proc : at[q] \notin {"compressing", "unlink"} /\ at'[q] \notin Copying
    BY <1>0, <2>1, Single DEF Locked, Places
  <2> QED  BY <2>1, <2>2 DEF NamesOnce
<1>7. CASE WorldStep
  BY <1>1, <1>2, <1>3, <1>7 DEF WorldStep
<1> QED  BY <1>4, <1>5, <1>6, <1>7, CopyName, CopyStays, PairEnds DEF Quiet

\* While nobody has died in an append, whoever takes the lock finds whole files, each once:
\* what fails takes back what it began, and a copy is there under another form only while
\* its maker holds the lock (_write_all, compress_rotated_file).
THEOREM AuditQuiet ==
  ASSUME Distinct
  PROVE  Spec => []QuietIsWhole
<1>1. Init => QuietInv
  BY DEF Init, QuietInv, CutHeld, NamesOnce
<1>2. IInv /\ IInv' /\ DateInv /\ QuietInv /\ [Next]_vars => QuietInv'
  <2> SUFFICES ASSUME IInv, IInv', Turning, QuietInv, [Next]_vars, deaths' = 0
               PROVE  CutHeld' /\ NamesOnce'
    BY QuietSteps DEF DateInv, QuietInv
  <2>1. CutHeld /\ NamesOnce /\ (WorldStep \/ \E p \in Proc : Quiet(p) \/ Writes(p))
    BY QuietSteps DEF QuietInv
  <2>2. ASSUME NEW p \in Proc, Writes(p) PROVE CutHeld' /\ NamesOnce'
    <3>1. /\ rotated' = rotated /\ \A q \in Proc : /\ at[q] \notin {"compress", "compressing", "unlink"}
                                                  /\ at'[q] \notin {"compress", "compressing", "unlink"}
      BY <2>2, WritesAlone, WritesEntries DEF Writes, Locked, Places
    <3> QED  BY <2>1, <2>2, <3>1, WritesWhole, FewerNames
  <2> QED  BY <2>1, <2>2, CalmWhole, QuietNames
<1>3. IInv /\ QuietInv => QuietIsWhole
  <2> SUFFICES ASSUME IInv, QuietInv, sidecar = None, deaths = 0
               PROVE  /\ \A f \in Files : f.head # "cut" /\ ~Torn(f)
                      /\ \A r, s \in rotated : r.form # "part" /\ (<<r.day, r.n>> = <<s.day, s.n>> => r = s)
    BY DEF QuietIsWhole
  <2>1. \A p \in Proc : at[p] \notin {"header", "writing", "compressing", "unlink"}
    BY Alone DEF IInv, Distinct, Locked, Places
  <2>2. ASSUME NEW f \in Files PROVE f.head # "cut" /\ ~Torn(f)
    <3>1. f.head # "cut" /\ \A i \in DOMAIN f.lines : f.lines[i].state # "torn"
      BY <2>1 DEF Files, QuietInv, CutHeld
    <3>2. f.lines \in Seq(LineType)
      BY DEF Files, IInv, Filed, Fit, LogType
    <3>3. f.lines # <<>> => Len(f.lines) \in DOMAIN f.lines
      BY <3>2
    <3> QED  BY <3>1, <3>3 DEF Torn
  <2> QED  BY <2>1, <2>2 DEF QuietInv, NamesOnce, Twins
<1> QED  BY <1>1, <1>2, <1>3, AuditWriters, AuditDates, PTL DEF Spec

=============================================================================
