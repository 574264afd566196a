--------------------------- MODULE DatabaseProofs ----------------------------
(***************************************************************************)
(* The databases: their conversion and its recovery (DbMigration), and the *)
(* handles a runtime has on them (DbConnection).                           *)
(*                                                                         *)
(* Admission, originals, commits and the refinement of DbHome, for every   *)
(* set of databases, every publication mode and any number of crashes:     *)
(* IInv is inductive, and EInv relative to it, one lemma per action and    *)
(* one step per conjunct.                                                  *)
(*                                                                         *)
(* HandlesAccounted, for any finite set of threads and any handles: HInv   *)
(* is inductive. Each open native handle has somebody who will close it.   *)
(***************************************************************************)
EXTENDS DbMigration, DbConnection, FiniteSetTheorems, TLAPS

USE DEF fileVars, stageVars, asideVars, recordVars, procVars, otherVars, ghostVars

\* A plain start.
LEMMA AdmitPlainPreserves ==
  ASSUME IInv, AdmitPlain
  PROVE  IInv'
<1>1. TypeOK'
  BY NoDbAssumption, CrashAssumption, PublicationAssumption
  DEF IInv, TypeOK, Phases, Pcs, FilePcs, JournalType, AdmitPlain, Journalled
<1>2. StepsFollowJournal'
  BY NoDbAssumption
  DEF IInv, TypeOK, StepsFollowJournal, FilePcs, Unjournalled, Adopting, AdmitPlain, Journalled
<1>3. AdmissionFollowsMarker'
  BY NoDbAssumption DEF IInv, TypeOK, AdmissionFollowsMarker, FilePcs, AdmitPlain, Journalled
<1>4. JournalCovers'
  BY NoDbAssumption
  DEF IInv, TypeOK, JournalCovers, FilePcs, Unjournalled, Target, AdmitPlain, Journalled
<1>5. SurvivorsKept'
  BY NoDbAssumption
  DEF IInv, TypeOK, SurvivorsKept, FilePcs, ArmedPcs, SwapPcs, EndPcs, Target, AdmitPlain, Journalled
<1>6. SwapProgress'
  BY NoDbAssumption
  DEF IInv, TypeOK, SwapProgress, FilePcs, ArmedPcs, SwapPcs, EndPcs, AdmitPlain, Journalled
<1> QED  BY <1>1, <1>2, <1>3, <1>4, <1>5, <1>6 DEF IInv

\* An encrypted start.
LEMMA AdmitEncryptedPreserves ==
  ASSUME IInv, AdmitEncrypted
  PROVE  IInv'
<1>1. TypeOK'
  BY NoDbAssumption, CrashAssumption, PublicationAssumption
  DEF IInv, TypeOK, Phases, Pcs, FilePcs, JournalType, AdmitEncrypted, Journalled
<1>2. StepsFollowJournal'
  BY NoDbAssumption
  DEF IInv, TypeOK, StepsFollowJournal, FilePcs, Unjournalled, Adopting, AdmitEncrypted, Journalled
<1>3. AdmissionFollowsMarker'
  BY NoDbAssumption DEF IInv, TypeOK, AdmissionFollowsMarker, FilePcs, AdmitEncrypted, Journalled
<1>4. JournalCovers'
  BY NoDbAssumption
  DEF IInv, TypeOK, JournalCovers, FilePcs, Unjournalled, Target, AdmitEncrypted, Journalled
<1>5. SurvivorsKept'
  BY NoDbAssumption
  DEF IInv, TypeOK, SurvivorsKept, FilePcs, ArmedPcs, SwapPcs, EndPcs, Target, AdmitEncrypted, Journalled
<1>6. SwapProgress'
  BY NoDbAssumption
  DEF IInv, TypeOK, SwapProgress, FilePcs, ArmedPcs, SwapPcs, EndPcs, AdmitEncrypted, Journalled
<1> QED  BY <1>1, <1>2, <1>3, <1>4, <1>5, <1>6 DEF IInv

\* A write of an admitted runtime.
LEMMA RuntimeCommitPreserves ==
  ASSUME IInv, NEW k \in {"plain", "enc"}, NEW d \in Db, RuntimeCommit(k, d)
  PROVE  IInv'
<1>1. TypeOK'
  BY NoDbAssumption, CrashAssumption, PublicationAssumption
  DEF IInv, TypeOK, Phases, Pcs, FilePcs, JournalType, RuntimeCommit
<1>2. StepsFollowJournal'
  BY NoDbAssumption DEF IInv, TypeOK, StepsFollowJournal, FilePcs, Unjournalled, Adopting, RuntimeCommit
<1>3. AdmissionFollowsMarker'
  BY NoDbAssumption DEF IInv, TypeOK, AdmissionFollowsMarker, FilePcs, RuntimeCommit
<1>4. JournalCovers'
  BY NoDbAssumption
  DEF IInv, TypeOK, JournalCovers, AdmissionFollowsMarker, FilePcs, Unjournalled, Target, RuntimeCommit
<1>5. SurvivorsKept'
  BY NoDbAssumption
  DEF IInv, TypeOK, SurvivorsKept, FilePcs, ArmedPcs, SwapPcs, EndPcs, Target, RuntimeCommit
<1>6. SwapProgress'
  BY NoDbAssumption
  DEF IInv, TypeOK, SwapProgress, AdmissionFollowsMarker, FilePcs, ArmedPcs, SwapPcs, EndPcs,
      RuntimeCommit
<1> QED  BY <1>1, <1>2, <1>3, <1>4, <1>5, <1>6 DEF IInv

\* A runtime stops.
LEMMA RuntimeStopPreserves ==
  ASSUME IInv, NEW k \in {"plain", "enc"}, RuntimeStop(k)
  PROVE  IInv'
<1>1. TypeOK'
  BY NoDbAssumption, CrashAssumption, PublicationAssumption
  DEF IInv, TypeOK, Phases, Pcs, FilePcs, JournalType, RuntimeStop
<1>2. StepsFollowJournal'
  BY NoDbAssumption DEF IInv, TypeOK, StepsFollowJournal, FilePcs, Unjournalled, Adopting, RuntimeStop
<1>3. AdmissionFollowsMarker'
  BY NoDbAssumption DEF IInv, TypeOK, AdmissionFollowsMarker, FilePcs, RuntimeStop
<1>4. JournalCovers'
  BY NoDbAssumption DEF IInv, TypeOK, JournalCovers, FilePcs, Unjournalled, Target, RuntimeStop
<1>5. SurvivorsKept'
  BY NoDbAssumption
  DEF IInv, TypeOK, SurvivorsKept, FilePcs, ArmedPcs, SwapPcs, EndPcs, Target, RuntimeStop
<1>6. SwapProgress'
  BY NoDbAssumption DEF IInv, TypeOK, SwapProgress, FilePcs, ArmedPcs, SwapPcs, EndPcs, RuntimeStop
<1> QED  BY <1>1, <1>2, <1>3, <1>4, <1>5, <1>6 DEF IInv

\* An intent is scheduled.
LEMMA SchedulePreserves ==
  ASSUME IInv, Schedule
  PROVE  IInv'
<1>1. TypeOK'
  BY NoDbAssumption, CrashAssumption, PublicationAssumption
  DEF IInv, TypeOK, Phases, Pcs, FilePcs, JournalType, Schedule
<1>2. StepsFollowJournal'
  BY NoDbAssumption DEF IInv, TypeOK, StepsFollowJournal, FilePcs, Unjournalled, Adopting, Schedule
<1>3. AdmissionFollowsMarker'
  BY NoDbAssumption DEF IInv, TypeOK, AdmissionFollowsMarker, FilePcs, Schedule
<1>4. JournalCovers'
  BY NoDbAssumption DEF IInv, TypeOK, JournalCovers, FilePcs, Unjournalled, Target, Schedule
<1>5. SurvivorsKept'
  BY NoDbAssumption
  DEF IInv, TypeOK, SurvivorsKept, FilePcs, ArmedPcs, SwapPcs, EndPcs, Target, Schedule
<1>6. SwapProgress'
  BY NoDbAssumption DEF IInv, TypeOK, SwapProgress, FilePcs, ArmedPcs, SwapPcs, EndPcs, Schedule
<1> QED  BY <1>1, <1>2, <1>3, <1>4, <1>5, <1>6 DEF IInv

\* An intent is withdrawn.
LEMMA UnschedulePreserves ==
  ASSUME IInv, Unschedule
  PROVE  IInv'
<1>1. TypeOK'
  BY NoDbAssumption, CrashAssumption, PublicationAssumption
  DEF IInv, TypeOK, Phases, Pcs, FilePcs, JournalType, Unschedule, Journalled
<1>2. StepsFollowJournal'
  BY NoDbAssumption
  DEF IInv, TypeOK, StepsFollowJournal, FilePcs, Unjournalled, Adopting, Unschedule, Journalled
<1>3. AdmissionFollowsMarker'
  BY NoDbAssumption DEF IInv, TypeOK, AdmissionFollowsMarker, FilePcs, Unschedule, Journalled
<1>4. JournalCovers'
  BY NoDbAssumption
  DEF IInv, TypeOK, JournalCovers, FilePcs, Unjournalled, Target, Unschedule, Journalled
<1>5. SurvivorsKept'
  BY NoDbAssumption
  DEF IInv, TypeOK, SurvivorsKept, FilePcs, ArmedPcs, SwapPcs, EndPcs, Target, Unschedule, Journalled
<1>6. SwapProgress'
  BY NoDbAssumption
  DEF IInv, TypeOK, SwapProgress, FilePcs, ArmedPcs, SwapPcs, EndPcs, Unschedule, Journalled
<1> QED  BY <1>1, <1>2, <1>3, <1>4, <1>5, <1>6 DEF IInv

\* A process without the lease opens a database.
LEMMA ForeignOpenPreserves ==
  ASSUME IInv, NEW d \in Db, ForeignOpen(d)
  PROVE  IInv'
<1>1. TypeOK'
  BY NoDbAssumption, CrashAssumption, PublicationAssumption
  DEF IInv, TypeOK, Phases, Pcs, FilePcs, JournalType, ForeignOpen
<1>2. StepsFollowJournal'
  BY NoDbAssumption DEF IInv, TypeOK, StepsFollowJournal, FilePcs, Unjournalled, Adopting, ForeignOpen
<1>3. AdmissionFollowsMarker'
  BY NoDbAssumption DEF IInv, TypeOK, AdmissionFollowsMarker, FilePcs, ForeignOpen
<1>4. JournalCovers'
  BY NoDbAssumption DEF IInv, TypeOK, JournalCovers, FilePcs, Unjournalled, Target, ForeignOpen
<1>5. SurvivorsKept'
  BY NoDbAssumption
  DEF IInv, TypeOK, SurvivorsKept, FilePcs, ArmedPcs, SwapPcs, EndPcs, Target, ForeignOpen
<1>6. SwapProgress'
  BY NoDbAssumption DEF IInv, TypeOK, SwapProgress, FilePcs, ArmedPcs, SwapPcs, EndPcs, ForeignOpen
<1> QED  BY <1>1, <1>2, <1>3, <1>4, <1>5, <1>6 DEF IInv

\* It commits to the file at the path.
LEMMA ForeignCommitPreserves ==
  ASSUME IInv, NEW d \in Db, ForeignCommit(d)
  PROVE  IInv'
<1>1. TypeOK'
  BY NoDbAssumption, CrashAssumption, PublicationAssumption
  DEF IInv, TypeOK, Phases, Pcs, FilePcs, JournalType, ForeignCommit
<1>2. StepsFollowJournal'
  BY NoDbAssumption DEF IInv, TypeOK, StepsFollowJournal, FilePcs, Unjournalled, Adopting, ForeignCommit
<1>3. AdmissionFollowsMarker'
  BY NoDbAssumption DEF IInv, TypeOK, AdmissionFollowsMarker, FilePcs, ForeignCommit
<1>4. JournalCovers'
  BY NoDbAssumption DEF IInv, TypeOK, JournalCovers, FilePcs, Unjournalled, Target, ForeignCommit
<1>5. SurvivorsKept'
  BY NoDbAssumption
  DEF IInv, TypeOK, SurvivorsKept, FilePcs, ArmedPcs, SwapPcs, EndPcs, Target, ForeignCommit
<1>6. SwapProgress'
  BY NoDbAssumption DEF IInv, TypeOK, SwapProgress, FilePcs, ArmedPcs, SwapPcs, EndPcs, ForeignCommit
<1> QED  BY <1>1, <1>2, <1>3, <1>4, <1>5, <1>6 DEF IInv

\* It commits to a displaced file.
LEMMA ForeignCommitOldPreserves ==
  ASSUME IInv, NEW d \in Db, ForeignCommitOld(d)
  PROVE  IInv'
<1>1. TypeOK'
  BY NoDbAssumption, CrashAssumption, PublicationAssumption
  DEF IInv, TypeOK, Phases, Pcs, FilePcs, JournalType, ForeignCommitOld
<1>2. StepsFollowJournal'
  BY NoDbAssumption
  DEF IInv, TypeOK, StepsFollowJournal, FilePcs, Unjournalled, Adopting, ForeignCommitOld
<1>3. AdmissionFollowsMarker'
  BY NoDbAssumption DEF IInv, TypeOK, AdmissionFollowsMarker, FilePcs, ForeignCommitOld
<1>4. JournalCovers'
  BY NoDbAssumption DEF IInv, TypeOK, JournalCovers, FilePcs, Unjournalled, Target, ForeignCommitOld
<1>5. SurvivorsKept'
  BY NoDbAssumption
  DEF IInv, TypeOK, SurvivorsKept, FilePcs, ArmedPcs, SwapPcs, EndPcs, Target, ForeignCommitOld
<1>6. SwapProgress'
  BY NoDbAssumption DEF IInv, TypeOK, SwapProgress, FilePcs, ArmedPcs, SwapPcs, EndPcs, ForeignCommitOld
<1> QED  BY <1>1, <1>2, <1>3, <1>4, <1>5, <1>6 DEF IInv

\* It closes.
LEMMA ForeignClosePreserves ==
  ASSUME IInv, NEW d \in Db, ForeignClose(d)
  PROVE  IInv'
<1>1. TypeOK'
  BY NoDbAssumption, CrashAssumption, PublicationAssumption
  DEF IInv, TypeOK, Phases, Pcs, FilePcs, JournalType, ForeignClose
<1>2. StepsFollowJournal'
  BY NoDbAssumption DEF IInv, TypeOK, StepsFollowJournal, FilePcs, Unjournalled, Adopting, ForeignClose
<1>3. AdmissionFollowsMarker'
  BY NoDbAssumption DEF IInv, TypeOK, AdmissionFollowsMarker, FilePcs, ForeignClose
<1>4. JournalCovers'
  BY NoDbAssumption DEF IInv, TypeOK, JournalCovers, FilePcs, Unjournalled, Target, ForeignClose
<1>5. SurvivorsKept'
  BY NoDbAssumption
  DEF IInv, TypeOK, SurvivorsKept, FilePcs, ArmedPcs, SwapPcs, EndPcs, Target, ForeignClose
<1>6. SwapProgress'
  BY NoDbAssumption DEF IInv, TypeOK, SwapProgress, FilePcs, ArmedPcs, SwapPcs, EndPcs, ForeignClose
<1> QED  BY <1>1, <1>2, <1>3, <1>4, <1>5, <1>6 DEF IInv

\* It creates a file in the gap of a two-step publication.
LEMMA ForeignCreatePreserves ==
  ASSUME IInv, NEW d \in Db, ForeignCreate(d)
  PROVE  IInv'
<1>1. TypeOK'
  BY NoDbAssumption, CrashAssumption, PublicationAssumption
  DEF IInv, TypeOK, Phases, Pcs, FilePcs, JournalType, ForeignCreate
<1>2. StepsFollowJournal'
  BY NoDbAssumption DEF IInv, TypeOK, StepsFollowJournal, FilePcs, Unjournalled, Adopting, ForeignCreate
<1>3. AdmissionFollowsMarker'
  BY NoDbAssumption
  DEF IInv, TypeOK, AdmissionFollowsMarker, JournalCovers, FilePcs, Unjournalled, Target, ForeignCreate
<1>4. JournalCovers'
  BY NoDbAssumption DEF IInv, TypeOK, JournalCovers, FilePcs, Unjournalled, Target, ForeignCreate
<1>5. SurvivorsKept'
  BY NoDbAssumption
  DEF IInv, TypeOK, SurvivorsKept, JournalCovers, FilePcs, ArmedPcs, SwapPcs, EndPcs, Target,
      Unjournalled, ForeignCreate
<1>6. SwapProgress'
  BY NoDbAssumption
  DEF IInv, TypeOK, SwapProgress, JournalCovers, StepsFollowJournal, FilePcs, ArmedPcs, SwapPcs, EndPcs,
      Unjournalled, Target, Adopting, ForeignCreate
<1> QED  BY <1>1, <1>2, <1>3, <1>4, <1>5, <1>6 DEF IInv

\* _convert up to discovery.
LEMMA StartConvertPreserves ==
  ASSUME IInv, NEW dir \in {"encrypt", "decrypt"}, StartConvert(dir)
  PROVE  IInv'
<1>1. TypeOK'
  BY NoDbAssumption, CrashAssumption, PublicationAssumption
  DEF IInv, TypeOK, Phases, Pcs, FilePcs, JournalType, StartConvert, Exclusive, Journalled, NoOrphan,
      Goto, Source
<1>2. StepsFollowJournal'
  BY NoDbAssumption
  DEF IInv, TypeOK, StepsFollowJournal, FilePcs, Unjournalled, Adopting, StartConvert, Exclusive,
      Journalled, NoOrphan, Goto, Source
<1>3. AdmissionFollowsMarker'
  BY NoDbAssumption
  DEF IInv, TypeOK, AdmissionFollowsMarker, FilePcs, StartConvert, Exclusive, Journalled, NoOrphan, Goto,
      Source
<1>4. JournalCovers'
  BY NoDbAssumption
  DEF IInv, TypeOK, JournalCovers, FilePcs, Unjournalled, Target, StartConvert, Exclusive, Journalled,
      NoOrphan, Goto, Source
<1>5. SurvivorsKept'
  BY NoDbAssumption
  DEF IInv, TypeOK, SurvivorsKept, FilePcs, ArmedPcs, SwapPcs, EndPcs, Target, StartConvert, Exclusive,
      Journalled, NoOrphan, Goto, Source
<1>6. SwapProgress'
  BY NoDbAssumption
  DEF IInv, TypeOK, SwapProgress, FilePcs, ArmedPcs, SwapPcs, EndPcs, StartConvert, Exclusive,
      Journalled, NoOrphan, Goto, Source
<1> QED  BY <1>1, <1>2, <1>3, <1>4, <1>5, <1>6 DEF IInv

\* _checkpoint_source.
LEMMA CheckpointSourcePreserves ==
  ASSUME IInv, NEW d \in Db, CheckpointSource(d)
  PROVE  IInv'
<1>1. TypeOK'
  BY NoDbAssumption, CrashAssumption, PublicationAssumption
  DEF IInv, TypeOK, Phases, Pcs, FilePcs, JournalType, CheckpointSource
<1>2. StepsFollowJournal'
  BY NoDbAssumption
  DEF IInv, TypeOK, StepsFollowJournal, FilePcs, Unjournalled, Adopting, CheckpointSource
<1>3. AdmissionFollowsMarker'
  BY NoDbAssumption DEF IInv, TypeOK, AdmissionFollowsMarker, FilePcs, CheckpointSource
<1>4. JournalCovers'
  BY NoDbAssumption DEF IInv, TypeOK, JournalCovers, FilePcs, Unjournalled, Target, CheckpointSource
<1>5. SurvivorsKept'
  BY NoDbAssumption
  DEF IInv, TypeOK, SurvivorsKept, FilePcs, ArmedPcs, SwapPcs, EndPcs, Target, CheckpointSource
<1>6. SwapProgress'
  BY NoDbAssumption DEF IInv, TypeOK, SwapProgress, FilePcs, ArmedPcs, SwapPcs, EndPcs, CheckpointSource
<1> QED  BY <1>1, <1>2, <1>3, <1>4, <1>5, <1>6 DEF IInv

\* The journal of a conversion becomes durable.
LEMMA SavePreparedPreserves ==
  ASSUME IInv, SavePrepared
  PROVE  IInv'
<1>1. TypeOK'
  BY NoDbAssumption, CrashAssumption, PublicationAssumption
  DEF IInv, TypeOK, Phases, Pcs, FilePcs, JournalType, SavePrepared, Record, Goto, Present
<1>2. StepsFollowJournal'
  BY NoDbAssumption
  DEF IInv, TypeOK, StepsFollowJournal, FilePcs, Unjournalled, Adopting, SavePrepared, Record, Goto,
      Present
<1>3. AdmissionFollowsMarker'
  BY NoDbAssumption
  DEF IInv, TypeOK, AdmissionFollowsMarker, StepsFollowJournal, FilePcs, Unjournalled, Adopting,
      SavePrepared, Record, Goto, Present
<1>4. JournalCovers'
  BY NoDbAssumption
  DEF IInv, TypeOK, JournalCovers, StepsFollowJournal, FilePcs, Unjournalled, Target, Adopting,
      SavePrepared, Record, Goto, Present, Source
<1>5. SurvivorsKept'
  BY NoDbAssumption
  DEF IInv, TypeOK, SurvivorsKept, FilePcs, ArmedPcs, SwapPcs, EndPcs, Target, SavePrepared, Record,
      Goto, Present
<1>6. SwapProgress'
  BY NoDbAssumption
  DEF IInv, TypeOK, SwapProgress, FilePcs, ArmedPcs, SwapPcs, EndPcs, SavePrepared, Record, Goto, Present
<1> QED  BY <1>1, <1>2, <1>3, <1>4, <1>5, <1>6 DEF IInv

\* resume finds a journal.
LEMMA ResumePreserves ==
  ASSUME IInv, Resume
  PROVE  IInv'
<1>1. TypeOK'
  BY NoDbAssumption, CrashAssumption, PublicationAssumption
  DEF IInv, TypeOK, Phases, Pcs, FilePcs, JournalType, Resume, Exclusive, Journalled, Goto
<1>2. StepsFollowJournal'
  BY NoDbAssumption
  DEF IInv, TypeOK, StepsFollowJournal, Phases, Pcs, FilePcs, JournalType, Unjournalled, Adopting,
      Resume, Exclusive, Journalled, Goto
<1>3. AdmissionFollowsMarker'
  BY NoDbAssumption
  DEF IInv, TypeOK, AdmissionFollowsMarker, FilePcs, Resume, Exclusive, Journalled, Goto
<1>4. JournalCovers'
  BY NoDbAssumption
  DEF IInv, TypeOK, JournalCovers, FilePcs, Unjournalled, Target, Resume, Exclusive, Journalled, Goto
<1>5. SurvivorsKept'
  BY NoDbAssumption
  DEF IInv, TypeOK, SurvivorsKept, FilePcs, ArmedPcs, SwapPcs, EndPcs, Target, Resume, Exclusive,
      Journalled, Goto
<1>6. SwapProgress'
  BY NoDbAssumption
  DEF IInv, TypeOK, SwapProgress, FilePcs, ArmedPcs, SwapPcs, EndPcs, Resume, Exclusive, Journalled, Goto
<1> QED  BY <1>1, <1>2, <1>3, <1>4, <1>5, <1>6 DEF IInv

\* _check_inventory_binding.
LEMMA CheckBindingPreserves ==
  ASSUME IInv, CheckBinding
  PROVE  IInv'
<1>1. TypeOK'
  BY NoDbAssumption, CrashAssumption, PublicationAssumption
  DEF IInv, TypeOK, Phases, Pcs, FilePcs, JournalType, CheckBinding, Goto, BindingOK
<1>2. StepsFollowJournal'
  BY NoDbAssumption
  DEF IInv, TypeOK, StepsFollowJournal, FilePcs, Unjournalled, Adopting, CheckBinding, Goto, BindingOK
<1>3. AdmissionFollowsMarker'
  BY NoDbAssumption DEF IInv, TypeOK, AdmissionFollowsMarker, FilePcs, CheckBinding, Goto, BindingOK
<1>4. JournalCovers'
  BY NoDbAssumption
  DEF IInv, TypeOK, JournalCovers, FilePcs, Unjournalled, Target, CheckBinding, Goto, BindingOK
<1>5. SurvivorsKept'
  BY NoDbAssumption
  DEF IInv, TypeOK, SurvivorsKept, FilePcs, ArmedPcs, SwapPcs, EndPcs, Target, CheckBinding, Goto,
      BindingOK
<1>6. SwapProgress'
  BY NoDbAssumption
  DEF IInv, TypeOK, SwapProgress, FilePcs, ArmedPcs, SwapPcs, EndPcs, CheckBinding, Goto, BindingOK
<1> QED  BY <1>1, <1>2, <1>3, <1>4, <1>5, <1>6 DEF IInv

\* _reserve.
LEMMA ReserveStagingPreserves ==
  ASSUME IInv, NEW d \in Db, ReserveStaging(d)
  PROVE  IInv'
<1>1. TypeOK'
  BY NoDbAssumption, CrashAssumption, PublicationAssumption
  DEF IInv, TypeOK, Phases, Pcs, FilePcs, JournalType, ReserveStaging, Goto, Unprepared
<1>2. StepsFollowJournal'
  BY NoDbAssumption
  DEF IInv, TypeOK, StepsFollowJournal, FilePcs, Unjournalled, Adopting, ReserveStaging, Goto, Unprepared
<1>3. AdmissionFollowsMarker'
  BY NoDbAssumption DEF IInv, TypeOK, AdmissionFollowsMarker, FilePcs, ReserveStaging, Goto, Unprepared
<1>4. JournalCovers'
  BY NoDbAssumption
  DEF IInv, TypeOK, JournalCovers, FilePcs, Unjournalled, Target, ReserveStaging, Goto, Unprepared
<1>5. SurvivorsKept'
  BY NoDbAssumption
  DEF IInv, TypeOK, SurvivorsKept, FilePcs, ArmedPcs, SwapPcs, EndPcs, Target, ReserveStaging, Goto,
      Unprepared
<1>6. SwapProgress'
  BY NoDbAssumption
  DEF IInv, TypeOK, SwapProgress, FilePcs, ArmedPcs, SwapPcs, EndPcs, ReserveStaging, Goto, Unprepared
<1> QED  BY <1>1, <1>2, <1>3, <1>4, <1>5, <1>6 DEF IInv

\* The staging identity is recorded.
LEMMA SaveReservedPreserves ==
  ASSUME IInv, SaveReserved
  PROVE  IInv'
<1>1. TypeOK'
  BY NoDbAssumption, CrashAssumption, PublicationAssumption
  DEF IInv, TypeOK, Phases, Pcs, FilePcs, JournalType, SaveReserved, Goto
<1>2. StepsFollowJournal'
  BY NoDbAssumption
  DEF IInv, TypeOK, StepsFollowJournal, FilePcs, Unjournalled, Adopting, SaveReserved, Goto
<1>3. AdmissionFollowsMarker'
  BY NoDbAssumption DEF IInv, TypeOK, AdmissionFollowsMarker, FilePcs, SaveReserved, Goto
<1>4. JournalCovers'
  BY NoDbAssumption DEF IInv, TypeOK, JournalCovers, FilePcs, Unjournalled, Target, SaveReserved, Goto
<1>5. SurvivorsKept'
  BY NoDbAssumption
  DEF IInv, TypeOK, SurvivorsKept, FilePcs, ArmedPcs, SwapPcs, EndPcs, Target, SaveReserved, Goto
<1>6. SwapProgress'
  BY NoDbAssumption
  DEF IInv, TypeOK, SwapProgress, FilePcs, ArmedPcs, SwapPcs, EndPcs, SaveReserved, Goto
<1> QED  BY <1>1, <1>2, <1>3, <1>4, <1>5, <1>6 DEF IInv

\* prepare and prepare_plain.
LEMMA ExportPreserves ==
  ASSUME IInv, Export
  PROVE  IInv'
<1>1. TypeOK'
  BY NoDbAssumption, CrashAssumption, PublicationAssumption
  DEF IInv, TypeOK, Phases, Pcs, FilePcs, JournalType, Export, Goto
<1>2. StepsFollowJournal'
  BY NoDbAssumption DEF IInv, TypeOK, StepsFollowJournal, FilePcs, Unjournalled, Adopting, Export, Goto
<1>3. AdmissionFollowsMarker'
  BY NoDbAssumption DEF IInv, TypeOK, AdmissionFollowsMarker, FilePcs, Export, Goto
<1>4. JournalCovers'
  BY NoDbAssumption DEF IInv, TypeOK, JournalCovers, FilePcs, Unjournalled, Target, Export, Goto
<1>5. SurvivorsKept'
  BY NoDbAssumption
  DEF IInv, TypeOK, SurvivorsKept, FilePcs, ArmedPcs, SwapPcs, EndPcs, Target, Export, Goto
<1>6. SwapProgress'
  BY NoDbAssumption DEF IInv, TypeOK, SwapProgress, FilePcs, ArmedPcs, SwapPcs, EndPcs, Export, Goto
<1> QED  BY <1>1, <1>2, <1>3, <1>4, <1>5, <1>6 DEF IInv

\* An export becomes verified.
LEMMA SaveVerifiedPreserves ==
  ASSUME IInv, SaveVerified
  PROVE  IInv'
<1>1. TypeOK'
  BY NoDbAssumption, CrashAssumption, PublicationAssumption
  DEF IInv, TypeOK, Phases, Pcs, FilePcs, JournalType, SaveVerified, Goto, Rewritten
<1>2. StepsFollowJournal'
  BY NoDbAssumption
  DEF IInv, TypeOK, StepsFollowJournal, FilePcs, Unjournalled, Adopting, SaveVerified, Goto, Rewritten
<1>3. AdmissionFollowsMarker'
  BY NoDbAssumption DEF IInv, TypeOK, AdmissionFollowsMarker, FilePcs, SaveVerified, Goto, Rewritten
<1>4. JournalCovers'
  BY NoDbAssumption
  DEF IInv, TypeOK, JournalCovers, FilePcs, Unjournalled, Target, SaveVerified, Goto, Rewritten
<1>5. SurvivorsKept'
  BY NoDbAssumption
  DEF IInv, TypeOK, SurvivorsKept, FilePcs, ArmedPcs, SwapPcs, EndPcs, Target, SaveVerified, Goto,
      Rewritten
<1>6. SwapProgress'
  BY NoDbAssumption
  DEF IInv, TypeOK, SwapProgress, FilePcs, ArmedPcs, SwapPcs, EndPcs, SaveVerified, Goto, Rewritten
<1> QED  BY <1>1, <1>2, <1>3, <1>4, <1>5, <1>6 DEF IInv

\* _verify_survivors over the whole journal.
LEMMA VerifySurvivorsPreserves ==
  ASSUME IInv, VerifySurvivors
  PROVE  IInv'
<1>1. TypeOK'
  BY NoDbAssumption, CrashAssumption, PublicationAssumption
  DEF IInv, TypeOK, Phases, Pcs, FilePcs, JournalType, VerifySurvivors, Goto, SurvivorsOK, SurvivorOK
<1>2. StepsFollowJournal'
  BY NoDbAssumption
  DEF IInv, TypeOK, StepsFollowJournal, FilePcs, Unjournalled, Adopting, VerifySurvivors, Goto,
      SurvivorsOK, SurvivorOK
<1>3. AdmissionFollowsMarker'
  BY NoDbAssumption
  DEF IInv, TypeOK, AdmissionFollowsMarker, FilePcs, VerifySurvivors, Goto, SurvivorsOK, SurvivorOK
<1>4. JournalCovers'
  BY NoDbAssumption
  DEF IInv, TypeOK, JournalCovers, FilePcs, Unjournalled, Target, VerifySurvivors, Goto, SurvivorsOK,
      SurvivorOK
<1>5. SurvivorsKept'
  BY NoDbAssumption
  DEF IInv, TypeOK, SurvivorsKept, FilePcs, ArmedPcs, SwapPcs, EndPcs, Target, VerifySurvivors, Goto,
      SurvivorsOK, SurvivorOK
<1>6. SwapProgress'
  BY NoDbAssumption
  DEF IInv, TypeOK, SwapProgress, FilePcs, ArmedPcs, SwapPcs, EndPcs, VerifySurvivors, Goto, SurvivorsOK,
      SurvivorOK
<1> QED  BY <1>1, <1>2, <1>3, <1>4, <1>5, <1>6 DEF IInv

\* The marker is published or removed.
LEMMA ArmOrDisarmPreserves ==
  ASSUME IInv, ArmOrDisarm
  PROVE  IInv'
<1>1. TypeOK'
  BY NoDbAssumption, CrashAssumption, PublicationAssumption
  DEF IInv, TypeOK, Phases, Pcs, FilePcs, JournalType, ArmOrDisarm, Goto
<1>2. StepsFollowJournal'
  BY NoDbAssumption
  DEF IInv, TypeOK, StepsFollowJournal, FilePcs, Unjournalled, Adopting, ArmOrDisarm, Goto
<1>3. AdmissionFollowsMarker'
  BY NoDbAssumption
  DEF IInv, TypeOK, AdmissionFollowsMarker, StepsFollowJournal, FilePcs, Unjournalled, Adopting,
      ArmOrDisarm, Goto
<1>4. JournalCovers'
  BY NoDbAssumption DEF IInv, TypeOK, JournalCovers, FilePcs, Unjournalled, Target, ArmOrDisarm, Goto
<1>5. SurvivorsKept'
  BY NoDbAssumption
  DEF IInv, TypeOK, SurvivorsKept, FilePcs, ArmedPcs, SwapPcs, EndPcs, Target, ArmOrDisarm, Goto
<1>6. SwapProgress'
  BY NoDbAssumption
  DEF IInv, TypeOK, SwapProgress, FilePcs, ArmedPcs, SwapPcs, EndPcs, ArmOrDisarm, Goto
<1> QED  BY <1>1, <1>2, <1>3, <1>4, <1>5, <1>6 DEF IInv

\* Every entry becomes armed.
LEMMA SaveArmedPreserves ==
  ASSUME IInv, SaveArmed
  PROVE  IInv'
<1>1. TypeOK'
  BY NoDbAssumption, CrashAssumption, PublicationAssumption
  DEF IInv, TypeOK, Phases, Pcs, FilePcs, JournalType, SaveArmed, Goto, AllPhases, Rewritten
<1>2. StepsFollowJournal'
  BY NoDbAssumption
  DEF IInv, TypeOK, StepsFollowJournal, FilePcs, Unjournalled, Adopting, SaveArmed, Goto, AllPhases,
      Rewritten
<1>3. AdmissionFollowsMarker'
  BY NoDbAssumption
  DEF IInv, TypeOK, AdmissionFollowsMarker, FilePcs, SaveArmed, Goto, AllPhases, Rewritten
<1>4. JournalCovers'
  BY NoDbAssumption
  DEF IInv, TypeOK, JournalCovers, FilePcs, Unjournalled, Target, SaveArmed, Goto, AllPhases, Rewritten
<1>5. SurvivorsKept'
  BY NoDbAssumption
  DEF IInv, TypeOK, SurvivorsKept, FilePcs, ArmedPcs, SwapPcs, EndPcs, Target, SaveArmed, Goto,
      AllPhases, Rewritten
<1>6. SwapProgress'
  BY NoDbAssumption
  DEF IInv, TypeOK, SwapProgress, FilePcs, ArmedPcs, SwapPcs, EndPcs, SaveArmed, Goto, AllPhases,
      Rewritten
<1> QED  BY <1>1, <1>2, <1>3, <1>4, <1>5, <1>6 DEF IInv

\* Recovery meets a published file.
LEMMA SkipSwappedPreserves ==
  ASSUME IInv, NEW d \in Db, SkipSwapped(d)
  PROVE  IInv'
<1>1. TypeOK'
  BY NoDbAssumption, CrashAssumption, PublicationAssumption
  DEF IInv, TypeOK, Phases, Pcs, FilePcs, JournalType, SkipSwapped, Goto, AlreadySwapped
<1>2. StepsFollowJournal'
  BY NoDbAssumption
  DEF IInv, TypeOK, StepsFollowJournal, FilePcs, Unjournalled, Adopting, SkipSwapped, Goto,
      AlreadySwapped
<1>3. AdmissionFollowsMarker'
  BY NoDbAssumption DEF IInv, TypeOK, AdmissionFollowsMarker, FilePcs, SkipSwapped, Goto, AlreadySwapped
<1>4. JournalCovers'
  BY NoDbAssumption
  DEF IInv, TypeOK, JournalCovers, FilePcs, Unjournalled, Target, SkipSwapped, Goto, AlreadySwapped
<1>5. SurvivorsKept'
  BY NoDbAssumption
  DEF IInv, TypeOK, SurvivorsKept, FilePcs, ArmedPcs, SwapPcs, EndPcs, Target, SkipSwapped, Goto,
      AlreadySwapped
<1>6. SwapProgress'
  BY NoDbAssumption
  DEF IInv, TypeOK, SwapProgress, SurvivorsKept, FilePcs, ArmedPcs, SwapPcs, EndPcs, Target, SkipSwapped,
      Goto, AlreadySwapped
<1> QED  BY <1>1, <1>2, <1>3, <1>4, <1>5, <1>6 DEF IInv

\* The holder scan of a swap.
LEMMA ScanHoldersPreserves ==
  ASSUME IInv, NEW d \in Db, ScanHolders(d)
  PROVE  IInv'
<1>1. TypeOK'
  BY NoDbAssumption, CrashAssumption, PublicationAssumption
  DEF IInv, TypeOK, Phases, Pcs, FilePcs, JournalType, ScanHolders, Goto
<1>2. StepsFollowJournal'
  BY NoDbAssumption
  DEF IInv, TypeOK, StepsFollowJournal, FilePcs, Unjournalled, Adopting, ScanHolders, Goto
<1>3. AdmissionFollowsMarker'
  BY NoDbAssumption DEF IInv, TypeOK, AdmissionFollowsMarker, FilePcs, ScanHolders, Goto
<1>4. JournalCovers'
  BY NoDbAssumption DEF IInv, TypeOK, JournalCovers, FilePcs, Unjournalled, Target, ScanHolders, Goto
<1>5. SurvivorsKept'
  BY NoDbAssumption
  DEF IInv, TypeOK, SurvivorsKept, FilePcs, ArmedPcs, SwapPcs, EndPcs, Target, ScanHolders, Goto
<1>6. SwapProgress'
  BY NoDbAssumption
  DEF IInv, TypeOK, SwapProgress, FilePcs, ArmedPcs, SwapPcs, EndPcs, ScanHolders, Goto
<1> QED  BY <1>1, <1>2, <1>3, <1>4, <1>5, <1>6 DEF IInv

\* The sidecar proof of a swap.
LEMMA SettlePreserves ==
  ASSUME IInv, Settle
  PROVE  IInv'
<1>1. TypeOK'
  BY NoDbAssumption, CrashAssumption, PublicationAssumption
  DEF IInv, TypeOK, Phases, Pcs, FilePcs, JournalType, Settle, Goto
<1>2. StepsFollowJournal'
  BY NoDbAssumption DEF IInv, TypeOK, StepsFollowJournal, FilePcs, Unjournalled, Adopting, Settle, Goto
<1>3. AdmissionFollowsMarker'
  BY NoDbAssumption DEF IInv, TypeOK, AdmissionFollowsMarker, FilePcs, Settle, Goto
<1>4. JournalCovers'
  BY NoDbAssumption DEF IInv, TypeOK, JournalCovers, FilePcs, Unjournalled, Target, Settle, Goto
<1>5. SurvivorsKept'
  BY NoDbAssumption
  DEF IInv, TypeOK, SurvivorsKept, FilePcs, ArmedPcs, SwapPcs, EndPcs, Target, Settle, Goto
<1>6. SwapProgress'
  BY NoDbAssumption DEF IInv, TypeOK, SwapProgress, FilePcs, ArmedPcs, SwapPcs, EndPcs, Settle, Goto
<1> QED  BY <1>1, <1>2, <1>3, <1>4, <1>5, <1>6 DEF IInv

\* The identity proof of a swap.
LEMMA ProveIdentityPreserves ==
  ASSUME IInv, ProveIdentity
  PROVE  IInv'
<1>1. TypeOK'
  BY NoDbAssumption, CrashAssumption, PublicationAssumption
  DEF IInv, TypeOK, Phases, Pcs, FilePcs, JournalType, ProveIdentity, Goto
<1>2. StepsFollowJournal'
  BY NoDbAssumption
  DEF IInv, TypeOK, StepsFollowJournal, FilePcs, Unjournalled, Adopting, ProveIdentity, Goto
<1>3. AdmissionFollowsMarker'
  BY NoDbAssumption DEF IInv, TypeOK, AdmissionFollowsMarker, FilePcs, ProveIdentity, Goto
<1>4. JournalCovers'
  BY NoDbAssumption DEF IInv, TypeOK, JournalCovers, FilePcs, Unjournalled, Target, ProveIdentity, Goto
<1>5. SurvivorsKept'
  BY NoDbAssumption
  DEF IInv, TypeOK, SurvivorsKept, FilePcs, ArmedPcs, SwapPcs, EndPcs, Target, ProveIdentity, Goto
<1>6. SwapProgress'
  BY NoDbAssumption
  DEF IInv, TypeOK, SwapProgress, FilePcs, ArmedPcs, SwapPcs, EndPcs, ProveIdentity, Goto
<1> QED  BY <1>1, <1>2, <1>3, <1>4, <1>5, <1>6 DEF IInv

\* os.replace.
LEMMA ReplacePreserves ==
  ASSUME IInv, Replace
  PROVE  IInv'
<1>1. TypeOK'
  BY NoDbAssumption, CrashAssumption, PublicationAssumption
  DEF IInv, TypeOK, Phases, Pcs, FilePcs, JournalType, Replace, Goto, TakePath, Displaced, Target
<1>2. StepsFollowJournal'
  BY NoDbAssumption
  DEF IInv, TypeOK, StepsFollowJournal, FilePcs, Unjournalled, Adopting, Replace, Goto, TakePath,
      Displaced
<1>3. AdmissionFollowsMarker'
  BY NoDbAssumption
  DEF IInv, TypeOK, AdmissionFollowsMarker, StepsFollowJournal, FilePcs, Unjournalled, Adopting, Replace,
      Goto, TakePath, Displaced
<1>4. JournalCovers'
  BY NoDbAssumption
  DEF IInv, TypeOK, JournalCovers, StepsFollowJournal, SwapProgress, FilePcs, Unjournalled, Target,
      Adopting, ArmedPcs, SwapPcs, EndPcs, Replace, Goto, TakePath, Displaced
<1>5. SurvivorsKept'
  BY NoDbAssumption
  DEF IInv, TypeOK, SurvivorsKept, FilePcs, ArmedPcs, SwapPcs, EndPcs, Target, Replace, Goto, TakePath,
      Displaced
<1>6. SwapProgress'
  BY NoDbAssumption
  DEF IInv, TypeOK, SwapProgress, FilePcs, ArmedPcs, SwapPcs, EndPcs, Replace, Goto, TakePath, Displaced
<1> QED  BY <1>1, <1>2, <1>3, <1>4, <1>5, <1>6 DEF IInv

\* The original is renamed aside.
LEMMA RetainOriginalPreserves ==
  ASSUME IInv, RetainOriginal
  PROVE  IInv'
<1>1. TypeOK'
  BY NoDbAssumption, CrashAssumption, PublicationAssumption
  DEF IInv, TypeOK, Phases, Pcs, FilePcs, JournalType, RetainOriginal, Goto, RetainOK, ProofOK
<1>2. StepsFollowJournal'
  BY NoDbAssumption
  DEF IInv, TypeOK, StepsFollowJournal, FilePcs, Unjournalled, Adopting, RetainOriginal, Goto, RetainOK,
      ProofOK
<1>3. AdmissionFollowsMarker'
  BY NoDbAssumption
  DEF IInv, TypeOK, AdmissionFollowsMarker, FilePcs, RetainOriginal, Goto, RetainOK, ProofOK
<1>4. JournalCovers'
  BY NoDbAssumption
  DEF IInv, TypeOK, JournalCovers, StepsFollowJournal, SwapProgress, FilePcs, Unjournalled, Target,
      Adopting, ArmedPcs, SwapPcs, EndPcs, RetainOriginal, Goto, RetainOK, ProofOK
<1>5. SurvivorsKept'
  BY NoDbAssumption
  DEF IInv, TypeOK, SurvivorsKept, SwapProgress, JournalCovers, FilePcs, ArmedPcs, SwapPcs, EndPcs,
      Target, Unjournalled, RetainOriginal, Goto, RetainOK, ProofOK
<1>6. SwapProgress'
  BY NoDbAssumption
  DEF IInv, TypeOK, SwapProgress, FilePcs, ArmedPcs, SwapPcs, EndPcs, RetainOriginal, Goto, RetainOK,
      ProofOK
<1> QED  BY <1>1, <1>2, <1>3, <1>4, <1>5, <1>6 DEF IInv

\* The retained identity is recorded.
LEMMA SaveRetainedPreserves ==
  ASSUME IInv, SaveRetained
  PROVE  IInv'
<1>1. TypeOK'
  BY NoDbAssumption, CrashAssumption, PublicationAssumption
  DEF IInv, TypeOK, Phases, Pcs, FilePcs, JournalType, SaveRetained, Goto
<1>2. StepsFollowJournal'
  BY NoDbAssumption
  DEF IInv, TypeOK, StepsFollowJournal, FilePcs, Unjournalled, Adopting, SaveRetained, Goto
<1>3. AdmissionFollowsMarker'
  BY NoDbAssumption DEF IInv, TypeOK, AdmissionFollowsMarker, FilePcs, SaveRetained, Goto
<1>4. JournalCovers'
  BY NoDbAssumption DEF IInv, TypeOK, JournalCovers, FilePcs, Unjournalled, Target, SaveRetained, Goto
<1>5. SurvivorsKept'
  BY NoDbAssumption
  DEF IInv, TypeOK, SurvivorsKept, FilePcs, ArmedPcs, SwapPcs, EndPcs, Target, SaveRetained, Goto
<1>6. SwapProgress'
  BY NoDbAssumption
  DEF IInv, TypeOK, SwapProgress, FilePcs, ArmedPcs, SwapPcs, EndPcs, SaveRetained, Goto
<1> QED  BY <1>1, <1>2, <1>3, <1>4, <1>5, <1>6 DEF IInv

\* The staged copy takes the empty path.
LEMMA PublishPreserves ==
  ASSUME IInv, Publish
  PROVE  IInv'
<1>1. TypeOK'
  BY NoDbAssumption, CrashAssumption, PublicationAssumption
  DEF IInv, TypeOK, Phases, Pcs, FilePcs, JournalType, Publish, Goto, TakePath, Target
<1>2. StepsFollowJournal'
  BY NoDbAssumption
  DEF IInv, TypeOK, StepsFollowJournal, FilePcs, Unjournalled, Adopting, Publish, Goto, TakePath
<1>3. AdmissionFollowsMarker'
  BY NoDbAssumption
  DEF IInv, TypeOK, AdmissionFollowsMarker, StepsFollowJournal, FilePcs, Unjournalled, Adopting, Publish,
      Goto, TakePath
<1>4. JournalCovers'
  BY NoDbAssumption
  DEF IInv, TypeOK, JournalCovers, StepsFollowJournal, SwapProgress, FilePcs, Unjournalled, Target,
      Adopting, ArmedPcs, SwapPcs, EndPcs, Publish, Goto, TakePath
<1>5. SurvivorsKept'
  BY NoDbAssumption
  DEF IInv, TypeOK, SurvivorsKept, FilePcs, ArmedPcs, SwapPcs, EndPcs, Target, Publish, Goto, TakePath
<1>6. SwapProgress'
  BY NoDbAssumption
  DEF IInv, TypeOK, SwapProgress, FilePcs, ArmedPcs, SwapPcs, EndPcs, Publish, Goto, TakePath
<1> QED  BY <1>1, <1>2, <1>3, <1>4, <1>5, <1>6 DEF IInv

\* _cleanup_sidecars.
LEMMA CleanupSidecarsPreserves ==
  ASSUME IInv, CleanupSidecars
  PROVE  IInv'
<1>1. TypeOK'
  BY NoDbAssumption, CrashAssumption, PublicationAssumption
  DEF IInv, TypeOK, Phases, Pcs, FilePcs, JournalType, CleanupSidecars, Goto
<1>2. StepsFollowJournal'
  BY NoDbAssumption
  DEF IInv, TypeOK, StepsFollowJournal, FilePcs, Unjournalled, Adopting, CleanupSidecars, Goto
<1>3. AdmissionFollowsMarker'
  BY NoDbAssumption DEF IInv, TypeOK, AdmissionFollowsMarker, FilePcs, CleanupSidecars, Goto
<1>4. JournalCovers'
  BY NoDbAssumption
  DEF IInv, TypeOK, JournalCovers, FilePcs, Unjournalled, Target, CleanupSidecars, Goto
<1>5. SurvivorsKept'
  BY NoDbAssumption
  DEF IInv, TypeOK, SurvivorsKept, FilePcs, ArmedPcs, SwapPcs, EndPcs, Target, CleanupSidecars, Goto
<1>6. SwapProgress'
  BY NoDbAssumption
  DEF IInv, TypeOK, SwapProgress, FilePcs, ArmedPcs, SwapPcs, EndPcs, CleanupSidecars, Goto
<1> QED  BY <1>1, <1>2, <1>3, <1>4, <1>5, <1>6 DEF IInv

\* An entry becomes swapped.
LEMMA SaveSwappedPreserves ==
  ASSUME IInv, SaveSwapped
  PROVE  IInv'
<1>1. TypeOK'
  BY NoDbAssumption, CrashAssumption, PublicationAssumption
  DEF IInv, TypeOK, Phases, Pcs, FilePcs, JournalType, SaveSwapped, Goto, Rewritten
<1>2. StepsFollowJournal'
  BY NoDbAssumption
  DEF IInv, TypeOK, StepsFollowJournal, FilePcs, Unjournalled, Adopting, SaveSwapped, Goto, Rewritten
<1>3. AdmissionFollowsMarker'
  BY NoDbAssumption DEF IInv, TypeOK, AdmissionFollowsMarker, FilePcs, SaveSwapped, Goto, Rewritten
<1>4. JournalCovers'
  BY NoDbAssumption
  DEF IInv, TypeOK, JournalCovers, FilePcs, Unjournalled, Target, SaveSwapped, Goto, Rewritten
<1>5. SurvivorsKept'
  BY NoDbAssumption
  DEF IInv, TypeOK, SurvivorsKept, FilePcs, ArmedPcs, SwapPcs, EndPcs, Target, SaveSwapped, Goto,
      Rewritten
<1>6. SwapProgress'
  BY NoDbAssumption
  DEF IInv, TypeOK, SwapProgress, FilePcs, ArmedPcs, SwapPcs, EndPcs, SaveSwapped, Goto, Rewritten
<1> QED  BY <1>1, <1>2, <1>3, <1>4, <1>5, <1>6 DEF IInv

\* Every entry becomes complete.
LEMMA SaveCompletePreserves ==
  ASSUME IInv, SaveComplete
  PROVE  IInv'
<1>1. TypeOK'
  BY NoDbAssumption, CrashAssumption, PublicationAssumption
  DEF IInv, TypeOK, Phases, Pcs, FilePcs, JournalType, SaveComplete, Goto, AllPhases, Rewritten
<1>2. StepsFollowJournal'
  BY NoDbAssumption
  DEF IInv, TypeOK, StepsFollowJournal, FilePcs, Unjournalled, Adopting, SaveComplete, Goto, AllPhases,
      Rewritten
<1>3. AdmissionFollowsMarker'
  BY NoDbAssumption
  DEF IInv, TypeOK, AdmissionFollowsMarker, FilePcs, SaveComplete, Goto, AllPhases, Rewritten
<1>4. JournalCovers'
  BY NoDbAssumption
  DEF IInv, TypeOK, JournalCovers, FilePcs, Unjournalled, Target, SaveComplete, Goto, AllPhases,
      Rewritten
<1>5. SurvivorsKept'
  BY NoDbAssumption
  DEF IInv, TypeOK, SurvivorsKept, FilePcs, ArmedPcs, SwapPcs, EndPcs, Target, SaveComplete, Goto,
      AllPhases, Rewritten
<1>6. SwapProgress'
  BY NoDbAssumption
  DEF IInv, TypeOK, SwapProgress, FilePcs, ArmedPcs, SwapPcs, EndPcs, SaveComplete, Goto, AllPhases,
      Rewritten
<1> QED  BY <1>1, <1>2, <1>3, <1>4, <1>5, <1>6 DEF IInv

\* A retained original is removed.
LEMMA RetireOriginalPreserves ==
  ASSUME IInv, NEW d \in Db, RetireOriginal(d)
  PROVE  IInv'
<1>1. TypeOK'
  BY NoDbAssumption, CrashAssumption, PublicationAssumption
  DEF IInv, TypeOK, Phases, Pcs, FilePcs, JournalType, RetireOriginal
<1>2. StepsFollowJournal'
  BY NoDbAssumption
  DEF IInv, TypeOK, StepsFollowJournal, FilePcs, Unjournalled, Adopting, RetireOriginal
<1>3. AdmissionFollowsMarker'
  BY NoDbAssumption DEF IInv, TypeOK, AdmissionFollowsMarker, FilePcs, RetireOriginal
<1>4. JournalCovers'
  BY NoDbAssumption DEF IInv, TypeOK, JournalCovers, FilePcs, Unjournalled, Target, RetireOriginal
<1>5. SurvivorsKept'
  BY NoDbAssumption
  DEF IInv, TypeOK, SurvivorsKept, FilePcs, ArmedPcs, SwapPcs, EndPcs, Target, RetireOriginal
<1>6. SwapProgress'
  BY NoDbAssumption DEF IInv, TypeOK, SwapProgress, FilePcs, ArmedPcs, SwapPcs, EndPcs, RetireOriginal
<1> QED  BY <1>1, <1>2, <1>3, <1>4, <1>5, <1>6 DEF IInv

\* No retained original is left.
LEMMA RetireDonePreserves ==
  ASSUME IInv, RetireDone
  PROVE  IInv'
<1>1. TypeOK'
  BY NoDbAssumption, CrashAssumption, PublicationAssumption
  DEF IInv, TypeOK, Phases, Pcs, FilePcs, JournalType, RetireDone, Goto
<1>2. StepsFollowJournal'
  BY NoDbAssumption
  DEF IInv, TypeOK, StepsFollowJournal, FilePcs, Unjournalled, Adopting, RetireDone, Goto
<1>3. AdmissionFollowsMarker'
  BY NoDbAssumption DEF IInv, TypeOK, AdmissionFollowsMarker, FilePcs, RetireDone, Goto
<1>4. JournalCovers'
  BY NoDbAssumption DEF IInv, TypeOK, JournalCovers, FilePcs, Unjournalled, Target, RetireDone, Goto
<1>5. SurvivorsKept'
  BY NoDbAssumption
  DEF IInv, TypeOK, SurvivorsKept, FilePcs, ArmedPcs, SwapPcs, EndPcs, Target, RetireDone, Goto
<1>6. SwapProgress'
  BY NoDbAssumption DEF IInv, TypeOK, SwapProgress, FilePcs, ArmedPcs, SwapPcs, EndPcs, RetireDone, Goto
<1> QED  BY <1>1, <1>2, <1>3, <1>4, <1>5, <1>6 DEF IInv

\* A scheduled intent is removed.
LEMMA RemovePendingPreserves ==
  ASSUME IInv, NEW here \in {"rm_enc", "rm_dec"}, NEW name \in {"enc", "dec"},
         NEW next \in {"rm_dec", "rm_journal"}, RemovePending(here, name, next)
  PROVE  IInv'
<1>1. TypeOK'
  BY NoDbAssumption, CrashAssumption, PublicationAssumption
  DEF IInv, TypeOK, Phases, Pcs, FilePcs, JournalType, RemovePending, Goto
<1>2. StepsFollowJournal'
  BY NoDbAssumption
  DEF IInv, TypeOK, StepsFollowJournal, FilePcs, Unjournalled, Adopting, RemovePending, Goto
<1>3. AdmissionFollowsMarker'
  BY NoDbAssumption DEF IInv, TypeOK, AdmissionFollowsMarker, FilePcs, RemovePending, Goto
<1>4. JournalCovers'
  BY NoDbAssumption DEF IInv, TypeOK, JournalCovers, FilePcs, Unjournalled, Target, RemovePending, Goto
<1>5. SurvivorsKept'
  BY NoDbAssumption
  DEF IInv, TypeOK, SurvivorsKept, FilePcs, ArmedPcs, SwapPcs, EndPcs, Target, RemovePending, Goto
<1>6. SwapProgress'
  BY NoDbAssumption
  DEF IInv, TypeOK, SwapProgress, FilePcs, ArmedPcs, SwapPcs, EndPcs, RemovePending, Goto
<1> QED  BY <1>1, <1>2, <1>3, <1>4, <1>5, <1>6 DEF IInv

\* The journal goes.
LEMMA RemoveJournalPreserves ==
  ASSUME IInv, RemoveJournal
  PROVE  IInv'
<1>1. TypeOK'
  BY NoDbAssumption, CrashAssumption, PublicationAssumption
  DEF IInv, TypeOK, Phases, Pcs, FilePcs, JournalType, RemoveJournal, Goto, NoJournal
<1>2. StepsFollowJournal'
  BY NoDbAssumption
  DEF IInv, TypeOK, StepsFollowJournal, FilePcs, Unjournalled, Adopting, RemoveJournal, Goto, NoJournal
<1>3. AdmissionFollowsMarker'
  BY NoDbAssumption
  DEF IInv, TypeOK, AdmissionFollowsMarker, StepsFollowJournal, JournalCovers, SurvivorsKept,
      SwapProgress, FilePcs, Unjournalled, Adopting, Target, ArmedPcs, SwapPcs, EndPcs, RemoveJournal,
      Goto, NoJournal
<1>4. JournalCovers'
  BY NoDbAssumption
  DEF IInv, TypeOK, JournalCovers, StepsFollowJournal, FilePcs, Unjournalled, Target, Adopting,
      RemoveJournal, Goto, NoJournal
<1>5. SurvivorsKept'
  BY NoDbAssumption
  DEF IInv, TypeOK, SurvivorsKept, FilePcs, ArmedPcs, SwapPcs, EndPcs, Target, RemoveJournal, Goto,
      NoJournal
<1>6. SwapProgress'
  BY NoDbAssumption
  DEF IInv, TypeOK, SwapProgress, FilePcs, ArmedPcs, SwapPcs, EndPcs, RemoveJournal, Goto, NoJournal
<1> QED  BY <1>1, <1>2, <1>3, <1>4, <1>5, <1>6 DEF IInv

\* adopt_legacy journals the legacy root.
LEMMA StartAdoptionPreserves ==
  ASSUME IInv, StartAdoption
  PROVE  IInv'
<1>1. TypeOK'
  BY NoDbAssumption, CrashAssumption, PublicationAssumption
  DEF IInv, TypeOK, Phases, Pcs, FilePcs, JournalType, StartAdoption, Exclusive, Journalled, NoOrphan,
      Record, Goto, Present
<1>2. StepsFollowJournal'
  BY NoDbAssumption
  DEF IInv, TypeOK, StepsFollowJournal, FilePcs, Unjournalled, Adopting, StartAdoption, Exclusive,
      Journalled, NoOrphan, Record, Goto, Present
<1>3. AdmissionFollowsMarker'
  BY NoDbAssumption
  DEF IInv, TypeOK, AdmissionFollowsMarker, FilePcs, StartAdoption, Exclusive, Journalled, NoOrphan,
      Record, Goto, Present
<1>4. JournalCovers'
  BY NoDbAssumption
  DEF IInv, TypeOK, JournalCovers, FilePcs, Unjournalled, Target, StartAdoption, Exclusive, Journalled,
      NoOrphan, Record, Goto, Present
<1>5. SurvivorsKept'
  BY NoDbAssumption
  DEF IInv, TypeOK, SurvivorsKept, FilePcs, ArmedPcs, SwapPcs, EndPcs, Target, StartAdoption, Exclusive,
      Journalled, NoOrphan, Record, Goto, Present
<1>6. SwapProgress'
  BY NoDbAssumption
  DEF IInv, TypeOK, SwapProgress, FilePcs, ArmedPcs, SwapPcs, EndPcs, StartAdoption, Exclusive,
      Journalled, NoOrphan, Record, Goto, Present
<1> QED  BY <1>1, <1>2, <1>3, <1>4, <1>5, <1>6 DEF IInv

\* _finish_adoption.
LEMMA FinishAdoptionPreserves ==
  ASSUME IInv, FinishAdoption
  PROVE  IInv'
<1>1. TypeOK'
  BY NoDbAssumption, CrashAssumption, PublicationAssumption
  DEF IInv, TypeOK, Phases, Pcs, FilePcs, JournalType, FinishAdoption, Goto, AdoptOK, Present
<1>2. StepsFollowJournal'
  BY NoDbAssumption
  DEF IInv, TypeOK, StepsFollowJournal, FilePcs, Unjournalled, Adopting, FinishAdoption, Goto, AdoptOK,
      Present
<1>3. AdmissionFollowsMarker'
  BY NoDbAssumption
  DEF IInv, TypeOK, AdmissionFollowsMarker, StepsFollowJournal, JournalCovers, FilePcs, Unjournalled,
      Adopting, Target, FinishAdoption, Goto, AdoptOK, Present
<1>4. JournalCovers'
  BY NoDbAssumption
  DEF IInv, TypeOK, JournalCovers, FilePcs, Unjournalled, Target, FinishAdoption, Goto, AdoptOK, Present
<1>5. SurvivorsKept'
  BY NoDbAssumption
  DEF IInv, TypeOK, SurvivorsKept, FilePcs, ArmedPcs, SwapPcs, EndPcs, Target, FinishAdoption, Goto,
      AdoptOK, Present
<1>6. SwapProgress'
  BY NoDbAssumption
  DEF IInv, TypeOK, SwapProgress, StepsFollowJournal, JournalCovers, FilePcs, ArmedPcs, SwapPcs, EndPcs,
      Unjournalled, Adopting, Target, FinishAdoption, Goto, AdoptOK, Present
<1> QED  BY <1>1, <1>2, <1>3, <1>4, <1>5, <1>6 DEF IInv

\* restore_database reserves its staging file.
LEMMA StartRestorePreserves ==
  ASSUME IInv, NEW d \in Db, StartRestore(d)
  PROVE  IInv'
<1>1. TypeOK'
  BY NoDbAssumption, CrashAssumption, PublicationAssumption
  DEF IInv, TypeOK, Phases, Pcs, FilePcs, JournalType, StartRestore, Exclusive, Journalled, NoOrphan,
      Goto
<1>2. StepsFollowJournal'
  BY NoDbAssumption
  DEF IInv, TypeOK, StepsFollowJournal, FilePcs, Unjournalled, Adopting, StartRestore, Exclusive,
      Journalled, NoOrphan, Goto
<1>3. AdmissionFollowsMarker'
  BY NoDbAssumption
  DEF IInv, TypeOK, AdmissionFollowsMarker, FilePcs, StartRestore, Exclusive, Journalled, NoOrphan, Goto
<1>4. JournalCovers'
  BY NoDbAssumption
  DEF IInv, TypeOK, JournalCovers, FilePcs, Unjournalled, Target, StartRestore, Exclusive, Journalled,
      NoOrphan, Goto
<1>5. SurvivorsKept'
  BY NoDbAssumption
  DEF IInv, TypeOK, SurvivorsKept, FilePcs, ArmedPcs, SwapPcs, EndPcs, Target, StartRestore, Exclusive,
      Journalled, NoOrphan, Goto
<1>6. SwapProgress'
  BY NoDbAssumption
  DEF IInv, TypeOK, SwapProgress, FilePcs, ArmedPcs, SwapPcs, EndPcs, StartRestore, Exclusive,
      Journalled, NoOrphan, Goto
<1> QED  BY <1>1, <1>2, <1>3, <1>4, <1>5, <1>6 DEF IInv

\* The backup is copied.
LEMMA RestoreCopyPreserves ==
  ASSUME IInv, RestoreCopy
  PROVE  IInv'
<1>1. TypeOK'
  BY NoDbAssumption, CrashAssumption, PublicationAssumption
  DEF IInv, TypeOK, Phases, Pcs, FilePcs, JournalType, RestoreCopy, Goto
<1>2. StepsFollowJournal'
  BY NoDbAssumption
  DEF IInv, TypeOK, StepsFollowJournal, FilePcs, Unjournalled, Adopting, RestoreCopy, Goto
<1>3. AdmissionFollowsMarker'
  BY NoDbAssumption DEF IInv, TypeOK, AdmissionFollowsMarker, FilePcs, RestoreCopy, Goto
<1>4. JournalCovers'
  BY NoDbAssumption DEF IInv, TypeOK, JournalCovers, FilePcs, Unjournalled, Target, RestoreCopy, Goto
<1>5. SurvivorsKept'
  BY NoDbAssumption
  DEF IInv, TypeOK, SurvivorsKept, FilePcs, ArmedPcs, SwapPcs, EndPcs, Target, RestoreCopy, Goto
<1>6. SwapProgress'
  BY NoDbAssumption
  DEF IInv, TypeOK, SwapProgress, FilePcs, ArmedPcs, SwapPcs, EndPcs, RestoreCopy, Goto
<1> QED  BY <1>1, <1>2, <1>3, <1>4, <1>5, <1>6 DEF IInv

\* The journal of a restore becomes durable.
LEMMA SaveRestoreJournalPreserves ==
  ASSUME IInv, SaveRestoreJournal
  PROVE  IInv'
<1>1. TypeOK'
  BY NoDbAssumption, CrashAssumption, PublicationAssumption
  DEF IInv, TypeOK, Phases, Pcs, FilePcs, JournalType, SaveRestoreJournal, Record, Goto, Present
<1>2. StepsFollowJournal'
  BY NoDbAssumption
  DEF IInv, TypeOK, StepsFollowJournal, FilePcs, Unjournalled, Adopting, SaveRestoreJournal, Record,
      Goto, Present
<1>3. AdmissionFollowsMarker'
  BY NoDbAssumption
  DEF IInv, TypeOK, AdmissionFollowsMarker, FilePcs, SaveRestoreJournal, Record, Goto, Present
<1>4. JournalCovers'
  BY NoDbAssumption
  DEF IInv, TypeOK, JournalCovers, StepsFollowJournal, FilePcs, Unjournalled, Target, Adopting,
      SaveRestoreJournal, Record, Goto, Present
<1>5. SurvivorsKept'
  BY NoDbAssumption
  DEF IInv, TypeOK, SurvivorsKept, FilePcs, ArmedPcs, SwapPcs, EndPcs, Target, SaveRestoreJournal,
      Record, Goto, Present
<1>6. SwapProgress'
  BY NoDbAssumption
  DEF IInv, TypeOK, SwapProgress, FilePcs, ArmedPcs, SwapPcs, EndPcs, SaveRestoreJournal, Record, Goto,
      Present
<1> QED  BY <1>1, <1>2, <1>3, <1>4, <1>5, <1>6 DEF IInv

\* A proof fails.
LEMMA RefusePreserves ==
  ASSUME IInv, Refuse
  PROVE  IInv'
<1>1. TypeOK'
  BY NoDbAssumption, CrashAssumption, PublicationAssumption
  DEF IInv, TypeOK, Phases, Pcs, FilePcs, JournalType, Refuse, Stop, Goto
<1>2. StepsFollowJournal'
  BY NoDbAssumption
  DEF IInv, TypeOK, StepsFollowJournal, FilePcs, Unjournalled, Adopting, Refuse, Stop, Goto
<1>3. AdmissionFollowsMarker'
  BY NoDbAssumption DEF IInv, TypeOK, AdmissionFollowsMarker, FilePcs, Refuse, Stop, Goto
<1>4. JournalCovers'
  BY NoDbAssumption DEF IInv, TypeOK, JournalCovers, FilePcs, Unjournalled, Target, Refuse, Stop, Goto
<1>5. SurvivorsKept'
  BY NoDbAssumption
  DEF IInv, TypeOK, SurvivorsKept, FilePcs, ArmedPcs, SwapPcs, EndPcs, Target, Refuse, Stop, Goto
<1>6. SwapProgress'
  BY NoDbAssumption
  DEF IInv, TypeOK, SwapProgress, FilePcs, ArmedPcs, SwapPcs, EndPcs, Refuse, Stop, Goto
<1> QED  BY <1>1, <1>2, <1>3, <1>4, <1>5, <1>6 DEF IInv

\* The maintenance process dies.
LEMMA CrashPreserves ==
  ASSUME IInv, Crash
  PROVE  IInv'
<1>1. TypeOK'
  BY NoDbAssumption, CrashAssumption, PublicationAssumption
  DEF IInv, TypeOK, Phases, Pcs, FilePcs, JournalType, Crash, Stop, Goto
<1>2. StepsFollowJournal'
  BY NoDbAssumption
  DEF IInv, TypeOK, StepsFollowJournal, FilePcs, Unjournalled, Adopting, Crash, Stop, Goto
<1>3. AdmissionFollowsMarker'
  BY NoDbAssumption DEF IInv, TypeOK, AdmissionFollowsMarker, FilePcs, Crash, Stop, Goto
<1>4. JournalCovers'
  BY NoDbAssumption DEF IInv, TypeOK, JournalCovers, FilePcs, Unjournalled, Target, Crash, Stop, Goto
<1>5. SurvivorsKept'
  BY NoDbAssumption
  DEF IInv, TypeOK, SurvivorsKept, FilePcs, ArmedPcs, SwapPcs, EndPcs, Target, Crash, Stop, Goto
<1>6. SwapProgress'
  BY NoDbAssumption
  DEF IInv, TypeOK, SwapProgress, FilePcs, ArmedPcs, SwapPcs, EndPcs, Crash, Stop, Goto
<1> QED  BY <1>1, <1>2, <1>3, <1>4, <1>5, <1>6 DEF IInv
\* A home before any maintenance.
LEMMA InitIInv == Init => IInv
BY NoDbAssumption, CrashAssumption
DEF Init, IInv, TypeOK, JournalType, NoJournal, Phases, Pcs, FilePcs, StepsFollowJournal, Unjournalled,
    Adopting, AdmissionFollowsMarker, JournalCovers, Target, SurvivorsKept, ArmedPcs, SwapPcs, EndPcs,
    SwapProgress

\* Every step of maintenance, of a runtime and of a foreign process keeps the
\* inductive invariant.
LEMMA NextPreserves == IInv /\ [Next]_vars => IInv'
<1> SUFFICES ASSUME IInv, [Next]_vars PROVE IInv'
  OBVIOUS
<1>1. ASSUME MaintenanceStep PROVE IInv'
  <2>1. ASSUME NEW d \in Db, CheckpointSource(d) \/ ReserveStaging(d) PROVE IInv'
    BY <2>1, CheckpointSourcePreserves, ReserveStagingPreserves
  <2>2. ASSUME NEW d \in Db, SkipSwapped(d) \/ ScanHolders(d) \/ RetireOriginal(d) PROVE IInv'
    BY <2>2, SkipSwappedPreserves, ScanHoldersPreserves, RetireOriginalPreserves
  <2>3. ASSUME \/ SavePrepared \/ CheckBinding \/ SaveReserved \/ Export \/ SaveVerified
               \/ VerifySurvivors \/ ArmOrDisarm \/ SaveArmed
        PROVE  IInv'
    BY <2>3, SavePreparedPreserves, CheckBindingPreserves, SaveReservedPreserves, ExportPreserves,
       SaveVerifiedPreserves, VerifySurvivorsPreserves, ArmOrDisarmPreserves, SaveArmedPreserves
  <2>4. ASSUME \/ Settle \/ ProveIdentity \/ Replace \/ RetainOriginal \/ SaveRetained \/ Publish
               \/ CleanupSidecars \/ SaveSwapped \/ SaveComplete \/ RetireDone
        PROVE  IInv'
    BY <2>4, SettlePreserves, ProveIdentityPreserves, ReplacePreserves, RetainOriginalPreserves,
       SaveRetainedPreserves, PublishPreserves, CleanupSidecarsPreserves, SaveSwappedPreserves,
       SaveCompletePreserves, RetireDonePreserves
  <2>5. ASSUME \/ RemovePending("rm_enc", "enc", "rm_dec")
               \/ RemovePending("rm_dec", "dec", "rm_journal")
        PROVE  IInv'
    BY <2>5, RemovePendingPreserves
  <2>6. ASSUME RemoveJournal \/ FinishAdoption \/ RestoreCopy \/ SaveRestoreJournal \/ Refuse
        PROVE  IInv'
    BY <2>6, RemoveJournalPreserves, FinishAdoptionPreserves, RestoreCopyPreserves,
       SaveRestoreJournalPreserves, RefusePreserves
  <2> QED  BY <1>1, <2>1, <2>2, <2>3, <2>4, <2>5, <2>6 DEF MaintenanceStep
<1>2. ASSUME Resume \/ StartStep \/ Crash PROVE IInv'
  BY <1>2, ResumePreserves, StartConvertPreserves, StartRestorePreserves, StartAdoptionPreserves,
     CrashPreserves DEF StartStep
<1>3. ASSUME RuntimeStep PROVE IInv'
  BY <1>3, AdmitPlainPreserves, AdmitEncryptedPreserves, SchedulePreserves, UnschedulePreserves,
     RuntimeStopPreserves, RuntimeCommitPreserves DEF RuntimeStep
<1>4. ASSUME ForeignStep PROVE IInv'
  BY <1>4, ForeignOpenPreserves, ForeignCommitPreserves, ForeignCommitOldPreserves,
     ForeignClosePreserves, ForeignCreatePreserves DEF ForeignStep
<1>5. CASE UNCHANGED vars
  BY <1>5
  DEF vars, IInv, TypeOK, StepsFollowJournal, AdmissionFollowsMarker, JournalCovers, SurvivorsKept,
      SwapProgress
<1> QED  BY <1>1, <1>2, <1>3, <1>4, <1>5 DEF Next

\* The inductive invariant holds in every state conversion, recovery, adoption
\* and restore reach, whatever crashes.
THEOREM MigrationInvariant == Spec => []IInv
BY InitIInv, NextPreserves, PTL DEF Spec

\* The variables keep their types; in particular a step that works on one file
\* always has that file, and no other step keeps one.
THEOREM MigrationTypes == Spec => []TypeOK
<1>1. IInv => TypeOK  BY DEF IInv
<1> QED  BY <1>1, MigrationInvariant, PTL

\* A runtime is admitted only over databases that are all in the format it reads
\* and writes, for every set of databases and any number of crashes and resumes.
THEOREM MigrationAdmits == Spec => []AdmittedMatches
<1>1. IInv => AdmittedMatches
  BY DEF IInv, TypeOK, AdmissionFollowsMarker, AdmittedMatches
<1> QED  BY <1>1, MigrationInvariant, PTL

-----------------------------------------------------------------------------
(* EInv is inductive beside IInv: one lemma per action, its first step for  *)
(* the conjuncts whose variables the action leaves alone or barely touches. *)

\* A plain start.
LEMMA AdmitPlainEvident ==
  ASSUME IInv, IInv', EInv, AdmitPlain
  PROVE  EInv'
<1>1. /\ ArmsTheWhole' /\ CopiesComplete' /\ OriginalReachable' /\ HoldersKnown'
      /\ CommitsShow' /\ NoSilentLoss'
  BY DEF EInv, AdmitPlain, ArmsTheWhole, Unprepared, CopiesComplete, ArmedPcs, SwapPcs, EndPcs, CopyPcs,
         OriginalReachable, HoldersKnown, CommitsShow, NoSilentLoss
<1> QED  BY <1>1 DEF EInv

\* An encrypted start.
LEMMA AdmitEncryptedEvident ==
  ASSUME IInv, IInv', EInv, AdmitEncrypted
  PROVE  EInv'
<1>1. /\ ArmsTheWhole' /\ CopiesComplete' /\ OriginalReachable' /\ HoldersKnown'
      /\ CommitsShow' /\ NoSilentLoss'
  BY DEF EInv, AdmitEncrypted, ArmsTheWhole, Unprepared, CopiesComplete, ArmedPcs, SwapPcs, EndPcs,
         CopyPcs, OriginalReachable, HoldersKnown, CommitsShow, NoSilentLoss
<1> QED  BY <1>1 DEF EInv

\* A write of an admitted runtime.
LEMMA RuntimeCommitEvident ==
  ASSUME IInv, IInv', EInv, NEW k \in {"plain", "enc"}, NEW d \in Db, RuntimeCommit(k, d)
  PROVE  EInv'
<1>1. ArmsTheWhole' /\ CopiesComplete' /\ OriginalReachable' /\ NoSilentLoss'
  BY DEF EInv, RuntimeCommit, ArmsTheWhole, Unprepared, CopiesComplete, OriginalReachable, NoSilentLoss
<1>2. HoldersKnown'
  BY DEF EInv, IInv, RuntimeCommit, HoldersKnown, JournalCovers, AdmissionFollowsMarker
<1>3. CommitsShow'
  BY DEF IInv, RuntimeCommit, CommitsShow, JournalCovers, AdmissionFollowsMarker
<1> QED  BY <1>1, <1>2, <1>3 DEF EInv

\* A runtime stops.
LEMMA RuntimeStopEvident ==
  ASSUME IInv, IInv', EInv, NEW k \in {"plain", "enc"}, RuntimeStop(k)
  PROVE  EInv'
<1>1. ArmsTheWhole' /\ CopiesComplete' /\ OriginalReachable' /\ HoldersKnown' /\ NoSilentLoss'
  BY DEF EInv, RuntimeStop, ArmsTheWhole, Unprepared, CopiesComplete, OriginalReachable, HoldersKnown,
         NoSilentLoss
<1>2. CommitsShow'
  BY DEF IInv, RuntimeStop, CommitsShow, JournalCovers, AdmissionFollowsMarker
<1> QED  BY <1>1, <1>2 DEF EInv

\* An intent is scheduled.
LEMMA ScheduleEvident ==
  ASSUME IInv, IInv', EInv, Schedule
  PROVE  EInv'
<1>1. /\ ArmsTheWhole' /\ CopiesComplete' /\ OriginalReachable' /\ HoldersKnown'
      /\ CommitsShow' /\ NoSilentLoss'
  BY DEF EInv, Schedule, ArmsTheWhole, Unprepared, CopiesComplete, OriginalReachable, HoldersKnown,
         CommitsShow, NoSilentLoss
<1> QED  BY <1>1 DEF EInv

\* An intent is withdrawn.
LEMMA UnscheduleEvident ==
  ASSUME IInv, IInv', EInv, Unschedule
  PROVE  EInv'
<1>1. /\ ArmsTheWhole' /\ CopiesComplete' /\ OriginalReachable' /\ HoldersKnown'
      /\ CommitsShow' /\ NoSilentLoss'
  BY DEF EInv, Unschedule, ArmsTheWhole, Unprepared, CopiesComplete, OriginalReachable, HoldersKnown,
         CommitsShow, NoSilentLoss
<1> QED  BY <1>1 DEF EInv

\* A process without the lease opens a database.
LEMMA ForeignOpenEvident ==
  ASSUME IInv, IInv', EInv, NEW d \in Db, ForeignOpen(d)
  PROVE  EInv'
<1>1. ArmsTheWhole' /\ CopiesComplete' /\ OriginalReachable' /\ NoSilentLoss'
  BY DEF EInv, ForeignOpen, ArmsTheWhole, Unprepared, CopiesComplete, OriginalReachable, NoSilentLoss
<1>2. HoldersKnown'
  BY DEF EInv, ForeignOpen, InWindow, HoldersKnown, CopyPcs
<1>3. CommitsShow'
  BY DEF EInv, ForeignOpen, InWindow, CommitsShow
<1> QED  BY <1>1, <1>2, <1>3 DEF EInv

\* It commits to the file at the path.
LEMMA ForeignCommitEvident ==
  ASSUME IInv, IInv', EInv, NEW d \in Db, ForeignCommit(d)
  PROVE  EInv'
<1>1. ArmsTheWhole' /\ CopiesComplete' /\ OriginalReachable' /\ HoldersKnown' /\ NoSilentLoss'
  BY DEF EInv, ForeignCommit, ArmsTheWhole, Unprepared, CopiesComplete, OriginalReachable, HoldersKnown,
         NoSilentLoss
<1>2. CommitsShow'
  BY DEF EInv, IInv, TypeOK, ForeignCommit, CommitsShow, HoldersKnown, CopyPcs, SwapProgress, SwapPcs
<1> QED  BY <1>1, <1>2 DEF EInv

\* It commits to a displaced file.
LEMMA ForeignCommitOldEvident ==
  ASSUME IInv, IInv', EInv, NEW d \in Db, ForeignCommitOld(d)
  PROVE  EInv'
<1>1. ArmsTheWhole' /\ CopiesComplete' /\ OriginalReachable' /\ HoldersKnown' /\ CommitsShow'
  BY DEF EInv, ForeignCommitOld, ArmsTheWhole, Unprepared, CopiesComplete, OriginalReachable,
         HoldersKnown, CommitsShow
<1>2. NoSilentLoss'
  BY DEF EInv, ForeignCommitOld, NoSilentLoss, HoldersKnown
<1> QED  BY <1>1, <1>2 DEF EInv

\* It closes.
LEMMA ForeignCloseEvident ==
  ASSUME IInv, IInv', EInv, NEW d \in Db, ForeignClose(d)
  PROVE  EInv'
<1>1. ArmsTheWhole' /\ CopiesComplete' /\ OriginalReachable' /\ HoldersKnown' /\ NoSilentLoss'
  BY DEF EInv, ForeignClose, ArmsTheWhole, Unprepared, CopiesComplete, OriginalReachable, HoldersKnown,
         NoSilentLoss
<1>2. CommitsShow'
  BY DEF EInv, IInv, TypeOK, ForeignClose, CommitsShow, HoldersKnown, CopyPcs, SwapProgress, SwapPcs
<1> QED  BY <1>1, <1>2 DEF EInv

\* It creates a file in the gap of a two-step publication.
LEMMA ForeignCreateEvident ==
  ASSUME IInv, IInv', EInv, NEW d \in Db, ForeignCreate(d)
  PROVE  EInv'
<1>1. ArmsTheWhole' /\ CopiesComplete' /\ OriginalReachable' /\ CommitsShow' /\ NoSilentLoss'
  BY DEF EInv, ForeignCreate, ArmsTheWhole, Unprepared, CopiesComplete, OriginalReachable, CommitsShow,
         NoSilentLoss
<1>2. HoldersKnown'
  BY DEF EInv, IInv, TypeOK, ForeignCreate, HoldersKnown
<1> QED  BY <1>1, <1>2 DEF EInv

\* _convert up to discovery.
LEMMA StartConvertEvident ==
  ASSUME IInv, IInv', EInv, NEW dir \in {"encrypt", "decrypt"}, StartConvert(dir)
  PROVE  EInv'
<1>1. ArmsTheWhole' /\ CopiesComplete' /\ OriginalReachable' /\ HoldersKnown' /\ NoSilentLoss'
  BY DEF EInv, StartConvert, ArmsTheWhole, Unprepared, Goto, CopiesComplete, ArmedPcs, SwapPcs, EndPcs,
         CopyPcs, OriginalReachable, HoldersKnown, NoSilentLoss
<1>2. CommitsShow'
  BY DEF IInv, StartConvert, Journalled, CommitsShow, JournalCovers, SwapProgress, SwapPcs
<1> QED  BY <1>1, <1>2 DEF EInv

\* _checkpoint_source.
LEMMA CheckpointSourceEvident ==
  ASSUME IInv, IInv', EInv, NEW d \in Db, CheckpointSource(d)
  PROVE  EInv'
<1>1. ArmsTheWhole' /\ CopiesComplete' /\ OriginalReachable' /\ HoldersKnown' /\ NoSilentLoss'
  BY DEF EInv, CheckpointSource, ArmsTheWhole, Unprepared, CopiesComplete, ArmedPcs, SwapPcs, EndPcs,
         CopyPcs, OriginalReachable, HoldersKnown, NoSilentLoss
<1>2. CommitsShow'
  BY DEF IInv, CheckpointSource, CommitsShow, JournalCovers, StepsFollowJournal, Unjournalled
<1> QED  BY <1>1, <1>2 DEF EInv

\* The journal of a conversion becomes durable.
LEMMA SavePreparedEvident ==
  ASSUME IInv, IInv', EInv, SavePrepared
  PROVE  EInv'
<1>1. CopiesComplete' /\ NoSilentLoss'
  BY DEF EInv, SavePrepared, Goto, CopiesComplete, ArmedPcs, SwapPcs, EndPcs, CopyPcs, NoSilentLoss
<1>2. ArmsTheWhole'
  BY DEF IInv, SavePrepared, Record, ArmsTheWhole, Unprepared, AdmissionFollowsMarker,
         StepsFollowJournal, Unjournalled, Source
<1>3. OriginalReachable'
  BY DEF SavePrepared, Record, Present, OriginalReachable
<1>4. HoldersKnown'
  BY DEF EInv, IInv, SavePrepared, Record, HoldersKnown, CopyPcs, JournalCovers, StepsFollowJournal,
         Unjournalled, SwapPcs, SwapProgress
<1>5. CommitsShow'
  BY DEF SavePrepared, Goto, Record, CommitsShow
<1> QED  BY <1>1, <1>2, <1>3, <1>4, <1>5 DEF EInv

\* resume finds a journal.
LEMMA ResumeEvident ==
  ASSUME IInv, IInv', EInv, Resume
  PROVE  EInv'
<1>1. /\ ArmsTheWhole' /\ CopiesComplete' /\ OriginalReachable' /\ HoldersKnown'
      /\ CommitsShow' /\ NoSilentLoss'
  BY DEF EInv, Resume, ArmsTheWhole, Unprepared, Goto, CopiesComplete, ArmedPcs, SwapPcs, EndPcs,
         CopyPcs, OriginalReachable, HoldersKnown, CommitsShow, NoSilentLoss
<1> QED  BY <1>1 DEF EInv

\* _check_inventory_binding.
LEMMA CheckBindingEvident ==
  ASSUME IInv, IInv', EInv, CheckBinding
  PROVE  EInv'
<1>1. /\ ArmsTheWhole' /\ CopiesComplete' /\ OriginalReachable' /\ HoldersKnown'
      /\ CommitsShow' /\ NoSilentLoss'
  BY DEF EInv, CheckBinding, ArmsTheWhole, Unprepared, Goto, CopiesComplete, ArmedPcs, SwapPcs, EndPcs,
         CopyPcs, OriginalReachable, HoldersKnown, CommitsShow, NoSilentLoss
<1> QED  BY <1>1 DEF EInv

\* _reserve.
LEMMA ReserveStagingEvident ==
  ASSUME IInv, IInv', EInv, NEW d \in Db, ReserveStaging(d)
  PROVE  EInv'
<1>1. ArmsTheWhole' /\ CopiesComplete' /\ OriginalReachable' /\ CommitsShow' /\ NoSilentLoss'
  BY DEF EInv, ReserveStaging, ArmsTheWhole, Goto, CopiesComplete, ArmedPcs, SwapPcs, EndPcs, CopyPcs,
         OriginalReachable, CommitsShow, NoSilentLoss
<1>2. HoldersKnown'
  BY DEF EInv, ReserveStaging, Goto, SourceOK, HoldersKnown, CopyPcs
<1> QED  BY <1>1, <1>2 DEF EInv

\* The staging identity is recorded.
LEMMA SaveReservedEvident ==
  ASSUME IInv, IInv', EInv, SaveReserved
  PROVE  EInv'
<1>1. /\ ArmsTheWhole' /\ CopiesComplete' /\ OriginalReachable' /\ HoldersKnown'
      /\ CommitsShow' /\ NoSilentLoss'
  BY DEF EInv, SaveReserved, ArmsTheWhole, Unprepared, Goto, CopiesComplete, ArmedPcs, SwapPcs, EndPcs,
         CopyPcs, OriginalReachable, HoldersKnown, CommitsShow, NoSilentLoss
<1> QED  BY <1>1 DEF EInv

\* prepare and prepare_plain.
LEMMA ExportEvident ==
  ASSUME IInv, IInv', EInv, Export
  PROVE  EInv'
<1>1. ArmsTheWhole' /\ CopiesComplete' /\ OriginalReachable' /\ HoldersKnown' /\ NoSilentLoss'
  BY DEF EInv, Export, ArmsTheWhole, Unprepared, Goto, CopiesComplete, ArmedPcs, SwapPcs, EndPcs,
         CopyPcs, OriginalReachable, HoldersKnown, NoSilentLoss
<1>2. CommitsShow'
  BY DEF EInv, IInv, TypeOK, Export, Goto, CommitsShow
<1> QED  BY <1>1, <1>2 DEF EInv

\* An export becomes verified.
LEMMA SaveVerifiedEvident ==
  ASSUME IInv, IInv', EInv, SaveVerified
  PROVE  EInv'
<1>1. CopiesComplete' /\ HoldersKnown' /\ NoSilentLoss'
  BY DEF EInv, SaveVerified, Goto, CopiesComplete, ArmedPcs, SwapPcs, EndPcs, CopyPcs, HoldersKnown,
         NoSilentLoss
<1>2. ArmsTheWhole'
  BY DEF EInv, SaveVerified, Rewritten, ArmsTheWhole, Unprepared
<1>3. OriginalReachable'
  BY DEF EInv, SaveVerified, Rewritten, OriginalReachable
<1>4. CommitsShow'
  BY DEF EInv, SaveVerified, Goto, Rewritten, CommitsShow, HoldersKnown
<1> QED  BY <1>1, <1>2, <1>3, <1>4 DEF EInv

\* _verify_survivors over the whole journal.
LEMMA VerifySurvivorsEvident ==
  ASSUME IInv, IInv', EInv, VerifySurvivors
  PROVE  EInv'
<1>1. ArmsTheWhole' /\ OriginalReachable' /\ HoldersKnown' /\ CommitsShow' /\ NoSilentLoss'
  BY DEF EInv, VerifySurvivors, ArmsTheWhole, Unprepared, OriginalReachable, Goto, HoldersKnown, CopyPcs,
         CommitsShow, NoSilentLoss
<1>2. CopiesComplete'
  BY DEF VerifySurvivors, Goto, SurvivorsOK, SurvivorOK, CopiesComplete, Unprepared, CopyPcs
<1> QED  BY <1>1, <1>2 DEF EInv

\* The marker is published or removed.
LEMMA ArmOrDisarmEvident ==
  ASSUME IInv, IInv', EInv, ArmOrDisarm
  PROVE  EInv'
<1>1. CopiesComplete' /\ OriginalReachable' /\ HoldersKnown' /\ CommitsShow' /\ NoSilentLoss'
  BY DEF EInv, ArmOrDisarm, Goto, CopiesComplete, Unprepared, CopyPcs, OriginalReachable, HoldersKnown,
         CommitsShow, NoSilentLoss
<1>2. ArmsTheWhole'
  BY DEF EInv, ArmOrDisarm, ArmsTheWhole, Unprepared, CopiesComplete
<1> QED  BY <1>1, <1>2 DEF EInv

\* Every entry becomes armed.
LEMMA SaveArmedEvident ==
  ASSUME IInv, IInv', EInv, SaveArmed
  PROVE  EInv'
<1>1. HoldersKnown' /\ NoSilentLoss'
  BY DEF EInv, SaveArmed, Goto, HoldersKnown, CopyPcs, NoSilentLoss
<1>2. ArmsTheWhole'
  BY DEF IInv, TypeOK, SaveArmed, AllPhases, Rewritten, ArmsTheWhole, Unprepared
<1>3. CopiesComplete'
  BY DEF EInv, IInv, TypeOK, SaveArmed, Goto, AllPhases, Rewritten, CopiesComplete, Unprepared, ArmedPcs,
         CopyPcs
<1>4. OriginalReachable'
  BY DEF EInv, SaveArmed, AllPhases, Rewritten, OriginalReachable
<1>5. CommitsShow'
  BY DEF EInv, SaveArmed, Goto, AllPhases, Rewritten, CommitsShow
<1> QED  BY <1>1, <1>2, <1>3, <1>4, <1>5 DEF EInv

\* Recovery meets a published file.
LEMMA SkipSwappedEvident ==
  ASSUME IInv, IInv', EInv, NEW d \in Db, SkipSwapped(d)
  PROVE  EInv'
<1>1. /\ ArmsTheWhole' /\ CopiesComplete' /\ OriginalReachable' /\ HoldersKnown'
      /\ CommitsShow' /\ NoSilentLoss'
  BY DEF EInv, SkipSwapped, ArmsTheWhole, Unprepared, Goto, CopiesComplete, ArmedPcs, SwapPcs, CopyPcs,
         OriginalReachable, HoldersKnown, CommitsShow, NoSilentLoss
<1> QED  BY <1>1 DEF EInv

\* The holder scan of a swap.
LEMMA ScanHoldersEvident ==
  ASSUME IInv, IInv', EInv, NEW d \in Db, ScanHolders(d)
  PROVE  EInv'
<1>1. ArmsTheWhole' /\ OriginalReachable' /\ CommitsShow' /\ NoSilentLoss'
  BY DEF EInv, ScanHolders, ArmsTheWhole, Unprepared, OriginalReachable, Goto, CommitsShow, NoSilentLoss
<1>2. CopiesComplete'
  BY DEF EInv, IInv, TypeOK, ScanHolders, Goto, AlreadySwapped, CopiesComplete, Unprepared, ArmedPcs,
         SwapPcs, SurvivorsKept, JournalCovers, SwapProgress, Target
<1>3. HoldersKnown'
  BY DEF EInv, ScanHolders, Goto, ScanOK, HoldersKnown
<1> QED  BY <1>1, <1>2, <1>3 DEF EInv

\* The sidecar proof of a swap.
LEMMA SettleEvident ==
  ASSUME IInv, IInv', EInv, Settle
  PROVE  EInv'
<1>1. ArmsTheWhole' /\ CopiesComplete' /\ OriginalReachable' /\ HoldersKnown' /\ NoSilentLoss'
  BY DEF EInv, Settle, ArmsTheWhole, Unprepared, Goto, CopiesComplete, ArmedPcs, SwapPcs, CopyPcs,
         OriginalReachable, HoldersKnown, NoSilentLoss
<1>2. CommitsShow'
  BY DEF EInv, Settle, Goto, SettleOK, CommitsShow
<1> QED  BY <1>1, <1>2 DEF EInv

\* The identity proof of a swap.
LEMMA ProveIdentityEvident ==
  ASSUME IInv, IInv', EInv, ProveIdentity
  PROVE  EInv'
<1>1. ArmsTheWhole' /\ OriginalReachable' /\ HoldersKnown' /\ NoSilentLoss'
  BY DEF EInv, ProveIdentity, ArmsTheWhole, Unprepared, OriginalReachable, Goto, HoldersKnown, CopyPcs,
         NoSilentLoss
<1>2. CopiesComplete'
  BY DEF EInv, ProveIdentity, Goto, ProofOK, CopiesComplete, Unprepared, ArmedPcs, SwapPcs, CopyPcs,
         HoldersKnown
<1>3. CommitsShow'
  BY DEF EInv, ProveIdentity, Goto, ProofOK, CommitsShow
<1> QED  BY <1>1, <1>2, <1>3 DEF EInv

\* os.replace.
LEMMA ReplaceEvident ==
  ASSUME IInv, IInv', EInv, Replace
  PROVE  EInv'
<1>1. ArmsTheWhole'
  BY DEF EInv, Replace, ArmsTheWhole, Unprepared
<1>2. CopiesComplete'
  BY DEF EInv, Replace, Goto, TakePath, CopiesComplete, Unprepared, ArmedPcs, SwapPcs, CopyPcs
<1>3. OriginalReachable'
  BY DEF EInv, Replace, TakePath, Target, OriginalReachable
<1>4. HoldersKnown'
  BY DEF EInv, Replace, Goto, Displaced, TakePath, Target, HoldersKnown, CopyPcs, CopiesComplete
<1>5. CommitsShow'
  BY DEF EInv, Replace, Goto, TakePath, CommitsShow, CopiesComplete
<1>6. NoSilentLoss'
  BY DEF EInv, IInv, Replace, NoSilentLoss, CommitsShow, CopiesComplete, SwapProgress, SwapPcs
<1> QED  BY <1>1, <1>2, <1>3, <1>4, <1>5, <1>6 DEF EInv

\* The original is renamed aside.
LEMMA RetainOriginalEvident ==
  ASSUME IInv, IInv', EInv, RetainOriginal
  PROVE  EInv'
<1>1. ArmsTheWhole' /\ CopiesComplete' /\ NoSilentLoss'
  BY DEF EInv, RetainOriginal, ArmsTheWhole, Unprepared, Goto, CopiesComplete, ArmedPcs, SwapPcs,
         CopyPcs, NoSilentLoss
<1>2. OriginalReachable'
  BY DEF EInv, IInv, RetainOriginal, OriginalReachable, SwapProgress, SwapPcs
<1>3. HoldersKnown'
  BY DEF EInv, IInv, TypeOK, RetainOriginal, Goto, RetainOK, ProofOK, HoldersKnown
<1>4. CommitsShow'
  BY DEF EInv, IInv, RetainOriginal, Goto, RetainOK, ProofOK, CommitsShow, SwapProgress, SwapPcs
<1> QED  BY <1>1, <1>2, <1>3, <1>4 DEF EInv

\* The retained identity is recorded.
LEMMA SaveRetainedEvident ==
  ASSUME IInv, IInv', EInv, SaveRetained
  PROVE  EInv'
<1>1. /\ ArmsTheWhole' /\ CopiesComplete' /\ OriginalReachable' /\ HoldersKnown'
      /\ CommitsShow' /\ NoSilentLoss'
  BY DEF EInv, SaveRetained, ArmsTheWhole, Unprepared, Goto, CopiesComplete, ArmedPcs, SwapPcs, CopyPcs,
         OriginalReachable, HoldersKnown, CommitsShow, NoSilentLoss
<1> QED  BY <1>1 DEF EInv

\* The staged copy takes the empty path.
LEMMA PublishEvident ==
  ASSUME IInv, IInv', EInv, Publish
  PROVE  EInv'
<1>1. ArmsTheWhole' /\ NoSilentLoss'
  BY DEF EInv, Publish, ArmsTheWhole, Unprepared, NoSilentLoss
<1>2. CopiesComplete'
  BY DEF EInv, Publish, Goto, TakePath, CopiesComplete, Unprepared, ArmedPcs, SwapPcs, CopyPcs
<1>3. OriginalReachable'
  BY DEF EInv, Publish, TakePath, PublishOK, OriginalReachable
<1>4. HoldersKnown'
  BY DEF EInv, IInv, Publish, Goto, TakePath, PublishOK, HoldersKnown, CopyPcs, SwapProgress
<1>5. CommitsShow'
  BY DEF EInv, IInv, TypeOK, Publish, Goto, TakePath, PublishOK, CommitsShow, HoldersKnown
<1> QED  BY <1>1, <1>2, <1>3, <1>4, <1>5 DEF EInv

\* _cleanup_sidecars.
LEMMA CleanupSidecarsEvident ==
  ASSUME IInv, IInv', EInv, CleanupSidecars
  PROVE  EInv'
<1>1. ArmsTheWhole' /\ CopiesComplete' /\ OriginalReachable' /\ HoldersKnown'
  BY DEF EInv, CleanupSidecars, ArmsTheWhole, Unprepared, Goto, CopiesComplete, ArmedPcs, SwapPcs,
         CopyPcs, OriginalReachable, HoldersKnown
<1>2. CommitsShow'
  BY DEF EInv, IInv, CleanupSidecars, Goto, CommitsShow, SwapProgress
<1>3. NoSilentLoss'
  BY DEF EInv, CleanupSidecars, NoSilentLoss, CommitsShow
<1> QED  BY <1>1, <1>2, <1>3 DEF EInv

\* An entry becomes swapped.
LEMMA SaveSwappedEvident ==
  ASSUME IInv, IInv', EInv, SaveSwapped
  PROVE  EInv'
<1>1. HoldersKnown' /\ NoSilentLoss'
  BY DEF EInv, SaveSwapped, Goto, HoldersKnown, CopyPcs, NoSilentLoss
<1>2. ArmsTheWhole'
  BY DEF EInv, SaveSwapped, Rewritten, ArmsTheWhole, Unprepared
<1>3. CopiesComplete'
  BY DEF EInv, SaveSwapped, Goto, Rewritten, CopiesComplete, Unprepared, ArmedPcs, SwapPcs, CopyPcs
<1>4. OriginalReachable'
  BY DEF EInv, SaveSwapped, Rewritten, OriginalReachable
<1>5. CommitsShow'
  BY DEF EInv, SaveSwapped, Goto, Rewritten, CommitsShow
<1> QED  BY <1>1, <1>2, <1>3, <1>4, <1>5 DEF EInv

\* Every entry becomes complete.
LEMMA SaveCompleteEvident ==
  ASSUME IInv, IInv', EInv, SaveComplete
  PROVE  EInv'
<1>1. /\ journal'.files = journal.files
      /\ \A d \in journal.files : journal'.phase[d] = "complete"
  BY DEF IInv, TypeOK, JournalType, SaveComplete, AllPhases, Rewritten
<1>2. Unprepared' = {}
  BY <1>1 DEF Unprepared
<1>3. ArmsTheWhole'
  BY <1>2 DEF ArmsTheWhole
<1>4. CopiesComplete'
  BY <1>1, <1>2 DEF EInv, SaveComplete, CopiesComplete, Goto, CopyPcs, ArmedPcs, SwapPcs, EndPcs
<1>5. OriginalReachable'
  BY DEF EInv, SaveComplete, AllPhases, Rewritten, OriginalReachable
<1>6. HoldersKnown' /\ NoSilentLoss'
  BY DEF EInv, SaveComplete, Goto, HoldersKnown, CopyPcs, NoSilentLoss
<1>7. CommitsShow'
  BY DEF EInv, SaveComplete, Goto, AllPhases, Rewritten, CommitsShow
<1> QED  BY <1>3, <1>4, <1>5, <1>6, <1>7 DEF EInv

\* A retained original is removed.
LEMMA RetireOriginalEvident ==
  ASSUME IInv, IInv', EInv, NEW d \in Db, RetireOriginal(d)
  PROVE  EInv'
<1>1. ArmsTheWhole' /\ CopiesComplete' /\ HoldersKnown'
  BY DEF EInv, RetireOriginal, ArmsTheWhole, Unprepared, CopiesComplete, HoldersKnown
<1>2. OriginalReachable'
  BY DEF EInv, RetireOriginal, RetireOK, OriginalReachable
<1>3. CommitsShow'
  BY DEF EInv, RetireOriginal, RetireOK, CommitsShow
<1>4. NoSilentLoss'
  BY DEF EInv, RetireOriginal, RetireOK, NoSilentLoss, CommitsShow
<1> QED  BY <1>1, <1>2, <1>3, <1>4 DEF EInv

\* No retained original is left.
LEMMA RetireDoneEvident ==
  ASSUME IInv, IInv', EInv, RetireDone
  PROVE  EInv'
<1>1. /\ ArmsTheWhole' /\ CopiesComplete' /\ OriginalReachable' /\ HoldersKnown'
      /\ CommitsShow' /\ NoSilentLoss'
  BY DEF EInv, RetireDone, ArmsTheWhole, Unprepared, Goto, CopiesComplete, ArmedPcs, EndPcs, CopyPcs,
         OriginalReachable, HoldersKnown, CommitsShow, NoSilentLoss
<1> QED  BY <1>1 DEF EInv

\* A scheduled intent is removed.
LEMMA RemovePendingEvident ==
  ASSUME IInv, IInv', EInv,
         \/ RemovePending("rm_enc", "enc", "rm_dec")
         \/ RemovePending("rm_dec", "dec", "rm_journal")
  PROVE  EInv'
<1>1. /\ ArmsTheWhole' /\ CopiesComplete' /\ OriginalReachable' /\ HoldersKnown'
      /\ CommitsShow' /\ NoSilentLoss'
  BY DEF EInv, RemovePending, ArmsTheWhole, Unprepared, Goto, CopiesComplete, ArmedPcs, EndPcs, CopyPcs,
         OriginalReachable, HoldersKnown, CommitsShow, NoSilentLoss
<1> QED  BY <1>1 DEF EInv

\* The journal goes.
LEMMA RemoveJournalEvident ==
  ASSUME IInv, IInv', EInv, RemoveJournal
  PROVE  EInv'
<1>1. CopiesComplete' /\ NoSilentLoss'
  BY DEF EInv, RemoveJournal, Goto, CopiesComplete, ArmedPcs, SwapPcs, EndPcs, CopyPcs, NoSilentLoss
<1>2. ArmsTheWhole'
  BY DEF RemoveJournal, NoJournal, ArmsTheWhole
<1>3. OriginalReachable'
  BY DEF RemoveJournal, NoJournal, OriginalReachable
<1>4. HoldersKnown'
  BY DEF EInv, IInv, RemoveJournal, NoJournal, HoldersKnown, CopyPcs, JournalCovers, SwapPcs,
         SwapProgress
<1>5. CommitsShow'
  BY DEF RemoveJournal, Goto, NoJournal, CommitsShow
<1> QED  BY <1>1, <1>2, <1>3, <1>4, <1>5 DEF EInv

\* adopt_legacy journals the legacy root.
LEMMA StartAdoptionEvident ==
  ASSUME IInv, IInv', EInv, StartAdoption
  PROVE  EInv'
<1>1. ArmsTheWhole' /\ CopiesComplete' /\ NoSilentLoss'
  BY DEF EInv, StartAdoption, ArmsTheWhole, Goto, CopiesComplete, ArmedPcs, SwapPcs, EndPcs, CopyPcs,
         NoSilentLoss
<1>2. OriginalReachable'
  BY DEF StartAdoption, Record, OriginalReachable
<1>3. HoldersKnown'
  BY DEF EInv, IInv, StartAdoption, Record, HoldersKnown, CopyPcs, JournalCovers, ArmedPcs, SwapPcs,
         SwapProgress
<1>4. CommitsShow'
  BY DEF StartAdoption, Goto, Record, CommitsShow
<1> QED  BY <1>1, <1>2, <1>3, <1>4 DEF EInv

\* _finish_adoption.
LEMMA FinishAdoptionEvident ==
  ASSUME IInv, IInv', EInv, FinishAdoption
  PROVE  EInv'
<1>1. CopiesComplete' /\ OriginalReachable' /\ HoldersKnown' /\ CommitsShow' /\ NoSilentLoss'
  BY DEF EInv, FinishAdoption, Goto, CopiesComplete, ArmedPcs, SwapPcs, EndPcs, CopyPcs,
         OriginalReachable, HoldersKnown, CommitsShow, NoSilentLoss
<1>2. ArmsTheWhole'
  BY DEF IInv, FinishAdoption, ArmsTheWhole, StepsFollowJournal, Adopting
<1> QED  BY <1>1, <1>2 DEF EInv

\* restore_database reserves its staging file.
LEMMA StartRestoreEvident ==
  ASSUME IInv, IInv', EInv, NEW d \in Db, StartRestore(d)
  PROVE  EInv'
<1>1. ArmsTheWhole' /\ CopiesComplete' /\ OriginalReachable' /\ HoldersKnown' /\ NoSilentLoss'
  BY DEF EInv, StartRestore, ArmsTheWhole, Unprepared, Goto, CopiesComplete, ArmedPcs, SwapPcs, EndPcs,
         CopyPcs, OriginalReachable, HoldersKnown, NoSilentLoss
<1>2. CommitsShow'
  BY DEF IInv, StartRestore, Journalled, CommitsShow, JournalCovers, SwapProgress, SwapPcs
<1> QED  BY <1>1, <1>2 DEF EInv

\* The backup is copied.
LEMMA RestoreCopyEvident ==
  ASSUME IInv, IInv', EInv, RestoreCopy
  PROVE  EInv'
<1>1. ArmsTheWhole' /\ CopiesComplete' /\ OriginalReachable' /\ HoldersKnown' /\ NoSilentLoss'
  BY DEF EInv, RestoreCopy, ArmsTheWhole, Unprepared, Goto, CopiesComplete, ArmedPcs, SwapPcs, EndPcs,
         CopyPcs, OriginalReachable, HoldersKnown, NoSilentLoss
<1>2. CommitsShow'
  BY DEF IInv, RestoreCopy, CommitsShow, JournalCovers, StepsFollowJournal, Unjournalled
<1> QED  BY <1>1, <1>2 DEF EInv

\* The journal of a restore becomes durable.
LEMMA SaveRestoreJournalEvident ==
  ASSUME IInv, IInv', EInv, SaveRestoreJournal
  PROVE  EInv'
<1>1. CopiesComplete' /\ NoSilentLoss'
  BY DEF EInv, SaveRestoreJournal, Goto, CopiesComplete, ArmedPcs, SwapPcs, EndPcs, CopyPcs, NoSilentLoss
<1>2. ArmsTheWhole'
  BY DEF IInv, TypeOK, SaveRestoreJournal, Record, ArmsTheWhole, Unprepared
<1>3. OriginalReachable'
  BY DEF SaveRestoreJournal, Record, Present, OriginalReachable
<1>4. HoldersKnown'
  BY DEF EInv, IInv, SaveRestoreJournal, Goto, Record, HoldersKnown, CopyPcs, JournalCovers,
         StepsFollowJournal, Unjournalled
<1>5. CommitsShow'
  BY DEF SaveRestoreJournal, Goto, Record, CommitsShow
<1> QED  BY <1>1, <1>2, <1>3, <1>4, <1>5 DEF EInv

\* A proof fails.
LEMMA RefuseEvident ==
  ASSUME IInv, IInv', EInv, Refuse
  PROVE  EInv'
<1>1. ArmsTheWhole' /\ OriginalReachable' /\ NoSilentLoss'
  BY DEF EInv, Refuse, ArmsTheWhole, Unprepared, OriginalReachable, NoSilentLoss
<1>2. CopiesComplete'
  BY DEF Refuse, Stop, Goto, CopiesComplete, ArmedPcs, SwapPcs, EndPcs, CopyPcs
<1>3. HoldersKnown'
  BY DEF EInv, Refuse, Stop, Goto, HoldersKnown, CopyPcs
<1>4. CommitsShow'
  BY DEF EInv, Refuse, Stop, Goto, CommitsShow
<1> QED  BY <1>1, <1>2, <1>3, <1>4 DEF EInv

\* The maintenance process dies.
LEMMA CrashEvident ==
  ASSUME IInv, IInv', EInv, Crash
  PROVE  EInv'
<1>1. ArmsTheWhole' /\ OriginalReachable' /\ NoSilentLoss'
  BY DEF EInv, Crash, ArmsTheWhole, Unprepared, OriginalReachable, NoSilentLoss
<1>2. CopiesComplete'
  BY DEF Crash, Stop, Goto, CopiesComplete, ArmedPcs, SwapPcs, EndPcs, CopyPcs
<1>3. HoldersKnown'
  BY DEF EInv, Crash, Stop, Goto, HoldersKnown, CopyPcs
<1>4. CommitsShow'
  BY DEF EInv, Crash, Stop, Goto, CommitsShow
<1> QED  BY <1>1, <1>2, <1>3, <1>4 DEF EInv

LEMMA InitEInv == Init => EInv
<1> SUFFICES ASSUME Init PROVE EInv
  OBVIOUS
<1>1. journal.dir = "none" /\ journal.files = {} /\ journal.inv = {}
  BY DEF Init, NoJournal
<1>2. ArmsTheWhole /\ OriginalReachable /\ NoSilentLoss
  BY <1>1 DEF Init, ArmsTheWhole, OriginalReachable, NoSilentLoss
<1>3. CopiesComplete
  BY DEF Init, CopiesComplete, ArmedPcs, SwapPcs, EndPcs, CopyPcs
<1>4. HoldersKnown
  BY DEF Init, HoldersKnown, CopyPcs
<1>5. CommitsShow
  BY <1>1 DEF Init, CommitsShow
<1> QED  BY <1>2, <1>3, <1>4, <1>5 DEF EInv

\* Every step keeps EInv where IInv holds before it and after it.
LEMMA NextEvident == IInv /\ IInv' /\ EInv /\ [Next]_vars => EInv'
<1> SUFFICES ASSUME IInv, IInv', EInv, [Next]_vars PROVE EInv'
  OBVIOUS
<1>1. ASSUME MaintenanceStep PROVE EInv'
  <2>1. ASSUME NEW d \in Db, CheckpointSource(d) \/ ReserveStaging(d) PROVE EInv'
    BY <2>1, CheckpointSourceEvident, ReserveStagingEvident
  <2>2. ASSUME NEW d \in Db, SkipSwapped(d) \/ ScanHolders(d) \/ RetireOriginal(d) PROVE EInv'
    BY <2>2, SkipSwappedEvident, ScanHoldersEvident, RetireOriginalEvident
  <2>3. ASSUME \/ SavePrepared \/ CheckBinding \/ SaveReserved \/ Export \/ SaveVerified
               \/ VerifySurvivors \/ ArmOrDisarm \/ SaveArmed
        PROVE  EInv'
    BY <2>3, SavePreparedEvident, CheckBindingEvident, SaveReservedEvident, ExportEvident,
       SaveVerifiedEvident, VerifySurvivorsEvident, ArmOrDisarmEvident, SaveArmedEvident
  <2>4. ASSUME \/ Settle \/ ProveIdentity \/ Replace \/ RetainOriginal \/ SaveRetained \/ Publish
               \/ CleanupSidecars \/ SaveSwapped \/ SaveComplete \/ RetireDone
        PROVE  EInv'
    BY <2>4, SettleEvident, ProveIdentityEvident, ReplaceEvident, RetainOriginalEvident,
       SaveRetainedEvident, PublishEvident, CleanupSidecarsEvident, SaveSwappedEvident,
       SaveCompleteEvident, RetireDoneEvident
  <2>5. ASSUME \/ RemovePending("rm_enc", "enc", "rm_dec")
               \/ RemovePending("rm_dec", "dec", "rm_journal")
        PROVE  EInv'
    BY <2>5, RemovePendingEvident
  <2>6. ASSUME RemoveJournal \/ FinishAdoption \/ RestoreCopy \/ SaveRestoreJournal \/ Refuse
        PROVE  EInv'
    BY <2>6, RemoveJournalEvident, FinishAdoptionEvident, RestoreCopyEvident, SaveRestoreJournalEvident,
       RefuseEvident
  <2> QED  BY <1>1, <2>1, <2>2, <2>3, <2>4, <2>5, <2>6 DEF MaintenanceStep
<1>2. ASSUME Resume \/ StartStep \/ Crash PROVE EInv'
  BY <1>2, ResumeEvident, StartConvertEvident, StartRestoreEvident, StartAdoptionEvident, CrashEvident
  DEF StartStep
<1>3. ASSUME RuntimeStep PROVE EInv'
  BY <1>3, AdmitPlainEvident, AdmitEncryptedEvident, ScheduleEvident, UnscheduleEvident,
     RuntimeStopEvident, RuntimeCommitEvident DEF RuntimeStep
<1>4. ASSUME ForeignStep PROVE EInv'
  BY <1>4, ForeignOpenEvident, ForeignCommitEvident, ForeignCommitOldEvident, ForeignCloseEvident,
     ForeignCreateEvident DEF ForeignStep
<1>5. CASE UNCHANGED vars
  BY <1>5
  DEF vars, EInv, ArmsTheWhole, Unprepared, CopiesComplete, OriginalReachable, HoldersKnown, CommitsShow,
      NoSilentLoss
<1> QED  BY <1>1, <1>2, <1>3, <1>4, <1>5 DEF Next

LEMMA MigrationEvidence == Spec => []EInv
BY InitEInv, NextEvident, MigrationInvariant, PTL DEF Spec

\* "Recovery must never arm only the prefix prepared so far": whatever crashes, and
\* however often recovery resumes, the marker changes only once every file of the
\* journal was exported and verified, for every set of databases.
THEOREM MigrationArmsTheWhole == Spec => []ArmsTheWhole
<1>1. EInv => ArmsTheWhole  BY DEF EInv
<1> QED  BY <1>1, MigrationEvidence, PTL

\* At every point where a conversion, a recovery or a restore may die, each path of
\* its inventory has a file, or its original lies under the name the journal records.
THEOREM MigrationKeepsOriginals == Spec => []OriginalReachable
<1>1. EInv => OriginalReachable  BY DEF EInv
<1> QED  BY <1>1, MigrationEvidence, PTL

\* No commit of a process without the lease is dropped unnoticed, whenever it opens,
\* writes, crashes or closes, unless it opened the file between the holder scan of
\* that file's swap and the end of the swap.
THEOREM MigrationLosesNothing == Spec => []NoSilentLoss
<1>1. EInv => NoSilentLoss  BY DEF EInv
<1> QED  BY <1>1, MigrationEvidence, PTL

\* The two steps that put a copy at a path find it complete and recorded.
LEMMA TakesVerified ==
  ASSUME IInv, EInv, Replace \/ Publish
  PROVE  /\ staged[cur] = "full" /\ cur \in recorded /\ journal.phase[cur] # "prepared"
         /\ marker = (IF journal.dir = "decrypt" THEN "none" ELSE "v2")
         /\ cur \in Db /\ \A d \in Db \ {cur} : mainId'[d] = mainId[d]
<1>1. pc \in {"replace", "publish"} /\ cur \in Db
  BY DEF IInv, TypeOK, FilePcs, Replace, Publish
<1>2. cur \in journal.files /\ marker = (IF journal.dir = "decrypt" THEN "none" ELSE "v2")
  BY <1>1 DEF IInv, SwapProgress, SwapPcs, ArmedPcs
<1>3. staged[cur] = "full" /\ Unprepared = {}
  BY <1>1 DEF EInv, CopiesComplete, CopyPcs, ArmedPcs, SwapPcs
<1>4. cur \in recorded
  BY <1>1 DEF EInv, CopiesComplete, Replace, Publish, PublishOK
<1>5. \A d \in Db \ {cur} : mainId'[d] = mainId[d]
  BY <1>1 DEF IInv, TypeOK, Replace, Publish, TakePath
<1> QED  BY <1>1, <1>2, <1>3, <1>4, <1>5 DEF Unprepared

\* Every other step makes no file a published copy.
LEMMA OthersTakeNothing ==
  ASSUME IInv, Next, ~Replace, ~Publish
  PROVE  \A d \in Db : mainId'[d] = "prepared" => mainId[d] = "prepared"
<1>1. ASSUME MaintenanceStep
      PROVE  \/ UNCHANGED mainId \/ mainId' = [d \in Db |-> "source"]
  <2>1. ASSUME NEW d \in Db,
               \/ CheckpointSource(d) \/ ReserveStaging(d)
               \/ SkipSwapped(d) \/ ScanHolders(d) \/ RetireOriginal(d)
        PROVE  UNCHANGED mainId
    BY <2>1 DEF CheckpointSource, ReserveStaging, SkipSwapped, ScanHolders, RetireOriginal
  <2>2. ASSUME SavePrepared \/ RemoveJournal \/ SaveRestoreJournal
        PROVE  mainId' = [d \in Db |-> "source"]
    BY <2>2 DEF SavePrepared, RemoveJournal, SaveRestoreJournal, Record
  <2>3. ASSUME \/ CheckBinding \/ SaveReserved \/ Export \/ SaveVerified \/ VerifySurvivors
               \/ ArmOrDisarm \/ SaveArmed \/ Settle \/ ProveIdentity \/ RetainOriginal
               \/ SaveRetained \/ CleanupSidecars \/ SaveSwapped
        PROVE  UNCHANGED mainId
    BY <2>3
    DEF CheckBinding, SaveReserved, Export, SaveVerified, VerifySurvivors, ArmOrDisarm, SaveArmed,
        Settle, ProveIdentity, RetainOriginal, SaveRetained, CleanupSidecars, SaveSwapped
  <2>4. ASSUME \/ SaveComplete \/ RetireDone \/ FinishAdoption \/ RestoreCopy \/ Refuse
               \/ RemovePending("rm_enc", "enc", "rm_dec")
               \/ RemovePending("rm_dec", "dec", "rm_journal")
        PROVE  UNCHANGED mainId
    BY <2>4 DEF SaveComplete, RetireDone, FinishAdoption, RestoreCopy, Refuse, RemovePending
  <2> QED  BY <1>1, <2>1, <2>2, <2>3, <2>4 DEF MaintenanceStep
<1>2. ASSUME StartStep \/ Resume \/ Crash
      PROVE  \/ UNCHANGED mainId \/ mainId' = [d \in Db |-> "source"]
  BY <1>2 DEF StartStep, StartConvert, StartRestore, StartAdoption, Record, Resume, Crash
<1>3. ASSUME RuntimeStep PROVE UNCHANGED mainId
  BY <1>3 DEF RuntimeStep, AdmitPlain, AdmitEncrypted, Schedule, Unschedule, RuntimeStop, RuntimeCommit
<1>4. ASSUME ForeignStep
      PROVE  UNCHANGED mainId \/ \E d \in Db : mainId' = [mainId EXCEPT ![d] = "other"]
  BY <1>4 DEF ForeignStep, ForeignOpen, ForeignCommit, ForeignCommitOld, ForeignClose, ForeignCreate
<1>5. CASE \E d \in Db : mainId' = [mainId EXCEPT ![d] = "other"]
  BY <1>5 DEF IInv, TypeOK
<1>6. CASE UNCHANGED mainId \/ mainId' = [d \in Db |-> "source"]
  BY <1>6
<1> QED  BY <1>1, <1>2, <1>3, <1>4, <1>5, <1>6 DEF Next

\* A path changes its file only to a complete copy whose identity the journal has, of
\* an entry that was verified, while the marker is already the target's.
THEOREM MigrationSwapsVerified == Spec => SwapsOnlyVerified
<1> DEFINE Taken == \A d \in Db : mainId'[d] = "prepared" /\ mainId[d] # "prepared" =>
                     /\ staged[d] = "full" /\ d \in recorded
                     /\ journal.phase[d] # "prepared"
                     /\ marker = (IF journal.dir = "decrypt" THEN "none" ELSE "v2")
<1>1. IInv /\ EInv /\ [Next]_vars => [Taken]_vars
  <2> SUFFICES ASSUME IInv, EInv, Next PROVE Taken
    BY DEF vars
  <2>1. CASE Replace \/ Publish
    BY <2>1, TakesVerified
  <2>2. CASE ~Replace /\ ~Publish
    BY <2>2, OthersTakeNothing
  <2> QED  BY <2>1, <2>2
<1> QED  BY <1>1, MigrationInvariant, MigrationEvidence, PTL DEF Spec, SwapsOnlyVerified

-----------------------------------------------------------------------------
(* The home keeps what DbHome promises. *)

\* The files of a home have no third format.
LEMMA FormatsInRange ==
  ASSUME TypeOK PROVE HomeFormats \subseteq {"plain", "enc"}
BY DEF TypeOK, HomeFormats, Present

\* The records and the process move without the home's runtimes seeing it.
LEMMA HomeStutters ==
  ASSUME main' = main, admitted' = admitted, journal'.dir = journal.dir,
         marker' = marker \/ Journalled
  PROVE  UNCHANGED <<HomeMode, admitted, HomeFormats>>
BY DEF HomeMode, HomeFormats, Present, Journalled

\* Files are exchanged only behind a journal.
LEMMA HomeConverts ==
  ASSUME IInv, IInv', Journalled, admitted' = admitted, journal' = journal
  PROVE  Home!Convert
<1>1. HomeMode = "closed" /\ HomeMode' = HomeMode
  BY DEF HomeMode, Journalled
<1>2. HomeFormats' \subseteq {"plain", "enc"}
  BY DEF IInv, TypeOK, HomeFormats, Present
<1> QED  BY <1>1, <1>2 DEF Home!Convert, Home!Formats

\* A journal closes a home nobody is admitted to.
LEMMA HomeCloses ==
  ASSUME admitted = {}, admitted' = admitted, main' = main, journal'.dir # "none"
  PROVE  Home!Close
BY DEF Home!Close, HomeMode, HomeFormats, Present, Journalled

\* The end of a conversion reopens the home in the one format all files have.
LEMMA HomeReopens ==
  ASSUME IInv, IInv', RemoveJournal
  PROVE  \E k \in Home!Formats : Home!Reopen(k)
<1>1. Journalled /\ ~Journalled' /\ marker \in {"none", "v2"} /\ marker' = marker
  BY DEF IInv, StepsFollowJournal, SwapProgress, ArmedPcs, EndPcs, Unjournalled, Adopting, RemoveJournal,
         Journalled, NoJournal
<1>2. HomeMode = "closed" /\ HomeMode' = (IF marker = "none" THEN "plain" ELSE "enc")
  BY <1>1 DEF HomeMode
<1>3. main' = main /\ admitted' = admitted /\ HomeFormats' = HomeFormats
  BY DEF RemoveJournal, HomeFormats, Present
<1>4. \A d \in Db : main[d] \in {"absent", HomeMode'}
  BY <1>1, <1>2, <1>3 DEF IInv, TypeOK, AdmissionFollowsMarker, Journalled
<1>5. HomeFormats \subseteq {HomeMode'}
  BY <1>4 DEF HomeFormats, Present
<1> QED  BY <1>2, <1>3, <1>5 DEF Home!Reopen, Home!Formats

\* Admission, work and exit of a runtime are the promise's own.
LEMMA RuntimeRefines ==
  ASSUME IInv, IInv', RuntimeStep
  PROVE  [Home!Next]_<<HomeMode, admitted, HomeFormats>>
<1>1. CASE AdmitPlain
  <2>1. HomeMode = "plain" /\ HomeMode' = HomeMode /\ HomeFormats' = HomeFormats
    BY <1>1 DEF AdmitPlain, HomeMode, HomeFormats, Present, Journalled
  <2> QED  BY <1>1, <2>1 DEF AdmitPlain, Home!Next, Home!Admit, Home!Formats
<1>2. CASE AdmitEncrypted
  <2>1. HomeMode = "enc" /\ HomeMode' = HomeMode /\ HomeFormats' = HomeFormats
    BY <1>2 DEF AdmitEncrypted, HomeMode, HomeFormats, Present, Journalled
  <2> QED  BY <1>2, <2>1 DEF AdmitEncrypted, Home!Next, Home!Admit, Home!Formats
<1>3. CASE Schedule \/ Unschedule
  BY <1>3, HomeStutters DEF Schedule, Unschedule
<1>4. ASSUME NEW k \in {"plain", "enc"}, RuntimeStop(k)
      PROVE  [Home!Next]_<<HomeMode, admitted, HomeFormats>>
  <2>1. HomeMode' = HomeMode /\ HomeFormats' = HomeFormats
    BY <1>4 DEF RuntimeStop, HomeMode, HomeFormats, Present, Journalled
  <2> QED  BY <1>4, <2>1 DEF RuntimeStop, Home!Next, Home!Leave, Home!Formats
<1>5. ASSUME NEW k \in {"plain", "enc"}, NEW d \in Db, RuntimeCommit(k, d)
      PROVE  [Home!Next]_<<HomeMode, admitted, HomeFormats>>
  <2>1. HomeMode' = HomeMode
    BY <1>5 DEF RuntimeCommit, HomeMode, Journalled
  <2>2. HomeFormats' = HomeFormats \cup {k}
    BY <1>5 DEF RuntimeCommit, HomeFormats, Present, IInv, TypeOK
  <2> QED  BY <1>5, <2>1, <2>2 DEF RuntimeCommit, Home!Next, Home!Write, Home!Formats
<1> QED  BY <1>1, <1>2, <1>3, <1>4, <1>5 DEF RuntimeStep

\* Every step of maintenance converts, closes or reopens the home, or goes
\* unnoticed.
LEMMA MaintenanceRefines ==
  ASSUME IInv, IInv', MaintenanceStep \/ Resume \/ StartStep \/ Crash
  PROVE  [Home!Next]_<<HomeMode, admitted, HomeFormats>>
<1>1. CASE Replace \/ RetainOriginal \/ Publish
  <2>1. Journalled /\ admitted' = admitted /\ journal' = journal
    BY <1>1
    DEF Replace, RetainOriginal, Publish, Journalled, IInv, StepsFollowJournal, Unjournalled, Adopting
  <2> QED  BY <2>1, HomeConverts DEF Home!Next
<1>2. CASE SavePrepared \/ SaveRestoreJournal \/ StartAdoption
  <2>1. admitted = {} /\ admitted' = admitted /\ main' = main /\ journal'.dir # "none"
    BY <1>2
    DEF SavePrepared, SaveRestoreJournal, StartAdoption, Record, Exclusive, IInv, StepsFollowJournal,
        AdmissionFollowsMarker
  <2> QED  BY <2>1, HomeCloses DEF Home!Next
<1>3. CASE RemoveJournal
  BY <1>3, HomeReopens DEF Home!Next
<1>4. CASE ArmOrDisarm \/ FinishAdoption
  <2>1. main' = main /\ admitted' = admitted /\ journal' = journal /\ Journalled
    BY <1>4
    DEF ArmOrDisarm, FinishAdoption, Journalled, IInv, StepsFollowJournal, Unjournalled, Adopting
  <2> QED  BY <2>1, HomeStutters
<1>5. CASE SaveVerified \/ SaveArmed \/ SaveSwapped \/ SaveComplete
  <2>1. main' = main /\ admitted' = admitted /\ marker' = marker /\ journal'.dir = journal.dir
    BY <1>5 DEF SaveVerified, SaveArmed, SaveSwapped, SaveComplete, AllPhases, Rewritten
  <2> QED  BY <2>1, HomeStutters
<1>6. CASE Resume \/ Crash \/ StartStep \/ Refuse
  <2>1. StartAdoption \/ (main' = main /\ admitted' = admitted /\ marker' = marker /\ journal' = journal)
    BY <1>6 DEF Resume, Crash, Refuse, StartStep, StartConvert, StartRestore
  <2> QED  BY <1>2, <2>1, HomeStutters
<1>7. CASE \/ CheckBinding \/ SaveReserved \/ Export \/ VerifySurvivors \/ Settle \/ ProveIdentity
           \/ SaveRetained \/ CleanupSidecars \/ RetireDone \/ RestoreCopy
           \/ RemovePending("rm_enc", "enc", "rm_dec") \/ RemovePending("rm_dec", "dec", "rm_journal")
  <2>1. main' = main /\ admitted' = admitted /\ marker' = marker /\ journal' = journal
    BY <1>7
    DEF CheckBinding, SaveReserved, Export, VerifySurvivors, Settle, ProveIdentity, SaveRetained,
        CleanupSidecars, RetireDone, RestoreCopy, RemovePending
  <2> QED  BY <2>1, HomeStutters
<1>8. ASSUME NEW d \in Db, \/ CheckpointSource(d) \/ ReserveStaging(d) \/ SkipSwapped(d)
                           \/ ScanHolders(d) \/ RetireOriginal(d)
      PROVE  [Home!Next]_<<HomeMode, admitted, HomeFormats>>
  <2>1. main' = main /\ admitted' = admitted /\ marker' = marker /\ journal' = journal
    BY <1>8 DEF CheckpointSource, ReserveStaging, SkipSwapped, ScanHolders, RetireOriginal
  <2> QED  BY <2>1, HomeStutters
<1> QED  BY <1>1, <1>2, <1>3, <1>4, <1>5, <1>6, <1>7, <1>8 DEF MaintenanceStep

\* A process without the lease changes a format only in the gap of a publication.
LEMMA ForeignRefines ==
  ASSUME IInv, IInv', ForeignStep
  PROVE  [Home!Next]_<<HomeMode, admitted, HomeFormats>>
<1>1. PICK d \in Db : \/ ForeignOpen(d) \/ ForeignCommit(d) \/ ForeignCommitOld(d)
                      \/ ForeignClose(d) \/ ForeignCreate(d)
  BY DEF ForeignStep
<1>2. CASE ForeignCreate(d)
  <2>1. Journalled /\ admitted' = admitted /\ journal' = journal
    BY <1>2 DEF ForeignCreate, IInv, JournalCovers, Journalled
  <2> QED  BY <2>1, HomeConverts DEF Home!Next
<1>3. CASE ~ForeignCreate(d)
  <2>1. main' = main /\ admitted' = admitted /\ marker' = marker /\ journal' = journal
    BY <1>1, <1>3 DEF ForeignOpen, ForeignCommit, ForeignCommitOld, ForeignClose
  <2> QED  BY <2>1, HomeStutters
<1> QED  BY <1>2, <1>3

\* The detailed home implements the abstract one: runtimes run only over files of
\* their format, formats change only while the home is closed, and it reopens
\* only in a format that all its files have.
THEOREM MigrationKeepsHome == Spec => HomeSpec
<1>1. Init => Home!Init
  <2> SUFFICES ASSUME Init PROVE Home!Init
    OBVIOUS
  <2>1. HomeMode \in {"plain", "enc", "closed"} /\ admitted = {}
    BY DEF Init, HomeMode
  <2>2. HomeFormats \subseteq {"plain", "enc"}
    BY InitIInv, FormatsInRange DEF IInv
  <2>3. HomeMode # "closed" => \A d \in Db : main[d] \in {"absent", HomeMode}
    BY DEF Init, HomeMode
  <2>4. HomeMode # "closed" => HomeFormats \subseteq {HomeMode}
    BY <2>3 DEF HomeFormats, Present
  <2> QED  BY <2>1, <2>2, <2>4 DEF Home!Init, Home!Formats
<1>2. IInv /\ IInv' /\ [Next]_vars => [Home!Next]_<<HomeMode, admitted, HomeFormats>>
  <2>1. CASE UNCHANGED vars
    BY <2>1, HomeStutters DEF vars
  <2> QED  BY <2>1, RuntimeRefines, MaintenanceRefines, ForeignRefines DEF Next
<1> QED  BY <1>1, <1>2, MigrationInvariant, PTL DEF Spec, HomeSpec, Home!Spec

-----------------------------------------------------------------------------
(* The handles.                                                             *)

USE DEF authority, handles, stack, At

\* What a thread does changes nothing of where the others are.
LEMMA PlaceSame ==
  ASSUME NEW u \in Thread, at'[u] = at[u], back'[u] = back[u], then'[u] = then[u]
  PROVE  /\ Place(u)' = Place(u) /\ (Revoking(u)' <=> Revoking(u)) /\ (Counted(u)' <=> Counted(u))
BY DEF Place, Revoking, Counted

\* Nobody enters or leaves a counted operation.
LEMMA CountSame ==
  ASSUME OpsCounted, ops' = ops, \A u \in Thread : Counted(u)' <=> Counted(u)
  PROVE  OpsCounted'
<1>1. {u \in Thread : Counted(u)}' = {u \in Thread : Counted(u)}
  OBVIOUS
<1> QED  BY <1>1 DEF OpsCounted

\* One thread enters.
LEMMA CountUp ==
  ASSUME OpsCounted, NEW t \in Thread, ops' = ops + 1, ~Counted(t), Counted(t)',
         \A u \in Thread \ {t} : Counted(u)' <=> Counted(u)
  PROVE  OpsCounted'
<1> DEFINE S == {u \in Thread : Counted(u)}
<1>1. IsFiniteSet(S) /\ t \notin S
  BY ThreadAssumption, FS_Subset
<1>2. S' = S \cup {t}
  OBVIOUS
<1> HIDE DEF S
<1>3. Cardinality(S \cup {t}) = Cardinality(S) + 1
  BY <1>1, FS_AddElement
<1> QED  BY <1>2, <1>3 DEF OpsCounted, S

\* One thread leaves.
LEMMA CountDown ==
  ASSUME OpsCounted, NEW t \in Thread, ops' = ops - 1, Counted(t), ~Counted(t)',
         \A u \in Thread \ {t} : Counted(u)' <=> Counted(u)
  PROVE  OpsCounted'
<1> DEFINE S == {u \in Thread : Counted(u)}
<1>1. IsFiniteSet(S) /\ t \in S
  BY ThreadAssumption, FS_Subset
<1>2. S' = S \ {t}
  OBVIOUS
<1> HIDE DEF S
<1>3. Cardinality(S \ {t}) = Cardinality(S) - 1
  BY <1>1, FS_RemoveElement
<1> QED  BY <1>2, <1>3 DEF OpsCounted, S

\* After its last operation a revoked authority has no open handle.
LEMMA LastGone ==
  ASSUME ConnectionTypes', PlacesOK', OneRevokes', Tracked', OpsCounted', terminal', alock' = Nobody, ops' = 0
  PROVE  \A h \in Handle : raw'[h] # "open" /\ \A t \in Thread : at'[t] # "connect"
<1>1. \A t \in Thread : ~Counted(t)'
  <2> SUFFICES ASSUME NEW t \in Thread, Counted(t)' PROVE FALSE
    OBVIOUS
  <2> DEFINE S == {u \in Thread : Counted(u)}
  <2>1. IsFiniteSet(S') /\ t \in S'
    BY ThreadAssumption, FS_Subset
  <2>2. Cardinality(S') # 0
    BY <2>1, FS_EmptySet
  <2> QED  BY <2>2 DEF OpsCounted
<1>2. \A t \in Thread : ~Revoking(t)'
  BY ThreadAssumption DEF OneRevokes
<1>3. \A t \in Thread : /\ at'[t] \notin Disposals => Place(t)' = at'[t]
                        /\ at'[t] \in Disposals => Place(t)' = back'[t]
                        /\ at'[t] \in Disposals => back'[t] # "revoke"
  BY <1>2 DEF Place, Revoking
<1>4. \A t \in Thread : Place(t)' \in {"idle", "precheck", "reap", "openenter", "useenter", "closeenter"}
  BY <1>1 DEF Counted
<1>5. ASSUME NEW h \in Handle PROVE ~Answerable(h)'
  <2>1. h \notin registered' /\ \A t \in Thread : h \notin todo'[t]
    BY <1>2 DEF OneRevokes
  <2>2. ASSUME NEW t \in Thread PROVE ~(Closing(t, h)' /\ back'[t] # "reap")
    BY <1>3, <1>4 DEF Closing, PlacesOK, Disposals
  <2> QED  BY <1>4, <2>1, <2>2 DEF Answerable, Holds
<1>6. ASSUME NEW t \in Thread PROVE at'[t] # "connect"
  BY <1>3, <1>4 DEF Disposals
<1> QED  BY <1>5, <1>6 DEF Tracked

\* The steps that change nothing but where a thread is.
Moves == {<<"precheck", "reap">>, <<"precheck", "idle">>, <<"reap", "openenter">>, <<"openenter", "idle">>,
          <<"register", "failed">>, <<"final", "failed">>, <<"final", "leave">>, <<"useenter", "idle">>,
          <<"check", "admit">>, <<"check", "dropio">>, <<"admit", "dropio">>, <<"sql", "leave">>,
          <<"claim", "dropio">>}

\* A thread goes on to its next step and changes nothing else.
LEMMA MoveKeeps ==
  ASSUME HInv, NEW t \in Thread, NEW s \in Places, <<at[t], s>> \in Moves, Go(t, s),
         UNCHANGED <<valid, quiet, authority, handles, stack>>
  PROVE  HInv'
<1>a. /\ ConnectionTypes /\ PlacesOK /\ FacadeSays /\ IoHeld /\ ScopesOpen /\ NativeOpen /\ OwnersLocked
      /\ OneRevokes /\ Tracked /\ Claimed /\ OpsCounted /\ LeaseHeld
  BY DEF HInv
<1>1. /\ at' = [at EXCEPT ![t] = s] /\ s # "sql" /\ s \notin Disposals /\ at[t] # "revoke"
           /\ at[t] \notin Disposals
      /\ mine' = IF s = "idle" THEN [mine EXCEPT ![t] = Nobody] ELSE mine
      /\ s = "idle" => mine'[t] = Nobody
      /\ \A u \in Thread : u # t => mine'[u] = mine[u] /\ at'[u] = at[u]
      /\ at'[t] = s /\ UNCHANGED <<valid, quiet, authority, handles, stack>>
  BY <1>a DEF Go, ConnectionTypes, Moves, Disposals
<1>2. /\ \A u \in Thread : u # t => Place(u)' = Place(u)
      /\ \A u \in Thread : Revoking(u)' <=> Revoking(u)
      /\ Place(t) = at[t] /\ Place(t)' = s
  BY <1>a, <1>1, PlaceSame DEF Place, Revoking, Moves, Disposals, ConnectionTypes
<1>3. ConnectionTypes'
  BY <1>a, <1>1 DEF ConnectionTypes, Places, Disposals
<1>4. PlacesOK'
  BY <1>a, <1>1, <1>2 DEF PlacesOK, Moves
<1>5. FacadeSays'
  BY <1>a, HandleAssumption, <1>1, <1>2 DEF FacadeSays, InIo, Moves
<1>6. IoHeld'
  BY <1>a, <1>1, <1>2 DEF IoHeld, FacadeSays, InIo, Moves
<1>7. ScopesOpen'
  BY <1>a, <1>1, <1>2 DEF ScopesOpen, Holds, Disposing, Moves
<1>8. NativeOpen'
  BY <1>a, HandleAssumption, <1>1, <1>2 DEF NativeOpen, Moves
<1>9. OwnersLocked'
  BY <1>a, <1>1 DEF OwnersLocked, Moves
<1>10. OneRevokes'
  BY <1>a, <1>2 DEF OneRevokes
<1>11. Tracked'
  BY <1>a, <1>1, <1>2 DEF Tracked, Answerable, Holds, Closing, Moves
<1>12. Claimed'
  BY <1>a, <1>1 DEF Claimed, Closing, Moves
<1>13. OpsCounted'
  BY <1>a, <1>2, CountSame DEF Counted, Moves
<1>14. LeaseHeld'
  BY <1>a, <1>1 DEF LeaseHeld, Moves
<1> QED  BY <1>3, <1>4, <1>5, <1>6, <1>7, <1>8, <1>9, <1>10, <1>11, <1>12, <1>13, <1>14 DEF HInv

\* Where the authority is found changed or is told to go, and where the thread goes on.
Revocations == {<<"idle", "idle">>, <<"precheck", "idle">>, <<"openenter", "idle">>, <<"useenter", "idle">>,
                <<"register", "failed">>, <<"final", "failed">>, <<"check", "dropio">>, <<"sql", "leave">>}

\* The revocation begins: the revoker takes over the registered handles.
LEMMA RevokeKeeps ==
  ASSUME HInv, NEW t \in Thread, NEW s \in Places, <<at[t], s>> \in Revocations, alock = Nobody, ~terminal,
         BeginRevocation(t, s), UNCHANGED <<valid, quiet>>
  PROVE  HInv'
<1>a. /\ ConnectionTypes /\ PlacesOK /\ FacadeSays /\ IoHeld /\ ScopesOpen /\ NativeOpen /\ OwnersLocked
      /\ OneRevokes /\ Tracked /\ Claimed /\ OpsCounted /\ LeaseHeld
  BY DEF HInv
<1>1. /\ at' = [at EXCEPT ![t] = "revoke"] /\ todo' = [todo EXCEPT ![t] = registered]
           /\ then' = [then EXCEPT ![t] = s]
      /\ at'[t] = "revoke" /\ todo'[t] = registered /\ then'[t] = s /\ terminal' = TRUE
           /\ registered' = {} /\ alock' = t
      /\ s \in {"idle", "failed", "dropio", "leave"} /\ at[t] # "revoke" /\ at[t] \notin Disposals
      /\ \A u \in Thread : u # t => todo'[u] = todo[u] /\ then'[u] = then[u] /\ at'[u] = at[u]
      /\ UNCHANGED <<valid, quiet, ops, leased, facade, raw, active, closed, revoked, released,
                     io, olock, abandoned, mine, victim, back>>
  BY <1>a DEF BeginRevocation, Go, ConnectionTypes, Revocations, Disposals
<1>2. /\ \A u \in Thread : u # t => Place(u)' = Place(u) /\ (Revoking(u)' <=> Revoking(u))
      /\ Place(t) = at[t] /\ Place(t)' = s /\ Revoking(t)'
  BY <1>a, <1>1, PlaceSame DEF Place, Revoking, Disposals, ConnectionTypes
<1>3. ConnectionTypes'
  BY <1>a, <1>1 DEF ConnectionTypes, Places, Disposals
<1>4. PlacesOK'
  BY <1>a, <1>1, <1>2 DEF PlacesOK, Disposals, Revocations
<1>5. FacadeSays'
  BY <1>a, <1>1, <1>2 DEF FacadeSays, InIo, Revocations
<1>6. IoHeld'
  BY <1>a, <1>1, <1>2 DEF IoHeld, InIo, Revocations
<1>7. ScopesOpen'
  BY <1>a, <1>1, <1>2 DEF ScopesOpen, Holds, Disposing, Disposals, Revocations
<1>8. NativeOpen'
  BY <1>a, <1>1, <1>2 DEF NativeOpen, Revocations
<1>9. OwnersLocked'
  BY <1>a, <1>1 DEF OwnersLocked, Revocations
<1>10. OneRevokes'
  BY <1>a, ThreadAssumption, <1>1, <1>2 DEF OneRevokes
<1>11. Tracked'
  <2> SUFFICES ASSUME NEW g \in Handle, raw'[g] = "open" PROVE Answerable(g)'
    BY DEF Tracked
  <2>1. raw[g] = "open" /\ Answerable(g)
    BY <1>a, <1>1 DEF Tracked
  <2>2. CASE g \in registered
    BY <2>2, <1>1 DEF Answerable
  <2>3. ASSUME NEW u \in Thread, g \in todo[u] PROVE Answerable(g)'
    BY <2>3, <1>a, ThreadAssumption DEF OneRevokes
  <2>4. ASSUME NEW u \in Thread, Closing(u, g), back[u] # "reap" PROVE Answerable(g)'
    BY <2>4, <1>1 DEF Answerable, Closing, Revocations
  <2>5. ASSUME NEW u \in Thread, mine[u] = g, Place(u) \in {"register", "failed"} PROVE Answerable(g)'
    BY <2>5, <1>1, <1>2 DEF Answerable, Revocations
  <2>6. ASSUME NEW u \in Thread, revoked[g], Holds(u, g) PROVE Answerable(g)'
    BY <2>6, <1>1, <1>2 DEF Answerable, Holds, Revocations
  <2> QED  BY <2>1, <2>2, <2>3, <2>4, <2>5, <2>6 DEF Answerable
<1>12. Claimed'
  BY <1>a, <1>1 DEF Claimed, Closing, Revocations
<1>13. OpsCounted'
  BY <1>a, <1>1, <1>2, CountSame DEF Counted, Revocations
<1>14. LeaseHeld'
  BY <1>a, <1>1 DEF LeaseHeld
<1> QED  BY <1>3, <1>4, <1>5, <1>6, <1>7, <1>8, <1>9, <1>10, <1>11, <1>12, <1>13, <1>14 DEF HInv

\* It marks the next handle, and disposes of it when no scope is open on it.
LEMMA RevokeNextKeeps ==
  ASSUME HInv, NEW t \in Thread, RevokeNext(t)
  PROVE  HInv'
<1>a. /\ ConnectionTypes /\ PlacesOK /\ FacadeSays /\ IoHeld /\ ScopesOpen /\ NativeOpen /\ OwnersLocked
      /\ OneRevokes /\ Tracked /\ Claimed /\ OpsCounted /\ LeaseHeld
  BY DEF HInv
<1>1. PICK h \in todo[t] :
         /\ todo' = [todo EXCEPT ![t] = @ \ {h}]
         /\ IF facade[h] = "gone" THEN Dispose(t, h, "revoke") /\ UNCHANGED <<closed, revoked>>
            ELSE /\ revoked' = [revoked EXCEPT ![h] = TRUE]
                 /\ IF Idle(h) THEN closed' = [closed EXCEPT ![h] = TRUE] /\ Dispose(t, h, "revoke")
                    ELSE UNCHANGED <<closed, at, mine, victim, back>>
  BY DEF RevokeNext
<1>2. h \in Handle /\ at[t] = "revoke" /\ todo' = [todo EXCEPT ![t] = @ \ {h}] /\ todo'[t] = todo[t] \ {h}
      /\ (\A u \in Thread : u # t => todo'[u] = todo[u])
      /\ UNCHANGED <<valid, quiet, authority, facade, raw, active, released, io, olock, abandoned,
                     then, mine>>
  BY <1>a, <1>1 DEF RevokeNext, ConnectionTypes, Dispose, Go
<1>3. \/ /\ facade[h] = "gone"
              \/ (Idle(h) /\ closed' = [closed EXCEPT ![h] = TRUE] /\ closed'[h]
                   /\ \A g \in Handle \ {h} : closed'[g] = closed[g])
         /\ closed' = closed \/ (facade[h] # "gone" /\ closed'[h])
         /\ facade[h] = "gone" => closed' = closed
         /\ at' = [at EXCEPT ![t] = "lock"] /\ at'[t] = "lock"
              /\ victim' = [victim EXCEPT ![t] = h] /\ victim'[t] = h
         /\ back' = [back EXCEPT ![t] = "revoke"] /\ back'[t] = "revoke"
         /\ \A u \in Thread : u # t => at'[u] = at[u] /\ victim'[u] = victim[u] /\ back'[u] = back[u]
      \/ facade[h] # "gone" /\ ~Idle(h) /\ revoked'[h] /\ UNCHANGED <<closed, at, victim, back>>
  BY <1>a, <1>1, <1>2 DEF Dispose, Go, ConnectionTypes
<1>4. /\ \A g \in Handle : revoked[g] => revoked'[g]
      /\ revoked' \in [Handle -> BOOLEAN]
  BY <1>a, <1>1, <1>2 DEF ConnectionTypes
<1>5. \A u \in Thread : Place(u)' = Place(u) /\ (Revoking(u)' <=> Revoking(u))
  BY <1>a, <1>2, <1>3, PlaceSame DEF Place, Revoking, Disposals, ConnectionTypes, Places
<1>6. ConnectionTypes'
  <2>1. closed' \in [Handle -> BOOLEAN]
    BY <1>a, <1>1, <1>2, <1>3 DEF ConnectionTypes
  <2>3. at' \in [Thread -> Places \cup Disposals \cup {"revoke"}]
    BY <1>a, <1>2, <1>3 DEF ConnectionTypes, Disposals
  <2>2. victim' \in [Thread -> Handle \cup {Nobody}] /\ back' \in [Thread -> Places \cup {"revoke"}]
    BY <1>a, <1>2, <1>3 DEF ConnectionTypes
  <2> QED  BY <1>a, <1>2, <1>4, <2>1, <2>2, <2>3 DEF ConnectionTypes
<1>7. PlacesOK'
  BY <1>a, <1>2, <1>3, <1>5 DEF PlacesOK
<1>8. FacadeSays'
  BY <1>a, <1>2, <1>3, <1>5 DEF FacadeSays
<1>9. IoHeld'
  BY <1>a, <1>2, <1>5 DEF IoHeld
<1>10. ScopesOpen'
  BY <1>a, <1>2, <1>3, <1>5 DEF ScopesOpen, Holds, Disposing, Idle
<1>11. NativeOpen'
  BY <1>a, <1>2, <1>3, <1>5 DEF NativeOpen
<1>12. OwnersLocked'
  BY <1>a, <1>2, <1>3 DEF OwnersLocked
<1>13. OneRevokes'
  BY <1>a, <1>2, <1>5 DEF OneRevokes
<1>14. Tracked'
  <2> SUFFICES ASSUME NEW g \in Handle, raw'[g] = "open" PROVE Answerable(g)'
    BY DEF Tracked
  <2>1. raw[g] = "open" /\ Answerable(g)
    BY <1>a, <1>2 DEF Tracked
  <2>2. CASE g \in registered
    BY <2>2, <1>2 DEF Answerable
  <2>3. ASSUME NEW u \in Thread, g \in todo[u] PROVE Answerable(g)'
    BY <2>1, <2>3, <1>a, <1>1, <1>3, <1>5
    DEF Answerable, Holds, Closing, Idle, Claimed, ScopesOpen, ConnectionTypes
  <2>4. ASSUME NEW u \in Thread, Closing(u, g), back[u] # "reap" PROVE Answerable(g)'
    BY <2>4, <1>2, <1>3 DEF Answerable, Closing
  <2>5. ASSUME NEW u \in Thread, mine[u] = g, Place(u) \in {"register", "failed"} PROVE Answerable(g)'
    BY <2>5, <1>2, <1>5 DEF Answerable
  <2>6. ASSUME NEW u \in Thread, revoked[g], Holds(u, g) PROVE Answerable(g)'
    BY <2>6, <1>a, <1>1, <1>2, <1>5 DEF Answerable, Holds, Closing, Claimed, ScopesOpen, ConnectionTypes
  <2> QED  BY <2>1, <2>2, <2>3, <2>4, <2>5, <2>6 DEF Answerable
<1>15. Claimed'
  BY <1>a, <1>2, <1>3 DEF Claimed, Closing
<1>16. OpsCounted'
  BY <1>a, <1>2, <1>5, CountSame DEF Counted
<1>17. LeaseHeld'
  BY <1>a, <1>2, <1>3 DEF LeaseHeld
<1> QED  BY <1>6, <1>7, <1>8, <1>9, <1>10, <1>11, <1>12, <1>13, <1>14, <1>15, <1>16, <1>17 DEF HInv

\* The last handle of its list is dealt with.
LEMMA RevokeEndKeeps ==
  ASSUME HInv, NEW t \in Thread, RevokeEnd(t)
  PROVE  HInv'
<1>a. /\ ConnectionTypes /\ PlacesOK /\ FacadeSays /\ IoHeld /\ ScopesOpen /\ NativeOpen /\ OwnersLocked
      /\ OneRevokes /\ Tracked /\ Claimed /\ OpsCounted /\ LeaseHeld
  BY DEF HInv
<1>1. /\ at[t] = "revoke" /\ todo[t] = {} /\ alock' = Nobody /\ leased' = (leased /\ ops > 0)
      /\ then[t] \in {"idle", "failed", "dropio", "leave"} /\ alock = t /\ terminal
      /\ at' = [at EXCEPT ![t] = then[t]] /\ at'[t] = then[t] /\ at'[t] # "revoke"
      /\ mine' = IF then[t] = "idle" THEN [mine EXCEPT ![t] = Nobody] ELSE mine
      /\ then[t] = "idle" => mine'[t] = Nobody
      /\ \A u \in Thread : u # t => at'[u] = at[u] /\ mine'[u] = mine[u]
      /\ UNCHANGED <<valid, quiet, terminal, ops, registered, handles, stack>>
  BY <1>a, ThreadAssumption DEF RevokeEnd, Go, ConnectionTypes, OneRevokes, PlacesOK, Revoking
<1>2. /\ \A u \in Thread : Place(u)' = Place(u)
      /\ \A u \in Thread : u # t => (Revoking(u)' <=> Revoking(u)) /\ ~Revoking(u)
      /\ ~Revoking(t)' /\ Place(t) = then[t] /\ Revoking(t)
  BY <1>a, <1>1, PlaceSame DEF Place, Revoking, Disposals, OneRevokes
<1>3. ConnectionTypes'
  BY <1>a, <1>1 DEF ConnectionTypes, Places, Disposals
<1>4. PlacesOK'
  BY <1>a, <1>1, <1>2 DEF PlacesOK, Disposals
<1>5. FacadeSays'
  BY <1>a, HandleAssumption, <1>1, <1>2 DEF FacadeSays
<1>6. IoHeld'
  BY <1>a, <1>1, <1>2 DEF IoHeld, InIo
<1>7. ScopesOpen'
  BY <1>a, <1>1, <1>2 DEF ScopesOpen, Holds, Disposing, Disposals
<1>8. NativeOpen'
  BY <1>a, HandleAssumption, <1>1, <1>2 DEF NativeOpen
<1>9. OwnersLocked'
  BY <1>a, <1>1 DEF OwnersLocked
<1>10. OneRevokes'
  BY <1>a, ThreadAssumption, <1>1, <1>2 DEF OneRevokes
<1>11. Tracked'
  BY <1>a, <1>1, <1>2 DEF Tracked, Answerable, Holds, Closing
<1>12. Claimed'
  BY <1>a, <1>1 DEF Claimed, Closing
<1>13. OpsCounted'
  BY <1>a, <1>1, <1>2, CountSame DEF Counted
<1>14. LeaseHeld'
  <2>1. CASE ops > 0
    BY <1>a, <1>1, <1>2, <2>1 DEF LeaseHeld
  <2>2. CASE ~(ops > 0)
    BY <1>1, <1>3, <1>4, <1>10, <1>11, <1>13, <2>2, LastGone DEF LeaseHeld, ConnectionTypes
  <2> QED  BY <2>1, <2>2
<1> QED  BY <1>3, <1>4, <1>5, <1>6, <1>7, <1>8, <1>9, <1>10, <1>11, <1>12, <1>13, <1>14 DEF HInv

\* Whoever disposes of a handle takes its owner's lock, or finds it released.
LEMMA LockOwnerKeeps ==
  ASSUME HInv, NEW t \in Thread, LockOwner(t)
  PROVE  HInv'
<1>a. /\ ConnectionTypes /\ PlacesOK /\ FacadeSays /\ IoHeld /\ ScopesOpen /\ NativeOpen /\ OwnersLocked
      /\ OneRevokes /\ Tracked /\ Claimed /\ OpsCounted /\ LeaseHeld
  BY DEF HInv
<1>1. /\ at[t] = "lock" /\ olock[victim[t]] = Nobody /\ victim[t] \in Handle
      /\ \A u \in Thread : u # t => at'[u] = at[u]
      /\ \/ /\ released[victim[t]] /\ at' = [at EXCEPT ![t] = "unregister"]
                 /\ at'[t] = "unregister" /\ UNCHANGED <<released, olock>>
         \/ /\ released' = [released EXCEPT ![victim[t]] = TRUE] /\ released'[victim[t]]
            /\ (\A h \in Handle : h # victim[t] => released'[h] = released[h] /\ olock'[h] = olock[h])
            /\ olock' = [olock EXCEPT ![victim[t]] = t] /\ olock'[victim[t]] = t
            /\ at' = [at EXCEPT ![t] = "close"] /\ at'[t] = "close"
      /\ UNCHANGED <<valid, quiet, authority, facade, raw, active, closed, revoked, io, abandoned,
                     stack, mine>>
  BY <1>a DEF LockOwner, Go, ConnectionTypes, PlacesOK, Disposals
<1>2. \A u \in Thread : Place(u)' = Place(u) /\ (Revoking(u)' <=> Revoking(u))
  BY <1>a, <1>1, PlaceSame DEF Place, Revoking, Disposals
<1>3. ConnectionTypes'
  <2>1. released' \in [Handle -> BOOLEAN] /\ olock' \in [Handle -> Thread \cup {Nobody}]
    <3>1. CASE UNCHANGED <<released, olock>>
      BY <1>a, <3>1 DEF ConnectionTypes
    <3>2. CASE released' = [released EXCEPT ![victim[t]] = TRUE] /\ olock' = [olock EXCEPT ![victim[t]] = t]
      BY <1>a, <3>2 DEF ConnectionTypes
    <3> QED  BY <1>1, <3>1, <3>2
  <2>2. at' \in [Thread -> Places \cup Disposals \cup {"revoke"}]
    BY <1>a, <1>1 DEF ConnectionTypes, Disposals
  <2> QED  BY <1>a, <1>1, <2>1, <2>2 DEF ConnectionTypes
<1>4. PlacesOK'
  BY <1>a, <1>1, <1>2 DEF PlacesOK, Disposals
<1>5. FacadeSays'
  BY <1>a, <1>1, <1>2 DEF FacadeSays, ScopesOpen, Disposing, Disposals
<1>6. IoHeld'
  BY <1>a, <1>1, <1>2 DEF IoHeld
<1>7. ScopesOpen'
  BY <1>a, <1>1, <1>2 DEF ScopesOpen, Holds, Disposing, Disposals
<1>8. NativeOpen'
  BY <1>a, <1>1, <1>2 DEF NativeOpen
<1>9. OwnersLocked'
  BY <1>a, ThreadAssumption, <1>1 DEF OwnersLocked
<1>10. OneRevokes'
  BY <1>a, <1>1, <1>2 DEF OneRevokes
<1>11. Tracked'
  BY <1>a, <1>1, <1>2 DEF Tracked, Answerable, Holds, Closing, OwnersLocked
<1>12. Claimed'
  BY <1>a, <1>1 DEF Claimed, Closing, OwnersLocked
<1>13. OpsCounted'
  BY <1>a, <1>1, <1>2, CountSame DEF Counted
<1>14. LeaseHeld'
  BY <1>a, <1>1 DEF LeaseHeld
<1> QED  BY <1>3, <1>4, <1>5, <1>6, <1>7, <1>8, <1>9, <1>10, <1>11, <1>12, <1>13, <1>14 DEF HInv

\* The native handle is closed.
LEMMA CloseRawKeeps ==
  ASSUME HInv, NEW t \in Thread, CloseRaw(t)
  PROVE  HInv'
<1>a. /\ ConnectionTypes /\ PlacesOK /\ FacadeSays /\ IoHeld /\ ScopesOpen /\ NativeOpen /\ OwnersLocked
      /\ OneRevokes /\ Tracked /\ Claimed /\ OpsCounted /\ LeaseHeld
  BY DEF HInv
<1>1. /\ at[t] = "close" /\ victim[t] \in Handle
      /\ raw' = [raw EXCEPT ![victim[t]] = IF @ = "open" THEN "closed" ELSE @] /\ raw'[victim[t]] # "open"
      /\ raw[victim[t]] # "open" => raw'[victim[t]] = raw[victim[t]]
      /\ olock' = [olock EXCEPT ![victim[t]] = Nobody] /\ olock'[victim[t]] = Nobody
      /\ \A h \in Handle : h # victim[t] => raw'[h] = raw[h] /\ olock'[h] = olock[h]
      /\ at' = [at EXCEPT ![t] = "unregister"] /\ at'[t] = "unregister"
      /\ \A u \in Thread : u # t => at'[u] = at[u]
      /\ UNCHANGED <<valid, quiet, authority, facade, active, closed, revoked, released, io,
                     abandoned, stack, mine>>
  BY <1>a DEF CloseRaw, Go, ConnectionTypes, PlacesOK, Disposals
<1>2. \A u \in Thread : Place(u)' = Place(u) /\ (Revoking(u)' <=> Revoking(u))
  BY <1>a, <1>1, PlaceSame DEF Place, Revoking, Disposals
<1>3. ConnectionTypes'
  BY <1>a, <1>1 DEF ConnectionTypes, Places, Disposals
<1>4. PlacesOK'
  BY <1>a, <1>1, <1>2 DEF PlacesOK, Disposals
<1>5. FacadeSays'
  BY <1>a, <1>1, <1>2 DEF FacadeSays
<1>6. IoHeld'
  BY <1>a, <1>1, <1>2 DEF IoHeld
<1>7. ScopesOpen'
  BY <1>a, <1>1, <1>2 DEF ScopesOpen, Holds, Disposing, Disposals
<1>8. NativeOpen'
  BY <1>a, <1>1, <1>2 DEF NativeOpen, ScopesOpen, Disposing, Disposals
<1>9. OwnersLocked'
  BY <1>a, ThreadAssumption, <1>1 DEF OwnersLocked
<1>10. OneRevokes'
  BY <1>a, <1>1, <1>2 DEF OneRevokes
<1>11. Tracked'
  BY <1>a, <1>1, <1>2 DEF Tracked, Answerable, Holds, Closing
<1>12. Claimed'
  BY <1>a, <1>1 DEF Claimed, Closing
<1>13. OpsCounted'
  BY <1>a, <1>1, <1>2, CountSame DEF Counted
<1>14. LeaseHeld'
  BY <1>a, <1>1 DEF LeaseHeld
<1> QED  BY <1>3, <1>4, <1>5, <1>6, <1>7, <1>8, <1>9, <1>10, <1>11, <1>12, <1>13, <1>14 DEF HInv

\* The owner leaves the registry.
LEMMA UnregisterKeeps ==
  ASSUME HInv, NEW t \in Thread, Unregister(t)
  PROVE  HInv'
<1>a. /\ ConnectionTypes /\ PlacesOK /\ FacadeSays /\ IoHeld /\ ScopesOpen /\ NativeOpen /\ OwnersLocked
      /\ OneRevokes /\ Tracked /\ Claimed /\ OpsCounted /\ LeaseHeld
  BY DEF HInv
<1>1. /\ at[t] = "unregister" /\ victim[t] \in Handle /\ raw[victim[t]] # "open"
      /\ back[t] \in {"revoke", "reap", "exit", "dropio"}
      /\ registered' = registered \ {victim[t]}
      /\ at' = [at EXCEPT ![t] = back[t]] /\ at'[t] = back[t]
      /\ victim' = [victim EXCEPT ![t] = Nobody] /\ victim'[t] = Nobody
      /\ \A u \in Thread : u # t => at'[u] = at[u] /\ victim'[u] = victim[u]
      /\ UNCHANGED <<valid, quiet, terminal, ops, leased, alock, handles, back, todo, then, mine>>
  BY <1>a DEF Unregister, Go, ConnectionTypes, PlacesOK, OwnersLocked, Disposals
<1>2. \A u \in Thread : Place(u)' = Place(u) /\ (Revoking(u)' <=> Revoking(u))
  BY <1>a, <1>1, PlaceSame DEF Place, Revoking, Disposals
<1>3. ConnectionTypes'
  BY <1>a, <1>1 DEF ConnectionTypes, Places, Disposals
<1>4. PlacesOK'
  BY <1>a, <1>1, <1>2 DEF PlacesOK, Disposals
<1>5. FacadeSays'
  BY <1>a, <1>1, <1>2 DEF FacadeSays
<1>6. IoHeld'
  BY <1>a, <1>1, <1>2 DEF IoHeld
<1>7. ScopesOpen'
  BY <1>a, <1>1, <1>2 DEF ScopesOpen, Holds, Disposing, Disposals
<1>8. NativeOpen'
  BY <1>a, <1>1, <1>2 DEF NativeOpen
<1>9. OwnersLocked'
  BY <1>a, <1>1 DEF OwnersLocked
<1>10. OneRevokes'
  BY <1>a, <1>1, <1>2 DEF OneRevokes
<1>11. Tracked'
  BY <1>a, <1>1, <1>2 DEF Tracked, Answerable, Holds, Closing
<1>12. Claimed'
  BY <1>a, <1>1 DEF Claimed, Closing
<1>13. OpsCounted'
  BY <1>a, <1>1, <1>2, CountSame DEF Counted
<1>14. LeaseHeld'
  BY <1>a, <1>1 DEF LeaseHeld
<1> QED  BY <1>3, <1>4, <1>5, <1>6, <1>7, <1>8, <1>9, <1>10, <1>11, <1>12, <1>13, <1>14 DEF HInv

\* A counted operation ends, and with the last one of a revoked authority the lease.
LEMMA ExitKeeps ==
  ASSUME HInv, NEW t \in Thread, Exit(t)
  PROVE  HInv'
<1>a. /\ ConnectionTypes /\ PlacesOK /\ FacadeSays /\ IoHeld /\ ScopesOpen /\ NativeOpen /\ OwnersLocked
      /\ OneRevokes /\ Tracked /\ Claimed /\ OpsCounted /\ LeaseHeld
  BY DEF HInv
<1>1. /\ at[t] = "exit" /\ alock = Nobody /\ mine[t] \in Handle
      /\ ops' = ops - 1 /\ leased' = (leased /\ ~(terminal /\ ops = 1))
      /\ at' = [at EXCEPT ![t] = "idle"] /\ at'[t] = "idle" /\ mine' = [mine EXCEPT ![t] = Nobody]
           /\ mine'[t] = Nobody
      /\ \A u \in Thread : u # t => at'[u] = at[u] /\ mine'[u] = mine[u]
      /\ UNCHANGED <<valid, quiet, terminal, registered, alock, raw, active, closed, revoked,
                     released, io, olock, abandoned, stack>>
  BY <1>a DEF Exit, Go, ConnectionTypes, PlacesOK, Place, Revoking, Disposals
<1>2. /\ \A h \in Handle : \/ facade'[h] = facade[h] /\ (mine[t] = h => facade[h] # "opening")
                           \/ /\ facade[h] = "opening" /\ mine[t] = h
                              /\ facade'[h] = IF closed[h] THEN "gone" ELSE "held"
      /\ facade' \in [Handle -> {"none", "opening", "held", "gone"}]
  BY <1>a, <1>1 DEF Exit, ConnectionTypes
<1>3. /\ \A u \in Thread : u # t => Place(u)' = Place(u)
      /\ \A u \in Thread : Revoking(u)' <=> Revoking(u)
      /\ Place(t) = "exit" /\ Place(t)' = "idle"
  BY <1>a, <1>1, PlaceSame DEF Place, Revoking, Disposals
<1>4. ops # 0
  <2>1. ops = Cardinality({u \in Thread : Counted(u)}) /\ t \in {u \in Thread : Counted(u)}
    BY <1>a, <1>3 DEF OpsCounted, Counted
  <2> QED  BY <2>1, ThreadAssumption, FS_Subset, FS_EmptySet
<1>5. ConnectionTypes'
  BY <1>a, <1>1, <1>2, <1>4 DEF ConnectionTypes, Places, Disposals
<1>6. PlacesOK'
  BY <1>a, <1>1, <1>3 DEF PlacesOK, Disposals
<1>7. FacadeSays'
  BY <1>a, HandleAssumption, <1>1, <1>2, <1>3 DEF FacadeSays
<1>8. IoHeld'
  BY <1>a, <1>1, <1>2, <1>3 DEF IoHeld, FacadeSays, InIo
<1>9. ScopesOpen'
  BY <1>a, <1>1, <1>2, <1>3 DEF ScopesOpen, Holds, Disposing, Disposals
<1>10. NativeOpen'
  BY <1>a, HandleAssumption, <1>1, <1>2, <1>3 DEF NativeOpen
<1>11. OwnersLocked'
  BY <1>a, <1>1 DEF OwnersLocked
<1>12. OneRevokes'
  BY <1>a, <1>1, <1>3 DEF OneRevokes
<1>13. Tracked'
  BY <1>a, <1>1, <1>3 DEF Tracked, Answerable, Holds, Closing
<1>14. Claimed'
  BY <1>a, <1>1 DEF Claimed, Closing
<1>15. OpsCounted'
  BY <1>a, <1>1, <1>3, CountDown DEF Counted
<1>16. LeaseHeld'
  <2>1. CASE terminal /\ ops = 1
    BY <1>1, <1>5, <1>6, <1>12, <1>13, <1>15, <2>1, LastGone DEF LeaseHeld
  <2>2. CASE ~(terminal /\ ops = 1)
    <3>1. leased' = leased
      BY <1>a, <1>1, <2>2 DEF ConnectionTypes
    <3> QED  BY <1>a, <1>1, <3>1 DEF LeaseHeld
  <2> QED  BY <2>1, <2>2
<1> QED  BY <1>5, <1>6, <1>7, <1>8, <1>9, <1>10, <1>11, <1>12, <1>13, <1>14, <1>15, <1>16 DEF HInv

\* An open disposes of an abandoned handle first.
LEMMA ReapKeeps ==
  ASSUME HInv, NEW t \in Thread, NEW h \in abandoned, At(t, "reap"), abandoned' = abandoned \ {h},
         Dispose(t, h, "reap"),
         UNCHANGED <<valid, quiet, authority, facade, raw, active, closed, revoked, released, io,
                     olock, todo, then>>
  PROVE  HInv'
<1>a. /\ ConnectionTypes /\ PlacesOK /\ FacadeSays /\ IoHeld /\ ScopesOpen /\ NativeOpen /\ OwnersLocked
      /\ OneRevokes /\ Tracked /\ Claimed /\ OpsCounted /\ LeaseHeld
  BY DEF HInv
<1>1. /\ at[t] = "reap" /\ h \in Handle /\ facade[h] = "gone"
      /\ at' = [at EXCEPT ![t] = "lock"] /\ at'[t] = "lock" /\ victim' = [victim EXCEPT ![t] = h]
           /\ victim'[t] = h
      /\ back' = [back EXCEPT ![t] = "reap"] /\ back'[t] = "reap"
      /\ \A u \in Thread : u # t => at'[u] = at[u] /\ victim'[u] = victim[u] /\ back'[u] = back[u]
      /\ UNCHANGED <<valid, quiet, authority, facade, raw, active, closed, revoked, released, io,
                     olock, todo, then, mine>>
  BY <1>a DEF Dispose, Go, ConnectionTypes, FacadeSays
<1>2. \A u \in Thread : Place(u)' = Place(u) /\ (Revoking(u)' <=> Revoking(u))
  BY <1>a, <1>1, PlaceSame DEF Place, Revoking, Disposals
<1>3. ConnectionTypes'
  BY <1>a, <1>1 DEF ConnectionTypes, Places, Disposals
<1>4. PlacesOK'
  BY <1>a, <1>1, <1>2 DEF PlacesOK
<1>5. FacadeSays'
  BY <1>a, <1>1, <1>2 DEF FacadeSays
<1>6. IoHeld'
  BY <1>a, <1>1, <1>2 DEF IoHeld
<1>7. ScopesOpen'
  BY <1>a, <1>1, <1>2 DEF ScopesOpen, Holds, Disposing
<1>8. NativeOpen'
  BY <1>a, <1>1, <1>2 DEF NativeOpen
<1>9. OwnersLocked'
  BY <1>a, <1>1 DEF OwnersLocked
<1>10. OneRevokes'
  BY <1>a, <1>2 DEF OneRevokes
<1>11. Tracked'
  BY <1>a, <1>1, <1>2 DEF Tracked, Answerable, Holds, Closing
<1>12. Claimed'
  BY <1>a, <1>1 DEF Claimed, Closing
<1>13. OpsCounted'
  BY <1>a, <1>2, CountSame DEF Counted
<1>14. LeaseHeld'
  BY <1>a, <1>1 DEF LeaseHeld
<1> QED  BY <1>3, <1>4, <1>5, <1>6, <1>7, <1>8, <1>9, <1>10, <1>11, <1>12, <1>13, <1>14 DEF HInv

\* The native handle is opened, or not.
LEMMA ConnectKeeps ==
  ASSUME HInv, NEW t \in Thread, Connect(t)
  PROVE  HInv'
<1>a. /\ ConnectionTypes /\ PlacesOK /\ FacadeSays /\ IoHeld /\ ScopesOpen /\ NativeOpen /\ OwnersLocked
      /\ OneRevokes /\ Tracked /\ Claimed /\ OpsCounted /\ LeaseHeld
  BY DEF HInv
<1>1. PICK s \in {"register", "failed"} : Go(t, s) /\ \/ raw' = [raw EXCEPT ![mine[t]] = "open"]
                                                      \/ s = "failed" /\ UNCHANGED raw
  BY DEF Connect
<1>2. /\ at[t] = "connect" /\ mine[t] \in Handle
      /\ facade' = [facade EXCEPT ![mine[t]] = "opening"] /\ facade'[mine[t]] = "opening"
      /\ active' = [active EXCEPT ![mine[t]] = 1] /\ active'[mine[t]] = 1
      /\ raw' \in [Handle -> {"none", "open", "closed"}] /\ (s = "register" => raw'[mine[t]] = "open")
      /\ \A h \in Handle : h # mine[t] => facade'[h] = facade[h] /\ active'[h] = active[h] /\ raw'[h] = raw[h]
      /\ at' = [at EXCEPT ![t] = s] /\ at'[t] = s
      /\ \A u \in Thread : u # t => at'[u] = at[u]
      /\ UNCHANGED <<valid, quiet, authority, closed, revoked, released, io, olock, abandoned, stack, mine>>
  BY <1>a, <1>1 DEF Connect, Go, ConnectionTypes, PlacesOK, Place, Revoking, Disposals
<1>3. /\ \A u \in Thread : u # t => Place(u)' = Place(u)
      /\ \A u \in Thread : Revoking(u)' <=> Revoking(u)
      /\ Place(t) = "connect" /\ Place(t)' = s
  BY <1>a, <1>1, <1>2, PlaceSame DEF Place, Revoking, Disposals
<1>4. /\ facade[mine[t]] = "none" /\ ~closed[mine[t]] /\ ~released[mine[t]] /\ active[mine[t]] = 0 /\ leased
      /\ \A u \in Thread : mine[u] = mine[t] => u = t
  <2>1. facade[mine[t]] = "none"
    BY <1>a, <1>2, <1>3 DEF FacadeSays, ConnectionTypes, InIo
  <2> QED  BY <1>a, <1>2, <2>1 DEF FacadeSays, LeaseHeld, ConnectionTypes
<1>5. ConnectionTypes'
  BY <1>a, <1>2 DEF ConnectionTypes, Places, Disposals
<1>6. PlacesOK'
  BY <1>a, <1>2, <1>3 DEF PlacesOK, Disposals
<1>7. FacadeSays'
  BY <1>a, <1>2, <1>3, <1>4 DEF FacadeSays
<1>8. IoHeld'
  BY <1>a, <1>2, <1>3 DEF IoHeld, FacadeSays, InIo
<1>9. ScopesOpen'
  BY <1>a, <1>2, <1>3, <1>4 DEF ScopesOpen, Holds, Disposing, Disposals
<1>10. NativeOpen'
  BY <1>a, <1>2, <1>3, <1>4 DEF NativeOpen
<1>11. OwnersLocked'
  BY <1>a, <1>2, <1>4 DEF OwnersLocked, ScopesOpen, Disposing, Disposals
<1>12. OneRevokes'
  BY <1>a, <1>2, <1>3 DEF OneRevokes
<1>13. Tracked'
  BY <1>a, <1>2, <1>3 DEF Tracked, Answerable, Holds, Closing
<1>14. Claimed'
  BY <1>a, <1>2, <1>4 DEF Claimed, Closing
<1>15. OpsCounted'
  BY <1>a, <1>2, <1>3, CountSame DEF Counted
<1>16. LeaseHeld'
  BY <1>a, <1>2 DEF LeaseHeld
<1> QED  BY <1>5, <1>6, <1>7, <1>8, <1>9, <1>10, <1>11, <1>12, <1>13, <1>14, <1>15, <1>16 DEF HInv

\* Its owner is registered.
LEMMA RegisterKeeps ==
  ASSUME HInv, NEW t \in Thread, At(t, "register"), alock = Nobody, ~terminal,
         registered' = registered \cup {mine[t]},
         Go(t, "final"), UNCHANGED <<valid, quiet, terminal, ops, leased, alock, handles, stack>>
  PROVE  HInv'
<1>a. /\ ConnectionTypes /\ PlacesOK /\ FacadeSays /\ IoHeld /\ ScopesOpen /\ NativeOpen /\ OwnersLocked
      /\ OneRevokes /\ Tracked /\ Claimed /\ OpsCounted /\ LeaseHeld
  BY DEF HInv
<1>1. /\ at[t] = "register" /\ mine[t] \in Handle
      /\ at' = [at EXCEPT ![t] = "final"] /\ at'[t] = "final"
      /\ \A u \in Thread : u # t => at'[u] = at[u]
      /\ UNCHANGED <<valid, quiet, terminal, ops, leased, alock, handles, stack, mine>>
  BY <1>a DEF Go, ConnectionTypes, PlacesOK, Place, Revoking, Disposals
<1>2. /\ \A u \in Thread : u # t => Place(u)' = Place(u)
      /\ \A u \in Thread : Revoking(u)' <=> Revoking(u)
      /\ Place(t) = "register" /\ Place(t)' = "final"
  BY <1>a, <1>1, PlaceSame DEF Place, Revoking, Disposals
<1>3. ConnectionTypes'
  BY <1>a, <1>1 DEF ConnectionTypes, Places, Disposals
<1>4. PlacesOK'
  BY <1>a, <1>1, <1>2 DEF PlacesOK, Disposals
<1>5. FacadeSays'
  BY <1>a, <1>1, <1>2 DEF FacadeSays, InIo
<1>6. IoHeld'
  BY <1>a, <1>1, <1>2 DEF IoHeld, InIo
<1>7. ScopesOpen'
  BY <1>a, <1>1, <1>2 DEF ScopesOpen, Holds, Disposing, Disposals
<1>8. NativeOpen'
  BY <1>a, <1>1, <1>2 DEF NativeOpen
<1>9. OwnersLocked'
  BY <1>a, <1>1 DEF OwnersLocked
<1>10. OneRevokes'
  BY <1>a, <1>2 DEF OneRevokes
<1>11. Tracked'
  BY <1>a, <1>1, <1>2 DEF Tracked, Answerable, Holds, Closing
<1>12. Claimed'
  BY <1>a, <1>1 DEF Claimed, Closing
<1>13. OpsCounted'
  BY <1>a, <1>2, CountSame DEF Counted
<1>14. LeaseHeld'
  BY <1>a DEF LeaseHeld
<1> QED  BY <1>3, <1>4, <1>5, <1>6, <1>7, <1>8, <1>9, <1>10, <1>11, <1>12, <1>13, <1>14 DEF HInv

\* An open that failed disposes of its handle.
LEMMA FailKeeps ==
  ASSUME HInv, NEW t \in Thread, Fail(t)
  PROVE  HInv'
<1>a. /\ ConnectionTypes /\ PlacesOK /\ FacadeSays /\ IoHeld /\ ScopesOpen /\ NativeOpen /\ OwnersLocked
      /\ OneRevokes /\ Tracked /\ Claimed /\ OpsCounted /\ LeaseHeld
  BY DEF HInv
<1>1. /\ at[t] = "failed" /\ mine[t] \in Handle
      /\ active' = [active EXCEPT ![mine[t]] = @ - 1] /\ active'[mine[t]] = active[mine[t]] - 1
      /\ closed' = [closed EXCEPT ![mine[t]] = TRUE] /\ closed'[mine[t]]
      /\ \A h \in Handle : h # mine[t] => closed'[h] = closed[h] /\ active'[h] = active[h]
      /\ at' = [at EXCEPT ![t] = "lock"] /\ at'[t] = "lock"
           /\ victim' = [victim EXCEPT ![t] = mine[t]] /\ victim'[t] = mine[t]
      /\ back' = [back EXCEPT ![t] = "exit"] /\ back'[t] = "exit"
      /\ \A u \in Thread : u # t => at'[u] = at[u] /\ victim'[u] = victim[u] /\ back'[u] = back[u]
      /\ UNCHANGED <<valid, quiet, authority, facade, raw, revoked, released, io, olock,
                     abandoned, todo, then, mine>>
  BY <1>a DEF Fail, Dispose, Go, ConnectionTypes, PlacesOK, Place, Revoking, Disposals
<1>2. /\ \A u \in Thread : u # t => Place(u)' = Place(u)
      /\ \A u \in Thread : Revoking(u)' <=> Revoking(u)
      /\ Place(t) = "failed" /\ Place(t)' = "exit"
  BY <1>a, <1>1, PlaceSame DEF Place, Revoking, Disposals
<1>3. /\ active[mine[t]] = 1 /\ facade[mine[t]] = "opening"
      /\ \A u \in Thread : mine[u] = mine[t] => u = t
  <2>1. active[mine[t]] = 1
    BY <1>a, <1>1, <1>2 DEF ScopesOpen, Holds
  <2>2. facade[mine[t]] \in {"none", "opening", "held", "gone"}
    BY <1>a, <1>1 DEF ConnectionTypes
  <2>3. facade[mine[t]] = "opening"
    BY <1>a, <1>1, <1>2, <2>2 DEF FacadeSays, InIo
  <2> QED  BY <1>a, <1>1, <2>1, <2>3 DEF FacadeSays
<1>4. ConnectionTypes'
  BY <1>a, <1>1, <1>3 DEF ConnectionTypes, Places, Disposals
<1>5. PlacesOK'
  BY <1>a, <1>1, <1>2 DEF PlacesOK
<1>6. FacadeSays'
  BY <1>a, <1>1, <1>2 DEF FacadeSays
<1>7. IoHeld'
  BY <1>a, <1>1, <1>2 DEF IoHeld, InIo
<1>8. ScopesOpen'
  BY <1>a, <1>1, <1>2 DEF ScopesOpen, Holds, Disposing
<1>9. NativeOpen'
  BY <1>a, <1>1, <1>2 DEF NativeOpen
<1>10. OwnersLocked'
  BY <1>a, <1>1 DEF OwnersLocked
<1>11. OneRevokes'
  BY <1>a, <1>1, <1>2 DEF OneRevokes
<1>12. Tracked'
  BY <1>a, <1>1, <1>2 DEF Tracked, Answerable, Holds, Closing
<1>13. Claimed'
  BY <1>a, <1>1 DEF Claimed, Closing
<1>14. OpsCounted'
  BY <1>a, <1>1, <1>2, CountSame DEF Counted
<1>15. LeaseHeld'
  BY <1>a, <1>1 DEF LeaseHeld
<1> QED  BY <1>4, <1>5, <1>6, <1>7, <1>8, <1>9, <1>10, <1>11, <1>12, <1>13, <1>14, <1>15 DEF HInv

\* A counted operation begins.
LEMMA EnterKeeps ==
  ASSUME HInv, NEW t \in Thread, NEW s \in Places,
         <<at[t], s>> \in {<<"openenter", "connect">>, <<"useenter", "io">>}, ~terminal, ops' = ops + 1,
         Go(t, s), UNCHANGED <<valid, quiet, terminal, registered, leased, alock, handles, stack>>
  PROVE  HInv'
<1>a. /\ ConnectionTypes /\ PlacesOK /\ FacadeSays /\ IoHeld /\ ScopesOpen /\ NativeOpen /\ OwnersLocked
      /\ OneRevokes /\ Tracked /\ Claimed /\ OpsCounted /\ LeaseHeld
  BY DEF HInv
<1>1. /\ at[t] \in {"openenter", "useenter"} /\ s \in {"connect", "io"} /\ (at[t] = "useenter" <=> s = "io")
      /\ at' = [at EXCEPT ![t] = s] /\ at'[t] = s
      /\ \A u \in Thread : u # t => at'[u] = at[u]
      /\ UNCHANGED <<valid, quiet, terminal, registered, leased, alock, handles, stack, mine>>
  BY <1>a DEF Go, ConnectionTypes
<1>2. /\ \A u \in Thread : u # t => Place(u)' = Place(u)
      /\ \A u \in Thread : Revoking(u)' <=> Revoking(u)
      /\ Place(t) = at[t] /\ Place(t)' = s
  BY <1>a, <1>1, PlaceSame DEF Place, Revoking, Disposals
<1>3. ConnectionTypes'
  BY <1>a, <1>1 DEF ConnectionTypes, Places, Disposals
<1>4. PlacesOK'
  BY <1>a, <1>1, <1>2 DEF PlacesOK, Disposals
<1>5. FacadeSays'
  BY <1>a, <1>1, <1>2 DEF FacadeSays, InIo
<1>6. IoHeld'
  BY <1>a, <1>1, <1>2 DEF IoHeld, InIo
<1>7. ScopesOpen'
  BY <1>a, <1>1, <1>2 DEF ScopesOpen, Holds, Disposing, Disposals
<1>8. NativeOpen'
  BY <1>a, <1>1, <1>2 DEF NativeOpen
<1>9. OwnersLocked'
  BY <1>a, <1>1 DEF OwnersLocked
<1>10. OneRevokes'
  BY <1>a, <1>2 DEF OneRevokes
<1>11. Tracked'
  BY <1>a, <1>1, <1>2 DEF Tracked, Answerable, Holds, Closing
<1>12. Claimed'
  BY <1>a, <1>1 DEF Claimed, Closing
<1>13. OpsCounted'
  BY <1>a, <1>2, CountUp DEF Counted
<1>14. LeaseHeld'
  BY <1>a DEF LeaseHeld
<1> QED  BY <1>3, <1>4, <1>5, <1>6, <1>7, <1>8, <1>9, <1>10, <1>11, <1>12, <1>13, <1>14 DEF HInv

\* A close is counted whatever the authority says.
LEMMA EnterCloseKeeps ==
  ASSUME HInv, NEW t \in Thread, EnterClose(t)
  PROVE  HInv'
<1>a. /\ ConnectionTypes /\ PlacesOK /\ FacadeSays /\ IoHeld /\ ScopesOpen /\ NativeOpen /\ OwnersLocked
      /\ OneRevokes /\ Tracked /\ Claimed /\ OpsCounted /\ LeaseHeld
  BY DEF HInv
<1>1. /\ at[t] = "closeenter" /\ ops' = ops + 1
      /\ at' = [at EXCEPT ![t] = "closeio"] /\ at'[t] = "closeio"
      /\ \A u \in Thread : u # t => at'[u] = at[u]
      /\ UNCHANGED <<valid, quiet, terminal, registered, leased, alock, handles, stack, mine>>
  BY <1>a DEF EnterClose, Go, ConnectionTypes
<1>2. /\ \A u \in Thread : u # t => Place(u)' = Place(u)
      /\ \A u \in Thread : Revoking(u)' <=> Revoking(u)
      /\ Place(t) = "closeenter" /\ Place(t)' = "closeio"
  BY <1>a, <1>1, PlaceSame DEF Place, Revoking, Disposals
<1>3. ConnectionTypes'
  BY <1>a, <1>1 DEF ConnectionTypes, Places, Disposals
<1>4. PlacesOK'
  BY <1>a, <1>1, <1>2 DEF PlacesOK, Disposals
<1>5. FacadeSays'
  BY <1>a, <1>1, <1>2 DEF FacadeSays
<1>6. IoHeld'
  BY <1>a, <1>1, <1>2 DEF IoHeld, InIo
<1>7. ScopesOpen'
  BY <1>a, <1>1, <1>2 DEF ScopesOpen, Holds, Disposing, Disposals
<1>8. NativeOpen'
  BY <1>a, <1>1, <1>2 DEF NativeOpen
<1>9. OwnersLocked'
  BY <1>a, <1>1 DEF OwnersLocked
<1>10. OneRevokes'
  BY <1>a, <1>1, <1>2 DEF OneRevokes
<1>11. Tracked'
  BY <1>a, <1>1, <1>2 DEF Tracked, Answerable, Holds, Closing
<1>12. Claimed'
  BY <1>a, <1>1 DEF Claimed, Closing
<1>13. OpsCounted'
  BY <1>a, <1>1, <1>2, CountUp DEF Counted
<1>14. LeaseHeld'
  BY <1>a, <1>1 DEF LeaseHeld
<1> QED  BY <1>3, <1>4, <1>5, <1>6, <1>7, <1>8, <1>9, <1>10, <1>11, <1>12, <1>13, <1>14 DEF HInv

\* A use or a close takes the connection's lock.
LEMMA TakeIoKeeps ==
  ASSUME HInv, NEW t \in Thread, TakeIo(t)
  PROVE  HInv'
<1>a. /\ ConnectionTypes /\ PlacesOK /\ FacadeSays /\ IoHeld /\ ScopesOpen /\ NativeOpen /\ OwnersLocked
      /\ OneRevokes /\ Tracked /\ Claimed /\ OpsCounted /\ LeaseHeld
  BY DEF HInv
<1>1. PICK s \in {"check", "claim"} : Go(t, s) /\ (at[t] = "io" <=> s = "check")
  BY DEF TakeIo
<1>2. /\ at[t] \in {"io", "closeio"} /\ (at[t] = "io" <=> s = "check") /\ io[mine[t]] = Nobody
           /\ mine[t] \in Handle
      /\ io' = [io EXCEPT ![mine[t]] = t] /\ io'[mine[t]] = t /\ \A h \in Handle : h # mine[t]
           => io'[h] = io[h]
      /\ at' = [at EXCEPT ![t] = s] /\ at'[t] = s
      /\ \A u \in Thread : u # t => at'[u] = at[u]
      /\ UNCHANGED <<valid, quiet, authority, facade, raw, active, closed, revoked, released,
                     olock, abandoned, stack, mine>>
  BY <1>a, <1>1 DEF TakeIo, Go, ConnectionTypes, PlacesOK, Place, Revoking, Disposals
<1>3. /\ \A u \in Thread : u # t => Place(u)' = Place(u)
      /\ \A u \in Thread : Revoking(u)' <=> Revoking(u)
      /\ Place(t) = at[t] /\ Place(t)' = s
  BY <1>a, <1>1, <1>2, PlaceSame DEF Place, Revoking, Disposals
<1>4. facade[mine[t]] = "held"
  <2>1. facade[mine[t]] \in {"none", "opening", "held", "gone"}
    BY <1>a, <1>2 DEF ConnectionTypes
  <2> QED  BY <1>a, <1>2, <1>3, <2>1 DEF FacadeSays
<1>5. ConnectionTypes'
  BY <1>a, <1>2 DEF ConnectionTypes, Places, Disposals
<1>6. PlacesOK'
  BY <1>a, <1>2, <1>3 DEF PlacesOK, Disposals
<1>7. FacadeSays'
  BY <1>a, <1>2, <1>3 DEF FacadeSays, InIo
<1>8. IoHeld'
  BY <1>a, ThreadAssumption, <1>2, <1>3, <1>4 DEF IoHeld, InIo
<1>9. ScopesOpen'
  BY <1>a, <1>2, <1>3 DEF ScopesOpen, Holds, Disposing, Disposals
<1>10. NativeOpen'
  BY <1>a, <1>2, <1>3 DEF NativeOpen
<1>11. OwnersLocked'
  BY <1>a, <1>2 DEF OwnersLocked
<1>12. OneRevokes'
  BY <1>a, <1>2, <1>3 DEF OneRevokes
<1>13. Tracked'
  BY <1>a, <1>2, <1>3 DEF Tracked, Answerable, Holds, Closing
<1>14. Claimed'
  BY <1>a, <1>2 DEF Claimed, Closing
<1>15. OpsCounted'
  BY <1>a, <1>2, <1>3, CountSame DEF Counted
<1>16. LeaseHeld'
  BY <1>a, <1>2 DEF LeaseHeld
<1> QED  BY <1>5, <1>6, <1>7, <1>8, <1>9, <1>10, <1>11, <1>12, <1>13, <1>14, <1>15, <1>16 DEF HInv

\* A use opens its scope.
LEMMA AdmitKeeps ==
  ASSUME HInv, NEW t \in Thread, At(t, "admit"), ~Refused(mine[t]),
         active' = [active EXCEPT ![mine[t]] = @ + 1], Go(t, "sql"),
         UNCHANGED <<valid, quiet, authority, facade, raw, closed, revoked, released, io, olock,
                     abandoned, stack>>
  PROVE  HInv'
<1>a. /\ ConnectionTypes /\ PlacesOK /\ FacadeSays /\ IoHeld /\ ScopesOpen /\ NativeOpen /\ OwnersLocked
      /\ OneRevokes /\ Tracked /\ Claimed /\ OpsCounted /\ LeaseHeld
  BY DEF HInv
<1>1. /\ at[t] = "admit" /\ mine[t] \in Handle /\ ~closed[mine[t]] /\ ~revoked[mine[t]]
      /\ active'[mine[t]] = active[mine[t]] + 1 /\ \A h \in Handle : h # mine[t] => active'[h] = active[h]
      /\ at' = [at EXCEPT ![t] = "sql"] /\ at'[t] = "sql"
      /\ \A u \in Thread : u # t => at'[u] = at[u]
      /\ UNCHANGED <<valid, quiet, authority, facade, raw, closed, revoked, released, io, olock,
                     abandoned, stack, mine>>
  BY <1>a DEF Go, Refused, ConnectionTypes, PlacesOK, Place, Revoking, Disposals
<1>2. /\ \A u \in Thread : u # t => Place(u)' = Place(u)
      /\ \A u \in Thread : Revoking(u)' <=> Revoking(u)
      /\ Place(t) = "admit" /\ Place(t)' = "sql"
  BY <1>a, <1>1, PlaceSame DEF Place, Revoking, Disposals
<1>3. /\ facade[mine[t]] = "held" /\ active[mine[t]] = 0
      /\ \A u \in Thread : u # t => ~Holds(u, mine[t])
  <2>1. facade[mine[t]] \in {"none", "opening", "held", "gone"}
    BY <1>a, <1>1 DEF ConnectionTypes
  <2>2. facade[mine[t]] = "held"
    BY <1>a, <1>1, <1>2, <2>1 DEF FacadeSays
  <2>3. io[mine[t]] = t
    BY <1>a, <1>1, <1>2, <2>2 DEF IoHeld, InIo
  <2>4. ASSUME NEW u \in Thread, Holds(u, mine[t]) PROVE FALSE
    BY <1>a, <1>1, <1>2, <2>2, <2>3, <2>4 DEF IoHeld, InIo, Holds, FacadeSays
  <2> QED  BY <1>a, <1>1, <2>2, <2>4 DEF ScopesOpen, ConnectionTypes
<1>4. ConnectionTypes'
  BY <1>a, <1>1, <1>3 DEF ConnectionTypes, Places, Disposals
<1>5. PlacesOK'
  BY <1>a, <1>1, <1>2 DEF PlacesOK, Disposals
<1>6. FacadeSays'
  BY <1>a, <1>1, <1>2 DEF FacadeSays, InIo
<1>7. IoHeld'
  BY <1>a, <1>1, <1>2 DEF IoHeld, InIo
<1>8. ScopesOpen'
  BY <1>a, <1>1, <1>2, <1>3 DEF ScopesOpen, Holds, Disposing, Disposals
<1>9. NativeOpen'
  BY <1>a, <1>1, <1>2 DEF NativeOpen
<1>10. OwnersLocked'
  BY <1>a, <1>1 DEF OwnersLocked
<1>11. OneRevokes'
  BY <1>a, <1>2 DEF OneRevokes
<1>12. Tracked'
  BY <1>a, <1>1, <1>2 DEF Tracked, Answerable, Holds, Closing
<1>13. Claimed'
  BY <1>a, <1>1 DEF Claimed, Closing
<1>14. OpsCounted'
  BY <1>a, <1>2, CountSame DEF Counted
<1>15. LeaseHeld'
  BY <1>a, <1>1 DEF LeaseHeld
<1> QED  BY <1>4, <1>5, <1>6, <1>7, <1>8, <1>9, <1>10, <1>11, <1>12, <1>13, <1>14, <1>15 DEF HInv

\* A callback closes the connection it runs in.
LEMMA CloseInsideKeeps ==
  ASSUME HInv, NEW t \in Thread, CloseInside(t)
  PROVE  HInv'
<1>a. /\ ConnectionTypes /\ PlacesOK /\ FacadeSays /\ IoHeld /\ ScopesOpen /\ NativeOpen /\ OwnersLocked
      /\ OneRevokes /\ Tracked /\ Claimed /\ OpsCounted /\ LeaseHeld
  BY DEF HInv
<1>1. /\ revoked' \in [Handle -> BOOLEAN] /\ \A h \in Handle : revoked[h] => revoked'[h]
      /\ UNCHANGED <<valid, quiet, authority, facade, raw, active, closed, released, io, olock,
                     abandoned, at, mine, stack>>
  BY <1>a DEF CloseInside, ConnectionTypes
<1>2. \A u \in Thread : Place(u)' = Place(u) /\ (Revoking(u)' <=> Revoking(u))
  BY <1>1, PlaceSame
<1>3. ConnectionTypes'
  BY <1>a, <1>1 DEF ConnectionTypes, Places, Disposals
<1>4. PlacesOK'
  BY <1>a, <1>1, <1>2 DEF PlacesOK
<1>5. FacadeSays'
  BY <1>a, <1>1, <1>2 DEF FacadeSays
<1>6. IoHeld'
  BY <1>a, <1>1, <1>2 DEF IoHeld
<1>7. ScopesOpen'
  BY <1>a, <1>1, <1>2 DEF ScopesOpen, Holds, Disposing
<1>8. NativeOpen'
  BY <1>a, <1>1, <1>2 DEF NativeOpen
<1>9. OwnersLocked'
  BY <1>a, <1>1 DEF OwnersLocked
<1>10. OneRevokes'
  BY <1>a, <1>1, <1>2 DEF OneRevokes
<1>11. Tracked'
  BY <1>a, <1>1, <1>2 DEF Tracked, Answerable, Holds, Closing
<1>12. Claimed'
  BY <1>a, <1>1 DEF Claimed, Closing
<1>13. OpsCounted'
  BY <1>a, <1>1, <1>2, CountSame DEF Counted
<1>14. LeaseHeld'
  BY <1>a, <1>1 DEF LeaseHeld
<1> QED  BY <1>3, <1>4, <1>5, <1>6, <1>7, <1>8, <1>9, <1>10, <1>11, <1>12, <1>13, <1>14 DEF HInv

\* A scope ends; the last one of a revoked handle disposes of it.
LEMMA LeaveKeeps ==
  ASSUME HInv, NEW t \in Thread, Leave(t)
  PROVE  HInv'
<1>a. /\ ConnectionTypes /\ PlacesOK /\ FacadeSays /\ IoHeld /\ ScopesOpen /\ NativeOpen /\ OwnersLocked
      /\ OneRevokes /\ Tracked /\ Claimed /\ OpsCounted /\ LeaseHeld
  BY DEF HInv
<1>1. /\ at[t] = "leave" /\ mine[t] \in Handle
      /\ active' = [active EXCEPT ![mine[t]] = @ - 1] /\ active'[mine[t]] = active[mine[t]] - 1
      /\ \A h \in Handle : h # mine[t] => active'[h] = active[h]
      /\ \A u \in Thread : u # t => at'[u] = at[u] /\ victim'[u] = victim[u] /\ back'[u] = back[u]
      /\ UNCHANGED <<valid, quiet, authority, facade, raw, revoked, released, io, olock,
                     abandoned, todo, then, mine>>
  BY <1>a DEF Leave, Dispose, Go, After, ConnectionTypes, PlacesOK, Place, Revoking, Disposals
<1>2. \/ /\ revoked[mine[t]] /\ ~closed[mine[t]] /\ closed' = [closed EXCEPT ![mine[t]] = TRUE]
              /\ closed'[mine[t]]
         /\ \A h \in Handle : h # mine[t] => closed'[h] = closed[h]
         /\ at' = [at EXCEPT ![t] = "lock"] /\ at'[t] = "lock"
              /\ victim' = [victim EXCEPT ![t] = mine[t]] /\ victim'[t] = mine[t]
         /\ back' = [back EXCEPT ![t] = After(t)] /\ back'[t] = After(t)
      \/ /\ ~(revoked[mine[t]] /\ ~closed[mine[t]]) /\ UNCHANGED <<closed, victim, back>>
         /\ at' = [at EXCEPT ![t] = After(t)] /\ at'[t] = After(t)
  BY <1>a, <1>1 DEF Leave, Dispose, Go, After, ConnectionTypes
<1>3. After(t) = IF facade[mine[t]] = "opening" THEN "exit" ELSE "dropio"
  BY DEF After, Opening
<1>4. /\ \A u \in Thread : u # t => Place(u)' = Place(u)
      /\ \A u \in Thread : Revoking(u)' <=> Revoking(u)
      /\ Place(t) = "leave" /\ Place(t)' = After(t)
  BY <1>a, <1>1, <1>2, <1>3, PlaceSame DEF Place, Revoking, Disposals
<1>5. /\ active[mine[t]] = 1 /\ ~closed[mine[t]] /\ facade[mine[t]] \in {"opening", "held"}
      /\ \A u \in Thread : Holds(u, mine[t]) => u = t
      /\ facade[mine[t]] = "opening" => \A u \in Thread : mine[u] = mine[t] => u = t
  <2>1. active[mine[t]] = 1 /\ ~closed[mine[t]] /\ \A u \in Thread : Holds(u, mine[t]) => u = t
    <3>1. Holds(t, mine[t])
      BY <1>4 DEF Holds
    <3> QED  BY <1>a, <1>1, <3>1 DEF ScopesOpen
  <2>2. facade[mine[t]] \in {"none", "opening", "held", "gone"}
    BY <1>a, <1>1 DEF ConnectionTypes
  <2>3. facade[mine[t]] \in {"opening", "held"}
    BY <1>a, <1>1, <1>4, <2>2 DEF FacadeSays
  <2> QED  BY <1>a, <1>1, <2>1, <2>3 DEF FacadeSays
<1>6. ConnectionTypes'
  <2>1. CASE UNCHANGED <<closed, victim, back>>
    BY <1>a, <1>1, <1>2, <1>3, <1>5, <2>1 DEF ConnectionTypes, Places, Disposals
  <2>2. CASE ~UNCHANGED <<closed, victim, back>>
    <3>0. closed' = [closed EXCEPT ![mine[t]] = TRUE] /\ victim' = [victim EXCEPT ![t] = mine[t]]
            /\ mine[t] \in Handle
      BY <1>1, <1>2, <2>2
    <3>4. closed' \in [Handle -> BOOLEAN]
      BY <1>a, <3>0 DEF ConnectionTypes
    <3>1. victim' \in [Thread -> Handle \cup {Nobody}]
      BY <1>a, <3>0 DEF ConnectionTypes
    <3>2. at' \in [Thread -> Places \cup Disposals \cup {"revoke"}]
            /\ back' \in [Thread -> Places \cup {"revoke"}]
      BY <1>a, <1>2, <1>3, <2>2 DEF ConnectionTypes, Places, Disposals
    <3>3. active' \in [Handle -> {0, 1}]
      BY <1>a, <1>1, <1>5 DEF ConnectionTypes
    <3> QED  BY <1>a, <1>1, <3>1, <3>2, <3>3, <3>4 DEF ConnectionTypes
  <2> QED  BY <2>1, <2>2
<1>7. PlacesOK'
  BY <1>a, <1>1, <1>2, <1>3, <1>4 DEF PlacesOK, Disposals
<1>8. FacadeSays'
  BY <1>a, <1>1, <1>2, <1>3, <1>4 DEF FacadeSays, InIo
<1>9. IoHeld'
  BY <1>a, <1>1, <1>3, <1>4 DEF IoHeld, InIo
<1>10. ScopesOpen'
  BY <1>a, <1>1, <1>2, <1>3, <1>4 DEF ScopesOpen, Holds, Disposing, Disposals
<1>11. NativeOpen'
  BY <1>a, <1>1, <1>2, <1>4 DEF NativeOpen
<1>12. OwnersLocked'
  BY <1>a, <1>1, <1>2, <1>3 DEF OwnersLocked
<1>13. OneRevokes'
  BY <1>a, <1>1, <1>4 DEF OneRevokes
<1>14. Tracked'
  <2> SUFFICES ASSUME NEW g \in Handle, raw'[g] = "open" PROVE Answerable(g)'
    BY DEF Tracked
  <2>1. raw[g] = "open" /\ Answerable(g)
    BY <1>a, <1>1 DEF Tracked
  <2>2. CASE g \in registered
    BY <2>2, <1>1 DEF Answerable
  <2>3. ASSUME NEW u \in Thread, g \in todo[u] PROVE Answerable(g)'
    BY <2>3, <1>1 DEF Answerable
  <2>4. ASSUME NEW u \in Thread, Closing(u, g), back[u] # "reap" PROVE Answerable(g)'
    BY <2>4, <1>1 DEF Answerable, Closing
  <2>5. ASSUME NEW u \in Thread, mine[u] = g, Place(u) \in {"register", "failed"} PROVE Answerable(g)'
    BY <2>5, <1>1, <1>4 DEF Answerable
  <2>6. ASSUME NEW u \in Thread, revoked[g], Holds(u, g) PROVE Answerable(g)'
    BY <2>1, <1>1, <1>2, <1>3, <1>4, <1>5 DEF Answerable, Holds, Closing
  <2> QED  BY <2>1, <2>2, <2>3, <2>4, <2>5, <2>6 DEF Answerable
<1>15. Claimed'
  BY <1>a, <1>1, <1>2, <1>3 DEF Claimed, Closing
<1>16. OpsCounted'
  BY <1>a, <1>1, <1>3, <1>4, CountSame DEF Counted
<1>17. LeaseHeld'
  BY <1>a, <1>1, <1>2, <1>3 DEF LeaseHeld
<1> QED  BY <1>6, <1>7, <1>8, <1>9, <1>10, <1>11, <1>12, <1>13, <1>14, <1>15, <1>16, <1>17 DEF HInv

\* The connection's lock is given back.
LEMMA DropIoKeeps ==
  ASSUME HInv, NEW t \in Thread, DropIo(t)
  PROVE  HInv'
<1>a. /\ ConnectionTypes /\ PlacesOK /\ FacadeSays /\ IoHeld /\ ScopesOpen /\ NativeOpen /\ OwnersLocked
      /\ OneRevokes /\ Tracked /\ Claimed /\ OpsCounted /\ LeaseHeld
  BY DEF HInv
<1>1. /\ at[t] = "dropio" /\ mine[t] \in Handle
      /\ io' = [io EXCEPT ![mine[t]] = Nobody] /\ io'[mine[t]] = Nobody
           /\ \A h \in Handle : h # mine[t] => io'[h] = io[h]
      /\ at' = [at EXCEPT ![t] = "exit"] /\ at'[t] = "exit"
      /\ \A u \in Thread : u # t => at'[u] = at[u]
      /\ UNCHANGED <<valid, quiet, authority, facade, raw, active, closed, revoked, released,
                     olock, abandoned, stack, mine>>
  BY <1>a DEF DropIo, Go, ConnectionTypes, PlacesOK, Place, Revoking, Disposals
<1>2. /\ \A u \in Thread : u # t => Place(u)' = Place(u)
      /\ \A u \in Thread : Revoking(u)' <=> Revoking(u)
      /\ Place(t) = "dropio" /\ Place(t)' = "exit"
  BY <1>a, <1>1, PlaceSame DEF Place, Revoking, Disposals
<1>3. facade[mine[t]] = "held" /\ io[mine[t]] = t
  <2>1. facade[mine[t]] \in {"none", "opening", "held", "gone"}
    BY <1>a, <1>1 DEF ConnectionTypes
  <2>2. facade[mine[t]] = "held"
    BY <1>a, <1>1, <1>2, <2>1 DEF FacadeSays
  <2> QED  BY <1>a, <1>1, <1>2, <2>2 DEF IoHeld, InIo
<1>4. ConnectionTypes'
  BY <1>a, <1>1 DEF ConnectionTypes, Places, Disposals
<1>5. PlacesOK'
  BY <1>a, <1>1, <1>2 DEF PlacesOK, Disposals
<1>6. FacadeSays'
  BY <1>a, <1>1, <1>2 DEF FacadeSays
<1>7. IoHeld'
  BY <1>a, ThreadAssumption, <1>1, <1>2 DEF IoHeld, InIo
<1>8. ScopesOpen'
  BY <1>a, <1>1, <1>2 DEF ScopesOpen, Holds, Disposing, Disposals
<1>9. NativeOpen'
  BY <1>a, <1>1, <1>2 DEF NativeOpen
<1>10. OwnersLocked'
  BY <1>a, <1>1 DEF OwnersLocked
<1>11. OneRevokes'
  BY <1>a, <1>1, <1>2 DEF OneRevokes
<1>12. Tracked'
  BY <1>a, <1>1, <1>2 DEF Tracked, Answerable, Holds, Closing
<1>13. Claimed'
  BY <1>a, <1>1 DEF Claimed, Closing
<1>14. OpsCounted'
  BY <1>a, <1>1, <1>2, CountSame DEF Counted
<1>15. LeaseHeld'
  BY <1>a, <1>1 DEF LeaseHeld
<1> QED  BY <1>4, <1>5, <1>6, <1>7, <1>8, <1>9, <1>10, <1>11, <1>12, <1>13, <1>14, <1>15 DEF HInv

\* A close claims a handle no scope is open on.
LEMMA ClaimKeeps ==
  ASSUME HInv, NEW t \in Thread, At(t, "claim"), Idle(mine[t]),
         closed' = [closed EXCEPT ![mine[t]] = TRUE], Dispose(t, mine[t], "dropio"),
         UNCHANGED <<valid, quiet, authority, facade, raw, active, revoked, released, io, olock,
                     abandoned, todo, then>>
  PROVE  HInv'
<1>a. /\ ConnectionTypes /\ PlacesOK /\ FacadeSays /\ IoHeld /\ ScopesOpen /\ NativeOpen /\ OwnersLocked
      /\ OneRevokes /\ Tracked /\ Claimed /\ OpsCounted /\ LeaseHeld
  BY DEF HInv
<1>1. /\ at[t] = "claim" /\ mine[t] \in Handle /\ active[mine[t]] = 0 /\ ~closed[mine[t]]
      /\ closed'[mine[t]] /\ \A h \in Handle : h # mine[t] => closed'[h] = closed[h]
      /\ at' = [at EXCEPT ![t] = "lock"] /\ at'[t] = "lock"
           /\ victim' = [victim EXCEPT ![t] = mine[t]] /\ victim'[t] = mine[t]
      /\ back' = [back EXCEPT ![t] = "dropio"] /\ back'[t] = "dropio"
      /\ \A u \in Thread : u # t => at'[u] = at[u] /\ victim'[u] = victim[u] /\ back'[u] = back[u]
      /\ UNCHANGED <<valid, quiet, authority, facade, raw, active, revoked, released, io, olock,
                     abandoned, todo, then, mine>>
  BY <1>a DEF Dispose, Go, Idle, ConnectionTypes, PlacesOK, Place, Revoking, Disposals
<1>2. /\ \A u \in Thread : u # t => Place(u)' = Place(u)
      /\ \A u \in Thread : Revoking(u)' <=> Revoking(u)
      /\ Place(t) = "claim" /\ Place(t)' = "dropio"
  BY <1>a, <1>1, PlaceSame DEF Place, Revoking, Disposals
<1>3. facade[mine[t]] = "held"
  <2>1. facade[mine[t]] \in {"none", "opening", "held", "gone"}
    BY <1>a, <1>1 DEF ConnectionTypes
  <2> QED  BY <1>a, <1>1, <1>2, <2>1 DEF FacadeSays
<1>4. ConnectionTypes'
  BY <1>a, <1>1 DEF ConnectionTypes, Places, Disposals
<1>5. PlacesOK'
  BY <1>a, <1>1, <1>2 DEF PlacesOK
<1>6. FacadeSays'
  BY <1>a, <1>1, <1>2 DEF FacadeSays, InIo
<1>7. IoHeld'
  BY <1>a, <1>1, <1>2 DEF IoHeld, InIo
<1>8. ScopesOpen'
  BY <1>a, <1>1, <1>2 DEF ScopesOpen, Holds, Disposing
<1>9. NativeOpen'
  BY <1>a, <1>1, <1>2 DEF NativeOpen
<1>10. OwnersLocked'
  BY <1>a, <1>1 DEF OwnersLocked
<1>11. OneRevokes'
  BY <1>a, <1>2 DEF OneRevokes
<1>12. Tracked'
  BY <1>a, <1>1, <1>2 DEF Tracked, Answerable, Holds, Closing
<1>13. Claimed'
  BY <1>a, <1>1 DEF Claimed, Closing
<1>14. OpsCounted'
  BY <1>a, <1>2, CountSame DEF Counted
<1>15. LeaseHeld'
  BY <1>a, <1>1 DEF LeaseHeld
<1> QED  BY <1>4, <1>5, <1>6, <1>7, <1>8, <1>9, <1>10, <1>11, <1>12, <1>13, <1>14, <1>15 DEF HInv

\* A call begins, on a facade it holds or makes.
LEMMA CallKeeps ==
  ASSUME HInv, NEW t \in Thread, NEW h \in Handle,
         NEW s \in {"precheck", "useenter", "closeenter"}, Call(t, h, s),
         \/ s = "precheck" /\ facade[h] = "none" /\ (\A u \in Thread : mine[u] # h)
         \/ s # "precheck" /\ facade[h] = "held"
  PROVE  HInv'
<1>a. /\ ConnectionTypes /\ PlacesOK /\ FacadeSays /\ IoHeld /\ ScopesOpen /\ NativeOpen /\ OwnersLocked
      /\ OneRevokes /\ Tracked /\ Claimed /\ OpsCounted /\ LeaseHeld
  BY DEF HInv
<1>1. /\ at[t] = "idle" /\ at' = [at EXCEPT ![t] = s] /\ at'[t] = s
      /\ mine' = [mine EXCEPT ![t] = h] /\ mine'[t] = h /\ mine[t] = Nobody
      /\ \A u \in Thread : u # t => at'[u] = at[u] /\ mine'[u] = mine[u]
      /\ UNCHANGED <<valid, quiet, authority, handles, stack>>
  BY <1>a DEF Call, ConnectionTypes, PlacesOK
<1>2. /\ \A u \in Thread : u # t => Place(u)' = Place(u)
      /\ \A u \in Thread : Revoking(u)' <=> Revoking(u)
      /\ Place(t) = "idle" /\ Place(t)' = s
  BY <1>a, <1>1, PlaceSame DEF Place, Revoking, Disposals
<1>3. ConnectionTypes'
  BY <1>a, <1>1 DEF ConnectionTypes, Places, Disposals
<1>4. PlacesOK'
  BY <1>a, <1>1, <1>2 DEF PlacesOK, Disposals
<1>5. FacadeSays'
  BY <1>a, <1>1, <1>2 DEF FacadeSays
<1>6. IoHeld'
  BY <1>a, <1>1, <1>2 DEF IoHeld, InIo
<1>7. ScopesOpen'
  BY <1>a, <1>1, <1>2 DEF ScopesOpen, Holds, Disposing, Disposals
<1>8. NativeOpen'
  BY <1>a, <1>1, <1>2 DEF NativeOpen
<1>9. OwnersLocked'
  BY <1>a, <1>1 DEF OwnersLocked
<1>10. OneRevokes'
  BY <1>a, <1>1, <1>2 DEF OneRevokes
<1>11. Tracked'
  BY <1>a, <1>1, <1>2 DEF Tracked, Answerable, Holds, Closing
<1>12. Claimed'
  BY <1>a, <1>1 DEF Claimed, Closing
<1>13. OpsCounted'
  BY <1>a, <1>1, <1>2, CountSame DEF Counted
<1>14. LeaseHeld'
  BY <1>a, <1>1 DEF LeaseHeld
<1> QED  BY <1>3, <1>4, <1>5, <1>6, <1>7, <1>8, <1>9, <1>10, <1>11, <1>12, <1>13, <1>14 DEF HInv

\* The application drops its last reference.
LEMMA DropKeeps ==
  ASSUME HInv, NEW h \in Handle, Drop(h)
  PROVE  HInv'
<1>a. /\ ConnectionTypes /\ PlacesOK /\ FacadeSays /\ IoHeld /\ ScopesOpen /\ NativeOpen /\ OwnersLocked
      /\ OneRevokes /\ Tracked /\ Claimed /\ OpsCounted /\ LeaseHeld
  BY DEF HInv
<1>1. /\ facade[h] = "held" /\ \A t \in Thread : mine[t] # h /\ victim[t] # h
      /\ facade' = [facade EXCEPT ![h] = "gone"] /\ facade'[h] = "gone" /\ \A g \in Handle : g # h
           => facade'[g] = facade[g]
      /\ abandoned \subseteq abandoned' /\ abandoned' \subseteq abandoned \cup {h}
      /\ UNCHANGED <<valid, quiet, authority, raw, active, closed, revoked, released, io, olock,
                     at, mine, stack>>
  BY <1>a DEF Drop, ConnectionTypes
<1>2. \A u \in Thread : Place(u)' = Place(u) /\ (Revoking(u)' <=> Revoking(u))
  BY <1>1, PlaceSame
<1>3. ConnectionTypes'
  BY <1>a, <1>1 DEF ConnectionTypes, Places, Disposals
<1>4. PlacesOK'
  BY <1>a, <1>1, <1>2 DEF PlacesOK
<1>5. FacadeSays'
  BY <1>a, <1>1, <1>2 DEF FacadeSays
<1>6. IoHeld'
  BY <1>a, <1>1, <1>2 DEF IoHeld
<1>7. ScopesOpen'
  BY <1>a, <1>1, <1>2 DEF ScopesOpen, Holds, Disposing
<1>8. NativeOpen'
  BY <1>a, <1>1, <1>2 DEF NativeOpen
<1>9. OwnersLocked'
  BY <1>a, <1>1 DEF OwnersLocked
<1>10. OneRevokes'
  BY <1>a, <1>1, <1>2 DEF OneRevokes
<1>11. Tracked'
  BY <1>a, <1>1, <1>2 DEF Tracked, Answerable, Holds, Closing
<1>12. Claimed'
  BY <1>a, <1>1 DEF Claimed, Closing
<1>13. OpsCounted'
  BY <1>a, <1>1, <1>2, CountSame DEF Counted
<1>14. LeaseHeld'
  BY <1>a, <1>1 DEF LeaseHeld
<1> QED  BY <1>3, <1>4, <1>5, <1>6, <1>7, <1>8, <1>9, <1>10, <1>11, <1>12, <1>13, <1>14 DEF HInv

\* The database changes, or the application starts no more calls.
LEMMA WorldKeeps ==
  ASSUME HInv, UNCHANGED <<authority, handles, at, mine, stack>>, valid' \in BOOLEAN, quiet' \in BOOLEAN
  PROVE  HInv'
<1>a. /\ ConnectionTypes /\ PlacesOK /\ FacadeSays /\ IoHeld /\ ScopesOpen /\ NativeOpen /\ OwnersLocked
      /\ OneRevokes /\ Tracked /\ Claimed /\ OpsCounted /\ LeaseHeld
  BY DEF HInv
<1>1. \A u \in Thread : Place(u)' = Place(u) /\ (Revoking(u)' <=> Revoking(u))
  BY PlaceSame
<1>2. ConnectionTypes'
  BY <1>a DEF ConnectionTypes
<1>3. PlacesOK'
  BY <1>a, <1>1 DEF PlacesOK
<1>4. FacadeSays'
  BY <1>a, <1>1 DEF FacadeSays
<1>5. IoHeld'
  BY <1>a, <1>1 DEF IoHeld
<1>6. ScopesOpen'
  BY <1>a, <1>1 DEF ScopesOpen, Holds, Disposing
<1>7. NativeOpen'
  BY <1>a, <1>1 DEF NativeOpen
<1>8. OwnersLocked'
  BY <1>a DEF OwnersLocked
<1>9. OneRevokes'
  BY <1>a, <1>1 DEF OneRevokes
<1>10. Tracked'
  BY <1>a, <1>1 DEF Tracked, Answerable, Holds, Closing
<1>11. Claimed'
  BY <1>a DEF Claimed, Closing
<1>12. OpsCounted'
  BY <1>a, <1>1, CountSame DEF Counted
<1>13. LeaseHeld'
  BY <1>a DEF LeaseHeld
<1> QED  BY <1>2, <1>3, <1>4, <1>5, <1>6, <1>7, <1>8, <1>9, <1>10, <1>11, <1>12, <1>13 DEF HInv

\* A check of the authority refuses: it was revoked, or is revoked now.
LEMMA RefusedKeeps ==
  ASSUME HInv, NEW t \in Thread, NEW s \in Places, NEW f \in Places, <<at[t], f>> \in Moves \cap Revocations,
         Check(t, s, f), ~valid \/ terminal
  PROVE  HInv'
<1>1. CASE terminal
  <2>1. Go(t, f) /\ UNCHANGED <<valid, quiet, authority, handles, stack>>
    BY <1>1 DEF Check
  <2> QED  BY <2>1, MoveKeeps
<1>2. CASE ~terminal
  <2>1. BeginRevocation(t, f) /\ alock = Nobody /\ UNCHANGED <<valid, quiet>>
    BY <1>2 DEF Check
  <2> QED  BY <1>2, <2>1, RevokeKeeps
<1> QED  BY <1>1, <1>2

\* A check of the authority, with either outcome.
LEMMA CheckKeeps ==
  ASSUME HInv, NEW t \in Thread, NEW s \in Places, NEW f \in Places, <<at[t], f>> \in Moves \cap Revocations,
         <<at[t], s>> \in Moves, Check(t, s, f)
  PROVE  HInv'
<1>1. CASE valid /\ ~terminal
  <2>1. Go(t, s) /\ UNCHANGED <<valid, quiet, authority, handles, stack>>
    BY <1>1 DEF Check
  <2> QED  BY <2>1, MoveKeeps
<1>2. CASE ~valid \/ terminal
  BY <1>2, RefusedKeeps
<1> QED  BY <1>1, <1>2

\* An operation is admitted, or refused.
LEMMA EnterMoves ==
  ASSUME HInv, NEW t \in Thread, NEW s \in Places, Enter(t, s),
         <<at[t], s>> \in {<<"openenter", "connect">>, <<"useenter", "io">>}
  PROVE  HInv'
<1>1. CASE valid /\ ~terminal
  BY <1>1, EnterKeeps DEF Enter
<1>2. CASE ~(valid /\ ~terminal)
  <2>1. Check(t, s, "idle") /\ <<at[t], "idle">> \in Moves \cap Revocations /\ "idle" \in Places
    BY <1>2 DEF Enter, Moves, Revocations, Places
  <2>2. ~valid \/ terminal
    BY <1>2
  <2> QED  BY <2>1, <2>2, RefusedKeeps
<1> QED  BY <1>1, <1>2

-----------------------------------------------------------------------------
\* A provider without connections.
LEMMA ConnectionStarts == ConnectionInit => HInv
<1> SUFFICES ASSUME ConnectionInit PROVE HInv
  OBVIOUS
<1>1. \A t \in Thread : at[t] = "idle" /\ Place(t) = "idle" /\ ~Revoking(t) /\ mine[t] = Nobody
        /\ todo[t] = {}
  BY DEF ConnectionInit, Place, Revoking, Disposals
<1>2. ConnectionTypes
  BY DEF ConnectionInit, ConnectionTypes, Places
<1>3. OpsCounted
  <2>1. {t \in Thread : Counted(t)} = {}
    BY <1>1 DEF Counted
  <2> QED  BY <2>1, FS_EmptySet DEF OpsCounted, ConnectionInit
<1>4. PlacesOK /\ FacadeSays
  BY <1>1, HandleAssumption DEF ConnectionInit, PlacesOK, FacadeSays, Disposals
<1>5. IoHeld /\ ScopesOpen
  BY <1>1, ThreadAssumption, HandleAssumption
  DEF ConnectionInit, IoHeld, ScopesOpen, Holds, Disposing, Disposals
<1>6. NativeOpen /\ OwnersLocked /\ OneRevokes
  BY <1>1, ThreadAssumption DEF ConnectionInit, NativeOpen, OwnersLocked, OneRevokes
<1>7. Tracked /\ Claimed /\ LeaseHeld
  BY DEF ConnectionInit, Tracked, Claimed, LeaseHeld
<1> QED  BY <1>2, <1>3, <1>4, <1>5, <1>6, <1>7 DEF HInv

\* Whatever step is taken keeps HInv.
LEMMA ConnectionStep == HInv /\ [ConnectionNext]_connectionVars => HInv'
<1> SUFFICES ASSUME HInv, [ConnectionNext]_connectionVars PROVE HInv'
  OBVIOUS
<1>a. ConnectionTypes
  BY DEF HInv
<1>1. ASSUME NEW t \in Thread, PreCheck(t) PROVE HInv'
  <2>1. Check(t, "reap", "idle") /\ <<at[t], "idle">> \in Moves \cap Revocations
          /\ <<at[t], "reap">> \in Moves
    BY <1>1 DEF PreCheck, Moves, Revocations
  <2> QED  BY <2>1, CheckKeeps DEF Places
<1>2. ASSUME NEW t \in Thread, Reap(t) PROVE HInv'
  <2>1. CASE Go(t, "openenter") /\ UNCHANGED <<abandoned, victim, back>>
    <3>1. UNCHANGED <<valid, quiet, authority, handles, stack>> /\ <<at[t], "openenter">> \in Moves
      BY <1>2, <2>1 DEF Reap, Moves
    <3> QED  BY <2>1, <3>1, MoveKeeps DEF Places
  <2>2. ASSUME NEW h \in abandoned, abandoned' = abandoned \ {h}, Dispose(t, h, "reap") PROVE HInv'
    BY <1>2, <2>2, ReapKeeps DEF Reap
  <2> QED  BY <1>2, <2>1, <2>2 DEF Reap
<1>3. ASSUME NEW t \in Thread, EnterOpen(t) \/ EnterUse(t) PROVE HInv'
  <2>1. CASE EnterOpen(t)
    BY <2>1, EnterMoves DEF EnterOpen, Places
  <2>2. CASE EnterUse(t)
    BY <2>2, EnterMoves DEF EnterUse, Places
  <2> QED  BY <1>3, <2>1, <2>2
<1>4. ASSUME NEW t \in Thread, Register(t) PROVE HInv'
  <2>1. CASE valid /\ ~terminal
    BY <1>4, <2>1, RegisterKeeps DEF Register
  <2>2. CASE ~valid \/ terminal
    <3>1. Check(t, "final", "failed") /\ <<at[t], "failed">> \in Moves \cap Revocations
      BY <1>4, <2>2 DEF Register, Moves, Revocations
    <3> QED  BY <2>2, <3>1, RefusedKeeps DEF Places
  <2> QED  BY <2>1, <2>2
<1>5. ASSUME NEW t \in Thread, FinalCheck(t) PROVE HInv'
  <2>1. PICK s \in {"failed", "leave"} : Check(t, s, "failed") /\ at[t] = "final"
    BY <1>5 DEF FinalCheck
  <2>2. <<at[t], "failed">> \in Moves \cap Revocations /\ <<at[t], s>> \in Moves
    BY <2>1 DEF Moves, Revocations
  <2> QED  BY <2>1, <2>2, CheckKeeps DEF Places
<1>6. ASSUME NEW t \in Thread, CheckUse(t) PROVE HInv'
  <2>1. PICK s \in {"dropio", "admit"} : Check(t, s, "dropio") /\ at[t] = "check"
    BY <1>6 DEF CheckUse
  <2>2. <<at[t], "dropio">> \in Moves \cap Revocations /\ <<at[t], s>> \in Moves
    BY <2>1 DEF Moves, Revocations
  <2> QED  BY <2>1, <2>2, CheckKeeps DEF Places
<1>7. ASSUME NEW t \in Thread, Admit(t) PROVE HInv'
  <2>1. CASE Refused(mine[t])
    <3>1. Go(t, "dropio") /\ UNCHANGED <<valid, quiet, authority, handles, stack>>
            /\ <<at[t], "dropio">> \in Moves
      BY <1>7, <2>1 DEF Admit, Moves
    <3> QED  BY <3>1, MoveKeeps DEF Places
  <2>2. CASE ~Refused(mine[t])
    BY <1>7, <2>2, AdmitKeeps DEF Admit
  <2> QED  BY <2>1, <2>2
<1>8. ASSUME NEW t \in Thread, EndSql(t) PROVE HInv'
  <2>1. <<at[t], "leave">> \in Moves \cap Revocations
    BY <1>8 DEF EndSql, Moves, Revocations
  <2>2. CASE Check(t, "leave", "leave")
    BY <2>1, <2>2, CheckKeeps DEF Places
  <2>3. CASE Go(t, "leave") /\ UNCHANGED <<valid, quiet, authority, handles, stack>>
    BY <2>1, <2>3, MoveKeeps DEF Places
  <2> QED  BY <1>8, <2>2, <2>3 DEF EndSql
<1>9. ASSUME NEW t \in Thread, Claim(t) PROVE HInv'
  <2>1. CASE Idle(mine[t])
    BY <1>9, <2>1, ClaimKeeps DEF Claim
  <2>2. CASE ~Idle(mine[t])
    <3>1. Go(t, "dropio") /\ UNCHANGED <<valid, quiet, authority, handles, stack>>
            /\ <<at[t], "dropio">> \in Moves
      BY <1>9, <2>2 DEF Claim, Moves
    <3> QED  BY <3>1, MoveKeeps DEF Places
  <2> QED  BY <2>1, <2>2
<1>10. ASSUME NEW t \in Thread, Revoke(t) PROVE HInv'
  <2>1. <<at[t], "idle">> \in Revocations
    BY <1>10 DEF Revoke, Revocations
  <2> QED  BY <1>10, <2>1, RevokeKeeps DEF Revoke, Places
<1>11. ASSUME NEW t \in Thread, NEW h \in Handle, OpenCall(t, h) \/ Use(t, h) \/ Close(t, h) PROVE HInv'
  <2>1. CASE OpenCall(t, h)
    BY <2>1, CallKeeps DEF OpenCall
  <2>2. CASE Use(t, h)
    BY <2>2, CallKeeps DEF Use
  <2>3. CASE Close(t, h)
    BY <2>3, CallKeeps DEF Close
  <2> QED  BY <1>11, <2>1, <2>2, <2>3
<1>12. CASE Change \/ Cease \/ UNCHANGED connectionVars
  <2>1. UNCHANGED <<authority, handles, at, mine, stack>> /\ valid' \in BOOLEAN /\ quiet' \in BOOLEAN
    BY <1>a, <1>12 DEF Change, Cease, connectionVars, ConnectionTypes
  <2> QED  BY <2>1, WorldKeeps
<1>13. ASSUME NEW t \in Thread, Step(t) PROVE HInv'
  BY <1>13, <1>1, <1>2, <1>3, <1>4, <1>5, <1>6, <1>7, <1>8, <1>9, RevokeNextKeeps, RevokeEndKeeps,
     LockOwnerKeeps, CloseRawKeeps, UnregisterKeeps, ExitKeeps, ConnectKeeps, FailKeeps, TakeIoKeeps,
     LeaveKeeps, DropIoKeeps, EnterCloseKeeps DEF Step
<1>14. ASSUME NEW h \in Handle, Drop(h) PROVE HInv'
  BY <1>14, DropKeeps
<1>15. ASSUME NEW t \in Thread, CloseInside(t) PROVE HInv'
  BY <1>15, CloseInsideKeeps
<1> QED  BY <1>10, <1>11, <1>12, <1>13, <1>14, <1>15 DEF ConnectionNext

\* The invariant, however threads open, use, close, drop and revoke: every open handle is
\* registered, or known to a revocation or to a counted operation that ends with its closing.
THEOREM ConnectionInvariant ==
  ConnectionSpec => []HInv
<1> QED  BY ConnectionStarts, ConnectionStep, PTL DEF ConnectionSpec

\* No native handle outlives the lease, no statement runs on one that is closed, and after a
\* revocation whoever still has one is about to close it (Authority.invalidate, _RawOwner).
THEOREM ConnectionAccounts ==
  ConnectionSpec => []HandlesAccounted
<1>1. HInv => HandlesAccounted
  <2> SUFFICES ASSUME HInv PROVE HandlesAccounted
    OBVIOUS
  <2>a. /\ ConnectionTypes /\ PlacesOK /\ FacadeSays /\ ScopesOpen /\ NativeOpen
        /\ OneRevokes /\ Tracked /\ LeaseHeld
    BY DEF HInv
  <2>1. ~leased => \A h \in Handle : raw[h] # "open"
    BY <2>a DEF LeaseHeld
  <2>2. ASSUME NEW t \in Thread, At(t, "sql") PROVE raw[mine[t]] = "open"
    <3>1. Place(t) = "sql" /\ mine[t] \in Handle
      BY <2>a, <2>2 DEF Place, Revoking, Disposals, PlacesOK
    <3>2. facade[mine[t]] \in {"none", "opening", "held", "gone"}
      BY <2>a, <3>1 DEF ConnectionTypes
    <3>3. facade[mine[t]] = "held"
      BY <2>a, <3>1, <3>2 DEF FacadeSays
    <3>4. Holds(t, mine[t])
      BY <3>1 DEF Holds
    <3>5. ~closed[mine[t]]
      BY <2>a, <3>1, <3>4 DEF ScopesOpen, ConnectionTypes
    <3> QED  BY <2>a, <3>1, <3>3, <3>5 DEF NativeOpen
  <2>3. ASSUME terminal, alock = Nobody, NEW h \in Handle, raw[h] = "open"
        PROVE  \E t \in Thread : ~At(t, "idle") /\ h \in {mine[t], victim[t]}
    <3>1. h \notin registered /\ \A t \in Thread : h \notin todo[t] /\ ~Revoking(t)
      BY <2>a, <2>3, ThreadAssumption DEF OneRevokes
    <3>2. Answerable(h)
      BY <2>a, <2>3 DEF Tracked
    <3>3. \A t \in Thread : At(t, "idle") => Place(t) = "idle" /\ at[t] \notin {"lock", "close"}
      BY DEF Place, Revoking, Disposals
    <3> QED  BY <3>1, <3>2, <3>3 DEF Answerable, Closing, Holds
  <2> QED  BY <2>1, <2>2, <2>3 DEF HandlesAccounted
<1> QED  BY <1>1, ConnectionInvariant, PTL
=============================================================================
