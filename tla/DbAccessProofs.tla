---------------------------- MODULE DbAccessProofs ---------------------------
(***************************************************************************)
(* Who gets at the databases: the leases (DbLease), and the start of the   *)
(* application that converts or admits them under a lease (DbStartup).     *)
(*                                                                         *)
(* Exclusion and LifetimeCovered, for any number of processes, threads and *)
(* open descriptions: IInv is inductive, one lemma per action, one step    *)
(* per conjunct.                                                           *)
(*                                                                         *)
(* RunsMatchHome, OutcomesInOrder and the refinement of DbHome, for any    *)
(* number of processes that start, convert, restore and die: SInv is       *)
(* inductive. Whoever works on the files is alone, a journal exists while  *)
(* the files are being swapped, an attempt is recorded before its work,    *)
(* and a prompt that hung has left its schedule and, unless it was swept    *)
(* away, its record.                                                       *)
(***************************************************************************)
EXTENDS DbLease, DbStartup, TLAPS

\* acquire_runtime opening its description.
LEMMA OpenRuntimePreserves ==
  ASSUME IInv, NEW p \in Proc, NEW t \in Thread, OpenRuntime(p, t)
  PROVE  IInv'
<1>1. TypeOK'
  BY DepthAssumption, NoneAssumption
  DEF IInv, TypeOK, OwnsItsDescription, Steps, Running, procVars, kernelVars, registryVars, OpenRuntime,
      OpenLock
<1>2. OwnsItsDescription'
  BY NoneAssumption
  DEF IInv, TypeOK, OwnsItsDescription, QuietOutside, Running, procVars, kernelVars, registryVars,
      OpenRuntime, OpenLock
<1>3. KernelExclusion'
  BY NoneAssumption
  DEF IInv, TypeOK, OwnsItsDescription, KernelExclusion, Running, procVars, kernelVars, registryVars,
      OpenRuntime, OpenLock
<1>4. LeaseBacked'
  BY NoneAssumption
  DEF IInv, TypeOK, OwnsItsDescription, KernelExclusion, LeaseBacked, Running, procVars, kernelVars,
      registryVars, OpenRuntime, OpenLock
<1>5. RegistriesAgree'
  BY NoneAssumption
  DEF IInv, TypeOK, RegistriesAgree, QuietOutside, Running, procVars, kernelVars, registryVars, OpenRuntime,
      OpenLock
<1>6. QuietOutside'
  BY NoneAssumption
  DEF IInv, TypeOK, QuietOutside, Running, procVars, kernelVars, registryVars, OpenRuntime, OpenLock
<1> QED  BY <1>1, <1>2, <1>3, <1>4, <1>5, <1>6 DEF IInv

\* acquire_runtime refused beside the process's own maintenance.
LEMMA RefuseRuntimePreserves ==
  ASSUME IInv, NEW p \in Proc, NEW t \in Thread, RefuseRuntime(p, t)
  PROVE  IInv'
<1>1. TypeOK'
  BY DepthAssumption, NoneAssumption
  DEF IInv, TypeOK, OwnsItsDescription, Steps, Running, procVars, kernelVars, registryVars, NoWriter, Owner,
      RefuseRuntime
<1>2. OwnsItsDescription'
  BY NoneAssumption
  DEF IInv, TypeOK, OwnsItsDescription, QuietOutside, Running, procVars, kernelVars, registryVars, NoWriter,
      Owner, RefuseRuntime
<1>3. KernelExclusion'
  BY NoneAssumption
  DEF IInv, TypeOK, OwnsItsDescription, KernelExclusion, Running, procVars, kernelVars, registryVars,
      NoWriter, Owner, RefuseRuntime
<1>4. LeaseBacked'
  BY NoneAssumption
  DEF IInv, TypeOK, OwnsItsDescription, KernelExclusion, LeaseBacked, Running, procVars, kernelVars,
      registryVars, NoWriter, Owner, RefuseRuntime
<1>5. RegistriesAgree'
  BY NoneAssumption
  DEF IInv, TypeOK, RegistriesAgree, QuietOutside, Running, procVars, kernelVars, registryVars, NoWriter,
      Owner, RefuseRuntime
<1>6. QuietOutside'
  BY NoneAssumption
  DEF IInv, TypeOK, QuietOutside, Running, procVars, kernelVars, registryVars, NoWriter, Owner, RefuseRuntime
<1> QED  BY <1>1, <1>2, <1>3, <1>4, <1>5, <1>6 DEF IInv

\* acquire_runtime entering _READERS and _HANDLES.
LEMMA RegisterRuntimePreserves ==
  ASSUME IInv, NEW p \in Proc, NEW t \in Thread, RegisterRuntime(p, t)
  PROVE  IInv'
<1>1. TypeOK'
  BY DepthAssumption, NoneAssumption
  DEF IInv, TypeOK, OwnsItsDescription, Steps, Running, procVars, kernelVars, registryVars, NoWriter, Owner,
      RegisterRuntime
<1>2. OwnsItsDescription'
  BY NoneAssumption
  DEF IInv, TypeOK, OwnsItsDescription, QuietOutside, Running, procVars, kernelVars, registryVars, NoWriter,
      Owner, RegisterRuntime
<1>3. KernelExclusion'
  BY NoneAssumption
  DEF IInv, TypeOK, OwnsItsDescription, KernelExclusion, Running, procVars, kernelVars, registryVars,
      NoWriter, Owner, RegisterRuntime
<1>4. LeaseBacked'
  BY NoneAssumption
  DEF IInv, TypeOK, OwnsItsDescription, KernelExclusion, LeaseBacked, Running, procVars, kernelVars,
      registryVars, NoWriter, Owner, RegisterRuntime
<1>5. RegistriesAgree'
  BY NoneAssumption
  DEF IInv, TypeOK, RegistriesAgree, QuietOutside, Running, procVars, kernelVars, registryVars, NoWriter,
      Owner, RegisterRuntime
<1>6. QuietOutside'
  BY NoneAssumption
  DEF IInv, TypeOK, QuietOutside, Running, procVars, kernelVars, registryVars, NoWriter, Owner,
      RegisterRuntime
<1> QED  BY <1>1, <1>2, <1>3, <1>4, <1>5, <1>6 DEF IInv

\* The shared flock is granted.
LEMMA AcquireRuntimePreserves ==
  ASSUME IInv, NEW p \in Proc, NEW t \in Thread, AcquireRuntime(p, t)
  PROVE  IInv'
<1>1. TypeOK'
  BY DepthAssumption, NoneAssumption
  DEF IInv, TypeOK, OwnsItsDescription, Steps, Running, procVars, kernelVars, registryVars, AcquireRuntime,
      SharedConflict
<1>2. OwnsItsDescription'
  BY NoneAssumption
  DEF IInv, TypeOK, OwnsItsDescription, QuietOutside, Running, procVars, kernelVars, registryVars,
      AcquireRuntime, SharedConflict
<1>3. KernelExclusion'
  BY NoneAssumption
  DEF IInv, TypeOK, OwnsItsDescription, KernelExclusion, Running, procVars, kernelVars, registryVars,
      AcquireRuntime, SharedConflict
<1>4. LeaseBacked'
  BY NoneAssumption
  DEF IInv, TypeOK, OwnsItsDescription, KernelExclusion, LeaseBacked, Running, procVars, kernelVars,
      registryVars, AcquireRuntime, SharedConflict
<1>5. RegistriesAgree'
  BY NoneAssumption
  DEF IInv, TypeOK, RegistriesAgree, QuietOutside, Running, procVars, kernelVars, registryVars,
      AcquireRuntime, SharedConflict
<1>6. QuietOutside'
  BY NoneAssumption
  DEF IInv, TypeOK, QuietOutside, Running, procVars, kernelVars, registryVars, AcquireRuntime, SharedConflict
<1> QED  BY <1>1, <1>2, <1>3, <1>4, <1>5, <1>6 DEF IInv

\* The shared flock times out.
LEMMA RuntimeBusyPreserves ==
  ASSUME IInv, NEW p \in Proc, NEW t \in Thread, RuntimeBusy(p, t)
  PROVE  IInv'
<1>1. TypeOK'
  BY DepthAssumption, NoneAssumption
  DEF IInv, TypeOK, OwnsItsDescription, Steps, Running, procVars, kernelVars, registryVars, RuntimeBusy,
      CloseRuntime
<1>2. OwnsItsDescription'
  BY NoneAssumption
  DEF IInv, TypeOK, OwnsItsDescription, QuietOutside, Running, procVars, kernelVars, registryVars,
      RuntimeBusy, CloseRuntime
<1>3. KernelExclusion'
  BY NoneAssumption
  DEF IInv, TypeOK, OwnsItsDescription, KernelExclusion, Running, procVars, kernelVars, registryVars,
      RuntimeBusy, CloseRuntime
<1>4. LeaseBacked'
  BY NoneAssumption
  DEF IInv, TypeOK, OwnsItsDescription, KernelExclusion, LeaseBacked, Running, procVars, kernelVars,
      registryVars, RuntimeBusy, CloseRuntime
<1>5. RegistriesAgree'
  BY NoneAssumption
  DEF IInv, TypeOK, RegistriesAgree, QuietOutside, Running, procVars, kernelVars, registryVars, RuntimeBusy,
      CloseRuntime
<1>6. QuietOutside'
  BY NoneAssumption
  DEF IInv, TypeOK, QuietOutside, Running, procVars, kernelVars, registryVars, RuntimeBusy, CloseRuntime
<1> QED  BY <1>1, <1>2, <1>3, <1>4, <1>5, <1>6 DEF IInv

\* RuntimeLease.close leaving the registries.
LEMMA ReleaseRuntimePreserves ==
  ASSUME IInv, NEW p \in Proc, NEW t \in Thread, ReleaseRuntime(p, t)
  PROVE  IInv'
<1>1. TypeOK'
  BY DepthAssumption, NoneAssumption
  DEF IInv, TypeOK, OwnsItsDescription, Steps, Running, procVars, kernelVars, registryVars, ReleaseRuntime,
      CloseRuntime
<1>2. OwnsItsDescription'
  BY NoneAssumption
  DEF IInv, TypeOK, OwnsItsDescription, QuietOutside, Running, procVars, kernelVars, registryVars,
      ReleaseRuntime, CloseRuntime
<1>3. KernelExclusion'
  BY NoneAssumption
  DEF IInv, TypeOK, OwnsItsDescription, KernelExclusion, Running, procVars, kernelVars, registryVars,
      ReleaseRuntime, CloseRuntime
<1>4. LeaseBacked'
  BY NoneAssumption
  DEF IInv, TypeOK, OwnsItsDescription, KernelExclusion, LeaseBacked, Running, procVars, kernelVars,
      registryVars, ReleaseRuntime, CloseRuntime
<1>5. RegistriesAgree'
  BY NoneAssumption
  DEF IInv, TypeOK, RegistriesAgree, QuietOutside, Running, procVars, kernelVars, registryVars,
      ReleaseRuntime, CloseRuntime
<1>6. QuietOutside'
  BY NoneAssumption
  DEF IInv, TypeOK, QuietOutside, Running, procVars, kernelVars, registryVars, ReleaseRuntime, CloseRuntime
<1> QED  BY <1>1, <1>2, <1>3, <1>4, <1>5, <1>6 DEF IInv

\* runtime_lease keeping its scope in _LEASES.
LEMMA KeepForLifePreserves ==
  ASSUME IInv, NEW p \in Proc, NEW t \in Thread, KeepForLife(p, t)
  PROVE  IInv'
<1>1. TypeOK'
  BY DepthAssumption, NoneAssumption
  DEF IInv, TypeOK, OwnsItsDescription, Steps, Running, procVars, kernelVars, registryVars, KeepForLife
<1>2. OwnsItsDescription'
  BY NoneAssumption
  DEF IInv, TypeOK, OwnsItsDescription, QuietOutside, Running, procVars, kernelVars, registryVars,
      KeepForLife
<1>3. KernelExclusion'
  BY NoneAssumption
  DEF IInv, TypeOK, OwnsItsDescription, KernelExclusion, Running, procVars, kernelVars, registryVars,
      KeepForLife
<1>4. LeaseBacked'
  BY NoneAssumption
  DEF IInv, TypeOK, OwnsItsDescription, KernelExclusion, LeaseBacked, Running, procVars, kernelVars,
      registryVars, KeepForLife
<1>5. RegistriesAgree'
  BY NoneAssumption
  DEF IInv, TypeOK, RegistriesAgree, QuietOutside, Running, procVars, kernelVars, registryVars, KeepForLife
<1>6. QuietOutside'
  BY NoneAssumption DEF IInv, TypeOK, QuietOutside, Running, procVars, kernelVars, registryVars, KeepForLife
<1> QED  BY <1>1, <1>2, <1>3, <1>4, <1>5, <1>6 DEF IInv

\* _close_legacy_leases giving the lifetime scope up.
LEMMA ShutdownLeasePreserves ==
  ASSUME IInv, NEW p \in Proc, NEW t \in Thread, ShutdownLease(p, t)
  PROVE  IInv'
<1>1. TypeOK'
  BY DepthAssumption, NoneAssumption
  DEF IInv, TypeOK, OwnsItsDescription, Steps, Running, procVars, kernelVars, registryVars, ShutdownLease
<1>2. OwnsItsDescription'
  BY NoneAssumption
  DEF IInv, TypeOK, OwnsItsDescription, QuietOutside, Running, procVars, kernelVars, registryVars,
      ShutdownLease
<1>3. KernelExclusion'
  BY NoneAssumption
  DEF IInv, TypeOK, OwnsItsDescription, KernelExclusion, Running, procVars, kernelVars, registryVars,
      ShutdownLease
<1>4. LeaseBacked'
  BY NoneAssumption
  DEF IInv, TypeOK, OwnsItsDescription, KernelExclusion, LeaseBacked, Running, procVars, kernelVars,
      registryVars, ShutdownLease
<1>5. RegistriesAgree'
  <2>1. \A q \in Proc, u \in Thread : ~(q = p /\ u = t) =>
          step'[q][u] = step[q][u] /\ (u \in readers[q] => u \in readers'[q])
    BY DEF ShutdownLease, IInv, TypeOK
  <2>2. step'[p][t] = "closing" /\ step[p][t] = "sh" /\ life'[p] = None
    BY DEF ShutdownLease, IInv, TypeOK
  <2>3. \A q \in Proc : q # p => life'[q] = life[q]
    BY DEF ShutdownLease, IInv, TypeOK
  <2>4. writer' = writer /\ hook' = hook /\ alive' = alive
    BY DEF ShutdownLease
  <2>5. \A q \in Proc, u \in Thread :
          /\ step'[q][u] \in {"shwait", "sh"} => u \in readers'[q]
          /\ step'[q][u] = "exwait" => writer'[q].thread = u /\ ~writer'[q].lease
          /\ step'[q][u] = "ex" => writer'[q].thread = u
          /\ q \notin hook' /\ writer'[q].lease /\ writer'[q].thread = u => step'[q][u] = "ex"
    BY <2>1, <2>2, <2>4 DEF IInv, RegistriesAgree
  <2>6. \A q \in Proc : Running(q)' /\ life'[q] # None => step'[q][life'[q]] = "sh"
    BY <2>1, <2>2, <2>3, <2>4 DEF IInv, RegistriesAgree, Running, TypeOK
  <2> QED  BY <2>5, <2>6 DEF RegistriesAgree
<1>6. QuietOutside'
  BY NoneAssumption
  DEF IInv, TypeOK, QuietOutside, Running, procVars, kernelVars, registryVars, ShutdownLease
<1> QED  BY <1>1, <1>2, <1>3, <1>4, <1>5, <1>6 DEF IInv

\* acquire_exclusive opening its description.
LEMMA OpenExclusivePreserves ==
  ASSUME IInv, NEW p \in Proc, NEW t \in Thread, OpenExclusive(p, t)
  PROVE  IInv'
<1>1. TypeOK'
  BY DepthAssumption, NoneAssumption
  DEF IInv, TypeOK, OwnsItsDescription, Steps, Running, procVars, kernelVars, registryVars, OpenExclusive,
      OpenLock
<1>2. OwnsItsDescription'
  BY NoneAssumption
  DEF IInv, TypeOK, OwnsItsDescription, QuietOutside, Running, procVars, kernelVars, registryVars,
      OpenExclusive, OpenLock
<1>3. KernelExclusion'
  BY NoneAssumption
  DEF IInv, TypeOK, OwnsItsDescription, KernelExclusion, Running, procVars, kernelVars, registryVars,
      OpenExclusive, OpenLock
<1>4. LeaseBacked'
  BY NoneAssumption
  DEF IInv, TypeOK, OwnsItsDescription, KernelExclusion, LeaseBacked, Running, procVars, kernelVars,
      registryVars, OpenExclusive, OpenLock
<1>5. RegistriesAgree'
  BY NoneAssumption
  DEF IInv, TypeOK, RegistriesAgree, QuietOutside, Running, procVars, kernelVars, registryVars,
      OpenExclusive, OpenLock
<1>6. QuietOutside'
  BY NoneAssumption
  DEF IInv, TypeOK, QuietOutside, Running, procVars, kernelVars, registryVars, OpenExclusive, OpenLock
<1> QED  BY <1>1, <1>2, <1>3, <1>4, <1>5, <1>6 DEF IInv

\* acquire_exclusive refused by a reader or another owner.
LEMMA RefuseExclusivePreserves ==
  ASSUME IInv, NEW p \in Proc, NEW t \in Thread, RefuseExclusive(p, t)
  PROVE  IInv'
<1>1. TypeOK'
  BY DepthAssumption, NoneAssumption
  DEF IInv, TypeOK, OwnsItsDescription, Steps, Running, procVars, kernelVars, registryVars, NoWriter, Owner,
      RefuseExclusive
<1>2. OwnsItsDescription'
  BY NoneAssumption
  DEF IInv, TypeOK, OwnsItsDescription, QuietOutside, Running, procVars, kernelVars, registryVars, NoWriter,
      Owner, RefuseExclusive
<1>3. KernelExclusion'
  BY NoneAssumption
  DEF IInv, TypeOK, OwnsItsDescription, KernelExclusion, Running, procVars, kernelVars, registryVars,
      NoWriter, Owner, RefuseExclusive
<1>4. LeaseBacked'
  BY NoneAssumption
  DEF IInv, TypeOK, OwnsItsDescription, KernelExclusion, LeaseBacked, Running, procVars, kernelVars,
      registryVars, NoWriter, Owner, RefuseExclusive
<1>5. RegistriesAgree'
  BY NoneAssumption
  DEF IInv, TypeOK, RegistriesAgree, QuietOutside, Running, procVars, kernelVars, registryVars, NoWriter,
      Owner, RefuseExclusive
<1>6. QuietOutside'
  BY NoneAssumption
  DEF IInv, TypeOK, QuietOutside, Running, procVars, kernelVars, registryVars, NoWriter, Owner,
      RefuseExclusive
<1> QED  BY <1>1, <1>2, <1>3, <1>4, <1>5, <1>6 DEF IInv

\* acquire_exclusive reserving _WRITERS.
LEMMA RegisterExclusivePreserves ==
  ASSUME IInv, NEW p \in Proc, NEW t \in Thread, RegisterExclusive(p, t)
  PROVE  IInv'
<1>1. TypeOK'
  BY DepthAssumption, NoneAssumption
  DEF IInv, TypeOK, OwnsItsDescription, Steps, Running, procVars, kernelVars, registryVars, NoWriter, Owner,
      RegisterExclusive
<1>2. OwnsItsDescription'
  BY NoneAssumption
  DEF IInv, TypeOK, OwnsItsDescription, QuietOutside, Running, procVars, kernelVars, registryVars, NoWriter,
      Owner, RegisterExclusive
<1>3. KernelExclusion'
  BY NoneAssumption
  DEF IInv, TypeOK, OwnsItsDescription, KernelExclusion, Running, procVars, kernelVars, registryVars,
      NoWriter, Owner, RegisterExclusive
<1>4. LeaseBacked'
  BY NoneAssumption
  DEF IInv, TypeOK, OwnsItsDescription, KernelExclusion, LeaseBacked, Running, procVars, kernelVars,
      registryVars, NoWriter, Owner, RegisterExclusive
<1>5. RegistriesAgree'
  BY NoneAssumption
  DEF IInv, TypeOK, RegistriesAgree, QuietOutside, Running, procVars, kernelVars, registryVars, NoWriter,
      Owner, RegisterExclusive
<1>6. QuietOutside'
  BY NoneAssumption
  DEF IInv, TypeOK, QuietOutside, Running, procVars, kernelVars, registryVars, NoWriter, Owner,
      RegisterExclusive
<1> QED  BY <1>1, <1>2, <1>3, <1>4, <1>5, <1>6 DEF IInv

\* The exclusive flock is granted and the lease published.
LEMMA AcquireExclusivePreserves ==
  ASSUME IInv, NEW p \in Proc, NEW t \in Thread, AcquireExclusive(p, t)
  PROVE  IInv'
<1>1. TypeOK'
  BY DepthAssumption, NoneAssumption
  DEF IInv, TypeOK, OwnsItsDescription, Steps, Running, procVars, kernelVars, registryVars, NoWriter, Owner,
      AcquireExclusive, ExclusiveConflict
<1>2. OwnsItsDescription'
  BY NoneAssumption
  DEF IInv, TypeOK, OwnsItsDescription, QuietOutside, Running, procVars, kernelVars, registryVars, NoWriter,
      Owner, AcquireExclusive, ExclusiveConflict
<1>3. KernelExclusion'
  BY NoneAssumption
  DEF IInv, TypeOK, OwnsItsDescription, KernelExclusion, Running, procVars, kernelVars, registryVars,
      NoWriter, Owner, AcquireExclusive, ExclusiveConflict
<1>4. LeaseBacked'
  BY NoneAssumption
  DEF IInv, TypeOK, OwnsItsDescription, KernelExclusion, LeaseBacked, Running, procVars, kernelVars,
      registryVars, NoWriter, Owner, AcquireExclusive, ExclusiveConflict
<1>5. RegistriesAgree'
  BY NoneAssumption
  DEF IInv, TypeOK, RegistriesAgree, QuietOutside, Running, procVars, kernelVars, registryVars, NoWriter,
      Owner, AcquireExclusive, ExclusiveConflict
<1>6. QuietOutside'
  BY NoneAssumption
  DEF IInv, TypeOK, QuietOutside, Running, procVars, kernelVars, registryVars, NoWriter, Owner,
      AcquireExclusive, ExclusiveConflict
<1> QED  BY <1>1, <1>2, <1>3, <1>4, <1>5, <1>6 DEF IInv

\* The exclusive flock times out.
LEMMA ExclusiveBusyPreserves ==
  ASSUME IInv, NEW p \in Proc, NEW t \in Thread, ExclusiveBusy(p, t)
  PROVE  IInv'
<1>1. TypeOK'
  BY DepthAssumption, NoneAssumption
  DEF IInv, TypeOK, OwnsItsDescription, Steps, Running, procVars, kernelVars, registryVars, NoWriter, Owner,
      ExclusiveBusy, Unregister
<1>2. OwnsItsDescription'
  BY NoneAssumption
  DEF IInv, TypeOK, OwnsItsDescription, QuietOutside, Running, procVars, kernelVars, registryVars, NoWriter,
      Owner, ExclusiveBusy, Unregister
<1>3. KernelExclusion'
  BY NoneAssumption
  DEF IInv, TypeOK, OwnsItsDescription, KernelExclusion, Running, procVars, kernelVars, registryVars,
      NoWriter, Owner, ExclusiveBusy, Unregister
<1>4. LeaseBacked'
  BY NoneAssumption
  DEF IInv, TypeOK, OwnsItsDescription, KernelExclusion, LeaseBacked, Running, procVars, kernelVars,
      registryVars, NoWriter, Owner, ExclusiveBusy, Unregister
<1>5. RegistriesAgree'
  BY NoneAssumption
  DEF IInv, TypeOK, RegistriesAgree, QuietOutside, Running, procVars, kernelVars, registryVars, NoWriter,
      Owner, ExclusiveBusy, Unregister
<1>6. QuietOutside'
  BY NoneAssumption
  DEF IInv, TypeOK, QuietOutside, Running, procVars, kernelVars, registryVars, NoWriter, Owner,
      ExclusiveBusy, Unregister
<1> QED  BY <1>1, <1>2, <1>3, <1>4, <1>5, <1>6 DEF IInv

\* The owner thread re-enters its exclusive scope.
LEMMA ReenterPreserves ==
  ASSUME IInv, NEW p \in Proc, NEW t \in Thread, Reenter(p, t)
  PROVE  IInv'
<1>1. TypeOK'
  BY DepthAssumption, NoneAssumption
  DEF IInv, TypeOK, OwnsItsDescription, Steps, Running, procVars, kernelVars, registryVars, NoWriter, Owner,
      Reenter
<1>2. OwnsItsDescription'
  BY NoneAssumption
  DEF IInv, TypeOK, OwnsItsDescription, QuietOutside, Running, procVars, kernelVars, registryVars, NoWriter,
      Owner, Reenter
<1>3. KernelExclusion'
  BY NoneAssumption
  DEF IInv, TypeOK, OwnsItsDescription, KernelExclusion, Running, procVars, kernelVars, registryVars,
      NoWriter, Owner, Reenter
<1>4. LeaseBacked'
  BY NoneAssumption
  DEF IInv, TypeOK, OwnsItsDescription, KernelExclusion, LeaseBacked, Running, procVars, kernelVars,
      registryVars, NoWriter, Owner, Reenter
<1>5. RegistriesAgree'
  BY NoneAssumption
  DEF IInv, TypeOK, RegistriesAgree, QuietOutside, Running, procVars, kernelVars, registryVars, NoWriter,
      Owner, Reenter
<1>6. QuietOutside'
  BY NoneAssumption
  DEF IInv, TypeOK, QuietOutside, Running, procVars, kernelVars, registryVars, NoWriter, Owner, Reenter
<1> QED  BY <1>1, <1>2, <1>3, <1>4, <1>5, <1>6 DEF IInv

\* The owner thread leaves an inner exclusive scope.
LEMMA LeaveInnerPreserves ==
  ASSUME IInv, NEW p \in Proc, NEW t \in Thread, LeaveInner(p, t)
  PROVE  IInv'
<1>1. TypeOK'
  BY DepthAssumption, NoneAssumption
  DEF IInv, TypeOK, OwnsItsDescription, Steps, Running, procVars, kernelVars, registryVars, NoWriter, Owner,
      LeaveInner
<1>2. OwnsItsDescription'
  BY NoneAssumption
  DEF IInv, TypeOK, OwnsItsDescription, QuietOutside, Running, procVars, kernelVars, registryVars, NoWriter,
      Owner, LeaveInner
<1>3. KernelExclusion'
  BY NoneAssumption
  DEF IInv, TypeOK, OwnsItsDescription, KernelExclusion, Running, procVars, kernelVars, registryVars,
      NoWriter, Owner, LeaveInner
<1>4. LeaseBacked'
  BY NoneAssumption
  DEF IInv, TypeOK, OwnsItsDescription, KernelExclusion, LeaseBacked, Running, procVars, kernelVars,
      registryVars, NoWriter, Owner, LeaveInner
<1>5. RegistriesAgree'
  BY NoneAssumption
  DEF IInv, TypeOK, RegistriesAgree, QuietOutside, Running, procVars, kernelVars, registryVars, NoWriter,
      Owner, LeaveInner
<1>6. QuietOutside'
  BY NoneAssumption
  DEF IInv, TypeOK, QuietOutside, Running, procVars, kernelVars, registryVars, NoWriter, Owner, LeaveInner
<1> QED  BY <1>1, <1>2, <1>3, <1>4, <1>5, <1>6 DEF IInv

\* ExclusiveLease._release of the outermost scope.
LEMMA ReleaseExclusivePreserves ==
  ASSUME IInv, NEW p \in Proc, NEW t \in Thread, ReleaseExclusive(p, t)
  PROVE  IInv'
<1>1. TypeOK'
  BY DepthAssumption, NoneAssumption
  DEF IInv, TypeOK, OwnsItsDescription, Steps, Running, procVars, kernelVars, registryVars, NoWriter, Owner,
      ReleaseExclusive, Unregister
<1>2. OwnsItsDescription'
  BY NoneAssumption
  DEF IInv, TypeOK, OwnsItsDescription, QuietOutside, Running, procVars, kernelVars, registryVars, NoWriter,
      Owner, ReleaseExclusive, Unregister
<1>3. KernelExclusion'
  BY NoneAssumption
  DEF IInv, TypeOK, OwnsItsDescription, KernelExclusion, Running, procVars, kernelVars, registryVars,
      NoWriter, Owner, ReleaseExclusive, Unregister
<1>4. LeaseBacked'
  BY NoneAssumption
  DEF IInv, TypeOK, OwnsItsDescription, KernelExclusion, LeaseBacked, Running, procVars, kernelVars,
      registryVars, NoWriter, Owner, ReleaseExclusive, Unregister
<1>5. RegistriesAgree'
  BY NoneAssumption
  DEF IInv, TypeOK, RegistriesAgree, QuietOutside, Running, procVars, kernelVars, registryVars, NoWriter,
      Owner, ReleaseExclusive, Unregister
<1>6. QuietOutside'
  BY NoneAssumption
  DEF IInv, TypeOK, QuietOutside, Running, procVars, kernelVars, registryVars, NoWriter, Owner,
      ReleaseExclusive, Unregister
<1> QED  BY <1>1, <1>2, <1>3, <1>4, <1>5, <1>6 DEF IInv

\* The descriptor is closed after the registries were left.
LEMMA NativeClosePreserves ==
  ASSUME IInv, NEW p \in Proc, NEW t \in Thread, NativeClose(p, t)
  PROVE  IInv'
<1>1. TypeOK'
  BY DepthAssumption, NoneAssumption
  DEF IInv, TypeOK, OwnsItsDescription, Steps, Running, procVars, kernelVars, registryVars, NativeClose,
      CloseDescriptors, RefsAfterClose, FlockAfterClose
<1>2. OwnsItsDescription'
  BY NoneAssumption
  DEF IInv, TypeOK, OwnsItsDescription, QuietOutside, Running, procVars, kernelVars, registryVars,
      NativeClose, CloseDescriptors, RefsAfterClose, FlockAfterClose
<1>3. KernelExclusion'
  BY NoneAssumption
  DEF IInv, TypeOK, OwnsItsDescription, KernelExclusion, Running, procVars, kernelVars, registryVars,
      NativeClose, CloseDescriptors, RefsAfterClose, FlockAfterClose
<1>4. LeaseBacked'
  <2>1. \A h \in Handle : flock'[h] = IF refs'[h] = {} THEN "none" ELSE flock[h]
    BY DEF NativeClose, CloseDescriptors, FlockAfterClose, RefsAfterClose
  <2>2. \A q \in Proc, u \in Thread : step'[q][u] # "idle" =>
          step'[q][u] = step[q][u] /\ own'[q][u] = own[q][u]
    BY DEF NativeClose, IInv, TypeOK
  <2>3. \A q \in Proc, u \in Thread : step'[q][u] # "idle" =>
          own'[q][u] \in Handle /\ refs'[own'[q][u]] # {}
    BY <1>1, <1>2 DEF OwnsItsDescription, TypeOK
  <2> QED  BY <2>1, <2>2, <2>3 DEF IInv, LeaseBacked
<1>5. RegistriesAgree'
  BY NoneAssumption
  DEF IInv, TypeOK, RegistriesAgree, QuietOutside, Running, procVars, kernelVars, registryVars, NativeClose,
      CloseDescriptors, RefsAfterClose, FlockAfterClose
<1>6. QuietOutside'
  BY NoneAssumption
  DEF IInv, TypeOK, QuietOutside, Running, procVars, kernelVars, registryVars, NativeClose, CloseDescriptors,
      RefsAfterClose, FlockAfterClose
<1> QED  BY <1>1, <1>2, <1>3, <1>4, <1>5, <1>6 DEF IInv

\* A forked child taking its own lifetime lease.
LEMMA RejoinPreserves ==
  ASSUME IInv, NEW p \in Proc, NEW t \in Thread, Rejoin(p, t)
  PROVE  IInv'
<1>1. TypeOK'
  BY DepthAssumption, NoneAssumption
  DEF IInv, TypeOK, OwnsItsDescription, Steps, Running, procVars, kernelVars, registryVars, NoWriter, Owner,
      Rejoin, CoreDiscarded, SharedConflict
<1>2. OwnsItsDescription'
  BY NoneAssumption
  DEF IInv, TypeOK, OwnsItsDescription, QuietOutside, Running, procVars, kernelVars, registryVars, NoWriter,
      Owner, Rejoin, CoreDiscarded, SharedConflict
<1>3. KernelExclusion'
  <2>1. PICK h \in Handle :
          /\ refs[h] = {} /\ ~SharedConflict(h)
          /\ refs' = [refs EXCEPT ![h] = {p}]
          /\ flock' = [flock EXCEPT ![h] = "sh"]
    BY DEF Rejoin
  <2>2. \A g \in Handle \ {h} : flock[g] # "ex" /\ flock'[g] = flock[g] /\ refs'[g] = refs[g]
    BY <2>1 DEF SharedConflict, IInv, TypeOK
  <2>3. flock'[h] = "sh" /\ refs'[h] # {}
    BY <2>1 DEF IInv, TypeOK
  <2> QED  BY <2>2, <2>3 DEF IInv, KernelExclusion
<1>4. LeaseBacked'
  BY NoneAssumption
  DEF IInv, TypeOK, OwnsItsDescription, KernelExclusion, LeaseBacked, Running, procVars, kernelVars,
      registryVars, NoWriter, Owner, Rejoin, CoreDiscarded, SharedConflict
<1>5. RegistriesAgree'
  BY NoneAssumption
  DEF IInv, TypeOK, RegistriesAgree, QuietOutside, Running, procVars, kernelVars, registryVars, NoWriter,
      Owner, Rejoin, CoreDiscarded, SharedConflict
<1>6. QuietOutside'
  BY NoneAssumption
  DEF IInv, TypeOK, QuietOutside, Running, procVars, kernelVars, registryVars, NoWriter, Owner, Rejoin,
      CoreDiscarded, SharedConflict
<1> QED  BY <1>1, <1>2, <1>3, <1>4, <1>5, <1>6 DEF IInv

\* A new process.
LEMMA StartPreserves ==
  ASSUME IInv, NEW p \in Proc, Start(p)
  PROVE  IInv'
<1>1. TypeOK'
  BY DepthAssumption, NoneAssumption
  DEF IInv, TypeOK, OwnsItsDescription, Steps, Running, procVars, kernelVars, registryVars, Start
<1>2. OwnsItsDescription'
  BY NoneAssumption
  DEF IInv, TypeOK, OwnsItsDescription, QuietOutside, Running, procVars, kernelVars, registryVars, Start
<1>3. KernelExclusion'
  BY NoneAssumption
  DEF IInv, TypeOK, OwnsItsDescription, KernelExclusion, Running, procVars, kernelVars, registryVars, Start
<1>4. LeaseBacked'
  BY NoneAssumption
  DEF IInv, TypeOK, OwnsItsDescription, KernelExclusion, LeaseBacked, Running, procVars, kernelVars,
      registryVars, Start
<1>5. RegistriesAgree'
  BY NoneAssumption
  DEF IInv, TypeOK, RegistriesAgree, QuietOutside, Running, procVars, kernelVars, registryVars, Start
<1>6. QuietOutside'
  BY NoneAssumption DEF IInv, TypeOK, QuietOutside, Running, procVars, kernelVars, registryVars, Start
<1> QED  BY <1>1, <1>2, <1>3, <1>4, <1>5, <1>6 DEF IInv

\* A forked child closing the inherited handles.
LEMMA CoreAfterForkPreserves ==
  ASSUME IInv, NEW p \in Proc, CoreAfterFork(p)
  PROVE  IInv'
<1>1. TypeOK'
  BY DepthAssumption, NoneAssumption
  DEF IInv, TypeOK, OwnsItsDescription, Steps, Running, procVars, kernelVars, registryVars, NoWriter, Owner,
      CoreAfterFork, CloseDescriptors, RefsAfterClose, FlockAfterClose
<1>2. OwnsItsDescription'
  BY NoneAssumption
  DEF IInv, TypeOK, OwnsItsDescription, QuietOutside, Running, procVars, kernelVars, registryVars, NoWriter,
      Owner, CoreAfterFork, CloseDescriptors, RefsAfterClose, FlockAfterClose
<1>3. KernelExclusion'
  BY NoneAssumption
  DEF IInv, TypeOK, OwnsItsDescription, KernelExclusion, Running, procVars, kernelVars, registryVars,
      NoWriter, Owner, CoreAfterFork, CloseDescriptors, RefsAfterClose, FlockAfterClose
<1>4. LeaseBacked'
  <2>1. \A h \in Handle : flock'[h] = IF refs'[h] = {} THEN "none" ELSE flock[h]
    BY DEF CoreAfterFork, CloseDescriptors, FlockAfterClose, RefsAfterClose
  <2>2. \A q \in Proc, u \in Thread : step'[q][u] # "idle" =>
          step'[q][u] = step[q][u] /\ own'[q][u] = own[q][u]
    BY DEF CoreAfterFork, IInv, TypeOK
  <2>3. \A q \in Proc, u \in Thread : step'[q][u] # "idle" =>
          own'[q][u] \in Handle /\ refs'[own'[q][u]] # {}
    BY <1>1, <1>2 DEF OwnsItsDescription, TypeOK
  <2> QED  BY <2>1, <2>2, <2>3 DEF IInv, LeaseBacked
<1>5. RegistriesAgree'
  BY NoneAssumption
  DEF IInv, TypeOK, RegistriesAgree, QuietOutside, Running, procVars, kernelVars, registryVars, NoWriter,
      Owner, CoreAfterFork, CloseDescriptors, RefsAfterClose, FlockAfterClose
<1>6. QuietOutside'
  BY NoneAssumption
  DEF IInv, TypeOK, QuietOutside, Running, procVars, kernelVars, registryVars, NoWriter, Owner,
      CoreAfterFork, CloseDescriptors, RefsAfterClose, FlockAfterClose
<1> QED  BY <1>1, <1>2, <1>3, <1>4, <1>5, <1>6 DEF IInv

\* A forked child of a process without a lifetime lease.
LEMMA NoLeaseToRejoinPreserves ==
  ASSUME IInv, NEW p \in Proc, NoLeaseToRejoin(p)
  PROVE  IInv'
<1>1. TypeOK'
  BY DepthAssumption, NoneAssumption
  DEF IInv, TypeOK, OwnsItsDescription, Steps, Running, procVars, kernelVars, registryVars, NoWriter, Owner,
      NoLeaseToRejoin, CoreDiscarded
<1>2. OwnsItsDescription'
  BY NoneAssumption
  DEF IInv, TypeOK, OwnsItsDescription, QuietOutside, Running, procVars, kernelVars, registryVars, NoWriter,
      Owner, NoLeaseToRejoin, CoreDiscarded
<1>3. KernelExclusion'
  BY NoneAssumption
  DEF IInv, TypeOK, OwnsItsDescription, KernelExclusion, Running, procVars, kernelVars, registryVars,
      NoWriter, Owner, NoLeaseToRejoin, CoreDiscarded
<1>4. LeaseBacked'
  BY NoneAssumption
  DEF IInv, TypeOK, OwnsItsDescription, KernelExclusion, LeaseBacked, Running, procVars, kernelVars,
      registryVars, NoWriter, Owner, NoLeaseToRejoin, CoreDiscarded
<1>5. RegistriesAgree'
  BY NoneAssumption
  DEF IInv, TypeOK, RegistriesAgree, QuietOutside, Running, procVars, kernelVars, registryVars, NoWriter,
      Owner, NoLeaseToRejoin, CoreDiscarded
<1>6. QuietOutside'
  BY NoneAssumption
  DEF IInv, TypeOK, QuietOutside, Running, procVars, kernelVars, registryVars, NoWriter, Owner,
      NoLeaseToRejoin, CoreDiscarded
<1> QED  BY <1>1, <1>2, <1>3, <1>4, <1>5, <1>6 DEF IInv

\* A process exits or crashes.
LEMMA ExitPreserves ==
  ASSUME IInv, NEW p \in Proc, Exit(p)
  PROVE  IInv'
<1>1. TypeOK'
  BY DepthAssumption, NoneAssumption
  DEF IInv, TypeOK, OwnsItsDescription, Steps, Running, procVars, kernelVars, registryVars, NoWriter, Owner,
      Exit, CloseDescriptors, RefsAfterClose, FlockAfterClose
<1>2. OwnsItsDescription'
  BY NoneAssumption
  DEF IInv, TypeOK, OwnsItsDescription, QuietOutside, Running, procVars, kernelVars, registryVars, NoWriter,
      Owner, Exit, CloseDescriptors, RefsAfterClose, FlockAfterClose
<1>3. KernelExclusion'
  BY NoneAssumption
  DEF IInv, TypeOK, OwnsItsDescription, KernelExclusion, Running, procVars, kernelVars, registryVars,
      NoWriter, Owner, Exit, CloseDescriptors, RefsAfterClose, FlockAfterClose
<1>4. LeaseBacked'
  <2>1. \A h \in Handle : flock'[h] = IF refs'[h] = {} THEN "none" ELSE flock[h]
    BY DEF Exit, CloseDescriptors, FlockAfterClose, RefsAfterClose
  <2>2. \A q \in Proc, u \in Thread : step'[q][u] # "idle" =>
          step'[q][u] = step[q][u] /\ own'[q][u] = own[q][u]
    BY DEF Exit, IInv, TypeOK
  <2>3. \A q \in Proc, u \in Thread : step'[q][u] # "idle" =>
          own'[q][u] \in Handle /\ refs'[own'[q][u]] # {}
    BY <1>1, <1>2 DEF OwnsItsDescription, TypeOK
  <2> QED  BY <2>1, <2>2, <2>3 DEF IInv, LeaseBacked
<1>5. RegistriesAgree'
  BY NoneAssumption
  DEF IInv, TypeOK, RegistriesAgree, QuietOutside, Running, procVars, kernelVars, registryVars, NoWriter,
      Owner, Exit, CloseDescriptors, RefsAfterClose, FlockAfterClose
<1>6. QuietOutside'
  BY NoneAssumption
  DEF IInv, TypeOK, QuietOutside, Running, procVars, kernelVars, registryVars, NoWriter, Owner, Exit,
      CloseDescriptors, RefsAfterClose, FlockAfterClose
<1> QED  BY <1>1, <1>2, <1>3, <1>4, <1>5, <1>6 DEF IInv

\* A process forks.
LEMMA ForkPreserves ==
  ASSUME IInv, NEW p \in Proc, NEW q \in Proc, Fork(p, q)
  PROVE  IInv'
<1>1. TypeOK'
  BY DepthAssumption, NoneAssumption
  DEF IInv, TypeOK, OwnsItsDescription, Steps, Running, procVars, kernelVars, registryVars, Fork
<1>2. OwnsItsDescription'
  BY NoneAssumption
  DEF IInv, TypeOK, OwnsItsDescription, QuietOutside, Running, procVars, kernelVars, registryVars, Fork
<1>3. KernelExclusion'
  BY NoneAssumption
  DEF IInv, TypeOK, OwnsItsDescription, KernelExclusion, Running, procVars, kernelVars, registryVars, Fork
<1>4. LeaseBacked'
  BY NoneAssumption
  DEF IInv, TypeOK, OwnsItsDescription, KernelExclusion, LeaseBacked, Running, procVars, kernelVars,
      registryVars, Fork
<1>5. RegistriesAgree'
  BY NoneAssumption
  DEF IInv, TypeOK, RegistriesAgree, QuietOutside, Running, procVars, kernelVars, registryVars, Fork
<1>6. QuietOutside'
  BY NoneAssumption DEF IInv, TypeOK, QuietOutside, Running, procVars, kernelVars, registryVars, Fork
<1> QED  BY <1>1, <1>2, <1>3, <1>4, <1>5, <1>6 DEF IInv

\* The initial state: one process, no scope, no lock.
LEMMA InitIInv == Init => IInv
BY NoneAssumption, DepthAssumption
DEF Init, IInv, TypeOK, OwnsItsDescription, KernelExclusion, LeaseBacked, RegistriesAgree, QuietOutside,
    Steps, Running, NoWriter, Owner

\* Every step of every thread and process keeps the inductive invariant.
LEMMA NextPreserves == IInv /\ [Next]_vars => IInv'
<1> SUFFICES ASSUME IInv, [Next]_vars PROVE IInv'
  OBVIOUS
<1>1. ASSUME NEW p \in Proc, NEW t \in Thread, RuntimeStep(p, t) PROVE IInv'
  BY <1>1, OpenRuntimePreserves, RefuseRuntimePreserves, RegisterRuntimePreserves, AcquireRuntimePreserves,
     RuntimeBusyPreserves, ReleaseRuntimePreserves, KeepForLifePreserves, ShutdownLeasePreserves
  DEF RuntimeStep
<1>2. ASSUME NEW p \in Proc, NEW t \in Thread, ExclusiveStep(p, t) PROVE IInv'
  BY <1>2, OpenExclusivePreserves, RefuseExclusivePreserves, RegisterExclusivePreserves,
     AcquireExclusivePreserves, ExclusiveBusyPreserves, ReenterPreserves, LeaveInnerPreserves,
     ReleaseExclusivePreserves DEF ExclusiveStep
<1>3. ASSUME NEW p \in Proc, NEW t \in Thread, NativeClose(p, t) \/ Rejoin(p, t) PROVE IInv'
  BY <1>3, NativeClosePreserves, RejoinPreserves
<1>4. ASSUME NEW p \in Proc, Start(p) \/ CoreAfterFork(p) \/ NoLeaseToRejoin(p) \/ Exit(p)
      PROVE  IInv'
  BY <1>4, StartPreserves, CoreAfterForkPreserves, NoLeaseToRejoinPreserves, ExitPreserves
<1>5. ASSUME NEW p \in Proc, NEW q \in Proc, Fork(p, q) PROVE IInv'
  BY <1>5, ForkPreserves
<1>6. CASE UNCHANGED vars
  BY <1>6
  DEF vars, IInv, TypeOK, OwnsItsDescription, KernelExclusion, LeaseBacked, RegistriesAgree, QuietOutside,
      Steps, Running
<1> QED  BY <1>1, <1>2, <1>3, <1>4, <1>5, <1>6 DEF Next

\* The inductive invariant holds in every state the leases reach.
THEOREM LeaseInvariant == Spec => []IInv
BY InitIInv, NextPreserves, PTL DEF Spec

\* The variables of the lease registries and the kernel keep their types.
THEOREM LeaseTypes == Spec => []TypeOK
<1>1. IInv => TypeOK  BY DEF IInv
<1> QED  BY <1>1, LeaseInvariant, PTL

\* A thread that passes ExclusiveLease.assert_held is alone: no other scope of
\* any process, forked or not, passes assert_held or RuntimeLease.check.
THEOREM LeaseExclusion == Spec => []Exclusion
<1>1. IInv => Exclusion
  <2> SUFFICES ASSUME IInv, NEW p \in Proc, NEW q \in Proc, NEW t \in Thread, NEW u \in Thread,
                      HoldsExclusive(p, t), HoldsExclusive(q, u) \/ HoldsShared(q, u)
               PROVE  p = q /\ t = u /\ ~HoldsShared(q, u)
    BY DEF Exclusion
  <2>1. step[p][t] = "ex" /\ flock[own[p][t]] = "ex"
    BY DEF IInv, HoldsExclusive, Running, RegistriesAgree, LeaseBacked
  <2>2. step[q][u] \in {"sh", "ex"} /\ flock[own[q][u]] # "none"
    BY DEF IInv, HoldsExclusive, HoldsShared, Running, RegistriesAgree, LeaseBacked
  <2>3. own[p][t] \in Handle /\ own[q][u] \in Handle
    BY <2>1, <2>2 DEF IInv, TypeOK, OwnsItsDescription
  <2>4. own[p][t] = own[q][u]
    BY <2>1, <2>2, <2>3 DEF IInv, KernelExclusion
  <2>5. p = q /\ t = u
    BY <2>3, <2>4, NoneAssumption DEF IInv, OwnsItsDescription
  <2> QED  BY <2>1, <2>5 DEF HoldsShared
<1> QED  BY <1>1, LeaseInvariant, PTL

\* A process that keeps a lifetime lease, a forked child included, holds the
\* kernel's shared lock through its own descriptor whenever its code runs.
THEOREM LeaseLifetime == Spec => []LifetimeCovered
<1>1. IInv => LifetimeCovered
  <2> SUFFICES ASSUME IInv, NEW p \in Proc, Running(p), life[p] # None
               PROVE  /\ HoldsShared(p, life[p])
                      /\ flock[own[p][life[p]]] = "sh" /\ p \in refs[own[p][life[p]]]
    BY DEF LifetimeCovered
  <2>1. life[p] \in Thread
    BY DEF IInv, TypeOK
  <2>2. step[p][life[p]] = "sh" /\ life[p] \in readers[p]
    BY <2>1 DEF IInv, RegistriesAgree
  <2> QED  BY <2>1, <2>2 DEF IInv, HoldsShared, LeaseBacked, OwnsItsDescription
<1> QED  BY <1>1, LeaseInvariant, PTL

-----------------------------------------------------------------------------
(* The start of the application.                                            *)

USE DEF files, lease, locals, ghosts, At, Go, InFlight

\* The parts of the types that a step of a process changes.
LocalTypes ==
  /\ pc \in [Process -> Starting \cup InFlight \cup {"off", "inside", "converted", "decide", "plain", "keyed"}]
  /\ job \in [Process -> {"start", "encrypt", "decrypt"}]
  /\ resuming \in [Process -> BOOLEAN] /\ note \in [Process -> {"none", "busy", "other"}]
  /\ wrote \in [Process -> BOOLEAN]
TurnTypes ==
  /\ shared = {p \in Process : pc[p] \in {"decide", "plain", "keyed"}}
  /\ exclusive \in Process \cup {Nobody}
  /\ \A p \in Process : exclusive = p <=> pc[p] \in InFlight \cup {"inside", "converted"}
  /\ exclusive # Nobody => shared = {}

LEMMA ReadFactsKeeps ==
  ASSUME SInv, ReadFacts
  PROVE  SInv'
<1>1. StartupTypes'
  BY DEF SInv, StartupTypes, ReadFacts
<1>2. RunsMatchHome'
  BY DEF SInv, RunsMatchHome, ReadFacts
<1>3. JournalOpen'
  BY DEF SInv, JournalOpen, ReadFacts
<1>4. GuardHolds'
  BY DEF SInv, GuardHolds, ReadFacts
<1>5. HungWaits'
  BY DEF SInv, HungWaits, ReadFacts
<1> QED  BY <1>1, <1>2, <1>3, <1>4, <1>5 DEF SInv

LEMMA SchedulePressedKeeps ==
  ASSUME SInv, SchedulePressed
  PROVE  SInv'
<1>1. StartupTypes'
  BY DEF SInv, StartupTypes, SchedulePressed
<1>2. RunsMatchHome'
  BY DEF SInv, RunsMatchHome, SchedulePressed
<1>3. JournalOpen'
  BY DEF SInv, JournalOpen, SchedulePressed
<1>4. GuardHolds'
  BY DEF SInv, GuardHolds, SchedulePressed
<1>5. HungWaits'
  BY DEF SInv, HungWaits, SchedulePressed
<1> QED  BY <1>1, <1>2, <1>3, <1>4, <1>5 DEF SInv

LEMMA CancelKeeps ==
  ASSUME SInv, Cancel
  PROVE  SInv'
<1>1. StartupTypes'
  BY DEF SInv, StartupTypes, Records, Cancel
<1>2. RunsMatchHome'
  BY DEF SInv, RunsMatchHome, Cancel
<1>3. JournalOpen'
  BY DEF SInv, JournalOpen, Cancel
<1>4. GuardHolds'
  BY DEF GuardHolds, Cancel
<1>5. HungWaits'
  BY DEF HungWaits, Cancel
<1> QED  BY <1>1, <1>2, <1>3, <1>4, <1>5 DEF SInv

LEMMA LaunchKeeps ==
  ASSUME SInv, NEW p \in Process, Launch(p)
  PROVE  SInv'
<1>1. StartupTypes'
  BY DEF SInv, StartupTypes, Starting, Launch
<1>2. RunsMatchHome'
  BY DEF SInv, RunsMatchHome, Launch
<1>3. JournalOpen'
  BY DEF SInv, JournalOpen, Launch
<1>4. GuardHolds'
  BY DEF SInv, GuardHolds, Launch
<1>5. HungWaits'
  BY DEF SInv, HungWaits, Launch
<1> QED  BY <1>1, <1>2, <1>3, <1>4, <1>5 DEF SInv

LEMMA ReadIntentKeeps ==
  ASSUME SInv, NEW p \in Process, ReadIntent(p)
  PROVE  SInv'
<1>1. StartupTypes'
  BY DEF SInv, StartupTypes, Starting, ReadIntent
<1>2. RunsMatchHome'
  BY DEF SInv, RunsMatchHome, ReadIntent
<1>3. JournalOpen'
  BY DEF SInv, JournalOpen, ReadIntent
<1>4. GuardHolds'
  BY DEF SInv, GuardHolds, ReadIntent
<1>5. HungWaits'
  BY DEF SInv, HungWaits, ReadIntent
<1> QED  BY <1>1, <1>2, <1>3, <1>4, <1>5 DEF SInv

LEMMA ClearStaleKeeps ==
  ASSUME SInv, NEW p \in Process, ClearStale(p)
  PROVE  SInv'
<1>1. StartupTypes'
  <2>1. CASE record' = record
    BY <2>1 DEF SInv, StartupTypes, Starting, ClearStale
  <2>2. CASE record' # record
    BY <2>2, ProcessAssumption DEF SInv, StartupTypes, Starting, Records, Sticky, ClearStale, Write
  <2> QED  BY <2>1, <2>2 DEF ClearStale
<1>2. RunsMatchHome'
  BY DEF SInv, RunsMatchHome, ClearStale
<1>3. JournalOpen'
  BY DEF SInv, JournalOpen, ClearStale
<1>4. GuardHolds'
  <2> SUFFICES ASSUME NEW q \in Process, guarded'[q]
               PROVE  /\ At(q, "converting")' /\ journal' = "none" /\ pending'
                      /\ swept' \/ record' = "attempting"
    BY DEF GuardHolds
  <2>1. guarded[q] /\ At(q, "converting") /\ journal = "none" /\ pending /\ (swept \/ record = "attempting")
    BY DEF SInv, GuardHolds, ClearStale
  <2>2. swept' \/ record' = "attempting"
    BY <2>1 DEF ClearStale
  <2> QED  BY <2>1, <2>2 DEF ClearStale
<1>5. HungWaits'
  BY DEF SInv, StartupTypes, HungWaits, ClearStale, Write
<1> QED  BY <1>1, <1>2, <1>3, <1>4, <1>5 DEF SInv

LEMMA CheckWorkKeeps ==
  ASSUME SInv, NEW p \in Process, CheckWork(p)
  PROVE  SInv'
<1>1. StartupTypes'
  BY DEF SInv, StartupTypes, Starting, CheckWork
<1>2. RunsMatchHome'
  BY DEF SInv, RunsMatchHome, CheckWork
<1>3. JournalOpen'
  BY DEF SInv, JournalOpen, CheckWork
<1>4. GuardHolds'
  BY DEF SInv, GuardHolds, CheckWork
<1>5. HungWaits'
  BY DEF SInv, HungWaits, CheckWork
<1> QED  BY <1>1, <1>2, <1>3, <1>4, <1>5 DEF SInv

LEMMA JudgeKeeps ==
  ASSUME SInv, NEW p \in Process, Judge(p)
  PROVE  SInv'
<1>1. StartupTypes'
  <2>1. CASE Go(p, "attempt")
    BY <2>1 DEF SInv, StartupTypes, Starting, Judge
  <2>2. CASE Postpone(p, "none") \/ Postpone(p, "other")
    <3>1. LocalTypes'
      BY <2>2 DEF SInv, StartupTypes, LocalTypes, Starting, Postpone
    <3>2. TurnTypes'
      BY DEF SInv, StartupTypes, TurnTypes, Judge, Postpone
    <3> QED
      BY <2>2, <3>1, <3>2 DEF SInv, StartupTypes, LocalTypes, TurnTypes, Records, Sticky, Judge, Postpone
  <2> QED  BY <2>1, <2>2 DEF Judge
<1>2. RunsMatchHome'
  BY DEF SInv, StartupTypes, RunsMatchHome, Judge, Postpone
<1>3. JournalOpen'
  BY DEF SInv, StartupTypes, JournalOpen, Judge, Postpone
<1>4. GuardHolds'
  BY DEF SInv, StartupTypes, GuardHolds, Judge, Postpone
<1>5. HungWaits'
  BY DEF SInv, StartupTypes, HungWaits, Judge, Postpone
<1> QED  BY <1>1, <1>2, <1>3, <1>4, <1>5 DEF SInv

LEMMA TakeExclusiveKeeps ==
  ASSUME SInv, NEW p \in Process, TakeExclusive(p)
  PROVE  SInv'
<1>1. StartupTypes'
  BY ProcessAssumption DEF SInv, StartupTypes, TakeExclusive
<1>2. RunsMatchHome'
  BY DEF SInv, RunsMatchHome, TakeExclusive
<1>3. JournalOpen'
  BY DEF SInv, JournalOpen, TakeExclusive
<1>4. GuardHolds'
  BY DEF SInv, GuardHolds, TakeExclusive
<1>5. HungWaits'
  BY DEF SInv, HungWaits, TakeExclusive
<1> QED  BY <1>1, <1>2, <1>3, <1>4, <1>5 DEF SInv

LEMMA PollBusyKeeps ==
  ASSUME SInv, NEW p \in Process, PollBusy(p)
  PROVE  SInv'
<1>1. StartupTypes'
  <2>1. CASE Go(p, "strict")
    BY <2>1 DEF SInv, StartupTypes, Starting, PollBusy
  <2>2. CASE Postpone(p, "busy")
    BY <2>2 DEF SInv, StartupTypes, Starting, PollBusy, Postpone
  <2> QED  BY <2>1, <2>2 DEF PollBusy
<1>2. RunsMatchHome'
  BY DEF SInv, StartupTypes, RunsMatchHome, PollBusy, Postpone
<1>3. JournalOpen'
  BY DEF SInv, StartupTypes, JournalOpen, PollBusy, Postpone
<1>4. GuardHolds'
  BY DEF SInv, StartupTypes, GuardHolds, PollBusy, Postpone
<1>5. HungWaits'
  BY DEF SInv, StartupTypes, HungWaits, PollBusy, Postpone
<1> QED  BY <1>1, <1>2, <1>3, <1>4, <1>5 DEF SInv

LEMMA AttemptNothingKeeps ==
  ASSUME SInv, NEW p \in Process, AttemptNothing(p)
  PROVE  SInv'
<1>1. StartupTypes'
  BY ProcessAssumption DEF SInv, StartupTypes, Starting, Records, AttemptNothing, Release, Write
<1>2. RunsMatchHome'
  BY DEF SInv, RunsMatchHome, AttemptNothing
<1>3. JournalOpen'
  BY DEF SInv, JournalOpen, AttemptNothing
<1>4. GuardHolds'
  BY DEF SInv, GuardHolds, AttemptNothing
<1>5. HungWaits'
  BY DEF SInv, HungWaits, AttemptNothing
<1> QED  BY <1>1, <1>2, <1>3, <1>4, <1>5 DEF SInv

LEMMA AttemptInterruptedKeeps ==
  ASSUME SInv, NEW p \in Process, AttemptInterrupted(p)
  PROVE  SInv'
<1>1. StartupTypes'
  BY ProcessAssumption
  DEF SInv, StartupTypes, Starting, Records, Sticky, AttemptInterrupted, Release, Write, Postpone
<1>2. RunsMatchHome'
  BY DEF SInv, RunsMatchHome, AttemptInterrupted, Postpone
<1>3. JournalOpen'
  BY DEF SInv, JournalOpen, AttemptInterrupted, Postpone
<1>4. GuardHolds'
  BY DEF SInv, StartupTypes, GuardHolds, AttemptInterrupted
<1>5. HungWaits'
  BY DEF SInv, HungWaits, Sticky, AttemptInterrupted, Write, Postpone, Sticky
<1> QED  BY <1>1, <1>2, <1>3, <1>4, <1>5 DEF SInv

LEMMA AttemptConversionKeeps ==
  ASSUME SInv, NEW p \in Process, AttemptConversion(p)
  PROVE  SInv'
<1>1. StartupTypes'
  <2>1. CASE Go(p, "converting")
    BY <2>1, ProcessAssumption
    DEF SInv, StartupTypes, Records, Sticky, AttemptConversion, Release, Postpone, ScheduledWork
  <2>2. CASE Release(p) /\ Postpone(p, "none")
    BY <2>2, ProcessAssumption DEF SInv, StartupTypes, Starting, AttemptConversion, Release, Postpone
  <2> QED  BY <2>1, <2>2 DEF AttemptConversion
<1>2. RunsMatchHome'
  BY DEF SInv, StartupTypes, RunsMatchHome, AttemptConversion, Postpone
<1>3. JournalOpen'
  BY DEF SInv, StartupTypes, JournalOpen, AttemptConversion, Postpone
<1>4. GuardHolds'
  BY DEF SInv, StartupTypes, GuardHolds, AttemptConversion, ScheduledWork
<1>5. HungWaits'
  <2>1. CASE hung' /\ journal # "none"
    BY <2>1 DEF SInv, StartupTypes, HungWaits, AttemptConversion
  <2>2. CASE hung' /\ journal = "none"
    <3>1. /\ record' = record /\ swept' = swept /\ hung /\ UNCHANGED <<files, job>>
          /\ pc' = [pc EXCEPT ![p] = "postpone"]
      BY <2>2 DEF AttemptConversion, Postpone
    <3> QED  BY <2>2, <3>1 DEF SInv, StartupTypes, HungWaits
  <2> QED  BY <2>1, <2>2 DEF HungWaits
<1> QED  BY <1>1, <1>2, <1>3, <1>4, <1>5 DEF SInv

LEMMA StartMaintenanceKeeps ==
  ASSUME SInv, NEW p \in Process, NEW j \in {"encrypt", "decrypt"}, StartMaintenance(p, j)
  PROVE  SInv'
<1>1. StartupTypes'
  BY ProcessAssumption DEF SInv, StartupTypes, StartMaintenance
<1>2. RunsMatchHome'
  BY DEF SInv, RunsMatchHome, StartMaintenance
<1>3. JournalOpen'
  BY DEF SInv, JournalOpen, StartMaintenance
<1>4. GuardHolds'
  BY DEF SInv, GuardHolds, StartMaintenance
<1>5. HungWaits'
  BY DEF SInv, StartupTypes, HungWaits, StartMaintenance
<1> QED  BY <1>1, <1>2, <1>3, <1>4, <1>5 DEF SInv

LEMMA ResumeJournalKeeps ==
  ASSUME SInv, NEW p \in Process, ResumeJournal(p)
  PROVE  SInv'
<1>1. StartupTypes'
  BY DEF SInv, StartupTypes, ResumeJournal
<1>2. RunsMatchHome'
  BY DEF SInv, RunsMatchHome, ResumeJournal
<1>3. JournalOpen'
  BY DEF JournalOpen, ResumeJournal
<1>4. GuardHolds'
  BY DEF SInv, GuardHolds, ResumeJournal
<1>5. HungWaits'
  BY DEF SInv, HungWaits, ResumeJournal
<1> QED  BY <1>1, <1>2, <1>3, <1>4, <1>5 DEF SInv

LEMMA WriteJournalKeeps ==
  ASSUME SInv, NEW p \in Process, WriteJournal(p)
  PROVE  SInv'
<1>1. StartupTypes'
  BY DEF SInv, StartupTypes, WriteJournal, Goal
<1>2. RunsMatchHome'
  BY ProcessAssumption DEF SInv, StartupTypes, RunsMatchHome, WriteJournal
<1>3. JournalOpen'
  BY DEF JournalOpen, WriteJournal, Goal
<1>4. GuardHolds'
  BY DEF SInv, StartupTypes, GuardHolds, WriteJournal
<1>5. HungWaits'
  BY DEF SInv, HungWaits, WriteJournal
<1> QED  BY <1>1, <1>2, <1>3, <1>4, <1>5 DEF SInv

LEMMA PublishMarkerKeeps ==
  ASSUME SInv, NEW p \in Process, PublishMarker(p)
  PROVE  SInv'
<1>1. StartupTypes'
  BY DEF SInv, StartupTypes, PublishMarker
<1>2. RunsMatchHome'
  BY ProcessAssumption DEF SInv, StartupTypes, RunsMatchHome, PublishMarker
<1>3. JournalOpen'
  BY DEF SInv, JournalOpen, PublishMarker
<1>4. GuardHolds'
  BY DEF SInv, GuardHolds, PublishMarker
<1>5. HungWaits'
  BY DEF SInv, HungWaits, PublishMarker
<1> QED  BY <1>1, <1>2, <1>3, <1>4, <1>5 DEF SInv

LEMMA RemovePendingKeeps ==
  ASSUME SInv, NEW p \in Process, RemovePending(p)
  PROVE  SInv'
<1>1. StartupTypes'
  BY ProcessAssumption DEF SInv, StartupTypes, RemovePending
<1>2. RunsMatchHome'
  BY DEF SInv, RunsMatchHome, RemovePending
<1>3. JournalOpen'
  BY DEF SInv, JournalOpen, RemovePending
<1>4. GuardHolds'
  BY DEF SInv, StartupTypes, GuardHolds, RemovePending
<1>5. HungWaits'
  BY DEF SInv, HungWaits, RemovePending
<1> QED  BY <1>1, <1>2, <1>3, <1>4, <1>5 DEF SInv

LEMMA RemoveJournalKeeps ==
  ASSUME SInv, NEW p \in Process, RemoveJournal(p)
  PROVE  SInv'
<1>1. StartupTypes'
  BY DEF SInv, StartupTypes, RemoveJournal
<1>2. RunsMatchHome'
  BY DEF SInv, RunsMatchHome, RemoveJournal
<1>3. JournalOpen'
  BY DEF SInv, StartupTypes, JournalOpen, RemoveJournal
<1>4. GuardHolds'
  BY DEF SInv, GuardHolds, RemoveJournal
<1>5. HungWaits'
  <2>1. ~hung
    BY DEF SInv, HungWaits, RemoveJournal
  <2>2. ~hung'
    BY <2>1 DEF RemoveJournal
  <2> QED  BY <2>2 DEF HungWaits
<1> QED  BY <1>1, <1>2, <1>3, <1>4, <1>5 DEF SInv

LEMMA ConvertedKeeps ==
  ASSUME SInv, NEW p \in Process, Converted(p)
  PROVE  SInv'
<1>1. StartupTypes'
  <2>1. CASE job[p] = "start"
    <3>1. LocalTypes'
      BY <2>1 DEF SInv, StartupTypes, LocalTypes, Starting, Converted
    <3>2. TurnTypes'
      BY ProcessAssumption DEF SInv, StartupTypes, TurnTypes, Converted, Release, Quit, End
    <3> QED
      BY <2>1, <3>1, <3>2
      DEF SInv, StartupTypes, LocalTypes, TurnTypes, Records, Sticky, Converted, Write, Release, Quit, End
  <2>2. CASE job[p] # "start"
    <3>1. LocalTypes'
      BY <2>2, ProcessAssumption
      DEF SInv, StartupTypes, LocalTypes, Starting, Converted, Write, Release, Quit, End
    <3>2. TurnTypes'
      BY ProcessAssumption DEF SInv, StartupTypes, TurnTypes, Converted, Release, Quit, End
    <3> QED
      BY <2>2, <3>1, <3>2
      DEF SInv, StartupTypes, LocalTypes, TurnTypes, Records, Sticky, Converted, Write, Release, Quit, End
  <2> QED  BY <2>1, <2>2 DEF Converted
<1>2. RunsMatchHome'
  BY DEF SInv, StartupTypes, RunsMatchHome, Converted, Quit, End
<1>3. JournalOpen'
  BY DEF SInv, StartupTypes, JournalOpen, Converted, Quit, End
<1>4. GuardHolds'
  BY DEF SInv, StartupTypes, GuardHolds, Converted
<1>5. HungWaits'
  BY DEF SInv, StartupTypes, HungWaits, Converted, Quit, End
<1> QED  BY <1>1, <1>2, <1>3, <1>4, <1>5 DEF SInv

LEMMA ConversionFailsKeeps ==
  ASSUME SInv, NEW p \in Process, ConversionFails(p)
  PROVE  SInv'
<1>1. StartupTypes'
  <2>1. CASE job[p] = "start"
    <3>1. LocalTypes'
      BY <2>1 DEF SInv, StartupTypes, LocalTypes, Starting, ConversionFails, Postpone
    <3>2. TurnTypes'
      BY ProcessAssumption DEF SInv, StartupTypes, TurnTypes, ConversionFails, Release, Postpone, Quit, End
    <3> QED
      BY <2>1, <3>1, <3>2
      DEF SInv, StartupTypes, LocalTypes, TurnTypes, Records, Sticky, ConversionFails, Write, Release,
          Postpone, Quit, End
  <2>2. CASE job[p] # "start"
    <3>1. LocalTypes'
      BY <2>2, ProcessAssumption
      DEF SInv, StartupTypes, LocalTypes, Starting, ConversionFails, Write, Release, Postpone, Quit, End
    <3>2. TurnTypes'
      BY ProcessAssumption DEF SInv, StartupTypes, TurnTypes, ConversionFails, Release, Postpone, Quit, End
    <3> QED
      BY <2>2, <3>1, <3>2
      DEF SInv, StartupTypes, LocalTypes, TurnTypes, Records, Sticky, ConversionFails, Write, Release,
          Postpone, Quit, End
  <2> QED  BY <2>1, <2>2 DEF ConversionFails
<1>2. RunsMatchHome'
  BY DEF SInv, StartupTypes, RunsMatchHome, ConversionFails, Postpone, Quit, End
<1>3. JournalOpen'
  BY DEF SInv, StartupTypes, JournalOpen, ConversionFails, Postpone, Quit, End
<1>4. GuardHolds'
  BY DEF SInv, StartupTypes, GuardHolds, ConversionFails
<1>5. HungWaits'
  BY DEF SInv, StartupTypes, HungWaits, JournalOpen, ConversionFails, Postpone, Quit, End
<1> QED  BY <1>1, <1>2, <1>3, <1>4, <1>5 DEF SInv

LEMMA PostponeCheckKeeps ==
  ASSUME SInv, NEW p \in Process, PostponeCheck(p)
  PROVE  SInv'
<1>1. StartupTypes'
  <2>1. CASE End(p)
    BY <2>1 DEF SInv, StartupTypes, PostponeCheck, End
  <2>2. CASE Go(p, "share")
    BY <2>2 DEF SInv, StartupTypes, Starting, PostponeCheck
  <2> QED  BY <2>1, <2>2 DEF PostponeCheck
<1>2. RunsMatchHome'
  BY DEF SInv, StartupTypes, RunsMatchHome, PostponeCheck, End
<1>3. JournalOpen'
  BY DEF SInv, StartupTypes, JournalOpen, PostponeCheck
<1>4. GuardHolds'
  BY DEF SInv, StartupTypes, GuardHolds, PostponeCheck
<1>5. HungWaits'
  BY DEF SInv, StartupTypes, HungWaits, PostponeCheck, End
<1> QED  BY <1>1, <1>2, <1>3, <1>4, <1>5 DEF SInv

LEMMA PostponeSharedKeeps ==
  ASSUME SInv, NEW p \in Process, PostponeShared(p)
  PROVE  SInv'
<1>1. StartupTypes'
  BY DEF SInv, StartupTypes, PostponeShared
<1>2. RunsMatchHome'
  BY DEF SInv, RunsMatchHome, PostponeShared
<1>3. JournalOpen'
  BY DEF SInv, JournalOpen, PostponeShared
<1>4. GuardHolds'
  BY DEF SInv, GuardHolds, PostponeShared
<1>5. HungWaits'
  BY DEF SInv, HungWaits, PostponeShared
<1> QED  BY <1>1, <1>2, <1>3, <1>4, <1>5 DEF SInv

LEMMA ShareTimeoutKeeps ==
  ASSUME SInv, NEW p \in Process, ShareTimeout(p)
  PROVE  SInv'
<1>1. StartupTypes'
  BY DEF SInv, StartupTypes, ShareTimeout, End
<1>2. RunsMatchHome'
  BY DEF SInv, RunsMatchHome, ShareTimeout, End
<1>3. JournalOpen'
  BY DEF SInv, JournalOpen, ShareTimeout, End
<1>4. GuardHolds'
  BY DEF SInv, GuardHolds, ShareTimeout, End
<1>5. HungWaits'
  BY DEF SInv, HungWaits, ShareTimeout, End
<1> QED  BY <1>1, <1>2, <1>3, <1>4, <1>5 DEF SInv

LEMMA DecideKeeps ==
  ASSUME SInv, NEW p \in Process, Decide(p)
  PROVE  SInv'
<1>1. StartupTypes'
  <2>1. CASE journal # "none"
    <3>1. LocalTypes'
      BY <2>1, ProcessAssumption
      DEF SInv, StartupTypes, LocalTypes, Starting, Decide, Quit, End, Write, RecordPostponed
    <3>2. TurnTypes'
      BY DEF SInv, StartupTypes, TurnTypes, Decide, Quit, End
    <3> QED
      BY <2>1, <3>1, <3>2
      DEF SInv, StartupTypes, LocalTypes, TurnTypes, Records, Sticky, Decide, Quit, End, Write,
          RecordPostponed
  <2>2. CASE journal = "none" /\ armed
    BY <2>2 DEF SInv, StartupTypes, Starting, Records, Decide, Write
  <2>3. CASE journal = "none" /\ ~armed
    BY <2>3 DEF SInv, StartupTypes, Records, Decide, Write, RecordPostponed
  <2> QED  BY <2>1, <2>2, <2>3 DEF Decide
<1>2. RunsMatchHome'
  BY DEF SInv, StartupTypes, RunsMatchHome, Decide, Quit, End
<1>3. JournalOpen'
  BY DEF SInv, StartupTypes, JournalOpen, Decide
<1>4. GuardHolds'
  BY DEF SInv, StartupTypes, GuardHolds, Decide, RecordPostponed, Sticky
<1>5. HungWaits'
  BY DEF SInv, StartupTypes, HungWaits, Decide, RecordPostponed, Quit, End
<1> QED  BY <1>1, <1>2, <1>3, <1>4, <1>5 DEF SInv

LEMMA StrictCheckKeeps ==
  ASSUME SInv, NEW p \in Process, StrictCheck(p)
  PROVE  SInv'
<1>1. StartupTypes'
  <2>1. CASE End(p)
    BY <2>1 DEF SInv, StartupTypes, StrictCheck, End
  <2>2. CASE Go(p, "admit_keyed") \/ Go(p, "admit_plain")
    BY <2>2 DEF SInv, StartupTypes, Starting, StrictCheck
  <2> QED  BY <2>1, <2>2 DEF StrictCheck
<1>2. RunsMatchHome'
  BY DEF SInv, StartupTypes, RunsMatchHome, StrictCheck, End
<1>3. JournalOpen'
  BY DEF SInv, StartupTypes, JournalOpen, StrictCheck, End
<1>4. GuardHolds'
  BY DEF SInv, StartupTypes, GuardHolds, StrictCheck, End
<1>5. HungWaits'
  BY DEF SInv, StartupTypes, HungWaits, StrictCheck, End
<1> QED  BY <1>1, <1>2, <1>3, <1>4, <1>5 DEF SInv

LEMMA AdmitKeeps ==
  ASSUME SInv, NEW p \in Process, Admit(p)
  PROVE  SInv'
<1>1. StartupTypes'
  <2>1. CASE End(p)
    BY <2>1 DEF SInv, StartupTypes, Admit, End
  <2>2. CASE Go(p, "keyed") \/ Go(p, "plain")
    BY <2>2 DEF SInv, StartupTypes, Admit, End
  <2> QED  BY <2>1, <2>2 DEF Admit
<1>2. RunsMatchHome'
  BY DEF SInv, StartupTypes, RunsMatchHome, Admit, End
<1>3. JournalOpen'
  BY DEF SInv, StartupTypes, JournalOpen, Admit, End
<1>4. GuardHolds'
  BY DEF SInv, StartupTypes, GuardHolds, Admit, End
<1>5. HungWaits'
  BY DEF SInv, StartupTypes, HungWaits, Admit, End
<1> QED  BY <1>1, <1>2, <1>3, <1>4, <1>5 DEF SInv

LEMMA AdmitTimeoutKeeps ==
  ASSUME SInv, NEW p \in Process, AdmitTimeout(p)
  PROVE  SInv'
<1>1. StartupTypes'
  BY DEF SInv, StartupTypes, AdmitTimeout, End
<1>2. RunsMatchHome'
  BY DEF SInv, RunsMatchHome, AdmitTimeout, End
<1>3. JournalOpen'
  BY DEF SInv, JournalOpen, AdmitTimeout, End
<1>4. GuardHolds'
  BY DEF SInv, GuardHolds, AdmitTimeout, End
<1>5. HungWaits'
  BY DEF SInv, HungWaits, AdmitTimeout, End
<1> QED  BY <1>1, <1>2, <1>3, <1>4, <1>5 DEF SInv

LEMMA DieKeeps ==
  ASSUME SInv, NEW p \in Process, Die(p)
  PROVE  SInv'
<1>1. StartupTypes'
  BY ProcessAssumption DEF SInv, StartupTypes, Die, Quit, End
<1>2. RunsMatchHome'
  BY DEF SInv, RunsMatchHome, Die, Quit, End
<1>3. JournalOpen'
  BY DEF SInv, JournalOpen, Die, Quit, End
<1>4. GuardHolds'
  BY DEF SInv, StartupTypes, GuardHolds, Die, Quit, End
<1>5. HungWaits'
  BY DEF SInv, StartupTypes, HungWaits, GuardHolds, Sticky, Die, Quit, End
<1> QED  BY <1>1, <1>2, <1>3, <1>4, <1>5 DEF SInv
LEMMA StartupStarts ==
  StartupInit => SInv
<1> SUFFICES ASSUME StartupInit PROVE SInv
  OBVIOUS
<1>1. StartupTypes
  BY ProcessAssumption DEF StartupInit, StartupTypes, Records
<1> QED
  BY <1>1 DEF StartupInit, SInv, RunsMatchHome, JournalOpen, GuardHolds, HungWaits

LEMMA StartupStep ==
  SInv /\ [StartupNext]_startupVars => SInv'
<1> SUFFICES ASSUME SInv, [StartupNext]_startupVars PROVE SInv'
  OBVIOUS
<1>1. CASE Page
  BY <1>1, ReadFactsKeeps, SchedulePressedKeeps, CancelKeeps DEF Page
<1>2. CASE Maintenance
  BY <1>2, StartMaintenanceKeeps DEF Maintenance
<1>3. ASSUME NEW p \in Process, StartStep(p) PROVE SInv'
  BY <1>3, ReadIntentKeeps, ClearStaleKeeps, CheckWorkKeeps, JudgeKeeps, TakeExclusiveKeeps, PollBusyKeeps,
     AttemptNothingKeeps, AttemptInterruptedKeeps, AttemptConversionKeeps, ConvertedKeeps,
     PostponeCheckKeeps, PostponeSharedKeeps, ShareTimeoutKeeps, DecideKeeps, StrictCheckKeeps, AdmitKeeps,
     AdmitTimeoutKeeps DEF StartStep
<1>4. ASSUME NEW p \in Process, Conversion(p) PROVE SInv'
  BY <1>4, ResumeJournalKeeps, WriteJournalKeeps, PublishMarkerKeeps, RemovePendingKeeps, RemoveJournalKeeps,
     ConversionFailsKeeps DEF Conversion
<1>5. ASSUME NEW p \in Process, Launch(p) \/ Die(p) PROVE SInv'
  BY <1>5, LaunchKeeps, DieKeeps
<1>6. CASE UNCHANGED startupVars
  BY <1>6 DEF startupVars, SInv, StartupTypes, RunsMatchHome, JournalOpen, GuardHolds, HungWaits
<1> QED  BY <1>1, <1>2, <1>3, <1>4, <1>5, <1>6 DEF StartupNext

\* The invariant: a shared lease is held where a start looks again and where it runs, the
\* exclusive one where it converts, and what is on disk follows the conversion in progress.
THEOREM StartupInvariant ==
  StartupSpec => []SInv
<1> QED  BY StartupStarts, StartupStep, PTL DEF StartupSpec

\* Who runs, runs in the format of the home, with no conversion begun and none left over
\* (_postpone and _install_native look again under the shared lease).
THEOREM StartupMatchesHome ==
  StartupSpec => []RunsMatchHome
<1>1. SInv => RunsMatchHome
  BY DEF SInv
<1> QED  BY <1>1, StartupInvariant, PTL

\* A verdict over an attempt is passed when the attempt is over, no outcome is written over a
\* converted home, and a prompt that hung is asked again for the same schedule only after a
\* start without one has swept the record away (_attempt, _record_postponed).
THEOREM StartupOrdersOutcomes ==
  StartupSpec => OutcomesInOrder
<1> DEFINE GuardInTime == \A p \in Process : guarded'[p] /\ ~guarded[p] => ~hung \/ swept
           VerdictAfter == \A p \in Process :
             /\ job[p] = "start" /\ pc[p] \in InFlight /\ pc'[p] \in InFlight
             /\ record = "attempting"
             => record' \in {"attempting", "none"}
           NotTooLate == record' \notin {record, "none"} =>
             journal # "none" \/ ~armed \/ \E p \in Process : pc[p] \in InFlight
<1>1. ASSUME SInv, UNCHANGED <<record, guarded>>
      PROVE  GuardInTime /\ VerdictAfter /\ NotTooLate
  BY <1>1
<1>2. ASSUME SInv, Page PROVE GuardInTime /\ VerdictAfter /\ NotTooLate
  BY <1>2 DEF Page, ReadFacts, SchedulePressed, Cancel
<1>3. ASSUME SInv, NEW p \in Process, ClearStale(p) \/ AttemptNothing(p) \/ Converted(p)
      PROVE  GuardInTime /\ VerdictAfter /\ NotTooLate
  BY <1>3 DEF ClearStale, AttemptNothing, Converted, Write
<1>4. ASSUME SInv, NEW p \in Process, AttemptInterrupted(p)
      PROVE  GuardInTime /\ VerdictAfter /\ NotTooLate
  BY <1>4 DEF AttemptInterrupted, SInv, StartupTypes, Write, ScheduledWork
<1>5. ASSUME SInv, NEW p \in Process, AttemptConversion(p)
      PROVE  GuardInTime /\ VerdictAfter /\ NotTooLate
  BY <1>5 DEF AttemptConversion, SInv, StartupTypes, HungWaits, ScheduledWork
<1>6. ASSUME SInv, NEW p \in Process, ConversionFails(p)
      PROVE  GuardInTime /\ VerdictAfter /\ NotTooLate
  BY <1>6 DEF ConversionFails, SInv, StartupTypes, Write, Release, Postpone, Quit, End
<1>7. ASSUME SInv, NEW p \in Process, Decide(p)
      PROVE  GuardInTime /\ VerdictAfter /\ NotTooLate
  <2>1. GuardInTime /\ NotTooLate
    BY <1>7 DEF Decide, Write, RecordPostponed
  <2>2. exclusive = Nobody
    BY <1>7 DEF Decide, SInv, StartupTypes
  <2>3. ASSUME NEW q \in Process PROVE pc[q] \notin InFlight
    <3>1. exclusive # q
      BY <2>2, ProcessAssumption
    <3> QED  BY <1>7, <3>1 DEF SInv, StartupTypes
  <2> QED  BY <2>1, <2>3
<1>8. ASSUME SInv, NEW p \in Process, WriteJournal(p) \/ Die(p)
      PROVE  GuardInTime /\ VerdictAfter /\ NotTooLate
  BY <1>8 DEF WriteJournal, Die, SInv, StartupTypes
<1>9. ASSUME SInv, [StartupNext]_startupVars
      PROVE  [GuardInTime /\ VerdictAfter /\ NotTooLate]_startupVars
  <2>1. \/ UNCHANGED <<record, guarded>> \/ Page
        \/ \E p \in Process : \/ ClearStale(p) \/ AttemptNothing(p) \/ Converted(p)
                              \/ AttemptInterrupted(p) \/ AttemptConversion(p) \/ ConversionFails(p)
                              \/ Decide(p) \/ WriteJournal(p) \/ Die(p)
    BY <1>9
    DEF StartupNext, startupVars, Maintenance, StartMaintenance, Launch, StartStep, ReadIntent, CheckWork,
        Judge, TakeExclusive, PollBusy, PostponeCheck, PostponeShared, ShareTimeout, StrictCheck, Admit,
        AdmitTimeout, Conversion, ResumeJournal, PublishMarker, RemovePending, RemoveJournal
  <2> QED  BY <1>1, <1>2, <1>3, <1>4, <1>5, <1>6, <1>7, <1>8, <1>9, <2>1
<1> QED  BY <1>9, StartupInvariant, PTL DEF StartupSpec, OutcomesInOrder

-----------------------------------------------------------------------------
(* The refinement: a startup does with the home what DbHome allows.         *)

\* Nobody runs while somebody holds the lease exclusively, and who runs has the home's format.
LEMMA ClosedWhileHeld ==
  ASSUME SInv, exclusive # Nobody
  PROVE  HomeRuns = {}
BY DEF SInv, StartupTypes, HomeRuns

LEMMA RunsFollowMode ==
  ASSUME SInv
  PROVE  HomeRuns \subseteq {HomeMode}
BY DEF SInv, StartupTypes, RunsMatchHome, HomeRuns, HomeMode

\* A step that neither touches the records nor makes a process run or stop is a stutter.
LEMMA StartupStutters ==
  ASSUME UNCHANGED <<journal, armed>>,
         \A q \in Process : /\ pc'[q] = "plain" <=> pc[q] = "plain"
                            /\ pc'[q] = "keyed" <=> pc[q] = "keyed"
  PROVE  UNCHANGED <<HomeMode, HomeRuns, HomeFormats>>
BY DEF HomeMode, HomeRuns, HomeFormats

\* A start that runs is admitted in the format of the home.
LEMMA StartupAdmits ==
  ASSUME SInv, UNCHANGED <<journal, armed>>, journal = "none", NEW p \in Process,
         pc[p] \notin {"plain", "keyed"},
         pc' = [pc EXCEPT ![p] = IF armed THEN "keyed" ELSE "plain"]
  PROVE  Home!Next
<1>1. HomeRuns' = HomeRuns \cup {HomeMode}
  BY DEF SInv, StartupTypes, HomeRuns, HomeMode
<1>2. HomeMode \in Home!Formats
  BY DEF HomeMode, Home!Formats
<1>3. UNCHANGED <<HomeMode, HomeFormats>>
  BY DEF HomeMode, HomeFormats
<1> QED  BY <1>1, <1>2, <1>3 DEF Home!Next, Home!Admit

\* A process that ends takes its format along, unless another one runs.
LEMMA StartupLeaves ==
  ASSUME SInv, UNCHANGED <<journal, armed>>, NEW p \in Process, pc' = [pc EXCEPT ![p] = "off"]
  PROVE  Home!Next \/ UNCHANGED <<HomeMode, HomeRuns, HomeFormats>>
<1>1. UNCHANGED <<HomeMode, HomeFormats>>
  BY DEF HomeMode, HomeFormats
<1>2. HomeRuns' \subseteq HomeRuns
  BY DEF SInv, StartupTypes, HomeRuns
<1>3. CASE HomeRuns' = HomeRuns
  BY <1>1, <1>3
<1>4. CASE HomeRuns' # HomeRuns
  <2>1. PICK k \in HomeRuns : k \notin HomeRuns'
    BY <1>2, <1>4
  <2>2. HomeRuns = {k} /\ HomeRuns' = HomeRuns \ {k}
    BY <1>2, <2>1, RunsFollowMode
  <2>3. k \in Home!Formats
    BY <2>1 DEF HomeRuns, Home!Formats
  <2> QED  BY <1>1, <2>2, <2>3 DEF Home!Next, Home!Leave
<1> QED  BY <1>3, <1>4

\* The steps of a conversion close the home, convert its files, and open it again.
LEMMA ConversionRefines ==
  ASSUME SInv, NEW p \in Process, WriteJournal(p) \/ PublishMarker(p) \/ RemoveJournal(p)
  PROVE  Home!Next
<1>1. exclusive # Nobody
  BY ProcessAssumption DEF SInv, StartupTypes, WriteJournal, PublishMarker, RemoveJournal
<1>2. HomeRuns = {} /\ HomeRuns' = {}
  <2>1. \A q \in Process : pc'[q] \notin {"plain", "keyed"}
    BY <1>1 DEF SInv, StartupTypes, WriteJournal, PublishMarker, RemoveJournal
  <2> QED  BY <1>1, <2>1, ClosedWhileHeld DEF HomeRuns
<1>3. CASE WriteJournal(p)
  <2>1. HomeMode' = "closed" /\ HomeFormats' = HomeFormats
    BY <1>3 DEF WriteJournal, Goal, HomeMode, HomeFormats
  <2> QED  BY <1>2, <2>1 DEF Home!Next, Home!Close
<1>4. CASE PublishMarker(p)
  <2>1. HomeMode = "closed" /\ HomeMode' = "closed"
    BY <1>4 DEF PublishMarker, SInv, JournalOpen, HomeMode
  <2>2. HomeFormats' \subseteq Home!Formats
    BY DEF HomeFormats, Home!Formats
  <2> QED  BY <1>2, <2>1, <2>2 DEF Home!Next, Home!Convert
<1>5. CASE RemoveJournal(p)
  <2>1. HomeMode = "closed"
    BY <1>5 DEF RemoveJournal, SInv, JournalOpen, HomeMode
  <2>2. HomeMode' \in Home!Formats /\ HomeFormats = {HomeMode'} /\ HomeFormats' = HomeFormats
    BY <1>5 DEF RemoveJournal, HomeMode, HomeFormats, Home!Formats
  <2> QED  BY <1>2, <2>1, <2>2 DEF Home!Next, Home!Reopen
<1> QED  BY <1>3, <1>4, <1>5

\* The conversion at startup keeps what DbHome promises: the format of the home changes only
\* while it is closed, it closes only while nobody runs, and who runs has its format.
THEOREM StartupKeepsHome ==
  StartupSpec => HomeSpec
<1> DEFINE Kept == UNCHANGED <<HomeMode, HomeRuns, HomeFormats>>
<1>1. ASSUME StartupInit PROVE Home!Init
  <2>1. HomeRuns = {}
    BY <1>1 DEF StartupInit, HomeRuns
  <2> QED  BY <1>1, <2>1 DEF StartupInit, HomeMode, HomeFormats, Home!Init, Home!Formats
<1>2. ASSUME SInv, UNCHANGED <<journal, armed, pc>> PROVE Kept
  BY <1>2, StartupStutters
<1>3. ASSUME SInv, NEW p \in Process, StartStep(p) PROVE Home!Next \/ Kept
  <2>1. UNCHANGED <<journal, armed>>
    BY <1>3
    DEF StartStep, ReadIntent, ClearStale, CheckWork, Judge, TakeExclusive, PollBusy, AttemptNothing,
        AttemptInterrupted, AttemptConversion, Converted, PostponeCheck, PostponeShared, ShareTimeout,
        Decide, StrictCheck, Admit, AdmitTimeout
  <2>2. CASE journal = "none" /\ pc' = [pc EXCEPT ![p] = IF armed THEN "keyed" ELSE "plain"]
    <3>1. pc[p] \notin {"plain", "keyed"}
      BY <1>3
      DEF StartStep, ReadIntent, ClearStale, CheckWork, Judge, TakeExclusive, PollBusy, AttemptNothing,
          AttemptInterrupted, AttemptConversion, Converted, PostponeCheck, PostponeShared, ShareTimeout,
          Decide, StrictCheck, Admit, AdmitTimeout
    <3> QED  BY <1>3, <2>1, <2>2, <3>1, StartupAdmits
  <2>3. CASE \E s \in {"work", "clear", "strict", "judge", "postpone", "attempt", "inside", "converting",
                       "off", "share", "decide", "admit_keyed", "admit_plain"} :
               pc' = [pc EXCEPT ![p] = s]
    <3>1. pc[p] \notin {"plain", "keyed"}
      BY <1>3
      DEF StartStep, ReadIntent, ClearStale, CheckWork, Judge, TakeExclusive, PollBusy, AttemptNothing,
          AttemptInterrupted, AttemptConversion, Converted, PostponeCheck, PostponeShared, ShareTimeout,
          Decide, StrictCheck, Admit, AdmitTimeout
    <3>2. \A q \in Process : /\ pc'[q] = "plain" <=> pc[q] = "plain"
                             /\ pc'[q] = "keyed" <=> pc[q] = "keyed"
      BY <1>3, <2>3, <3>1 DEF SInv, StartupTypes
    <3> QED  BY <2>1, <3>2, StartupStutters
  <2>4. \/ journal = "none" /\ pc' = [pc EXCEPT ![p] = IF armed THEN "keyed" ELSE "plain"]
        \/ \E s \in {"work", "clear", "strict", "judge", "postpone", "attempt", "inside", "converting",
                     "off", "share", "decide", "admit_keyed", "admit_plain"} :
             pc' = [pc EXCEPT ![p] = s]
    BY <1>3
    DEF StartStep, ReadIntent, ClearStale, CheckWork, Judge, TakeExclusive, PollBusy, AttemptNothing,
        AttemptInterrupted, AttemptConversion, Converted, PostponeCheck, PostponeShared, ShareTimeout,
        Decide, StrictCheck, Admit, AdmitTimeout, Postpone, Quit, End
  <2> QED  BY <2>2, <2>3, <2>4
<1>4. ASSUME SInv, NEW p \in Process, Conversion(p) PROVE Home!Next \/ Kept
  <2>1. CASE WriteJournal(p) \/ PublishMarker(p) \/ RemoveJournal(p)
    BY <1>4, <2>1, ConversionRefines
  <2>2. CASE ResumeJournal(p) \/ RemovePending(p) \/ ConversionFails(p)
    <3>1. UNCHANGED <<journal, armed>>
      BY <2>2 DEF ResumeJournal, RemovePending, ConversionFails
    <3>2. /\ pc[p] \notin {"plain", "keyed"}
          /\ \E s \in {"publish", "unjournal", "postpone", "off"} : pc' = [pc EXCEPT ![p] = s]
      BY <2>2 DEF ResumeJournal, RemovePending, ConversionFails, Postpone, Quit, End
    <3>3. \A q \in Process : /\ pc'[q] = "plain" <=> pc[q] = "plain"
                             /\ pc'[q] = "keyed" <=> pc[q] = "keyed"
      BY <1>4, <3>2 DEF SInv, StartupTypes
    <3> QED  BY <3>1, <3>3, StartupStutters
  <2> QED  BY <1>4, <2>1, <2>2 DEF Conversion
<1>5. ASSUME SInv, NEW p \in Process, Die(p) PROVE Home!Next \/ Kept
  BY <1>5, StartupLeaves DEF Die, Quit, End
<1>6. ASSUME SInv, NEW p \in Process,
             Launch(p) \/ \E j \in {"encrypt", "decrypt"} : StartMaintenance(p, j)
      PROVE  Kept
  <2>1. \A q \in Process : /\ pc'[q] = "plain" <=> pc[q] = "plain"
                           /\ pc'[q] = "keyed" <=> pc[q] = "keyed"
    BY <1>6 DEF Launch, StartMaintenance, SInv, StartupTypes
  <2> QED  BY <1>6, <2>1, StartupStutters DEF Launch, StartMaintenance
<1>7. ASSUME SInv, [StartupNext]_startupVars PROVE [Home!Next]_<<HomeMode, HomeRuns, HomeFormats>>
  <2>1. CASE Page \/ UNCHANGED startupVars
    BY <1>2, <1>7, <2>1 DEF Page, ReadFacts, SchedulePressed, Cancel, startupVars
  <2> QED  BY <1>3, <1>4, <1>5, <1>6, <1>7, <2>1 DEF StartupNext, Maintenance
<1> QED  BY <1>1, <1>7, StartupInvariant, PTL DEF StartupSpec, HomeSpec, Home!Spec
==============================================================================
