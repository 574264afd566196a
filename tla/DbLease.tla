------------------------------- MODULE DbLease -------------------------------
(***************************************************************************)
(* The root database lease: the shared (runtime) and exclusive             *)
(* (maintenance) custody of a Hermes home, in every thread of every        *)
(* process (_core/_database_lifecycle.py), over the kernel's flock on      *)
(* <home>/mordred/db-encryption.lock (_core/_database_locking_posix.py),   *)
(* with the process-lifetime lease of dbcrypt/_locking.py.                 *)
(*                                                                         *)
(* A handle stands for one open file description of the lock file: flock   *)
(* belongs to the description, fork shares it between parent and child,    *)
(* and the kernel drops the lock when the last descriptor on it is closed. *)
(***************************************************************************)
EXTENDS Integers

CONSTANTS Proc,      \* process ids; an id is never reused
          Thread,    \* threads (lease scopes) of a process
          Handle,    \* open file descriptions of the lock file
          MaxDepth,  \* bound on re-entrant exclusive scopes
          None

ASSUME NoneAssumption == None \notin Thread \cup Handle
ASSUME DepthAssumption == MaxDepth \in Nat \ {0}

VARIABLES alive,    \* processes that run
          born,     \* processes that ever ran
          hook,     \* forked children whose at-fork callbacks have not finished
          flock,    \* kernel: the lock each description carries
          refs,     \* kernel: the processes with a descriptor on a description
          step,     \* where each thread is in acquire_runtime / acquire_exclusive
          own,      \* the thread's local variable `native`
          readers,  \* _READERS of a process
          writer,   \* _WRITERS of a process
          handles,  \* _HANDLES of a process
          life      \* _LEASES of a process: the scope kept for its lifetime

vars == <<alive, born, hook, flock, refs, step, own, readers, writer, handles, life>>

procVars == <<alive, born, hook, life>>
kernelVars == <<flock, refs>>
registryVars == <<readers, writer, handles>>

Steps == {"idle", "shopened", "shwait", "sh", "exopened", "exwait", "ex", "closing"}
\* An entry of _WRITERS: the owning thread, whether the lease object is
\* published, the number of nested scopes.
Owner(t, lease, depth) == [thread |-> t, lease |-> lease, depth |-> depth]
NoWriter == Owner(None, FALSE, 0)

Init ==
  /\ \E p \in Proc : alive = {p} /\ born = {p}
  /\ hook = {}
  /\ flock = [h \in Handle |-> "none"]
  /\ refs = [h \in Handle |-> {}]
  /\ step = [p \in Proc |-> [t \in Thread |-> "idle"]]
  /\ own = [p \in Proc |-> [t \in Thread |-> None]]
  /\ readers = [p \in Proc |-> {}]
  /\ writer = [p \in Proc |-> NoWriter]
  /\ handles = [p \in Proc |-> {}]
  /\ life = [p \in Proc |-> None]

-----------------------------------------------------------------------------
(* The kernel's side. *)

\* What close() of p's descriptor does: the last one releases the lock.
RefsAfterClose(p, S) == [h \in Handle |-> IF h \in S THEN refs[h] \ {p} ELSE refs[h]]
FlockAfterClose(p, S) ==
  [h \in Handle |-> IF RefsAfterClose(p, S)[h] = {} THEN "none" ELSE flock[h]]
\* Fault: the close also unlocks (LOCK_UN) the shared description.
CloseDescriptorsUnlocking(p, S) ==
  /\ refs' = RefsAfterClose(p, S)
  /\ flock' = [h \in Handle |-> IF h \in S THEN "none" ELSE flock[h]]
CloseDescriptors(p, S) == refs' = RefsAfterClose(p, S) /\ flock' = FlockAfterClose(p, S)

\* LOCK_NB on description h fails against a conflicting lock of another one.
SharedConflict(h) == \E g \in Handle \ {h} : flock[g] = "ex"
ExclusiveConflict(h) == \E g \in Handle \ {h} : flock[g] # "none"

-----------------------------------------------------------------------------
(* Opening, common to both kinds: PosixDatabaseLock.__init__ opens a new   *)
(* description. Nothing registers it yet.                                  *)

OpenLock(p, t, next) ==
  \E h \in Handle :
    /\ refs[h] = {}
    /\ refs' = [refs EXCEPT ![h] = {p}]
    /\ own' = [own EXCEPT ![p][t] = h]
    /\ step' = [step EXCEPT ![p][t] = next]
    /\ UNCHANGED <<procVars, flock, registryVars>>

Running(p) == p \in alive /\ p \notin hook

OpenRuntime(p, t) ==
  /\ Running(p) /\ step[p][t] = "idle"
  /\ OpenLock(p, t, "shopened")

\* Under _LOCK: refuse beside this process's own maintenance ...
RefuseRuntime(p, t) ==
  /\ Running(p) /\ step[p][t] = "shopened"
  /\ writer[p] # NoWriter
  /\ step' = [step EXCEPT ![p][t] = "closing"]
  /\ UNCHANGED <<procVars, kernelVars, own, registryVars>>

\* ... else register the reader, before the lock itself is taken.
RegisterRuntime(p, t) ==
  /\ Running(p) /\ step[p][t] = "shopened"
  /\ writer[p] = NoWriter
  /\ readers' = [readers EXCEPT ![p] = @ \cup {t}]
  /\ handles' = [handles EXCEPT ![p] = @ \cup {own[p][t]}]
  /\ step' = [step EXCEPT ![p][t] = "shwait"]
  /\ UNCHANGED <<procVars, kernelVars, own, writer>>

AcquireRuntime(p, t) ==
  /\ Running(p) /\ step[p][t] = "shwait"
  /\ ~SharedConflict(own[p][t])
  /\ flock' = [flock EXCEPT ![own[p][t]] = "sh"]
  /\ step' = [step EXCEPT ![p][t] = "sh"]
  /\ UNCHANGED <<procVars, refs, own, registryVars>>

\* RuntimeLease.close up to the native close, which runs outside _LOCK.
CloseRuntime(p, t) ==
  /\ readers' = [readers EXCEPT ![p] = @ \ {t}]
  /\ handles' = [handles EXCEPT ![p] = @ \ {own[p][t]}]
  /\ step' = [step EXCEPT ![p][t] = "closing"]
  /\ UNCHANGED <<procVars, kernelVars, own, writer>>

\* The deadline passed while another description held the exclusive lock.
RuntimeBusy(p, t) ==
  /\ Running(p) /\ step[p][t] = "shwait"
  /\ SharedConflict(own[p][t])
  /\ CloseRuntime(p, t)

ReleaseRuntime(p, t) ==
  /\ Running(p) /\ step[p][t] = "sh" /\ life[p] # t
  /\ CloseRuntime(p, t)

\* runtime_lease: the scope's body succeeded and the lease stays in _LEASES
\* until the process exits.
KeepForLife(p, t) ==
  /\ Running(p) /\ step[p][t] = "sh" /\ life[p] = None
  /\ life' = [life EXCEPT ![p] = t]
  /\ UNCHANGED <<alive, born, hook, kernelVars, step, own, registryVars>>

\* _close_legacy_leases, at interpreter exit.
ShutdownLease(p, t) ==
  /\ Running(p) /\ step[p][t] = "sh" /\ life[p] = t
  /\ life' = [life EXCEPT ![p] = None]
  /\ readers' = [readers EXCEPT ![p] = @ \ {t}]
  /\ handles' = [handles EXCEPT ![p] = @ \ {own[p][t]}]
  /\ step' = [step EXCEPT ![p][t] = "closing"]
  /\ UNCHANGED <<alive, born, hook, kernelVars, own, writer>>

\* native.close(), after _LOCK was released.
NativeClose(p, t) ==
  /\ Running(p) /\ step[p][t] = "closing"
  /\ CloseDescriptors(p, {own[p][t]})
  /\ own' = [own EXCEPT ![p][t] = None]
  /\ step' = [step EXCEPT ![p][t] = "idle"]
  /\ UNCHANGED <<procVars, registryVars>>

-----------------------------------------------------------------------------
(* acquire_exclusive and ExclusiveLease. *)

OpenExclusive(p, t) ==
  /\ Running(p) /\ step[p][t] = "idle"
  /\ OpenLock(p, t, "exopened")

\* Under _LOCK: no upgrade beside this process's readers, and one owner ...
RefuseExclusive(p, t) ==
  /\ Running(p) /\ step[p][t] = "exopened"
  /\ readers[p] # {} \/ writer[p] # NoWriter
  /\ step' = [step EXCEPT ![p][t] = "closing"]
  /\ UNCHANGED <<procVars, kernelVars, own, registryVars>>

\* ... whose reservation precedes the kernel lock and carries no lease yet.
RegisterExclusive(p, t) ==
  /\ Running(p) /\ step[p][t] = "exopened"
  /\ readers[p] = {} /\ writer[p] = NoWriter
  /\ writer' = [writer EXCEPT ![p] = Owner(t, FALSE, 1)]
  /\ handles' = [handles EXCEPT ![p] = @ \cup {own[p][t]}]
  /\ step' = [step EXCEPT ![p][t] = "exwait"]
  /\ UNCHANGED <<procVars, kernelVars, own, readers>>

AcquireExclusive(p, t) ==
  /\ Running(p) /\ step[p][t] = "exwait"
  /\ ~ExclusiveConflict(own[p][t])
  /\ flock' = [flock EXCEPT ![own[p][t]] = "ex"]
  /\ writer' = [writer EXCEPT ![p] = Owner(t, TRUE, 1)]
  /\ step' = [step EXCEPT ![p][t] = "ex"]
  /\ UNCHANGED <<procVars, refs, own, readers, handles>>

\* The outermost scope of a failed or finished lease: leave the registries
\* under _LOCK; the descriptor is closed by NativeClose afterwards.
Unregister(p, t) ==
  /\ writer' = [writer EXCEPT ![p] = NoWriter]
  /\ handles' = [handles EXCEPT ![p] = @ \ {own[p][t]}]
  /\ step' = [step EXCEPT ![p][t] = "closing"]
  /\ UNCHANGED <<procVars, kernelVars, own, readers>>

ExclusiveBusy(p, t) ==
  /\ Running(p) /\ step[p][t] = "exwait"
  /\ ExclusiveConflict(own[p][t])
  /\ Unregister(p, t)

\* Re-entry by the owning thread shares the lease; its own description is
\* opened and closed without ever being locked.
Reenter(p, t) ==
  /\ Running(p) /\ step[p][t] = "ex"
  /\ readers[p] = {} /\ writer[p].thread = t /\ writer[p].depth < MaxDepth
  /\ writer' = [writer EXCEPT ![p] = Owner(t, TRUE, @.depth + 1)]
  /\ UNCHANGED <<procVars, kernelVars, step, own, readers, handles>>

\* ExclusiveLease._release: an inner scope only counts down ...
LeaveInner(p, t) ==
  /\ Running(p) /\ step[p][t] = "ex" /\ writer[p].depth > 1
  /\ writer' = [writer EXCEPT ![p] = Owner(t, TRUE, @.depth - 1)]
  /\ UNCHANGED <<procVars, kernelVars, step, own, readers, handles>>

\* ... and the outermost one gives the lease up.
ReleaseExclusive(p, t) ==
  /\ Running(p) /\ step[p][t] = "ex" /\ writer[p].depth = 1
  /\ Unregister(p, t)

-----------------------------------------------------------------------------
(* Processes: start, fork, exit or crash. *)

Start(p) ==
  /\ p \notin born
  /\ alive' = alive \cup {p} /\ born' = born \cup {p}
  /\ UNCHANGED <<hook, life, kernelVars, step, own, registryVars>>

\* The child gets a descriptor on every description of the parent and a copy
\* of its memory; only the forking thread lives on, inside os.fork.
Fork(p, q) ==
  /\ Running(p) /\ q \notin born
  /\ alive' = alive \cup {q} /\ born' = born \cup {q} /\ hook' = hook \cup {q}
  /\ refs' = [h \in Handle |-> IF p \in refs[h] THEN refs[h] \cup {q} ELSE refs[h]]
  /\ readers' = [readers EXCEPT ![q] = readers[p]]
  /\ writer' = [writer EXCEPT ![q] = writer[p]]
  /\ handles' = [handles EXCEPT ![q] = handles[p]]
  /\ life' = [life EXCEPT ![q] = life[p]]
  /\ UNCHANGED <<flock, step, own>>

CoreDiscarded(q) == handles[q] = {} /\ readers[q] = {} /\ writer[q] = NoWriter

\* _database_lifecycle._after_fork: close the registered handles, forget every
\* registry. An inherited lease object is refused by its pid from here on.
CoreAfterFork(q) ==
  /\ q \in hook /\ ~CoreDiscarded(q)
  /\ CloseDescriptors(q, handles[q])
  /\ readers' = [readers EXCEPT ![q] = {}]
  /\ writer' = [writer EXCEPT ![q] = NoWriter]
  /\ handles' = [handles EXCEPT ![q] = {}]
  /\ UNCHANGED <<procVars, step, own>>

\* Fault: the child goes on under its parent's lease without one of its own.
ContinueUnleased(q, t) ==
  /\ q \in hook /\ CoreDiscarded(q) /\ life[q] = t
  /\ hook' = hook \ {q}
  /\ UNCHANGED <<alive, born, life, kernelVars, step, own, registryVars>>

\* _locking._after_fork: the child of a leased runtime takes its own shared
\* lease before any other Python code runs ...
Rejoin(q, t) ==
  /\ q \in hook /\ CoreDiscarded(q) /\ life[q] = t
  /\ \E h \in Handle :
       /\ refs[h] = {} /\ ~SharedConflict(h)
       /\ refs' = [refs EXCEPT ![h] = {q}]
       /\ flock' = [flock EXCEPT ![h] = "sh"]
       /\ own' = [own EXCEPT ![q][t] = h]
       /\ handles' = [handles EXCEPT ![q] = {h}]
  /\ readers' = [readers EXCEPT ![q] = {t}]
  /\ step' = [step EXCEPT ![q][t] = "sh"]
  /\ hook' = hook \ {q}
  /\ UNCHANGED <<alive, born, life, writer>>

\* ... and a child of a process without one simply continues.
NoLeaseToRejoin(q) ==
  /\ q \in hook /\ CoreDiscarded(q) /\ life[q] = None
  /\ hook' = hook \ {q}
  /\ UNCHANGED <<alive, born, life, kernelVars, step, own, registryVars>>

\* Exit, crash, or os._exit(74) of a child that could not rejoin: the kernel
\* closes every descriptor of the process.
Exit(p) ==
  /\ p \in alive
  /\ alive' = alive \ {p} /\ hook' = hook \ {p}
  /\ CloseDescriptors(p, Handle)
  /\ step' = [step EXCEPT ![p] = [t \in Thread |-> "idle"]]
  /\ own' = [own EXCEPT ![p] = [t \in Thread |-> None]]
  /\ readers' = [readers EXCEPT ![p] = {}]
  /\ writer' = [writer EXCEPT ![p] = NoWriter]
  /\ handles' = [handles EXCEPT ![p] = {}]
  /\ life' = [life EXCEPT ![p] = None]
  /\ UNCHANGED born

RuntimeStep(p, t) ==
  \/ OpenRuntime(p, t) \/ RefuseRuntime(p, t) \/ RegisterRuntime(p, t) \/ AcquireRuntime(p, t)
  \/ RuntimeBusy(p, t) \/ ReleaseRuntime(p, t) \/ KeepForLife(p, t)
  \/ ShutdownLease(p, t)

ExclusiveStep(p, t) ==
  \/ OpenExclusive(p, t) \/ RefuseExclusive(p, t) \/ RegisterExclusive(p, t) \/ AcquireExclusive(p, t)
  \/ ExclusiveBusy(p, t) \/ Reenter(p, t) \/ LeaveInner(p, t) \/ ReleaseExclusive(p, t)

Next ==
  \/ \E p \in Proc, t \in Thread :
       RuntimeStep(p, t) \/ ExclusiveStep(p, t) \/ NativeClose(p, t) \/ Rejoin(p, t)
  \/ \E p \in Proc : Start(p) \/ CoreAfterFork(p) \/ NoLeaseToRejoin(p) \/ Exit(p)
  \/ \E p, q \in Proc : Fork(p, q)

Spec == Init /\ [][Next]_vars

-----------------------------------------------------------------------------
(* Properties. *)

TypeOK ==
  /\ alive \subseteq born /\ born \subseteq Proc /\ hook \subseteq alive
  /\ flock \in [Handle -> {"none", "sh", "ex"}]
  /\ refs \in [Handle -> SUBSET Proc]
  /\ step \in [Proc -> [Thread -> Steps]]
  /\ own \in [Proc -> [Thread -> Handle \cup {None}]]
  /\ readers \in [Proc -> SUBSET Thread]
  /\ writer \in [Proc -> [thread : Thread \cup {None}, lease : BOOLEAN, depth : 0 .. MaxDepth]]
  /\ handles \in [Proc -> SUBSET Handle]
  /\ life \in [Proc -> Thread \cup {None}]

\* What RuntimeLease.check and ExclusiveLease.assert_held accept of a scope
\* whose lease was handed out.
HoldsShared(p, t) == Running(p) /\ step[p][t] = "sh" /\ t \in readers[p]
HoldsExclusive(p, t) == Running(p) /\ writer[p].lease /\ writer[p].thread = t

\* While a thread passes ExclusiveLease.assert_held, no other thread of any
\* process passes assert_held or RuntimeLease.check, whatever was forked,
\* crashed or released meanwhile.
Exclusion ==
  \A p, q \in Proc, t, u \in Thread :
    HoldsExclusive(p, t) /\ (HoldsExclusive(q, u) \/ HoldsShared(q, u))
      => p = q /\ t = u /\ ~HoldsShared(q, u)

\* A process that keeps a lifetime lease (_LEASES), a forked child included,
\* holds the kernel's shared lock through a descriptor of its own whenever its
\* Python code runs.
LifetimeCovered ==
  \A p \in Proc : Running(p) /\ life[p] # None =>
    LET t == life[p] IN
      /\ HoldsShared(p, t)
      /\ flock[own[p][t]] = "sh" /\ p \in refs[own[p][t]]

\* _locking._after_fork: "The core discarded inherited handles/authority in its
\* earlier callback": once the fork callbacks are done a child keeps no locked
\* descriptor of the lock file that none of its own scopes opened. The code
\* does not keep this: see the README.
InheritedHandlesDiscarded ==
  \A p \in Proc, h \in Handle :
    Running(p) /\ p \in refs[h] /\ flock[h] # "none"
      => \E t \in Thread : own[p][t] = h

-----------------------------------------------------------------------------
(* The inductive invariant behind Exclusion and LifetimeCovered. *)

\* A thread has a description exactly while it is inside an acquire scope, its
\* process has a descriptor on it, and no two scopes share one.
OwnsItsDescription ==
  /\ \A p \in Proc, t \in Thread : own[p][t] = None <=> step[p][t] = "idle"
  /\ \A p \in Proc, t \in Thread : own[p][t] # None => p \in refs[own[p][t]]
  /\ \A p, q \in Proc, t, u \in Thread :
       own[p][t] # None /\ own[p][t] = own[q][u] => p = q /\ t = u

\* The kernel: a lock lives on an open description, and an exclusive one is alone.
KernelExclusion ==
  /\ \A h \in Handle : flock[h] # "none" => refs[h] # {}
  /\ \A g, h \in Handle : g # h /\ flock[g] = "ex" => flock[h] = "none"

\* A scope that was handed a lease carries its lock.
LeaseBacked ==
  \A p \in Proc, t \in Thread :
    /\ step[p][t] = "sh" => flock[own[p][t]] = "sh"
    /\ step[p][t] = "ex" => flock[own[p][t]] = "ex"

\* The registries agree with where the threads are, outside the fork callbacks.
RegistriesAgree ==
  /\ \A p \in Proc, t \in Thread :
       /\ step[p][t] \in {"shwait", "sh"} => t \in readers[p]
       /\ step[p][t] = "exwait" => writer[p].thread = t /\ ~writer[p].lease
       /\ step[p][t] = "ex" => writer[p].thread = t
       /\ p \notin hook /\ writer[p].lease /\ writer[p].thread = t => step[p][t] = "ex"
  /\ \A p \in Proc : Running(p) /\ life[p] # None =>
       step[p][life[p]] = "sh"

\* A process that does not run yet, or runs its fork callbacks, is in no scope.
QuietOutside ==
  /\ \A p \in Proc, t \in Thread : p \notin alive \/ p \in hook => step[p][t] = "idle"
  /\ \A p \in Proc : p \notin alive => life[p] = None

IInv == TypeOK /\ OwnsItsDescription /\ KernelExclusion /\ LeaseBacked /\ RegistriesAgree /\ QuietOutside
=============================================================================
