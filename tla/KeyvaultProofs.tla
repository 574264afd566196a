--------------------------- MODULE KeyvaultProofs ----------------------------
(***************************************************************************)
(* The keyvault: the commits of its vault (VaultCommit) and its staged     *)
(* erasure (KeyvaultReset).                                                *)
(*                                                                         *)
(* Readable generations and kept keys, for any number of processes, files, *)
(* keys, generations and failures: VInv is inductive, one lemma per action *)
(* and one step per conjunct. A step of an operation is described by the   *)
(* stage it goes on with (Onto); most steps touch no disk (Quiet).         *)
(*                                                                         *)
(* What a reset erases, and what it may touch, for any sets of keys and    *)
(* files and any number of deaths and changes by hand: KInv is inductive.  *)
(* A journal is right about what it claims to be done, and each step knows *)
(* what the check before it has seen.                                      *)
(***************************************************************************)
EXTENDS VaultCommit, KeyvaultReset, FiniteSetTheorems, TLAPS

USE DEF ghosts, Held, Relapses

-----------------------------------------------------------------------------
(* The steps of an operation.                                               *)

LEMMA Plans ==
  /\ Stage(<<>>) = "free"
  /\ Stage(<<"load", "register">>) = "load"
  /\ Stage(<<"register">>) = "register"
  /\ Stage(<<"rotate">>) = "rotate"
  /\ Stage(<<"protect">>) = "protect"
  /\ Stage(<<"blob", "manifest", "anchor", "gc">>) = "fill"
  /\ Stage(<<"manifest", "anchor", "gc">>) = "enrol"
  /\ Stage(<<"manifest", "sidecar", "anchor", "gc">>) = "recover"
  /\ Stage(<<"sidecar", "anchor", "gc">>) = "rewrap"
  /\ Stage(<<"sidecar", "manifest", "anchor", "end">>) = "seal"
  /\ Stage(<<"manifest", "anchor", "end">>) = "found"
  /\ Stage(<<"anchor", "gc">>) = "flip"
  /\ Stage(<<"anchor", "end">>) = "flip"
  /\ Stage(<<"gc">>) = "close"
  /\ Stage(<<"end">>) = "close"
BY DEF Stage, Stages

LEMMA StepsAre ==
  Steps = {<<>>, <<"load", "register">>, <<"register">>, <<"rotate">>, <<"protect">>,
           <<"blob", "manifest", "anchor", "gc">>, <<"manifest", "anchor", "gc">>,
           <<"manifest", "sidecar", "anchor", "gc">>, <<"sidecar", "anchor", "gc">>,
           <<"sidecar", "manifest", "anchor", "end">>, <<"manifest", "anchor", "end">>,
           <<"anchor", "gc">>, <<"anchor", "end">>, <<"gc">>, <<"end">>}
BY DEF Steps, Stages

\* What is left after a step, and which operation it was a step of.
LEMMA StepsLeft ==
  ASSUME NEW s \in Steps, NEW h, s # <<>>, h = Head(s)
  PROVE  /\ h = "load" => Stage(s) = "load"
         /\ h = "register" => Stage(s) = "register"
         /\ h = "rotate" => Stage(s) = "rotate"
         /\ h = "protect" => Stage(s) = "protect"
         /\ h \in {"gc", "end"} => Stage(s) = "close"
         /\ h = "blob" => Stage(s) = "fill" /\ Tail(s) \in Steps /\ Stage(Tail(s)) = "enrol"
         /\ h = "manifest" => /\ Tail(s) \in Steps
                              /\ \/ Stage(s) \in {"enrol", "found"} /\ Stage(Tail(s)) = "flip"
                                 \/ Stage(s) = "recover" /\ Stage(Tail(s)) = "rewrap"
         /\ h = "sidecar" => /\ Tail(s) \in Steps
                             /\ \/ Stage(s) = "rewrap" /\ Stage(Tail(s)) = "flip"
                                \/ Stage(s) = "seal" /\ Stage(Tail(s)) = "found"
         /\ h = "anchor" => Stage(s) = "flip" /\ Tail(s) \in Steps /\ Stage(Tail(s)) = "close"
<1>1. CASE s = <<"blob", "manifest", "anchor", "gc">>
  <2>1. h = "blob" /\ Tail(s) = <<"manifest", "anchor", "gc">>  BY <1>1
  <2> QED  BY <1>1, <2>1, Plans, StepsAre
<1>2. CASE s = <<"manifest", "anchor", "gc">>
  <2>1. h = "manifest" /\ Tail(s) = <<"anchor", "gc">>  BY <1>2
  <2> QED  BY <1>2, <2>1, Plans, StepsAre
<1>3. CASE s = <<"manifest", "sidecar", "anchor", "gc">>
  <2>1. h = "manifest" /\ Tail(s) = <<"sidecar", "anchor", "gc">>  BY <1>3
  <2> QED  BY <1>3, <2>1, Plans, StepsAre
<1>4. CASE s = <<"sidecar", "anchor", "gc">>
  <2>1. h = "sidecar" /\ Tail(s) = <<"anchor", "gc">>  BY <1>4
  <2> QED  BY <1>4, <2>1, Plans, StepsAre
<1>5. CASE s = <<"sidecar", "manifest", "anchor", "end">>
  <2>1. h = "sidecar" /\ Tail(s) = <<"manifest", "anchor", "end">>  BY <1>5
  <2> QED  BY <1>5, <2>1, Plans, StepsAre
<1>6. CASE s = <<"manifest", "anchor", "end">>
  <2>1. h = "manifest" /\ Tail(s) = <<"anchor", "end">>  BY <1>6
  <2> QED  BY <1>6, <2>1, Plans, StepsAre
<1>7. CASE s = <<"anchor", "gc">>
  <2>1. h = "anchor" /\ Tail(s) = <<"gc">>  BY <1>7
  <2> QED  BY <1>7, <2>1, Plans, StepsAre
<1>8. CASE s = <<"anchor", "end">>
  <2>1. h = "anchor" /\ Tail(s) = <<"end">>  BY <1>8
  <2> QED  BY <1>8, <2>1, Plans, StepsAre
<1>9. CASE s \in {<<"load", "register">>, <<"register">>, <<"rotate">>, <<"protect">>,
                  <<"gc">>, <<"end">>}
  <2>1. \/ (s = <<"load", "register">> /\ h = "load")
        \/ (s = <<"register">> /\ h = "register")
        \/ (s = <<"rotate">> /\ h = "rotate")
        \/ (s = <<"protect">> /\ h = "protect")
        \/ (s = <<"gc">> /\ h = "gc")
        \/ (s = <<"end">> /\ h = "end")
    BY <1>9
  <2> QED  BY <2>1, Plans
<1> QED
  BY <1>1, <1>2, <1>3, <1>4, <1>5, <1>6, <1>7, <1>8, <1>9, StepsAre

LEMMA FreeStage == \A s \in Steps : s = <<>> <=> Stage(s) = "free"
BY Plans, StepsAre

\* An operation goes on: with stage s, on m.
Onto(p, s, m) ==
  /\ op' \in [Proc -> Works] /\ Stage(op'[p].todo) = s /\ op'[p].on = m
  /\ \A q \in Proc \ {p} : op'[q] = op[q]

LEMMA StartsOnto ==
  ASSUME Operations, NEW p \in Proc, NEW steps \in Steps, NEW m \in Manifest \cup Pins \cup {None},
         Starts(p, steps, m)
  PROVE  Onto(p, Stage(steps), m)
BY DEF Starts, Operations, Onto, Works

LEMMA EndsOnto ==
  ASSUME Operations, NEW p \in Proc, Ends(p)
  PROVE  Onto(p, "free", None)
<1>1. Idle \in Works /\ Stage(Idle.todo) = "free" /\ Idle.on = None
  BY Plans, StepsAre DEF Works, Idle
<1> QED  BY <1>1 DEF Ends, Operations, Onto

LEMMA ProceedsOnto ==
  ASSUME Operations, NEW p \in Proc, NEW h, At(p, h)
  PROVE  /\ h = "blob" => Doing(p, {"fill"}) /\ (Proceeds(p) => Onto(p, "enrol", op[p].on))
         /\ h = "manifest" /\ Proceeds(p) =>
              \/ Doing(p, {"enrol", "found"}) /\ Onto(p, "flip", op[p].on)
              \/ Doing(p, {"recover"}) /\ Onto(p, "rewrap", op[p].on)
         /\ h = "sidecar" /\ Proceeds(p) =>
              \/ Doing(p, {"rewrap"}) /\ Onto(p, "flip", op[p].on)
              \/ Doing(p, {"seal"}) /\ Onto(p, "found", op[p].on)
         /\ h = "anchor" => Doing(p, {"flip"}) /\ (Proceeds(p) => Onto(p, "close", op[p].on))
         /\ h \in {"gc", "end"} => Doing(p, {"close"})
         /\ h \in {"load", "register", "rotate", "protect"} => Doing(p, {h})
<1>1. /\ op[p].todo \in Steps /\ op[p].todo # <<>> /\ Head(op[p].todo) = h
      /\ op[p] \in Works /\ op \in [Proc -> Works]
  BY DEF Operations, At, Free, Step1, Works
<1>2. ASSUME Proceeds(p), Tail(op[p].todo) \in Steps
      PROVE  Onto(p, Stage(Tail(op[p].todo)), op[p].on)
  BY <1>1, <1>2 DEF Proceeds, Onto, Works
<1> QED  BY <1>1, <1>2, StepsLeft DEF Doing

LEMMA FreeMeans == ASSUME Operations, NEW p \in Proc PROVE Free(p) <=> Doing(p, {"free"})
BY FreeStage DEF Free, Doing, Operations, Works

\* There is one writer.
LEMMA OneWriter ==
  ASSUME Excluded, TypeOK, NEW p \in Proc, lock \in {p, None}
  PROVE  \A q \in Proc \ {p} : ~Doing(q, Writing)
BY NoneAssumption DEF Excluded, TypeOK

LEMMA NoWriter ==
  ASSUME Excluded, lock = None
  PROVE  \A q \in Proc : ~Doing(q, Writing)
BY NoneAssumption DEF Excluded

-----------------------------------------------------------------------------
(* Manifests.                                                               *)

LEMMA OnDiskAre ==
  ASSUME TypeOK, Generations
  PROVE  /\ \A n \in OnDisk : n \in Manifest /\ manifests[n.gen] = n /\ n # None /\ n.wmk <= keys
         /\ \A g \in 0..MaxGen : manifests[g] # None => manifests[g] \in OnDisk
<1>1. \A g \in 0..MaxGen : manifests[g] \in Manifest \cup {None}
  BY DEF TypeOK
<1> QED  BY <1>1 DEF Generations, OnDisk

LEMMA Fields ==
  ASSUME NEW m \in Manifest
  PROVE  /\ m # None /\ m.gen \in 0..MaxGen /\ m.gen \in Nat /\ m.wmk \in 1..MaxKey
         /\ m.wmk \in Nat /\ m.wmk # None
         /\ m.files \in [File -> 0..MaxBlob] /\ m.key \in 0..MaxBlob /\ m.key # None
         /\ Pin(m) \in Pins
BY NoneAssumption, BoundAssumption DEF Manifest, Pin, Pins

LEMMA PinFields ==
  ASSUME NEW a \in Pins
  PROVE  a # None /\ a.gen \in 0..MaxGen /\ a.wmk \in 1..MaxKey
BY NoneAssumption DEF Pins

LEMMA SamePin ==
  ASSUME NEW m \in Manifest, NEW n \in Manifest, Pin(m) = [wmk |-> n.wmk, gen |-> n.gen]
  PROVE  m.gen = n.gen /\ m.wmk = n.wmk
<1>1. Pin(m).gen = m.gen /\ Pin(m).wmk = m.wmk
  BY DEF Pin
<1> QED  BY <1>1

LEMMA NoChange ==
  ASSUME NEW m \in Manifest
  PROVE  OneChange(m, m)
<1>1. m.files \in [File -> 0..MaxBlob] /\ m.files[Env] \in 0..MaxBlob
  BY Fields, EnvAssumption
<1>2. m.files = [m.files EXCEPT ![Env] = m.files[Env]]
  BY <1>1
<1> QED  BY <1>1, <1>2, EnvAssumption DEF OneChange

LEMMA SameFiles ==
  ASSUME NEW m, NEW n, NEW l, n.files = l.files
  PROVE  OneChange(m, n) <=> OneChange(m, l)
BY DEF OneChange

LEMMA SameUse == ASSUME NEW m, NEW n, n.files = m.files PROVE Used(n) = Used(m)
BY DEF Used

LEMMA UsesNothing ==
  ASSUME NEW m, m.files = [f \in File |-> Nothing]
  PROVE  Used(m) = {}
BY DEF Used

LEMMA SuccessorIs ==
  ASSUME NEW m \in Manifest, m.gen < MaxGen, NEW f \in File, NEW b \in 0..MaxBlob,
         NEW k \in 0..MaxBlob
  PROVE  LET n == Successor(m, f, b, k) IN
           /\ n \in Manifest /\ n.gen = m.gen + 1 /\ n.wmk = m.wmk /\ n.key = k
           /\ OneChange(m, n) /\ Used(n) \subseteq Used(m) \cup ({b} \ {Nothing})
<1> DEFINE n == Successor(m, f, b, k)
<1>1. m.gen + 1 \in 0..MaxGen /\ m.wmk \in 1..MaxKey /\ m.files \in [File -> 0..MaxBlob]
  BY Fields, BoundAssumption
<1>2. [m.files EXCEPT ![f] = b] \in [File -> 0..MaxBlob]
  BY <1>1
<1>3. /\ n.gen = m.gen + 1 /\ n.wmk = m.wmk /\ n.key = k /\ n.files = [m.files EXCEPT ![f] = b]
      /\ n \in Manifest
  BY <1>1, <1>2 DEF Successor, Manifest
<1> HIDE DEF n
<1>4. OneChange(m, n)
  BY <1>3 DEF OneChange
<1>5. Used(n) \subseteq Used(m) \cup ({b} \ {Nothing})
  BY <1>1, <1>3 DEF Used
<1> QED  BY <1>3, <1>4, <1>5 DEF n

\* What the passphrase finds.
LEMMA MatchedIs ==
  ASSUME TypeOK, Operations, Generations, Certifies, Certified # {}
  PROVE  /\ Matched \in Certified /\ \A n \in Certified : n.gen <= Matched.gen
         /\ Matched \in Manifest /\ (Held(Matched) \/ overtaken)
         /\ committed = None => Matched.files = [f \in File |-> Nothing]
         /\ committed # None => /\ Matched.gen >= committed.gen
                                /\ OneChange(committed, Matched) \/ overtaken
<1> DEFINE Newest(m) == m \in Certified /\ \A n \in Certified : n.gen <= m.gen
<1>1. \A n \in Certified : /\ n \in OnDisk /\ n \in Manifest /\ n.gen \in Nat
                           /\ manifests[n.gen] = n /\ n.wmk = sidecar
  BY OnDiskAre, Fields DEF Certified
<1>2. \A m : Newest(m) => Newest(Matched)
  BY DEF Matched
<1>3. ASSUME NEW m \in Certified, \A n \in Certified : n = m PROVE Newest(m)
  BY <1>1, <1>3
<1>7. CASE overtaken
  <2>1. /\ committed # None /\ committed.gen \in Nat
        /\ \A m, n \in Certified : m.gen > committed.gen /\ m = n
    BY <1>7, Fields DEF Generations, Certifies, TypeOK
  <2>2. Newest(Matched)
    BY <1>2, <1>3, <2>1
  <2> QED  BY <1>1, <1>7, <2>1, <2>2
<1>4. CASE committed = None
  <2>1. PICK m \in Certified : TRUE
    OBVIOUS
  <2>2. Newest(Matched)
    BY <1>2, <1>3, <1>4, <2>1 DEF Certifies
  <2>3. Matched \in Manifest /\ Matched.files = [f \in File |-> Nothing]
    BY <1>1, <1>4, <2>2 DEF Generations
  <2> QED  BY <1>4, <2>2, <2>3, UsesNothing
<1>5. CASE ~overtaken /\ committed # None /\ sidecar = committed.wmk
  <2>1. committed \in Manifest /\ committed.gen \in 0..MaxGen
    BY <1>5, Fields DEF TypeOK
  <2>2. committed \in Certified /\ Held(committed)
    BY <1>5, <2>1, OnDiskAre DEF Generations, Certified
  <2>3. \A n \in Certified : n.gen <= committed.gen \/ Beyond(n)
    BY <1>1, <1>5 DEF Generations
  <2>4. CASE \E n \in Certified : Beyond(n)
    <3>1. PICK n \in Certified : Beyond(n)
      BY <2>4
    <3>2. Newest(n)
      BY <1>1, <2>1, <2>3, <3>1 DEF Beyond
    <3>3. Newest(Matched)
      BY <1>2, <3>2
    <3>4. Matched = n
      BY <1>1, <3>1, <3>2, <3>3
    <3> QED  BY <1>1, <1>5, <2>1, <3>1, <3>3, <3>4 DEF Beyond
  <2>5. CASE ~ \E n \in Certified : Beyond(n)
    <3>1. Newest(committed)
      BY <2>2, <2>3, <2>5
    <3>2. Newest(Matched)
      BY <1>2, <3>1
    <3>3. Matched = committed
      BY <1>1, <3>1, <3>2
    <3> QED  BY <1>5, <2>1, <2>2, <3>2, <3>3, NoChange
  <2> QED  BY <2>4, <2>5
<1>6. CASE ~overtaken /\ committed # None /\ sidecar # committed.wmk
  <2>1. PICK m \in Certified : /\ m.gen > committed.gen /\ Held(m)
                               /\ OneChange(committed, m) /\ \A n \in Certified : n = m
    BY <1>6 DEF Certifies
  <2>2. Newest(Matched)
    BY <1>2, <1>3, <2>1
  <2>3. Matched = m /\ committed.gen \in Nat /\ committed \in Manifest
    BY <1>6, <2>1, <2>2, Fields DEF TypeOK
  <2> QED  BY <1>1, <1>6, <2>1, <2>2, <2>3
<1> QED  BY <1>4, <1>5, <1>6, <1>7

\* What a write adds to the disk, and what garbage collection takes.
LEMMA AfterWrite ==
  ASSUME TypeOK, Operations, Generations, NEW m \in Manifest,
         manifests' = [manifests EXCEPT ![m.gen] = m]
  PROVE  /\ \A n : n \in OnDisk' <=> n = m \/ (n \in OnDisk /\ n.gen # m.gen)
         /\ \A g \in 0..MaxGen : manifests'[g] = IF g = m.gen THEN m ELSE manifests[g]
         /\ manifests' \in [0..MaxGen -> Manifest \cup {None}]
<1>1. m \in Manifest /\ m # None /\ m.gen \in 0..MaxGen
  BY Fields
<1>2. manifests \in [0..MaxGen -> Manifest \cup {None}]
  BY DEF TypeOK
<1>3. \A g \in 0..MaxGen : manifests'[g] = IF g = m.gen THEN m ELSE manifests[g]
  BY <1>1, <1>2
<1>4. \A n \in OnDisk : n.gen \in 0..MaxGen /\ manifests[n.gen] = n /\ n # None
  BY OnDiskAre, Fields
<1>5. \A n : n \in OnDisk' <=> n # None /\ \E g \in 0..MaxGen : manifests'[g] = n
  BY DEF OnDisk
<1>6. \A g \in 0..MaxGen : manifests[g] # None => manifests[g] \in OnDisk /\ manifests[g].gen = g
  BY DEF OnDisk, Generations
<1>7. \A n : n = m \/ (n \in OnDisk /\ n.gen # m.gen) => n \in OnDisk'
  BY <1>1, <1>3, <1>4, <1>5
<1>8. \A n : n \in OnDisk' => n = m \/ (n \in OnDisk /\ n.gen # m.gen)
  BY <1>1, <1>3, <1>5, <1>6
<1>9. manifests' \in [0..MaxGen -> Manifest \cup {None}]
  BY <1>1, <1>2
<1> QED  BY <1>3, <1>7, <1>8, <1>9

LEMMA AfterRemoval ==
  ASSUME TypeOK, Operations, Generations, NEW m \in Manifest,
         manifests' = manifests \/ manifests' = [manifests EXCEPT ![m.gen - 1] = None]
  PROVE  /\ OnDisk' \subseteq OnDisk
         /\ \A g \in 0..MaxGen : manifests'[g] = manifests[g] \/ manifests'[g] = None
         /\ manifests'[m.gen] = manifests[m.gen]
         /\ manifests' \in [0..MaxGen -> Manifest \cup {None}]
<1>1. m.gen \in 0..MaxGen /\ m.gen - 1 # m.gen
  BY Fields
<1>2. manifests \in [0..MaxGen -> Manifest \cup {None}]
  BY DEF TypeOK
<1>3. /\ \A g \in 0..MaxGen : manifests'[g] = manifests[g] \/ manifests'[g] = None
      /\ manifests'[m.gen] = manifests[m.gen]
      /\ manifests' \in [0..MaxGen -> Manifest \cup {None}]
  BY <1>1, <1>2
<1>4. OnDisk' \subseteq OnDisk
  BY <1>3 DEF OnDisk
<1> QED  BY <1>3, <1>4

\* A step of a process that does not write: nobody's disk changes, and no writer's work.
Quiet ==
  /\ UNCHANGED <<manifests, blobs, sidecar, keys, committed, overtaken, lost>>
  /\ anchor' = anchor \/ anchor' = None
  /\ committed = None => dep' = None
  /\ \A q \in Proc : Doing(q, Writing)' => /\ op'[q] = op[q] /\ handle'[q] = handle[q]
                                           /\ anchor' = anchor

LEMMA QuietDisk == ASSUME Quiet PROVE OnDisk' = OnDisk /\ Certified' = Certified
BY DEF Quiet, OnDisk, Certified

LEMMA QuietKeeps ==
  ASSUME TypeOK, Generations, Certifies, Enrolling, Recovering, Founding, Flipping, Closing, Quiet
  PROVE  /\ Generations' /\ Certifies' /\ Enrolling' /\ Recovering'
         /\ Founding' /\ Flipping' /\ Closing'
<1>1. UNCHANGED <<manifests, blobs, sidecar, keys, committed, overtaken, lost, OnDisk, Certified>>
  BY QuietDisk DEF Quiet
<1>2. \A q \in Proc : Doing(q, Writing)' =>
        op'[q] = op[q] /\ handle'[q] = handle[q] /\ anchor' = anchor
  BY DEF Quiet
<1>3. Generations'
  BY <1>1 DEF Quiet, Generations, Beyond
<1>4. Certifies'
  BY <1>1 DEF Certifies
<1>5. Enrolling'
  BY <1>1, <1>2 DEF Enrolling, Doing, Writing
<1>6. Recovering'
  BY <1>1, <1>2 DEF Recovering, Doing, Writing
<1>7. Founding'
  BY <1>1, <1>2 DEF Founding, Doing, Writing
<1>8. Flipping'
  BY <1>1, <1>2 DEF Flipping, Doing, Writing, Written
<1>9. Closing'
  BY <1>1, <1>2 DEF Closing, Doing, Writing, Written
<1> QED  BY <1>3, <1>4, <1>5, <1>6, <1>7, <1>8, <1>9

\* A current handle is the committed generation.
LEMMA CurrentIs ==
  ASSUME TypeOK, Generations, NEW p \in Proc, handle[p] # None, handle[p].gen < MaxGen, Current(p)
  PROVE  /\ handle[p] = committed /\ committed # None /\ anchor # None
         /\ committed \in Manifest /\ committed.gen < MaxGen
<1>1. /\ handle[p] \in Manifest /\ anchor = Pin(handle[p])
      /\ manifests[handle[p].gen] = handle[p]
  BY DEF TypeOK, Current, Pin
<1>2. anchor # None
  BY <1>1, Fields, PinFields
<1>3. /\ committed # None /\ committed \in Manifest /\ anchor = Pin(committed)
      /\ manifests[committed.gen] = committed
  BY <1>1, <1>2 DEF Generations, TypeOK
<1>4. committed.gen = handle[p].gen
  BY <1>1, <1>3 DEF Pin
<1> QED  BY <1>1, <1>2, <1>3, <1>4

\* A vault without manifests was never committed.
LEMMA NoneOnDisk ==
  ASSUME TypeOK, Generations, OnDisk = {}
  PROVE  committed = None
<1> SUFFICES ASSUME committed # None PROVE FALSE
  OBVIOUS
<1>1. committed \in Manifest /\ manifests[committed.gen] = committed /\ committed.gen \in 0..MaxGen
  BY Fields DEF TypeOK, Generations
<1> QED  BY <1>1, Fields DEF OnDisk

LEMMA FirstManifest ==
  ASSUME NEW k \in 1..MaxKey
  PROVE  LET m == [gen |-> 0, wmk |-> k, files |-> [f \in File |-> Nothing], key |-> Nothing]
         IN  m \in Manifest
BY BoundAssumption DEF Manifest, Nothing

LEMMA Rewrapped ==
  ASSUME NEW m \in Manifest, m.gen < MaxGen, NEW k \in 1..MaxKey
  PROVE  LET n == [m EXCEPT !.gen = @ + 1, !.wmk = k]
         IN  /\ n \in Manifest /\ n.gen = m.gen + 1 /\ n.wmk = k
             /\ n.files = m.files /\ n.key = m.key
<1>1. m.gen + 1 \in 0..MaxGen /\ m.files \in [File -> 0..MaxBlob] /\ m.key \in 0..MaxBlob
  BY Fields, BoundAssumption
<1> QED  BY <1>1 DEF Manifest

LEMMA EnrollStarts ==
  ASSUME Operations, NEW p \in Proc, NEW f \in File, handle[p] = committed, committed \in Manifest,
         committed.gen < MaxGen, NEW b \in 0..MaxBlob, NEW k \in {committed.key, b},
         Commits(p, <<"blob", "manifest", "anchor", "gc">>, Successor(handle[p], f, b, k))
  PROVE  /\ Onto(p, "fill", op'[p].on)
         /\ op'[p].on \in Manifest /\ op'[p].on.gen = committed.gen + 1
         /\ op'[p].on.wmk = committed.wmk
      /\ OneChange(committed, op'[p].on)
         /\ \/ (lease' = lease /\ op'[p].on.key = committed.key)
            \/ (lease = None /\ dep = None /\ lease' = p)
<1> DEFINE n == Successor(handle[p], f, b, k)
<1>1. k \in 0..MaxBlob
  BY Fields
<1>2. /\ n \in Manifest /\ n.gen = committed.gen + 1 /\ n.wmk = committed.wmk /\ n.key = k
      /\ OneChange(committed, n)
  BY <1>1, SuccessorIs
<1>3. /\ Starts(p, <<"blob", "manifest", "anchor", "gc">>, n)
      /\ IF n.key # handle[p].key THEN LeasedGuard(p) ELSE Unleased
  BY DEF Commits
<1> HIDE DEF n
<1>4. Onto(p, "fill", n)
  BY <1>2, <1>3, StartsOnto, Plans, StepsAre
<1> QED  BY <1>2, <1>3, <1>4 DEF Onto, LeasedGuard, Unleased

LEMMA UnenrollStarts ==
  ASSUME TypeOK, Operations, Generations, NEW p \in Proc, NEW f \in File, handle[p] = committed,
         committed # None, committed \in Manifest, committed.gen < MaxGen,
         UnenrollFile(p, f)
  PROVE  /\ Onto(p, "enrol", op'[p].on)
         /\ op'[p].on \in Manifest /\ op'[p].on.gen = committed.gen + 1
         /\ op'[p].on.wmk = committed.wmk
      /\ OneChange(committed, op'[p].on)
         /\ Held(op'[p].on)
         /\ \/ (lease' = lease /\ op'[p].on.key = committed.key)
            \/ (lease = None /\ dep = None /\ lease' = p)
<1> DEFINE k == IF f = Env THEN Nothing ELSE handle[p].key
           n == Successor(handle[p], f, Nothing, k)
<1>1. k \in 0..MaxBlob /\ Nothing \in 0..MaxBlob
  BY Fields, BoundAssumption DEF Nothing
<1>2. /\ Starts(p, <<"manifest", "anchor", "gc">>, n)
      /\ IF n.key # handle[p].key THEN LeasedGuard(p) ELSE Unleased
  BY DEF UnenrollFile, Commits
<1> HIDE DEF k
<1>3. /\ n \in Manifest /\ n.gen = committed.gen + 1 /\ n.wmk = committed.wmk
      /\ OneChange(committed, n) /\ Used(n) \subseteq Used(committed) \cup ({Nothing} \ {Nothing})
  BY <1>1, SuccessorIs
<1> HIDE DEF n
<1>4. Held(n)
  BY <1>3 DEF Generations
<1>5. Onto(p, "enrol", n)
  BY <1>2, <1>3, StartsOnto, Plans, StepsAre
<1> QED  BY <1>2, <1>3, <1>4, <1>5 DEF Onto, LeasedGuard, Unleased

LEMMA BlobsUsed ==
  ASSUME NEW m \in Manifest, NEW n, Held(n), lost' = lost, blobs \subseteq Blob,
         blobs' = blobs \cup (Used(m) \ Used(n))
  PROVE  blobs \subseteq blobs' /\ blobs' \subseteq Blob /\ Used(m) \subseteq blobs' \cup lost'
<1>1. Used(m) \subseteq Blob
  BY Fields DEF Used, Blob, Nothing
<1> QED  BY <1>1

LEMMA RecoverStarts ==
  ASSUME Operations, NEW p \in Proc, Matched \in Manifest, RecoverToDevice(p)
  PROVE  /\ keys' = keys + 1 /\ keys' \in 1..MaxKey
         /\ Onto(p, "recover", op'[p].on) /\ op'[p].on \in Manifest /\ op'[p].on.wmk = keys'
         /\ op'[p].on.gen = Matched.gen + 1 /\ op'[p].on.files = Matched.files
<1> DEFINE n == [Matched EXCEPT !.gen = @ + 1, !.wmk = keys']
<1>1. keys' = keys + 1 /\ keys' \in 1..MaxKey /\ Matched.gen < MaxGen
  BY BoundAssumption DEF RecoverToDevice, Operations
<1>2. Starts(p, <<"manifest", "sidecar", "anchor", "gc">>, n)
  BY DEF RecoverToDevice
<1>3. n \in Manifest /\ n.gen = Matched.gen + 1 /\ n.wmk = keys' /\ n.files = Matched.files
  BY <1>1, Rewrapped
<1> HIDE DEF n
<1>4. Onto(p, "recover", n)
  BY <1>2, <1>3, StartsOnto, Plans, StepsAre
<1> QED  BY <1>1, <1>3, <1>4 DEF Onto

\* A new wmk is one that nothing on disk bears.
LEMMA NewWmk ==
  ASSUME TypeOK, Operations, Generations, Certifies, keys' = keys + 1
  PROVE  /\ \A n \in OnDisk : n.wmk <= keys' /\ n.wmk # keys'
         /\ \A g \in 0..MaxGen : manifests[g] # None => manifests[g].wmk <= keys'
         /\ sidecar # None => sidecar <= keys' /\ sidecar # keys'
         /\ committed # None => committed.wmk # keys'
<1>1. keys \in Nat
  BY BoundAssumption DEF Operations
<1>2. \A n \in OnDisk : n.wmk <= keys /\ n.wmk \in Nat
  BY OnDiskAre, Fields
<1>3. \A g \in 0..MaxGen : manifests[g] # None => manifests[g] \in OnDisk
  BY OnDiskAre
<1>4. sidecar # None => sidecar <= keys /\ sidecar \in Nat
  BY DEF Certifies, TypeOK
<1>5. committed # None => committed \in OnDisk
  <2>1. committed # None => committed.gen \in 0..MaxGen /\ manifests[committed.gen] = committed
    BY Fields DEF TypeOK, Generations
  <2> QED  BY <1>3, <2>1
<1> QED  BY <1>1, <1>2, <1>3, <1>4, <1>5

-----------------------------------------------------------------------------
(* The actions.                                                             *)

\* open reads the anchor.
LEMMA ReadAnchorKeeps ==
  ASSUME VInv, NEW p \in Proc, ReadAnchor(p)
  PROVE  VInv'
<1>0. /\ TypeOK /\ Operations /\ Excluded /\ Generations /\ Certifies /\ Enrolling /\ Recovering
      /\ Founding /\ Flipping /\ Closing /\ KeyGuarded /\ KeyKept
  BY DEF VInv
<1>1. Doing(p, {"free"})
  BY <1>0, FreeMeans DEF ReadAnchor
<1>2. anchor \in Pins
  BY <1>0 DEF ReadAnchor, TypeOK
<1>3. Onto(p, "load", anchor)
  BY <1>0, <1>2, StartsOnto, Plans, StepsAre DEF ReadAnchor
<1>4. Quiet
  BY <1>0, <1>1, <1>2, <1>3 DEF ReadAnchor, Quiet, Generations, Doing, Writing, disk, locks, counts, Onto
<1>5. /\ Generations' /\ Certifies' /\ Enrolling' /\ Recovering'
      /\ Founding' /\ Flipping' /\ Closing'
  BY <1>0, <1>4, QuietKeeps
<1>6. TypeOK'
  BY <1>0 DEF TypeOK, disk, locks, ReadAnchor
<1>7. Operations'
  BY <1>0, <1>2, <1>3 DEF Operations, Doing, Writing, Onto, counts, ReadAnchor
<1>8. Excluded'
  BY <1>0, <1>1, <1>3 DEF Excluded, Doing, Writing, Onto, locks, ReadAnchor
<1>9. KeyGuarded'
  BY <1>0, <1>3 DEF KeyGuarded, Doing, Writing, Onto, locks, ReadAnchor
<1>10. KeyKept'
  BY <1>0 DEF KeyKept, ReadAnchor
<1> QED  BY <1>5, <1>6, <1>7, <1>8, <1>9, <1>10 DEF VInv

\* open finds the pinned manifest, or gives up.
LEMMA LoadKeeps ==
  ASSUME VInv, NEW p \in Proc, Load(p)
  PROVE  VInv'
<1>0. /\ TypeOK /\ Operations /\ Excluded /\ Generations /\ Certifies /\ Enrolling /\ Recovering
      /\ Founding /\ Flipping /\ Closing /\ KeyGuarded /\ KeyKept
  BY DEF VInv
<1>1. Doing(p, {"load"})
  BY <1>0, ProceedsOnto DEF Load
<1>2. Pinned(op[p].on) => manifests[op[p].on.gen] \in Manifest
  BY <1>0, <1>1, PinFields DEF Pinned, Operations, TypeOK, Doing
<1>3. \/ Onto(p, "free", None)
      \/ Onto(p, "register", op'[p].on) /\ op'[p].on \in Manifest
  BY <1>0, <1>2, EndsOnto, StartsOnto, Plans, StepsAre DEF Load, Onto
<1>4. Quiet
  BY <1>0, <1>1, <1>2, <1>3 DEF Load, Quiet, Generations, Doing, Writing, disk, locks, counts, Onto
<1>5. /\ Generations' /\ Certifies' /\ Enrolling' /\ Recovering'
      /\ Founding' /\ Flipping' /\ Closing'
  BY <1>0, <1>4, QuietKeeps
<1>6. TypeOK'
  BY <1>0 DEF TypeOK, disk, locks, Load
<1>7. Operations'
  BY <1>0, <1>3 DEF Operations, Doing, Writing, Onto, counts, Load
<1>8. Excluded'
  BY <1>0, <1>1, <1>3 DEF Excluded, Doing, Writing, Onto, locks, Load
<1>9. KeyGuarded'
  BY <1>0, <1>3 DEF KeyGuarded, Doing, Writing, Onto, locks, Load
<1>10. KeyKept'
  BY <1>0 DEF KeyKept, Load
<1> QED  BY <1>5, <1>6, <1>7, <1>8, <1>9, <1>10 DEF VInv

\* The handle is registered if the manifest is still there.
LEMMA RegisterKeeps ==
  ASSUME VInv, NEW p \in Proc, Register(p)
  PROVE  VInv'
<1>0. /\ TypeOK /\ Operations /\ Excluded /\ Generations /\ Certifies /\ Enrolling /\ Recovering
      /\ Founding /\ Flipping /\ Closing /\ KeyGuarded /\ KeyKept
  BY DEF VInv
<1>1. Doing(p, {"register"})
  BY <1>0, ProceedsOnto DEF Register
<1>2. Onto(p, "free", None)
  BY <1>0, EndsOnto DEF Register
<1>3. handle' \in [Proc -> Manifest \cup {None}] /\ \A q \in Proc \ {p} : handle'[q] = handle[q]
  BY <1>0, <1>1 DEF Register, Operations, TypeOK, Doing
<1>4. Quiet
  BY <1>0, <1>1, <1>2, <1>3 DEF Register, Quiet, Generations, Doing, Writing, disk, locks, counts, Onto
<1>5. /\ Generations' /\ Certifies' /\ Enrolling' /\ Recovering'
      /\ Founding' /\ Flipping' /\ Closing'
  BY <1>0, <1>4, QuietKeeps
<1>6. TypeOK'
  BY <1>0, <1>3 DEF TypeOK, disk, locks, Register
<1>7. Operations'
  BY <1>0, <1>2 DEF Operations, Doing, Writing, Onto, counts, Register
<1>8. Excluded'
  BY <1>0, <1>1, <1>2 DEF Excluded, Doing, Writing, Onto, locks, Register
<1>9. KeyGuarded'
  BY <1>0, <1>2 DEF KeyGuarded, Doing, Writing, Onto, locks, Register
<1>10. KeyKept'
  BY <1>0 DEF KeyKept, Register
<1> QED  BY <1>5, <1>6, <1>7, <1>8, <1>9, <1>10 DEF VInv

\* A handle is closed.
LEMMA CloseKeeps ==
  ASSUME VInv, NEW p \in Proc, Close(p)
  PROVE  VInv'
<1>0. /\ TypeOK /\ Operations /\ Excluded /\ Generations /\ Certifies /\ Enrolling /\ Recovering
      /\ Founding /\ Flipping /\ Closing /\ KeyGuarded /\ KeyKept
  BY DEF VInv
<1>1. Doing(p, {"free"})
  BY <1>0, FreeMeans DEF Close
<1>2. handle' \in [Proc -> Manifest \cup {None}] /\ \A q \in Proc \ {p} : handle'[q] = handle[q]
  BY <1>0 DEF Close, TypeOK
<1>3. Quiet
  BY <1>0, <1>1, <1>2 DEF Close, Quiet, Generations, Doing, Writing, disk, locks, counts, Onto
<1>4. /\ Generations' /\ Certifies' /\ Enrolling' /\ Recovering'
      /\ Founding' /\ Flipping' /\ Closing'
  BY <1>0, <1>3, QuietKeeps
<1>5. TypeOK'
  BY <1>0 DEF TypeOK, disk, locks, Close
<1>6. Operations'
  BY <1>0 DEF Operations, Doing, counts, Close
<1>7. Excluded'
  BY <1>0 DEF Excluded, Doing, locks, Close
<1>8. KeyGuarded'
  BY <1>0 DEF KeyGuarded, Doing, locks, Close
<1>9. KeyKept'
  BY <1>0 DEF KeyKept, Close
<1> QED  BY <1>4, <1>5, <1>6, <1>7, <1>8, <1>9 DEF VInv

\* A rotation asks for the passphrase.
LEMMA AskRotationKeeps ==
  ASSUME VInv, NEW p \in Proc, AskRotation(p)
  PROVE  VInv'
<1>0. /\ TypeOK /\ Operations /\ Excluded /\ Generations /\ Certifies /\ Enrolling /\ Recovering
      /\ Founding /\ Flipping /\ Closing /\ KeyGuarded /\ KeyKept
  BY DEF VInv
<1>1. Doing(p, {"free"})
  BY <1>0, FreeMeans DEF AskRotation
<1>2. manifests[anchor.gen] \in Manifest
  BY <1>0, PinFields DEF AskRotation, Pinned, TypeOK
<1>3. Onto(p, "rotate", op'[p].on) /\ op'[p].on \in Manifest
  BY <1>0, <1>2, StartsOnto, Plans, StepsAre DEF AskRotation, Onto
<1>4. Quiet
  BY <1>0, <1>1, <1>2, <1>3 DEF AskRotation, Quiet, Generations, Doing, Writing, disk, locks, counts, Onto
<1>5. /\ Generations' /\ Certifies' /\ Enrolling' /\ Recovering'
      /\ Founding' /\ Flipping' /\ Closing'
  BY <1>0, <1>4, QuietKeeps
<1>6. TypeOK'
  BY <1>0 DEF TypeOK, disk, locks, AskRotation
<1>7. Operations'
  BY <1>0, <1>3 DEF Operations, Doing, Onto, counts, AskRotation
<1>8. Excluded'
  BY <1>0, <1>1, <1>3 DEF Excluded, Doing, Writing, Onto, locks, AskRotation
<1>9. KeyGuarded'
  BY <1>0, <1>3 DEF KeyGuarded, Doing, Writing, Onto, locks, AskRotation
<1>10. KeyKept'
  BY <1>0 DEF KeyKept, AskRotation
<1> QED  BY <1>5, <1>6, <1>7, <1>8, <1>9, <1>10 DEF VInv

\* A conversion reads the committed memory key under the lease.
LEMMA BeginProtectKeeps ==
  ASSUME VInv, NEW p \in Proc, BeginProtect(p)
  PROVE  VInv'
<1>0. /\ TypeOK /\ Operations /\ Excluded /\ Generations /\ Certifies /\ Enrolling /\ Recovering
      /\ Founding /\ Flipping /\ Closing /\ KeyGuarded /\ KeyKept
  BY DEF VInv
<1>1. Doing(p, {"free"})
  BY <1>0, FreeMeans DEF BeginProtect
<1>2. committed # None /\ committed \in Manifest /\ manifests[anchor.gen] = committed
  BY <1>0 DEF BeginProtect, Pinned, TypeOK, Generations, Pin
<1>3. Onto(p, "protect", committed)
  BY <1>0, <1>2, StartsOnto, Plans, StepsAre DEF BeginProtect
<1>4. Quiet
  BY <1>0, <1>1, <1>2, <1>3 DEF BeginProtect, Quiet, Generations, Doing, Writing, disk, locks, counts, Onto
<1>5. /\ Generations' /\ Certifies' /\ Enrolling' /\ Recovering'
      /\ Founding' /\ Flipping' /\ Closing'
  BY <1>0, <1>4, QuietKeeps
<1>6. TypeOK'
  BY <1>0 DEF TypeOK, disk, BeginProtect
<1>7. Operations'
  BY <1>0, <1>2, <1>3 DEF Operations, Doing, Onto, counts, BeginProtect
<1>8. Excluded'
  BY <1>0, <1>1, <1>3, NoneAssumption DEF Excluded, Doing, Writing, Onto, BeginProtect
<1>9. KeyGuarded'
  BY <1>0, <1>2, <1>3, NoneAssumption DEF KeyGuarded, Doing, Onto, BeginProtect
<1>10. KeyKept'
  BY DEF KeyKept, BeginProtect
<1> QED  BY <1>5, <1>6, <1>7, <1>8, <1>9, <1>10 DEF VInv

\* The databases depend on the key that is still the committed one.
LEMMA ProtectKeeps ==
  ASSUME VInv, NEW p \in Proc, Protect(p)
  PROVE  VInv'
<1>0. /\ TypeOK /\ Operations /\ Excluded /\ Generations /\ Certifies /\ Enrolling /\ Recovering
      /\ Founding /\ Flipping /\ Closing /\ KeyGuarded /\ KeyKept
  BY DEF VInv
<1>1. Doing(p, {"protect"})
  BY <1>0, ProceedsOnto DEF Protect
<1>2. Onto(p, "free", None)
  BY <1>0, EndsOnto DEF Protect
<1>3. /\ lease = p /\ committed # None /\ op[p].on.key = committed.key
      /\ op[p].on.key # Nothing /\ op[p].on \in Manifest
  BY <1>0, <1>1 DEF Excluded, KeyGuarded, Operations, Doing
<1>4. op[p].on.key \in Blob
  BY <1>3, Fields DEF Blob, Nothing
<1>5. lock' = lock /\ lease' = None
  BY <1>0, <1>1, <1>3 DEF Protect, Leaves, Excluded, Doing, Writing
<1>6. Quiet
  BY <1>0, <1>1, <1>2, <1>3, <1>4, <1>5
  DEF Protect, Quiet, Generations, Doing, Writing, disk, locks, counts, Onto
<1>7. /\ Generations' /\ Certifies' /\ Enrolling' /\ Recovering'
      /\ Founding' /\ Flipping' /\ Closing'
  BY <1>0, <1>6, QuietKeeps
<1>8. TypeOK'
  BY <1>0, <1>4, <1>5 DEF TypeOK, disk, Protect
<1>9. Operations'
  BY <1>0, <1>2 DEF Operations, Doing, Writing, Onto, counts, Protect
<1>10. Excluded'
  BY <1>0, <1>1, <1>2, <1>5, NoneAssumption DEF Excluded, Doing, Writing, Onto
<1>11. KeyGuarded'
  BY <1>0, <1>2, <1>3 DEF KeyGuarded, Doing, Writing, Onto, Protect
<1>12. KeyKept'
  BY <1>3 DEF KeyKept, Protect
<1> QED  BY <1>7, <1>8, <1>9, <1>10, <1>11, <1>12 DEF VInv

\* Nothing depends on the key any more.
LEMMA UnprotectKeeps ==
  ASSUME VInv, NEW p \in Proc, Unprotect(p)
  PROVE  VInv'
<1>0. /\ TypeOK /\ Operations /\ Excluded /\ Generations /\ Certifies /\ Enrolling /\ Recovering
      /\ Founding /\ Flipping /\ Closing /\ KeyGuarded /\ KeyKept
  BY DEF VInv
<1>1. committed # None
  BY <1>0 DEF Unprotect, Generations
<1>2. Quiet
  BY <1>0, <1>1 DEF Unprotect, Quiet, Generations, Doing, Writing, disk, locks, counts, Onto
<1>3. /\ Generations' /\ Certifies' /\ Enrolling' /\ Recovering'
      /\ Founding' /\ Flipping' /\ Closing'
  BY <1>0, <1>2, QuietKeeps
<1>4. TypeOK'
  BY <1>0 DEF TypeOK, disk, locks, Unprotect
<1>5. Operations'
  BY <1>0 DEF Operations, Doing, counts, Unprotect
<1>6. Excluded'
  BY <1>0 DEF Excluded, Doing, locks, Unprotect
<1>7. KeyGuarded'
  BY <1>0 DEF KeyGuarded, Doing, Unprotect
<1>8. KeyKept'
  BY DEF KeyKept, Unprotect
<1> QED  BY <1>3, <1>4, <1>5, <1>6, <1>7, <1>8 DEF VInv

\* A step fails or the process dies: what is on disk stays.
LEMMA StopKeeps ==
  ASSUME VInv, NEW p \in Proc, Stop(p)
  PROVE  VInv'
<1>0. /\ TypeOK /\ Operations /\ Excluded /\ Generations /\ Certifies /\ Enrolling /\ Recovering
      /\ Founding /\ Flipping /\ Closing /\ KeyGuarded /\ KeyKept
  BY DEF VInv
<1>1. ~Doing(p, {"free"})
  BY <1>0, FreeMeans DEF Stop
<1>2. Onto(p, "free", None)
  BY <1>0, EndsOnto DEF Stop
<1>3. handle' \in [Proc -> Manifest \cup {None}] /\ \A q \in Proc \ {p} : handle'[q] = handle[q]
  BY <1>0 DEF Stop, TypeOK
<1>4. Quiet
  BY <1>0, <1>1, <1>2, <1>3 DEF Stop, Quiet, Generations, Doing, Writing, disk, locks, counts, Onto
<1>5. /\ Generations' /\ Certifies' /\ Enrolling' /\ Recovering'
      /\ Founding' /\ Flipping' /\ Closing'
  BY <1>0, <1>4, QuietKeeps
<1>6. TypeOK'
  BY <1>0 DEF TypeOK, Leaves, disk, Stop
<1>7. Operations'
  BY <1>0, <1>2 DEF Operations, Doing, Writing, Onto, Stop
<1>8. Excluded'
  BY <1>0, <1>2, NoneAssumption DEF Excluded, Doing, Writing, Onto, Leaves, Stop
<1>9. KeyGuarded'
  BY <1>0, <1>2 DEF KeyGuarded, Doing, Writing, Onto, Leaves, Stop
<1>10. KeyKept'
  BY <1>0 DEF KeyKept, Stop
<1> QED  BY <1>5, <1>6, <1>7, <1>8, <1>9, <1>10 DEF VInv

\* init has its handle.
LEMMA EndInitKeeps ==
  ASSUME VInv, NEW p \in Proc, EndInit(p)
  PROVE  VInv'
<1>0. /\ TypeOK /\ Operations /\ Excluded /\ Generations /\ Certifies /\ Enrolling /\ Recovering
      /\ Founding /\ Flipping /\ Closing /\ KeyGuarded /\ KeyKept
  BY DEF VInv
<1>1. Doing(p, {"close"})
  BY <1>0, ProceedsOnto DEF EndInit
<1>2. Onto(p, "free", None)
  BY <1>0, EndsOnto DEF EndInit
<1>3. handle' \in [Proc -> Manifest \cup {None}] /\ \A q \in Proc \ {p} : handle'[q] = handle[q]
  BY <1>0, <1>1 DEF EndInit, TypeOK, Operations, Doing, Writing
<1>4. Quiet
  BY <1>0, <1>1, <1>2, <1>3 DEF EndInit, Quiet, Generations, Doing, Writing, disk, locks, counts, Onto
<1>5. /\ Generations' /\ Certifies' /\ Enrolling' /\ Recovering'
      /\ Founding' /\ Flipping' /\ Closing'
  BY <1>0, <1>4, QuietKeeps
<1>6. TypeOK'
  BY <1>0, <1>3 DEF TypeOK, Leaves, disk, EndInit
<1>7. Operations'
  BY <1>0, <1>2 DEF Operations, Doing, Writing, Onto, counts, EndInit
<1>8. Excluded'
  BY <1>0, <1>2, NoneAssumption DEF Excluded, Doing, Writing, Onto, Leaves, EndInit
<1>9. KeyGuarded'
  BY <1>0, <1>2 DEF KeyGuarded, Doing, Writing, Onto, Leaves, EndInit
<1>10. KeyKept'
  BY <1>0 DEF KeyKept, EndInit
<1> QED  BY <1>5, <1>6, <1>7, <1>8, <1>9, <1>10 DEF VInv

\* The directory goes to another machine: no anchor, nobody at work.
LEMMA MoveToNewDeviceKeeps ==
  ASSUME VInv, MoveToNewDevice
  PROVE  VInv'
<1>0. /\ TypeOK /\ Operations /\ Excluded /\ Generations /\ Certifies /\ Enrolling /\ Recovering
      /\ Founding /\ Flipping /\ Closing /\ KeyGuarded /\ KeyKept
  BY DEF VInv
<1>1. \A q \in Proc : ~Doing(q, Writing)
  BY <1>0, NoWriter DEF MoveToNewDevice
<1>2. \A q \in Proc : Stage(op'[q].todo) = "free" /\ op'[q] = Idle
  BY Plans DEF MoveToNewDevice, Idle
<1>3. op' \in [Proc -> Works]
  BY StepsAre DEF MoveToNewDevice, Idle, Works
<1>4. Quiet
  BY <1>0, <1>1, <1>2, <1>3
  DEF MoveToNewDevice, Quiet, Generations, Doing, Writing, disk, locks, counts, Onto
<1>5. /\ Generations' /\ Certifies' /\ Enrolling' /\ Recovering'
      /\ Founding' /\ Flipping' /\ Closing'
  BY <1>0, <1>4, QuietKeeps
<1>6. TypeOK'
  BY <1>0 DEF TypeOK, locks, MoveToNewDevice
<1>7. Operations'
  BY <1>0, <1>2, <1>3 DEF Operations, Doing, Writing, MoveToNewDevice
<1>8. Excluded'
  BY <1>0, <1>1, <1>2 DEF Excluded, Doing, Writing, locks, MoveToNewDevice
<1>9. KeyGuarded'
  BY <1>2 DEF KeyGuarded, Doing, Writing
<1>10. KeyKept'
  BY <1>0 DEF KeyKept, MoveToNewDevice
<1> QED  BY <1>5, <1>6, <1>7, <1>8, <1>9, <1>10 DEF VInv

\* init starts where nothing is left of another vault.
LEMMA InitVaultKeeps ==
  ASSUME VInv, NEW p \in Proc, InitVault(p)
  PROVE  VInv'
<1>0. /\ TypeOK /\ Operations /\ Excluded /\ Generations /\ Certifies /\ Enrolling /\ Recovering
      /\ Founding /\ Flipping /\ Closing /\ KeyGuarded /\ KeyKept
  BY DEF VInv
<1>1. \A q \in Proc : ~Doing(q, Writing)
  BY <1>0, NoWriter DEF InitVault, Enters, Commits
<1>2. lock = None /\ lock' = p
  BY <1>0 DEF InitVault, Commits, Enters
<1>3. committed = None /\ OnDisk = {} /\ sidecar = None
  BY <1>0, NoneOnDisk DEF InitVault, Artifacts
<1>4. keys' = keys + 1 /\ keys' \in 1..MaxKey /\ lease = None /\ dep = None /\ lease' = p
  BY <1>0, BoundAssumption DEF InitVault, Operations, LeasedGuard
<1>5. /\ Onto(p, "seal", op'[p].on) /\ op'[p].on \in Manifest /\ op'[p].on.wmk = keys'
      /\ op'[p].on.files = [f \in File |-> Nothing]
  BY <1>0, <1>4, FirstManifest, StartsOnto, Plans, StepsAre DEF InitVault, Onto
<1>6. UNCHANGED <<manifests, blobs, sidecar, anchor, OnDisk, Certified, dep, handle,
                 committed, overtaken, lost, written>>
  BY <1>0 DEF InitVault, disk, counts, OnDisk, Certified
<1>7. TypeOK'
  BY <1>0, <1>2, <1>4, <1>6 DEF TypeOK
<1>8. Operations'
  BY <1>0, <1>4, <1>5, <1>6 DEF Operations, Doing, Onto
<1>9. Excluded'
  BY <1>0, <1>1, <1>2, <1>4, <1>5 DEF Excluded, Doing, Writing, Onto
<1>10. Generations'
  BY <1>0, <1>3, <1>6, OnDiskAre DEF Generations
<1>11. Certifies'
  BY <1>0, <1>3, <1>6 DEF Certifies
<1>12. Enrolling'
  BY <1>1, <1>5 DEF Enrolling, Doing, Writing, Onto
<1>13. Recovering'
  BY <1>1, <1>5 DEF Recovering, Doing, Writing, Onto
<1>14. Founding'
  BY <1>1, <1>3, <1>4, <1>5, <1>6 DEF Founding, Doing, Writing, Onto
<1>15. Flipping'
  BY <1>1, <1>5 DEF Flipping, Doing, Writing, Onto
<1>16. Closing'
  BY <1>1, <1>5 DEF Closing, Doing, Writing, Onto
<1>17. KeyGuarded'
  BY <1>0, <1>1, <1>4, <1>5, <1>6 DEF KeyGuarded, Doing, Onto
<1>18. KeyKept'
  BY <1>0, <1>6 DEF KeyKept
<1> QED  BY <1>7, <1>8, <1>9, <1>10, <1>11, <1>12, <1>13, <1>14, <1>15, <1>16, <1>17, <1>18 DEF
             VInv

\* An enrolment starts from the committed generation.
LEMMA EnrollFileKeeps ==
  ASSUME VInv, NEW p \in Proc, NEW f \in File, EnrollFile(p, f)
  PROVE  VInv'
<1>0. /\ TypeOK /\ Operations /\ Excluded /\ Generations /\ Certifies /\ Enrolling /\ Recovering
      /\ Founding /\ Flipping /\ Closing /\ KeyGuarded /\ KeyKept
  BY DEF VInv
<1>1. \A q \in Proc : ~Doing(q, Writing)
  BY <1>0, NoWriter DEF EnrollFile, Enters, Commits
<1>2. lock = None /\ lock' = p
  BY <1>0 DEF EnrollFile, Commits, Enters
<1>3. /\ handle[p] = committed /\ committed # None /\ anchor # None /\ committed \in Manifest
      /\ committed.gen < MaxGen
  BY <1>0, CurrentIs DEF EnrollFile, Commits, TypeOK
<1>4. written' = written + 1 /\ written' \in 0..MaxBlob
  BY <1>0, BoundAssumption DEF EnrollFile, Operations
<1>5. /\ Onto(p, "fill", op'[p].on) /\ op'[p].on \in Manifest
      /\ op'[p].on.gen = committed.gen + 1 /\ op'[p].on.wmk = committed.wmk
      /\ OneChange(committed, op'[p].on)
      /\ (\/ (lease' = lease /\ op'[p].on.key = committed.key)
          \/ (lease = None /\ dep = None /\ lease' = p))
  BY <1>0, <1>3, <1>4, EnrollStarts DEF EnrollFile
<1>6. UNCHANGED <<manifests, blobs, sidecar, anchor, OnDisk, Certified, dep, handle,
                 committed, overtaken, lost, keys>>
  BY <1>0 DEF EnrollFile, disk, counts, OnDisk, Certified
<1>7. TypeOK'
  BY <1>0, <1>2, <1>5, <1>6 DEF TypeOK
<1>8. Operations'
  BY <1>0, <1>4, <1>5, <1>6 DEF Operations, Doing, Onto
<1>9. Excluded'
  BY <1>0, <1>1, <1>2, <1>5 DEF Excluded, Doing, Writing, Onto
<1>10. Generations'
  BY <1>0, <1>6 DEF Generations, Beyond
<1>11. Certifies'
  BY <1>0, <1>6 DEF Certifies
<1>12. Enrolling'
  BY <1>0, <1>3, <1>5, <1>6 DEF Enrolling, Doing, Onto
<1>13. Recovering'
  BY <1>1, <1>5 DEF Recovering, Doing, Writing, Onto
<1>14. Founding'
  BY <1>1, <1>5 DEF Founding, Doing, Writing, Onto
<1>15. Flipping'
  BY <1>1, <1>5 DEF Flipping, Doing, Writing, Onto
<1>16. Closing'
  BY <1>1, <1>5 DEF Closing, Doing, Writing, Onto
<1>17. KeyGuarded'
  BY <1>0, <1>1, <1>3, <1>5, <1>6 DEF KeyGuarded, Doing, Onto
<1>18. KeyKept'
  BY <1>0, <1>6 DEF KeyKept
<1> QED  BY <1>7, <1>8, <1>9, <1>10, <1>11, <1>12, <1>13, <1>14, <1>15, <1>16, <1>17, <1>18 DEF
             VInv

\* A removal starts from the committed generation.
LEMMA UnenrollFileKeeps ==
  ASSUME VInv, NEW p \in Proc, NEW f \in File, UnenrollFile(p, f)
  PROVE  VInv'
<1>0. /\ TypeOK /\ Operations /\ Excluded /\ Generations /\ Certifies /\ Enrolling /\ Recovering
      /\ Founding /\ Flipping /\ Closing /\ KeyGuarded /\ KeyKept
  BY DEF VInv
<1>1. \A q \in Proc : ~Doing(q, Writing)
  BY <1>0, NoWriter DEF UnenrollFile, Enters, Commits
<1>2. lock = None /\ lock' = p
  BY <1>0 DEF UnenrollFile, Commits, Enters
<1>3. /\ handle[p] = committed /\ committed # None /\ anchor # None /\ committed \in Manifest
      /\ committed.gen < MaxGen
  BY <1>0, CurrentIs DEF UnenrollFile, Commits, TypeOK
<1>4. /\ Onto(p, "enrol", op'[p].on) /\ op'[p].on \in Manifest
      /\ op'[p].on.gen = committed.gen + 1 /\ op'[p].on.wmk = committed.wmk
      /\ OneChange(committed, op'[p].on) /\ Held(op'[p].on)
      /\ (\/ (lease' = lease /\ op'[p].on.key = committed.key)
          \/ (lease = None /\ dep = None /\ lease' = p))
  BY <1>0, <1>3, UnenrollStarts DEF UnenrollFile
<1>5. UNCHANGED <<manifests, blobs, sidecar, anchor, OnDisk, Certified, dep, handle,
                 committed, overtaken, lost, keys>>
  BY <1>0 DEF UnenrollFile, disk, counts, OnDisk, Certified
<1>6. TypeOK'
  BY <1>0, <1>2, <1>4, <1>5 DEF TypeOK
<1>7. Operations'
  BY <1>0, <1>4 DEF Operations, Doing, Onto, counts, UnenrollFile
<1>8. Excluded'
  BY <1>0, <1>1, <1>2, <1>4 DEF Excluded, Doing, Writing, Onto
<1>9. Generations'
  BY <1>0, <1>5 DEF Generations, Beyond
<1>10. Certifies'
  BY <1>0, <1>5 DEF Certifies
<1>11. Enrolling'
  BY <1>0, <1>3, <1>4, <1>5 DEF Enrolling, Doing, Onto
<1>12. Recovering'
  BY <1>1, <1>4 DEF Recovering, Doing, Writing, Onto
<1>13. Founding'
  BY <1>1, <1>4 DEF Founding, Doing, Writing, Onto
<1>14. Flipping'
  BY <1>1, <1>4 DEF Flipping, Doing, Writing, Onto
<1>15. Closing'
  BY <1>1, <1>4 DEF Closing, Doing, Writing, Onto
<1>16. KeyGuarded'
  BY <1>0, <1>1, <1>3, <1>4, <1>5 DEF KeyGuarded, Doing, Onto
<1>17. KeyKept'
  BY <1>0, <1>5 DEF KeyKept
<1> QED  BY <1>6, <1>7, <1>8, <1>9, <1>10, <1>11, <1>12, <1>13, <1>14, <1>15, <1>16, <1>17 DEF
             VInv

\* A recovery starts from what the passphrase finds, under a new wmk.
LEMMA RecoverToDeviceKeeps ==
  ASSUME VInv, NEW p \in Proc, RecoverToDevice(p)
  PROVE  VInv'
<1>0. /\ TypeOK /\ Operations /\ Excluded /\ Generations /\ Certifies /\ Enrolling /\ Recovering
      /\ Founding /\ Flipping /\ Closing /\ KeyGuarded /\ KeyKept
  BY DEF VInv
<1>1. \A q \in Proc : ~Doing(q, Writing)
  BY <1>0, NoWriter DEF RecoverToDevice, Enters, Commits
<1>2. lock = None /\ lock' = p
  BY <1>0 DEF RecoverToDevice, Commits, Enters
<1>3. /\ keys' = keys + 1 /\ keys' \in 1..MaxKey /\ lease = None /\ dep = None /\ lease' = p
      /\ sidecar # None
  BY <1>0, BoundAssumption DEF RecoverToDevice, Operations, LeasedGuard
<1>4. /\ Matched \in Manifest /\ (Held(Matched) \/ overtaken)
      /\ \A n \in Certified : n.gen <= Matched.gen
      /\ committed = None => Matched.files = [f \in File |-> Nothing]
      /\ committed # None => /\ Matched.gen >= committed.gen
                             /\ OneChange(committed, Matched) \/ overtaken
  BY <1>0, <1>3, MatchedIs DEF RecoverToDevice
<1>5. /\ Onto(p, "recover", op'[p].on) /\ op'[p].on \in Manifest
      /\ op'[p].on.wmk = keys' /\ op'[p].on.gen = Matched.gen + 1
      /\ op'[p].on.files = Matched.files
  BY <1>0, <1>4, RecoverStarts
<1>6. /\ Held(op'[p].on) \/ overtaken
      /\ committed # None => OneChange(committed, op'[p].on) \/ overtaken
  BY <1>4, <1>5, SameUse, SameFiles
<1>7. /\ \A n \in OnDisk : n.wmk <= keys' /\ n.wmk # keys'
      /\ \A g \in 0..MaxGen : manifests[g] # None => manifests[g].wmk <= keys'
      /\ sidecar # None => sidecar <= keys' /\ sidecar # keys'
      /\ committed # None => committed.wmk # keys'
  BY <1>0, <1>3, NewWmk
<1>8. /\ \A n \in Certified : n.gen < op'[p].on.gen
      /\ committed # None => op'[p].on.gen > committed.gen
  BY <1>0, <1>4, <1>5, OnDiskAre, Fields DEF Certified, TypeOK
<1>9. UNCHANGED <<manifests, blobs, sidecar, anchor, OnDisk, Certified, dep, handle,
                 committed, overtaken, lost, written>>
  BY <1>0 DEF RecoverToDevice, disk, counts, OnDisk, Certified
<1>10. TypeOK'
  BY <1>0, <1>2, <1>3, <1>9 DEF TypeOK
<1>11. Operations'
  BY <1>0, <1>3, <1>5, <1>9 DEF Operations, Doing, Onto
<1>12. Excluded'
  BY <1>0, <1>1, <1>2, <1>3, <1>5 DEF Excluded, Doing, Writing, Onto
<1>13. Generations'
  BY <1>0, <1>7, <1>9 DEF Generations, Beyond
<1>14. Certifies'
  BY <1>0, <1>7, <1>9 DEF Certifies
<1>15. Enrolling'
  BY <1>1, <1>5 DEF Enrolling, Doing, Writing, Onto
<1>16. Recovering'
  BY <1>1, <1>3, <1>4, <1>5, <1>6, <1>7, <1>8, <1>9 DEF Recovering, Doing, Writing, Onto
<1>17. Founding'
  BY <1>1, <1>5 DEF Founding, Doing, Writing, Onto
<1>18. Flipping'
  BY <1>1, <1>5 DEF Flipping, Doing, Writing, Onto
<1>19. Closing'
  BY <1>1, <1>5 DEF Closing, Doing, Writing, Onto
<1>20. KeyGuarded'
  BY <1>0, <1>1, <1>3, <1>5, <1>9 DEF KeyGuarded, Doing, Onto
<1>21. KeyKept'
  BY <1>0, <1>9 DEF KeyKept
<1> QED  BY <1>10, <1>11, <1>12, <1>13, <1>14, <1>15, <1>16, <1>17, <1>18, <1>19, <1>20, <1>21
             DEF VInv

\* The ciphertext comes before the manifest that names it.
LEMMA WriteBlobKeeps ==
  ASSUME VInv, NEW p \in Proc, WriteBlob(p)
  PROVE  VInv'
<1>0. /\ TypeOK /\ Operations /\ Excluded /\ Generations /\ Certifies /\ Enrolling /\ Recovering
      /\ Founding /\ Flipping /\ Closing /\ KeyGuarded /\ KeyKept
  BY DEF VInv
<1>1. Doing(p, {"fill"}) /\ Onto(p, "enrol", op[p].on)
  BY <1>0, ProceedsOnto DEF WriteBlob
<1>2. lock = p /\ \A q \in Proc \ {p} : ~Doing(q, Writing)
  BY <1>0, <1>1, OneWriter DEF Excluded, Doing, Writing
<1>3. op[p].on \in Manifest
  BY <1>0, <1>1 DEF Operations, Doing, Writing
<1>4. committed # None /\ handle[p] = committed
  BY <1>0, <1>1 DEF Enrolling, Doing
<1>5. blobs \subseteq blobs' /\ blobs' \subseteq Blob /\ Used(op[p].on) \subseteq blobs' \cup lost'
  BY <1>0, <1>3, <1>4, BlobsUsed DEF WriteBlob, TypeOK, Generations
<1>6. UNCHANGED <<manifests, sidecar, anchor, OnDisk, Certified, handle, dep, lock, lease,
                 keys, written, committed, overtaken, lost>>
  BY <1>0 DEF WriteBlob, disk, OnDisk, Certified, locks, counts
<1>7. TypeOK'
  BY <1>0, <1>5, <1>6 DEF TypeOK
<1>8. Operations'
  BY <1>0, <1>1, <1>3, <1>6 DEF Operations, Doing, Onto
<1>9. Excluded'
  BY <1>0, <1>1, <1>6 DEF Excluded, Doing, Writing, Onto
<1>10. Generations'
  BY <1>0, <1>5, <1>6 DEF Generations, Beyond
<1>11. Certifies'
  BY <1>0, <1>5, <1>6 DEF Certifies
<1>12. Enrolling'
  BY <1>0, <1>1, <1>5, <1>6 DEF Enrolling, Doing, Onto
<1>13. Recovering'
  BY <1>1, <1>2 DEF Recovering, Doing, Writing, Onto
<1>14. Founding'
  BY <1>1, <1>2 DEF Founding, Doing, Writing, Onto
<1>15. Flipping'
  BY <1>1, <1>2 DEF Flipping, Doing, Writing, Onto
<1>16. Closing'
  BY <1>1, <1>2 DEF Closing, Doing, Writing, Onto
<1>17. KeyGuarded'
  BY <1>0, <1>1, <1>6 DEF KeyGuarded, Doing, Writing, Onto
<1>18. KeyKept'
  BY <1>0, <1>6 DEF KeyKept
<1> QED  BY <1>7, <1>8, <1>9, <1>10, <1>11, <1>12, <1>13, <1>14, <1>15, <1>16, <1>17, <1>18 DEF
             VInv

\* The manifest of an enrolment goes one change beyond the committed one. Where the
\* sidecar certifies a recovery that stopped, this device has overtaken it.
LEMMA EnrolWrittenKeeps ==
  ASSUME VInv, NEW p \in Proc, Doing(p, {"enrol"}), WriteManifest(p)
  PROVE  VInv'
<1>0. /\ TypeOK /\ Operations /\ Excluded /\ Generations /\ Certifies /\ Enrolling /\ Recovering
      /\ Founding /\ Flipping /\ Closing /\ KeyGuarded /\ KeyKept
  BY DEF VInv
<1>1. Onto(p, "flip", op[p].on)
  BY <1>0, ProceedsOnto DEF WriteManifest, Doing
<1>2. lock = p /\ \A q \in Proc \ {p} : ~Doing(q, Writing)
  BY <1>0, <1>1, OneWriter DEF Excluded, Doing, Writing
<1>3. op[p].on \in Manifest
  BY <1>0, <1>1 DEF Operations, Doing, Writing
<1>4. /\ \A n : n \in OnDisk' <=> n = op[p].on \/ (n \in OnDisk /\ n.gen # op[p].on.gen)
     
      /\ \A g \in 0..MaxGen : manifests'[g] = IF g = op[p].on.gen THEN op[p].on ELSE manifests[g]
      /\ manifests' \in [0..MaxGen -> Manifest \cup {None}]
  BY <1>0, <1>3, AfterWrite DEF WriteManifest
<1>5. UNCHANGED <<blobs, sidecar, anchor, handle, dep, lock, lease, keys, written, committed,
                 lost>>
  BY <1>0 DEF WriteManifest, locks, counts
<1>6. /\ committed # None /\ handle[p] = committed /\ anchor = Pin(committed)
      /\ committed \in Manifest
      /\ op[p].on.gen = committed.gen + 1 /\ op[p].on.wmk = committed.wmk
      /\ OneChange(committed, op[p].on)
      /\ Held(op[p].on)
  BY <1>0 DEF Enrolling, Doing, Generations, TypeOK
<1>7. overtaken' = (overtaken \/ sidecar # committed.wmk)
  BY <1>6, PinFields, Fields DEF WriteManifest, Pin
<1>8. /\ op[p].on.wmk <= keys /\ manifests[committed.gen] = committed
      /\ committed.gen \in 0..MaxGen /\ op[p].on.gen # committed.gen
  BY <1>0, <1>6, OnDiskAre, Fields DEF Generations
<1>9. \A n \in OnDisk : n.wmk = committed.wmk => Beyond(n) \/ n.gen <= committed.gen
  BY <1>0, <1>6 DEF Generations
<1>10. overtaken' \in BOOLEAN /\ (sidecar = op[p].on.wmk \/ overtaken')
  BY <1>6, <1>7
<1>11. \A n \in OnDisk' : n.wmk = committed.wmk => n.gen <= op[p].on.gen
  BY <1>3, <1>4, <1>6, <1>8, <1>9, OnDiskAre, Fields, <1>0 DEF Beyond
<1>12. manifests'[op[p].on.gen] = op[p].on
  BY <1>3, <1>4, Fields
<1>12a. overtaken' =>
          /\ sidecar # committed.wmk /\ \A m, n \in Certified : m = n
          /\ \A n \in Certified' : n \in Certified /\ n.gen > op[p].on.gen
  <2> SUFFICES ASSUME overtaken'
               PROVE  /\ sidecar # committed.wmk /\ \A m, n \in Certified : m = n
                      /\ \A n \in Certified' : n \in Certified /\ n.gen > op[p].on.gen
    OBVIOUS
  <2>1. /\ sidecar # committed.wmk
        /\ \A m, n \in Certified : m.gen > committed.gen /\ m = n
    BY <1>0, <1>6, <1>7 DEF Certifies
  <2>2. \A n \in Certified' : n \in Certified /\ n.gen # op[p].on.gen
    BY <1>4, <1>5, <1>6, <2>1 DEF Certified
  <2>3. \A n \in Certified : n.gen \in Nat
    BY <1>0, OnDiskAre, Fields DEF Certified
  <2> QED  BY <1>6, <1>8, <2>1, <2>2, <2>3, Fields
<1>13. \A m : m = op[p].on => Written(m)'
  BY <1>5, <1>6, <1>10, <1>11, <1>12 DEF Written
<1>14. TypeOK'
  BY <1>0, <1>4, <1>5 DEF TypeOK
<1>15. Operations'
  BY <1>0, <1>1, <1>3, <1>5, <1>7 DEF Operations, Doing, Onto
<1>16. Excluded'
  BY <1>0, <1>1, <1>5 DEF Excluded, Doing, Writing, Onto
<1>17. Generations'
  BY <1>0, <1>4, <1>5, <1>6, <1>8 DEF Generations, Beyond
<1>18. Certifies'
  BY <1>0, <1>3, <1>5, <1>6, <1>10, <1>12a, Fields DEF Certifies
<1>19. Enrolling'
  BY <1>1, <1>2 DEF Enrolling, Doing, Writing, Onto
<1>20. Recovering'
  BY <1>1, <1>2 DEF Recovering, Doing, Writing, Onto
<1>21. Founding'
  BY <1>1, <1>2 DEF Founding, Doing, Writing, Onto
<1>22. Flipping'
  BY <1>1, <1>2, <1>5, <1>6, <1>12a, <1>13 DEF Flipping, Doing, Writing, Onto
<1>23. Closing'
  BY <1>1, <1>2 DEF Closing, Doing, Writing, Onto
<1>24. KeyGuarded'
  BY <1>0, <1>1, <1>5 DEF KeyGuarded, Doing, Writing, Onto
<1>25. KeyKept'
  BY <1>0, <1>5 DEF KeyKept
<1> QED  BY <1>14, <1>15, <1>16, <1>17, <1>18, <1>19, <1>20, <1>21, <1>22, <1>23, <1>24, <1>25
             DEF VInv

\* The first manifest.
LEMMA FoundWrittenKeeps ==
  ASSUME VInv, NEW p \in Proc, Doing(p, {"found"}), WriteManifest(p)
  PROVE  VInv'
<1>0. /\ TypeOK /\ Operations /\ Excluded /\ Generations /\ Certifies /\ Enrolling /\ Recovering
      /\ Founding /\ Flipping /\ Closing /\ KeyGuarded /\ KeyKept
  BY DEF VInv
<1>1. Onto(p, "flip", op[p].on)
  BY <1>0, ProceedsOnto DEF WriteManifest, Doing
<1>2. lock = p /\ \A q \in Proc \ {p} : ~Doing(q, Writing)
  BY <1>0, <1>1, OneWriter DEF Excluded, Doing, Writing
<1>3. op[p].on \in Manifest
  BY <1>0, <1>1 DEF Operations, Doing, Writing
<1>4. /\ \A n : n \in OnDisk' <=> n = op[p].on \/ (n \in OnDisk /\ n.gen # op[p].on.gen)
     
      /\ \A g \in 0..MaxGen : manifests'[g] = IF g = op[p].on.gen THEN op[p].on ELSE manifests[g]
      /\ manifests' \in [0..MaxGen -> Manifest \cup {None}]
  BY <1>0, <1>3, AfterWrite DEF WriteManifest
<1>5. UNCHANGED <<blobs, sidecar, anchor, handle, dep, lock, lease, keys, written, committed,
                 lost>>
  BY <1>0 DEF WriteManifest, locks, counts
<1>6. /\ committed = None /\ anchor = None /\ OnDisk = {} /\ op[p].on.wmk <= keys
      /\ sidecar = op[p].on.wmk
      /\ op[p].on.files = [f \in File |-> Nothing] /\ ~overtaken
  BY <1>0 DEF Founding, Doing, Generations
<1>7. ~overtaken'
  BY <1>6 DEF WriteManifest
<1>8. dep = None /\ \A g \in 0..MaxGen : manifests[g] = None
  BY <1>0, <1>6, OnDiskAre DEF Generations
<1>9. Used(op[p].on) = {} /\ op[p].on.gen \in 0..MaxGen
  BY <1>3, <1>6, UsesNothing, Fields
<1>10. TypeOK'
  BY <1>0, <1>4, <1>5 DEF TypeOK
<1>11. Operations'
  BY <1>0, <1>1, <1>3, <1>5 DEF Operations, Doing, Onto, WriteManifest
<1>12. Excluded'
  BY <1>0, <1>1, <1>5 DEF Excluded, Doing, Writing, Onto
<1>13. Generations'
  BY <1>4, <1>5, <1>6, <1>7, <1>8 DEF Generations
<1>14. Certifies'
  BY <1>4, <1>5, <1>6, <1>7 DEF Certifies, Certified
<1>15. Enrolling'
  BY <1>1, <1>2 DEF Enrolling, Doing, Writing, Onto
<1>16. Recovering'
  BY <1>1, <1>2 DEF Recovering, Doing, Writing, Onto
<1>17. Founding'
  BY <1>1, <1>2 DEF Founding, Doing, Writing, Onto
<1>18. Flipping'
  BY <1>1, <1>2, <1>4, <1>5, <1>6, <1>9 DEF Flipping, Written, Doing, Writing, Onto
<1>19. Closing'
  BY <1>1, <1>2 DEF Closing, Doing, Writing, Onto
<1>20. KeyGuarded'
  BY <1>0, <1>1, <1>5 DEF KeyGuarded, Doing, Writing, Onto
<1>21. KeyKept'
  BY <1>0, <1>5 DEF KeyKept
<1> QED  BY <1>10, <1>11, <1>12, <1>13, <1>14, <1>15, <1>16, <1>17, <1>18, <1>19, <1>20, <1>21
             DEF VInv

\* The manifest of a recovery is of a generation and a wmk of its own: it replaces
\* nothing that the sidecar or the anchor needs.
LEMMA RecoverWrittenKeeps ==
  ASSUME VInv, NEW p \in Proc, Doing(p, {"recover"}), WriteManifest(p)
  PROVE  VInv'
<1>0. /\ TypeOK /\ Operations /\ Excluded /\ Generations /\ Certifies /\ Enrolling /\ Recovering
      /\ Founding /\ Flipping /\ Closing /\ KeyGuarded /\ KeyKept
  BY DEF VInv
<1>1. Onto(p, "rewrap", op[p].on)
  BY <1>0, ProceedsOnto DEF WriteManifest, Doing
<1>2. lock = p /\ \A q \in Proc \ {p} : ~Doing(q, Writing)
  BY <1>0, <1>1, OneWriter DEF Excluded, Doing, Writing
<1>3. op[p].on \in Manifest
  BY <1>0, <1>1 DEF Operations, Doing, Writing
<1>4. /\ \A n : n \in OnDisk' <=> n = op[p].on \/ (n \in OnDisk /\ n.gen # op[p].on.gen)
     
      /\ \A g \in 0..MaxGen : manifests'[g] = IF g = op[p].on.gen THEN op[p].on ELSE manifests[g]
      /\ manifests' \in [0..MaxGen -> Manifest \cup {None}]
  BY <1>0, <1>3, AfterWrite DEF WriteManifest
<1>5. UNCHANGED <<blobs, sidecar, anchor, handle, dep, lock, lease, keys, written, committed,
                 lost>>
  BY <1>0 DEF WriteManifest, locks, counts
<1>6. /\ Held(op[p].on) \/ overtaken
      /\ op[p].on.wmk <= keys
      /\ op[p].on.wmk # sidecar
      /\ \A n \in OnDisk : n.wmk = op[p].on.wmk => n = op[p].on
      /\ \A n \in Certified : n.gen < op[p].on.gen
      /\ committed = None => op[p].on.files = [f \in File |-> Nothing]
      /\ committed # None =>
           /\ op[p].on.gen > committed.gen /\ op[p].on.wmk # committed.wmk
           /\ OneChange(committed, op[p].on) \/ overtaken
  BY <1>0 DEF Recovering, Doing
<1>7. anchor # None => committed # None /\ anchor.wmk = committed.wmk
  BY <1>0 DEF Generations, Pin
<1>8. overtaken' =
        (overtaken \/ (anchor # None /\ anchor.wmk = op[p].on.wmk /\ sidecar # anchor.wmk))
  BY <1>0 DEF WriteManifest
<1>9. overtaken' = overtaken
  BY <1>0, <1>6, <1>7, <1>8 DEF Operations
<1>10. \A n \in Certified : n.gen # op[p].on.gen
  BY <1>0, <1>3, <1>6, OnDiskAre, Fields DEF Certified
<1>11. Certified' = Certified
  BY <1>4, <1>5, <1>6, <1>10 DEF Certified
<1>12. committed # None => committed \in Manifest /\ committed.gen \in 0..MaxGen
  BY <1>0, Fields DEF TypeOK
<1>13. TypeOK'
  BY <1>0, <1>4, <1>5 DEF TypeOK
<1>14. Operations'
  BY <1>0, <1>1, <1>3, <1>5, <1>9 DEF Operations, Doing, Writing, Onto
<1>15. Excluded'
  BY <1>0, <1>1, <1>5 DEF Excluded, Doing, Writing, Onto
<1>16. Generations'
  BY <1>0, <1>4, <1>5, <1>6, <1>9, <1>12 DEF Generations, Beyond
<1>17. Certifies'
  BY <1>0, <1>5, <1>6, <1>9, <1>11 DEF Certifies
<1>18. Enrolling'
  BY <1>1, <1>2 DEF Enrolling, Doing, Writing, Onto
<1>19. Recovering'
  BY <1>1, <1>2, <1>3, <1>4, <1>5, <1>6, <1>9, <1>11, Fields DEF Recovering, Doing, Writing, Onto
<1>20. Founding'
  BY <1>1, <1>2 DEF Founding, Doing, Writing, Onto
<1>21. Flipping'
  BY <1>1, <1>2 DEF Flipping, Doing, Writing, Onto
<1>22. Closing'
  BY <1>1, <1>2 DEF Closing, Doing, Writing, Onto
<1>23. KeyGuarded'
  BY <1>0, <1>1, <1>5 DEF KeyGuarded, Doing, Writing, Onto
<1>24. KeyKept'
  BY <1>0, <1>5 DEF KeyKept
<1> QED  BY <1>13, <1>14, <1>15, <1>16, <1>17, <1>18, <1>19, <1>20, <1>21, <1>22, <1>23, <1>24
             DEF VInv

\* The sidecar certifies the manifest that is already there; for init, the one to come.
LEMMA WriteSidecarKeeps ==
  ASSUME VInv, NEW p \in Proc, WriteSidecar(p)
  PROVE  VInv'
<1>0. /\ TypeOK /\ Operations /\ Excluded /\ Generations /\ Certifies /\ Enrolling /\ Recovering
      /\ Founding /\ Flipping /\ Closing /\ KeyGuarded /\ KeyKept
  BY DEF VInv
<1>1. \/ Doing(p, {"rewrap"}) /\ Onto(p, "flip", op[p].on)
      \/ Doing(p, {"seal"}) /\ Onto(p, "found", op[p].on)
  BY <1>0, ProceedsOnto DEF WriteSidecar
<1>2. lock = p /\ \A q \in Proc \ {p} : ~Doing(q, Writing)
  BY <1>0, <1>1, OneWriter DEF Excluded, Doing, Writing
<1>3. op[p].on \in Manifest
  BY <1>0, <1>1 DEF Operations, Doing, Writing
<1>4. sidecar' = op[p].on.wmk
  BY <1>0 DEF WriteSidecar
<1>5. UNCHANGED <<manifests, blobs, anchor, OnDisk, handle, dep, lock, lease, keys, written,
                 committed, overtaken, lost>>
  BY <1>0 DEF WriteSidecar, OnDisk, locks, counts
<1>6. TypeOK'
  BY <1>0, <1>3, <1>4, <1>5, Fields DEF TypeOK
<1>7. Operations'
  BY <1>0, <1>1, <1>3, <1>5 DEF Operations, Doing, Onto
<1>8. Excluded'
  BY <1>0, <1>1, <1>5 DEF Excluded, Doing, Writing, Onto
<1>9. Generations'
  BY <1>0, <1>5 DEF Generations, Beyond
<1>10. Certifies'
  <2>1. CASE Doing(p, {"rewrap"})
    <3>1. /\ manifests[op[p].on.gen] = op[p].on /\ op[p].on.wmk <= keys
          /\ \A n \in OnDisk : n.wmk = op[p].on.wmk => n = op[p].on
          /\ committed # None => /\ op[p].on.gen > committed.gen /\ op[p].on.wmk # committed.wmk
                                 /\ OneChange(committed, op[p].on) \/ overtaken
          /\ Held(op[p].on) \/ overtaken
      BY <1>0, <2>1 DEF Recovering, Doing
    <3>2. op[p].on \in OnDisk
      BY <1>0, <1>3, <3>1, OnDiskAre, Fields
    <3>3. \A n : n \in Certified' <=> n = op[p].on
      BY <1>4, <1>5, <3>1, <3>2 DEF Certified
    <3>4. committed = None => ~overtaken
      BY <1>0 DEF Generations
    <3> QED  BY <1>4, <1>5, <3>1, <3>3, <3>4 DEF Certifies
  <2>2. CASE Doing(p, {"seal"})
    <3>1. committed = None /\ OnDisk = {} /\ ~overtaken /\ op[p].on.wmk <= keys
      BY <1>0, <2>2 DEF Founding, Doing, Generations
    <3> QED  BY <1>4, <1>5, <3>1 DEF Certifies, Certified
  <2> QED  BY <1>1, <2>1, <2>2
<1>11. Enrolling'
  BY <1>1, <1>2 DEF Enrolling, Doing, Writing, Onto
<1>12. Recovering'
  BY <1>1, <1>2 DEF Recovering, Doing, Writing, Onto
<1>13. Founding'
  BY <1>0, <1>1, <1>2, <1>4, <1>5 DEF Founding, Doing, Writing, Onto
<1>14. Flipping'
  BY <1>0, <1>1, <1>2, <1>4, <1>5, Fields, OnDiskAre DEF Flipping, Written, Doing, Writing, Recovering, Onto
<1>15. Closing'
  BY <1>1, <1>2 DEF Closing, Doing, Writing, Onto
<1>16. KeyGuarded'
  BY <1>0, <1>1, <1>5 DEF KeyGuarded, Doing, Writing, Onto
<1>17. KeyKept'
  BY <1>0, <1>5 DEF KeyKept
<1> QED  BY <1>6, <1>7, <1>8, <1>9, <1>10, <1>11, <1>12, <1>13, <1>14, <1>15, <1>16, <1>17 DEF
             VInv

\* The commit: everything but the anchor is written.
LEMMA FlipAnchorKeeps ==
  ASSUME VInv, NEW p \in Proc, FlipAnchor(p)
  PROVE  VInv'
<1>0. /\ TypeOK /\ Operations /\ Excluded /\ Generations /\ Certifies /\ Enrolling /\ Recovering
      /\ Founding /\ Flipping /\ Closing /\ KeyGuarded /\ KeyKept
  BY DEF VInv
<1>1. Doing(p, {"flip"}) /\ Onto(p, "close", op[p].on)
  BY <1>0, ProceedsOnto DEF FlipAnchor
<1>2. lock = p /\ \A q \in Proc \ {p} : ~Doing(q, Writing)
  BY <1>0, <1>1, OneWriter DEF Excluded, Doing, Writing
<1>3. op[p].on \in Manifest
  BY <1>0, <1>1 DEF Operations, Doing, Writing
<1>4. anchor' = Pin(op[p].on) /\ committed' = op[p].on
  BY <1>0 DEF FlipAnchor, Pin
<1>5. Written(op[p].on)
  BY <1>0, <1>1 DEF Flipping, Doing
<1>6. committed = None \/ op[p].on.key # committed.key => lease = p /\ dep = None
  BY <1>0, <1>1 DEF KeyGuarded, Doing, Writing
<1>7. \A q \in Proc : Doing(q, {"protect"}) =>
        /\ lease = q /\ committed # None /\ op[q].on.key = committed.key
        /\ op[q].on.key # Nothing
  BY <1>0 DEF Excluded, KeyGuarded
<1>8. UNCHANGED <<manifests, blobs, sidecar, OnDisk, Certified, handle, dep, lock, lease,
                 keys, written>>
  BY <1>0 DEF FlipAnchor, OnDisk, Certified, locks, counts
<1>8a. IF Relapses(op[p].on) THEN overtaken' = FALSE /\ lost' = lost \cup (Used(op[p].on) \ blobs)
       ELSE UNCHANGED <<overtaken, lost>>
  BY DEF FlipAnchor
<1>8b. Used(op[p].on) \subseteq blobs' \cup lost' /\ overtaken' \in BOOLEAN
  BY <1>0, <1>5, <1>8, <1>8a DEF Written, Operations
<1>8c. /\ ~overtaken' => sidecar = op[p].on.wmk
       /\ overtaken' => /\ sidecar # op[p].on.wmk /\ \A m, n \in Certified : m = n
                        /\ \A n \in Certified : n.gen > op[p].on.gen
  BY <1>0, <1>1, <1>5, <1>8a DEF Written, Operations, Flipping, Doing, Certifies
<1>9. TypeOK'
  BY <1>0, <1>3, <1>4, <1>8, Fields DEF TypeOK
<1>10. Operations'
  BY <1>0, <1>1, <1>3, <1>8, <1>8b DEF Operations, Doing, Onto
<1>11. Excluded'
  BY <1>0, <1>1, <1>8 DEF Excluded, Doing, Writing, Onto
<1>12. Generations'
  BY <1>0, <1>3, <1>4, <1>5, <1>8, <1>8b, Fields DEF Generations, Written
<1>13. Certifies'
  BY <1>0, <1>3, <1>4, <1>8, <1>8c, Fields DEF Certifies
<1>14. Enrolling'
  BY <1>1, <1>2 DEF Enrolling, Doing, Writing, Onto
<1>15. Recovering'
  BY <1>1, <1>2 DEF Recovering, Doing, Writing, Onto
<1>16. Founding'
  BY <1>1, <1>2 DEF Founding, Doing, Writing, Onto
<1>17. Flipping'
  BY <1>1, <1>2 DEF Flipping, Doing, Writing, Onto
<1>18. Closing'
  BY <1>1, <1>2, <1>4, <1>5, <1>8, <1>8b, <1>8c DEF Closing, Written, Doing, Writing, Onto
<1>19. KeyGuarded'
  BY <1>1, <1>2, <1>3, <1>4, <1>6, <1>7, Fields DEF KeyGuarded, Doing, Onto
<1>20. KeyKept'
  BY <1>0, <1>4, <1>6, <1>8 DEF KeyKept
<1> QED  BY <1>9, <1>10, <1>11, <1>12, <1>13, <1>14, <1>15, <1>16, <1>17, <1>18, <1>19, <1>20
             DEF VInv

\* What goes is not named by the committed manifest.
LEMMA GcKeeps ==
  ASSUME VInv, NEW p \in Proc, Gc(p)
  PROVE  VInv'
<1>0. /\ TypeOK /\ Operations /\ Excluded /\ Generations /\ Certifies /\ Enrolling /\ Recovering
      /\ Founding /\ Flipping /\ Closing /\ KeyGuarded /\ KeyKept
  BY DEF VInv
<1>1. Doing(p, {"close"}) /\ Onto(p, "free", None)
  BY <1>0, ProceedsOnto, EndsOnto DEF Gc, Collect
<1>2. lock = p /\ \A q \in Proc \ {p} : ~Doing(q, Writing)
  BY <1>0, <1>1, OneWriter DEF Excluded, Doing, Writing
<1>3. op[p].on \in Manifest
  BY <1>0, <1>1 DEF Operations, Doing, Writing
<1>4. committed = op[p].on /\ Written(op[p].on)
  BY <1>0, <1>1 DEF Closing, Doing
<1>5. /\ OnDisk' \subseteq OnDisk /\ manifests' \in [0..MaxGen -> Manifest \cup {None}]
      /\ \A g \in 0..MaxGen : manifests'[g] = manifests[g] \/ manifests'[g] = None
      /\ manifests'[committed.gen] = manifests[committed.gen]
  BY <1>0, <1>3, <1>4, AfterRemoval DEF Gc, Collect
<1>6. blobs' \subseteq blobs /\ Used(committed) \subseteq blobs' \cup lost'
  BY <1>0, <1>3, <1>4, Fields DEF Gc, Collect, Generations
<1>7. UNCHANGED <<anchor, sidecar, dep, keys, written, committed, overtaken, lost>>
  BY <1>0 DEF Gc, Collect, counts
<1>8. TypeOK'
  BY <1>0, <1>3 DEF TypeOK, Leaves, Gc, Collect
<1>9. Operations'
  BY <1>0, <1>1, <1>7 DEF Operations, Doing, Writing, Onto
<1>10. Excluded'
  BY <1>0, <1>1, NoneAssumption DEF Excluded, Doing, Writing, Onto, Leaves, Gc, Collect
<1>11. Generations'
  BY <1>0, <1>4, <1>5, <1>6, <1>7 DEF Generations, Written
<1>12. Certifies'
  BY <1>0, <1>4, <1>5, <1>7 DEF Certifies, Certified, Written
<1>13. Enrolling'
  BY <1>1, <1>2 DEF Enrolling, Doing, Writing, Onto
<1>14. Recovering'
  BY <1>1, <1>2 DEF Recovering, Doing, Writing, Onto
<1>15. Founding'
  BY <1>1, <1>2 DEF Founding, Doing, Writing, Onto
<1>16. Flipping'
  BY <1>1, <1>2 DEF Flipping, Doing, Writing, Onto
<1>17. Closing'
  BY <1>1, <1>2 DEF Closing, Doing, Writing, Onto
<1>18. KeyGuarded'
  BY <1>0, <1>1, <1>2, <1>7 DEF KeyGuarded, Doing, Writing, Onto
<1>19. KeyKept'
  BY <1>0, <1>7 DEF KeyKept
<1> QED  BY <1>8, <1>9, <1>10, <1>11, <1>12, <1>13, <1>14, <1>15, <1>16, <1>17, <1>18, <1>19 DEF
             VInv

\* The sidecar certifies the committed manifest again, or stays.
LEMMA RotateKeeps ==
  ASSUME VInv, NEW p \in Proc, Rotate(p)
  PROVE  VInv'
<1>0. /\ TypeOK /\ Operations /\ Excluded /\ Generations /\ Certifies /\ Enrolling /\ Recovering
      /\ Founding /\ Flipping /\ Closing /\ KeyGuarded /\ KeyKept
  BY DEF VInv
<1>1. Doing(p, {"rotate"}) /\ Onto(p, "free", None)
  BY <1>0, ProceedsOnto, EndsOnto DEF Rotate
<1>2. \A q \in Proc : ~Doing(q, Writing)
  BY <1>0, NoWriter DEF Rotate
<1>3. \/ UNCHANGED <<sidecar, overtaken>>
      \/ committed # None /\ sidecar' = committed.wmk /\ overtaken' = FALSE
  BY <1>0, <1>1 DEF Rotate, Resealed, Pinned, Generations, TypeOK, Pin, disk
<1>4. committed # None => committed.wmk <= keys
  BY <1>0, OnDiskAre, Fields DEF TypeOK, Generations
<1>5. UNCHANGED <<manifests, blobs, anchor, OnDisk, handle, dep, lock, lease, keys, written,
                 committed, lost>>
  BY <1>0 DEF Rotate, Resealed, OnDisk, disk, locks, counts
<1>6. TypeOK'
  BY <1>0, <1>3, <1>5, Fields DEF TypeOK
<1>7. Operations'
  BY <1>0, <1>1, <1>2, <1>3, <1>4, <1>5, NoneAssumption, Fields, PinFields, OnDiskAre DEF
     Operations, Doing, Writing, Onto, disk, locks, counts, Rotate
<1>8. Excluded'
  BY <1>0, <1>1, <1>5 DEF Excluded, Doing, Writing, Onto
<1>9. Generations'
  BY <1>0, <1>3, <1>5 DEF Generations, Beyond
<1>10. Certifies'
  BY <1>0, <1>3, <1>4, <1>5 DEF Certifies, Certified
<1>11. Enrolling'
  BY <1>1, <1>2 DEF Enrolling, Doing, Writing, Onto
<1>12. Recovering'
  BY <1>1, <1>2 DEF Recovering, Doing, Writing, Onto
<1>13. Founding'
  BY <1>1, <1>2 DEF Founding, Doing, Writing, Onto
<1>14. Flipping'
  BY <1>1, <1>2 DEF Flipping, Doing, Writing, Onto
<1>15. Closing'
  BY <1>1, <1>2 DEF Closing, Doing, Writing, Onto
<1>16. KeyGuarded'
  BY <1>0, <1>1, <1>5 DEF KeyGuarded, Doing, Writing, Onto
<1>17. KeyKept'
  BY <1>0, <1>5 DEF KeyKept
<1> QED  BY <1>6, <1>7, <1>8, <1>9, <1>10, <1>11, <1>12, <1>13, <1>14, <1>15, <1>16, <1>17 DEF
             VInv

-----------------------------------------------------------------------------
(* The theorems.                                                            *)

LEMMA InitVInv == Init => VInv
<1> SUFFICES ASSUME Init PROVE VInv
  OBVIOUS
<1>1. TypeOK
  BY DEF Init, TypeOK, Blob
<1>2. \A p \in Proc : op[p] = Idle /\ Doing(p, {"free"})
  BY Plans DEF Init, Idle, Doing
<1>3. OnDisk = {}
  BY DEF Init, OnDisk
<1>4. Operations
  <2>1. op \in [Proc -> Works]
    BY StepsAre DEF Init, Works, Idle
  <2>2. 0 \in 0..MaxKey /\ 0 \in 0..MaxBlob
    BY BoundAssumption
  <2>3. keys \in 0..MaxKey /\ written \in 0..MaxBlob /\ overtaken \in BOOLEAN
    BY <2>2 DEF Init
  <2> QED  BY <1>2, <2>1, <2>3 DEF Operations, Doing, Writing
<1>5. Excluded /\ KeyGuarded
  BY <1>2, NoneAssumption DEF Init, Excluded, KeyGuarded, Doing, Writing
<1>6. Generations /\ Certifies /\ KeyKept
  BY <1>3, NoneAssumption DEF Init, Generations, Certifies, Certified, KeyKept
<1>7. Enrolling /\ Recovering /\ Founding /\ Flipping /\ Closing
  BY <1>2 DEF Enrolling, Recovering, Founding, Flipping, Closing, Doing
<1> QED  BY <1>1, <1>4, <1>5, <1>6, <1>7 DEF VInv

LEMMA StutterKeeps == VInv /\ UNCHANGED vars => VInv'
<1> SUFFICES ASSUME VInv, UNCHANGED vars PROVE VInv'
  OBVIOUS
<1>1. /\ UNCHANGED <<anchor, manifests, blobs, sidecar, lock, lease, dep, handle, op>>
      /\ UNCHANGED <<keys, written, committed, overtaken, lost>>
  BY DEF vars, disk, locks, counts
<1>2. Quiet
  BY <1>1 DEF VInv, Quiet, Generations
<1>3. TypeOK' /\ Operations' /\ Excluded' /\ KeyGuarded' /\ KeyKept'
  BY <1>1 DEF VInv, TypeOK, Operations, Excluded, KeyGuarded, KeyKept, Doing
<1> QED  BY <1>2, <1>3, QuietKeeps DEF VInv

LEMMA WriteManifestKeeps ==
  ASSUME VInv, NEW p \in Proc, WriteManifest(p)
  PROVE  VInv'
<1>1. Doing(p, {"enrol", "found", "recover"})
  BY ProceedsOnto DEF WriteManifest, VInv, Doing
<1> QED  BY <1>1, EnrolWrittenKeeps, FoundWrittenKeeps, RecoverWrittenKeeps DEF Doing

LEMMA NextKeeps == ASSUME VInv, [Next]_vars PROVE VInv'
<1>1. ASSUME NEW p \in Proc, Step(p) PROVE VInv'
  BY <1>1, ReadAnchorKeeps, LoadKeeps, RegisterKeeps, CloseKeeps, InitVaultKeeps, RecoverToDeviceKeeps,
     EnrollFileKeeps, UnenrollFileKeeps, WriteBlobKeeps, WriteManifestKeeps, WriteSidecarKeeps,
     FlipAnchorKeeps, GcKeeps, EndInitKeeps, AskRotationKeeps, RotateKeeps, BeginProtectKeeps, ProtectKeeps,
     UnprotectKeeps, StopKeeps DEF Step
<1> QED  BY <1>1, MoveToNewDeviceKeeps, StutterKeeps DEF Next

\* One writer at a time, the generation it goes on from, and what the sidecar certifies
\* at each of its steps.
THEOREM VaultInvariant == Spec => []VInv
BY InitVInv, NextKeeps, PTL DEF Spec

\* Wherever a writer stops, the device opens the generation committed last, with all
\* its ciphertexts (write_anchor as the commit, _gc after it).
THEOREM VaultCommittedReadable == Spec => []CommittedReadable
<1>1. VInv => CommittedReadable
  <2> SUFFICES ASSUME VInv, anchor # None PROVE CommittedReadable
    BY DEF CommittedReadable
  <2>1. TypeOK /\ Operations /\ Generations
    BY DEF VInv
  <2>2. committed # None /\ committed \in Manifest /\ committed.gen \in 0..MaxGen
    BY <2>1, Fields DEF Generations, TypeOK
  <2>3. /\ manifests[committed.gen] = committed /\ Held(committed)
        /\ anchor = Pin(committed)
    BY <2>1, <2>2 DEF Generations
  <2>4. committed \in OnDisk
    BY <2>1, <2>2, <2>3, OnDiskAre
  <2> QED  BY <2>3, <2>4 DEF CommittedReadable, Readable, Pin
<1> QED  BY <1>1, VaultInvariant, PTL

\* The passphrase alone opens the committed generation, or one change beyond it,
\* wherever a recovery stopped (RecoverToDevice writes the manifest, the sidecar, the
\* anchor, in this order).
THEOREM VaultColdRecoverable == Spec => []ColdRecoverable
<1>1. VInv => ColdRecoverable
  <2> SUFFICES ASSUME VInv, committed # None, ~overtaken
        PROVE  /\ Certified # {} /\ Readable(Matched)
               /\ Cardinality({f \in File : Matched.files[f] # committed.files[f]}) <= 1
    BY DEF ColdRecoverable
  <2>1. TypeOK /\ Operations /\ Generations /\ Certifies
    BY DEF VInv
  <2>2. committed \in Manifest /\ committed.gen \in 0..MaxGen
    BY <2>1, Fields DEF TypeOK
  <2>3. committed \in OnDisk
    BY <2>1, <2>2, OnDiskAre DEF Generations
  <2>4. Certified # {}
    BY <2>1, <2>3 DEF Certifies, Certified
  <2>5. Matched \in OnDisk /\ Held(Matched) /\ OneChange(committed, Matched)
    BY <2>1, <2>4, MatchedIs DEF Certified
  <2>6. PICK g \in File, b \in 0..MaxBlob : Matched.files = [committed.files EXCEPT ![g] = b]
    BY <2>5 DEF OneChange
  <2> DEFINE Changed == {f \in File : Matched.files[f] # committed.files[f]}
  <2>7. Changed \subseteq {g}
    BY <2>2, <2>6, Fields
  <2> HIDE DEF Changed
  <2>8. Changed = {} \/ Changed = {g}
    BY <2>7
  <2>9. Cardinality({}) = 0 /\ Cardinality({g}) = 1
    BY FS_EmptySet, FS_Singleton
  <2>10. Cardinality(Changed) <= 1
    BY <2>8, <2>9
  <2> QED  BY <2>4, <2>5, <2>10 DEF Readable, Changed
<1> QED  BY <1>1, VaultInvariant, PTL

\* The memory key under the protected databases is not replaced (LeasedGuard around
\* what may change the key, and a conversion that holds the lease).
THEOREM VaultKeyKept == Spec => []KeyKept
<1>1. VInv => KeyKept
  BY DEF VInv
<1> QED  BY <1>1, VaultInvariant, PTL

-----------------------------------------------------------------------------
(* The vault implements a register.                                         *)

Files(m) == IF m = None THEN None ELSE m.files
Key(m) == IF m = None THEN None ELSE m.wmk
Views == [p \in Proc |-> Files(handle[p])]
sight == <<Files(committed), Key(committed), Views, overtaken>>

\* What one client opens or closes.
LEMMA LookRefines ==
  ASSUME TypeOK, TypeOK', NEW p \in Proc, UNCHANGED <<committed, overtaken>>,
         \A q \in Proc \ {p} : handle'[q] = handle[q]
  PROVE  Reg!Look(p)
<1>1. Files(handle'[p]) \in [File -> 0..MaxBlob] \cup {None}
  BY Fields DEF TypeOK, Files
<1>2. Views' = [Views EXCEPT ![p] = Files(handle'[p])]
  BY DEF Views
<1> QED  BY <1>1, <1>2 DEF Reg!Look, Views, Files

LEMMA FlipRefines ==
  ASSUME VInv, NEW p \in Proc, FlipAnchor(p)
  PROVE  Reg!Create \/ Reg!Rebind \/ Reg!Relapse \/ Reg!Change(p)
<1> DEFINE m == op[p].on
<1>1. TypeOK /\ Operations /\ Generations /\ Certifies /\ Flipping /\ Doing(p, {"flip"})
  BY ProceedsOnto DEF VInv, FlipAnchor
<1>2. /\ m \in Manifest /\ committed' = m /\ UNCHANGED handle
      /\ committed = None => m.files = [f \in File |-> Nothing] /\ ~overtaken
      /\ committed # None /\ ~Relapses(m) => OneChange(committed, m)
      /\ committed # None /\ m.wmk = committed.wmk => handle[p] = committed /\ ~Relapses(m)
      /\ overtaken /\ ~Relapses(m) => m.wmk = committed.wmk
      /\ overtaken' = (overtaken /\ ~Relapses(m)) /\ overtaken \in BOOLEAN
  BY <1>1 DEF Flipping, Operations, Generations, Certifies, Doing, Writing, FlipAnchor
<1> DEFINE relapses == Relapses(m)
<1>3. m # None /\ m.wmk # None /\ m.files \in [File -> 0..MaxBlob] /\ (relapses => overtaken)
  BY <1>2, Fields
<1> HIDE DEF m, relapses
<1>4. CASE committed = None
  BY <1>2, <1>3, <1>4 DEF Reg!Create, Nothing, relapses
<1>5. CASE committed # None /\ relapses
  BY <1>2, <1>3, <1>5 DEF Reg!Relapse, relapses
<1>6. CASE committed # None /\ ~relapses
  <2>1. committed.files # None
    BY <1>1, <1>6, Fields, NoneAssumption DEF TypeOK
  <2>2. \E f \in File, v \in 0..MaxBlob : m.files = [committed.files EXCEPT ![f] = v]
    BY <1>2, <1>6 DEF OneChange, relapses
  <2>3. UNCHANGED overtaken /\ (m.wmk # committed.wmk => ~overtaken)
    BY <1>2, <1>6 DEF relapses
  <2>4. CASE m.wmk = committed.wmk
    BY <1>2, <1>3, <1>6, <2>1, <2>2, <2>3, <2>4 DEF Reg!Change
  <2>5. CASE m.wmk # committed.wmk
    BY <1>2, <1>3, <1>6, <2>1, <2>2, <2>3, <2>5 DEF Reg!Rebind
  <2> QED  BY <2>4, <2>5
<1> QED  BY <1>4, <1>5, <1>6

\* A commit that writes its manifest while the sidecar certifies another recovery.
LEMMA WriteManifestRefines ==
  ASSUME VInv, NEW p \in Proc, WriteManifest(p), overtaken' # overtaken
  PROVE  Reg!GoOn(p)
<1>1. /\ TypeOK /\ Operations /\ Generations /\ Enrolling /\ Recovering /\ Founding
      /\ Doing(p, {"enrol", "found"}) \/ Doing(p, {"recover"})
  <2>1. Operations /\ At(p, "manifest") /\ Proceeds(p)
    BY DEF VInv, WriteManifest
  <2>2. Doing(p, {"enrol", "found"}) \/ Doing(p, {"recover"})
    BY <2>1, ProceedsOnto
  <2> QED  BY <2>2 DEF VInv
<1>a. /\ UNCHANGED <<committed, handle>>
      /\ overtaken' /\ anchor # None /\ anchor.wmk = op[p].on.wmk
  <2>1. overtaken \in BOOLEAN
    BY <1>1 DEF Operations
  <2> QED  BY <2>1 DEF WriteManifest
<1>2. committed # None /\ anchor.wmk = committed.wmk
  BY <1>1, <1>a DEF Generations, Pin
<1>3. handle[p] = committed
  BY <1>1, <1>a, <1>2 DEF Enrolling, Recovering, Founding, Doing
<1>4. committed.files # None
  BY <1>1, <1>2, Fields, NoneAssumption DEF TypeOK
<1> QED  BY <1>a, <1>2, <1>3, <1>4 DEF Reg!GoOn

\* The vault implements the register (EnrollFile, UnenrollFile and RecoverToDevice end
\* in write_anchor): a change goes on from the map that its writer had open, so none
\* is lost, and a recovery keeps the map but for one change; one that takes up a
\* recovery which this device has overtaken is the register's Relapse, and no other is.
THEOREM VaultKeepsRegister == Spec => RegisterSpec
<1>1. Init => Reg!Init
  BY DEF Init, Reg!Init
<1>2. VInv /\ VInv' /\ [Next]_vars => [Reg!Next]_sight
  <2> SUFFICES ASSUME VInv, VInv', [Next]_vars PROVE [Reg!Next]_sight
    OBVIOUS
  <2>1. TypeOK /\ TypeOK'
    BY DEF VInv
  <2>2. ASSUME UNCHANGED <<committed, handle, overtaken>> PROVE UNCHANGED sight
    BY <2>2 DEF sight, Views, Files, Key
  <2>3. CASE UNCHANGED vars
    BY <2>2, <2>3 DEF vars
  <2>4. CASE MoveToNewDevice
    BY <2>4 DEF MoveToNewDevice, Reg!Next, Reg!Forget
  <2>5. ASSUME NEW p \in Proc, Step(p) PROVE [Reg!Next]_sight
    <3>1. CASE FlipAnchor(p)
      BY <3>1, FlipRefines DEF Reg!Next
    <3>2. CASE Register(p) \/ Close(p) \/ Gc(p) \/ EndInit(p) \/ Stop(p)
      <4>1. /\ UNCHANGED <<committed, overtaken>>
            /\ \A q \in Proc \ {p} : handle'[q] = handle[q]
        BY <2>1, <3>2 DEF Register, Close, Gc, Collect, EndInit, Stop, TypeOK
      <4> QED  BY <2>1, <4>1, LookRefines DEF Reg!Next
    <3>3. CASE \/ ReadAnchor(p) \/ Load(p) \/ InitVault(p) \/ RecoverToDevice(p)
               \/ \E f \in File : EnrollFile(p, f) \/ UnenrollFile(p, f)
      <4>1. UNCHANGED <<committed, handle, overtaken>>
        BY <3>3 DEF ReadAnchor, Load, InitVault, RecoverToDevice, EnrollFile, UnenrollFile
      <4> QED  BY <2>2, <4>1
    <3>4. CASE \/ WriteBlob(p) \/ WriteSidecar(p) \/ AskRotation(p)
               \/ BeginProtect(p) \/ Protect(p) \/ Unprotect(p)
      <4>1. UNCHANGED <<committed, handle, overtaken>>
        BY <3>4 DEF WriteBlob, WriteSidecar, AskRotation, BeginProtect, Protect, Unprotect
      <4> QED  BY <2>2, <4>1
    <3>5. CASE WriteManifest(p)
      <4>1. CASE UNCHANGED overtaken
        BY <2>2, <3>5, <4>1 DEF WriteManifest
      <4>2. CASE overtaken' # overtaken
        BY <3>5, <4>2, WriteManifestRefines DEF Reg!Next
      <4> QED  BY <4>1, <4>2
    <3>6. CASE Rotate(p)
      <4>1. CASE UNCHANGED <<committed, handle, overtaken>>
        BY <2>2, <4>1
      <4>2. CASE UNCHANGED <<committed, handle>> /\ overtaken' = FALSE
        BY <4>2 DEF Reg!Next, Reg!CatchUp
      <4> QED  BY <3>6, <4>1, <4>2 DEF Rotate, Resealed
    <3> QED  BY <2>5, <3>1, <3>2, <3>3, <3>4, <3>5, <3>6 DEF Step
  <2> QED  BY <2>3, <2>4, <2>5 DEF Next
<1> QED
  BY <1>1, <1>2, VaultInvariant, PTL DEF Spec, RegisterSpec, Reg!Spec, sight, Views, Files, Key

-----------------------------------------------------------------------------
(* The reset.                                                               *)

\* What the stages are, and what the objects are.
LEMMA StageOrder ==
  /\ ResetStage = {"database", "mail", "telegram", "keys", "files", "complete"}
  /\ After("database") = "mail" /\ After("mail") = "telegram" /\ After("telegram") = "keys"
  /\ After("keys") = "files" /\ After("files") = "complete"
<1>1. DOMAIN ResetStages = 1..6
  BY DEF ResetStages
<1>2. /\ ResetStages[1] = "database" /\ ResetStages[2] = "mail" /\ ResetStages[3] = "telegram"
      /\ ResetStages[4] = "keys" /\ ResetStages[5] = "files" /\ ResetStages[6] = "complete"
  BY DEF ResetStages
<1>3. ResetStage = {"database", "mail", "telegram", "keys", "files", "complete"}
  BY <1>1, <1>2 DEF ResetStage
<1>4. ASSUME NEW i \in 1..5 PROVE After(ResetStages[i]) = ResetStages[i + 1]
  <2>1. \A j \in 1..6 : ResetStages[j] = ResetStages[i] => j = i
    BY <1>2
  <2>2. (CHOOSE j \in DOMAIN ResetStages : ResetStages[j] = ResetStages[i]) = i
    BY <1>1, <2>1
  <2> QED  BY <2>2 DEF After
<1>5. /\ After(ResetStages[1]) = ResetStages[1 + 1] /\ After(ResetStages[2]) = ResetStages[2 + 1]
      /\ After(ResetStages[3]) = ResetStages[3 + 1] /\ After(ResetStages[4]) = ResetStages[4 + 1]
      /\ After(ResetStages[5]) = ResetStages[5 + 1]
  BY <1>4
<1> QED  BY <1>2, <1>3, <1>5

\* The recorded objects are of four kinds, and each has a name of its own.
LEMMA ObjectsApart ==
  /\ \A d \in Component : {"sealed", "meta", "native"} \subseteq Part(d)
  /\ \A d \in Component : \A p \in Part(d) : <<d, p>> \in Object /\ <<d, p>> \in Credential
  /\ \A k \in WrapKey : KeyOf(k) \in Object /\ KeyOf(k) \notin Credential
  /\ \A f \in KnownFile : FileOf(f) \in Object /\ FileOf(f) \notin Credential
  /\ Kept \in Object /\ Kept \notin Credential
  /\ \A k \in WrapKey, f \in KnownFile : KeyOf(k) # FileOf(f)
  /\ \A k \in WrapKey, l \in WrapKey : KeyOf(k) = KeyOf(l) => k = l
  /\ \A o \in Object : \/ o = Kept
                       \/ o \in Credential
                       \/ \E k \in WrapKey : o = KeyOf(k)
                       \/ \E f \in KnownFile : o = FileOf(f)
  /\ \A o \in Credential : \E d \in Component : \E p \in Part(d) : o = <<d, p>>
BY DEF Object, Credential, Component, Part, KeyOf, FileOf, Kept

USE DEF profileVars, resetVars, boundVars

\* A step that only removes, and saves no journal, leaves the journal right.
LEMMA StepKeeps ==
  ASSUME KInv, Progressing, UNCHANGED <<journal, plan, sync, crashes, changes>>,
         at' \in [Object -> {"none", "own", "other"}],
         \A o \in Object : at'[o] = at[o] \/ at'[o] = "none",
         db' \subseteq db, archive' \in BOOLEAN, archive' => archive,
         forget' \in [Component -> {"none", "intent", "deleted"}], pc' \in ResetSteps \ {"prepare"}
  PROVE  ResetTypes' /\ PlanOK' /\ JournalHolds' /\ PlanHolds' /\ SyncSays'
<1>a. ResetTypes /\ PlanOK /\ JournalHolds /\ PlanHolds /\ SyncSays
  BY DEF KInv
<1>1. Pending /\ pc \notin {"idle", "prepare"} /\ plan = NoJournal
  BY <1>a DEF PlanOK, Progressing
<1>2. ResetTypes' /\ PlanOK'
  BY <1>a DEF ResetTypes, PlanOK, Progressing, Pending
<1>3. JournalHolds'
  <2>1. JournalSays(journal) /\ Bound(journal)
    BY <1>a, <1>1 DEF JournalHolds, Progressing
  <2>2. JournalSays(journal)'
    BY <2>1, ObjectsApart DEF JournalSays, Absent, Emptied, Gone, Wiped, NoneLeft, NoSync
  <2>3. Bound(journal)'
    BY <2>1, ObjectsApart DEF Bound, Present, Absent
  <2> QED  BY <2>2, <2>3 DEF JournalHolds
<1>4. PlanHolds'
  BY <1>1 DEF PlanHolds
<1>5. SyncSays'
  BY <1>a, <1>1 DEF SyncSays, Pending, NoSync
<1> QED  BY <1>2, <1>3, <1>4, <1>5

\* coordinate_reset choosing the stage.
LEMMA CheckStageKeeps ==
  ASSUME KInv, CheckStage
  PROVE  KInv'
<1>a. /\ ResetTypes /\ PlanOK /\ JournalHolds /\ PlanHolds /\ StageOfStep /\ RetiringSays
      /\ KeysSay /\ StageDone /\ SyncSays
  BY DEF KInv
<1>1. /\ Pending /\ Progressing /\ journal \in Journals
      /\ pc = "check"
      /\ UNCHANGED profileVars
      /\ \/ pc' = "idle"
         \/ journal.stage = "database" /\ pc' = "erase"
         \/ journal.stage \in Component /\ pc' = "observe"
         \/ journal.stage = "keys" /\ pc' = "key"
         \/ journal.stage = "files" /\ pc' = "file"
      /\ UNCHANGED <<journal, plan, sync, crashes, changes>>
      /\ at' \in [Object -> {"none", "own", "other"}]
      /\ \A o \in Object : at'[o] = at[o] \/ at'[o] = "none"
      /\ db' \subseteq db /\ archive' \in BOOLEAN /\ (archive' => archive)
      /\ forget' \in [Component -> {"none", "intent", "deleted"}]
      /\ pc' \in ResetSteps \ {"prepare"}
  BY <1>a, StageOrder
  DEF PlanOK, Progressing, ResetTypes, ResetSteps, StageOfStep, Pending, AtStep, Moves, Component,
      CheckStage, Journals
<1>2. ResetTypes' /\ PlanOK' /\ JournalHolds' /\ PlanHolds' /\ SyncSays'
  BY <1>1, StepKeeps
<1>3. StageOfStep'
  BY <1>1 DEF StageOfStep
<1>4. RetiringSays'
  BY <1>a, <1>1 DEF RetiringSays, Absent
<1>5. KeysSay'
  BY <1>1 DEF KeysSay
<1>6. StageDone'
  BY <1>1 DEF StageDone
<1> QED  BY <1>2, <1>3, <1>4, <1>5, <1>6 DEF KInv

\* The history goes in one transaction.
LEMMA EraseHistoryKeeps ==
  ASSUME KInv, EraseHistory
  PROVE  KInv'
<1>a. /\ ResetTypes /\ PlanOK /\ JournalHolds /\ PlanHolds /\ StageOfStep /\ RetiringSays
      /\ KeysSay /\ StageDone /\ SyncSays
  BY DEF KInv
<1>1. /\ Pending /\ Progressing /\ journal \in Journals
      /\ pc = "erase" /\ pc' = "advance"
      /\ db' = {} /\ UNCHANGED <<at, archive, forget>>
      /\ journal.stage = "database"
      /\ UNCHANGED <<journal, plan, sync, crashes, changes>>
      /\ at' \in [Object -> {"none", "own", "other"}]
      /\ \A o \in Object : at'[o] = at[o] \/ at'[o] = "none"
      /\ db' \subseteq db /\ archive' \in BOOLEAN /\ (archive' => archive)
      /\ forget' \in [Component -> {"none", "intent", "deleted"}]
      /\ pc' \in ResetSteps \ {"prepare"}
  BY <1>a DEF PlanOK, Progressing, ResetTypes, ResetSteps, StageOfStep, Pending, AtStep, EraseHistory
<1>2. ResetTypes' /\ PlanOK' /\ JournalHolds' /\ PlanHolds' /\ SyncSays'
  BY <1>1, StepKeeps
<1>3. StageOfStep'
  BY <1>1 DEF StageOfStep
<1>4. RetiringSays'
  BY <1>a, <1>1 DEF RetiringSays, Absent
<1>5. KeysSay'
  BY <1>1 DEF KeysSay
<1>6. StageDone'
  BY <1>1 DEF StageDone, Component
<1> QED  BY <1>2, <1>3, <1>4, <1>5, <1>6 DEF KInv

\* The component's objects compared with the record.
LEMMA ObserveKeeps ==
  ASSUME KInv, Observe
  PROVE  KInv'
<1>a. /\ ResetTypes /\ PlanOK /\ JournalHolds /\ PlanHolds /\ StageOfStep /\ RetiringSays
      /\ KeysSay /\ StageDone /\ SyncSays
  BY DEF KInv
<1>1. /\ Pending /\ Progressing /\ journal \in Journals
      /\ pc = "observe" /\ pc' \in {"idle", "finish", "retire"}
      /\ UNCHANGED profileVars
      /\ journal.stage \in Component
      /\ pc' # "idle" => \A p \in Part(comp) :
           Absent(<<comp, p>>) \/ (at[<<comp, p>>] = "own" /\ <<comp, p>> \in journal.seen)
      /\ pc' = "finish" => comp \in journal.retired
      /\ UNCHANGED <<journal, plan, sync, crashes, changes>>
      /\ at' \in [Object -> {"none", "own", "other"}]
      /\ \A o \in Object : at'[o] = at[o] \/ at'[o] = "none"
      /\ db' \subseteq db /\ archive' \in BOOLEAN /\ (archive' => archive)
      /\ forget' \in [Component -> {"none", "intent", "deleted"}]
      /\ pc' \in ResetSteps \ {"prepare"}
  BY <1>a
  DEF PlanOK, Progressing, ResetTypes, ResetSteps, Pending, AtStep, Retiring, Moves, Observe, Unchanged,
      Absent
<1>2. ResetTypes' /\ PlanOK' /\ JournalHolds' /\ PlanHolds' /\ SyncSays'
  BY <1>1, StepKeeps
<1>3. StageOfStep'
  BY <1>1 DEF StageOfStep
<1>4. RetiringSays'
  BY <1>a, <1>1 DEF RetiringSays, comp, Absent
<1>5. KeysSay'
  BY <1>1 DEF KeysSay
<1>6. StageDone'
  BY <1>1 DEF StageDone
<1> QED  BY <1>2, <1>3, <1>4, <1>5, <1>6 DEF KInv

\* What is left to do for the component.
LEMMA RetireKeeps ==
  ASSUME KInv, Retire
  PROVE  KInv'
<1>a. /\ ResetTypes /\ PlanOK /\ JournalHolds /\ PlanHolds /\ StageOfStep /\ RetiringSays
      /\ KeysSay /\ StageDone /\ SyncSays
  BY DEF KInv
<1>1. /\ Pending /\ Progressing /\ journal \in Journals
      /\ pc = "retire" /\ pc' \in {"idle", "clean", "intent", "save", "wipe"}
      /\ UNCHANGED profileVars
      /\ journal.stage \in Component
      /\ pc' # "idle" => ~Unretirable(comp) /\ sync[comp] # "running"
      /\ pc' = "clean" => forget[comp] = "deleted"
      /\ pc' \in {"save", "wipe"} =>
           forget[comp] # "deleted" /\ ~Here(comp, "sealed") /\ (pc' = "wipe" <=> comp = "telegram")
      /\ UNCHANGED <<journal, plan, sync, crashes, changes>>
      /\ at' \in [Object -> {"none", "own", "other"}]
      /\ \A o \in Object : at'[o] = at[o] \/ at'[o] = "none"
      /\ db' \subseteq db /\ archive' \in BOOLEAN /\ (archive' => archive)
      /\ forget' \in [Component -> {"none", "intent", "deleted"}]
      /\ pc' \in ResetSteps \ {"prepare"}
  BY <1>a
  DEF PlanOK, Progressing, ResetTypes, ResetSteps, Pending, AtStep, Retiring, Moves, Component, comp, Retire
<1>2. ResetTypes' /\ PlanOK' /\ JournalHolds' /\ PlanHolds' /\ SyncSays'
  BY <1>1, StepKeeps
<1>3. StageOfStep'
  BY <1>1 DEF StageOfStep
<1>4. RetiringSays'
  <2>1. pc' \in {"save", "wipe"} => Emptied(comp)
    BY <1>1, ObjectsApart DEF Unretirable, Here, Present, Emptied, Absent, comp
  <2>2. pc' = "save" => comp = "mail"
    BY <1>1 DEF Component, comp
  <2> QED  BY <1>a, <1>1, <1>2, <2>1, <2>2 DEF RetiringSays, comp, Absent, Emptied, Wiped
<1>5. KeysSay'
  BY <1>1 DEF KeysSay
<1>6. StageDone'
  BY <1>1 DEF StageDone
<1> QED  BY <1>2, <1>3, <1>4, <1>5, <1>6 DEF KInv

\* The intent to delete the native key.
LEMMA PublishIntentKeeps ==
  ASSUME KInv, PublishIntent
  PROVE  KInv'
<1>a. /\ ResetTypes /\ PlanOK /\ JournalHolds /\ PlanHolds /\ StageOfStep /\ RetiringSays
      /\ KeysSay /\ StageDone /\ SyncSays
  BY DEF KInv
<1>1. /\ Pending /\ Progressing /\ journal \in Journals
      /\ pc = "intent" /\ pc' = "native"
      /\ UNCHANGED <<at, db, archive>>
      /\ journal.stage \in Component
      /\ forget' = [forget EXCEPT ![comp] = "intent"]
      /\ UNCHANGED <<journal, plan, sync, crashes, changes>>
      /\ at' \in [Object -> {"none", "own", "other"}]
      /\ \A o \in Object : at'[o] = at[o] \/ at'[o] = "none"
      /\ db' \subseteq db /\ archive' \in BOOLEAN /\ (archive' => archive)
      /\ forget' \in [Component -> {"none", "intent", "deleted"}]
      /\ pc' \in ResetSteps \ {"prepare"}
  BY <1>a DEF PlanOK, Progressing, ResetTypes, ResetSteps, Pending, AtStep, Retiring, PublishIntent
<1>2. ResetTypes' /\ PlanOK' /\ JournalHolds' /\ PlanHolds' /\ SyncSays'
  BY <1>1, StepKeeps
<1>3. StageOfStep'
  BY <1>1 DEF StageOfStep
<1>4. RetiringSays'
  BY <1>a, <1>1 DEF RetiringSays, comp, Absent
<1>5. KeysSay'
  BY <1>1 DEF KeysSay
<1>6. StageDone'
  BY <1>1 DEF StageDone
<1> QED  BY <1>2, <1>3, <1>4, <1>5, <1>6 DEF KInv

\* The native key goes.
LEMMA DeleteNativeKeeps ==
  ASSUME KInv, DeleteNative
  PROVE  KInv'
<1>a. /\ ResetTypes /\ PlanOK /\ JournalHolds /\ PlanHolds /\ StageOfStep /\ RetiringSays
      /\ KeysSay /\ StageDone /\ SyncSays
  BY DEF KInv
<1>1. /\ Pending /\ Progressing /\ journal \in Journals
      /\ pc = "native" /\ pc' = "acknowledge"
      /\ UNCHANGED <<db, archive, forget>>
      /\ journal.stage \in Component
      /\ at' = [at EXCEPT ![<<comp, "native">>] = "none"] /\ at'[<<comp, "native">>] = "none"
      /\ UNCHANGED <<journal, plan, sync, crashes, changes>>
      /\ at' \in [Object -> {"none", "own", "other"}]
      /\ \A o \in Object : at'[o] = at[o] \/ at'[o] = "none"
      /\ db' \subseteq db /\ archive' \in BOOLEAN /\ (archive' => archive)
      /\ forget' \in [Component -> {"none", "intent", "deleted"}]
      /\ pc' \in ResetSteps \ {"prepare"}
  BY <1>a, ObjectsApart
  DEF PlanOK, Progressing, ResetTypes, ResetSteps, Pending, AtStep, Retiring, Removes, comp, DeleteNative
<1>2. ResetTypes' /\ PlanOK' /\ JournalHolds' /\ PlanHolds' /\ SyncSays'
  BY <1>1, StepKeeps
<1>3. StageOfStep'
  BY <1>1 DEF StageOfStep
<1>4. RetiringSays'
  BY <1>a, <1>1 DEF RetiringSays, comp, Absent
<1>5. KeysSay'
  BY <1>1 DEF KeysSay
<1>6. StageDone'
  BY <1>1 DEF StageDone
<1> QED  BY <1>2, <1>3, <1>4, <1>5, <1>6 DEF KInv

\* Its deletion is acknowledged.
LEMMA AcknowledgeKeeps ==
  ASSUME KInv, Acknowledge
  PROVE  KInv'
<1>a. /\ ResetTypes /\ PlanOK /\ JournalHolds /\ PlanHolds /\ StageOfStep /\ RetiringSays
      /\ KeysSay /\ StageDone /\ SyncSays
  BY DEF KInv
<1>1. /\ Pending /\ Progressing /\ journal \in Journals
      /\ pc = "acknowledge" /\ pc' = "clean"
      /\ UNCHANGED <<at, db, archive>>
      /\ journal.stage \in Component
      /\ forget' = [forget EXCEPT ![comp] = "deleted"] /\ forget'[comp] = "deleted"
      /\ UNCHANGED <<journal, plan, sync, crashes, changes>>
      /\ at' \in [Object -> {"none", "own", "other"}]
      /\ \A o \in Object : at'[o] = at[o] \/ at'[o] = "none"
      /\ db' \subseteq db /\ archive' \in BOOLEAN /\ (archive' => archive)
      /\ forget' \in [Component -> {"none", "intent", "deleted"}]
      /\ pc' \in ResetSteps \ {"prepare"}
  BY <1>a DEF PlanOK, Progressing, ResetTypes, ResetSteps, Pending, AtStep, Retiring, comp, Acknowledge
<1>2. ResetTypes' /\ PlanOK' /\ JournalHolds' /\ PlanHolds' /\ SyncSays'
  BY <1>1, StepKeeps
<1>3. StageOfStep'
  BY <1>1 DEF StageOfStep
<1>4. RetiringSays'
  BY <1>a, <1>1 DEF RetiringSays, comp, Absent
<1>5. KeysSay'
  BY <1>1 DEF KeysSay
<1>6. StageDone'
  BY <1>1 DEF StageDone
<1> QED  BY <1>2, <1>3, <1>4, <1>5, <1>6 DEF KInv

\* Telegram's own archive goes.
LEMMA WipeArchiveKeeps ==
  ASSUME KInv, WipeArchive
  PROVE  KInv'
<1>a. /\ ResetTypes /\ PlanOK /\ JournalHolds /\ PlanHolds /\ StageOfStep /\ RetiringSays
      /\ KeysSay /\ StageDone /\ SyncSays
  BY DEF KInv
<1>1. /\ Pending /\ Progressing /\ journal \in Journals
      /\ pc = "wipe" /\ pc' = "save"
      /\ UNCHANGED <<at, db, forget>> /\ archive' = FALSE
      /\ journal.stage \in Component
      /\ UNCHANGED <<journal, plan, sync, crashes, changes>>
      /\ at' \in [Object -> {"none", "own", "other"}]
      /\ \A o \in Object : at'[o] = at[o] \/ at'[o] = "none"
      /\ db' \subseteq db /\ archive' \in BOOLEAN /\ (archive' => archive)
      /\ forget' \in [Component -> {"none", "intent", "deleted"}]
      /\ pc' \in ResetSteps \ {"prepare"}
  BY <1>a DEF PlanOK, Progressing, ResetTypes, ResetSteps, Pending, AtStep, Retiring, WipeArchive
<1>2. ResetTypes' /\ PlanOK' /\ JournalHolds' /\ PlanHolds' /\ SyncSays'
  BY <1>1, StepKeeps
<1>3. StageOfStep'
  BY <1>1 DEF StageOfStep
<1>4. RetiringSays'
  BY <1>a, <1>1 DEF RetiringSays, comp, Absent, Emptied, Wiped
<1>5. KeysSay'
  BY <1>1 DEF KeysSay
<1>6. StageDone'
  BY <1>1 DEF StageDone
<1> QED  BY <1>2, <1>3, <1>4, <1>5, <1>6 DEF KInv

\* Then its forget journal may go.
LEMMA FinishForgetKeeps ==
  ASSUME KInv, FinishForget
  PROVE  KInv'
<1>a. /\ ResetTypes /\ PlanOK /\ JournalHolds /\ PlanHolds /\ StageOfStep /\ RetiringSays
      /\ KeysSay /\ StageDone /\ SyncSays
  BY DEF KInv
<1>1. /\ Pending /\ Progressing /\ journal \in Journals
      /\ pc = "finish" /\ pc' = IF comp = "mail" THEN "staging" ELSE "advance"
      /\ UNCHANGED <<at, db, archive>>
      /\ journal.stage \in Component
      /\ forget' = [forget EXCEPT ![comp] = "none"]
      /\ UNCHANGED <<journal, plan, sync, crashes, changes>>
      /\ at' \in [Object -> {"none", "own", "other"}]
      /\ \A o \in Object : at'[o] = at[o] \/ at'[o] = "none"
      /\ db' \subseteq db /\ archive' \in BOOLEAN /\ (archive' => archive)
      /\ forget' \in [Component -> {"none", "intent", "deleted"}]
      /\ pc' \in ResetSteps \ {"prepare"}
  BY <1>a DEF PlanOK, Progressing, ResetTypes, ResetSteps, Pending, AtStep, Retiring, FinishForget
<1>2. ResetTypes' /\ PlanOK' /\ JournalHolds' /\ PlanHolds' /\ SyncSays'
  BY <1>1, StepKeeps
<1>3. StageOfStep'
  BY <1>1 DEF StageOfStep, Component
<1>4. RetiringSays'
  BY <1>a, <1>1 DEF RetiringSays, comp, Absent
<1>5. KeysSay'
  BY <1>1 DEF KeysSay
<1>6. StageDone'
  BY <1>a, <1>1
  DEF StageDone, Component, Gone, Wiped, Absent, RetiringSays, JournalHolds, JournalSays, Emptied, Part,
      comp, Component
<1> QED  BY <1>2, <1>3, <1>4, <1>5, <1>6 DEF KInv

\* What mail setup had staged goes.
LEMMA ClearStagingKeeps ==
  ASSUME KInv, ClearStaging
  PROVE  KInv'
<1>a. /\ ResetTypes /\ PlanOK /\ JournalHolds /\ PlanHolds /\ StageOfStep /\ RetiringSays
      /\ KeysSay /\ StageDone /\ SyncSays
  BY DEF KInv
<1>1. /\ Pending /\ Progressing /\ journal \in Journals
      /\ pc = "staging" /\ pc' = "advance"
      /\ UNCHANGED <<db, archive, forget>>
      /\ journal.stage = "mail"
      /\ at' = [at EXCEPT ![<<"mail", "staged">>] = "none"] /\ at'[<<"mail", "staged">>] = "none"
      /\ UNCHANGED <<journal, plan, sync, crashes, changes>>
      /\ at' \in [Object -> {"none", "own", "other"}]
      /\ \A o \in Object : at'[o] = at[o] \/ at'[o] = "none"
      /\ db' \subseteq db /\ archive' \in BOOLEAN /\ (archive' => archive)
      /\ forget' \in [Component -> {"none", "intent", "deleted"}]
      /\ pc' \in ResetSteps \ {"prepare"}
  BY <1>a, ObjectsApart
  DEF PlanOK, Progressing, ResetTypes, ResetSteps, Pending, AtStep, Retiring, Removes, comp, ClearStaging,
      Part, RetiringSays
<1>2. ResetTypes' /\ PlanOK' /\ JournalHolds' /\ PlanHolds' /\ SyncSays'
  BY <1>1, StepKeeps
<1>3. StageOfStep'
  BY <1>1 DEF StageOfStep
<1>4. RetiringSays'
  BY <1>a, <1>1 DEF RetiringSays, Absent
<1>5. KeysSay'
  BY <1>1 DEF KeysSay
<1>6. StageDone'
  BY <1>a, <1>1 DEF StageDone, Gone, Wiped, Absent, RetiringSays, JournalHolds, JournalSays, Emptied
<1> QED  BY <1>2, <1>3, <1>4, <1>5, <1>6 DEF KInv

\* A wrapping key goes.
LEMMA DeleteKeyKeeps ==
  ASSUME KInv, DeleteKey
  PROVE  KInv'
<1>a. /\ ResetTypes /\ PlanOK /\ JournalHolds /\ PlanHolds /\ StageOfStep /\ RetiringSays
      /\ KeysSay /\ StageDone /\ SyncSays
  BY DEF KInv
<1>1. /\ Pending /\ Progressing /\ journal \in Journals
      /\ pc = "delete" /\ pc' = "mark"
      /\ UNCHANGED <<db, archive, forget>>
      /\ journal.stage = "keys" /\ KeysLeft # {} /\ ThisKey \in WrapKey
      /\ at' = [at EXCEPT ![KeyOf(ThisKey)] = "none"] /\ at'[KeyOf(ThisKey)] = "none"
      /\ UNCHANGED <<journal, plan, sync, crashes, changes>>
      /\ at' \in [Object -> {"none", "own", "other"}]
      /\ \A o \in Object : at'[o] = at[o] \/ at'[o] = "none"
      /\ db' \subseteq db /\ archive' \in BOOLEAN /\ (archive' => archive)
      /\ forget' \in [Component -> {"none", "intent", "deleted"}]
      /\ pc' \in ResetSteps \ {"prepare"}
  BY <1>a, ObjectsApart
  DEF PlanOK, Progressing, ResetTypes, ResetSteps, StageOfStep, Pending, AtStep, Removes, DeleteKey, KeysSay,
      KeysLeft, ThisKey
<1>2. ResetTypes' /\ PlanOK' /\ JournalHolds' /\ PlanHolds' /\ SyncSays'
  BY <1>1, StepKeeps
<1>3. StageOfStep'
  BY <1>1 DEF StageOfStep
<1>4. RetiringSays'
  BY <1>a, <1>1 DEF RetiringSays, Absent
<1>5. KeysSay'
  BY <1>1 DEF KeysSay, KeysLeft, ThisKey, Absent
<1>6. StageDone'
  BY <1>1 DEF StageDone
<1> QED  BY <1>2, <1>3, <1>4, <1>5, <1>6 DEF KInv

\* No key is left.
LEMMA LeaveKeysKeeps ==
  ASSUME KInv, LeaveKeys
  PROVE  KInv'
<1>a. /\ ResetTypes /\ PlanOK /\ JournalHolds /\ PlanHolds /\ StageOfStep /\ RetiringSays
      /\ KeysSay /\ StageDone /\ SyncSays
  BY DEF KInv
<1>1. /\ Pending /\ Progressing /\ journal \in Journals
      /\ pc = "key" /\ pc' = "advance"
      /\ UNCHANGED profileVars
      /\ journal.stage = "keys" /\ KeysLeft = {}
      /\ UNCHANGED <<journal, plan, sync, crashes, changes>>
      /\ at' \in [Object -> {"none", "own", "other"}]
      /\ \A o \in Object : at'[o] = at[o] \/ at'[o] = "none"
      /\ db' \subseteq db /\ archive' \in BOOLEAN /\ (archive' => archive)
      /\ forget' \in [Component -> {"none", "intent", "deleted"}]
      /\ pc' \in ResetSteps \ {"prepare"}
  BY <1>a DEF PlanOK, Progressing, ResetTypes, ResetSteps, StageOfStep, Pending, AtStep, Moves, LeaveKeys
<1>2. ResetTypes' /\ PlanOK' /\ JournalHolds' /\ PlanHolds' /\ SyncSays'
  BY <1>1, StepKeeps
<1>3. StageOfStep'
  BY <1>1 DEF StageOfStep
<1>4. RetiringSays'
  BY <1>a, <1>1 DEF RetiringSays, Absent
<1>5. KeysSay'
  BY <1>1 DEF KeysSay
<1>6. StageDone'
  BY <1>1 DEF StageDone, Component, KeysLeft
<1> QED  BY <1>2, <1>3, <1>4, <1>5, <1>6 DEF KInv

\* No file is left.
LEMMA LeaveFilesKeeps ==
  ASSUME KInv, LeaveFiles
  PROVE  KInv'
<1>a. /\ ResetTypes /\ PlanOK /\ JournalHolds /\ PlanHolds /\ StageOfStep /\ RetiringSays
      /\ KeysSay /\ StageDone /\ SyncSays
  BY DEF KInv
<1>1. /\ Pending /\ Progressing /\ journal \in Journals
      /\ pc = "file" /\ pc' = "advance"
      /\ UNCHANGED profileVars
      /\ journal.stage = "files" /\ Named \cap Present = {}
      /\ UNCHANGED <<journal, plan, sync, crashes, changes>>
      /\ at' \in [Object -> {"none", "own", "other"}]
      /\ \A o \in Object : at'[o] = at[o] \/ at'[o] = "none"
      /\ db' \subseteq db /\ archive' \in BOOLEAN /\ (archive' => archive)
      /\ forget' \in [Component -> {"none", "intent", "deleted"}]
      /\ pc' \in ResetSteps \ {"prepare"}
  BY <1>a DEF PlanOK, Progressing, ResetTypes, ResetSteps, StageOfStep, Pending, AtStep, Moves, LeaveFiles
<1>2. ResetTypes' /\ PlanOK' /\ JournalHolds' /\ PlanHolds' /\ SyncSays'
  BY <1>1, StepKeeps
<1>3. StageOfStep'
  BY <1>1 DEF StageOfStep
<1>4. RetiringSays'
  BY <1>a, <1>1 DEF RetiringSays, Absent
<1>5. KeysSay'
  BY <1>1 DEF KeysSay
<1>6. StageDone'
  BY <1>a, ObjectsApart, <1>1
  DEF StageDone, Component, NoneLeft, Absent, JournalHolds, Bound, Named, Present
<1> QED  BY <1>2, <1>3, <1>4, <1>5, <1>6 DEF KInv

\* cleanup goes on with the next file of the source, or has none left.
LEMMA CleansSource ==
  ASSUME CleanSource
  PROVE  \E left \in {TRUE, FALSE} :
           \/ /\ left /\ UNCHANGED <<profileVars, journal>> /\ pc' = IF comp = "mail" THEN "save" ELSE "wipe"
              /\ \A p \in Part(comp) \ {"staged", "native"} : ~Here(comp, p)
           \/ ~left /\ pc' = "clean" /\ \E p \in Part(comp) : Removes(<<comp, p>>)
<1>1. CASE comp = "mail"
  <2> DEFINE order == <<"sealed", "meta", "record">>
             left == {i \in DOMAIN order : Here(comp, order[i])}
  <2>1. DOMAIN order = {1, 2, 3} /\ order[1] = "sealed" /\ order[2] = "meta" /\ order[3] = "record"
    OBVIOUS
  <2> HIDE DEF order
  <2>2. CASE left = {}
    <3>1. \A p \in Part(comp) \ {"staged", "native"} : ~Here(comp, p)
      BY <1>1, <2>1, <2>2 DEF Part
    <3> QED  BY <1>1, <2>2, <3>1 DEF CleanSource, Retiring, AtStep, Moves, order
  <2>3. CASE left # {}
    <3>1. PICK i \in left : i = CHOOSE m \in left : \A j \in left : m <= j
      <4>1. \E i \in left : \A j \in left : i <= j
        BY <2>1, <2>3
      <4> QED  BY <4>1
    <3>2. order[i] \in Part(comp)
      BY <1>1, <2>1 DEF Part
    <3> QED  BY <1>1, <2>3, <3>1, <3>2 DEF CleanSource, Retiring, AtStep, order
  <2> QED  BY <2>2, <2>3
<1>2. CASE comp # "mail"
  <2> DEFINE order == <<"meta", "sealed">>
             left == {i \in DOMAIN order : Here(comp, order[i])}
  <2>1. DOMAIN order = {1, 2} /\ order[1] = "meta" /\ order[2] = "sealed"
    OBVIOUS
  <2> HIDE DEF order
  <2>2. CASE left = {}
    <3>1. \A p \in Part(comp) \ {"staged", "native"} : ~Here(comp, p)
      BY <1>2, <2>1, <2>2 DEF Part
    <3> QED  BY <1>2, <2>2, <3>1 DEF CleanSource, Retiring, AtStep, Moves, order
  <2>3. CASE left # {}
    <3>1. PICK i \in left : i = CHOOSE m \in left : \A j \in left : m <= j
      <4>1. \E i \in left : \A j \in left : i <= j
        BY <2>1, <2>3
      <4> QED  BY <4>1
    <3>2. order[i] \in Part(comp)
      BY <1>2, <2>1 DEF Part
    <3> QED  BY <1>2, <2>3, <3>1, <3>2 DEF CleanSource, Retiring, AtStep, order
  <2> QED  BY <2>2, <2>3
<1> QED  BY <1>1, <1>2

\* The files of its source go.
LEMMA CleanSourceKeeps ==
  ASSUME KInv, CleanSource
  PROVE  KInv'
<1>a. /\ ResetTypes /\ PlanOK /\ JournalHolds /\ PlanHolds /\ StageOfStep /\ RetiringSays
      /\ KeysSay /\ StageDone /\ SyncSays
  BY DEF KInv
<1>1. PICK left \in {TRUE, FALSE} :
         \/ /\ left /\ UNCHANGED <<profileVars, journal>> /\ pc' = IF comp = "mail" THEN "save" ELSE "wipe"
            /\ \A p \in Part(comp) \ {"staged", "native"} : ~Here(comp, p)
         \/ ~left /\ pc' = "clean" /\ \E p \in Part(comp) : Removes(<<comp, p>>)
  BY CleansSource
<1>2. Retiring("clean")
  BY DEF CleanSource
<1>3. /\ Pending /\ Progressing /\ journal \in Journals /\ journal.stage \in Component
      /\ pc = "clean"
      /\ UNCHANGED <<journal, plan, sync, crashes, changes, db, archive, forget>>
      /\ at' \in [Object -> {"none", "own", "other"}]
      /\ \A o \in Object : at'[o] = at[o] \/ at'[o] = "none"
      /\ pc' \in ResetSteps \ {"prepare"} /\ pc' \in {"clean", "save", "wipe"}
      /\ db' \subseteq db /\ archive' \in BOOLEAN /\ (archive' => archive)
      /\ forget' \in [Component -> {"none", "intent", "deleted"}]
  <2>1. /\ Pending /\ Progressing /\ journal \in Journals /\ journal.stage \in Component
        /\ pc = "clean"
        /\ UNCHANGED <<plan, sync, crashes, changes>>
    BY <1>a, <1>2 DEF PlanOK, Progressing, ResetTypes, Pending, AtStep, Retiring
  <2>2. CASE left
    BY <1>a, <1>1, <2>1, <2>2 DEF ResetTypes, ResetSteps
  <2>3. CASE ~left
    <3>1. PICK p \in Part(comp) : Removes(<<comp, p>>)
      BY <1>1, <2>3
    <3>2. /\ UNCHANGED <<journal, db, archive, forget>>
          /\ at' \in [Object -> {"none", "own", "other"}]
          /\ \A o \in Object : at'[o] = at[o] \/ at'[o] = "none"
      BY <1>a, <3>1 DEF ResetTypes, Removes
    <3> QED  BY <1>a, <1>1, <2>1, <2>3, <3>2 DEF ResetTypes, ResetSteps
  <2> QED  BY <2>2, <2>3
<1>4. ResetTypes' /\ PlanOK' /\ JournalHolds' /\ PlanHolds' /\ SyncSays'
  BY <1>3, StepKeeps
<1>5. pc' \in {"save", "wipe"} => Emptied(comp)' /\ (pc' = "wipe" <=> comp = "telegram")
  BY <1>a, <1>1, <1>3, ObjectsApart DEF Emptied, Absent, Here, Present, RetiringSays, Component, comp
<1>6. StageOfStep'
  BY <1>3 DEF StageOfStep
<1>7. RetiringSays'
  BY <1>a, ObjectsApart, <1>3, <1>5 DEF RetiringSays, comp, Absent, Wiped
<1>8. KeysSay'
  BY <1>1 DEF KeysSay
<1>9. StageDone'
  BY <1>1 DEF StageDone
<1> QED  BY <1>4, <1>6, <1>7, <1>8, <1>9 DEF KInv

\* A known file of the keyvault goes.
LEMMA RemoveFileKeeps ==
  ASSUME KInv, RemoveFile
  PROVE  KInv'
<1>a. /\ ResetTypes /\ PlanOK /\ JournalHolds /\ PlanHolds /\ StageOfStep /\ RetiringSays
      /\ KeysSay /\ StageDone /\ SyncSays
  BY DEF KInv
<1>1. /\ pc = "file" /\ journal.stage = "files" /\ pc' \in {"file", "idle"}
      /\ Pending /\ Progressing /\ journal \in Journals
      /\ UNCHANGED <<journal, plan, sync, crashes, changes, db, archive, forget>>
      /\ at' \in [Object -> {"none", "own", "other"}]
      /\ \A o \in Object : at'[o] = at[o] \/ at'[o] = "none"
      /\ pc' \in ResetSteps \ {"prepare"}
      /\ db' \subseteq db /\ archive' \in BOOLEAN /\ (archive' => archive)
      /\ forget' \in [Component -> {"none", "intent", "deleted"}]
  BY <1>a
  DEF PlanOK, Progressing, ResetTypes, ResetSteps, StageOfStep, Pending, AtStep, Moves, Removes, RemoveFile
<1>2. ResetTypes' /\ PlanOK' /\ JournalHolds' /\ PlanHolds' /\ SyncSays'
  BY <1>1, StepKeeps
<1>3. StageOfStep'
  BY <1>1 DEF StageOfStep
<1>4. RetiringSays'
  BY <1>a, ObjectsApart, <1>1 DEF RetiringSays, Absent
<1>5. KeysSay'
  BY <1>1 DEF KeysSay
<1>6. StageDone'
  BY <1>1 DEF StageDone
<1> QED  BY <1>2, <1>3, <1>4, <1>5, <1>6 DEF KInv

\* The journal calls the component retired.
LEMMA SaveRetiredKeeps ==
  ASSUME KInv, SaveRetired
  PROVE  KInv'
<1>a. /\ ResetTypes /\ PlanOK /\ JournalHolds /\ PlanHolds /\ StageOfStep /\ RetiringSays
      /\ KeysSay /\ StageDone /\ SyncSays
  BY DEF KInv
<1>1. /\ Pending /\ Progressing /\ journal \in Journals /\ plan = NoJournal
      /\ pc = "save" /\ pc' = "finish"
      /\ journal.stage \in Component
      /\ journal' = [journal EXCEPT !.retired = @ \cup {comp}]
      /\ UNCHANGED <<at, db, archive, forget, plan, sync, crashes, changes>>
  BY <1>a DEF PlanOK, Progressing, ResetTypes, Pending, AtStep, Retiring, Saves, SaveRetired
<1>2. /\ journal' \in Journals /\ journal' # NoJournal /\ journal'.stage = journal.stage
      /\ journal'.seen = journal.seen /\ journal'.old = journal.old
      /\ journal'.retired = journal.retired \cup {comp} /\ journal'.key = journal.key
  BY <1>1, <1>a, NoJournalAssumption, StageOrder DEF Journals, Component, comp, KeysLeft
<1>3. ResetTypes'
  BY <1>a, <1>1, <1>2 DEF ResetTypes
<1>4. PlanOK'
  BY <1>1, <1>2 DEF PlanOK, Pending, ResetSteps
<1>5. JournalHolds'
  <2>1. JournalSays(journal) /\ Bound(journal)
    BY <1>a, <1>1 DEF JournalHolds
  <2>2. JournalSays(journal)'
    BY <1>a, <1>1, <2>1 DEF JournalSays, RetiringSays, Absent, Emptied, Gone, Wiped, NoneLeft, NoSync
  <2>3. Bound(journal)'
    BY <1>1, <1>2, <2>1 DEF Bound, Present, Absent
  <2> QED  BY <2>2, <2>3 DEF JournalHolds
<1>6. PlanHolds'
  BY <1>1 DEF PlanHolds
<1>7. StageOfStep'
  BY <1>1 DEF StageOfStep
<1>8. RetiringSays'
  BY <1>a, <1>1 DEF RetiringSays, comp, Absent
<1>9. KeysSay'
  BY <1>1 DEF KeysSay
<1>10. StageDone'
  BY <1>1 DEF StageDone
<1>11. SyncSays'
  BY <1>a, <1>1, <1>2 DEF SyncSays, Pending, NoSync
<1> QED  BY <1>3, <1>4, <1>5, <1>6, <1>7, <1>8, <1>9, <1>10, <1>11 DEF KInv

\* The journal calls it deleted.
LEMMA MarkKeyKeeps ==
  ASSUME KInv, MarkKey
  PROVE  KInv'
<1>a. /\ ResetTypes /\ PlanOK /\ JournalHolds /\ PlanHolds /\ StageOfStep /\ RetiringSays
      /\ KeysSay /\ StageDone /\ SyncSays
  BY DEF KInv
<1>1. /\ Pending /\ Progressing /\ journal \in Journals /\ plan = NoJournal
      /\ pc = "mark" /\ pc' = "key"
      /\ journal.stage = "keys" /\ KeysLeft # {} /\ ThisKey \in WrapKey
      /\ journal' = [journal EXCEPT !.key[ThisKey] = "deleted"]
      /\ UNCHANGED <<at, db, archive, forget, plan, sync, crashes, changes>>
  BY <1>a
  DEF PlanOK, Progressing, ResetTypes, StageOfStep, Pending, AtStep, Saves, MarkKey, SavesKey, KeysSay,
      KeysLeft, ThisKey
<1>2. /\ journal' \in Journals /\ journal' # NoJournal /\ journal'.stage = journal.stage
      /\ journal'.seen = journal.seen /\ journal'.old = journal.old
      /\ journal'.retired = journal.retired /\ journal'.key = [journal.key EXCEPT ![ThisKey] = "deleted"]
  BY <1>1, <1>a, NoJournalAssumption, StageOrder DEF Journals, Component, comp, KeysLeft
<1>3. \A k \in WrapKey : journal'.key[k] = IF k = ThisKey THEN "deleted" ELSE journal.key[k]
  BY <1>1, <1>2 DEF Journals
<1>4. ResetTypes'
  BY <1>a, <1>1, <1>2 DEF ResetTypes
<1>5. PlanOK'
  BY <1>1, <1>2 DEF PlanOK, Pending, ResetSteps
<1>6. JournalHolds'
  <2>1. JournalSays(journal) /\ Bound(journal)
    BY <1>a, <1>1 DEF JournalHolds
  <2>2. JournalSays(journal)'
    BY <1>a, <1>1, <2>1 DEF JournalSays, KeysSay, Absent, Emptied, Gone, Wiped, NoSync
  <2>3. Bound(journal)'
    BY <1>1, <1>2, <2>1 DEF Bound, Present, Absent
  <2> QED  BY <2>2, <2>3 DEF JournalHolds
<1>7. PlanHolds'
  BY <1>1 DEF PlanHolds
<1>8. StageOfStep'
  BY <1>1 DEF StageOfStep
<1>9. RetiringSays'
  BY <1>a, <1>1 DEF RetiringSays, Absent
<1>10. KeysSay'
  BY <1>1 DEF KeysSay
<1>11. StageDone'
  BY <1>1 DEF StageDone
<1>12. SyncSays'
  BY <1>a, <1>1, <1>2 DEF SyncSays, Pending, NoSync
<1> QED  BY <1>4, <1>5, <1>6, <1>7, <1>8, <1>9, <1>10, <1>11, <1>12 DEF KInv

\* An attempt stops: refused, declined, failed or dead.
LEMMA EndsKeeps ==
  ASSUME KInv, pc # "idle", pc' = "idle", plan' = NoJournal,
         UNCHANGED <<profileVars, journal, sync, changes>>, crashes' \in 0..MaxCrash
  PROVE  KInv'
<1>a. /\ ResetTypes /\ PlanOK /\ JournalHolds /\ PlanHolds /\ StageOfStep /\ RetiringSays
      /\ KeysSay /\ StageDone /\ SyncSays
  BY DEF KInv
<1>1. ResetTypes'
  BY <1>a DEF ResetTypes
<1>2. PlanOK'
  BY DEF PlanOK, Progressing, ResetSteps
<1>3. JournalHolds'
  BY <1>a
  DEF JournalHolds, JournalSays, Bound, Progressing, Pending, Absent, Emptied, Gone, Wiped, NoneLeft, NoSync,
      Present
<1>4. PlanHolds'
  BY DEF PlanHolds
<1>5. StageOfStep'
  BY DEF StageOfStep
<1>6. RetiringSays'
  BY <1>a DEF RetiringSays, Absent
<1>7. KeysSay'
  BY DEF KeysSay
<1>8. StageDone'
  BY DEF StageDone
<1>9. SyncSays'
  BY <1>a DEF SyncSays, Pending, NoSync, Here, Present
<1> QED  BY <1>1, <1>2, <1>3, <1>4, <1>5, <1>6, <1>7, <1>8, <1>9 DEF KInv

\* The next stage, which is what the stage that is done has earned.
LEMMA AdvanceKeeps ==
  ASSUME KInv, Advance, pc' # "idle"
  PROVE  KInv'
<1>a. /\ ResetTypes /\ PlanOK /\ JournalHolds /\ PlanHolds /\ StageOfStep /\ RetiringSays
      /\ KeysSay /\ StageDone /\ SyncSays
  BY DEF KInv
<1>1. /\ Pending /\ Progressing /\ journal \in Journals /\ plan = NoJournal
      /\ pc = "advance" /\ pc' = IF journal'.stage = "complete" THEN "clear" ELSE "check"
      /\ journal' = [journal EXCEPT !.stage = After(@)]
      /\ journal.stage # "complete"
      /\ UNCHANGED <<at, db, archive, forget, plan, sync, crashes, changes>>
  BY <1>a DEF PlanOK, Progressing, ResetTypes, StageOfStep, Pending, AtStep, Saves, Advance
<1>2. /\ journal' \in Journals /\ journal' # NoJournal /\ journal'.stage = After(journal.stage)
      /\ journal'.seen = journal.seen /\ journal'.old = journal.old
      /\ journal'.retired = journal.retired /\ journal'.key = journal.key
  BY <1>1, <1>a, NoJournalAssumption, StageOrder DEF Journals, Component, comp, KeysLeft
<1>3. ResetTypes'
  BY <1>a, <1>1, <1>2 DEF ResetTypes
<1>4. PlanOK'
  BY <1>1, <1>2 DEF PlanOK, Pending, ResetSteps
<1>5. JournalHolds'
  <2>1. JournalSays(journal) /\ Bound(journal)
    BY <1>a, <1>1 DEF JournalHolds
  <2>2. JournalSays(journal)'
    <3>1. /\ UNCHANGED <<at, db, archive, sync>> /\ journal'.key = journal.key
          /\ journal'.retired = journal.retired /\ journal'.old = journal.old
      BY <1>1, <1>2
    <3>2. CASE journal.stage = "database"
      <4>1. journal'.stage = "mail" /\ db = {}
        BY <1>a, <1>1, <1>2, <3>2, StageOrder DEF StageDone
      <4> QED
        BY <2>1, <3>1, <3>2, <4>1
        DEF JournalSays, Later, Component, Absent, Emptied, Gone, Wiped, NoneLeft, NoSync
    <3>3. CASE journal.stage = "mail"
      <4>1. journal'.stage = "telegram" /\ Gone("mail") /\ Wiped("mail")
        BY <1>a, <1>1, <1>2, <3>3, StageOrder DEF StageDone, Component
      <4> QED
        BY <2>1, <3>1, <3>3, <4>1
        DEF JournalSays, Later, Component, Absent, Emptied, Gone, Wiped, NoneLeft, NoSync
    <3>4. CASE journal.stage = "telegram"
      <4>1. journal'.stage = "keys" /\ Gone("telegram") /\ Wiped("telegram")
        BY <1>a, <1>1, <1>2, <3>4, StageOrder DEF StageDone, Component
      <4> QED
        BY <2>1, <3>1, <3>4, <4>1
        DEF JournalSays, Later, Component, Absent, Emptied, Gone, Wiped, NoneLeft, NoSync
    <3>5. CASE journal.stage = "keys"
      <4>1. journal'.stage = "files" /\ \A k \in WrapKey : journal.key[k] = "deleted"
        BY <1>a, <1>1, <1>2, <3>5, StageOrder DEF StageDone, KeysLeft
      <4> QED
        BY <2>1, <3>1, <3>5, <4>1
        DEF JournalSays, Later, Component, Absent, Emptied, Gone, Wiped, NoneLeft, NoSync
    <3>6. CASE journal.stage = "files"
      <4>1. journal'.stage = "complete" /\ NoneLeft
        BY <1>a, <1>1, <1>2, <3>6, StageOrder DEF StageDone
      <4> QED
        BY <2>1, <3>1, <3>6, <4>1
        DEF JournalSays, Later, Component, Absent, Emptied, Gone, Wiped, NoneLeft, NoSync
    <3> QED  BY <1>1, <3>2, <3>3, <3>4, <3>5, <3>6, StageOrder DEF Journals
  <2>3. Bound(journal)'
    BY <1>1, <1>2, <2>1 DEF Bound, Present, Absent
  <2> QED  BY <2>2, <2>3 DEF JournalHolds
<1>6. PlanHolds'
  BY <1>1 DEF PlanHolds
<1>7. StageOfStep'
  BY <1>1 DEF StageOfStep
<1>8. RetiringSays'
  BY <1>a, <1>1 DEF RetiringSays, Absent
<1>9. KeysSay'
  BY <1>1 DEF KeysSay
<1>10. StageDone'
  BY <1>1 DEF StageDone
<1>11. SyncSays'
  BY <1>a, <1>1, <1>2 DEF SyncSays, Pending, NoSync
<1> QED  BY <1>3, <1>4, <1>5, <1>6, <1>7, <1>8, <1>9, <1>10, <1>11 DEF KInv

\* The journal announces the deletion of the next wrapping key.
LEMMA IntendKeyKeeps ==
  ASSUME KInv, IntendKey, pc' # "idle"
  PROVE  KInv'
<1>a. /\ ResetTypes /\ PlanOK /\ JournalHolds /\ PlanHolds /\ StageOfStep /\ RetiringSays
      /\ KeysSay /\ StageDone /\ SyncSays
  BY DEF KInv
<1>1. /\ pc = "key" /\ pc' = "delete" /\ KeysLeft # {} /\ ThisKey \in KeysLeft /\ ThisKey \in WrapKey
      /\ Absent(KeyOf(ThisKey)) \/ (at[KeyOf(ThisKey)] = "own" /\ KeyOf(ThisKey) \in journal.seen)
      /\ UNCHANGED <<at, db, archive, forget, plan, sync, crashes, changes>>
      /\ journal' = [journal EXCEPT !.key[ThisKey] = "deleting"]
      /\ Pending /\ Progressing /\ journal \in Journals /\ plan = NoJournal /\ journal.stage = "keys"
  <2>1. pc = "key" /\ KeysLeft # {} /\ ThisKey \in KeysLeft /\ ThisKey \in WrapKey /\ pc' = "delete"
    BY DEF IntendKey, AtStep, ThisKey, KeysLeft
  <2>2. Pending /\ Progressing /\ journal \in Journals /\ plan = NoJournal /\ journal.stage = "keys"
    BY <1>a, <2>1 DEF PlanOK, Progressing, ResetTypes, StageOfStep, Pending
  <2>3. UNCHANGED <<at, db, archive, forget, plan, sync, crashes, changes>>
    BY <2>1 DEF IntendKey, AtStep, Moves, Saves, SavesKey
  <2>4. journal' = [journal EXCEPT !.key[ThisKey] = "deleting"]
    BY <2>1 DEF IntendKey, Saves, SavesKey
  <2>5. Absent(KeyOf(ThisKey)) \/ (at[KeyOf(ThisKey)] = "own" /\ KeyOf(ThisKey) \in journal.seen)
    BY <2>1 DEF IntendKey, Unchanged, UnchangedOrGone, Absent
  <2> QED  BY <2>1, <2>2, <2>3, <2>4, <2>5
<1>2. /\ journal' \in Journals /\ journal' # NoJournal /\ journal'.stage = journal.stage
      /\ journal'.seen = journal.seen /\ journal'.old = journal.old
      /\ journal'.retired = journal.retired /\ journal'.key = [journal.key EXCEPT ![ThisKey] = "deleting"]
  BY <1>1, <1>a, NoJournalAssumption, StageOrder DEF Journals, Component, comp, KeysLeft
<1>3. \A k \in WrapKey : journal'.key[k] = IF k = ThisKey THEN "deleting" ELSE journal.key[k]
  BY <1>1, <1>2 DEF Journals
<1>4. KeysLeft' = KeysLeft
  BY <1>1, <1>3 DEF KeysLeft
<1>5. ThisKey' = ThisKey
  BY <1>4 DEF ThisKey
<1>6. ResetTypes'
  BY <1>a, <1>1, <1>2 DEF ResetTypes
<1>7. PlanOK'
  BY <1>1, <1>2 DEF PlanOK, Pending, ResetSteps
<1>8. JournalHolds'
  <2>1. JournalSays(journal) /\ Bound(journal)
    BY <1>a, <1>1 DEF JournalHolds
  <2>2. JournalSays(journal)'
    BY <1>1, <2>1 DEF JournalSays, Absent, Emptied, Gone, Wiped, NoSync
  <2>3. Bound(journal)'
    BY <1>1, <1>2, <2>1 DEF Bound, Present, Absent
  <2> QED  BY <2>2, <2>3 DEF JournalHolds
<1>9. PlanHolds'
  BY <1>1 DEF PlanHolds
<1>10. StageOfStep'
  BY <1>1 DEF StageOfStep
<1>11. RetiringSays'
  BY <1>a, <1>1 DEF RetiringSays, Absent
<1>12. KeysSay'
  BY <1>1, <1>2, <1>4, <1>5 DEF KeysSay, Absent
<1>13. StageDone'
  BY <1>1 DEF StageDone
<1>14. SyncSays'
  BY <1>a, <1>1, <1>2 DEF SyncSays, Pending, NoSync
<1> QED  BY <1>6, <1>7, <1>8, <1>9, <1>10, <1>11, <1>12, <1>13, <1>14 DEF KInv

\* The journal goes, last of all.
LEMMA ClearKeeps ==
  ASSUME KInv, Clear, Checked
  PROVE  KInv'
<1>a. /\ ResetTypes /\ PlanOK /\ JournalHolds /\ PlanHolds /\ StageOfStep /\ RetiringSays
      /\ KeysSay /\ StageDone /\ SyncSays
  BY DEF KInv
<1>1. /\ pc = "clear" /\ pc' = "idle" /\ journal' = NoJournal /\ Pending /\ Progressing /\ plan = NoJournal
      /\ UNCHANGED <<at, db, archive, forget, plan, sync, crashes, changes>> /\ journal.stage = "complete"
  BY <1>a DEF Clear, AtStep, Moves, Saves, PlanOK, Progressing, Pending, StageOfStep
<1>2. JournalSays(journal) /\ Bound(journal)
  BY <1>a, <1>1 DEF JournalHolds
<1>3. db = {} /\ ~archive
  BY <1>2, <1>1 DEF JournalSays, Bound, Wiped, Later, Component
<1>4. ResetTypes'
  BY <1>a, <1>1 DEF ResetTypes
<1>5. PlanOK'
  BY <1>1 DEF PlanOK, Progressing, ResetSteps
<1>6. JournalHolds'
  BY <1>1 DEF JournalHolds, Pending
<1>7. PlanHolds'
  BY <1>1 DEF PlanHolds
<1>8. StageOfStep'
  BY <1>1 DEF StageOfStep
<1>9. RetiringSays'
  BY <1>a, <1>1 DEF RetiringSays, Absent
<1>10. KeysSay'
  BY <1>1 DEF KeysSay
<1>11. StageDone'
  BY <1>1 DEF StageDone
<1>12. SyncSays'
  BY <1>a, <1>1, <1>3 DEF SyncSays, NoSync
<1> QED  BY <1>4, <1>5, <1>6, <1>7, <1>8, <1>9, <1>10, <1>11, <1>12 DEF KInv

\* A new attempt observes, or takes up the journal there is.
LEMMA StartKeeps ==
  ASSUME KInv, Start
  PROVE  KInv'
<1>a. /\ ResetTypes /\ PlanOK /\ JournalHolds /\ PlanHolds /\ StageOfStep /\ RetiringSays
      /\ KeysSay /\ StageDone /\ SyncSays
  BY DEF KInv
<1>1. /\ pc = "idle" /\ pc' \in {"idle", "prepare"} /\ plan = NoJournal
      /\ UNCHANGED <<db, archive, forget, journal, sync, crashes, changes>>
      /\ pc' = "idle" => plan' = NoJournal
      /\ pc' = "prepare" => plan' = Proposed /\ MayGoOn
      /\ Managed => NoSync
  BY <1>a DEF Start, Prepare, PlanOK, NoSync
<1>2. /\ at' \in [Object -> {"none", "own", "other"}] /\ Present' = Present
      /\ \A o \in Object : at'[o] = "none" <=> at[o] = "none"
  <2>1. CASE MayGoOn /\ Observes
    <3>1. at' = [o \in Object |-> IF at[o] = "none" THEN "none" ELSE "own"]
      BY <2>1 DEF Start, Prepare
    <3> QED  BY <3>1 DEF Present
  <2>2. CASE ~(MayGoOn /\ Observes)
    <3>1. at' = at
      BY <2>2 DEF Start, Prepare
    <3> QED  BY <1>a, <3>1 DEF Present, ResetTypes
  <2> QED  BY <2>1, <2>2
<1>3. pc' = "prepare" => /\ plan' \in Journals /\ JournalSays(plan)' /\ Bound(plan)'
                         /\ ~Pending => plan'.stage = "database" /\ plan'.retired = {} /\ ~plan'.old
  <2> SUFFICES ASSUME pc' = "prepare"
               PROVE  /\ plan' \in Journals /\ JournalSays(plan)' /\ Bound(plan)'
                      /\ ~Pending => plan'.stage = "database" /\ plan'.retired = {} /\ ~plan'.old
    OBVIOUS
  <2>1. plan' = Proposed /\ MayGoOn /\ Present \subseteq Object
    BY <1>1 DEF Present
  <2>2. CASE journal = NoJournal
    <3>1. plan' = [stage |-> "database", seen |-> Present, retired |-> {},
                   key |-> [k \in WrapKey |-> "pending"], old |-> FALSE]
      BY <2>1, <2>2 DEF Proposed
    <3>2. /\ plan'.stage = "database" /\ plan'.seen = Present /\ plan'.retired = {} /\ ~plan'.old
          /\ \A k \in WrapKey : plan'.key[k] = "pending"
      BY <3>1
    <3>3. plan' \in Journals
      BY <2>1, <3>1, StageOrder DEF Journals
    <3>4. JournalSays(plan)' /\ Bound(plan)'
      BY <1>2, <3>2 DEF JournalSays, Bound, Later
    <3> QED  BY <3>2, <3>3, <3>4
  <2>3. CASE journal # NoJournal
    <3>1. Pending /\ JournalSays(journal) /\ journal \in Journals
      BY <1>a, <2>3 DEF JournalHolds, Pending, ResetTypes
    <3>2. /\ plan' \in Journals /\ plan'.stage = journal.stage /\ plan'.retired = journal.retired
               /\ plan'.old = journal.old
          /\ plan'.key = journal.key /\ plan'.seen = IF ToUpgrade THEN Present ELSE journal.seen
      BY <2>1, <2>3, <3>1 DEF Proposed, Journals
    <3>3. JournalSays(plan)'
      BY <1>1, <1>2, <3>1, <3>2, ObjectsApart
      DEF JournalSays, Absent, Emptied, Gone, Wiped, NoneLeft, NoSync
    <3>4. CASE ToUpgrade
      <4>1. Present \cap Credential = {} /\ db = {} /\ ~archive
        BY <2>1, <3>4 DEF MayGoOn
      <4> QED  BY <1>1, <1>2, <3>1, <3>2, <3>3, <3>4, <4>1, ObjectsApart DEF Bound, Absent, Present
    <3>5. CASE ~ToUpgrade
      <4>1. journal # OldJournal
        BY <2>3, <3>5 DEF ToUpgrade, OldJournal
      <4>2. Bound(journal)
        BY <1>a, <3>1, <4>1 DEF JournalHolds
      <4> QED  BY <1>1, <1>2, <3>1, <3>2, <3>3, <4>2, ObjectsApart DEF Bound, Absent
    <3> QED  BY <3>4, <3>5
  <2> QED  BY <2>2, <2>3
<1>4. ResetTypes'
  BY <1>a, <1>1, <1>2, <1>3 DEF ResetTypes
<1>5. PlanOK'
  BY <1>1, <1>3, NoJournalAssumption DEF PlanOK, Progressing, ResetSteps
<1>6. JournalHolds'
  BY <1>a, ObjectsApart, <1>1, <1>2
  DEF JournalHolds, JournalSays, Bound, Progressing, Pending, Absent, Emptied, Gone, Wiped, NoneLeft, NoSync
<1>7. PlanHolds'
  BY <1>1, <1>3 DEF PlanHolds, Pending
<1>8. StageOfStep'
  BY <1>1 DEF StageOfStep
<1>9. RetiringSays'
  BY <1>a, ObjectsApart, <1>1, <1>2 DEF RetiringSays, Absent
<1>10. KeysSay'
  BY <1>1 DEF KeysSay
<1>11. StageDone'
  BY <1>1 DEF StageDone
<1>12. SyncSays'
  BY <1>a, <1>1, <1>2 DEF SyncSays, Pending, NoSync, Here
<1> QED  BY <1>4, <1>5, <1>6, <1>7, <1>8, <1>9, <1>10, <1>11, <1>12 DEF KInv

\* The person agrees to the journal that was proposed.
LEMMA ConfirmKeeps ==
  ASSUME KInv, Confirm
  PROVE  KInv'
<1>a. /\ ResetTypes /\ PlanOK /\ JournalHolds /\ PlanHolds /\ StageOfStep /\ RetiringSays
      /\ KeysSay /\ StageDone /\ SyncSays
  BY DEF KInv
<1>1. /\ pc = "prepare" /\ plan # NoJournal /\ plan \in Journals /\ journal' = plan /\ plan' = NoJournal
      /\ pc' = IF plan.stage = "complete" THEN "clear" ELSE "check"
      /\ UNCHANGED <<at, db, archive, forget, sync, crashes, changes>>
      /\ JournalSays(plan) /\ Bound(plan)
  BY <1>a DEF Confirm, PlanOK, PlanHolds, ResetTypes
<1>2. ResetTypes'
  BY <1>a, <1>1 DEF ResetTypes
<1>3. PlanOK'
  BY <1>1 DEF PlanOK, Pending, ResetSteps
<1>4. JournalHolds'
  BY <1>1 DEF JournalHolds, JournalSays, Bound, Absent, Emptied, Gone, Wiped, NoneLeft, NoSync, Present
<1>5. PlanHolds'
  BY <1>1 DEF PlanHolds
<1>6. StageOfStep'
  BY <1>1 DEF StageOfStep
<1>7. RetiringSays'
  BY <1>a, <1>1 DEF RetiringSays, Absent
<1>8. KeysSay'
  BY <1>1 DEF KeysSay
<1>9. StageDone'
  BY <1>1 DEF StageDone
<1>10. SyncSays'
  BY <1>a, <1>1 DEF SyncSays, Pending, NoSync
<1> QED  BY <1>2, <1>3, <1>4, <1>5, <1>6, <1>7, <1>8, <1>9, <1>10 DEF KInv

\* Somebody changes an object beside it.
LEMMA ChangeByHandKeeps ==
  ASSUME KInv, NEW o \in Object, ChangeByHand(o)
  PROVE  KInv'
<1>a. /\ ResetTypes /\ PlanOK /\ JournalHolds /\ PlanHolds /\ StageOfStep /\ RetiringSays
      /\ KeysSay /\ StageDone /\ SyncSays
  BY DEF KInv
<1>1. PICK new \in {"none", "other"} : at' = [at EXCEPT ![o] = new]
  BY DEF ChangeByHand
<1>2. /\ pc = "prepare" \/ (pc = "idle" /\ Pending)
      /\ at[o] # "none" /\ changes' = changes + 1 /\ changes < MaxForeign
      /\ UNCHANGED <<db, archive, forget, journal, plan, pc, sync, crashes>>
  BY DEF ChangeByHand, Present, Pending
<1>3. /\ at' \in [Object -> {"none", "own", "other"}] /\ \A p \in Object : at[p] = "none" => at'[p] = "none"
  BY <1>a, <1>1, <1>2 DEF ResetTypes
<1>4. changes' \in 0..MaxForeign /\ changes' # 0
  BY <1>a, <1>2, ForeignAssumption DEF ResetTypes
<1>5. ResetTypes'
  BY <1>a, <1>1, <1>2, <1>4 DEF ResetTypes
<1>6. PlanOK'
  BY <1>a, <1>2 DEF PlanOK, Progressing
<1>7. JournalHolds'
  BY <1>a, <1>1, <1>2
  DEF JournalHolds, JournalSays, Bound, Progressing, Pending, Absent, Emptied, Gone, Wiped, NoneLeft, NoSync,
      Present
<1>8. PlanHolds'
  BY <1>a, <1>1, <1>2
  DEF PlanHolds, JournalSays, Bound, Pending, Absent, Emptied, Gone, Wiped, NoneLeft, NoSync, Present
<1>9. StageOfStep'
  BY <1>2 DEF StageOfStep
<1>10. RetiringSays'
  BY <1>a, <1>1, <1>2 DEF RetiringSays, Absent
<1>11. KeysSay'
  BY <1>2 DEF KeysSay
<1>12. StageDone'
  BY <1>2 DEF StageDone
<1>13. SyncSays'
  BY <1>a, <1>2, <1>4 DEF SyncSays, NoSync
<1> QED  BY <1>5, <1>6, <1>7, <1>8, <1>9, <1>10, <1>11, <1>12, <1>13 DEF KInv

\* A native key is made.
LEMMA EnrollKeyKeeps ==
  ASSUME KInv, NEW c \in Component, EnrollKey(c)
  PROVE  KInv'
<1>a. /\ ResetTypes /\ PlanOK /\ JournalHolds /\ PlanHolds /\ StageOfStep /\ RetiringSays
      /\ KeysSay /\ StageDone /\ SyncSays
  BY DEF KInv
<1>1. /\ journal = NoJournal /\ pc = "idle" /\ plan = NoJournal /\ forget[c] = "none"
      /\ UNCHANGED <<db, archive, forget, journal, plan, pc, sync, crashes, changes>>
      /\ at' \in [Object -> {"none", "own", "other"}]
      /\ \A o \in Object : o \notin {<<c, "native">>, <<c, "record">>} => at'[o] = at[o]
  BY <1>a DEF EnrollKey, Elsewhere, PlanOK, Progressing, Pending, ResetTypes
<1>2. ResetTypes'
  BY <1>a, <1>1 DEF ResetTypes
<1>3. PlanOK'
  BY <1>a, <1>1 DEF PlanOK, Progressing
<1>4. JournalHolds'
  BY <1>1 DEF JournalHolds, Pending
<1>5. PlanHolds'
  BY <1>1 DEF PlanHolds
<1>6. StageOfStep'
  BY <1>1 DEF StageOfStep
<1>7. RetiringSays'
  BY <1>a, ObjectsApart, <1>1 DEF RetiringSays, Absent
<1>8. KeysSay'
  BY <1>1 DEF KeysSay
<1>9. StageDone'
  BY <1>1 DEF StageDone
<1>10. SyncSays'
  BY <1>a, <1>1 DEF SyncSays, Pending, Here, Present
<1> QED  BY <1>2, <1>3, <1>4, <1>5, <1>6, <1>7, <1>8, <1>9, <1>10 DEF KInv

\* Its source is sealed.
LEMMA SealKeeps ==
  ASSUME KInv, NEW c \in Component, Seal(c)
  PROVE  KInv'
<1>a. /\ ResetTypes /\ PlanOK /\ JournalHolds /\ PlanHolds /\ StageOfStep /\ RetiringSays
      /\ KeysSay /\ StageDone /\ SyncSays
  BY DEF KInv
<1>1. /\ journal = NoJournal /\ pc = "idle" /\ plan = NoJournal /\ forget[c] = "none"
      /\ UNCHANGED <<db, archive, forget, journal, plan, pc, sync, crashes, changes>>
      /\ at' \in [Object -> {"none", "own", "other"}]
      /\ \A o \in Object : o \notin {<<c, "sealed">>, <<c, "meta">>} => at'[o] = at[o]
      /\ \A o \in Object : at[o] # "none" => at'[o] # "none"
  BY <1>a DEF Seal, Elsewhere, PlanOK, Progressing, Pending, ResetTypes
<1>2. ResetTypes'
  BY <1>a, <1>1 DEF ResetTypes
<1>3. PlanOK'
  BY <1>a, <1>1 DEF PlanOK, Progressing
<1>4. JournalHolds'
  BY <1>1 DEF JournalHolds, Pending
<1>5. PlanHolds'
  BY <1>1 DEF PlanHolds
<1>6. StageOfStep'
  BY <1>1 DEF StageOfStep
<1>7. RetiringSays'
  BY <1>a, ObjectsApart, <1>1 DEF RetiringSays, Absent
<1>8. KeysSay'
  BY <1>1 DEF KeysSay
<1>9. StageDone'
  BY <1>1 DEF StageDone
<1>10. SyncSays'
  BY <1>a, <1>1 DEF SyncSays, Pending, Here, Present
<1> QED  BY <1>2, <1>3, <1>4, <1>5, <1>6, <1>7, <1>8, <1>9, <1>10 DEF KInv

\* An orphan key is repaired.
LEMMA RepairKeeps ==
  ASSUME KInv, Repair
  PROVE  KInv'
<1>a. /\ ResetTypes /\ PlanOK /\ JournalHolds /\ PlanHolds /\ StageOfStep /\ RetiringSays
      /\ KeysSay /\ StageDone /\ SyncSays
  BY DEF KInv
<1>1. /\ journal = NoJournal /\ pc = "idle" /\ plan = NoJournal
      /\ UNCHANGED <<db, archive, forget, journal, plan, pc, sync, crashes, changes>>
      /\ at' \in [Object -> {"none", "own", "other"}]
      /\ \A o \in Object : o \notin {<<"mail", "native">>, <<"mail", "record">>} => at'[o] = at[o]
      /\ \A o \in Object : at[o] = "none" => at'[o] = "none"
  BY <1>a DEF Repair, Elsewhere, PlanOK, Progressing, Pending, ResetTypes
<1>2. ResetTypes'
  BY <1>a, <1>1 DEF ResetTypes
<1>3. PlanOK'
  BY <1>a, <1>1 DEF PlanOK, Progressing
<1>4. JournalHolds'
  BY <1>1 DEF JournalHolds, Pending
<1>5. PlanHolds'
  BY <1>1 DEF PlanHolds
<1>6. StageOfStep'
  BY <1>1 DEF StageOfStep
<1>7. RetiringSays'
  BY <1>a, ObjectsApart, <1>1 DEF RetiringSays, Absent
<1>8. KeysSay'
  BY <1>1 DEF KeysSay
<1>9. StageDone'
  BY <1>1 DEF StageDone
<1>10. SyncSays'
  BY <1>a, <1>1 DEF SyncSays, Pending, Here, Present
<1> QED  BY <1>2, <1>3, <1>4, <1>5, <1>6, <1>7, <1>8, <1>9, <1>10 DEF KInv

\* An account is forgotten, or partly.
LEMMA ForgetAccountKeeps ==
  ASSUME KInv, NEW c \in Component, ForgetAccount(c)
  PROVE  KInv'
<1>a. /\ ResetTypes /\ PlanOK /\ JournalHolds /\ PlanHolds /\ StageOfStep /\ RetiringSays
      /\ KeysSay /\ StageDone /\ SyncSays
  BY DEF KInv
<1>1. /\ journal = NoJournal /\ pc = "idle" /\ plan = NoJournal
      /\ UNCHANGED <<journal, plan, pc, sync, crashes, changes>>
  BY <1>a DEF ForgetAccount, PlanOK, Progressing, Pending
<1>2. PICK phase \in {"none", "intent", "deleted"} : \E gone \in Taken(c, phase) :
        /\ forget' = [forget EXCEPT ![c] = phase]
        /\ at' = [o \in Object |-> IF \E p \in gone : o = <<c, p>> THEN "none" ELSE at[o]]
        /\ db' = db \/ db' = db \ {c}
        /\ archive' = archive \/ archive' = FALSE
  BY DEF ForgetAccount
<1>2a. PICK gone \in Taken(c, phase) :
        /\ forget' = [forget EXCEPT ![c] = phase]
        /\ at' = [o \in Object |-> IF \E p \in gone : o = <<c, p>> THEN "none" ELSE at[o]]
        /\ db' = db \/ db' = db \ {c}
        /\ archive' = archive \/ archive' = FALSE
  BY <1>2
<1>3. \A o \in Object : at'[o] = at[o] \/ at'[o] = "none"
  BY <1>2a
<1>4. at' \in [Object -> {"none", "own", "other"}]
  BY <1>a, <1>2a DEF ResetTypes
<1>5. \A d \in Component : forget'[d] = IF d = c THEN phase ELSE forget[d]
  BY <1>a, <1>2a DEF ResetTypes
<1>6. phase = "deleted" => at'[<<c, "native">>] = "none"
  <2> SUFFICES ASSUME phase = "deleted" PROVE at'[<<c, "native">>] = "none"
    OBVIOUS
  <2>1. "native" \in gone
    BY <1>2a DEF Taken, Part
  <2> QED  BY <1>2a, <2>1, ObjectsApart
<1>7. ResetTypes'
  BY <1>a, <1>1, <1>2a, <1>4 DEF ResetTypes
<1>8. PlanOK'
  BY <1>a, <1>1 DEF PlanOK, Progressing
<1>9. JournalHolds' /\ PlanHolds' /\ StageOfStep' /\ KeysSay' /\ StageDone'
  BY <1>1 DEF JournalHolds, Pending, PlanHolds, StageOfStep, KeysSay, StageDone
<1>10. RetiringSays'
  BY <1>a, ObjectsApart, <1>1, <1>3, <1>5, <1>6 DEF RetiringSays, Absent
<1>11. SyncSays'
  BY <1>a, <1>1 DEF SyncSays, Pending, NoSync
<1> QED  BY <1>7, <1>8, <1>9, <1>10, <1>11 DEF KInv

\* Mail is imported from files.
LEMMA ImportFilesKeeps ==
  ASSUME KInv, ImportFiles
  PROVE  KInv'
<1>a. /\ ResetTypes /\ PlanOK /\ JournalHolds /\ PlanHolds /\ StageOfStep /\ RetiringSays
      /\ KeysSay /\ StageDone /\ SyncSays
  BY DEF KInv
<1>1. /\ journal = NoJournal /\ pc = "idle" /\ plan = NoJournal
      /\ UNCHANGED <<at, archive, forget, journal, plan, pc, sync, crashes, changes>>
      /\ db' = db \cup {"mail"}
  BY <1>a DEF ImportFiles, PlanOK
<1>2. ResetTypes'
  BY <1>a, <1>1 DEF ResetTypes, Component
<1>3. PlanOK'
  BY <1>a, <1>1 DEF PlanOK, Progressing
<1>4. JournalHolds' /\ PlanHolds' /\ StageOfStep' /\ KeysSay' /\ StageDone'
  BY <1>1 DEF JournalHolds, Pending, PlanHolds, StageOfStep, KeysSay, StageDone
<1>5. RetiringSays'
  BY <1>a, <1>1 DEF RetiringSays, Absent
<1>6. SyncSays'
  BY <1>a, <1>1 DEF SyncSays, Pending, NoSync
<1> QED  BY <1>2, <1>3, <1>4, <1>5, <1>6 DEF KInv

\* A new keyvault.
LEMMA InitKeyvaultKeeps ==
  ASSUME KInv, InitKeyvault
  PROVE  KInv'
<1>a. /\ ResetTypes /\ PlanOK /\ JournalHolds /\ PlanHolds /\ StageOfStep /\ RetiringSays
      /\ KeysSay /\ StageDone /\ SyncSays
  BY DEF KInv
<1>1. /\ journal = NoJournal /\ pc = "idle" /\ plan = NoJournal
      /\ UNCHANGED <<db, archive, forget, journal, plan, pc, sync, crashes, changes>>
      /\ at' \in [Object -> {"none", "own", "other"}]
      /\ \A d \in Component : \A p \in Part(d) : at'[<<d, p>>] = at[<<d, p>>]
  BY <1>a, ObjectsApart DEF InitKeyvault, PlanOK, ResetTypes, Component
<1>2. \A d \in Component : at'[<<d, "sealed">>] = at[<<d, "sealed">>] /\ <<d, "sealed">> \in Object
  BY <1>1, ObjectsApart
<1>3. ResetTypes'
  BY <1>a, <1>1 DEF ResetTypes
<1>4. PlanOK'
  BY <1>a, <1>1 DEF PlanOK, Progressing
<1>5. JournalHolds'
  BY <1>1 DEF JournalHolds, Pending
<1>6. PlanHolds'
  BY <1>1 DEF PlanHolds
<1>7. StageOfStep'
  BY <1>1 DEF StageOfStep
<1>8. RetiringSays'
  BY <1>a, ObjectsApart, <1>1 DEF RetiringSays, Absent
<1>9. KeysSay'
  BY <1>1 DEF KeysSay
<1>10. StageDone'
  BY <1>1 DEF StageDone
<1>11. SyncSays'
  BY <1>a, <1>1, <1>2 DEF SyncSays, Pending, NoSync, Component, Here, Present, ResetTypes
<1> QED  BY <1>3, <1>4, <1>5, <1>6, <1>7, <1>8, <1>9, <1>10, <1>11 DEF KInv

\* A Telegram sync unseals its session.
LEMMA LoadSessionKeeps ==
  ASSUME KInv, LoadSession
  PROVE  KInv'
<1>a. /\ ResetTypes /\ PlanOK /\ JournalHolds /\ PlanHolds /\ StageOfStep /\ RetiringSays
      /\ KeysSay /\ StageDone /\ SyncSays
  BY DEF KInv
<1>1. /\ journal = NoJournal /\ pc \in {"idle", "prepare"} /\ (Managed => pc = "idle")
      /\ Here("telegram", "sealed") /\ sync' = [sync EXCEPT !["telegram"] = "loaded"]
      /\ UNCHANGED <<at, db, archive, forget, journal, plan, pc, crashes, changes>>
  BY <1>a DEF LoadSession, PlanOK, Progressing, Pending
<1>2. \A d \in Component : sync'[d] = IF d = "telegram" THEN "loaded" ELSE sync[d]
  BY <1>a, <1>1 DEF ResetTypes
<1>3. ResetTypes'
  BY <1>a, <1>1 DEF ResetTypes
<1>4. PlanOK'
  BY <1>a, <1>1 DEF PlanOK, Progressing
<1>5. JournalHolds'
  BY <1>1 DEF JournalHolds, Pending
<1>6. PlanHolds'
  BY <1>a, <1>1 DEF PlanHolds, JournalSays, Bound, Pending, Absent, Gone, Wiped, Present
<1>7. StageOfStep'
  BY <1>1 DEF StageOfStep
<1>8. RetiringSays'
  BY <1>a, <1>1 DEF RetiringSays, Absent
<1>9. KeysSay'
  BY <1>1 DEF KeysSay
<1>10. StageDone'
  BY <1>1 DEF StageDone
<1>11. SyncSays'
  BY <1>a, <1>1 DEF SyncSays, Pending, Here, Present
<1> QED  BY <1>3, <1>4, <1>5, <1>6, <1>7, <1>8, <1>9, <1>10, <1>11 DEF KInv

\* It locks the archive, or finds a reset pending and leaves.
LEMMA LockArchiveKeeps ==
  ASSUME KInv, LockArchive
  PROVE  KInv'
<1>a. /\ ResetTypes /\ PlanOK /\ JournalHolds /\ PlanHolds /\ StageOfStep /\ RetiringSays
      /\ KeysSay /\ StageDone /\ SyncSays
  BY DEF KInv
<1>1. /\ sync["telegram"] = "loaded"
      /\ sync' = [sync EXCEPT !["telegram"] =
                    IF journal = NoJournal /\ forget["telegram"] = "none" THEN "running" ELSE "idle"]
      /\ UNCHANGED <<at, db, archive, forget, journal, plan, pc, crashes, changes>>
  BY <1>a DEF LockArchive, PlanOK, Progressing, Pending
<1>2. \A d \in Component : sync'[d] = IF d = "telegram" THEN sync'["telegram"] ELSE sync[d]
  BY <1>a, <1>1 DEF ResetTypes
<1>3. ~Pending => pc \in {"idle", "prepare"} /\ (sync'["telegram"] = "running" \/ sync'["telegram"] = "idle")
  BY <1>a, <1>1 DEF PlanOK, Progressing, ResetTypes, Component
<1>4. Pending => sync'["telegram"] = "idle"
  BY <1>a, <1>1 DEF Pending, ResetTypes, Component
<1>5. ResetTypes'
  BY <1>a, <1>1 DEF ResetTypes
<1>6. PlanOK'
  BY <1>a, <1>1 DEF PlanOK, Progressing, Pending
<1>7. JournalHolds'
  BY <1>a, <1>1
  DEF JournalHolds, JournalSays, Bound, Progressing, Pending, Absent, Emptied, Gone, Wiped, NoneLeft, NoSync,
      Present
<1>8. PlanHolds'
  BY <1>a, <1>1
  DEF PlanHolds, JournalSays, Bound, Pending, Absent, Emptied, Gone, Wiped, NoneLeft, NoSync, Present, Later
<1>9. StageOfStep'
  BY <1>a, <1>1 DEF StageOfStep
<1>10. RetiringSays'
  BY <1>a, <1>1, <1>3, <1>4 DEF RetiringSays, comp, Absent, Emptied, Wiped
<1>11. KeysSay'
  BY <1>a, <1>1 DEF KeysSay, KeysLeft, ThisKey, Absent
<1>12. StageDone'
  BY <1>a, <1>1, <1>3, <1>4 DEF StageDone, KeysLeft, Gone, Wiped, NoneLeft, Absent
<1>13. SyncSays'
  BY <1>a, <1>1 DEF SyncSays, Pending, NoSync, Here, Present
<1> QED  BY <1>5, <1>6, <1>7, <1>8, <1>9, <1>10, <1>11, <1>12, <1>13 DEF KInv

\* A mail fetch begins.
LEMMA FetchMailKeeps ==
  ASSUME KInv, FetchMail
  PROVE  KInv'
<1>a. /\ ResetTypes /\ PlanOK /\ JournalHolds /\ PlanHolds /\ StageOfStep /\ RetiringSays
      /\ KeysSay /\ StageDone /\ SyncSays
  BY DEF KInv
<1>1. /\ journal = NoJournal /\ pc = "idle" /\ plan = NoJournal /\ Managed
      /\ Here("mail", "sealed") /\ sync' = [sync EXCEPT !["mail"] = "running"]
      /\ UNCHANGED <<at, db, archive, forget, journal, plan, pc, crashes, changes>>
  BY <1>a DEF FetchMail, PlanOK
<1>2. \A d \in Component : sync'[d] = IF d = "mail" THEN "running" ELSE sync[d]
  BY <1>a, <1>1 DEF ResetTypes
<1>3. ResetTypes'
  BY <1>a, <1>1 DEF ResetTypes
<1>4. PlanOK'
  BY <1>a, <1>1 DEF PlanOK, Progressing
<1>5. JournalHolds'
  BY <1>1 DEF JournalHolds, Pending
<1>6. PlanHolds'
  BY <1>1 DEF PlanHolds
<1>7. StageOfStep'
  BY <1>1 DEF StageOfStep
<1>8. RetiringSays'
  BY <1>a, <1>1 DEF RetiringSays, Absent
<1>9. KeysSay'
  BY <1>1 DEF KeysSay
<1>10. StageDone'
  BY <1>1 DEF StageDone
<1>11. SyncSays'
  BY <1>a, <1>1 DEF SyncSays, Pending, Here, Present
<1> QED  BY <1>3, <1>4, <1>5, <1>6, <1>7, <1>8, <1>9, <1>10, <1>11 DEF KInv

\* A sync stores history.
LEMMA ImportKeeps ==
  ASSUME KInv, NEW c \in Component, Import(c)
  PROVE  KInv'
<1>a. /\ ResetTypes /\ PlanOK /\ JournalHolds /\ PlanHolds /\ StageOfStep /\ RetiringSays
      /\ KeysSay /\ StageDone /\ SyncSays
  BY DEF KInv
<1>1. /\ journal = NoJournal /\ pc = "idle" /\ plan = NoJournal /\ sync[c] = "running"
           /\ db' = db \cup {c} /\ Managed
      /\ UNCHANGED <<at, archive, forget, journal, plan, pc, sync, crashes, changes>>
  BY <1>a DEF Import, PlanOK, Progressing, SyncSays, NoSync, Pending
<1>2. ResetTypes'
  BY <1>a, <1>1 DEF ResetTypes
<1>3. PlanOK'
  BY <1>a, <1>1 DEF PlanOK, Progressing
<1>4. JournalHolds'
  BY <1>1 DEF JournalHolds, Pending
<1>5. PlanHolds'
  BY <1>1 DEF PlanHolds
<1>6. StageOfStep'
  BY <1>1 DEF StageOfStep
<1>7. RetiringSays'
  BY <1>a, <1>1 DEF RetiringSays, Absent
<1>8. KeysSay'
  BY <1>1 DEF KeysSay
<1>9. StageDone'
  BY <1>1 DEF StageDone
<1>10. SyncSays'
  BY <1>a, <1>1 DEF SyncSays, Pending, Here, Present
<1> QED  BY <1>2, <1>3, <1>4, <1>5, <1>6, <1>7, <1>8, <1>9, <1>10 DEF KInv

\* A sync appends to the archive.
LEMMA AppendSegmentKeeps ==
  ASSUME KInv, AppendSegment
  PROVE  KInv'
<1>a. /\ ResetTypes /\ PlanOK /\ JournalHolds /\ PlanHolds /\ StageOfStep /\ RetiringSays
      /\ KeysSay /\ StageDone /\ SyncSays
  BY DEF KInv
<1>1. /\ sync["telegram"] = "running" /\ archive' = TRUE /\ "telegram" \in Component
      /\ UNCHANGED <<at, db, forget, journal, plan, pc, sync, crashes, changes>>
  BY DEF AppendSegment, Component
<1>2. ResetTypes'
  BY <1>a, <1>1 DEF ResetTypes
<1>3. PlanOK'
  BY <1>a, <1>1 DEF PlanOK, Progressing, Pending
<1>4. JournalHolds'
  BY <1>a, <1>1
  DEF JournalHolds, JournalSays, Bound, Progressing, Pending, Absent, Emptied, Gone, Wiped, NoneLeft, NoSync,
      Present
<1>5. PlanHolds'
  BY <1>a, <1>1
  DEF PlanHolds, JournalSays, Bound, Pending, Absent, Emptied, Gone, Wiped, NoneLeft, NoSync, Present
<1>6. StageOfStep'
  BY <1>a, <1>1 DEF StageOfStep
<1>7. RetiringSays'
  BY <1>a, <1>1 DEF RetiringSays, comp, Absent, Emptied, Wiped
<1>8. KeysSay'
  BY <1>a, <1>1 DEF KeysSay, KeysLeft, ThisKey, Absent
<1>9. StageDone'
  BY <1>a, <1>1 DEF StageDone, KeysLeft, Gone, Wiped, NoneLeft, Absent
<1>10. SyncSays'
  BY <1>a, <1>1 DEF SyncSays, Pending, NoSync, Here, Present
<1> QED  BY <1>2, <1>3, <1>4, <1>5, <1>6, <1>7, <1>8, <1>9, <1>10 DEF KInv

\* A sync ends.
LEMMA EndSyncKeeps ==
  ASSUME KInv, NEW c \in Component, EndSync(c)
  PROVE  KInv'
<1>a. /\ ResetTypes /\ PlanOK /\ JournalHolds /\ PlanHolds /\ StageOfStep /\ RetiringSays
      /\ KeysSay /\ StageDone /\ SyncSays
  BY DEF KInv
<1>1. /\ sync[c] = "running" /\ sync' = [sync EXCEPT ![c] = "idle"]
      /\ UNCHANGED <<at, db, archive, forget, journal, plan, pc, crashes, changes>>
  BY DEF EndSync
<1>2. \A d \in Component : sync'[d] = IF d = c THEN "idle" ELSE sync[d]
  BY <1>a, <1>1 DEF ResetTypes
<1>3. ResetTypes'
  BY <1>a, <1>1 DEF ResetTypes
<1>4. PlanOK'
  BY <1>a, <1>1 DEF PlanOK, Progressing, Pending
<1>5. JournalHolds'
  BY <1>a, <1>1
  DEF JournalHolds, JournalSays, Bound, Progressing, Pending, Absent, Emptied, Gone, Wiped, NoneLeft, NoSync,
      Present
<1>6. PlanHolds'
  BY <1>a, <1>1
  DEF PlanHolds, JournalSays, Bound, Pending, Absent, Emptied, Gone, Wiped, NoneLeft, NoSync, Present
<1>7. StageOfStep'
  BY <1>a, <1>1 DEF StageOfStep
<1>8. RetiringSays'
  BY <1>a, <1>1 DEF RetiringSays, comp, Absent, Emptied, Wiped
<1>9. KeysSay'
  BY <1>a, <1>1 DEF KeysSay, KeysLeft, ThisKey, Absent
<1>10. StageDone'
  BY <1>a, <1>1 DEF StageDone, KeysLeft, Gone, Wiped, NoneLeft, Absent
<1>11. SyncSays'
  BY <1>a, <1>1 DEF SyncSays, Pending, NoSync, Here, Present
<1> QED  BY <1>3, <1>4, <1>5, <1>6, <1>7, <1>8, <1>9, <1>10, <1>11 DEF KInv

\* A profile as the other commands leave it.
LEMMA ResetStarts ==
  ASSUME ResetInit
  PROVE  KInv
<1>1. PICK has \in [Component -> {"nothing", "all", "orphan", "forgotten"}], staged \in BOOLEAN :
        /\ at = [o \in Object |->
                  IF o[1] \notin Component THEN "own"
                  ELSE IF o[2] = "staged" THEN (IF staged THEN "own" ELSE "none")
                  ELSE IF \/ has[o[1]] = "all"
                          \/ has[o[1]] = "orphan" /\ o[2] \in {"native", "record"}
                          \/ has[o[1]] = "forgotten" /\ o[2] \in {"sealed", "meta", "record"}
                       THEN "own" ELSE "none"]
        /\ forget = [c \in Component |-> IF has[c] = "forgotten" THEN "deleted" ELSE "none"]
        /\ db \in SUBSET {c \in Component : Managed} /\ archive \in BOOLEAN
  BY DEF ResetInit
<1>2. /\ journal \in {NoJournal, OldJournal} /\ plan = NoJournal /\ pc = "idle"
      /\ sync = [c \in Component |-> "idle"] /\ crashes = 0 /\ changes = 0
  BY DEF ResetInit
<1>3. OldJournal \in Journals /\ OldJournal # NoJournal
  <2>1. OldJournal \in Journals
    BY StageOrder DEF OldJournal, Journals
  <2> QED  BY <2>1, NoJournalAssumption
<1>4. at \in [Object -> {"none", "own", "other"}]
  <2> DEFINE What(o) == IF o[1] \notin Component THEN "own"
                  ELSE IF o[2] = "staged" THEN (IF staged THEN "own" ELSE "none")
                  ELSE IF \/ has[o[1]] = "all"
                          \/ has[o[1]] = "orphan" /\ o[2] \in {"native", "record"}
                          \/ has[o[1]] = "forgotten" /\ o[2] \in {"sealed", "meta", "record"}
                       THEN "own" ELSE "none"
  <2>1. \A o \in Object : What(o) \in {"none", "own", "other"}
    OBVIOUS
  <2>2. at = [o \in Object |-> What(o)]
    BY <1>1
  <2> HIDE DEF What
  <2> QED  BY <2>1, <2>2
<1>5. \A d \in Component : has[d] = "forgotten" => at[<<d, "native">>] = "none"
  <2> SUFFICES ASSUME NEW d \in Component PROVE has[d] = "forgotten" => at[<<d, "native">>] = "none"
    OBVIOUS
  <2>1. <<d, "native">> \in Object
    BY ObjectsApart
  <2>2. <<d, "native">>[1] = d /\ <<d, "native">>[2] = "native"
    OBVIOUS
  <2> QED  BY <1>1, <2>1, <2>2
<1>6. ResetTypes
  <2>1. db \subseteq Component
    BY <1>1
  <2>2. archive \in BOOLEAN
    BY <1>1
  <2>3. forget \in [Component -> {"none", "intent", "deleted"}]
    BY <1>1
  <2>4. sync \in [Component -> {"idle", "loaded", "running"}]
    BY <1>2
  <2> QED
    BY <1>2, <1>3, <1>4, <2>1, <2>2, <2>3, <2>4, CrashAssumption, ForeignAssumption DEF ResetTypes
<1>7. PlanOK /\ PlanHolds /\ StageOfStep /\ KeysSay /\ StageDone
  BY <1>2 DEF PlanOK, PlanHolds, StageOfStep, KeysSay, StageDone, ResetSteps, Progressing
<1>8. JournalHolds
  BY <1>2, <1>3 DEF JournalHolds, JournalSays, OldJournal, NoSync, Pending, Progressing, Absent
<1>9. RetiringSays
  BY <1>1, <1>2, <1>5 DEF RetiringSays, Absent
<1>10. SyncSays
  BY <1>2 DEF SyncSays, NoSync
<1> QED  BY <1>6, <1>7, <1>8, <1>9, <1>10 DEF KInv

\* Whatever step is taken, by an attempt or beside it, keeps KInv.
LEMMA ResetStep ==
  ASSUME KInv, [ResetNext]_keyvaultVars
  PROVE  KInv'
<1>a. ResetTypes /\ PlanOK
  BY DEF KInv
<1>1. ASSUME UNCHANGED keyvaultVars PROVE KInv'
  BY <1>1
  DEF KInv, keyvaultVars, ResetTypes, PlanOK, Progressing, Pending, JournalHolds, JournalSays, Bound,
      PlanHolds, StageOfStep, RetiringSays, KeysSay, StageDone, SyncSays, Absent, Emptied,
      Gone, Wiped, NoneLeft, NoSync, Here, Present, KeysLeft, ThisKey, comp
<1>2. ASSUME NEW d \in Component,
             EnrollKey(d) \/ Seal(d) \/ ForgetAccount(d) \/ Import(d) \/ EndSync(d)
      PROVE  KInv'
  BY <1>2, EnrollKeyKeeps, SealKeeps, ForgetAccountKeeps, ImportKeeps, EndSyncKeeps
<1>3. CASE Repair \/ ImportFiles \/ InitKeyvault \/ LoadSession \/ LockArchive \/ FetchMail \/ AppendSegment
  BY <1>3, RepairKeeps, ImportFilesKeeps, InitKeyvaultKeeps, LoadSessionKeeps, LockArchiveKeeps, FetchMailKeeps,
     AppendSegmentKeeps
<1>4. ASSUME NEW o \in Object, ChangeByHand(o) PROVE KInv'
  BY <1>4, ChangeByHandKeeps
<1>5. CASE Start \/ Confirm
  BY <1>5, StartKeeps, ConfirmKeeps
<1>6. CASE Decline
  BY <1>a, <1>6, EndsKeeps DEF Decline, ResetTypes
<1>7. CASE CheckStage \/ EraseHistory \/ Observe \/ Retire \/ PublishIntent \/ DeleteNative
  BY <1>7, CheckStageKeeps, EraseHistoryKeeps, ObserveKeeps, RetireKeeps, PublishIntentKeeps,
     DeleteNativeKeeps
<1>8. CASE Acknowledge \/ CleanSource \/ WipeArchive \/ SaveRetired \/ FinishForget \/ ClearStaging
  BY <1>8, AcknowledgeKeeps, CleanSourceKeeps, WipeArchiveKeeps, SaveRetiredKeeps, FinishForgetKeeps,
     ClearStagingKeeps
<1>9. CASE DeleteKey \/ MarkKey \/ LeaveKeys \/ RemoveFile \/ LeaveFiles
  BY <1>9, DeleteKeyKeeps, MarkKeyKeeps, LeaveKeysKeeps, RemoveFileKeeps, LeaveFilesKeeps
<1>10. CASE IntendKey
  <2>1. CASE pc' # "idle"
    BY <1>10, <2>1, IntendKeyKeeps
  <2>2. CASE pc' = "idle"
    <3>1. pc = "key" /\ UNCHANGED <<profileVars, journal, plan, sync, boundVars>>
      BY <1>10, <2>2 DEF IntendKey, AtStep, Moves
    <3>2. plan' = NoJournal /\ crashes' \in 0..MaxCrash
      BY <1>a, <3>1 DEF PlanOK, ResetTypes
    <3> QED  BY <2>2, <3>1, <3>2, EndsKeeps
  <2> QED  BY <2>1, <2>2
<1>11. CASE Advance
  <2>1. CASE pc' # "idle"
    BY <1>11, <2>1, AdvanceKeeps
  <2>2. CASE pc' = "idle"
    <3>1. pc = "advance" /\ UNCHANGED <<profileVars, journal, plan, sync, boundVars>>
      BY <1>11, <2>2 DEF Advance, AtStep, Moves
    <3>2. plan' = NoJournal /\ crashes' \in 0..MaxCrash
      BY <1>a, <3>1 DEF PlanOK, ResetTypes
    <3> QED  BY <2>2, <3>1, <3>2, EndsKeeps
  <2> QED  BY <2>1, <2>2
<1>12. CASE Clear
  <2>1. CASE Checked
    BY <1>12, <2>1, ClearKeeps
  <2>2. CASE ~Checked
    <3>1. pc = "clear" /\ pc' = "idle" /\ UNCHANGED <<profileVars, journal, plan, sync, boundVars>>
      BY <1>12, <2>2 DEF Clear, AtStep, Moves
    <3>2. plan' = NoJournal /\ crashes' \in 0..MaxCrash
      BY <1>a, <3>1 DEF PlanOK, ResetTypes
    <3> QED  BY <3>1, <3>2, EndsKeeps
  <2> QED  BY <2>1, <2>2
<1>13. CASE Crash
  <2>1. crashes' \in 0..MaxCrash
    BY <1>a, <1>13, CrashAssumption DEF Crash, ResetTypes
  <2> QED  BY <1>13, <2>1, EndsKeeps DEF Crash
<1> QED
  BY <1>1, <1>2, <1>3, <1>4, <1>5, <1>6, <1>7, <1>8, <1>9, <1>10, <1>11, <1>12, <1>13
  DEF ResetNext, Progress

\* Every state of a reset, and of what runs around it, has KInv.
THEOREM ResetInvariant == ResetSpec => []KInv
<1>1. ResetInit => KInv
  BY ResetStarts
<1>2. KInv /\ [ResetNext]_keyvaultVars => KInv'
  BY ResetStep
<1> QED  BY <1>1, <1>2, PTL DEF ResetSpec

\* A journal that says "complete" tells the truth: nothing it recorded is left, no
\* history and no archive, whatever attempts died before it (coordinate_reset).
THEOREM ResetErases == ResetSpec => []CompletesErased
<1>1. KInv => CompletesErased
  <2> SUFFICES ASSUME KInv, Pending, journal.stage = "complete"
               PROVE  /\ \A o \in journal.seen \ {Kept} : at[o] # "own"
                      /\ db = {} /\ ~archive
    BY DEF CompletesErased
  <2>1. /\ JournalSays(journal) /\ journal \in Journals
        /\ (journal # OldJournal \/ Progressing) => Bound(journal)
    BY DEF KInv, JournalHolds, ResetTypes, Pending
  <2>2. journal # OldJournal
    BY DEF OldJournal
  <2>3. Bound(journal)
    BY <2>1, <2>2
  <2>4. db = {} /\ ~archive
    BY <2>1, <2>3 DEF JournalSays, Bound, Wiped, Later, Component
  <2>5. \A o \in Credential : Absent(o)
    BY <2>1, <2>3, ObjectsApart DEF JournalSays, Bound, Gone, Later
  <2>6. (\A k \in WrapKey : Absent(KeyOf(k))) /\ \A f \in KnownFile : Absent(FileOf(f))
    BY <2>1 DEF JournalSays, NoneLeft
  <2>7. journal.seen \subseteq Object
    BY <2>1 DEF Journals
  <2> QED  BY <2>4, <2>5, <2>6, <2>7, ObjectsApart DEF Absent
<1> QED  BY <1>1, ResetInvariant, PTL

\* With protected databases, no synchronisation that unsealed its account before a
\* reset is left once the reset has erased the history: a sync holds the runtime lease
\* and an attempt the exclusive one, so that none can span a reset.
THEOREM ResetNoSyncOutlives == ASSUME Managed PROVE ResetSpec => []NoSyncOutlives
<1>1. KInv => NoSyncOutlives
  BY DEF KInv, SyncSays, NoSyncOutlives
<1> QED  BY <1>1, ResetInvariant, PTL

\* A step of an attempt has an attempt that runs.
LEMMA AttemptRuns ==
  ASSUME Progress
  PROVE  Progressing
BY DEF Progress, CheckStage, EraseHistory, Observe, Retire, PublishIntent, DeleteNative, Acknowledge,
       CleanSource, WipeArchive, SaveRetired, FinishForget, ClearStaging, IntendKey, DeleteKey, MarkKey,
       LeaveKeys, RemoveFile, LeaveFiles, Advance, Clear, Retiring, AtStep, Progressing

\* What a step of an attempt removes, and what it publishes.
LEMMA Touches ==
  ASSUME KInv, Progress
  PROVE  /\ \A o \in Object :
              at'[o] = at[o] \/ (at'[o] = "none" /\ (at[o] # "none" => o \in journal.seen /\ at[o] = "own"))
         /\ journal.stage \notin Component => /\ forget' = forget /\ archive' = archive
                                              /\ \A o \in Credential : at'[o] = at[o]
         /\ journal.stage # "database" => db' = db
         /\ \A d \in Component : d # comp => /\ forget'[d] = forget[d]
                                             /\ \A p \in Part(d) : at'[<<d, p>>] = at[<<d, p>>]
<1>a. ResetTypes /\ PlanOK /\ StageOfStep /\ RetiringSays /\ KeysSay /\ journal \in Journals
  <2>1. ResetTypes /\ PlanOK /\ StageOfStep /\ RetiringSays /\ KeysSay
    BY DEF KInv
  <2>2. Progressing
    BY AttemptRuns
  <2> QED  BY <2>1, <2>2 DEF PlanOK, Pending, ResetTypes
<1> DEFINE Goal == /\ \A o \in Object :
                        at'[o] = at[o]
                          \/ (at'[o] = "none" /\ (at[o] # "none" => o \in journal.seen /\ at[o] = "own"))
                   /\ journal.stage \notin Component => /\ forget' = forget /\ archive' = archive
                                                        /\ \A o \in Credential : at'[o] = at[o]
                   /\ journal.stage # "database" => db' = db
                   /\ \A d \in Component : d # comp => /\ forget'[d] = forget[d]
                                                       /\ \A p \in Part(d) : at'[<<d, p>>] = at[<<d, p>>]
<1>1. CASE \/ CheckStage \/ Observe \/ Retire \/ SaveRetired \/ IntendKey \/ MarkKey
           \/ LeaveKeys \/ LeaveFiles \/ Advance \/ Clear
  <2>1. UNCHANGED profileVars
    BY <1>1
    DEF CheckStage, Observe, Retire, SaveRetired, IntendKey, MarkKey, LeaveKeys, LeaveFiles, Advance, Clear,
        Retiring, AtStep, Moves, Saves, SavesKey
  <2> QED  BY <2>1
<1>2. CASE EraseHistory
  BY <1>a, <1>2 DEF EraseHistory, AtStep, StageOfStep
<1>3. CASE PublishIntent \/ Acknowledge \/ FinishForget
  <2>1. PICK s \in {"none", "intent", "deleted"} : /\ forget' = [forget EXCEPT ![comp] = s]
                                                   /\ UNCHANGED <<at, db,
                                                                  archive>> /\ journal.stage \in Component
    BY <1>3 DEF PublishIntent, Acknowledge, FinishForget, Retiring
  <2> QED  BY <1>a, <2>1 DEF ResetTypes
<1>4. CASE WipeArchive
  BY <1>4 DEF WipeArchive, Retiring
<1>5. ASSUME NEW o \in Object, Removes(o), at[o] # "none" => o \in journal.seen /\ at[o] = "own",
             \/ journal.stage \in Component /\ \E p \in Part(comp) : o = <<comp, p>>
             \/ o \notin Credential
      PROVE  Goal
  <2>1. UNCHANGED <<db, archive, forget>> /\ \A q \in Object : at'[q] = IF q = o THEN "none" ELSE at[q]
    BY <1>a, <1>5 DEF Removes, ResetTypes
  <2> QED  BY <1>5, <2>1, ObjectsApart
<1>6. CASE DeleteNative
  <2>1. Removes(<<comp, "native">>) /\ journal.stage \in Component /\ "native" \in Part(comp) /\ pc = "native"
    BY <1>6 DEF DeleteNative, Retiring, AtStep, Part
  <2>2. comp \in Component
    BY <2>1 DEF comp
  <2>3. at[<<comp, "native">>] # "none" => <<comp, "native">> \in journal.seen /\ at[<<comp, "native">>] = "own"
    BY <1>a, <2>1 DEF RetiringSays, Absent
  <2> QED  BY <2>1, <2>2, <2>3, <1>5, ObjectsApart
<1>7. CASE CleanSource
  <2>1. Retiring("clean")
    BY <1>7 DEF CleanSource
  <2>2. journal.stage \in Component /\ comp \in Component /\ pc = "clean"
    BY <2>1 DEF Retiring, comp, AtStep
  <2>3. PICK left \in {TRUE, FALSE} :
          \/ left /\ UNCHANGED <<profileVars, journal>>
          \/ ~left /\ \E p \in Part(comp) : Removes(<<comp, p>>)
    BY <1>7, CleansSource
  <2>4. CASE left
    BY <2>3, <2>4
  <2>5. CASE ~left
    <3>1. PICK p \in Part(comp) : Removes(<<comp, p>>)
      BY <2>3, <2>5
    <3>2. at[<<comp, p>>] # "none" => <<comp, p>> \in journal.seen /\ at[<<comp, p>>] = "own"
      BY <1>a, <2>2 DEF RetiringSays, Absent
    <3> QED  BY <2>2, <3>1, <3>2, <1>5, ObjectsApart
  <2> QED  BY <2>4, <2>5
<1>8. CASE ClearStaging
  <2>1. Removes(<<"mail", "staged">>) /\ journal.stage \in Component /\ pc = "staging"
    BY <1>8 DEF ClearStaging, Retiring, AtStep
  <2>2. comp = "mail" /\ comp \in Component /\ "staged" \in Part(comp)
    BY <1>a, <2>1 DEF RetiringSays, Part, Component
  <2>3. at[<<comp, "staged">>] # "none" => <<comp, "staged">> \in journal.seen /\ at[<<comp, "staged">>] = "own"
    BY <1>a, <2>1, <2>2 DEF RetiringSays, Absent
  <2> QED  BY <2>1, <2>2, <2>3, <1>5, ObjectsApart
<1>9. CASE DeleteKey
  <2>1. Removes(KeyOf(ThisKey)) /\ pc = "delete"
    BY <1>9 DEF DeleteKey, AtStep
  <2>2. ThisKey \in WrapKey
    BY <1>a, <2>1 DEF KeysSay, KeysLeft, ThisKey
  <2>3. at[KeyOf(ThisKey)] # "none" => KeyOf(ThisKey) \in journal.seen /\ at[KeyOf(ThisKey)] = "own"
    BY <1>a, <2>1 DEF KeysSay, Absent
  <2> QED  BY <2>1, <2>2, <2>3, <1>5, ObjectsApart
<1>10. CASE RemoveFile
  <2>1. CASE \A o \in Named : UnchangedOrGone(o)
    <3>1. PICK o \in Named \cap Present : Removes(o)
      BY <1>10, <2>1 DEF RemoveFile
    <3>2. o \in Object /\ o \notin Credential /\ o \in journal.seen
      BY ObjectsApart DEF Named
    <3>3. at[o] # "none" => at[o] = "own"
      BY <2>1, <3>1, <3>2 DEF UnchangedOrGone, Unchanged
    <3> QED  BY <3>1, <3>2, <3>3, <1>5
  <2>2. CASE ~(\A o \in Named : UnchangedOrGone(o))
    <3>1. UNCHANGED profileVars
      BY <1>10, <2>2 DEF RemoveFile, Moves
    <3> QED  BY <3>1
  <2> QED  BY <2>1, <2>2
<1> QED  BY <1>1, <1>2, <1>3, <1>4, <1>6, <1>7, <1>8, <1>9, <1>10 DEF Progress

\* An attempt removes only what the journal recorded, as it was recorded, and one that
\* continues an old journal touches no credential and no history (check_observations).
THEOREM ResetWithinConsent == ResetSpec => WithinConsent
<1>1. KInv /\ Progress =>
        /\ \A o \in Object : at[o] # "none" /\ at'[o] = "none" =>
             o \in journal.seen /\ at[o] = "own"
        /\ journal.old => /\ \A o \in Credential : at'[o] = at[o]
                          /\ db' = db /\ archive' = archive
  <2> SUFFICES ASSUME KInv, Progress
               PROVE  /\ \A o \in Object : at[o] # "none" /\ at'[o] = "none" =>
                           o \in journal.seen /\ at[o] = "own"
                      /\ journal.old => /\ \A o \in Credential : at'[o] = at[o]
                                        /\ db' = db /\ archive' = archive
    OBVIOUS
  <2>1. journal.old => journal.stage \in {"keys", "files", "complete"}
    <3>1. Progressing
      BY AttemptRuns
    <3> QED  BY <3>1 DEF KInv, PlanOK, JournalHolds, JournalSays
  <2> QED  BY <2>1, Touches DEF Component
<1>2. KInv /\ [ResetNext]_keyvaultVars =>
        [Progress =>
          /\ \A o \in Object : at[o] # "none" /\ at'[o] = "none" =>
               o \in journal.seen /\ at[o] = "own"
          /\ journal.old => /\ \A o \in Credential : at'[o] = at[o]
                            /\ db' = db /\ archive' = archive]_keyvaultVars
  BY <1>1
<1> QED  BY <1>2, ResetInvariant, PTL DEF ResetSpec, WithinConsent

\* No step of an attempt leaves a native key whose source is gone and whose deletion
\* nobody has announced (_retire_mail, _retire_telegram).
THEOREM ResetNoOrphan == ResetSpec => NoNewOrphan
<1>1. ASSUME KInv, Progress, NEW d \in Component, Orphan(d)' PROVE Orphan(d)
  <2>a. ResetTypes /\ PlanOK /\ StageOfStep /\ RetiringSays /\ JournalHolds /\ journal \in Journals /\ Pending
    <3>1. ResetTypes /\ PlanOK /\ StageOfStep /\ RetiringSays /\ JournalHolds
      BY <1>1 DEF KInv
    <3>2. Progressing
      BY <1>1, AttemptRuns
    <3> QED  BY <3>1, <3>2 DEF PlanOK, Pending, ResetTypes
  <2>1. /\ at'[<<d, "native">>] # "none" /\ at'[<<d, "sealed">>] = "none" /\ forget'[d] = "none"
        /\ <<d, "native">> \in Object /\ <<d, "sealed">> \in Object /\ {"native", "sealed"} \subseteq Part(d)
    BY <1>1, ObjectsApart DEF Orphan, Here, Present
  <2>2. SUFFICES ASSUME ~Orphan(d) PROVE FALSE
    OBVIOUS
  <2>3. d = comp /\ journal.stage = d
    <3>1. d = comp
      BY <1>1, <2>1, <2>2, Touches DEF Orphan, Here, Present
    <3> QED  BY <3>1 DEF comp
  <2>4. \/ PublishIntent \/ Acknowledge \/ FinishForget \/ DeleteNative \/ CleanSource \/ ClearStaging
    <3>1. UNCHANGED <<at, forget>> => FALSE
      BY <2>1, <2>2 DEF Orphan, Here, Present
    <3>2. pc \notin {"key", "delete", "mark", "file", "clear"}
      BY <2>a, <2>3 DEF StageOfStep, Component
    <3> QED
      BY <1>1, <3>1, <3>2
      DEF Progress, CheckStage, EraseHistory, Observe, Retire, WipeArchive, SaveRetired, IntendKey,
          DeleteKey, MarkKey, LeaveKeys, RemoveFile, LeaveFiles, Advance, Clear, Retiring, AtStep, Moves,
          Saves
  <2>5. CASE PublishIntent \/ Acknowledge
    BY <2>a, <2>1, <2>3, <2>5 DEF PublishIntent, Acknowledge, ResetTypes
  <2>6. CASE FinishForget
    <3>1. comp \in journal.retired /\ UNCHANGED at
      BY <2>a, <2>6 DEF FinishForget, Retiring, AtStep, RetiringSays
    <3>2. Emptied(comp)
      BY <2>a, <2>3, <3>1 DEF JournalHolds, JournalSays
    <3> QED  BY <2>1, <2>3, <3>1, <3>2 DEF Emptied, Absent
  <2>7. CASE DeleteNative
    BY <2>a, <2>1, <2>3, <2>7 DEF DeleteNative, Removes, ResetTypes
  <2>8. CASE CleanSource
    <3>1. Retiring("clean")
      BY <2>8 DEF CleanSource
    <3>2. forget[d] = "deleted" /\ UNCHANGED forget
      BY <2>a, <2>3, <2>8, <3>1, CleansSource DEF Retiring, AtStep, RetiringSays, Removes
    <3> QED  BY <2>1, <3>2
  <2>9. CASE ClearStaging
    BY <2>a, <2>1, <2>2, <2>9 DEF ClearStaging, Removes, Orphan, Here, Present, ResetTypes
  <2> QED  BY <2>4, <2>5, <2>6, <2>7, <2>8, <2>9
<1>2. KInv /\ [ResetNext]_keyvaultVars =>
        [Progress => \A d \in Component : Orphan(d)' => Orphan(d)]_keyvaultVars
  BY <1>1
<1> QED  BY <1>2, ResetInvariant, PTL DEF ResetSpec, NoNewOrphan
=============================================================================
