-------------------------- MODULE NetRuntimeProofs --------------------------
(***************************************************************************)
(* Proofs about NetRuntime, for every number of caller threads, bring-ups  *)
(* and tolerated failures: RInv is inductive, one lemma per action and one *)
(* step per conjunct. A step of a caller or of a worker is described by    *)
(* where it goes on (Goes, Returns, Works, Probes) and by what a bring-up  *)
(* installs.                                                               *)
(***************************************************************************)
EXTENDS NetRuntime, TLAPS

\* What a step of a caller leaves behind: it goes on inside its operation, or its
\* call is over.
Goes(t, s) ==
  /\ pc' \in [Thread -> Places] /\ pc'[t] = s /\ \A u \in Thread \ {t} : pc'[u] = pc[u]
  /\ op' = op /\ target' = target /\ freezing' = freezing

Returns(t) ==
  /\ pc' \in [Thread -> Places] /\ pc'[t] = "idle" /\ \A u \in Thread \ {t} : pc'[u] = pc[u]
  /\ op' = Nobody /\ target' \in [Thread -> Paths] /\ freezing' \in [Thread -> BOOLEAN]

LEMMA StepGoes ==
  ASSUME CallTypes, NEW t \in Thread, NEW s \in Places, Step(t, s)
  PROVE  Goes(t, s)
BY DEF CallTypes, Step, Goes

LEMMA ReturnReturns ==
  ASSUME CallTypes, NEW t \in Thread, Return(t)
  PROVE  Returns(t)
BY DEF CallTypes, Return, Returns, Places, Paths

LEMMA SucceedGoes ==
  ASSUME CallTypes, NEW t \in Thread, Succeed(t)
  PROVE  Goes(t, "freeze") \/ Returns(t)
BY StepGoes, ReturnReturns DEF Succeed, Places

\* Only one caller is inside an operation.
LEMMA Alone ==
  ASSUME CallTypes, LocksHeld, NEW t \in Thread, pc[t] # "idle"
  PROVE  op = t /\ op # Nobody /\ \A u \in Thread \ {t} : pc[u] = "idle"
BY NobodyAssumption DEF CallTypes, LocksHeld

\* A switch starts on a route that is not frozen.
LEMMA SwitchUnfrozen ==
  ASSUME NEW p \in Paths, TransitionNeeded(p) = "yes"
  PROVE  frozen = Unfrozen
BY DEF TransitionNeeded

\* What a step of a worker leaves behind: where it goes on, its answer, its probe.
Works(r, s, h) ==
  /\ wpc' \in [Run -> WorkerPlaces] /\ wpc'[r] = s /\ \A q \in Run \ {r} : wpc'[q] = wpc[q]
  /\ healthy' \in [Run -> BOOLEAN] /\ healthy'[r] = h
  /\ \A q \in Run \ {r} : healthy'[q] = healthy[q]

Probes(r, n) ==
  probed' \in [Run -> 0 .. MaxRun] /\ probed'[r] = n /\ \A q \in Run \ {r} : probed'[q] = probed[q]

LEMMA Leaves ==
  ASSUME RunTypes, NEW r \in Run, Leave(r)
  PROVE  Works(r, "done", TRUE)
BY DEF RunTypes, Leave, WorkerStep, Works, WorkerPlaces

LEMMA WorkerGoes ==
  ASSUME RunTypes, NEW r \in Run, NEW s \in WorkerPlaces, WorkerStep(r, s), UNCHANGED healthy
  PROVE  Works(r, s, healthy[r])
BY DEF RunTypes, WorkerStep, Works

LEMMA WorkerAnswers ==
  ASSUME RunTypes, NEW r \in Run, NEW s \in WorkerPlaces, NEW h \in BOOLEAN,
         WorkerStep(r, s), healthy' = [healthy EXCEPT ![r] = h]
  PROVE  Works(r, s, h)
BY DEF RunTypes, WorkerStep, Works

LEMMA ProbeSet ==
  ASSUME RunTypes, NEW r \in Run, NEW n \in 0 .. MaxRun, probed' = [probed EXCEPT ![r] = n]
  PROVE  Probes(r, n)
BY DEF RunTypes, Probes

\* A worker that was born belongs to a run, probes its own route, and only the
\* worker of the route in force does more than end its probe.
LEMMA OwnWorker ==
  ASSUME RunTypes, WorkerOrder, NEW r \in Run, wpc[r] # "unborn"
  PROVE  /\ r \in 1 .. runs /\ r # None
         /\ wpc[r] = "probing" => probed[r] = r
         /\ wpc[r] \notin {"probing", "check", "done"} => r = handle
         /\ wpc[r] = "check" /\ ~wstop[r] => r = handle
BY RunAssumption DEF RunTypes, WorkerOrder, Run, None

\* A worker is told to stop.
LEMMA Stops ==
  ASSUME RunTypes, wstop' = [q \in Run |-> wstop[q] \/ q = worker]
  PROVE  wstop' \in [Run -> BOOLEAN] /\ \A q \in Run : wstop'[q] = (wstop[q] \/ q = worker)
BY DEF RunTypes

\* A bring-up, of a route or of the fallback: a new run with its own worker.
Installed(p, s) ==
  /\ runs + 1 \in Run /\ runs' = runs + 1 /\ handle' = runs + 1 /\ active' = p /\ state' = s
  /\ path' \in [Run -> Paths] /\ path'[runs + 1] = p
  /\ \A q \in Run \ {runs + 1} : path'[q] = path[q]
  /\ proxy' = ProxyFor(p, runs + 1) /\ proxy' \in Environments
  /\ failures' = 0 /\ dropped' = FALSE /\ lastHealth' = TRUE /\ worker' = runs + 1
  /\ wpc' \in [Run -> WorkerPlaces] /\ wpc'[runs + 1] = "waiting"
  /\ \A q \in Run \ {runs + 1} : wpc'[q] = wpc[q]
  /\ down' = down /\ left' = left /\ wstop' = wstop /\ probed' = probed /\ healthy' = healthy
  /\ streak' = streak

LEMMA InstallInstalls ==
  ASSUME RInv, NEW t \in Thread, pc[t] = "bringup", NEW p \in Paths, NEW s \in Up, Install(p, s)
  PROVE  Installed(p, s)
<1>1. worker = None /\ runs \in 0 .. MaxRun /\ runs < MaxRun /\ runs + 1 \in Run
  BY RunAssumption DEF RInv, TypeOK, RunTypes, SwitchOrder, Install, Run
<1>2. worker' = runs + 1 /\ wpc' = [wpc EXCEPT ![runs + 1] = "waiting"]
  BY <1>1 DEF Install, StartWorker
<1>3. /\ wpc' \in [Run -> WorkerPlaces] /\ wpc'[runs + 1] = "waiting"
      /\ \A q \in Run \ {runs + 1} : wpc'[q] = wpc[q]
  BY <1>1, <1>2 DEF RInv, TypeOK, RunTypes, WorkerPlaces
<1>4. /\ path' \in [Run -> Paths] /\ path'[runs + 1] = p
      /\ \A q \in Run \ {runs + 1} : path'[q] = path[q]
  BY <1>1 DEF RInv, TypeOK, RunTypes, Install
<1>5. proxy' = ProxyFor(p, runs + 1)
  BY DEF Install
<1>6. proxy' \in Environments
  BY <1>1, <1>5, RunAssumption DEF RInv, TypeOK, RouteTypes, ProxyFor, Socks, UserEnv, NoProxy,
     Environments
<1> QED  BY <1>1, <1>2, <1>3, <1>4, <1>5, <1>6 DEF Install, ResetLiveness, Installed

\* The route in force ends, or its daemon is left behind.
TornDown ==
  /\ handle' = None /\ down \subseteq down' /\ down' \subseteq Run
  /\ left \subseteq left' /\ left' \subseteq Run
  /\ path[handle] # "clearnet" => handle \in down' \cup left'

LEMMA TearsDown ==
  ASSUME RouteTypes, RunTypes, handle # None, TeardownCurrent
  PROVE  TornDown
<1>1. handle \in Run
  BY RunAssumption DEF RouteTypes, RunTypes, Run, None
<1> QED  BY <1>1 DEF TeardownCurrent, TornDown, RunTypes

LEMMA UserEnvTypes == UserEnv \in Environments
BY RunAssumption DEF UserEnv, Socks, Environments

LEMMA RunNumbers == None \in 0 .. MaxRun /\ \A r \in Run : r \in 0 .. MaxRun /\ r # None
BY RunAssumption DEF None, Run

\* A stopped worker leaves, and one that goes on is that of the route in force.
LEMMA WorkerMoves ==
  ASSUME RInv, NEW r \in 1 .. runs,
         \/ wstop[r] /\ Works(r, "done", TRUE)
         \/ r = handle /\ (Works(r, "due", healthy[r]) \/ Works(r, "judge", healthy[r])),
         UNCHANGED <<handle, worker, runs, path, down, left, wstop, probed, streak>>
  PROVE  WorkerOrder'
<1>1. WorkerOrder /\ 1 .. runs \subseteq Run
  BY RunAssumption DEF RInv, TypeOK, RunTypes, Run
<1> QED  BY <1>1 DEF WorkerOrder, Works

\* A worker takes its own answer: a clearnet route is always well.
LEMMA EndProbeWorkers ==
  ASSUME RInv, NEW r \in Run, EndProbe(r)
  PROVE  WorkerOrder'
<1>0. CallTypes /\ RouteTypes /\ RunTypes /\ WorkerOrder /\ SwitchOrder  BY DEF RInv, TypeOK
<1>1. wpc[r] = "probing"
  BY <1>0 DEF EndProbe
<1>2. r \in 1 .. runs /\ r # None
  BY <1>0, <1>1, OwnWorker DEF RInv
<1>3. probed[r] = r
  BY <1>0, <1>1, OwnWorker DEF RInv
<1>4. \E ok \in BOOLEAN : /\ path[r] = "clearnet" => ok
                         /\ Works(r, "check", ok)
                         /\ lastHealth' = IF handle = r THEN ok ELSE lastHealth
  BY <1>0, <1>3, WorkerAnswers DEF EndProbe, Answers, WorkerPlaces
<1>5. Probes(r, None)
  BY <1>0, ProbeSet, RunNumbers DEF EndProbe
<1>6. /\ runs' = runs /\ worker' = worker /\ handle' = handle /\ wstop' = wstop 
      /\ path' = path /\ down' = down /\ left' = left /\ streak' = streak
  BY DEF EndProbe, otherThanWorkers, routeVars
<1>7. 1 .. runs \subseteq Run
  BY <1>0, RunAssumption DEF RunTypes, Run
<1>8. WorkerOrder'
  <2>1. PICK ok \in BOOLEAN : (path[r] = "clearnet" => ok) /\ Works(r, "check", ok)
    BY <1>4
  <2>2. \A q \in 1 .. runs : wpc'[q] = "probing" => wpc[q] = "probing" /\ probed'[q] = q
    BY <1>0, <1>5, <1>7, <2>1 DEF WorkerOrder, Works, Probes
  <2>3. \A q \in 1 .. runs : path[q] = "clearnet" => healthy'[q]
    BY <1>0, <1>7, <2>1 DEF WorkerOrder, Works
  <2>4. \A q \in 1 .. runs : wpc'[q] = "done" => wpc[q] = "done"
    BY <1>7, <2>1 DEF Works
  <2>5. \A q \in 1 .. runs : q # handle => wpc'[q] \in {"probing", "check", "done"}
    BY <1>0, <1>7, <2>1 DEF WorkerOrder, Works
  <2>6. \A q \in Run : q > runs => healthy'[q]
    BY <1>0, <1>2, <1>7, <2>1, RunAssumption DEF WorkerOrder, Works, RunTypes, Run
  <2> QED  BY <1>0, <1>6, <2>2, <2>3, <2>4, <2>5, <2>6 DEF WorkerOrder
<1> QED  BY <1>8

\* A switch closes the state and tells the old worker to stop before the lock is let go.
LEMMA BeginSwitchOrder ==
  ASSUME RInv, NEW t \in Thread, BeginSwitch(t)
  PROVE  SwitchOrder' /\ WorkerOrder'
<1>0. CallTypes /\ RouteTypes /\ RunTypes /\ WorkerOrder /\ SwitchOrder  BY DEF RInv, TypeOK
<1>1. pc[t] = "begin"
  BY <1>0 DEF BeginSwitch
<1>2. op = t /\ op # Nobody /\ \A u \in Thread \ {t} : pc[u] = "idle"
  BY <1>1, Alone DEF RInv, TypeOK
<1>3. lock = Nobody /\ state' = "bringing_up" /\ frozen = Unfrozen
  BY <1>0, SwitchUnfrozen DEF BeginSwitch, CallTypes
<1>4. \/ handle = None /\ lock' = t /\ Goes(t, "bringup") /\ worker' = worker /\ wstop' = wstop
      \/ /\ handle # None /\ lock' = lock /\ Goes(t, "join") /\ worker' = None
         /\ wstop' \in [Run -> BOOLEAN] /\ \A q \in Run : wstop'[q] = (wstop[q] \/ q = worker)
  BY <1>0, StepGoes, Stops DEF BeginSwitch, Places
<1>5. /\ active' = active /\ handle' = handle /\ requested' = requested /\ frozen' = frozen
      /\ runs' = runs /\ path' = path /\ down' = down /\ left' = left /\ streak' = streak
      /\ probed' = probed /\ healthy' = healthy /\ wpc' = wpc
  BY DEF BeginSwitch, confVars, liveVars, runVars
<1>6. SwitchOrder'
  <2>1. handle = None => worker = None
    BY <1>0 DEF WorkerOrder
  <2>2. \A u \in Thread \ {t} : pc'[u] = "idle"
    BY <1>2, <1>4 DEF Goes
  <2>3. op' # Nobody /\ state' \notin Up /\ state' # "idle"
    BY <1>2, <1>3, <1>4 DEF Goes, Up
  <2>4. pc'[t] = "bringup" => handle' = None /\ worker' = None
    BY <1>4, <1>5, <2>1 DEF Goes
  <2>5. pc'[t] = "join" => handle' # None /\ worker' = None
    BY <1>4, <1>5 DEF Goes
  <2>6. pc'[t] \in {"join", "bringup"}
    BY <1>4 DEF Goes
  <2> QED  BY <1>0, <1>3, <1>5, <2>2, <2>3, <2>4, <2>5, <2>6 DEF SwitchOrder
<1>7. 1 .. runs \subseteq Run /\ None \notin 1..runs
  BY <1>0, RunAssumption DEF RunTypes, Run, None
<1>8. WorkerOrder'
  <2>1. CASE handle = None
    BY <1>0, <1>4, <1>5, <2>1 DEF WorkerOrder
  <2>2. CASE handle # None
    <3>1. /\ worker' = None /\ \A q \in Run : wstop'[q] = (wstop[q] \/ q = worker)
      BY <1>4, <2>2
    <3>2. \A q \in 1 .. runs : wstop'[q] /\ q # worker'
      BY <1>0, <1>7, <3>1 DEF WorkerOrder
    <3>3. \A q \in Run : q > runs => ~wstop'[q]
      <4>1. worker \in 0 .. runs /\ runs \in Nat
        BY <1>0 DEF RouteTypes, RunTypes
      <4>2. \A q \in Run : q > runs => ~wstop[q]
        BY <1>0 DEF WorkerOrder
      <4>3. \A q \in Run : q > runs => q # worker
        BY <4>1, RunAssumption DEF Run
      <4> QED  BY <3>1, <4>2, <4>3
    <3> QED  BY <1>0, <1>5, <3>1, <3>2, <3>3 DEF WorkerOrder
  <2> QED  BY <2>1, <2>2
<1> QED  BY <1>6, <1>8

\* The types of the route after a strict failure, after a stop, and after a bring-up.
LEMMA RefusedRoute ==
  ASSUME RInv, NEW t \in Thread, BringUpRefused(t)
  PROVE  RouteTypes'
<1>1. RouteTypes /\ "clearnet" \in Paths /\ 0 \in 0 .. Threshold
  BY ThresholdAssumption DEF RInv, TypeOK, Paths
<1>2. /\ proxy' = UserEnv /\ state' = "idle" /\ active' = "clearnet"
      /\ failures' = 0 /\ dropped' = FALSE /\ lastHealth' = TRUE
      /\ handle' = handle /\ requested' = requested /\ mode' = mode /\ token' = token
      /\ frozen' = frozen /\ worker' = worker /\ runs' = runs
  BY DEF BringUpRefused, ResetLiveness, confVars, runVars
<1> QED  BY <1>1, <1>2, UserEnvTypes DEF RouteTypes

LEMMA StoppedRoute ==
  ASSUME RInv, NEW t \in Thread, FinishStop(t)
  PROVE  RouteTypes'
<1>1. RouteTypes /\ "clearnet" \in Paths /\ 0 \in 0 .. Threshold /\ None \in 0 .. runs
  BY ThresholdAssumption, RunAssumption DEF RInv, TypeOK, Paths, RunTypes, None
<1>2. /\ proxy' = UserEnv /\ state' = "idle" /\ active' = "clearnet" /\ handle' = None
      /\ failures' = 0 /\ dropped' = FALSE /\ lastHealth' = TRUE
      /\ requested' = requested /\ mode' = mode /\ token' = token
      /\ frozen' = frozen /\ worker' = worker /\ runs' = runs
  BY DEF FinishStop, TeardownCurrent, ResetLiveness, confVars
<1> QED  BY <1>1, <1>2, UserEnvTypes DEF RouteTypes

LEMMA InstalledRoute ==
  ASSUME RInv, NEW p \in Paths, NEW s \in Up, Installed(p, s),
         requested' \in Paths, UNCHANGED <<confVars, frozen>>
  PROVE  RouteTypes'
<1>1. RouteTypes /\ 0 \in 0 .. Threshold /\ runs + 1 \in 0 .. runs + 1
  BY ThresholdAssumption, RunAssumption DEF RInv, TypeOK, RunTypes
<1> QED  BY <1>1 DEF RouteTypes, Installed, confVars, Up

-----------------------------------------------------------------------------
(* The actions. *)

\* A call takes the operation lock.
LEMMA CallUseKeeps ==
  ASSUME RInv, NEW t \in Thread, NEW p \in Paths, NEW freeze \in BOOLEAN, CallUse(t, p, freeze)
  PROVE  RInv'
<1>1. CallTypes'
  BY RunAssumption, ThresholdAssumption, NobodyAssumption DEF RInv, TypeOK, CallTypes,
     RouteTypes, RunTypes, CallUse, routeVars, confVars, liveVars, runVars, workVars, Paths,
     Places
<1>2. RouteTypes'
  BY RunAssumption, ThresholdAssumption, NobodyAssumption DEF RInv, TypeOK, CallTypes,
     RouteTypes, RunTypes, CallUse, routeVars, confVars, liveVars, runVars, workVars, Up, Run,
     None, Paths
<1>3. RunTypes'
  BY RunAssumption, ThresholdAssumption, NobodyAssumption DEF RInv, TypeOK, CallTypes,
     RouteTypes, RunTypes, CallUse, routeVars, confVars, liveVars, runVars, workVars, Run, None,
     Paths, WorkerPlaces
<1>4. LocksHeld'
  BY RunAssumption, ThresholdAssumption, NobodyAssumption DEF RInv, TypeOK, CallTypes,
     RouteTypes, RunTypes, CallUse, routeVars, confVars, liveVars, runVars, workVars, LocksHeld
<1>5. SwitchOrder'
  BY RunAssumption, ThresholdAssumption, NobodyAssumption DEF RInv, TypeOK, CallTypes,
     RouteTypes, RunTypes, CallUse, routeVars, confVars, liveVars, runVars, workVars,
     SwitchOrder, LocksHeld, Up, None, Run, Paths, Unfrozen
<1>6. WorkerOrder'
  BY RunAssumption, ThresholdAssumption, NobodyAssumption DEF RInv, TypeOK, CallTypes,
     RouteTypes, RunTypes, CallUse, routeVars, confVars, liveVars, runVars, workVars,
     WorkerOrder, SwitchOrder, LocksHeld, Run, None, Up
<1>7. Counts'
  BY RunAssumption, ThresholdAssumption, NobodyAssumption DEF RInv, TypeOK, CallTypes,
     RouteTypes, RunTypes, CallUse, routeVars, confVars, liveVars, runVars, workVars, Counts,
     WorkerOrder, SwitchOrder, LocksHeld, Run, None, Up
<1>8. DropIsEarned'
  BY RunAssumption, ThresholdAssumption, NobodyAssumption DEF RInv, TypeOK, CallTypes,
     RouteTypes, RunTypes, CallUse, routeVars, confVars, liveVars, runVars, workVars,
     DropIsEarned, Counts, WorkerOrder, SwitchOrder, LocksHeld, Run, None, Up
<1>9. NoStrayRoute'
  BY RunAssumption, ThresholdAssumption, NobodyAssumption DEF RInv, TypeOK, CallTypes,
     RouteTypes, RunTypes, CallUse, routeVars, confVars, liveVars, runVars, workVars,
     NoStrayRoute, WorkerOrder, SwitchOrder, LocksHeld, Run, None, Up
<1> QED  BY <1>1, <1>2, <1>3, <1>4, <1>5, <1>6, <1>7, <1>8, <1>9 DEF RInv, TypeOK

\* The fast path, the beginning of a switch, or an exception.
LEMMA CheckKeeps ==
  ASSUME RInv, NEW t \in Thread, Check(t)
  PROVE  RInv'
<1>0. CallTypes /\ RouteTypes /\ RunTypes /\ WorkerOrder /\ SwitchOrder  BY DEF RInv, TypeOK
<1>1. pc[t] = "check"
  BY DEF Check
<1>2. op = t /\ op # Nobody /\ \A u \in Thread \ {t} : pc[u] = "idle"
  BY <1>1, Alone DEF RInv, TypeOK
<1>3. lock = Nobody
  BY DEF Check
<1>4. Goes(t, "begin") \/ Goes(t, "freeze") \/ Returns(t)
  BY <1>0, StepGoes, ReturnReturns, SucceedGoes DEF Check, TransitionNeeded, Places
<1>5. UNCHANGED <<lock, routeVars, confVars, frozen, worker, liveVars, proxy, runVars,
                 workVars>>
  BY DEF Check
<1>6. CallTypes'
  BY <1>0, <1>1, <1>2, <1>3, <1>4, <1>5 DEF CallTypes, Goes, Returns, routeVars, confVars,
     liveVars, runVars, workVars, Places
<1>7. RouteTypes'
  BY RunAssumption, ThresholdAssumption, NobodyAssumption DEF RInv, TypeOK, CallTypes,
     RouteTypes, RunTypes, Check, TransitionNeeded, Reusable, Up, None, Unfrozen, Step, Return,
     Succeed, routeVars, confVars, liveVars, runVars, workVars, Run, Paths
<1>8. RunTypes'
  BY RunAssumption, ThresholdAssumption, NobodyAssumption DEF RInv, TypeOK, CallTypes,
     RouteTypes, RunTypes, Check, TransitionNeeded, Reusable, Up, None, Unfrozen, Step, Return,
     Succeed, routeVars, confVars, liveVars, runVars, workVars, Run, Paths, WorkerPlaces
<1>9. LocksHeld'
  BY <1>1, <1>2, <1>3, <1>4, <1>5, RunAssumption, ThresholdAssumption, NobodyAssumption DEF
     RInv, TypeOK, CallTypes, RouteTypes, RunTypes, LocksHeld, Goes, Returns, lockVars,
     callVars, routeVars, confVars, liveVars, runVars, workVars, otherThanWorkers
<1>10. SwitchOrder'
  BY <1>1, <1>2, <1>3, <1>4, <1>5, RunAssumption, ThresholdAssumption, NobodyAssumption DEF
     RInv, TypeOK, CallTypes, RouteTypes, RunTypes, SwitchOrder, LocksHeld, Up, None, Run,
     Paths, Unfrozen, Goes, Returns, lockVars, callVars, routeVars, confVars, liveVars, runVars,
     workVars, otherThanWorkers
<1>11. WorkerOrder'
  BY RunAssumption, ThresholdAssumption, NobodyAssumption DEF RInv, TypeOK, CallTypes,
     RouteTypes, RunTypes, Check, TransitionNeeded, Reusable, Up, None, Unfrozen, Step, Return,
     Succeed, routeVars, confVars, liveVars, runVars, workVars, WorkerOrder, SwitchOrder,
     LocksHeld, Run
<1>12. Counts'
  BY RunAssumption, ThresholdAssumption, NobodyAssumption DEF RInv, TypeOK, CallTypes,
     RouteTypes, RunTypes, Check, TransitionNeeded, Reusable, Up, None, Unfrozen, Step, Return,
     Succeed, routeVars, confVars, liveVars, runVars, workVars, Counts, WorkerOrder,
     SwitchOrder, LocksHeld, Run
<1>13. DropIsEarned'
  BY RunAssumption, ThresholdAssumption, NobodyAssumption DEF RInv, TypeOK, CallTypes,
     RouteTypes, RunTypes, Check, TransitionNeeded, Reusable, Up, None, Unfrozen, Step, Return,
     Succeed, routeVars, confVars, liveVars, runVars, workVars, DropIsEarned, Counts,
     WorkerOrder, SwitchOrder, LocksHeld, Run
<1>14. NoStrayRoute'
  BY RunAssumption, ThresholdAssumption, NobodyAssumption DEF RInv, TypeOK, CallTypes,
     RouteTypes, RunTypes, Check, TransitionNeeded, Reusable, Up, None, Unfrozen, Step, Return,
     Succeed, routeVars, confVars, liveVars, runVars, workVars, NoStrayRoute, WorkerOrder,
     SwitchOrder, LocksHeld, Run
<1> QED  BY <1>6, <1>7, <1>8, <1>9, <1>10, <1>11, <1>12, <1>13, <1>14 DEF RInv, TypeOK

\* The second check; the old worker is told to stop before the lock is let go.
LEMMA BeginSwitchKeeps ==
  ASSUME RInv, NEW t \in Thread, BeginSwitch(t)
  PROVE  RInv'
<1>0. CallTypes /\ RouteTypes /\ RunTypes /\ WorkerOrder /\ SwitchOrder  BY DEF RInv, TypeOK
<1>1. pc[t] = "begin"
  BY DEF BeginSwitch
<1>2. op = t /\ op # Nobody /\ \A u \in Thread \ {t} : pc[u] = "idle"
  BY <1>1, Alone DEF RInv, TypeOK
<1>3. lock = Nobody /\ state' = "bringing_up" /\ frozen = Unfrozen
  BY <1>0, SwitchUnfrozen DEF BeginSwitch, CallTypes
<1>4. \/ handle = None /\ lock' = t /\ Goes(t, "bringup") /\ UNCHANGED <<worker, wstop>>
      \/ /\ handle # None /\ lock' = lock /\ Goes(t, "join") /\ worker' = None
         /\ wstop' \in [Run -> BOOLEAN] /\ \A q \in Run : wstop'[q] = (wstop[q] \/ q = worker)
  BY <1>0, StepGoes, Stops DEF BeginSwitch, Places
<1>5. UNCHANGED <<active, handle, requested, confVars, frozen, liveVars, proxy, runVars, wpc,
                 probed, healthy, streak>>
  BY DEF BeginSwitch
<1>6. CallTypes'
  BY <1>0, <1>1, <1>2, <1>3, <1>4, <1>5 DEF CallTypes, Goes, confVars, liveVars, runVars, Places
<1>7. RouteTypes'
  BY RunAssumption, ThresholdAssumption, NobodyAssumption DEF RInv, TypeOK, CallTypes,
     RouteTypes, RunTypes, BeginSwitch, TransitionNeeded, Reusable, Up, None, Unfrozen, Step,
     Run, confVars, liveVars, runVars, Paths
<1>8. RunTypes'
  BY <1>1, <1>2, <1>3, <1>4, <1>5, RunAssumption, ThresholdAssumption, NobodyAssumption DEF
     RInv, TypeOK, CallTypes, RouteTypes, RunTypes, Run, None, Paths, Goes, lockVars, callVars,
     routeVars, confVars, liveVars, runVars, workVars, otherThanWorkers, WorkerPlaces
<1>9. LocksHeld'
  BY RunAssumption, ThresholdAssumption, NobodyAssumption DEF RInv, TypeOK, CallTypes,
     RouteTypes, RunTypes, BeginSwitch, TransitionNeeded, Reusable, Up, None, Unfrozen, Step,
     Run, confVars, liveVars, runVars, LocksHeld
<1>10. SwitchOrder'
  BY BeginSwitchOrder
<1>11. WorkerOrder'
  BY BeginSwitchOrder
<1>12. Counts'
  BY RunAssumption, ThresholdAssumption, NobodyAssumption DEF RInv, TypeOK, CallTypes,
     RouteTypes, RunTypes, BeginSwitch, TransitionNeeded, Reusable, Up, None, Unfrozen, Step,
     Run, confVars, liveVars, runVars, Counts, WorkerOrder, SwitchOrder, LocksHeld
<1>13. DropIsEarned'
  BY RunAssumption, ThresholdAssumption, NobodyAssumption DEF RInv, TypeOK, CallTypes,
     RouteTypes, RunTypes, BeginSwitch, TransitionNeeded, Reusable, Up, None, Unfrozen, Step,
     Run, confVars, liveVars, runVars, DropIsEarned, Counts, WorkerOrder, SwitchOrder, LocksHeld
<1>14. NoStrayRoute'
  BY RunAssumption, ThresholdAssumption, NobodyAssumption DEF RInv, TypeOK, CallTypes,
     RouteTypes, RunTypes, BeginSwitch, TransitionNeeded, Reusable, Up, None, Unfrozen, Step,
     Run, confVars, liveVars, runVars, NoStrayRoute, WorkerOrder, SwitchOrder, LocksHeld
<1> QED  BY <1>6, <1>7, <1>8, <1>9, <1>10, <1>11, <1>12, <1>13, <1>14 DEF RInv, TypeOK

\* The old route ends under the lock.
LEMMA TeardownKeeps ==
  ASSUME RInv, NEW t \in Thread, Teardown(t)
  PROVE  RInv'
<1>0. CallTypes /\ RouteTypes /\ RunTypes /\ WorkerOrder /\ SwitchOrder  BY DEF RInv, TypeOK
<1>1. pc[t] = "join"
  BY DEF Teardown
<1>2. op = t /\ op # Nobody /\ \A u \in Thread \ {t} : pc[u] = "idle"
  BY <1>1, Alone DEF RInv, TypeOK
<1>3. lock = Nobody /\ Joined(handle) /\ lock' = t /\ state' = "tearing_down" /\ handle' = None
  BY DEF Teardown, TeardownCurrent
<1>4. TornDown
  BY <1>0, <1>1, TearsDown DEF Teardown, SwitchOrder
<1>5. Goes(t, "bringup")
  BY <1>0, StepGoes DEF Teardown, Places
<1>6. UNCHANGED <<active, requested, confVars, frozen, worker, liveVars, proxy, runs, path,
                 workVars>>
  BY DEF Teardown
<1>7. CallTypes'
  BY RunAssumption, ThresholdAssumption, NobodyAssumption DEF RInv, TypeOK, CallTypes,
     RouteTypes, RunTypes, Teardown, TeardownCurrent, Step, Joined, None, confVars, liveVars,
     workVars, Paths, Places
<1>8. RouteTypes'
  BY RunAssumption, ThresholdAssumption, NobodyAssumption DEF RInv, TypeOK, CallTypes,
     RouteTypes, RunTypes, Teardown, TeardownCurrent, Step, Joined, None, confVars, liveVars,
     workVars, Up, Run, Paths
<1>9. RunTypes'
  BY <1>0, <1>4, <1>6 DEF RunTypes, TornDown, workVars
<1>10. LocksHeld'
  BY RunAssumption, ThresholdAssumption, NobodyAssumption DEF RInv, TypeOK, CallTypes,
     RouteTypes, RunTypes, Teardown, TeardownCurrent, Step, Joined, None, confVars, liveVars,
     workVars, LocksHeld
<1>11. SwitchOrder'
  BY <1>0, <1>1, <1>2, <1>3, <1>4, <1>5, <1>6 DEF SwitchOrder, Goes, Joined, confVars, liveVars,
     workVars, Up, None, Paths, Unfrozen
<1>12. WorkerOrder'
  BY RunAssumption, ThresholdAssumption, NobodyAssumption DEF RInv, TypeOK, CallTypes,
     RouteTypes, RunTypes, Teardown, TeardownCurrent, Step, Joined, None, confVars, liveVars,
     workVars, WorkerOrder, SwitchOrder, LocksHeld, Run, Up
<1>13. Counts'
  BY RunAssumption, ThresholdAssumption, NobodyAssumption DEF RInv, TypeOK, CallTypes,
     RouteTypes, RunTypes, Teardown, TeardownCurrent, Step, Joined, None, confVars, liveVars,
     workVars, Counts, WorkerOrder, SwitchOrder, LocksHeld, Run, Up
<1>14. DropIsEarned'
  BY RunAssumption, ThresholdAssumption, NobodyAssumption DEF RInv, TypeOK, CallTypes,
     RouteTypes, RunTypes, Teardown, TeardownCurrent, Step, Joined, None, confVars, liveVars,
     workVars, DropIsEarned, Counts, WorkerOrder, SwitchOrder, LocksHeld, Run, Up
<1>15. NoStrayRoute'
  BY RunAssumption, ThresholdAssumption, NobodyAssumption DEF RInv, TypeOK, CallTypes,
     RouteTypes, RunTypes, Teardown, TeardownCurrent, Step, Joined, None, confVars, liveVars,
     workVars, NoStrayRoute, WorkerOrder, SwitchOrder, LocksHeld, Run, Up
<1> QED  BY <1>7, <1>8, <1>9, <1>10, <1>11, <1>12, <1>13, <1>14, <1>15 DEF RInv, TypeOK

\* A new run takes the place of the old one.
LEMMA BringUpKeeps ==
  ASSUME RInv, NEW t \in Thread, BringUp(t)
  PROVE  RInv'
<1>0. CallTypes /\ RouteTypes /\ RunTypes /\ WorkerOrder /\ SwitchOrder  BY DEF RInv, TypeOK
<1>1. pc[t] = "bringup"
  BY DEF BringUp
<1>2. op = t /\ op # Nobody /\ \A u \in Thread \ {t} : pc[u] = "idle"
  BY <1>1, Alone DEF RInv, TypeOK
<1>3. Installed(target[t], "ready")
  BY <1>0, <1>1, InstallInstalls DEF BringUp, CallTypes, Up
<1>4. requested' = target[t] /\ target[t] \in Paths /\ lock' = Nobody
  BY <1>0 DEF BringUp, CallTypes
<1>5. Goes(t, "freeze") \/ Returns(t)
  BY <1>0, SucceedGoes DEF BringUp
<1>6. UNCHANGED <<confVars, frozen>>
  BY DEF BringUp
<1>7. CallTypes'
  BY <1>1, <1>2, <1>3, <1>4, <1>5, <1>6, RunAssumption, ThresholdAssumption, NobodyAssumption
     DEF RInv, TypeOK, CallTypes, RouteTypes, RunTypes, Paths, Goes, Returns, Installed,
     lockVars, callVars, routeVars, confVars, liveVars, runVars, workVars, otherThanWorkers,
     Places
<1>8. RouteTypes'
  BY <1>3, <1>4, <1>6, <1>0, InstalledRoute DEF CallTypes, Up
<1>9. RunTypes'
  BY RunNumbers, <1>0, <1>1, <1>2, <1>3, <1>4, <1>5, <1>6 DEF RunTypes, Goes, Returns,
     Installed, confVars, WorkerPlaces
<1>10. LocksHeld'
  BY RunAssumption, ThresholdAssumption, NobodyAssumption DEF RInv, TypeOK, CallTypes,
     RouteTypes, RunTypes, BringUp, Succeed, Step, Return, Install, ResetLiveness, ProxyFor,
     Socks, NoProxy, UserEnv, StartWorker, None, confVars, LocksHeld
<1>11. SwitchOrder'
  BY RunNumbers, <1>0, <1>1, <1>2, <1>3, <1>4, <1>5, <1>6 DEF SwitchOrder, Goes, Returns,
     Installed, confVars, Up, None, Paths, Unfrozen
<1>12. WorkerOrder'
  BY RunNumbers, RunAssumption, ThresholdAssumption, <1>0, <1>1, <1>2, <1>3, <1>4, <1>5, <1>6
     DEF RouteTypes, RunTypes, WorkerOrder, Goes, Returns, Installed, confVars, Run, None,
     SwitchOrder
<1>13. Counts'
  BY RunAssumption, ThresholdAssumption, NobodyAssumption DEF RInv, TypeOK, CallTypes,
     RouteTypes, RunTypes, BringUp, Succeed, Step, Return, Install, ResetLiveness, ProxyFor,
     Socks, NoProxy, UserEnv, StartWorker, None, confVars, Counts, WorkerOrder, SwitchOrder,
     LocksHeld, Run, Up
<1>14. DropIsEarned'
  BY RunAssumption, ThresholdAssumption, NobodyAssumption DEF RInv, TypeOK, CallTypes,
     RouteTypes, RunTypes, BringUp, Succeed, Step, Return, Install, ResetLiveness, ProxyFor,
     Socks, NoProxy, UserEnv, StartWorker, None, confVars, DropIsEarned, Counts, WorkerOrder,
     SwitchOrder, LocksHeld, Run, Up
<1>15. NoStrayRoute'
  BY RunAssumption, ThresholdAssumption, NobodyAssumption DEF RInv, TypeOK, CallTypes,
     RouteTypes, RunTypes, BringUp, Succeed, Step, Return, Install, ResetLiveness, ProxyFor,
     Socks, NoProxy, UserEnv, StartWorker, None, confVars, NoStrayRoute, WorkerOrder,
     SwitchOrder, LocksHeld, Run, Up
<1> QED  BY <1>7, <1>8, <1>9, <1>10, <1>11, <1>12, <1>13, <1>14, <1>15 DEF RInv, TypeOK

\* A strict failure leaves no route.
LEMMA BringUpRefusedKeeps ==
  ASSUME RInv, NEW t \in Thread, BringUpRefused(t)
  PROVE  RInv'
<1>1. CallTypes'
  BY RunAssumption, ThresholdAssumption, NobodyAssumption DEF RInv, TypeOK, CallTypes,
     RouteTypes, RunTypes, BringUpRefused, Return, ResetLiveness, UserEnv, Socks, confVars,
     runVars, workVars, Paths, Places
<1>2. RouteTypes'
  BY RefusedRoute
<1>3. RunTypes'
  BY RunAssumption, ThresholdAssumption, NobodyAssumption DEF RInv, TypeOK, CallTypes,
     RouteTypes, RunTypes, BringUpRefused, Return, ResetLiveness, UserEnv, Socks, confVars,
     runVars, workVars, Run, None, Paths, WorkerPlaces
<1>4. LocksHeld'
  BY RunAssumption, ThresholdAssumption, NobodyAssumption DEF RInv, TypeOK, CallTypes,
     RouteTypes, RunTypes, BringUpRefused, Return, ResetLiveness, UserEnv, Socks, confVars,
     runVars, workVars, LocksHeld
<1>5. SwitchOrder'
  BY RunAssumption, ThresholdAssumption, NobodyAssumption DEF RInv, TypeOK, CallTypes,
     RouteTypes, RunTypes, BringUpRefused, Return, ResetLiveness, UserEnv, Socks, confVars,
     runVars, workVars, SwitchOrder, LocksHeld, Up, None, Run, Paths, Unfrozen
<1>6. WorkerOrder'
  BY RunAssumption, ThresholdAssumption, NobodyAssumption DEF RInv, TypeOK, CallTypes,
     RouteTypes, RunTypes, BringUpRefused, Return, ResetLiveness, UserEnv, Socks, confVars,
     runVars, workVars, WorkerOrder, SwitchOrder, LocksHeld, Run, None, Up
<1>7. Counts'
  BY RunAssumption, ThresholdAssumption, NobodyAssumption DEF RInv, TypeOK, CallTypes,
     RouteTypes, RunTypes, BringUpRefused, Return, ResetLiveness, UserEnv, Socks, confVars,
     runVars, workVars, Counts, WorkerOrder, SwitchOrder, LocksHeld, Run, None, Up
<1>8. DropIsEarned'
  BY RunAssumption, ThresholdAssumption, NobodyAssumption DEF RInv, TypeOK, CallTypes,
     RouteTypes, RunTypes, BringUpRefused, Return, ResetLiveness, UserEnv, Socks, confVars,
     runVars, workVars, DropIsEarned, Counts, WorkerOrder, SwitchOrder, LocksHeld, Run, None, Up
<1>9. NoStrayRoute'
  BY RunAssumption, ThresholdAssumption, NobodyAssumption DEF RInv, TypeOK, CallTypes,
     RouteTypes, RunTypes, BringUpRefused, Return, ResetLiveness, UserEnv, Socks, confVars,
     runVars, workVars, NoStrayRoute, WorkerOrder, SwitchOrder, LocksHeld, Run, None, Up
<1> QED  BY <1>1, <1>2, <1>3, <1>4, <1>5, <1>6, <1>7, <1>8, <1>9 DEF RInv, TypeOK

\* A lenient failure leaves a clearnet run.
LEMMA FallBackKeeps ==
  ASSUME RInv, NEW t \in Thread, FallBack(t)
  PROVE  RInv'
<1>0. CallTypes /\ RouteTypes /\ RunTypes /\ WorkerOrder /\ SwitchOrder  BY DEF RInv, TypeOK
<1>1. pc[t] = "bringup"
  BY DEF FallBack
<1>2. op = t /\ op # Nobody /\ \A u \in Thread \ {t} : pc[u] = "idle"
  BY <1>1, Alone DEF RInv, TypeOK
<1>3. Installed("clearnet", "degraded")
  BY <1>0, <1>1, InstallInstalls DEF FallBack, Paths, Up
<1>4. requested' = target[t] /\ target[t] \in Paths /\ lock' = Nobody
  BY <1>0 DEF FallBack, CallTypes
<1>5. Goes(t, "freeze") \/ Returns(t)
  BY <1>0, SucceedGoes DEF FallBack
<1>6. UNCHANGED <<confVars, frozen>>
  BY DEF FallBack
<1>7. CallTypes'
  BY <1>1, <1>2, <1>3, <1>4, <1>5, <1>6, RunAssumption, ThresholdAssumption, NobodyAssumption
     DEF RInv, TypeOK, CallTypes, RouteTypes, RunTypes, Paths, Goes, Returns, Installed,
     lockVars, callVars, routeVars, confVars, liveVars, runVars, workVars, otherThanWorkers,
     Places
<1>8. RouteTypes'
  BY <1>3, <1>4, <1>6, InstalledRoute DEF Up, Paths
<1>9. RunTypes'
  BY RunNumbers, <1>0, <1>1, <1>2, <1>3, <1>4, <1>5, <1>6 DEF RunTypes, Goes, Returns,
     Installed, confVars, WorkerPlaces
<1>10. LocksHeld'
  BY RunAssumption, ThresholdAssumption, NobodyAssumption DEF RInv, TypeOK, CallTypes,
     RouteTypes, RunTypes, FallBack, Succeed, Step, Return, Install, ResetLiveness, ProxyFor,
     Socks, NoProxy, UserEnv, StartWorker, None, confVars, LocksHeld
<1>11. SwitchOrder'
  BY <1>0, <1>1, <1>2, <1>3, <1>4, <1>5, <1>6, RunNumbers DEF SwitchOrder, Installed, Goes,
     Returns, Up, None, confVars, Paths, Unfrozen
<1>12. WorkerOrder'
  BY RunAssumption, ThresholdAssumption, NobodyAssumption DEF RInv, TypeOK, CallTypes,
     RouteTypes, RunTypes, FallBack, Succeed, Step, Return, Install, ResetLiveness, ProxyFor,
     Socks, NoProxy, UserEnv, StartWorker, None, confVars, WorkerOrder, SwitchOrder, LocksHeld,
     Run, Up
<1>13. Counts'
  BY RunAssumption, ThresholdAssumption, NobodyAssumption DEF RInv, TypeOK, CallTypes,
     RouteTypes, RunTypes, FallBack, Succeed, Step, Return, Install, ResetLiveness, ProxyFor,
     Socks, NoProxy, UserEnv, StartWorker, None, confVars, Counts, WorkerOrder, SwitchOrder,
     LocksHeld, Run, Up
<1>14. DropIsEarned'
  BY RunAssumption, ThresholdAssumption, NobodyAssumption DEF RInv, TypeOK, CallTypes,
     RouteTypes, RunTypes, FallBack, Succeed, Step, Return, Install, ResetLiveness, ProxyFor,
     Socks, NoProxy, UserEnv, StartWorker, None, confVars, DropIsEarned, Counts, WorkerOrder,
     SwitchOrder, LocksHeld, Run, Up
<1>15. NoStrayRoute'
  BY RunAssumption, ThresholdAssumption, NobodyAssumption DEF RInv, TypeOK, CallTypes,
     RouteTypes, RunTypes, FallBack, Succeed, Step, Return, Install, ResetLiveness, ProxyFor,
     Socks, NoProxy, UserEnv, StartWorker, None, confVars, NoStrayRoute, WorkerOrder,
     SwitchOrder, LocksHeld, Run, Up
<1> QED  BY <1>7, <1>8, <1>9, <1>10, <1>11, <1>12, <1>13, <1>14, <1>15 DEF RInv, TypeOK

\* The route is sealed.
LEMMA FreezeKeeps ==
  ASSUME RInv, NEW t \in Thread, Freeze(t)
  PROVE  RInv'
<1>1. CallTypes'
  BY RunAssumption, ThresholdAssumption, NobodyAssumption DEF RInv, TypeOK, CallTypes,
     RouteTypes, RunTypes, Freeze, Return, Up, None, Unfrozen, routeVars, confVars, liveVars,
     runVars, workVars, Paths, Places
<1>2. RouteTypes'
  BY RunAssumption, ThresholdAssumption, NobodyAssumption DEF RInv, TypeOK, CallTypes,
     RouteTypes, RunTypes, Freeze, Return, Up, None, Unfrozen, routeVars, confVars, liveVars,
     runVars, workVars, Run, Paths
<1>3. RunTypes'
  BY RunAssumption, ThresholdAssumption, NobodyAssumption DEF RInv, TypeOK, CallTypes,
     RouteTypes, RunTypes, Freeze, Return, Up, None, Unfrozen, routeVars, confVars, liveVars,
     runVars, workVars, Run, Paths, WorkerPlaces
<1>4. LocksHeld'
  BY RunAssumption, ThresholdAssumption, NobodyAssumption DEF RInv, TypeOK, CallTypes,
     RouteTypes, RunTypes, Freeze, Return, Up, None, Unfrozen, routeVars, confVars, liveVars,
     runVars, workVars, LocksHeld
<1>5. SwitchOrder'
  BY RunAssumption, ThresholdAssumption, NobodyAssumption DEF RInv, TypeOK, CallTypes,
     RouteTypes, RunTypes, Freeze, Return, Up, None, Unfrozen, routeVars, confVars, liveVars,
     runVars, workVars, SwitchOrder, LocksHeld, Run, Paths
<1>6. WorkerOrder'
  BY RunAssumption, ThresholdAssumption, NobodyAssumption DEF RInv, TypeOK, CallTypes,
     RouteTypes, RunTypes, Freeze, Return, Up, None, Unfrozen, routeVars, confVars, liveVars,
     runVars, workVars, WorkerOrder, SwitchOrder, LocksHeld, Run
<1>7. Counts'
  BY RunAssumption, ThresholdAssumption, NobodyAssumption DEF RInv, TypeOK, CallTypes,
     RouteTypes, RunTypes, Freeze, Return, Up, None, Unfrozen, routeVars, confVars, liveVars,
     runVars, workVars, Counts, WorkerOrder, SwitchOrder, LocksHeld, Run
<1>8. DropIsEarned'
  BY RunAssumption, ThresholdAssumption, NobodyAssumption DEF RInv, TypeOK, CallTypes,
     RouteTypes, RunTypes, Freeze, Return, Up, None, Unfrozen, routeVars, confVars, liveVars,
     runVars, workVars, DropIsEarned, Counts, WorkerOrder, SwitchOrder, LocksHeld, Run
<1>9. NoStrayRoute'
  BY RunAssumption, ThresholdAssumption, NobodyAssumption DEF RInv, TypeOK, CallTypes,
     RouteTypes, RunTypes, Freeze, Return, Up, None, Unfrozen, routeVars, confVars, liveVars,
     runVars, workVars, NoStrayRoute, WorkerOrder, SwitchOrder, LocksHeld, Run
<1> QED  BY <1>1, <1>2, <1>3, <1>4, <1>5, <1>6, <1>7, <1>8, <1>9 DEF RInv, TypeOK

\* stop tells the worker to end and joins it without the lock.
LEMMA CallStopKeeps ==
  ASSUME RInv, NEW t \in Thread, CallStop(t)
  PROVE  RInv'
<1>0. CallTypes /\ RouteTypes /\ RunTypes /\ WorkerOrder /\ SwitchOrder  BY DEF RInv, TypeOK
<1>1. op = Nobody /\ op' = t /\ worker' = None
  BY DEF CallStop
<1>2. pc' \in [Thread -> Places] /\ pc'[t] = "stop" /\ \A u \in Thread \ {t} : pc'[u] = pc[u]
  BY <1>0 DEF CallStop, CallTypes, Places
<1>3. wstop' \in [Run -> BOOLEAN] /\ \A q \in Run : wstop'[q] = (wstop[q] \/ q = worker)
  BY <1>0, Stops DEF CallStop
<1>4. UNCHANGED <<lock, target, freezing, routeVars, confVars, frozen, liveVars, proxy,
                 runVars, wpc, probed, healthy, streak>>
  BY DEF CallStop
<1>5. CallTypes'
  BY RunAssumption, ThresholdAssumption, NobodyAssumption DEF RInv, TypeOK, CallTypes,
     RouteTypes, RunTypes, CallStop, Run, None, routeVars, confVars, liveVars, runVars, Paths,
     Places
<1>6. RouteTypes'
  BY RunAssumption, ThresholdAssumption, NobodyAssumption DEF RInv, TypeOK, CallTypes,
     RouteTypes, RunTypes, CallStop, Run, None, routeVars, confVars, liveVars, runVars, Up,
     Paths
<1>7. RunTypes'
  BY RunAssumption, ThresholdAssumption, NobodyAssumption DEF RInv, TypeOK, CallTypes,
     RouteTypes, RunTypes, CallStop, Run, None, routeVars, confVars, liveVars, runVars, Paths,
     WorkerPlaces
<1>8. LocksHeld'
  BY RunAssumption, ThresholdAssumption, NobodyAssumption DEF RInv, TypeOK, CallTypes,
     RouteTypes, RunTypes, CallStop, Run, None, routeVars, confVars, liveVars, runVars,
     LocksHeld
<1>9. SwitchOrder'
  BY RunAssumption, ThresholdAssumption, NobodyAssumption DEF RInv, TypeOK, CallTypes,
     RouteTypes, RunTypes, CallStop, Run, None, routeVars, confVars, liveVars, runVars,
     SwitchOrder, LocksHeld, Up, Paths, Unfrozen
<1>10. WorkerOrder'
  BY <1>1, <1>2, <1>3, <1>4, RunAssumption, ThresholdAssumption, NobodyAssumption DEF RInv,
     TypeOK, CallTypes, RouteTypes, RunTypes, WorkerOrder, SwitchOrder, LocksHeld, Run, None,
     Up, lockVars, callVars, routeVars, confVars, liveVars, runVars, workVars, otherThanWorkers
<1>11. Counts'
  BY RunAssumption, ThresholdAssumption, NobodyAssumption DEF RInv, TypeOK, CallTypes,
     RouteTypes, RunTypes, CallStop, Run, None, routeVars, confVars, liveVars, runVars, Counts,
     WorkerOrder, SwitchOrder, LocksHeld, Up
<1>12. DropIsEarned'
  BY RunAssumption, ThresholdAssumption, NobodyAssumption DEF RInv, TypeOK, CallTypes,
     RouteTypes, RunTypes, CallStop, Run, None, routeVars, confVars, liveVars, runVars,
     DropIsEarned, Counts, WorkerOrder, SwitchOrder, LocksHeld, Up
<1>13. NoStrayRoute'
  BY RunAssumption, ThresholdAssumption, NobodyAssumption DEF RInv, TypeOK, CallTypes,
     RouteTypes, RunTypes, CallStop, Run, None, routeVars, confVars, liveVars, runVars,
     NoStrayRoute, WorkerOrder, SwitchOrder, LocksHeld, Up
<1> QED  BY <1>5, <1>6, <1>7, <1>8, <1>9, <1>10, <1>11, <1>12, <1>13 DEF RInv, TypeOK

\* The route is taken down and the environment given back.
LEMMA FinishStopKeeps ==
  ASSUME RInv, NEW t \in Thread, FinishStop(t)
  PROVE  RInv'
<1>1. CallTypes'
  BY RunAssumption, ThresholdAssumption, NobodyAssumption DEF RInv, TypeOK, CallTypes,
     RouteTypes, RunTypes, FinishStop, TeardownCurrent, Return, Joined, None, ResetLiveness,
     UserEnv, Socks, confVars, workVars, Paths, Places
<1>2. RouteTypes'
  BY StoppedRoute
<1>3. RunTypes'
  <2>1. RunTypes /\ (handle # None => TornDown)
    BY TearsDown DEF RInv, TypeOK, FinishStop
  <2>2. UNCHANGED <<runs, path, workVars>> /\ (handle = None => UNCHANGED <<down, left>>)
    BY DEF FinishStop
  <2> QED  BY <2>1, <2>2 DEF RunTypes, TornDown, workVars
<1>4. LocksHeld'
  BY RunAssumption, ThresholdAssumption, NobodyAssumption DEF RInv, TypeOK, CallTypes,
     RouteTypes, RunTypes, FinishStop, TeardownCurrent, Return, Joined, None, ResetLiveness,
     UserEnv, Socks, confVars, workVars, LocksHeld
<1>5. SwitchOrder'
  BY RunAssumption, ThresholdAssumption, NobodyAssumption DEF RInv, TypeOK, CallTypes,
     RouteTypes, RunTypes, FinishStop, TeardownCurrent, Return, Joined, None, ResetLiveness,
     UserEnv, Socks, confVars, workVars, SwitchOrder, LocksHeld, Up, Run, Paths, Unfrozen
<1>6. WorkerOrder'
  <2>1. worker = None /\ WorkerOrder /\ RunTypes /\ (handle # None => TornDown)
    BY TearsDown DEF RInv, TypeOK, FinishStop, SwitchOrder
  <2>2. handle = None => UNCHANGED <<handle, down, left>>
    BY DEF FinishStop
  <2>3. UNCHANGED <<worker, runs, path, workVars>>
    BY DEF FinishStop
  <2>4. \A r \in 1 .. runs : wpc[r] \in {"probing", "check", "done"}
    BY <2>1, RunAssumption DEF FinishStop, Joined, WorkerOrder, RunTypes, None
  <2>5. handle' = None
    BY <2>1, <2>2 DEF TornDown
  <2>6. \A r \in 1 .. runs : path[r] # "clearnet" /\ r \notin down' => r \in left'
    BY <2>1, <2>2, RunAssumption DEF WorkerOrder, TornDown, None
  <2> QED  BY <2>1, <2>3, <2>4, <2>5, <2>6 DEF WorkerOrder, workVars
<1>7. Counts'
  BY RunAssumption, ThresholdAssumption, NobodyAssumption DEF RInv, TypeOK, CallTypes,
     RouteTypes, RunTypes, FinishStop, TeardownCurrent, Return, Joined, None, ResetLiveness,
     UserEnv, Socks, confVars, workVars, Counts, WorkerOrder, SwitchOrder, LocksHeld, Run, Up
<1>8. DropIsEarned'
  BY RunAssumption, ThresholdAssumption, NobodyAssumption DEF RInv, TypeOK, CallTypes,
     RouteTypes, RunTypes, FinishStop, TeardownCurrent, Return, Joined, None, ResetLiveness,
     UserEnv, Socks, confVars, workVars, DropIsEarned, Counts, WorkerOrder, SwitchOrder,
     LocksHeld, Run, Up
<1>9. NoStrayRoute'
  BY RunAssumption, ThresholdAssumption, NobodyAssumption DEF RInv, TypeOK, CallTypes,
     RouteTypes, RunTypes, FinishStop, TeardownCurrent, Return, Joined, None, ResetLiveness,
     UserEnv, Socks, confVars, workVars, NoStrayRoute, WorkerOrder, SwitchOrder, LocksHeld, Run,
     Up
<1> QED  BY <1>1, <1>2, <1>3, <1>4, <1>5, <1>6, <1>7, <1>8, <1>9 DEF RInv, TypeOK

\* The mode of the policy changes.
LEMMA UpdatePolicyModeKeeps ==
  ASSUME RInv, NEW m \in Modes, UpdatePolicyMode(m)
  PROVE  RInv'
<1>1. CallTypes'
  BY RunAssumption, ThresholdAssumption, NobodyAssumption DEF RInv, TypeOK, CallTypes,
     RouteTypes, RunTypes, UpdatePolicyMode, lockVars, callVars, routeVars, liveVars, runVars,
     workVars, Paths, Places
<1>2. RouteTypes'
  BY RunAssumption, ThresholdAssumption, NobodyAssumption DEF RInv, TypeOK, CallTypes,
     RouteTypes, RunTypes, UpdatePolicyMode, lockVars, callVars, routeVars, liveVars, runVars,
     workVars, Up, Run, None, Paths
<1>3. RunTypes'
  BY RunAssumption, ThresholdAssumption, NobodyAssumption DEF RInv, TypeOK, CallTypes,
     RouteTypes, RunTypes, UpdatePolicyMode, lockVars, callVars, routeVars, liveVars, runVars,
     workVars, Run, None, Paths, WorkerPlaces
<1>4. LocksHeld'
  BY RunAssumption, ThresholdAssumption, NobodyAssumption DEF RInv, TypeOK, CallTypes,
     RouteTypes, RunTypes, UpdatePolicyMode, lockVars, callVars, routeVars, liveVars, runVars,
     workVars, LocksHeld
<1>5. SwitchOrder'
  BY RunAssumption, ThresholdAssumption, NobodyAssumption DEF RInv, TypeOK, CallTypes,
     RouteTypes, RunTypes, UpdatePolicyMode, lockVars, callVars, routeVars, liveVars, runVars,
     workVars, SwitchOrder, LocksHeld, Up, None, Run, Paths, Unfrozen
<1>6. WorkerOrder'
  BY RunAssumption, ThresholdAssumption, NobodyAssumption DEF RInv, TypeOK, CallTypes,
     RouteTypes, RunTypes, UpdatePolicyMode, lockVars, callVars, routeVars, liveVars, runVars,
     workVars, WorkerOrder, SwitchOrder, LocksHeld, Run, None, Up
<1>7. Counts'
  BY RunAssumption, ThresholdAssumption, NobodyAssumption DEF RInv, TypeOK, CallTypes,
     RouteTypes, RunTypes, UpdatePolicyMode, lockVars, callVars, routeVars, liveVars, runVars,
     workVars, Counts, WorkerOrder, SwitchOrder, LocksHeld, Run, None, Up
<1>8. DropIsEarned'
  BY RunAssumption, ThresholdAssumption, NobodyAssumption DEF RInv, TypeOK, CallTypes,
     RouteTypes, RunTypes, UpdatePolicyMode, lockVars, callVars, routeVars, liveVars, runVars,
     workVars, DropIsEarned, Counts, WorkerOrder, SwitchOrder, LocksHeld, Run, None, Up
<1>9. NoStrayRoute'
  BY RunAssumption, ThresholdAssumption, NobodyAssumption DEF RInv, TypeOK, CallTypes,
     RouteTypes, RunTypes, UpdatePolicyMode, lockVars, callVars, routeVars, liveVars, runVars,
     workVars, NoStrayRoute, WorkerOrder, SwitchOrder, LocksHeld, Run, None, Up
<1> QED  BY <1>1, <1>2, <1>3, <1>4, <1>5, <1>6, <1>7, <1>8, <1>9 DEF RInv, TypeOK

\* The credential changes while no route is up.
LEMMA SetIsolationTokenKeeps ==
  ASSUME RInv, SetIsolationToken
  PROVE  RInv'
<1>1. CallTypes'
  BY RunAssumption, ThresholdAssumption, NobodyAssumption DEF RInv, TypeOK, CallTypes,
     RouteTypes, RunTypes, SetIsolationToken, Up, None, Unfrozen, lockVars, callVars, routeVars,
     liveVars, runVars, workVars, Paths, Places
<1>2. RouteTypes'
  BY RunAssumption, ThresholdAssumption, NobodyAssumption DEF RInv, TypeOK, CallTypes,
     RouteTypes, RunTypes, SetIsolationToken, Up, None, Unfrozen, lockVars, callVars, routeVars,
     liveVars, runVars, workVars, Run, Paths
<1>3. RunTypes'
  BY RunAssumption, ThresholdAssumption, NobodyAssumption DEF RInv, TypeOK, CallTypes,
     RouteTypes, RunTypes, SetIsolationToken, Up, None, Unfrozen, lockVars, callVars, routeVars,
     liveVars, runVars, workVars, Run, Paths, WorkerPlaces
<1>4. LocksHeld'
  BY RunAssumption, ThresholdAssumption, NobodyAssumption DEF RInv, TypeOK, CallTypes,
     RouteTypes, RunTypes, SetIsolationToken, Up, None, Unfrozen, lockVars, callVars, routeVars,
     liveVars, runVars, workVars, LocksHeld
<1>5. SwitchOrder'
  BY RunAssumption, ThresholdAssumption, NobodyAssumption DEF RInv, TypeOK, CallTypes,
     RouteTypes, RunTypes, SetIsolationToken, Up, None, Unfrozen, lockVars, callVars, routeVars,
     liveVars, runVars, workVars, SwitchOrder, LocksHeld, Run, Paths
<1>6. WorkerOrder'
  BY RunAssumption, ThresholdAssumption, NobodyAssumption DEF RInv, TypeOK, CallTypes,
     RouteTypes, RunTypes, SetIsolationToken, Up, None, Unfrozen, lockVars, callVars, routeVars,
     liveVars, runVars, workVars, WorkerOrder, SwitchOrder, LocksHeld, Run
<1>7. Counts'
  BY RunAssumption, ThresholdAssumption, NobodyAssumption DEF RInv, TypeOK, CallTypes,
     RouteTypes, RunTypes, SetIsolationToken, Up, None, Unfrozen, lockVars, callVars, routeVars,
     liveVars, runVars, workVars, Counts, WorkerOrder, SwitchOrder, LocksHeld, Run
<1>8. DropIsEarned'
  BY RunAssumption, ThresholdAssumption, NobodyAssumption DEF RInv, TypeOK, CallTypes,
     RouteTypes, RunTypes, SetIsolationToken, Up, None, Unfrozen, lockVars, callVars, routeVars,
     liveVars, runVars, workVars, DropIsEarned, Counts, WorkerOrder, SwitchOrder, LocksHeld, Run
<1>9. NoStrayRoute'
  BY RunAssumption, ThresholdAssumption, NobodyAssumption DEF RInv, TypeOK, CallTypes,
     RouteTypes, RunTypes, SetIsolationToken, Up, None, Unfrozen, lockVars, callVars, routeVars,
     liveVars, runVars, workVars, NoStrayRoute, WorkerOrder, SwitchOrder, LocksHeld, Run
<1> QED  BY <1>1, <1>2, <1>3, <1>4, <1>5, <1>6, <1>7, <1>8, <1>9 DEF RInv, TypeOK

\* A daemon dies.
LEMMA DieKeeps ==
  ASSUME RInv, NEW r \in Run, Die(r)
  PROVE  RInv'
<1>1. CallTypes'
  BY RunAssumption, ThresholdAssumption, NobodyAssumption DEF RInv, TypeOK, CallTypes,
     RouteTypes, RunTypes, Die, otherThanWorkers, lockVars, callVars, routeVars, confVars,
     liveVars, workVars, Paths, Places
<1>2. RouteTypes'
  BY RunAssumption, ThresholdAssumption, NobodyAssumption DEF RInv, TypeOK, CallTypes,
     RouteTypes, RunTypes, Die, otherThanWorkers, lockVars, callVars, routeVars, confVars,
     liveVars, workVars, Up, Run, None, Paths
<1>3. RunTypes'
  BY RunAssumption, ThresholdAssumption, NobodyAssumption DEF RInv, TypeOK, CallTypes,
     RouteTypes, RunTypes, Die, otherThanWorkers, lockVars, callVars, routeVars, confVars,
     liveVars, workVars, Run, None, Paths, WorkerPlaces
<1>4. LocksHeld'
  BY RunAssumption, ThresholdAssumption, NobodyAssumption DEF RInv, TypeOK, CallTypes,
     RouteTypes, RunTypes, Die, otherThanWorkers, lockVars, callVars, routeVars, confVars,
     liveVars, workVars, LocksHeld
<1>5. SwitchOrder'
  BY RunAssumption, ThresholdAssumption, NobodyAssumption DEF RInv, TypeOK, CallTypes,
     RouteTypes, RunTypes, Die, otherThanWorkers, lockVars, callVars, routeVars, confVars,
     liveVars, workVars, SwitchOrder, LocksHeld, Up, None, Run, Paths, Unfrozen
<1>6. WorkerOrder'
  BY RunAssumption, ThresholdAssumption, NobodyAssumption DEF RInv, TypeOK, CallTypes,
     RouteTypes, RunTypes, Die, otherThanWorkers, lockVars, callVars, routeVars, confVars,
     liveVars, workVars, WorkerOrder, SwitchOrder, LocksHeld, Run, None, Up
<1>7. Counts'
  BY RunAssumption, ThresholdAssumption, NobodyAssumption DEF RInv, TypeOK, CallTypes,
     RouteTypes, RunTypes, Die, otherThanWorkers, lockVars, callVars, routeVars, confVars,
     liveVars, workVars, Counts, WorkerOrder, SwitchOrder, LocksHeld, Run, None, Up
<1>8. DropIsEarned'
  BY RunAssumption, ThresholdAssumption, NobodyAssumption DEF RInv, TypeOK, CallTypes,
     RouteTypes, RunTypes, Die, otherThanWorkers, lockVars, callVars, routeVars, confVars,
     liveVars, workVars, DropIsEarned, Counts, WorkerOrder, SwitchOrder, LocksHeld, Run, None,
     Up
<1>9. NoStrayRoute'
  BY RunAssumption, ThresholdAssumption, NobodyAssumption DEF RInv, TypeOK, CallTypes,
     RouteTypes, RunTypes, Die, otherThanWorkers, lockVars, callVars, routeVars, confVars,
     liveVars, workVars, NoStrayRoute, WorkerOrder, SwitchOrder, LocksHeld, Run, None, Up
<1> QED  BY <1>1, <1>2, <1>3, <1>4, <1>5, <1>6, <1>7, <1>8, <1>9 DEF RInv, TypeOK

\* The wait is over, or cut short by the stop signal.
LEMMA WakeKeeps ==
  ASSUME RInv, NEW r \in Run, Wake(r)
  PROVE  RInv'
<1>0. CallTypes /\ RouteTypes /\ RunTypes /\ WorkerOrder /\ SwitchOrder  BY DEF RInv, TypeOK
<1>1. wpc[r] = "waiting"
  BY DEF Wake
<1>2. r \in 1 .. runs /\ r # None
  BY <1>0, <1>1, OwnWorker DEF RInv, TypeOK
<1>3. (wstop[r] /\ Works(r, "done", TRUE)) \/ (~wstop[r] /\ Works(r, "due", healthy[r]))
  BY <1>0, Leaves, WorkerGoes DEF Wake, WorkerPlaces
<1>4. r = handle
  BY <1>0, <1>1, OwnWorker DEF RInv, TypeOK
<1>5. UNCHANGED <<otherThanWorkers, liveVars, down, left, wstop, probed, streak>>
  BY DEF Wake
<1>6. UNCHANGED <<handle, worker, runs, path, down, left, wstop, probed, streak>>
  BY DEF Wake, otherThanWorkers, routeVars
<1>7. CallTypes'
  BY RunAssumption, ThresholdAssumption, NobodyAssumption DEF RInv, TypeOK, CallTypes,
     RouteTypes, RunTypes, Wake, WorkerStep, otherThanWorkers, lockVars, callVars, routeVars,
     confVars, Leave, liveVars, Paths, Places
<1>8. RouteTypes'
  BY RunAssumption, ThresholdAssumption, NobodyAssumption DEF RInv, TypeOK, CallTypes,
     RouteTypes, RunTypes, Wake, WorkerStep, otherThanWorkers, lockVars, callVars, routeVars,
     confVars, Leave, liveVars, Up, Run, None, Paths
<1>9. RunTypes'
  BY <1>0, <1>1, <1>2, <1>3, <1>4, <1>5 DEF RunTypes, Works, liveVars, otherThanWorkers,
     routeVars, callVars, lockVars, WorkerPlaces
<1>10. LocksHeld'
  BY RunAssumption, ThresholdAssumption, NobodyAssumption DEF RInv, TypeOK, CallTypes,
     RouteTypes, RunTypes, Wake, WorkerStep, otherThanWorkers, lockVars, callVars, routeVars,
     confVars, Leave, liveVars, LocksHeld
<1>11. SwitchOrder'
  BY RunAssumption, ThresholdAssumption, NobodyAssumption DEF RInv, TypeOK, CallTypes,
     RouteTypes, RunTypes, Wake, WorkerStep, otherThanWorkers, lockVars, callVars, routeVars,
     confVars, Leave, liveVars, SwitchOrder, LocksHeld, Up, None, Run, Paths, Unfrozen
<1>12. WorkerOrder'
  BY <1>2, <1>3, <1>4, <1>6, WorkerMoves
<1>13. Counts'
  BY RunAssumption, ThresholdAssumption, NobodyAssumption DEF RInv, TypeOK, CallTypes,
     RouteTypes, RunTypes, Wake, WorkerStep, otherThanWorkers, lockVars, callVars, routeVars,
     confVars, Leave, liveVars, Counts, WorkerOrder, SwitchOrder, LocksHeld, Run, None, Up
<1>14. DropIsEarned'
  BY RunAssumption, ThresholdAssumption, NobodyAssumption DEF RInv, TypeOK, CallTypes,
     RouteTypes, RunTypes, Wake, WorkerStep, otherThanWorkers, lockVars, callVars, routeVars,
     confVars, Leave, liveVars, DropIsEarned, Counts, WorkerOrder, SwitchOrder, LocksHeld, Run,
     None, Up
<1>15. NoStrayRoute'
  BY RunAssumption, ThresholdAssumption, NobodyAssumption DEF RInv, TypeOK, CallTypes,
     RouteTypes, RunTypes, Wake, WorkerStep, otherThanWorkers, lockVars, callVars, routeVars,
     confVars, Leave, liveVars, NoStrayRoute, WorkerOrder, SwitchOrder, LocksHeld, Run, None, Up
<1> QED  BY <1>7, <1>8, <1>9, <1>10, <1>11, <1>12, <1>13, <1>14, <1>15 DEF RInv, TypeOK

\* Only the worker of the route in force begins a probe, and of that route.
LEMMA BeginProbeKeeps ==
  ASSUME RInv, NEW r \in Run, BeginProbe(r)
  PROVE  RInv'
<1>0. CallTypes /\ RouteTypes /\ RunTypes /\ WorkerOrder /\ SwitchOrder  BY DEF RInv, TypeOK
<1>1. wpc[r] = "due"
  BY DEF BeginProbe
<1>2. r \in 1 .. runs /\ r # None
  BY <1>0, <1>1, OwnWorker DEF RInv, TypeOK
<1>3. r = handle
  BY <1>0, <1>1, OwnWorker DEF RInv, TypeOK
<1>4. Works(r, "probing", healthy[r]) /\ Probes(r, r) /\ lastHealth' = lastHealth
  BY <1>0, <1>2, <1>3, WorkerGoes, ProbeSet, RunNumbers DEF BeginProbe, WorkerPlaces
<1>5. UNCHANGED <<otherThanWorkers, failures, dropped, down, left, wstop, healthy, streak>>
  BY DEF BeginProbe
<1>6. CallTypes'
  BY RunAssumption, ThresholdAssumption, NobodyAssumption DEF RInv, TypeOK, CallTypes,
     RouteTypes, RunTypes, BeginProbe, WorkerStep, otherThanWorkers, lockVars, callVars,
     routeVars, confVars, None, Paths, Places
<1>7. RouteTypes'
  BY <1>1, <1>2, <1>3, <1>4, <1>5, RunAssumption, ThresholdAssumption, NobodyAssumption DEF
     RInv, TypeOK, CallTypes, RouteTypes, RunTypes, Up, Run, None, Paths, Works, Probes,
     lockVars, callVars, routeVars, confVars, liveVars, runVars, workVars, otherThanWorkers
<1>8. RunTypes'
  BY <1>0, <1>1, <1>2, <1>3, <1>4, <1>5 DEF RunTypes, Works, Probes, otherThanWorkers,
     routeVars, callVars, lockVars, WorkerPlaces
<1>9. LocksHeld'
  BY RunAssumption, ThresholdAssumption, NobodyAssumption DEF RInv, TypeOK, CallTypes,
     RouteTypes, RunTypes, BeginProbe, WorkerStep, otherThanWorkers, lockVars, callVars,
     routeVars, confVars, None, LocksHeld
<1>10. SwitchOrder'
  BY RunAssumption, ThresholdAssumption, NobodyAssumption DEF RInv, TypeOK, CallTypes,
     RouteTypes, RunTypes, BeginProbe, WorkerStep, otherThanWorkers, lockVars, callVars,
     routeVars, confVars, None, SwitchOrder, LocksHeld, Up, Run, Paths, Unfrozen
<1>11. WorkerOrder'
  BY RunNumbers, RunAssumption, ThresholdAssumption, <1>0, <1>1, <1>2, <1>3, <1>4, <1>5 DEF
     RInv, RunTypes, WorkerOrder, Works, Probes, otherThanWorkers, routeVars, callVars,
     lockVars, Run, None, LocksHeld, SwitchOrder
<1>12. Counts'
  BY RunAssumption, ThresholdAssumption, NobodyAssumption DEF RInv, TypeOK, CallTypes,
     RouteTypes, RunTypes, BeginProbe, WorkerStep, otherThanWorkers, lockVars, callVars,
     routeVars, confVars, None, Counts, WorkerOrder, SwitchOrder, LocksHeld, Run, Up
<1>13. DropIsEarned'
  BY RunAssumption, ThresholdAssumption, NobodyAssumption DEF RInv, TypeOK, CallTypes,
     RouteTypes, RunTypes, BeginProbe, WorkerStep, otherThanWorkers, lockVars, callVars,
     routeVars, confVars, None, DropIsEarned, Counts, WorkerOrder, SwitchOrder, LocksHeld, Run,
     Up
<1>14. NoStrayRoute'
  BY RunAssumption, ThresholdAssumption, NobodyAssumption DEF RInv, TypeOK, CallTypes,
     RouteTypes, RunTypes, BeginProbe, WorkerStep, otherThanWorkers, lockVars, callVars,
     routeVars, confVars, None, NoStrayRoute, WorkerOrder, SwitchOrder, LocksHeld, Run, Up
<1> QED  BY <1>6, <1>7, <1>8, <1>9, <1>10, <1>11, <1>12, <1>13, <1>14 DEF RInv, TypeOK

\* The answer comes, maybe after the route was replaced.
LEMMA EndProbeKeeps ==
  ASSUME RInv, NEW r \in Run, EndProbe(r)
  PROVE  RInv'
<1>0. CallTypes /\ RouteTypes /\ RunTypes /\ WorkerOrder /\ SwitchOrder  BY DEF RInv, TypeOK
<1>1. wpc[r] = "probing"
  BY DEF EndProbe
<1>2. r \in 1 .. runs /\ r # None
  BY <1>0, <1>1, OwnWorker DEF RInv, TypeOK
<1>3. probed[r] = r
  BY <1>0, <1>1, OwnWorker DEF RInv, TypeOK
<1>4. \E ok \in BOOLEAN : /\ path[r] = "clearnet" => ok
                         /\ Works(r, "check", ok)
                         /\ lastHealth' = IF handle = r THEN ok ELSE lastHealth
  BY <1>0, <1>3, WorkerAnswers DEF EndProbe, Answers, WorkerPlaces
<1>5. Probes(r, None)
  BY <1>0, ProbeSet, RunNumbers DEF EndProbe
<1>6. UNCHANGED <<otherThanWorkers, failures, dropped, down, left, wstop, streak>>
  BY DEF EndProbe
<1>7. CallTypes'
  BY RunAssumption, ThresholdAssumption, NobodyAssumption DEF RInv, TypeOK, CallTypes,
     RouteTypes, RunTypes, EndProbe, WorkerStep, otherThanWorkers, lockVars, callVars,
     routeVars, confVars, Answers, None, Paths, Places
<1>8. RouteTypes'
  BY <1>0, <1>4 DEF RouteTypes, EndProbe, otherThanWorkers, lockVars, callVars, routeVars,
     confVars, liveVars, runVars, workVars
<1>9. RunTypes'
  BY <1>0, <1>1, <1>2, <1>3, <1>4, <1>5, <1>6 DEF RunTypes, Works, Probes, otherThanWorkers,
     routeVars, callVars, lockVars, WorkerPlaces
<1>10. LocksHeld'
  BY RunAssumption, ThresholdAssumption, NobodyAssumption DEF RInv, TypeOK, CallTypes,
     RouteTypes, RunTypes, EndProbe, WorkerStep, otherThanWorkers, lockVars, callVars,
     routeVars, confVars, Answers, None, LocksHeld
<1>11. SwitchOrder'
  BY RunAssumption, ThresholdAssumption, NobodyAssumption DEF RInv, TypeOK, CallTypes,
     RouteTypes, RunTypes, EndProbe, WorkerStep, otherThanWorkers, lockVars, callVars,
     routeVars, confVars, Answers, None, SwitchOrder, LocksHeld, Up, Run, Paths, Unfrozen
<1>12. WorkerOrder'
  BY EndProbeWorkers
<1>13. Counts'
  BY <1>0, <1>1, <1>2, <1>3, <1>4, <1>5, <1>6 DEF RInv, Counts, Works, Probes, otherThanWorkers,
     routeVars, callVars, lockVars
<1>14. DropIsEarned'
  BY <1>1, <1>2, <1>3, <1>4, <1>5, <1>6, RunAssumption, ThresholdAssumption, NobodyAssumption
     DEF RInv, TypeOK, CallTypes, RouteTypes, RunTypes, DropIsEarned, Counts, WorkerOrder,
     SwitchOrder, LocksHeld, Run, None, Up, Works, Probes, lockVars, callVars, routeVars,
     confVars, liveVars, runVars, workVars, otherThanWorkers
<1>15. NoStrayRoute'
  BY RunAssumption, ThresholdAssumption, NobodyAssumption DEF RInv, TypeOK, CallTypes,
     RouteTypes, RunTypes, EndProbe, WorkerStep, otherThanWorkers, lockVars, callVars,
     routeVars, confVars, Answers, None, NoStrayRoute, WorkerOrder, SwitchOrder, LocksHeld, Run,
     Up
<1> QED  BY <1>7, <1>8, <1>9, <1>10, <1>11, <1>12, <1>13, <1>14, <1>15 DEF RInv, TypeOK

\* The probe raises: clearnet is not probed that way.
LEMMA ProbeRaisesKeeps ==
  ASSUME RInv, NEW r \in Run, ProbeRaises(r)
  PROVE  RInv'
<1>1. CallTypes'
  BY RunAssumption, ThresholdAssumption, NobodyAssumption DEF RInv, TypeOK, CallTypes,
     RouteTypes, RunTypes, ProbeRaises, WorkerStep, otherThanWorkers, lockVars, callVars,
     routeVars, confVars, None, liveVars, Paths, Places
<1>2. RouteTypes'
  BY RunAssumption, ThresholdAssumption, NobodyAssumption DEF RInv, TypeOK, CallTypes,
     RouteTypes, RunTypes, ProbeRaises, WorkerStep, otherThanWorkers, lockVars, callVars,
     routeVars, confVars, None, liveVars, Up, Run, Paths
<1>3. RunTypes'
  BY RunAssumption, ThresholdAssumption, NobodyAssumption DEF RInv, TypeOK, CallTypes,
     RouteTypes, RunTypes, ProbeRaises, WorkerStep, otherThanWorkers, lockVars, callVars,
     routeVars, confVars, None, liveVars, Run, Paths, WorkerPlaces
<1>4. LocksHeld'
  BY RunAssumption, ThresholdAssumption, NobodyAssumption DEF RInv, TypeOK, CallTypes,
     RouteTypes, RunTypes, ProbeRaises, WorkerStep, otherThanWorkers, lockVars, callVars,
     routeVars, confVars, None, liveVars, LocksHeld
<1>5. SwitchOrder'
  BY RunAssumption, ThresholdAssumption, NobodyAssumption DEF RInv, TypeOK, CallTypes,
     RouteTypes, RunTypes, ProbeRaises, WorkerStep, otherThanWorkers, lockVars, callVars,
     routeVars, confVars, None, liveVars, SwitchOrder, LocksHeld, Up, Run, Paths, Unfrozen
<1>6. WorkerOrder'
  BY RunAssumption, ThresholdAssumption, NobodyAssumption DEF RInv, TypeOK, CallTypes,
     RouteTypes, RunTypes, ProbeRaises, WorkerStep, otherThanWorkers, lockVars, callVars,
     routeVars, confVars, None, liveVars, WorkerOrder, SwitchOrder, LocksHeld, Run, Up
<1>7. Counts'
  BY RunAssumption, ThresholdAssumption, NobodyAssumption DEF RInv, TypeOK, CallTypes,
     RouteTypes, RunTypes, ProbeRaises, WorkerStep, otherThanWorkers, lockVars, callVars,
     routeVars, confVars, None, liveVars, Counts, WorkerOrder, SwitchOrder, LocksHeld, Run, Up
<1>8. DropIsEarned'
  BY RunAssumption, ThresholdAssumption, NobodyAssumption DEF RInv, TypeOK, CallTypes,
     RouteTypes, RunTypes, ProbeRaises, WorkerStep, otherThanWorkers, lockVars, callVars,
     routeVars, confVars, None, liveVars, DropIsEarned, Counts, WorkerOrder, SwitchOrder,
     LocksHeld, Run, Up
<1>9. NoStrayRoute'
  BY RunAssumption, ThresholdAssumption, NobodyAssumption DEF RInv, TypeOK, CallTypes,
     RouteTypes, RunTypes, ProbeRaises, WorkerStep, otherThanWorkers, lockVars, callVars,
     routeVars, confVars, None, liveVars, NoStrayRoute, WorkerOrder, SwitchOrder, LocksHeld,
     Run, Up
<1> QED  BY <1>1, <1>2, <1>3, <1>4, <1>5, <1>6, <1>7, <1>8, <1>9 DEF RInv, TypeOK

\* A late answer is thrown away.
LEMMA CheckStoppedKeeps ==
  ASSUME RInv, NEW r \in Run, CheckStopped(r)
  PROVE  RInv'
<1>0. CallTypes /\ RouteTypes /\ RunTypes /\ WorkerOrder /\ SwitchOrder  BY DEF RInv, TypeOK
<1>1. wpc[r] = "check"
  BY DEF CheckStopped
<1>2. r \in 1 .. runs /\ r # None
  BY <1>0, <1>1, OwnWorker DEF RInv, TypeOK
<1>3. \/ (wstop[r] /\ Works(r, "done", TRUE))
      \/ (~wstop[r] /\ r = handle /\ Works(r, "judge", healthy[r]))
  BY <1>0, <1>1, OwnWorker, Leaves, WorkerGoes DEF RInv, CheckStopped, WorkerPlaces
<1>4. UNCHANGED <<otherThanWorkers, liveVars, down, left, wstop, probed, streak>>
  BY DEF CheckStopped
<1>5. UNCHANGED <<handle, worker, runs, path, down, left, wstop, probed, streak>>
  BY DEF CheckStopped, otherThanWorkers, routeVars
<1>6. CallTypes'
  BY RunAssumption, ThresholdAssumption, NobodyAssumption DEF RInv, TypeOK, CallTypes,
     RouteTypes, RunTypes, CheckStopped, WorkerStep, otherThanWorkers, lockVars, callVars,
     routeVars, confVars, Leave, liveVars, Paths, Places
<1>7. RouteTypes'
  BY RunAssumption, ThresholdAssumption, NobodyAssumption DEF RInv, TypeOK, CallTypes,
     RouteTypes, RunTypes, CheckStopped, WorkerStep, otherThanWorkers, lockVars, callVars,
     routeVars, confVars, Leave, liveVars, Up, Run, None, Paths
<1>8. RunTypes'
  BY <1>0, <1>1, <1>2, <1>3, <1>4 DEF RunTypes, Works, liveVars, otherThanWorkers, routeVars,
     callVars, lockVars, WorkerPlaces
<1>9. LocksHeld'
  BY RunAssumption, ThresholdAssumption, NobodyAssumption DEF RInv, TypeOK, CallTypes,
     RouteTypes, RunTypes, CheckStopped, WorkerStep, otherThanWorkers, lockVars, callVars,
     routeVars, confVars, Leave, liveVars, LocksHeld
<1>10. SwitchOrder'
  BY RunAssumption, ThresholdAssumption, NobodyAssumption DEF RInv, TypeOK, CallTypes,
     RouteTypes, RunTypes, CheckStopped, WorkerStep, otherThanWorkers, lockVars, callVars,
     routeVars, confVars, Leave, liveVars, SwitchOrder, LocksHeld, Up, None, Run, Paths,
     Unfrozen
<1>11. WorkerOrder'
  BY <1>2, <1>3, <1>5, WorkerMoves
<1>12. Counts'
  BY RunAssumption, ThresholdAssumption, NobodyAssumption DEF RInv, TypeOK, CallTypes,
     RouteTypes, RunTypes, CheckStopped, WorkerStep, otherThanWorkers, lockVars, callVars,
     routeVars, confVars, Leave, liveVars, Counts, WorkerOrder, SwitchOrder, LocksHeld, Run,
     None, Up
<1>13. DropIsEarned'
  BY RunAssumption, ThresholdAssumption, NobodyAssumption DEF RInv, TypeOK, CallTypes,
     RouteTypes, RunTypes, CheckStopped, WorkerStep, otherThanWorkers, lockVars, callVars,
     routeVars, confVars, Leave, liveVars, DropIsEarned, Counts, WorkerOrder, SwitchOrder,
     LocksHeld, Run, None, Up
<1>14. NoStrayRoute'
  BY RunAssumption, ThresholdAssumption, NobodyAssumption DEF RInv, TypeOK, CallTypes,
     RouteTypes, RunTypes, CheckStopped, WorkerStep, otherThanWorkers, lockVars, callVars,
     routeVars, confVars, Leave, liveVars, NoStrayRoute, WorkerOrder, SwitchOrder, LocksHeld,
     Run, None, Up
<1> QED  BY <1>6, <1>7, <1>8, <1>9, <1>10, <1>11, <1>12, <1>13, <1>14 DEF RInv, TypeOK

\* The count and the streak go up together: the worker is that of the route in force.
LEMMA JudgeKeeps ==
  ASSUME RInv, NEW r \in Run, Judge(r)
  PROVE  RInv'
<1>0. CallTypes /\ RouteTypes /\ RunTypes /\ WorkerOrder /\ SwitchOrder  BY DEF RInv, TypeOK
<1>1. wpc[r] = "judge"
  BY DEF Judge
<1>2. r \in 1 .. runs /\ r # None
  BY <1>0, <1>1, OwnWorker DEF RInv, TypeOK
<1>3. r = handle
  BY <1>0, <1>1, OwnWorker DEF RInv, TypeOK
<1>4. Works(r, "waiting", TRUE)
  BY <1>0, WorkerAnswers DEF Judge, WorkerPlaces
<1>5. /\ streak' \in [Run -> 0 .. Threshold]
      /\ streak'[r] = (IF healthy[r] THEN 0 ELSE Counted(streak[r]))
      /\ \A q \in Run \ {r} : streak'[q] = streak[q]
  BY <1>0, ThresholdAssumption DEF Judge, RunTypes, Counted
<1>6. /\ failures' = (IF healthy[r] THEN 0 ELSE Counted(failures))
      /\ dropped' = (dropped \/ (~healthy[r] /\ failures' >= Threshold))
  BY DEF Judge
<1>7. UNCHANGED <<otherThanWorkers, lastHealth, down, left, wstop, probed>>
  BY DEF Judge
<1>8. CallTypes'
  BY RunAssumption, ThresholdAssumption, NobodyAssumption DEF RInv, TypeOK, CallTypes,
     RouteTypes, RunTypes, Judge, WorkerStep, otherThanWorkers, lockVars, callVars, routeVars,
     confVars, Counted, Paths, Places
<1>9. RouteTypes'
  BY RunAssumption, ThresholdAssumption, NobodyAssumption DEF RInv, TypeOK, CallTypes,
     RouteTypes, RunTypes, Judge, WorkerStep, otherThanWorkers, lockVars, callVars, routeVars,
     confVars, Counted, Up, Run, None, Paths
<1>10. RunTypes'
  BY RunAssumption, ThresholdAssumption, NobodyAssumption DEF RInv, TypeOK, CallTypes,
     RouteTypes, RunTypes, Judge, WorkerStep, otherThanWorkers, lockVars, callVars, routeVars,
     confVars, Counted, Run, None, Paths, WorkerPlaces
<1>11. LocksHeld'
  BY RunAssumption, ThresholdAssumption, NobodyAssumption DEF RInv, TypeOK, CallTypes,
     RouteTypes, RunTypes, Judge, WorkerStep, otherThanWorkers, lockVars, callVars, routeVars,
     confVars, Counted, LocksHeld
<1>12. SwitchOrder'
  BY RunAssumption, ThresholdAssumption, NobodyAssumption DEF RInv, TypeOK, CallTypes,
     RouteTypes, RunTypes, Judge, WorkerStep, otherThanWorkers, lockVars, callVars, routeVars,
     confVars, Counted, SwitchOrder, LocksHeld, Up, None, Run, Paths, Unfrozen
<1>13. WorkerOrder'
  BY RunNumbers, RunAssumption, ThresholdAssumption, <1>0, <1>1, <1>2, <1>3, <1>4, <1>5, <1>6,
     <1>7 DEF RouteTypes, RunTypes, WorkerOrder, Works, Counted, otherThanWorkers, routeVars,
     callVars, lockVars, Run, None, SwitchOrder
<1>14. Counts'
  BY RunNumbers, RunAssumption, ThresholdAssumption, <1>0, <1>1, <1>2, <1>3, <1>4, <1>5, <1>6,
     <1>7 DEF RInv, RouteTypes, RunTypes, Counts, Works, Counted, otherThanWorkers, routeVars,
     callVars, lockVars, Run, None, WorkerOrder, SwitchOrder
<1>15. DropIsEarned'
  BY <1>1, <1>2, <1>3, <1>4, <1>5, <1>6, <1>7, RunAssumption, ThresholdAssumption,
     NobodyAssumption DEF RInv, TypeOK, CallTypes, RouteTypes, RunTypes, DropIsEarned, Counts,
     WorkerOrder, SwitchOrder, LocksHeld, Run, None, Up, Works, Counted, lockVars, callVars,
     routeVars, confVars, liveVars, runVars, workVars, otherThanWorkers
<1>16. NoStrayRoute'
  BY RunAssumption, ThresholdAssumption, NobodyAssumption DEF RInv, TypeOK, CallTypes,
     RouteTypes, RunTypes, Judge, WorkerStep, otherThanWorkers, lockVars, callVars, routeVars,
     confVars, Counted, NoStrayRoute, WorkerOrder, SwitchOrder, LocksHeld, Run, None, Up
<1> QED  BY <1>8, <1>9, <1>10, <1>11, <1>12, <1>13, <1>14, <1>15, <1>16 DEF RInv, TypeOK

-----------------------------------------------------------------------------
(* The theorems. *)

\* No caller, no route, no run.
LEMMA InitRInv == Init => RInv
<1> SUFFICES ASSUME Init PROVE RInv
  OBVIOUS
<1>1. CallTypes
  BY DEF Init, CallTypes, Places, Paths
<1>2. RouteTypes
  <2>1. 0 \in 0 .. 0 /\ 0 \in 0 .. Threshold
    BY ThresholdAssumption
  <2>2. /\ runs = 0 /\ handle = 0 /\ worker = 0 /\ failures = 0 /\ state = "idle"
        /\ active = "clearnet" /\ requested = "none" /\ mode \in Modes /\ token = FALSE
        /\ frozen = Unfrozen /\ dropped = FALSE /\ lastHealth = TRUE /\ proxy = UserEnv
    BY DEF Init, None
  <2> QED  BY <2>1, <2>2, UserEnvTypes DEF RouteTypes, Paths
<1>3. RunTypes
  BY RunAssumption, ThresholdAssumption DEF Init, RunTypes, WorkerPlaces, Paths, Run, None
<1>4. LocksHeld /\ SwitchOrder
  BY NobodyAssumption DEF Init, LocksHeld, SwitchOrder, Up
<1>5. WorkerOrder /\ Counts
  BY DEF Init, WorkerOrder, Counts, Run, None
<1>6. DropIsEarned /\ NoStrayRoute
  BY DEF Init, DropIsEarned, NoStrayRoute, Up
<1> QED  BY <1>1, <1>2, <1>3, <1>4, <1>5, <1>6 DEF RInv, TypeOK

LEMMA StutterKeeps == RInv /\ UNCHANGED vars => RInv'
BY DEF vars, lockVars, callVars, routeVars, confVars, liveVars, runVars, workVars, RInv, TypeOK,
   CallTypes, RouteTypes, RunTypes, LocksHeld, SwitchOrder, WorkerOrder, Counts, DropIsEarned,
   NoStrayRoute

LEMMA NextKeeps == RInv /\ [Next]_vars => RInv'
<1> SUFFICES ASSUME RInv, [Next]_vars PROVE RInv'
  OBVIOUS
<1>1. ASSUME NEW t \in Thread, CallerStep(t) PROVE RInv'
  BY <1>1, CheckKeeps, BeginSwitchKeeps, TeardownKeeps, BringUpKeeps, BringUpRefusedKeeps,
     FallBackKeeps, FreezeKeeps, FinishStopKeeps DEF CallerStep
<1>2. ASSUME NEW r \in Run, LivenessStep(r) PROVE RInv'
  BY <1>2, WakeKeeps, BeginProbeKeeps, EndProbeKeeps, ProbeRaisesKeeps, CheckStoppedKeeps,
     JudgeKeeps DEF LivenessStep
<1> QED
  BY <1>1, <1>2, StutterKeeps, CallStopKeeps, CallUseKeeps, DieKeeps, UpdatePolicyModeKeeps,
     SetIsolationTokenKeeps DEF Next

\* The types, who holds which lock, and that every worker but that of the route in
\* force was told to stop.
THEOREM RuntimeInvariant == Spec => []RInv
BY InitRInv, NextKeeps, PTL DEF Spec

\* The drop flag is earned by the route it accuses (_liveness_loop, health, _switch):
\* an answer that a worker of an earlier route brings late is never counted, however
\* many of them are stuck in a probe, and a route in force always has its worker.
THEOREM RuntimeDropIsEarned == Spec => []DropIsEarned
<1>1. RInv => DropIsEarned
  BY DEF RInv
<1> QED  BY <1>1, RuntimeInvariant, PTL

\* What a route leaves in the world is that of the route in force (_apply_env,
\* _teardown_current, stop): the environment of children, and the daemons.
THEOREM RuntimeNoStrayRoute == Spec => []NoStrayRoute
<1>1. RInv => NoStrayRoute
  BY DEF RInv
<1> QED  BY <1>1, RuntimeInvariant, PTL

-----------------------------------------------------------------------------
(* The runtime implements NetRoute. *)

sight == <<Phase, IF Sealed THEN active ELSE "none", IF Sealed THEN proxy ELSE UserEnv>>

\* A step that leaves the frozen route alone.
LEMMA RouteStutters ==
  ASSUME \/ frozen = Unfrozen /\ frozen' = Unfrozen
         \/ UNCHANGED <<frozen, handle, active, proxy, dropped>>
  PROVE  UNCHANGED sight
BY DEF sight, Phase, Sealed

\* freeze_process_route seals a route once; a second freeze finds it as it is.
LEMMA FreezeRefines ==
  ASSUME RInv, NEW t \in Thread, Freeze(t)
  PROVE  [Route!Next]_sight
<1>1. UNCHANGED <<handle, active, proxy, dropped, state, requested>>
  BY DEF Freeze, routeVars, liveVars
<1>2. CASE frozen' = frozen
  BY <1>1, <1>2, RouteStutters
<1>3. CASE frozen' # frozen
  <2>1. handle # None /\ frozen' = [path |-> active, requested |-> requested, mode |-> mode]
    BY <1>3 DEF Freeze
  <2>2. active \in Paths /\ proxy \in Environments
    BY DEF RInv, TypeOK, RouteTypes
  <2>3. frozen' # Unfrozen
    BY <2>1, <2>2 DEF Unfrozen, Paths
  <2>4. CASE frozen = Unfrozen
    BY <1>1, <2>1, <2>2, <2>3, <2>4 DEF Route!Next, Route!Seal, Phase, Sealed
  <2>5. CASE frozen # Unfrozen
    BY <1>1, <2>3, <2>5 DEF sight, Phase, Sealed
  <2> QED  BY <2>4, <2>5
<1> QED  BY <1>2, <1>3

\* stop ends a frozen route that is still there.
LEMMA FinishStopRefines ==
  ASSUME RInv, NEW t \in Thread, FinishStop(t)
  PROVE  [Route!Next]_sight
<1>1. handle' = None /\ frozen' = frozen
  BY DEF FinishStop, TeardownCurrent
<1>2. CASE frozen = Unfrozen
  BY <1>1, <1>2, RouteStutters
<1>3. CASE frozen # Unfrozen /\ handle = None
  BY <1>1, <1>3 DEF sight, Phase, Sealed
<1>4. CASE frozen # Unfrozen /\ handle # None
  BY <1>1, <1>4 DEF Route!Next, Route!End, Phase, Sealed
<1> QED  BY <1>2, <1>3, <1>4

\* The worker raises the flag of a route that was up.
LEMMA JudgeRefines ==
  ASSUME RInv, NEW r \in Run, Judge(r)
  PROVE  [Route!Next]_sight
<1>1. /\ UNCHANGED <<frozen, handle, active, proxy>>
      /\ dropped \in BOOLEAN /\ dropped' \in BOOLEAN /\ (dropped => dropped')
  BY DEF Judge, otherThanWorkers, routeVars, RInv, TypeOK, RouteTypes
<1>2. CASE dropped' = dropped
  BY <1>1, <1>2, RouteStutters
<1>3. CASE frozen = Unfrozen
  BY <1>1, <1>3, RouteStutters
<1>4. CASE handle = None
  BY <1>1, <1>4 DEF sight, Phase, Sealed
<1>5. CASE dropped' # dropped /\ frozen # Unfrozen /\ handle # None
  BY <1>1, <1>5 DEF Route!Next, Route!Drop, Phase, Sealed
<1> QED  BY <1>2, <1>3, <1>4, <1>5

\* No switch begins, and none goes on, once the route is frozen.
LEMMA CallerRefines ==
  ASSUME RInv, NEW t \in Thread, CallerStep(t)
  PROVE  [Route!Next]_sight
<1>1. target[t] \in Paths
  BY DEF RInv, TypeOK, CallTypes
<1>2. CASE Check(t)
  BY <1>2, RouteStutters DEF Check, routeVars, liveVars
<1>3. CASE BeginSwitch(t)
  BY <1>1, <1>3, SwitchUnfrozen, RouteStutters DEF BeginSwitch
<1>4. CASE Teardown(t) \/ BringUp(t) \/ BringUpRefused(t) \/ FallBack(t)
  <2>1. frozen = Unfrozen
    BY <1>4 DEF RInv, SwitchOrder, Teardown, BringUp, BringUpRefused, FallBack
  <2>2. frozen' = frozen
    BY <1>4 DEF Teardown, BringUp, BringUpRefused, FallBack
  <2> QED  BY <2>1, <2>2, RouteStutters
<1> QED  BY <1>2, <1>3, <1>4, FreezeRefines, FinishStopRefines DEF CallerStep

\* The workers, but for their verdict.
LEMMA WorkersRefine ==
  ASSUME RInv, NEW r \in Run, LivenessStep(r)
  PROVE  [Route!Next]_sight
<1>1. CASE Judge(r)
  BY <1>1, JudgeRefines
<1>2. CASE Wake(r) \/ BeginProbe(r) \/ EndProbe(r) \/ ProbeRaises(r) \/ CheckStopped(r)
  <2>1. UNCHANGED <<frozen, handle, active, proxy, dropped>>
    BY <1>2 DEF Wake, BeginProbe, EndProbe, ProbeRaises, CheckStopped, otherThanWorkers, routeVars,
       liveVars
  <2> QED  BY <2>1, RouteStutters
<1> QED  BY <1>1, <1>2 DEF LivenessStep

\* The runtime keeps the promise of NetRoute (activate_and_freeze, use, stop and the
\* liveness loop): the frozen route, its path and its environment never change, and a
\* route that dropped or ended does not come back.
THEOREM RuntimeKeepsRoute == Spec => RouteSpec
<1>1. Init => Route!Init
  BY DEF Init, Route!Init, Phase, Sealed
<1>2. RInv /\ [Next]_vars => [Route!Next]_sight
  <2> SUFFICES ASSUME RInv, [Next]_vars PROVE [Route!Next]_sight
    OBVIOUS
  <2>1. CASE UNCHANGED vars
    BY <2>1, RouteStutters DEF vars, routeVars, liveVars
  <2>2. ASSUME NEW t \in Thread,
               CallStop(t) \/ \E p \in Paths, freeze \in BOOLEAN : CallUse(t, p, freeze)
        PROVE  [Route!Next]_sight
    BY <2>2, RouteStutters DEF CallStop, CallUse, routeVars, liveVars
  <2>3. ASSUME NEW r \in Run, Die(r) PROVE [Route!Next]_sight
    BY <2>3, RouteStutters DEF Die, otherThanWorkers, routeVars, liveVars
  <2>4. CASE SetIsolationToken \/ \E m \in Modes : UpdatePolicyMode(m)
    BY <2>4, RouteStutters DEF SetIsolationToken, UpdatePolicyMode, routeVars, liveVars
  <2> QED  BY <2>1, <2>2, <2>3, <2>4, CallerRefines, WorkersRefine DEF Next
<1> QED
  BY <1>1, <1>2, RuntimeInvariant, PTL DEF Spec, RouteSpec, Route!Spec, Route!routeVars, sight

=============================================================================
