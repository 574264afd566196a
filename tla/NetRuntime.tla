----------------------------- MODULE NetRuntime -----------------------------
(***************************************************************************)
(* The process-wide network runtime (network/runtime.py): one route up at  *)
(* a time (Tor, VPN or clearnet), caller threads that switch, freeze and   *)
(* stop it, and a liveness worker per route that probes it and raises the  *)
(* sticky drop flag.                                                       *)
(*                                                                         *)
(* _operation_lock serialises whole operations; _lock guards the state and *)
(* is let go while a switch joins the old worker. Every successful         *)
(* bring-up is a run: the handle and the worker it starts share its number.*)
(* The locals of a thread are reset once they are dead.                    *)
(***************************************************************************)
EXTENDS Integers, FiniteSets

CONSTANTS Thread,      \* caller threads
          MaxRun,      \* bound on the bring-ups of a behaviour
          Threshold,   \* liveness_failure_threshold
          Modes,       \* the policy modes in use
          Killswitch,  \* the VPN provider guarantees a kill switch
          Nobody

ASSUME RunAssumption == MaxRun \in Nat
ASSUME ThresholdAssumption == Threshold \in Nat \ {0}
ASSUME ModesAssumption == Modes \subseteq {"off", "lenient", "strict"}
ASSUME KillswitchAssumption == Killswitch \in BOOLEAN
ASSUME NobodyAssumption == Nobody \notin Thread

Paths == {"clearnet", "tor", "vpn"}
Up == {"ready", "degraded"}
Run == 1 .. MaxRun
None == 0

\* The managed proxy variables: the SOCKS port of a run and its credential, no
\* proxy at all, or what the user had set.
Socks(r, k) == [port |-> r, token |-> k]
NoProxy == Socks(0, FALSE)
UserEnv == Socks(MaxRun + 1, FALSE)
Environments == [port : 0 .. MaxRun + 1, token : BOOLEAN]

Unfrozen == [path |-> "none", requested |-> "none", mode |-> "none"]

VARIABLES
  op, lock,                 \* owners of _operation_lock and _lock
  pc, target, freezing,     \* the callers
  state, active, handle, requested,
  mode, token,              \* policy_mode and isolation_token of the RuntimeConfig
  frozen,                   \* what freeze_process_route sealed
  worker,                   \* _worker_thread, by its run
  failures, dropped, lastHealth,
  proxy,                    \* the managed part of os.environ
  runs, path, down,         \* bring-ups so far, their paths, those gone
  left,                     \* ghost: those that outlive a failed tear-down
  wpc, wstop, probed, healthy,   \* the workers
  streak                    \* ghost: failed probes in a row of a run by its own worker

lockVars == <<op, lock>>
callVars == <<pc, target, freezing>>
routeVars == <<state, active, handle, requested>>
confVars == <<mode, token>>
liveVars == <<failures, dropped, lastHealth>>
runVars == <<runs, path, down, left>>
workVars == <<wpc, wstop, probed, healthy, streak>>
vars == <<lockVars, callVars, routeVars, confVars, frozen, worker, liveVars, proxy, runVars, workVars>>

Init ==
  /\ op = Nobody /\ lock = Nobody
  /\ pc = [t \in Thread |-> "idle"] /\ target = [t \in Thread |-> "clearnet"]
  /\ freezing = [t \in Thread |-> FALSE]
  /\ state = "idle" /\ active = "clearnet" /\ handle = None /\ requested = "none"
  /\ mode \in Modes /\ token = FALSE /\ frozen = Unfrozen /\ worker = None
  /\ failures = 0 /\ dropped = FALSE /\ lastHealth = TRUE
  /\ proxy = UserEnv /\ runs = 0
  /\ path = [r \in Run |-> "clearnet"] /\ down = {} /\ left = {}
  /\ wpc = [r \in Run |-> "unborn"] /\ wstop = [r \in Run |-> FALSE]
  /\ probed = [r \in Run |-> None] /\ healthy = [r \in Run |-> TRUE]
  /\ streak = [r \in Run |-> 0]

-----------------------------------------------------------------------------
(* use and activate_and_freeze, up to the bring-up. *)

\* A frozen route is used as it is or not at all.
Reusable(p) ==
  /\ p = frozen.requested /\ active = frozen.path
  /\ handle # None /\ state \in Up /\ ~dropped

\* Fault: the freeze is not consulted.
TransitionUnfrozen(p) ==
  IF state \in {"bringing_up", "tearing_down"} THEN "raise"
  ELSE IF handle # None /\ state \in Up /\ p = active /\ ~dropped THEN "no"
  ELSE "yes"

TransitionNeeded(p) ==
  IF state \in {"bringing_up", "tearing_down"} THEN "raise"
  ELSE IF frozen # Unfrozen THEN (IF Reusable(p) THEN "no" ELSE "raise")
  ELSE IF handle # None /\ state \in Up /\ p = active /\ ~dropped THEN "no"
  ELSE "yes"

Step(t, s) == pc' = [pc EXCEPT ![t] = s] /\ UNCHANGED <<op, target, freezing>>

\* The call returns or raises; the operation lock is let go.
Return(t) ==
  /\ pc' = [pc EXCEPT ![t] = "idle"]
  /\ target' = [target EXCEPT ![t] = "clearnet"] /\ freezing' = [freezing EXCEPT ![t] = FALSE]
  /\ op' = Nobody

\* The route is the one asked for: use returns, activate_and_freeze goes on.
Succeed(t) == IF freezing[t] THEN Step(t, "freeze") ELSE Return(t)

\* _acquire_operation_or_raise: while another operation runs the call raises.
CallUse(t, p, freeze) ==
  /\ pc[t] = "idle" /\ op = Nobody
  /\ op' = t
  /\ pc' = [pc EXCEPT ![t] = "check"]
  /\ target' = [target EXCEPT ![t] = p] /\ freezing' = [freezing EXCEPT ![t] = freeze]
  /\ UNCHANGED <<lock, routeVars, confVars, frozen, worker, liveVars, proxy, runVars, workVars>>

\* The fast path; the subprocess count is then taken outside the lock.
Check(t) ==
  /\ pc[t] = "check" /\ lock = Nobody
  /\ LET need == TransitionNeeded(target[t])
     IN  CASE need = "yes" -> Step(t, "begin")
           [] need = "no" -> Succeed(t)
           [] need = "raise" -> Return(t)
  /\ UNCHANGED <<lock, routeVars, confVars, frozen, worker, liveVars, proxy, runVars, workVars>>

\* The check is made again, with the same answer (SwitchKeepsGround); the state is
\* "bringing_up" before the lock is let go for the join of the old worker.
BeginSwitch(t) ==
  /\ pc[t] = "begin" /\ lock = Nobody /\ TransitionNeeded(target[t]) = "yes"
  /\ state' = "bringing_up"
  /\ IF handle = None
     THEN lock' = t /\ Step(t, "bringup") /\ UNCHANGED <<worker, wstop>>
     ELSE /\ Step(t, "join") /\ UNCHANGED lock
          /\ worker' = None /\ wstop' = [r \in Run |-> wstop[r] \/ r = worker]
  /\ UNCHANGED <<active, handle, requested, confVars, frozen, liveVars, proxy, runVars, wpc, probed,
                 healthy, streak>>

\* Thread.join(timeout=2.0): the worker ended, or is stuck inside a probe.
Joined(r) == r # None => wpc[r] \in {"done", "probing"}

\* _teardown_current: the handle is forgotten, also when its daemon could not be ended
\* or its tunnel not be disconnected, of which there is a warning in the log only.
TeardownCurrent ==
  /\ \/ down' = down \cup {handle} /\ UNCHANGED left
     \/ path[handle] # "clearnet" /\ handle \notin down /\ left' = left \cup {handle} /\ UNCHANGED down
  /\ handle' = None

\* The lock is taken again and the old route torn down.
Teardown(t) ==
  /\ pc[t] = "join" /\ lock = Nobody /\ Joined(handle)
  /\ lock' = t
  /\ state' = "tearing_down"
  /\ TeardownCurrent
  /\ Step(t, "bringup")
  /\ UNCHANGED <<active, requested, confVars, frozen, worker, liveVars, proxy, runs, path, workVars>>

-----------------------------------------------------------------------------
(* Bring-up, under _lock throughout, and the freeze. *)

ResetLiveness == failures' = 0 /\ dropped' = FALSE /\ lastHealth' = TRUE

\* _apply_env: policy "off" leaves a user's proxy alone outside Tor.
ProxyFor(p, r) ==
  IF p = "tor" THEN Socks(r, token) ELSE IF mode = "off" THEN UserEnv ELSE NoProxy

\* _start_worker refuses while the last worker it knows is alive.
StartWorker(r) ==
  IF worker # None /\ wpc[worker] # "done" THEN UNCHANGED <<worker, wpc>>
  ELSE worker' = r /\ wpc' = [wpc EXCEPT ![r] = "waiting"]

\* The end of _switch: handle, path, environment, state, liveness, worker.
Install(p, s) ==
  /\ runs < MaxRun
  /\ LET r == runs + 1 IN
       /\ runs' = r /\ path' = [path EXCEPT ![r] = p]
       /\ handle' = r /\ active' = p /\ state' = s
       /\ proxy' = ProxyFor(p, r)
       /\ ResetLiveness
       /\ StartWorker(r)
  /\ UNCHANGED <<down, left, wstop, probed, healthy, streak>>

BringUp(t) ==
  /\ pc[t] = "bringup"
  /\ target[t] = "vpn" /\ mode = "strict" => Killswitch
  /\ Install(target[t], "ready") /\ requested' = target[t]
  /\ lock' = Nobody /\ Succeed(t)
  /\ UNCHANGED <<confVars, frozen>>

\* Strict: the failure is raised over a truthful no-route state.
BringUpRefused(t) ==
  /\ pc[t] = "bringup" /\ target[t] # "clearnet" /\ mode = "strict"
  /\ proxy' = UserEnv /\ state' = "idle" /\ active' = "clearnet"
  /\ ResetLiveness
  /\ lock' = Nobody /\ Return(t)
  /\ UNCHANGED <<handle, requested, confVars, frozen, worker, runVars, workVars>>

\* Lenient and off: an audited fallback to clearnet.
FallBack(t) ==
  /\ pc[t] = "bringup" /\ target[t] # "clearnet" /\ mode # "strict"
  /\ Install("clearnet", "degraded") /\ requested' = target[t]
  /\ lock' = Nobody /\ Succeed(t)
  /\ UNCHANGED <<confVars, frozen>>

\* freeze_process_route
Freeze(t) ==
  /\ pc[t] = "freeze" /\ lock = Nobody
  /\ frozen' = IF /\ handle # None /\ state \in Up /\ requested = target[t]
                  /\ frozen # Unfrozen => frozen.path = active
               THEN [path |-> active, requested |-> requested, mode |-> mode]
               ELSE frozen
  /\ Return(t)
  /\ UNCHANGED <<lock, routeVars, confVars, worker, liveVars, proxy, runVars, workVars>>

-----------------------------------------------------------------------------
(* stop, update_policy_mode and set_isolation_token *)

\* stop waits for the operation lock and joins the worker without _lock.
CallStop(t) ==
  /\ pc[t] = "idle" /\ op = Nobody
  /\ op' = t /\ pc' = [pc EXCEPT ![t] = "stop"]
  /\ worker' = None /\ wstop' = [r \in Run |-> wstop[r] \/ r = worker]
  /\ UNCHANGED <<lock, target, freezing, routeVars, confVars, frozen, liveVars, proxy, runVars, wpc,
                 probed, healthy, streak>>

\* Fault: the route is forgotten, the end of its daemon is not tried.
StopForgetful(t) ==
  /\ pc[t] = "stop" /\ lock = Nobody /\ Joined(handle)
  /\ handle' = None /\ proxy' = UserEnv /\ state' = "idle" /\ active' = "clearnet"
  /\ ResetLiveness
  /\ Return(t)
  /\ UNCHANGED <<lock, requested, confVars, frozen, worker, runVars, workVars>>

FinishStop(t) ==
  /\ pc[t] = "stop" /\ lock = Nobody /\ Joined(handle)
  /\ IF handle = None THEN UNCHANGED <<handle, down, left>> ELSE TeardownCurrent
  /\ proxy' = UserEnv /\ state' = "idle" /\ active' = "clearnet"
  /\ ResetLiveness
  /\ Return(t)
  /\ UNCHANGED <<lock, requested, confVars, frozen, worker, runs, path, workVars>>

UpdatePolicyMode(m) ==
  /\ lock = Nobody
  /\ mode' = m
  /\ UNCHANGED <<lockVars, callVars, routeVars, token, frozen, worker, liveVars, proxy, runVars,
                 workVars>>

\* Fault: the credential changes under a route that is up.
SetIsolationTokenLive ==
  /\ lock = Nobody /\ frozen = Unfrozen
  /\ token' = ~token
  /\ UNCHANGED <<lockVars, callVars, routeVars, mode, frozen, worker, liveVars, proxy, runVars,
                 workVars>>

\* Only while no route is up and none is frozen.
SetIsolationToken ==
  /\ lock = Nobody /\ frozen = Unfrozen /\ handle = None /\ state \notin Up
  /\ token' = ~token
  /\ UNCHANGED <<lockVars, callVars, routeVars, mode, frozen, worker, liveVars, proxy, runVars,
                 workVars>>

-----------------------------------------------------------------------------
(* The liveness workers and what they observe. *)

WorkerStep(r, s) == wpc' = [wpc EXCEPT ![r] = s]

otherThanWorkers == <<lockVars, callVars, routeVars, confVars, frozen, worker, proxy, runs, path>>

\* A daemon or a tunnel dies on its own.
Die(r) ==
  /\ r \in 1 .. runs /\ path[r] # "clearnet" /\ r \notin down
  /\ down' = down \cup {r} /\ left' = left \ {r}
  /\ UNCHANGED <<otherThanWorkers, liveVars, workVars>>

\* The thread ends: what it knew is gone.
Leave(r) ==
  /\ WorkerStep(r, "done")
  /\ healthy' = [healthy EXCEPT ![r] = TRUE]

\* stop_event.wait(interval): the stop signal, or the interval is over.
Wake(r) ==
  /\ wpc[r] = "waiting"
  /\ IF wstop[r] THEN Leave(r) ELSE WorkerStep(r, "due") /\ UNCHANGED healthy
  /\ UNCHANGED <<otherThanWorkers, liveVars, down, left, wstop, probed, streak>>

\* health: the handle is read under the lock, the probe runs without it.
BeginProbe(r) ==
  /\ wpc[r] = "due" /\ lock = Nobody
  /\ IF handle # None
     THEN WorkerStep(r, "probing") /\ probed' = [probed EXCEPT ![r] = handle] /\ UNCHANGED lastHealth
     ELSE WorkerStep(r, "check") /\ lastHealth' = TRUE /\ UNCHANGED probed
  /\ UNCHANGED <<otherThanWorkers, failures, dropped, down, left, wstop, healthy, streak>>

\* What a probe of a route can say: clearnet is always healthy, a route that is
\* down never is, one that is up may fail a probe.
Answers(r) ==
  IF path[r] = "clearnet" THEN {TRUE} ELSE IF r \in down THEN {FALSE} ELSE BOOLEAN

EndProbe(r) ==
  /\ wpc[r] = "probing" /\ lock = Nobody
  /\ \E ok \in Answers(probed[r]) :
       /\ healthy' = [healthy EXCEPT ![r] = ok]
       /\ lastHealth' = IF handle = probed[r] THEN ok ELSE lastHealth
  /\ WorkerStep(r, "check") /\ probed' = [probed EXCEPT ![r] = None]
  /\ UNCHANGED <<otherThanWorkers, failures, dropped, down, left, wstop, streak>>

\* The probe raises, which counts as a failure and stores nothing.
ProbeRaises(r) ==
  /\ wpc[r] = "probing" /\ path[probed[r]] # "clearnet"
  /\ healthy' = [healthy EXCEPT ![r] = FALSE]
  /\ WorkerStep(r, "check") /\ probed' = [probed EXCEPT ![r] = None]
  /\ UNCHANGED <<otherThanWorkers, liveVars, down, left, wstop, streak>>

\* Fault: the stop signal is not looked at after the probe.
GoOn(r) ==
  /\ wpc[r] = "check"
  /\ WorkerStep(r, "judge")
  /\ UNCHANGED <<otherThanWorkers, liveVars, down, left, wstop, probed, healthy, streak>>

\* An answer that arrives after a stop or a switch is thrown away.
CheckStopped(r) ==
  /\ wpc[r] = "check"
  /\ IF wstop[r] THEN Leave(r) ELSE WorkerStep(r, "judge") /\ UNCHANGED healthy
  /\ UNCHANGED <<otherThanWorkers, liveVars, down, left, wstop, probed, streak>>

\* Counts saturate at the threshold they are compared with.
Counted(n) == IF n < Threshold THEN n + 1 ELSE n

Judge(r) ==
  /\ wpc[r] = "judge" /\ lock = Nobody
  /\ failures' = IF healthy[r] THEN 0 ELSE Counted(failures)
  /\ dropped' = (dropped \/ (~healthy[r] /\ failures' >= Threshold))
  /\ streak' = [streak EXCEPT ![r] = IF healthy[r] THEN 0 ELSE Counted(@)]
  /\ healthy' = [healthy EXCEPT ![r] = TRUE] /\ WorkerStep(r, "waiting")
  /\ UNCHANGED <<otherThanWorkers, lastHealth, down, left, wstop, probed>>

-----------------------------------------------------------------------------

CallerStep(t) ==
  \/ Check(t) \/ BeginSwitch(t) \/ Teardown(t)
  \/ BringUp(t) \/ BringUpRefused(t) \/ FallBack(t) \/ Freeze(t) \/ FinishStop(t)

LivenessStep(r) ==
  Wake(r) \/ BeginProbe(r) \/ EndProbe(r) \/ ProbeRaises(r) \/ CheckStopped(r) \/ Judge(r)

Next ==
  \/ \E t \in Thread : \/ CallerStep(t) \/ CallStop(t)
                       \/ \E p \in Paths, freeze \in BOOLEAN : CallUse(t, p, freeze)
  \/ \E r \in Run : LivenessStep(r) \/ Die(r)
  \/ \E m \in Modes : UpdatePolicyMode(m)
  \/ SetIsolationToken

Spec == Init /\ [][Next]_vars

-----------------------------------------------------------------------------
(* Properties. *)

Places == {"idle", "check", "begin", "join", "bringup", "freeze", "stop"}
WorkerPlaces == {"unborn", "waiting", "due", "probing", "check", "judge", "done"}

CallTypes ==
  /\ op \in Thread \cup {Nobody} /\ lock \in Thread \cup {Nobody}
  /\ pc \in [Thread -> Places]
  /\ target \in [Thread -> Paths] /\ freezing \in [Thread -> BOOLEAN]

RouteTypes ==
  /\ state \in {"idle", "bringing_up", "tearing_down", "ready", "degraded"}
  /\ active \in Paths /\ handle \in 0 .. runs /\ requested \in Paths \cup {"none"}
  /\ mode \in Modes /\ token \in BOOLEAN
  /\ frozen \in {Unfrozen} \cup [path : Paths, requested : Paths, mode : Modes]
  /\ worker \in 0 .. runs /\ failures \in 0 .. Threshold
  /\ dropped \in BOOLEAN /\ lastHealth \in BOOLEAN
  /\ proxy \in Environments

RunTypes ==
  /\ runs \in 0 .. MaxRun /\ path \in [Run -> Paths] /\ down \subseteq Run /\ left \subseteq Run
  /\ wpc \in [Run -> WorkerPlaces]
  /\ wstop \in [Run -> BOOLEAN] /\ probed \in [Run -> 0 .. MaxRun]
  /\ healthy \in [Run -> BOOLEAN] /\ streak \in [Run -> 0 .. Threshold]
  /\ \A r \in Run : (wpc[r] = "unborn" <=> r > runs) /\ (wpc[r] = "probing" => probed[r] # None)

\* The types; a run has a worker once it was brought up, and every worker that
\* probes has a route to probe.
TypeOK == CallTypes /\ RouteTypes /\ RunTypes

\* The drop flag is earned by the route it accuses: a route that is up is watched
\* by its own worker, and by no other, and the failures counted against it are the
\* consecutive failed probes of that route by that worker, whatever worker of an
\* earlier route is still stuck in a probe. Nor is a route blamed in status(): one
\* that is never probed is neither dropped nor ill.
DropIsEarned ==
  state \in Up =>
    /\ failures = streak[handle] /\ (failures = Threshold => dropped)
    /\ path[handle] = "clearnet" => ~dropped /\ lastHealth
    /\ worker # None => worker = handle /\ ~wstop[handle] /\ wpc[handle] # "done"
    /\ op = Nobody => worker # None

\* What a route leaves in the world is that of the route in force: the environment
\* that children inherit names its SOCKS port and credential, and those of no route
\* once it is forgotten, and between operations every other daemon was torn down: it
\* is gone, unless that failed, which the runtime logs and does not try again.
NoStrayRoute ==
  /\ state \in Up => IF active = "tor" THEN proxy = Socks(handle, token) ELSE proxy \in {UserEnv, NoProxy}
  /\ state = "idle" => proxy = UserEnv
  /\ op = Nobody => \A r \in 1 .. runs : path[r] # "clearnet" /\ r \notin down => r = handle \/ r \in left

\* The frozen route as the rest of the process sees it.
Sealed == frozen # Unfrozen /\ handle # None
Phase == IF frozen = Unfrozen THEN "open" ELSE IF handle = None THEN "ended"
         ELSE IF dropped THEN "dropped" ELSE "up"
Route == INSTANCE NetRoute WITH
           Path <- Paths, Env <- Environments, NoPath <- "none", NoEnv <- UserEnv,
           phase <- Phase, via <- IF Sealed THEN active ELSE "none",
           env <- IF Sealed THEN proxy ELSE UserEnv

\* The runtime keeps the promise of NetRoute: once frozen the route, its path and
\* its environment never change, and a route that dropped or ended stays so, even
\* when its path is asked for again.
RouteSpec == Route!Spec

-----------------------------------------------------------------------------
(* The inductive invariant behind the three.                                *)

\* Who holds the two locks: the caller that is inside an operation, and inside its
\* bring-up.
LocksHeld ==
  \A t \in Thread : (pc[t] # "idle" <=> op = t) /\ (pc[t] = "bringup" <=> lock = t)

\* The state between two steps of a switch, and the run in force: the last one, over
\* its own path. No switch starts once the route is frozen.
SwitchOrder ==
  /\ state \in Up => handle # None
  /\ state = "idle" => handle = None
  /\ handle # None => handle = runs /\ active = path[handle] /\ requested # "none"
  /\ \A t \in Thread :
       /\ pc[t] = "join" => state = "bringing_up" /\ handle # None /\ worker = None
       /\ pc[t] = "bringup" => state \notin Up /\ handle = None /\ worker = None
       /\ pc[t] \in {"check", "begin", "freeze"} => state \in Up \cup {"idle"} /\ (handle # None => worker # None)
       /\ pc[t] = "stop" => state \in Up \cup {"idle"} /\ worker = None
       /\ pc[t] \in {"join", "bringup"} => frozen = Unfrozen
  /\ op = Nobody => state \in Up \cup {"idle"} /\ (handle # None => worker # None)

\* The worker the runtime knows is the one of the route in force; every other one
\* was told to stop, and is gone or stuck in the probe it was in.
WorkerOrder ==
  /\ worker # None => worker = handle
  /\ \A r \in 1 .. runs :
       /\ wstop[r] <=> r # worker
       /\ r # handle => wpc[r] \in {"probing", "check", "done"}
       /\ wpc[r] = "done" => wstop[r]
       /\ wpc[r] = "probing" => probed[r] = r
       /\ path[r] = "clearnet" => healthy[r] /\ streak[r] = 0
       /\ path[r] # "clearnet" /\ r \notin down => r = handle \/ r \in left
  /\ \A r \in Run : r > runs => ~wstop[r] /\ healthy[r] /\ streak[r] = 0

\* What was counted against the route in force.
Counts ==
  handle # None =>
    /\ failures = streak[handle] /\ (failures = Threshold => dropped)
    /\ path[handle] = "clearnet" => ~dropped /\ lastHealth

RInv == TypeOK /\ LocksHeld /\ SwitchOrder /\ WorkerOrder /\ Counts /\ DropIsEarned /\ NoStrayRoute
=============================================================================
