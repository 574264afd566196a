------------------------------ MODULE NetRoute ------------------------------
(***************************************************************************)
(* What the network runtime promises the process that froze it: one route, *)
(* with one environment for the clients built on it. It is up until its    *)
(* liveness worker calls it dropped or it is stopped; it is never repaired,*)
(* replaced or brought back: only a restart of the process makes another.  *)
(***************************************************************************)
CONSTANTS Path, Env, NoPath, NoEnv

VARIABLES
  phase,   \* "open" before the freeze, then "up", "dropped", "ended"
  via,     \* the path of the sealed route
  env      \* the proxy environment it gives to children and clients

routeVars == <<phase, via, env>>

Init == phase = "open" /\ via = NoPath /\ env = NoEnv

\* A worker may call the route dropped between the activation and the freeze.
Seal ==
  /\ phase = "open" /\ phase' \in {"up", "dropped"}
  /\ via' \in Path /\ env' \in Env

Drop ==
  /\ phase = "up" /\ phase' = "dropped"
  /\ UNCHANGED <<via, env>>

End ==
  /\ phase \in {"up", "dropped"} /\ phase' = "ended"
  /\ via' = NoPath /\ env' = NoEnv

Next == Seal \/ Drop \/ End

Spec == Init /\ [][Next]_routeVars
=============================================================================
