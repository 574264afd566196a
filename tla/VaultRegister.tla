---------------------------- MODULE VaultRegister ----------------------------
(***************************************************************************)
(* What the vault promises its clients: one map from names to ciphertexts. *)
(* A client changes one name at a time, and only while the map it has open *)
(* is still the current one, so that no change is lost. Binding the vault  *)
(* to another device key keeps the map, but for one change that a client   *)
(* may have written down before it died, and unless it takes up a binding  *)
(* that was interrupted, and that clients have gone on without since.      *)
(***************************************************************************)
CONSTANTS Client, File, Content, Empty, Absent

VARIABLES
  map,    \* the current map, Absent before there is a vault
  key,    \* the device key it is bound to
  view,   \* the map that each client has open
  behind  \* an interrupted binding has not what clients changed since

Init == map = Absent /\ key = Absent /\ view = [c \in Client |-> Absent] /\ behind = FALSE

Look(c) ==
  /\ \E m \in [File -> Content] \cup {Absent} : view' = [view EXCEPT ![c] = m]
  /\ UNCHANGED <<map, key, behind>>

Forget == view' = [c \in Client |-> Absent] /\ UNCHANGED <<map, key, behind>>

Create == map = Absent /\ map' = Empty /\ key' # Absent /\ UNCHANGED <<view, behind>>

Change(c) ==
  /\ map # Absent /\ view[c] = map
  /\ \E f \in File, v \in Content : map' = [map EXCEPT ![f] = v]
  /\ UNCHANGED <<key, view, behind>>

Rebind ==
  /\ map # Absent /\ ~behind /\ key' # key
  /\ \E f \in File, v \in Content : map' = [map EXCEPT ![f] = v]
  /\ UNCHANGED <<view, behind>>

\* A client goes on without the binding that was interrupted; the binding that there is
\* is made good; or the interrupted one is taken up, and what was changed since is lost.
GoOn(c) == map # Absent /\ view[c] = map /\ behind' = TRUE /\ UNCHANGED <<map, key, view>>

CatchUp == behind' = FALSE /\ UNCHANGED <<map, key, view>>

Relapse ==
  /\ behind /\ behind' = FALSE /\ key' # key
  /\ map' \in [File -> Content] /\ UNCHANGED view

Next ==
  \/ Create \/ Rebind \/ Forget \/ CatchUp \/ Relapse
  \/ \E c \in Client : Look(c) \/ Change(c) \/ GoOn(c)

Spec == Init /\ [][Next]_<<map, key, view, behind>>
=============================================================================
