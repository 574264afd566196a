---------------------------- MODULE DbConnection ----------------------------
(***************************************************************************)
(* The database authority of one process and the SQLCipher handles opened  *)
(* under it (dbcrypt/_authority.py, dbcrypt/_connection.py). Threads open, *)
(* use, close and drop handles; when the metadata of the home changes, or  *)
(* the provider closes, one of them revokes the authority for good: every  *)
(* handle is rolled back and closed, and only then the shared lease goes,  *)
(* after which maintenance may rewrite the files.                          *)
(*                                                                         *)
(* A handle takes part in one opening. The state lock of a handle is a     *)
(* leaf held for a few assignments, so what it covers is one step; a check *)
(* is one step too, for the authority's lock covers it, unless it turns    *)
(* into a revocation. Inherited handles of forked children are left out.   *)
(***************************************************************************)
EXTENDS Integers, FiniteSets

CONSTANTS Thread, Handle, Nobody

ASSUME ThreadAssumption == IsFiniteSet(Thread) /\ Nobody \notin Thread
ASSUME HandleAssumption == Nobody \notin Handle

VARIABLES
  valid,                           \* the metadata the authority checks is unchanged
  quiet,                           \* the application starts no more calls
  terminal, ops, registered, leased, alock,        \* Authority
  facade, raw, active, closed, revoked, released,  \* ProtectedConnection and _RawOwner
  io, olock,                       \* holders of a handle's raw-call lock and owner lock
  abandoned,                       \* _ABANDONED
  at, mine, victim, back, todo, then

authority == <<terminal, ops, registered, leased, alock>>
handles == <<facade, raw, active, closed, revoked, released, io, olock, abandoned>>
stack == <<victim, back, todo, then>>
connectionVars == <<valid, quiet, authority, handles, at, mine, stack>>

ConnectionInit ==
  /\ valid = TRUE /\ quiet = FALSE
  /\ terminal = FALSE /\ ops = 0 /\ registered = {} /\ leased = TRUE /\ alock = Nobody
  /\ facade = [h \in Handle |-> "none"] /\ raw = [h \in Handle |-> "none"]
  /\ active = [h \in Handle |-> 0]
  /\ closed = [h \in Handle |-> FALSE] /\ revoked = [h \in Handle |-> FALSE]
  /\ released = [h \in Handle |-> FALSE]
  /\ io = [h \in Handle |-> Nobody] /\ olock = [h \in Handle |-> Nobody] /\ abandoned = {}
  /\ at = [t \in Thread |-> "idle"] /\ mine = [t \in Thread |-> Nobody]
  /\ victim = [t \in Thread |-> Nobody] /\ back = [t \in Thread |-> "idle"]
  /\ todo = [t \in Thread |-> {}] /\ then = [t \in Thread |-> "idle"]

At(t, s) == at[t] = s
Go(t, s) ==
  /\ at' = [at EXCEPT ![t] = s]
  /\ mine' = IF s = "idle" THEN [mine EXCEPT ![t] = Nobody] ELSE mine

-----------------------------------------------------------------------------
(* Authority.invalidate, by a thread that holds the authority's lock until   *)
(* every registered handle is revoked; then it goes on at s.                 *)

BeginRevocation(t, s) ==
  /\ terminal' = TRUE /\ registered' = {} /\ alock' = t
  /\ todo' = [todo EXCEPT ![t] = registered] /\ then' = [then EXCEPT ![t] = s]
  /\ Go(t, "revoke")
  /\ UNCHANGED <<ops, leased, handles, victim, back>>

\* Release the raw handle of h, then go on at s.
Dispose(t, h, s) ==
  /\ victim' = [victim EXCEPT ![t] = h] /\ back' = [back EXCEPT ![t] = s] /\ Go(t, "lock")

Idle(h) == active[h] = 0 /\ ~closed[h]

\* Fault: revocation waits until nobody uses the handle.
RevokeNextLocking(t) ==
  /\ At(t, "revoke")
  /\ \E h \in todo[t] :
       /\ io[h] = Nobody
       /\ todo' = [todo EXCEPT ![t] = @ \ {h}]
       /\ revoked' = [revoked EXCEPT ![h] = TRUE]
       /\ IF Idle(h) THEN closed' = [closed EXCEPT ![h] = TRUE] /\ Dispose(t, h, "revoke")
          ELSE UNCHANGED <<closed, at, mine, victim, back>>
  /\ UNCHANGED <<valid, quiet, authority, facade, raw, active, released, io, olock, abandoned, then>>

\* _RawOwner.invalidate: an idle handle is claimed, one in use is marked; a handle
\* whose facade is gone is released, by whoever comes first.
RevokeNext(t) ==
  /\ At(t, "revoke")
  /\ \E h \in todo[t] :
       /\ todo' = [todo EXCEPT ![t] = @ \ {h}]
       /\ IF facade[h] = "gone" THEN Dispose(t, h, "revoke") /\ UNCHANGED <<closed, revoked>>
          ELSE /\ revoked' = [revoked EXCEPT ![h] = TRUE]
               /\ IF Idle(h) THEN closed' = [closed EXCEPT ![h] = TRUE] /\ Dispose(t, h, "revoke")
                  ELSE UNCHANGED <<closed, at, mine, victim, back>>
  /\ UNCHANGED <<valid, quiet, authority, facade, raw, active, released, io, olock, abandoned, then>>

\* Fault: the lease goes with the authority.
RevokeEndAtOnce(t) ==
  /\ At(t, "revoke") /\ todo[t] = {}
  /\ alock' = Nobody /\ leased' = FALSE /\ Go(t, then[t])
  /\ UNCHANGED <<valid, quiet, terminal, ops, registered, handles, stack>>

\* The lease stays while operations are counted.
RevokeEnd(t) ==
  /\ At(t, "revoke") /\ todo[t] = {}
  /\ alock' = Nobody /\ leased' = (leased /\ ops > 0) /\ Go(t, then[t])
  /\ UNCHANGED <<valid, quiet, terminal, ops, registered, handles, stack>>

(* _RawOwner.release and unregister_connection. *)

LockOwner(t) ==
  /\ At(t, "lock") /\ olock[victim[t]] = Nobody
  /\ IF released[victim[t]] THEN Go(t, "unregister") /\ UNCHANGED <<released, olock>>
     ELSE /\ released' = [released EXCEPT ![victim[t]] = TRUE]
          /\ olock' = [olock EXCEPT ![victim[t]] = t] /\ Go(t, "close")
  /\ UNCHANGED <<valid, quiet, authority, facade, raw, active, closed, revoked, io, abandoned, stack>>

\* The callbacks are cleared first, so that no rollback asks the authority.
CloseRaw(t) ==
  /\ At(t, "close")
  /\ raw' = [raw EXCEPT ![victim[t]] = IF @ = "open" THEN "closed" ELSE @]
  /\ olock' = [olock EXCEPT ![victim[t]] = Nobody] /\ Go(t, "unregister")
  /\ UNCHANGED <<valid, quiet, authority, facade, active, closed, revoked, released, io, abandoned, stack>>

Unregister(t) ==
  /\ At(t, "unregister") /\ alock \in {Nobody, t}
  /\ registered' = registered \ {victim[t]}
  /\ Go(t, back[t]) /\ victim' = [victim EXCEPT ![t] = Nobody]
  /\ UNCHANGED <<valid, quiet, terminal, ops, leased, alock, handles, back, todo, then>>

-----------------------------------------------------------------------------
(* Authority.check and operation. *)

\* Go on at s, or revoke when the metadata changed, and go on at f.
Check(t, s, f) ==
  /\ alock = Nobody
  /\ IF valid \/ terminal
     THEN Go(t, IF terminal THEN f ELSE s) /\ UNCHANGED <<authority, handles, stack>>
     ELSE BeginRevocation(t, f)
  /\ UNCHANGED <<valid, quiet>>

\* A refused operation is not counted.
Enter(t, s) ==
  /\ alock = Nobody
  /\ IF valid /\ ~terminal
     THEN ops' = ops + 1 /\ Go(t, s) /\ UNCHANGED <<terminal, registered, leased, alock, handles, stack, valid, quiet>>
     ELSE Check(t, s, "idle")

\* Fault: the last operation leaves the lease to the revocation.
ExitForgetful(t) ==
  /\ At(t, "exit") /\ alock = Nobody
  /\ ops' = ops - 1
  /\ facade' = IF facade[mine[t]] = "opening"
               THEN [facade EXCEPT ![mine[t]] = IF closed[mine[t]] THEN "gone" ELSE "held"] ELSE facade
  /\ Go(t, "idle")
  /\ UNCHANGED <<valid, quiet, terminal, registered, leased, alock, raw, active, closed, revoked, released, io,
                 olock, abandoned, stack>>

\* The last operation of a revoked authority lets the lease go. An opening ends
\* here as well: the handle is returned unless it was closed.
Exit(t) ==
  /\ At(t, "exit") /\ alock = Nobody
  /\ ops' = ops - 1 /\ leased' = (leased /\ ~(terminal /\ ops = 1))
  /\ facade' = IF facade[mine[t]] = "opening"
               THEN [facade EXCEPT ![mine[t]] = IF closed[mine[t]] THEN "gone" ELSE "held"] ELSE facade
  /\ Go(t, "idle")
  /\ UNCHANGED <<valid, quiet, terminal, registered, alock, raw, active, closed, revoked, released, io,
                 olock, abandoned, stack>>

\* What a thread starts: facades are shared between the threads.
Call(t, h, s) ==
  /\ At(t, "idle") /\ ~quiet
  /\ at' = [at EXCEPT ![t] = s] /\ mine' = [mine EXCEPT ![t] = h]
  /\ UNCHANGED <<valid, quiet, authority, handles, stack>>

-----------------------------------------------------------------------------
(* _open and _open_bound. *)

OpenCall(t, h) == facade[h] = "none" /\ (\A u \in Thread : mine[u] # h) /\ Call(t, h, "precheck")

PreCheck(t) == At(t, "precheck") /\ Check(t, "reap", "idle")

\* Fault: a handle that is reaped is forgotten before it is closed.
ReapUnregistered(t) ==
  /\ At(t, "reap")
  /\ \/ abandoned = {} /\ Go(t, "openenter") /\ UNCHANGED <<abandoned, victim, back, registered>>
     \/ \E h \in abandoned :
          abandoned' = abandoned \ {h} /\ registered' = registered \ {h} /\ alock = Nobody /\ Dispose(t, h, "reap")
  /\ UNCHANGED <<valid, quiet, terminal, ops, leased, alock, facade, raw, active, closed, revoked, released,
                 io, olock, todo, then>>

\* _reap, outside of any counted operation.
Reap(t) ==
  /\ At(t, "reap")
  /\ \/ abandoned = {} /\ Go(t, "openenter") /\ UNCHANGED <<abandoned, victim, back>>
     \/ \E h \in abandoned : abandoned' = abandoned \ {h} /\ Dispose(t, h, "reap")
  /\ UNCHANGED <<valid, quiet, authority, facade, raw, active, closed, revoked, released, io, olock, todo, then>>

EnterOpen(t) == At(t, "openenter") /\ Enter(t, "connect")

\* The driver connects and the pages are verified; the admission is an open scope.
Connect(t) ==
  /\ At(t, "connect")
  /\ facade' = [facade EXCEPT ![mine[t]] = "opening"] /\ active' = [active EXCEPT ![mine[t]] = 1]
  /\ \/ raw' = [raw EXCEPT ![mine[t]] = "open"] /\ (Go(t, "register") \/ Go(t, "failed"))
     \/ UNCHANGED raw /\ Go(t, "failed")
  /\ UNCHANGED <<valid, quiet, authority, closed, revoked, released, io, olock, abandoned, stack>>

\* The key is asked and the owner registered while the authority is not terminal.
Register(t) ==
  /\ At(t, "register") /\ alock = Nobody
  /\ IF valid /\ ~terminal
     THEN /\ registered' = registered \cup {mine[t]} /\ Go(t, "final")
          /\ UNCHANGED <<valid, quiet, terminal, ops, leased, alock, handles, stack>>
     ELSE Check(t, "final", "failed")

FinalCheck(t) == At(t, "final") /\ Check(t, IF revoked[mine[t]] THEN "failed" ELSE "leave", "failed")

\* No other caller can claim an open scope.
Fail(t) ==
  /\ At(t, "failed")
  /\ active' = [active EXCEPT ![mine[t]] = @ - 1] /\ closed' = [closed EXCEPT ![mine[t]] = TRUE]
  /\ Dispose(t, mine[t], "exit")
  /\ UNCHANGED <<valid, quiet, authority, facade, raw, revoked, released, io, olock, abandoned, todo, then>>

-----------------------------------------------------------------------------
(* ProtectedConnection: _operation around one raw call, and close. *)

Use(t, h) == facade[h] = "held" /\ Call(t, h, "useenter")

EnterUse(t) == At(t, "useenter") /\ Enter(t, "io")

TakeIo(t) ==
  /\ at[t] \in {"io", "closeio"} /\ io[mine[t]] = Nobody
  /\ io' = [io EXCEPT ![mine[t]] = t] /\ Go(t, IF At(t, "io") THEN "check" ELSE "claim")
  /\ UNCHANGED <<valid, quiet, authority, facade, raw, active, closed, revoked, released, olock, abandoned, stack>>

Refused(h) == closed[h] \/ revoked[h]

CheckUse(t) == At(t, "check") /\ Check(t, IF Refused(mine[t]) THEN "dropio" ELSE "admit", "dropio")

Admit(t) ==
  /\ At(t, "admit")
  /\ IF Refused(mine[t]) THEN Go(t, "dropio") /\ UNCHANGED active
     ELSE active' = [active EXCEPT ![mine[t]] = @ + 1] /\ Go(t, "sql")
  /\ UNCHANGED <<valid, quiet, authority, facade, raw, closed, revoked, released, io, olock, abandoned, stack>>

\* The statement ends, after its callbacks or a last check looked at the authority,
\* or raises.
EndSql(t) ==
  /\ At(t, "sql")
  /\ \/ Check(t, "leave", "leave")
     \/ Go(t, "leave") /\ UNCHANGED <<valid, quiet, authority, handles, stack>>

\* A row factory or another callback closes the connection it runs in.
CloseInside(t) ==
  /\ At(t, "sql") /\ alock = Nobody /\ ~revoked[mine[t]]
  /\ revoked' = [revoked EXCEPT ![mine[t]] = TRUE]
  /\ UNCHANGED <<valid, quiet, authority, facade, raw, active, closed, released, io, olock, abandoned, at, mine, stack>>

Opening(t) == facade[mine[t]] = "opening"
After(t) == IF Opening(t) THEN "exit" ELSE "dropio"

\* The last scope of a revoked handle disposes of it.
Leave(t) ==
  /\ At(t, "leave")
  /\ active' = [active EXCEPT ![mine[t]] = @ - 1]
  /\ IF revoked[mine[t]] /\ ~closed[mine[t]]
     THEN closed' = [closed EXCEPT ![mine[t]] = TRUE] /\ Dispose(t, mine[t], After(t))
     ELSE Go(t, After(t)) /\ UNCHANGED <<closed, victim, back>>
  /\ UNCHANGED <<valid, quiet, authority, facade, raw, revoked, released, io, olock, abandoned, todo, then>>

DropIo(t) ==
  /\ At(t, "dropio")
  /\ io' = [io EXCEPT ![mine[t]] = Nobody] /\ Go(t, "exit")
  /\ UNCHANGED <<valid, quiet, authority, facade, raw, active, closed, revoked, released, olock, abandoned, stack>>

Close(t, h) == facade[h] = "held" /\ Call(t, h, "closeenter")

\* A cleanup is counted whatever the authority says.
EnterClose(t) ==
  /\ At(t, "closeenter") /\ alock = Nobody
  /\ ops' = ops + 1 /\ Go(t, "closeio")
  /\ UNCHANGED <<valid, quiet, terminal, registered, leased, alock, handles, stack>>

Claim(t) ==
  /\ At(t, "claim")
  /\ IF Idle(mine[t]) THEN closed' = [closed EXCEPT ![mine[t]] = TRUE] /\ Dispose(t, mine[t], "dropio")
     ELSE Go(t, "dropio") /\ UNCHANGED <<closed, victim, back>>
  /\ UNCHANGED <<valid, quiet, authority, facade, raw, active, revoked, released, io, olock, abandoned, todo, then>>

-----------------------------------------------------------------------------
(* The application and its surroundings. *)

\* The last reference goes: the finalizer queues the owner unless it is disposed of.
Drop(h) ==
  /\ facade[h] = "held" /\ \A t \in Thread : h \notin {mine[t], victim[t]}
  /\ facade' = [facade EXCEPT ![h] = "gone"]
  /\ abandoned' = IF released[h] THEN abandoned ELSE abandoned \cup {h}
  /\ UNCHANGED <<valid, quiet, authority, raw, active, closed, revoked, released, io, olock, at, mine, stack>>

\* The provider closes, or the monitor refuses a database.
Revoke(t) ==
  /\ At(t, "idle") /\ alock = Nobody /\ ~terminal
  /\ BeginRevocation(t, "idle") /\ UNCHANGED <<valid, quiet>>

Change ==
  /\ valid /\ valid' = FALSE
  /\ UNCHANGED <<quiet, authority, handles, at, mine, stack>>

Cease ==
  /\ ~quiet /\ quiet' = TRUE
  /\ UNCHANGED <<valid, authority, handles, at, mine, stack>>

Step(t) ==
  \/ RevokeNext(t) \/ RevokeEnd(t) \/ LockOwner(t) \/ CloseRaw(t) \/ Unregister(t) \/ Exit(t)
  \/ PreCheck(t) \/ Reap(t) \/ EnterOpen(t) \/ Connect(t) \/ Register(t) \/ FinalCheck(t) \/ Fail(t)
  \/ EnterUse(t) \/ TakeIo(t) \/ CheckUse(t) \/ Admit(t) \/ EndSql(t) \/ Leave(t) \/ DropIo(t)
  \/ EnterClose(t) \/ Claim(t)

ConnectionNext ==
  \/ Change \/ Cease
  \/ \E t \in Thread :
       Step(t) \/ CloseInside(t) \/ Revoke(t) \/ \E h \in Handle : OpenCall(t, h) \/ Use(t, h) \/ Close(t, h)
  \/ \E h \in Handle : Drop(h)

ConnectionSpec == ConnectionInit /\ [][ConnectionNext]_connectionVars

\* Calls go on by themselves, statements end, and the application starts no calls
\* for ever: the locks promise nobody a turn.
LiveSpec == ConnectionSpec /\ WF_connectionVars(Cease) /\ \A t \in Thread : WF_connectionVars(Step(t))

-----------------------------------------------------------------------------
(* Properties. *)

Disposals == {"lock", "close", "unregister"}
Places == {"idle", "precheck", "reap", "openenter", "connect", "register", "final", "failed",
           "useenter", "io", "check", "admit", "sql", "leave", "dropio", "closeenter", "closeio",
           "claim", "exit"}
Revoking(t) == At(t, "revoke") \/ (at[t] \in Disposals /\ back[t] = "revoke")

\* Where a thread is, or will be when what it revokes and disposes of is done.
Place(t) ==
  IF Revoking(t) THEN then[t] ELSE IF at[t] \in Disposals THEN back[t] ELSE at[t]

Counted(t) == Place(t) \notin {"idle", "precheck", "reap", "openenter", "useenter", "closeenter"}

ConnectionTypes ==
  /\ valid \in BOOLEAN /\ quiet \in BOOLEAN /\ terminal \in BOOLEAN /\ leased \in BOOLEAN
  /\ ops \in Nat /\ registered \subseteq Handle /\ alock \in Thread \cup {Nobody} /\ abandoned \subseteq Handle
  /\ facade \in [Handle -> {"none", "opening", "held", "gone"}]
  /\ raw \in [Handle -> {"none", "open", "closed"}] /\ active \in [Handle -> {0, 1}]
  /\ closed \in [Handle -> BOOLEAN] /\ revoked \in [Handle -> BOOLEAN] /\ released \in [Handle -> BOOLEAN]
  /\ io \in [Handle -> Thread \cup {Nobody}] /\ olock \in [Handle -> Thread \cup {Nobody}]
  /\ mine \in [Thread -> Handle \cup {Nobody}] /\ victim \in [Thread -> Handle \cup {Nobody}]
  /\ todo \in [Thread -> SUBSET Handle]
  /\ at \in [Thread -> Places \cup Disposals \cup {"revoke"}]
  /\ back \in [Thread -> Places \cup {"revoke"}] /\ then \in [Thread -> Places]

\* Every native handle has somebody to answer for it: maintenance cannot have the
\* files before the last one on them is closed, no statement runs on one that
\* revocation, a close or a reap disposed of, and after a revocation none stays
\* open but in the hands of a thread that is still to close it.
HandlesAccounted ==
  /\ ~leased => \A h \in Handle : raw[h] # "open"
  /\ \A t \in Thread : At(t, "sql") => raw[mine[t]] = "open"
  /\ terminal /\ alock = Nobody =>
       \A h \in Handle : raw[h] = "open" =>
         \E t \in Thread : ~At(t, "idle") /\ h \in {mine[t], victim[t]}

\* Revocation waits for no handle in use and still ends: when calls cease the
\* lease goes.
RevocationReleases == terminal ~> ~leased

\* No thread waits for ever, on whatever locks the others hold.
CallsReturn == quiet ~> \A t \in Thread : At(t, "idle")

-----------------------------------------------------------------------------
(* Why HandlesAccounted holds: an inductive invariant. Each open native     *)
(* handle is registered, or in the hands of a revocation, or of a counted   *)
(* thread whose scope ends with its disposal.                               *)

Disposing(t, h) == at[t] \in Disposals /\ victim[t] = h
Closing(t, h) == at[t] \in {"lock", "close"} /\ victim[t] = h
Holds(t, h) == mine[t] = h /\ Place(t) \in {"register", "final", "failed", "sql", "leave"}
InIo == {"check", "admit", "sql", "leave", "dropio", "claim"}

PlacesOK == \A t \in Thread :
  /\ at[t] \in Disposals => back[t] \in {"revoke", "reap", "exit", "dropio"} /\ victim[t] \in Handle
  /\ Revoking(t) => then[t] \in {"idle", "failed", "dropio", "leave"}
  /\ At(t, "idle") => mine[t] = Nobody
  /\ Place(t) # "idle" => mine[t] \in Handle

\* What its caller does with a handle follows its facade; nobody calls one that is gone.
FacadeSays == \A h \in Handle :
  /\ facade[h] \in {"none", "opening"} => \A t, u \in Thread : mine[t] = h /\ mine[u] = h => t = u
  /\ \A t \in Thread : mine[t] = h =>
       /\ facade[h] # "gone"
       /\ facade[h] = "none" => Place(t) \in {"idle", "precheck", "reap", "openenter", "connect"}
       /\ facade[h] = "opening" => Place(t) \in {"register", "final", "failed", "leave", "exit"}
       /\ facade[h] = "held" => Place(t) \in InIo \cup {"idle", "useenter", "io", "closeenter", "closeio", "exit"}
  /\ facade[h] = "opening" => \E t \in Thread : mine[t] = h
  /\ facade[h] = "none" => /\ raw[h] = "none" /\ active[h] = 0 /\ ~closed[h] /\ ~released[h] /\ h \notin registered \cup abandoned
                           /\ \A t \in Thread : h \notin todo[t]
  /\ h \in abandoned => facade[h] = "gone"

IoHeld == \A h \in Handle, t \in Thread :
  io[h] = t <=> mine[t] = h /\ facade[h] = "held" /\ Place(t) \in InIo

\* A scope is open for one thread, and none on a handle that is to be disposed of.
ScopesOpen == \A h \in Handle :
  /\ active[h] = 1 <=> \E t \in Thread : Holds(t, h)
  /\ \A t, u \in Thread : Holds(t, h) /\ Holds(u, h) => t = u
  /\ closed[h] => active[h] = 0
  /\ \A t \in Thread : Disposing(t, h) => closed[h] \/ facade[h] = "gone"

\* A handle stays native as long as it is not claimed.
NativeOpen == \A h \in Handle :
  /\ facade[h] = "held" /\ ~closed[h] => raw[h] = "open"
  /\ \A t \in Thread : facade[h] = "opening" /\ ~closed[h] /\ mine[t] = h /\ Place(t) # "failed" => raw[h] = "open"

OwnersLocked == \A h \in Handle :
  /\ \A t \in Thread : olock[h] = t <=> At(t, "close") /\ victim[t] = h
  /\ released[h] /\ raw[h] = "open" => olock[h] # Nobody
  /\ \A t \in Thread : At(t, "unregister") /\ victim[t] = h => raw[h] # "open"

OneRevokes ==
  /\ \A t \in Thread : alock = t <=> Revoking(t)
  /\ \A t \in Thread : todo[t] # {} => Revoking(t)
  /\ alock # Nobody => terminal
  /\ terminal => registered = {}

\* Who will close h.
Answerable(h) ==
  \/ h \in registered
  \/ \E t \in Thread : h \in todo[t]
  \/ \E t \in Thread : Closing(t, h) /\ back[t] # "reap"
  \/ \E t \in Thread : mine[t] = h /\ Place(t) \in {"register", "failed"}
  \/ revoked[h] /\ \E t \in Thread : Holds(t, h)

Tracked == \A h \in Handle : raw[h] = "open" => Answerable(h)

Claimed == \A h \in Handle :
  closed[h] /\ raw[h] = "open" => \E t \in Thread : Closing(t, h) /\ back[t] # "reap"

OpsCounted == ops = Cardinality({t \in Thread : Counted(t)})

LeaseHeld ==
  ~leased => terminal /\ \A h \in Handle : raw[h] # "open" /\ \A t \in Thread : at[t] # "connect"

HInv ==
  /\ ConnectionTypes /\ PlacesOK /\ FacadeSays /\ IoHeld /\ ScopesOpen /\ NativeOpen /\ OwnersLocked
  /\ OneRevokes /\ Tracked /\ Claimed /\ OpsCounted /\ LeaseHeld
=============================================================================
