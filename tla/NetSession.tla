----------------------------- MODULE NetSession -----------------------------
(***************************************************************************)
(* The network plugin around its frozen route (network/_registration.py,   *)
(* network/hooks.py): registration seals the configured route before any   *)
(* client exists; session starts and the gates before tools and provider   *)
(* requests read the policy and the configuration from disk again, one file*)
(* at a time, while the user may edit them.                                *)
(*                                                                         *)
(* The route is the one NetRoute specifies and NetRuntime implements. The  *)
(* POSIX readers are modelled: on Windows one checked read replaces them.  *)
(* The locals of a hook are reset once they are dead.                      *)
(***************************************************************************)
EXTENDS Integers

CONSTANTS Actor,    \* threads that start sessions, call tools and send requests
          MaxEdit,  \* bound on the edits of policy.json and config.yaml
          Nobody

ASSUME EditAssumption == MaxEdit \in Nat
ASSUME ActorAssumption == Nobody \notin Actor

Paths == {"clearnet", "tor", "vpn"}
Protected == {"tor", "vpn"}
Modes == {"lenient", "strict"}   \* "off" is handled as "lenient" throughout
Damaged == "damaged"   \* a file that exists and cannot be read or parsed
Unset == [mode |-> "none", path |-> "none"]
Conf == [mode : Modes, path : Paths]
ReadConf == [mode : Modes \cup {"none"}, path : Paths \cup {"none"}]

VARIABLES
  disk, edits,     \* what policy.json and config.yaml say; edits so far
  boot, conf,      \* the registration, and the configuration it loaded
  phase, via,      \* the route, as in NetRoute
  seal,            \* the configuration fingerprint of the frozen route
  published,       \* api._RUNTIME is set
  mode,            \* the policy mode the runtime holds
  op,              \* owner of the runtime's operation lock
  hook             \* the hook each actor is in, and what it has read

bootVars == <<boot, conf, seal, published>>
vars == <<disk, edits, bootVars, phase, via, mode, op, hook>>

\* Two ghosts: the phase of the route when the call began; whether since then the
\* policy on disk was strict, and no file was edited at all.
Idle == [pc |-> "idle", kind |-> "none", read |-> Unset, loaded |-> Unset,
         began |-> "open", strict |-> FALSE, quiet |-> FALSE]

\* The environment follows the path here, so the path stands for it.
Route == INSTANCE NetRoute WITH
           Path <- Paths, Env <- Paths, NoPath <- "none", NoEnv <- "none", env <- via

Init ==
  /\ disk \in [mode : Modes, path : Paths] /\ edits = 0
  /\ boot = "mode" /\ conf = Unset /\ seal = Unset /\ published = FALSE
  /\ Route!Init /\ mode = "none" /\ op = Nobody
  /\ hook = [a \in Actor |-> Idle]

\* read_policy_mode: a damaged policy reads as strict.
ReadMode == IF disk.mode = Damaged THEN "strict" ELSE disk.mode

\* read_default_path: a damaged configuration reads as clearnet ...
ReadPath == IF disk.path = Damaged THEN "clearnet" ELSE disk.path

\* ... which read_default_path_strict and a strict _load_runtime_config refuse.
Readable(m) == m = "strict" => disk.path # Damaged

\* The user, or a wizard command, rewrites or damages one of the two files.
Edit ==
  /\ edits < MaxEdit /\ edits' = edits + 1
  /\ \/ \E m \in Modes \cup {Damaged} : disk' = [disk EXCEPT !.mode = m]
     \/ \E p \in Paths \cup {Damaged} : disk' = [disk EXCEPT !.path = p]
  /\ disk' # disk
  /\ hook' = [a \in Actor |-> [hook[a] EXCEPT !.quiet = FALSE,
                                !.strict = @ /\ disk'.mode \in {"strict", Damaged}]]
  /\ UNCHANGED <<bootVars, phase, via, mode, op>>

-----------------------------------------------------------------------------
(* register, before Hermes builds a client. *)

BootLoadMode ==
  /\ boot = "mode" /\ boot' = "path" /\ conf' = [conf EXCEPT !.mode = ReadMode]
  /\ UNCHANGED <<disk, edits, seal, published, phase, via, mode, op, hook>>

BootLoadPath ==
  /\ boot = "path"
  /\ IF Readable(conf.mode)
     THEN boot' = "activate" /\ conf' = [conf EXCEPT !.path = ReadPath]
     ELSE boot' = "refused" /\ UNCHANGED conf
  /\ UNCHANGED <<disk, edits, seal, published, phase, via, mode, op, hook>>

\* Fault: strict too falls back to clearnet when the bring-up fails.
ActivateLeniently ==
  /\ boot = "activate" /\ boot' = "publish"
  /\ mode' = conf.mode /\ seal' = conf
  /\ Route!Seal /\ via' \in {conf.path, "clearnet"}
  /\ UNCHANGED <<disk, edits, conf, published, op, hook>>

\* activate_and_freeze of a runtime no other thread can see yet.
Activate ==
  /\ boot = "activate" /\ boot' = "publish"
  /\ mode' = conf.mode /\ seal' = conf
  /\ Route!Seal
  /\ via' = conf.path \/ (conf.mode # "strict" /\ via' = "clearnet")
  /\ phase' = "dropped" => via' \in Protected
  /\ UNCHANGED <<disk, edits, conf, published, op, hook>>

\* The passthrough of the environment, the runtime, its exit handler or a strict
\* bring-up fails: the process does not start.
RefuseBoot ==
  /\ boot = "activate" /\ boot' = "refused"
  /\ UNCHANGED <<disk, edits, conf, seal, published, phase, via, mode, op, hook>>

Publish ==
  /\ boot = "publish" /\ boot' = "wire" /\ published' = TRUE
  /\ UNCHANGED <<disk, edits, conf, seal, phase, via, mode, op, hook>>

WireHooks ==
  /\ boot = "wire" /\ boot' = "running"
  /\ UNCHANGED <<disk, edits, conf, seal, published, phase, via, mode, op, hook>>

\* A hook cannot be registered: _discard_failed_process_runtime.
WireFails ==
  /\ boot = "wire" /\ boot' = "refused"
  /\ Route!End /\ published' = FALSE
  /\ UNCHANGED <<disk, edits, conf, seal, mode, op, hook>>

\* atexit: stop waits for the operation lock; daemon threads go on.
Exit ==
  /\ boot = "running" /\ op = Nobody
  /\ boot' = "exiting" /\ Route!End
  /\ UNCHANGED <<disk, edits, conf, seal, published, mode, op, hook>>

\* The liveness worker.
Drop ==
  /\ via \in Protected /\ Route!Drop
  /\ UNCHANGED <<disk, edits, bootVars, mode, op, hook>>

-----------------------------------------------------------------------------
(* The hooks. *)

others == <<disk, edits, bootVars, phase, via>>

At(a, s) == hook[a].pc = s
Go(a, s) == hook' = [hook EXCEPT ![a].pc = s]

\* The hook raises: the session, tool or request does not go on.
Refuse(a) == hook' = [hook EXCEPT ![a] = Idle]

\* The hook returns: the call goes on.
Admit(a) ==
  hook' = [hook EXCEPT ![a].pc = "admitted", ![a].read.mode = "none",
             ![a].read.path = IF hook[a].kind = "session" THEN @ ELSE "none"]

\* Hermes calls on_session_start, pre_tool_call or pre_api_request, or discovers
\* the plugin once more.
Call(a, k) ==
  /\ At(a, "idle") \/ At(a, "admitted")
  /\ boot \in {"running", "exiting"}
  /\ hook' = [hook EXCEPT ![a] =
       [Idle EXCEPT !.pc = CASE k = "session" -> "wrapper" [] k = "register" -> "loadmode" [] OTHER -> "mode",
                    !.kind = k, !.began = phase, !.strict = (ReadMode = "strict"), !.quiet = TRUE]]
  /\ UNCHANGED <<others, mode, op>>

\* The registered wrapper of on_session_start: the configuration must load and
\* the environment passthrough, cleared by a reset, must register again.
Wrapper(a) ==
  /\ At(a, "wrapper")
  /\ \/ Readable(ReadMode) /\ Go(a, "mode")
     \/ (~Readable(ReadMode) \/ ReadMode = "strict") /\ Refuse(a)
  /\ UNCHANGED <<others, mode, op>>

\* A gate of a policy that is not strict admits at once.
ReadPolicy(a) ==
  /\ At(a, "mode")
  /\ IF hook[a].kind # "session" /\ ReadMode # "strict" THEN Admit(a)
     ELSE hook' = [hook EXCEPT ![a].read.mode = ReadMode, ![a].pc = "path"]
  /\ UNCHANGED <<others, mode, op>>

ReadDefaultPath(a) ==
  /\ At(a, "path")
  /\ IF hook[a].kind = "session" \/ disk.path # Damaged
     THEN hook' = [hook EXCEPT ![a].read.path = ReadPath, ![a].pc = "loadmode"]
     ELSE Refuse(a)
  /\ UNCHANGED <<others, mode, op>>

\* _load_runtime_config reads both files once more.
LoadMode(a) ==
  /\ At(a, "loadmode")
  /\ hook' = [hook EXCEPT ![a].loaded.mode = ReadMode, ![a].pc = "loadpath"]
  /\ UNCHANGED <<others, mode, op>>

LoadPath(a) ==
  /\ At(a, "loadpath")
  /\ IF Readable(hook[a].loaded.mode)
     THEN hook' = [hook EXCEPT ![a].loaded.path = ReadPath, ![a].pc = "assert"]
     ELSE Refuse(a)
  /\ UNCHANGED <<others, mode, op>>

\* What a hook does once the configuration is the sealed one.
Compared == [session |-> "update", tool |-> "status", request |-> "status", register |-> "reuse"]

\* Fault: only the path is compared.
AssertPathOnly(a) ==
  /\ At(a, "assert")
  /\ IF hook[a].loaded.path = seal.path
     THEN hook' = [hook EXCEPT ![a].loaded = Unset, ![a].pc = Compared[hook[a].kind]]
     ELSE Refuse(a)
  /\ UNCHANGED <<others, mode, op>>

\* assert_route_config: every field against the sealed configuration.
AssertRouteConfig(a) ==
  /\ At(a, "assert")
  /\ IF hook[a].loaded = seal
     THEN hook' = [hook EXCEPT ![a].loaded = Unset, ![a].pc = Compared[hook[a].kind]]
     ELSE Refuse(a)
  /\ UNCHANGED <<others, mode, op>>

\* The mode of the first read goes to the runtime.
UpdateMode(a) ==
  /\ At(a, "update")
  /\ mode' = hook[a].read.mode /\ Go(a, "use")
  /\ UNCHANGED <<others, op>>

\* api.use: the operation lock is taken at once or AlreadySwitching is raised,
\* which a strict session does not survive.
Use(a) ==
  /\ At(a, "use")
  /\ \/ op = Nobody /\ op' = a /\ Go(a, "check")
     \/ /\ op # Nobody /\ UNCHANGED op
        /\ IF hook[a].read.mode = "strict" THEN Refuse(a) ELSE Go(a, "flag")
  /\ UNCHANGED <<others, mode>>

\* _transition_needed of a frozen route: reuse, or PathSwitchRequiresRestart.
CheckRoute(a) ==
  /\ At(a, "check") /\ op' = Nobody
  /\ IF hook[a].read.path = seal.path /\ phase = "up" THEN Go(a, "flag") ELSE Refuse(a)
  /\ UNCHANGED <<others, mode>>

\* _validate_reusable_process_route: ready, healthy at its last probe, not dropped.
Reuse(a) ==
  /\ At(a, "reuse")
  /\ \/ phase = "up" /\ Admit(a)
     \/ (phase # "up" \/ via \in Protected) /\ Refuse(a)
  /\ UNCHANGED <<others, mode, op>>

ActivePath == IF phase \in {"up", "dropped"} THEN via ELSE "clearnet"

\* The transport gate: a provider without evidence, or a gate that cannot be
\* evaluated, is refused in strict mode on a protected path.
Flag(a) ==
  /\ At(a, "flag")
  /\ \/ Admit(a)
     \/ /\ hook[a].read.mode = "strict" /\ {ActivePath, hook[a].read.path} \cap Protected # {}
        /\ Refuse(a)
  /\ UNCHANGED <<others, mode, op>>

\* status: the configured protected path must be the active one. From here on the
\* call works with the active path.
Status(a) ==
  /\ At(a, "status")
  /\ IF hook[a].read.path \in Protected \ {ActivePath} THEN Refuse(a)
     ELSE IF ActivePath \in Protected
     THEN hook' = [hook EXCEPT ![a].read.path = ActivePath, ![a].pc = "dropped"] ELSE Admit(a)
  /\ UNCHANGED <<others, mode, op>>

\* The provider of a request over Tor is looked at as well.
Passed(a) ==
  IF hook[a].kind = "request" /\ hook[a].read.path = "tor" THEN Go(a, "flag") ELSE Admit(a)

\* Fault: the sticky flag is not asked.
IgnoreDrop(a) ==
  /\ At(a, "dropped") /\ Passed(a)
  /\ UNCHANGED <<others, mode, op>>

\* is_dropped: a separate look, under the runtime's lock again.
IsDropped(a) ==
  /\ At(a, "dropped")
  /\ IF phase = "dropped" THEN Refuse(a) ELSE Passed(a)
  /\ UNCHANGED <<others, mode, op>>

-----------------------------------------------------------------------------

Hook(a) ==
  \/ Wrapper(a) \/ ReadPolicy(a) \/ ReadDefaultPath(a) \/ LoadMode(a) \/ LoadPath(a)
  \/ AssertRouteConfig(a) \/ UpdateMode(a) \/ Use(a) \/ CheckRoute(a) \/ Flag(a)
  \/ Reuse(a) \/ Status(a) \/ IsDropped(a)

Boot ==
  \/ BootLoadMode \/ BootLoadPath \/ Activate \/ RefuseBoot \/ Publish \/ WireHooks \/ WireFails

Next ==
  \/ Edit \/ Boot \/ Exit \/ Drop
  \/ \E a \in Actor : Hook(a) \/ \E k \in DOMAIN Compared : Call(a, k)

Spec == Init /\ [][Next]_vars

-----------------------------------------------------------------------------
(* Properties. *)

Places == {"idle", "wrapper", "mode", "path", "loadmode", "loadpath", "assert", "update", "use",
           "check", "flag", "reuse", "status", "dropped", "admitted"}
Calls == [pc : Places, kind : DOMAIN Compared \cup {"none"}, read : ReadConf, loaded : ReadConf,
          began : {"open", "up", "dropped", "ended"}, strict : BOOLEAN, quiet : BOOLEAN]

\* The types; what is published is sealed.
TypeOK ==
  /\ disk \in [mode : Modes \cup {Damaged}, path : Paths \cup {Damaged}] /\ edits \in 0 .. MaxEdit
  /\ boot \in {"mode", "path", "activate", "publish", "wire", "running", "refused", "exiting"}
  /\ conf \in ReadConf /\ seal \in Conf \cup {Unset} /\ published \in BOOLEAN
  /\ phase \in {"open", "up", "dropped", "ended"} /\ via \in Paths \cup {"none"}
  /\ mode \in Modes \cup {"none"} /\ op \in Actor \cup {Nobody}
  /\ hook \in [Actor -> Calls]
  /\ published => phase # "open" /\ seal # Unset

\* Calls that were let through while the policy on disk was strict throughout.
StrictlyAdmitted == {a \in Actor : At(a, "admitted") /\ hook[a].strict}

\* While the policy on disk is strict nothing is let in over a route that was not
\* sealed by strict rules: when the policy was raised after a lenient start that
\* fell back to clearnet, sessions, tools and requests are refused until a restart.
\* A session asked for the sealed path, though a damaged file reads as clearnet.
StrictOnStrictRoute ==
  \A a \in StrictlyAdmitted :
    /\ seal.mode = "strict" /\ (phase # "ended" => via = seal.path)
    /\ hook[a].kind = "session" => hook[a].read.path = seal.path

\* A drop and an end are final under a strict policy. What begins after a drop is
\* not admitted by a process that goes on, and a second registration is refused
\* under any policy. What begins after a Tor or VPN route was stopped, and finds
\* policy and configuration as they were, does not go out in the clear.
NoWayBack ==
  \A a \in Actor : At(a, "admitted") =>
    /\ hook[a].began = "dropped" /\ (hook[a].strict \/ hook[a].kind = "register") => boot = "exiting"
    /\ hook[a].began = "ended" /\ hook[a].strict /\ hook[a].quiet => seal.path \notin Protected

-----------------------------------------------------------------------------
(* Promises of comments that the code does not keep: see the README.        *)

\* "A ready same-path call is a runtime no-op": a session start that reads the
\* sealed configuration gets past api.use while the route is up.
SamePathIsNoop ==
  [][\A a \in Actor :
       At(a, "use") /\ hook[a].read = seal /\ phase = "up" => hook'[a].pc # "idle"]_vars

\* "Compare every activation input before mutating the runtime's policy": the mode
\* the runtime holds is the one its route was sealed with.
ModeIsSealed == published => mode = seal.mode

-----------------------------------------------------------------------------
(* The inductive invariant behind StrictOnStrictRoute and NoWayBack.        *)

Hooking == {"running", "exiting"}

\* What a hook goes through once the configuration it loaded was the sealed one.
AfterCompare == {"update", "use", "check", "flag", "reuse", "status", "dropped"}

\* Registration: no hook before it is over, nothing sealed on an open route, a
\* strict seal on no other path, and an end only by one of the two exits.
BootOrder ==
  /\ boot \in {"publish", "wire"} \cup Hooking => seal # Unset /\ phase # "open"
  /\ boot \notin Hooking => \A a \in Actor : At(a, "idle")
  /\ boot \in {"mode", "path", "activate"} => phase = "open" /\ seal = Unset
  /\ boot \in {"path", "activate"} => conf.mode \in Modes
  /\ boot = "activate" => conf \in Conf
  /\ seal.mode = "strict" /\ phase # "ended" => via = seal.path
  /\ phase = "dropped" => via \in Protected
  /\ phase = "ended" => boot \in {"refused", "exiting"}

\* Where each kind of hook may be.
HookOrder ==
  \A a \in Actor :
    /\ hook[a].kind = "none" => At(a, "idle")
    /\ hook[a].kind = "session" => hook[a].pc \notin {"reuse", "status", "dropped"}
    /\ hook[a].kind \in {"tool", "request"} =>
         hook[a].pc \notin {"wrapper", "update", "use", "check", "reuse"}
    /\ hook[a].kind = "register" => hook[a].pc \in {"loadmode", "loadpath", "assert", "reuse", "admitted", "idle"}

\* While the policy on disk stays strict every read of it is strict, so what was
\* compared with the seal shows that the seal is strict.
StrictReads ==
  \A a \in Actor : hook[a].strict =>
    /\ ReadMode = "strict"
    /\ hook[a].kind # "register" /\ hook[a].pc \in {"path", "loadmode", "loadpath", "assert"} \cup AfterCompare
       => hook[a].read.mode = "strict"
    /\ hook[a].pc \in {"loadpath", "assert"} => hook[a].loaded.mode = "strict"
    /\ hook[a].pc \in AfterCompare \cup {"admitted"} => seal.mode = "strict"
    /\ hook[a].kind = "session" /\ hook[a].pc \in {"flag", "admitted"} => hook[a].read.path = seal.path

\* While no file is edited every read of the configuration gives the same path.
QuietReads ==
  \A a \in Actor : hook[a].quiet =>
    /\ hook[a].kind # "register" /\ hook[a].pc \in {"loadmode", "loadpath", "assert", "status"}
       => hook[a].read.path = ReadPath
    /\ hook[a].pc = "assert" => hook[a].loaded.path = ReadPath
    /\ hook[a].kind # "register" /\ hook[a].pc = "status" => seal.path = ReadPath

\* A route that had dropped or ended when the call began has not come back since.
NoReturn ==
  \A a \in Actor :
    /\ hook[a].began = "dropped" /\ ~At(a, "idle") => phase \in {"dropped", "ended"}
    /\ hook[a].began = "ended" /\ ~At(a, "idle") => phase = "ended"
    /\ hook[a].began \in {"dropped", "ended"} /\ hook[a].kind = "session" /\ hook[a].strict =>
         hook[a].pc \notin {"flag", "admitted"}
    /\ hook[a].began \in {"dropped", "ended"} /\ hook[a].kind = "register" => hook[a].pc # "admitted"
    /\ hook[a].began = "dropped" /\ hook[a].kind \in {"tool", "request"} /\ hook[a].pc = "flag" =>
         boot = "exiting"
    /\ hook[a].began = "ended" => hook[a].pc # "dropped"
    /\ hook[a].began = "ended" /\ hook[a].kind \in {"tool", "request"} => hook[a].pc # "flag"

SInv ==
  /\ TypeOK /\ BootOrder /\ HookOrder /\ StrictReads /\ QuietReads /\ NoReturn /\ NoWayBack
=============================================================================
