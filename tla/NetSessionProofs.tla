-------------------------- MODULE NetSessionProofs --------------------------
(***************************************************************************)
(* Proofs about NetSession, for every number of threads and of edits: SInv *)
(* is inductive, one lemma per action and one step per conjunct. A hook is *)
(* described by where it goes on and what it has read (Updates, Refused),  *)
(* so that the lemmas of the actions never look into its record.           *)
(***************************************************************************)
EXTENDS NetSession, TLAPS

\* The kinds of hooks, and where each goes on after the comparison.
LEMMA Kinds ==
  /\ DOMAIN Compared = {"session", "tool", "request", "register"}
  /\ Compared["session"] = "update" /\ Compared["register"] = "reuse"
  /\ Compared["tool"] = "status" /\ Compared["request"] = "status"
BY DEF Compared

\* What a step of a hook leaves behind: where it goes on and what it has read.
Updates(a, s, r, l) ==
  /\ hook' \in [Actor -> Calls]
  /\ hook'[a].pc = s
  /\ hook'[a].read.mode = r.mode /\ hook'[a].read.path = r.path
  /\ hook'[a].loaded.mode = l.mode /\ hook'[a].loaded.path = l.path
  /\ hook'[a].kind = hook[a].kind /\ hook'[a].began = hook[a].began
  /\ hook'[a].strict = hook[a].strict /\ hook'[a].quiet = hook[a].quiet
  /\ \A b \in Actor \ {a} : hook'[b] = hook[b]

\* The record of a call.
LEMMA CallTypes ==
  ASSUME TypeOK, NEW a \in Actor
  PROVE  /\ hook \in [Actor -> Calls] /\ hook[a] \in Calls
         /\ hook[a].read \in ReadConf /\ hook[a].loaded \in ReadConf
BY DEF TypeOK, Calls

\* A hook raises and forgets.
Refused(a) ==
  hook' \in [Actor -> Calls] /\ hook'[a] = Idle /\ \A b \in Actor \ {a} : hook'[b] = hook[b]

LEMMA ReadTypes ==
  ASSUME NEW r \in ReadConf, NEW m \in Modes \cup {"none"}, NEW p \in Paths \cup {"none"}
  PROVE  /\ [r EXCEPT !.mode = m] \in ReadConf /\ [r EXCEPT !.path = p] \in ReadConf
         /\ [[r EXCEPT !.mode = m] EXCEPT !.path = p] \in ReadConf
BY DEF ReadConf

\* A hook goes on with what it has read.
LEMMA GoesOn ==
  ASSUME TypeOK, NEW a \in Actor, NEW s \in Places, Go(a, s)
  PROVE  Updates(a, s, hook[a].read, hook[a].loaded)
BY CallTypes DEF Go, Updates, Calls, ReadConf

LEMMA Refuses ==
  ASSUME TypeOK, NEW a \in Actor, Refuse(a)
  PROVE  Refused(a)
BY CallTypes DEF Refuse, Refused, Calls, Places, Idle, ReadConf, Unset

\* A hook returns; a session keeps the path it asked for.
KeptPath(a) == IF hook[a].kind = "session" THEN hook[a].read.path ELSE "none"
Admitted(a) == Updates(a, "admitted", [mode |-> "none", path |-> KeptPath(a)], hook[a].loaded)

LEMMA Admits ==
  ASSUME TypeOK, NEW a \in Actor, Admit(a)
  PROVE  Admitted(a)
<1> DEFINE p == KeptPath(a)
<1>1. p \in Paths \cup {"none"}  BY CallTypes DEF KeptPath, ReadConf
<1>2. [[hook[a].read EXCEPT !.mode = "none"] EXCEPT !.path = p] \in ReadConf
  <2> HIDE DEF p
  <2> QED  BY <1>1, CallTypes, ReadTypes
<1>3. hook' \in [Actor -> Calls]
  BY <1>2, CallTypes DEF Admit, KeptPath, Calls, Places
<1> QED  BY <1>3, CallTypes DEF Admit, Admitted, KeptPath, Updates, Calls, ReadConf

\* The four reads of the two files, and the end of what was loaded.
LEMMA TakesMode ==
  ASSUME TypeOK, NEW a \in Actor, NEW m \in Modes \cup {"none"}, NEW s \in Places,
         hook' = [hook EXCEPT ![a].read.mode = m, ![a].pc = s]
  PROVE  Updates(a, s, [mode |-> m, path |-> hook[a].read.path], hook[a].loaded)
<1>1. [hook[a].read EXCEPT !.mode = m] \in ReadConf  BY CallTypes DEF ReadConf
<1>2. hook' \in [Actor -> Calls]  BY <1>1, CallTypes DEF Calls
<1> QED  BY <1>2, CallTypes DEF Updates, Calls, ReadConf

LEMMA TakesPath ==
  ASSUME TypeOK, NEW a \in Actor, NEW p \in Paths \cup {"none"}, NEW s \in Places,
         hook' = [hook EXCEPT ![a].read.path = p, ![a].pc = s]
  PROVE  Updates(a, s, [mode |-> hook[a].read.mode, path |-> p], hook[a].loaded)
<1>1. [hook[a].read EXCEPT !.path = p] \in ReadConf  BY CallTypes DEF ReadConf
<1>2. hook' \in [Actor -> Calls]  BY <1>1, CallTypes DEF Calls
<1> QED  BY <1>2, CallTypes DEF Updates, Calls, ReadConf

LEMMA LoadsMode ==
  ASSUME TypeOK, NEW a \in Actor, NEW m \in Modes \cup {"none"}, NEW s \in Places,
         hook' = [hook EXCEPT ![a].loaded.mode = m, ![a].pc = s]
  PROVE  Updates(a, s, hook[a].read, [mode |-> m, path |-> hook[a].loaded.path])
<1>1. [hook[a].loaded EXCEPT !.mode = m] \in ReadConf  BY CallTypes DEF ReadConf
<1>2. hook' \in [Actor -> Calls]  BY <1>1, CallTypes DEF Calls
<1> QED  BY <1>2, CallTypes DEF Updates, Calls, ReadConf

LEMMA LoadsPath ==
  ASSUME TypeOK, NEW a \in Actor, NEW p \in Paths \cup {"none"}, NEW s \in Places,
         hook' = [hook EXCEPT ![a].loaded.path = p, ![a].pc = s]
  PROVE  Updates(a, s, hook[a].read, [mode |-> hook[a].loaded.mode, path |-> p])
<1>1. [hook[a].loaded EXCEPT !.path = p] \in ReadConf  BY CallTypes DEF ReadConf
<1>2. hook' \in [Actor -> Calls]  BY <1>1, CallTypes DEF Calls
<1> QED  BY <1>2, CallTypes DEF Updates, Calls, ReadConf

LEMMA Unloads ==
  ASSUME TypeOK, NEW a \in Actor, NEW s \in Places,
         hook' = [hook EXCEPT ![a].loaded = Unset, ![a].pc = s]
  PROVE  Updates(a, s, hook[a].read, Unset)
BY CallTypes DEF Updates, Calls, ReadConf, Unset

\* An edit changes only the two ghosts of every call.
LEMMA EditForgets ==
  ASSUME TypeOK, Edit
  PROVE  /\ hook' \in [Actor -> Calls]
         /\ \A a \in Actor :
              /\ hook'[a].pc = hook[a].pc /\ hook'[a].kind = hook[a].kind
              /\ hook'[a].read = hook[a].read /\ hook'[a].loaded = hook[a].loaded
              /\ hook'[a].began = hook[a].began /\ hook'[a].quiet = FALSE
              /\ hook'[a].strict = (hook[a].strict /\ disk'.mode \in {"strict", Damaged})
<1> DEFINE after(a) == [[hook[a] EXCEPT !.quiet = FALSE]
                          EXCEPT !.strict = @ /\ disk'.mode \in {"strict", Damaged}]
<1>1. hook' = [a \in Actor |-> after(a)]  BY DEF Edit
<1>2. ASSUME NEW a \in Actor
      PROVE  /\ after(a) \in Calls
             /\ after(a).pc = hook[a].pc /\ after(a).kind = hook[a].kind
             /\ after(a).read = hook[a].read /\ after(a).loaded = hook[a].loaded
             /\ after(a).began = hook[a].began /\ after(a).quiet = FALSE
             /\ after(a).strict = (hook[a].strict /\ disk'.mode \in {"strict", Damaged})
  BY CallTypes DEF Calls
<1> HIDE DEF after
<1> QED  BY <1>1, <1>2

\* A call begins.
FirstStep(k) == IF k = "session" THEN "wrapper" ELSE IF k = "register" THEN "loadmode" ELSE "mode"

LEMMA Begins ==
  ASSUME TypeOK, NEW a \in Actor, NEW k \in {"session", "tool", "request", "register"}, Call(a, k)
  PROVE  /\ hook' \in [Actor -> Calls]
         /\ hook'[a].kind = k /\ hook'[a].began = phase /\ hook'[a].quiet = TRUE
         /\ hook'[a].strict = (ReadMode = "strict")
         /\ hook'[a].read = Unset /\ hook'[a].loaded = Unset
         /\ hook'[a].pc = FirstStep(k)
         /\ \A b \in Actor \ {a} : hook'[b] = hook[b]
<1> DEFINE c == [Idle EXCEPT
                    !.pc = CASE k = "session" -> "wrapper" [] k = "register" -> "loadmode"
                             [] OTHER -> "mode",
                    !.kind = k, !.began = phase, !.strict = (ReadMode = "strict"), !.quiet = TRUE]
<1>1. hook' = [hook EXCEPT ![a] = c]  BY DEF Call
<1>2. c \in Calls  BY Kinds DEF Calls, Places, ReadConf, Unset, TypeOK, Idle
<1>3. /\ c.kind = k /\ c.began = phase /\ c.quiet = TRUE /\ c.strict = (ReadMode = "strict")
      /\ c.read = Unset /\ c.loaded = Unset
      /\ c.pc = FirstStep(k)
  BY DEF Idle, FirstStep
<1> HIDE DEF c
<1> QED  BY <1>1, <1>2, <1>3, CallTypes

\* What was compared with the seal while the policy stayed strict.
LEMMA ComparesStrictly == ASSUME SInv, NEW a \in Actor, AssertRouteConfig(a) PROVE StrictReads'
<1>0. TypeOK BY DEF SInv
<1>1. hook[a].kind \in DOMAIN Compared
  BY <1>0, CallTypes, Kinds DEF SInv, HookOrder, AssertRouteConfig, At, Calls
<1>2. Compared[hook[a].kind] \in Places \cap AfterCompare
  BY <1>0, <1>1, Kinds DEF Places, AfterCompare
<1>3. \/ hook[a].loaded = seal /\ Updates(a, Compared[hook[a].kind], hook[a].read, Unset)
      \/ Refused(a)
  BY <1>0, <1>2, Unloads, Refuses DEF AssertRouteConfig
<1>4. /\ ReadMode' = ReadMode /\ seal' = seal
  BY DEF AssertRouteConfig, others, bootVars, ReadMode
<1>5. CASE Refused(a)
  BY <1>4, <1>5 DEF Refused, Idle, SInv, StrictReads, AfterCompare
<1>6. CASE hook[a].loaded = seal /\ Updates(a, Compared[hook[a].kind], hook[a].read, Unset)
  <2>1. hook[a].strict => /\ seal.mode = "strict" 
                          /\ hook[a].kind # "register" => hook[a].read.mode = "strict"
    BY <1>6 DEF SInv, StrictReads, AssertRouteConfig, At
  <2>2. hook'[a].pc # "flag" /\ hook'[a].pc # "admitted"
    BY <1>6, <1>1, Kinds DEF Updates
  <2>3. hook'[a].pc \in AfterCompare
    BY <1>2, <1>6 DEF Updates
  <2> QED  BY <1>4, <1>6, <2>1, <2>2, <2>3 DEF SInv, StrictReads, AfterCompare, Updates
<1> QED  BY <1>3, <1>5, <1>6

-----------------------------------------------------------------------------
(* The actions. *)

\* A file is edited: what a call has read stays as it is, but no call stays quiet.
LEMMA EditKeeps ==
  ASSUME SInv, Edit
  PROVE  SInv'
<1>0. TypeOK  BY DEF SInv
<1>1. /\ hook' \in [Actor -> Calls]
      /\ \A a \in Actor :
           /\ hook'[a].pc = hook[a].pc /\ hook'[a].kind = hook[a].kind
           /\ hook'[a].read = hook[a].read /\ hook'[a].loaded = hook[a].loaded
           /\ hook'[a].began = hook[a].began /\ hook'[a].quiet = FALSE
           /\ hook'[a].strict = (hook[a].strict /\ disk'.mode \in {"strict", Damaged})
  BY <1>0, EditForgets
<1>2. /\ boot' = boot /\ conf' = conf /\ seal' = seal /\ published' = published
      /\ phase' = phase /\ via' = via /\ mode' = mode /\ op' = op
  BY DEF Edit, bootVars
<1>3. /\ edits' \in 0 .. MaxEdit
      /\ disk' \in [mode : Modes \cup {Damaged}, path : Paths \cup {Damaged}]
  <2>1. edits < MaxEdit /\ edits' = edits + 1 /\ edits \in 0 .. MaxEdit
    BY <1>0 DEF Edit, TypeOK
  <2>2. \/ \E m \in Modes \cup {Damaged} : disk' = [disk EXCEPT !.mode = m]
        \/ \E p \in Paths \cup {Damaged} : disk' = [disk EXCEPT !.path = p]
    BY DEF Edit
  <2>3. disk \in [mode : Modes \cup {Damaged}, path : Paths \cup {Damaged}]
    BY <1>0 DEF TypeOK
  <2> QED  BY <2>1, <2>2, <2>3, EditAssumption
<1>4. ASSUME NEW a \in Actor, hook'[a].strict
      PROVE  hook[a].strict /\ ReadMode' = "strict"
  BY <1>1, <1>4 DEF ReadMode
<1>5. TypeOK'
  BY <1>0, <1>1, <1>2, <1>3 DEF TypeOK
<1>6. BootOrder' /\ HookOrder'
  BY <1>1, <1>2 DEF SInv, BootOrder, HookOrder, At
<1>7. StrictReads'
  BY <1>1, <1>2, <1>4 DEF SInv, StrictReads
<1>8. QuietReads'
  BY <1>1 DEF QuietReads
<1>9. NoReturn'
  BY <1>1, <1>2, <1>4 DEF SInv, NoReturn, At
<1>10. NoWayBack'
  BY <1>1, <1>2, <1>4 DEF SInv, NoWayBack, At
<1> QED  BY <1>5, <1>6, <1>7, <1>8, <1>9, <1>10 DEF SInv


\* Registration reads the policy.
LEMMA BootLoadModeKeeps ==
  ASSUME SInv, BootLoadMode
  PROVE  SInv'
<1>1. TypeOK'
  BY DEF SInv, TypeOK, BootLoadMode, At, Modes, Paths, Damaged, Unset, BootOrder, Hooking,
     ReadConf, Conf, Protected, ReadMode
<1>2. BootOrder'
  BY DEF SInv, TypeOK, BootLoadMode, At, BootOrder, HookOrder, Hooking, Protected, ReadMode,
     ReadPath, Damaged, Unset, Modes, Paths, Conf
<1>3. HookOrder' /\ StrictReads' /\ QuietReads' /\ NoReturn' /\ NoWayBack'
  BY DEF SInv, BootLoadMode, At, HookOrder, StrictReads, ReadMode, QuietReads, ReadPath,
     NoReturn, NoWayBack
<1> QED  BY <1>1, <1>2, <1>3 DEF SInv

\* Registration reads the path, or refuses a damaged file.
LEMMA BootLoadPathKeeps ==
  ASSUME SInv, BootLoadPath
  PROVE  SInv'
<1>1. TypeOK'
  BY DEF SInv, TypeOK, BootLoadPath, At, Modes, Paths, Damaged, Unset, BootOrder, Hooking,
     ReadConf, Conf, Protected, ReadMode, ReadPath
<1>2. BootOrder'
  BY DEF SInv, TypeOK, BootLoadPath, At, BootOrder, Hooking, ReadConf, Conf, ReadPath, Modes,
     Paths
<1>3. HookOrder' /\ StrictReads' /\ QuietReads' /\ NoReturn' /\ NoWayBack'
  BY DEF SInv, BootLoadPath, At, HookOrder, StrictReads, ReadMode, QuietReads, ReadPath,
     NoReturn, NoWayBack
<1> QED  BY <1>1, <1>2, <1>3 DEF SInv

\* The route is brought up and sealed; a strict one only on the configured path.
LEMMA ActivateKeeps ==
  ASSUME SInv, Activate
  PROVE  SInv'
<1>1. TypeOK'
  BY DEF SInv, TypeOK, Activate, Route!Seal, BootOrder, Hooking
<1>2. BootOrder'
  BY DEF SInv, Activate, At, Route!Seal, BootOrder, Protected, ReadMode, ReadPath, Damaged,
     Unset, Modes, Paths, Conf
<1>3. HookOrder' /\ NoReturn'
  BY DEF SInv, Activate, At, HookOrder, Route!Seal, NoReturn
<1>4. StrictReads'
  BY DEF SInv, Activate, Route!Seal, StrictReads, ReadMode, AfterCompare, HookOrder, BootOrder,
     Hooking, Protected, ReadPath, Unset
<1>5. QuietReads'
  BY DEF SInv, Activate, At, Route!Seal, QuietReads, ReadPath, HookOrder, BootOrder
<1>6. NoWayBack'
  BY DEF SInv, Activate, At, Route!Seal, NoWayBack, Protected, HookOrder, BootOrder
<1> QED  BY <1>1, <1>2, <1>3, <1>4, <1>5, <1>6 DEF SInv

\* The process does not start.
LEMMA RefuseBootKeeps ==
  ASSUME SInv, RefuseBoot
  PROVE  SInv'
<1>1. TypeOK'
  BY DEF SInv, TypeOK, RefuseBoot, BootOrder, Hooking
<1>2. BootOrder' /\ HookOrder' /\ StrictReads' /\ QuietReads' /\ NoReturn' /\ NoWayBack'
  BY DEF SInv, RefuseBoot, At, BootOrder, Hooking, HookOrder, StrictReads, ReadMode, QuietReads,
     ReadPath, NoReturn, NoWayBack
<1> QED  BY <1>1, <1>2 DEF SInv

\* The runtime is published.
LEMMA PublishKeeps ==
  ASSUME SInv, Publish
  PROVE  SInv'
<1>1. TypeOK'
  BY DEF SInv, TypeOK, Publish, BootOrder, Hooking
<1>2. BootOrder' /\ HookOrder' /\ StrictReads' /\ QuietReads' /\ NoReturn' /\ NoWayBack'
  BY DEF SInv, Publish, At, BootOrder, Hooking, HookOrder, StrictReads, ReadMode, QuietReads,
     ReadPath, NoReturn, NoWayBack
<1> QED  BY <1>1, <1>2 DEF SInv

\* From here on hooks run.
LEMMA WireHooksKeeps ==
  ASSUME SInv, WireHooks
  PROVE  SInv'
<1>1. TypeOK'
  BY DEF SInv, TypeOK, WireHooks, BootOrder, Hooking
<1>2. BootOrder' /\ HookOrder' /\ StrictReads' /\ QuietReads' /\ NoReturn' /\ NoWayBack'
  BY DEF SInv, WireHooks, BootOrder, Hooking, At, HookOrder, StrictReads, ReadMode, QuietReads,
     ReadPath, NoReturn, NoWayBack
<1> QED  BY <1>1, <1>2 DEF SInv

\* A hook cannot be registered: the route ends, and no hook ever runs.
LEMMA WireFailsKeeps ==
  ASSUME SInv, WireFails
  PROVE  SInv'
<1>1. TypeOK'
  BY DEF SInv, TypeOK, WireFails, bootVars, BootOrder, Hooking, Route!End
<1>2. BootOrder'
  BY DEF SInv, WireFails, At, Route!End, BootOrder, Hooking
<1>3. HookOrder' /\ StrictReads' /\ QuietReads' /\ NoReturn' /\ NoWayBack'
  BY DEF SInv, WireFails, At, HookOrder, Route!End, StrictReads, ReadMode, QuietReads, ReadPath,
     NoReturn, NoWayBack
<1> QED  BY <1>1, <1>2, <1>3 DEF SInv

\* The process exits while threads go on.
LEMMA ExitKeeps ==
  ASSUME SInv, Exit
  PROVE  SInv'
<1>1. TypeOK'
  BY DEF SInv, TypeOK, Exit, Route!End, BootOrder, Hooking
<1>2. BootOrder' /\ HookOrder' /\ StrictReads' /\ QuietReads' /\ NoReturn' /\ NoWayBack'
  BY DEF SInv, Exit, Route!End, BootOrder, Hooking, At, HookOrder, StrictReads, ReadMode,
     QuietReads, ReadPath, NoReturn, NoWayBack
<1> QED  BY <1>1, <1>2 DEF SInv

\* The worker raises the drop flag.
LEMMA DropKeeps ==
  ASSUME SInv, Drop
  PROVE  SInv'
<1>1. TypeOK'
  BY DEF SInv, TypeOK, Drop, bootVars, Route!Drop, BootOrder, Hooking
<1>2. BootOrder'
  BY DEF SInv, Drop, bootVars, At, Route!Drop, BootOrder
<1>3. HookOrder' /\ QuietReads' /\ NoReturn' /\ NoWayBack'
  BY DEF SInv, Drop, At, HookOrder, bootVars, QuietReads, ReadPath, Route!Drop, NoReturn,
     NoWayBack
<1>4. StrictReads'
  BY DEF SInv, Drop, bootVars, Route!Drop, StrictReads, ReadMode
<1> QED  BY <1>1, <1>2, <1>3, <1>4 DEF SInv

\* Hermes calls a hook: the call remembers the phase it began in.
LEMMA CallKeeps ==
  ASSUME SInv, NEW a \in Actor, NEW k \in {"session", "tool", "request", "register"}, Call(a, k)
  PROVE  SInv'
<1>0. TypeOK  BY DEF SInv
<1>1. /\ hook' \in [Actor -> Calls]
      /\ hook'[a].kind = k /\ hook'[a].began = phase /\ hook'[a].quiet = TRUE
      /\ hook'[a].strict = (ReadMode = "strict")
      /\ hook'[a].read = Unset /\ hook'[a].loaded = Unset
      /\ hook'[a].pc = FirstStep(k)
      /\ \A b \in Actor \ {a} : hook'[b] = hook[b]
  BY <1>0, Begins
<1>2. TypeOK'
  BY <1>1 DEF SInv, TypeOK, Call, others, bootVars, At, Updates, FirstStep
<1>3. BootOrder'
  BY <1>1 DEF SInv, Call, others, bootVars, At, BootOrder, Hooking
<1>4. HookOrder'
  BY <1>1 DEF SInv, Call, At, HookOrder, FirstStep
<1>5. StrictReads'
  BY <1>1, ActorAssumption, EditAssumption, Kinds DEF SInv, TypeOK, Call, others, bootVars, At,
     ReadConf, Idle, StrictReads, HookOrder, BootOrder, Hooking, AfterCompare, ReadMode,
     ReadPath, Updates, Calls, FirstStep
<1>6. QuietReads'
  BY <1>1 DEF SInv, Call, others, bootVars, At, QuietReads, ReadPath, FirstStep
<1>7. NoReturn'
  BY <1>1 DEF SInv, Call, others, bootVars, At, NoReturn, FirstStep
<1>8. NoWayBack'
  BY <1>1 DEF SInv, Call, others, bootVars, At, NoWayBack, FirstStep
<1> QED  BY <1>2, <1>3, <1>4, <1>5, <1>6, <1>7, <1>8 DEF SInv

\* The wrapper of a session start goes on or raises.
LEMMA WrapperKeeps ==
  ASSUME SInv, NEW a \in Actor, Wrapper(a)
  PROVE  SInv'
<1>0. TypeOK  BY DEF SInv
<1>1. Updates(a, "mode", hook[a].read, hook[a].loaded) \/ Refused(a)
  BY <1>0, GoesOn, Refuses DEF Wrapper, Places
<1>2. TypeOK'
  BY <1>1 DEF SInv, TypeOK, Wrapper, others, bootVars, At, Updates, Refused, Idle
<1>3. BootOrder'
  BY <1>1 DEF SInv, Wrapper, others, bootVars, At, Updates, BootOrder
<1>4. HookOrder'
  BY <1>1 DEF SInv, Wrapper, others, At, Updates, Refused, Idle, HookOrder
<1>5. StrictReads'
  BY <1>1 DEF SInv, Wrapper, others, bootVars, At, Updates, Refused, Idle, StrictReads,
     ReadMode, AfterCompare
<1>6. QuietReads'
  BY <1>1 DEF SInv, Wrapper, others, bootVars, At, Updates, Refused, Idle, QuietReads, ReadPath
<1>7. NoReturn'
  BY <1>1 DEF SInv, Wrapper, others, bootVars, At, Updates, Refused, Idle, NoReturn
<1>8. NoWayBack'
  BY <1>1 DEF SInv, Wrapper, others, bootVars, At, Updates, Refused, Idle, NoWayBack
<1> QED  BY <1>2, <1>3, <1>4, <1>5, <1>6, <1>7, <1>8 DEF SInv

\* The policy is read: a gate of a lenient one admits.
LEMMA ReadPolicyKeeps ==
  ASSUME SInv, NEW a \in Actor, ReadPolicy(a)
  PROVE  SInv'
<1>0. TypeOK  BY DEF SInv
<1>1. ReadMode \in Modes \cup {"none"}
  BY <1>0 DEF TypeOK, ReadMode, Modes, Damaged
<1>2. \/ hook[a].kind # "session" /\ ReadMode # "strict" /\ Admitted(a)
      \/ /\ hook[a].kind = "session" \/ ReadMode = "strict"
         /\ Updates(a, "path", [mode |-> ReadMode, path |-> hook[a].read.path], hook[a].loaded)
  BY <1>0, <1>1, Admits, TakesMode DEF ReadPolicy, Places
<1>3. TypeOK'
  BY <1>2 DEF SInv, TypeOK, ReadPolicy, others, bootVars, At, Updates, Admitted, KeptPath
<1>4. BootOrder'
  BY <1>2 DEF SInv, ReadPolicy, others, bootVars, At, Updates, BootOrder, Admitted, KeptPath
<1>5. HookOrder'
  BY <1>2 DEF SInv, ReadPolicy, others, At, Updates, HookOrder, Admitted, KeptPath
<1>6. StrictReads'
  BY <1>2 DEF SInv, ReadPolicy, others, bootVars, At, Updates, Refused, Idle, StrictReads,
     ReadMode, AfterCompare, Admitted, KeptPath
<1>7. QuietReads'
  BY <1>2 DEF SInv, ReadPolicy, others, bootVars, At, Updates, Refused, QuietReads, ReadPath,
     Admitted, KeptPath
<1>8. NoReturn'
  BY <1>2 DEF SInv, ReadPolicy, others, bootVars, At, Updates, Refused, NoReturn, HookOrder,
     Admitted, KeptPath
<1>9. NoWayBack'
  BY <1>2 DEF SInv, ReadPolicy, others, bootVars, At, Updates, Refused, Idle, NoWayBack,
     Protected, HookOrder, StrictReads, Admitted, KeptPath
<1> QED  BY <1>3, <1>4, <1>5, <1>6, <1>7, <1>8, <1>9 DEF SInv

\* The path is read; a gate refuses a damaged file.
LEMMA ReadDefaultPathKeeps ==
  ASSUME SInv, NEW a \in Actor, ReadDefaultPath(a)
  PROVE  SInv'
<1>0. TypeOK  BY DEF SInv
<1>1. ReadPath \in Paths \cup {"none"}
  BY <1>0 DEF TypeOK, ReadPath, Paths, Damaged
<1>2. \/ Updates(a, "loadmode", [mode |-> hook[a].read.mode, path |-> ReadPath], hook[a].loaded)
      \/ Refused(a)
  BY <1>0, <1>1, TakesPath, Refuses DEF ReadDefaultPath, Places
<1>3. TypeOK'
  BY <1>2 DEF SInv, TypeOK, ReadDefaultPath, others, bootVars, At, Updates, Refused, Idle
<1>4. BootOrder'
  BY <1>2 DEF SInv, ReadDefaultPath, others, bootVars, At, Updates, BootOrder
<1>5. HookOrder'
  BY <1>2 DEF SInv, ReadDefaultPath, others, At, Updates, Refused, Idle, HookOrder
<1>6. StrictReads'
  BY <1>2 DEF SInv, ReadDefaultPath, others, bootVars, At, Updates, Refused, Idle, StrictReads,
     ReadMode, AfterCompare
<1>7. QuietReads'
  BY <1>2 DEF SInv, ReadDefaultPath, others, bootVars, At, Updates, Refused, Idle, QuietReads,
     ReadPath
<1>8. NoReturn'
  BY <1>2 DEF SInv, ReadDefaultPath, others, bootVars, At, Updates, Refused, Idle, NoReturn
<1>9. NoWayBack'
  BY <1>2 DEF SInv, ReadDefaultPath, others, bootVars, At, Updates, Refused, Idle, NoWayBack
<1> QED  BY <1>3, <1>4, <1>5, <1>6, <1>7, <1>8, <1>9 DEF SInv

\* The policy is read once more.
LEMMA LoadModeKeeps ==
  ASSUME SInv, NEW a \in Actor, LoadMode(a)
  PROVE  SInv'
<1>0. TypeOK  BY DEF SInv
<1>1. ReadMode \in Modes \cup {"none"}
  BY <1>0 DEF TypeOK, ReadMode, Modes, Damaged
<1>2. Updates(a, "loadpath", hook[a].read, [mode |-> ReadMode, path |-> hook[a].loaded.path])
  BY <1>0, <1>1, LoadsMode DEF LoadMode, Places
<1>3. TypeOK'
  BY <1>2 DEF SInv, TypeOK, LoadMode, others, bootVars, At, Updates
<1>4. BootOrder'
  BY <1>2 DEF SInv, LoadMode, others, bootVars, At, Updates, BootOrder
<1>5. HookOrder'
  BY <1>2 DEF SInv, LoadMode, others, At, Updates, HookOrder
<1>6. StrictReads'
  BY <1>2 DEF SInv, LoadMode, others, bootVars, At, Updates, Refused, Idle, StrictReads,
     ReadMode, AfterCompare
<1>7. QuietReads'
  BY <1>2 DEF SInv, LoadMode, others, bootVars, At, Updates, Refused, QuietReads, ReadPath
<1>8. NoReturn'
  BY <1>2 DEF SInv, LoadMode, others, bootVars, At, Updates, NoReturn
<1>9. NoWayBack'
  BY <1>2 DEF SInv, LoadMode, others, bootVars, At, Updates, Refused, NoWayBack
<1> QED  BY <1>3, <1>4, <1>5, <1>6, <1>7, <1>8, <1>9 DEF SInv

\* The path is read once more.
LEMMA LoadPathKeeps ==
  ASSUME SInv, NEW a \in Actor, LoadPath(a)
  PROVE  SInv'
<1>0. TypeOK  BY DEF SInv
<1>1. ReadPath \in Paths \cup {"none"}
  BY <1>0 DEF TypeOK, ReadPath, Paths, Damaged
<1>2. \/ Updates(a, "assert", hook[a].read, [mode |-> hook[a].loaded.mode, path |-> ReadPath])
      \/ Refused(a)
  BY <1>0, <1>1, LoadsPath, Refuses DEF LoadPath, Places
<1>3. TypeOK'
  BY <1>2 DEF SInv, TypeOK, LoadPath, others, bootVars, At, Updates, Refused, Idle
<1>4. BootOrder'
  BY <1>2 DEF SInv, LoadPath, others, bootVars, At, Updates, BootOrder
<1>5. HookOrder'
  BY <1>2 DEF SInv, LoadPath, others, At, Updates, Refused, Idle, HookOrder
<1>6. StrictReads'
  BY <1>2 DEF SInv, LoadPath, others, bootVars, At, Updates, Refused, Idle, StrictReads,
     ReadMode, AfterCompare
<1>7. QuietReads'
  BY <1>2 DEF SInv, LoadPath, others, bootVars, At, Updates, Refused, Idle, QuietReads, ReadPath
<1>8. NoReturn'
  BY <1>2 DEF SInv, LoadPath, others, bootVars, At, Updates, Refused, Idle, NoReturn
<1>9. NoWayBack'
  BY <1>2 DEF SInv, LoadPath, others, bootVars, At, Updates, Refused, Idle, NoWayBack
<1> QED  BY <1>3, <1>4, <1>5, <1>6, <1>7, <1>8, <1>9 DEF SInv

\* What was loaded is compared with the seal.
LEMMA AssertRouteConfigKeeps ==
  ASSUME SInv, NEW a \in Actor, AssertRouteConfig(a)
  PROVE  SInv'
<1>0. TypeOK  BY DEF SInv
<1>1. hook[a].kind \in DOMAIN Compared
  BY <1>0, CallTypes, Kinds DEF SInv, HookOrder, AssertRouteConfig, At, Calls
<1>2. Compared[hook[a].kind] \in Places
  BY <1>0, <1>1, Kinds DEF Places
<1>3. \/ hook[a].loaded = seal /\ Updates(a, Compared[hook[a].kind], hook[a].read, Unset)
      \/ Refused(a)
  BY <1>0, <1>2, Unloads, Refuses DEF AssertRouteConfig
<1>4. TypeOK'
  BY <1>3 DEF SInv, TypeOK, AssertRouteConfig, others, bootVars, At, Updates, Refused, Idle
<1>5. BootOrder'
  BY <1>3 DEF SInv, AssertRouteConfig, others, bootVars, At, Updates, BootOrder
<1>6. HookOrder'
  BY <1>3, Kinds DEF SInv, AssertRouteConfig, others, At, Updates, Refused, Idle, HookOrder
<1>7. StrictReads'
  BY ComparesStrictly
<1>8. QuietReads'
  BY <1>3, <1>1, Kinds DEF SInv, AssertRouteConfig, others, bootVars, At, QuietReads, ReadPath,
     Updates, Refused, Idle
<1>9. NoReturn'
  BY <1>3, <1>1, Kinds DEF SInv, AssertRouteConfig, others, bootVars, At, NoReturn, Updates,
     Refused, Idle
<1>10. NoWayBack'
  BY <1>3, <1>1, Kinds DEF SInv, AssertRouteConfig, others, bootVars, At, NoWayBack, Updates,
     Refused, Idle
<1> QED  BY <1>4, <1>5, <1>6, <1>7, <1>8, <1>9, <1>10 DEF SInv

\* The runtime takes the mode of the first read.
LEMMA UpdateModeKeeps ==
  ASSUME SInv, NEW a \in Actor, UpdateMode(a)
  PROVE  SInv'
<1>0. TypeOK  BY DEF SInv
<1>1. Updates(a, "use", hook[a].read, hook[a].loaded)
  BY <1>0, GoesOn DEF UpdateMode, Places
<1>2. TypeOK'
  BY <1>1, <1>0, CallTypes DEF SInv, TypeOK, UpdateMode, others, bootVars, Updates, ReadConf
<1>3. BootOrder'
  BY <1>1 DEF SInv, UpdateMode, others, bootVars, At, Updates, BootOrder
<1>4. HookOrder'
  BY <1>1 DEF SInv, UpdateMode, others, At, Updates, HookOrder
<1>5. StrictReads'
  BY <1>1 DEF SInv, UpdateMode, others, bootVars, At, Updates, Refused, Idle, StrictReads,
     ReadMode, AfterCompare
<1>6. QuietReads'
  BY <1>1 DEF SInv, UpdateMode, others, bootVars, At, Updates, Refused, QuietReads, ReadPath
<1>7. NoReturn'
  BY <1>1 DEF SInv, UpdateMode, others, bootVars, At, Updates, NoReturn
<1>8. NoWayBack'
  BY <1>1 DEF SInv, UpdateMode, others, bootVars, At, Updates, Refused, NoWayBack
<1> QED  BY <1>2, <1>3, <1>4, <1>5, <1>6, <1>7, <1>8 DEF SInv

\* The operation lock, or AlreadySwitching.
LEMMA UseKeeps ==
  ASSUME SInv, NEW a \in Actor, Use(a)
  PROVE  SInv'
<1>0. TypeOK  BY DEF SInv
<1>1. \/ op' = a /\ Updates(a, "check", hook[a].read, hook[a].loaded)
      \/ op' = op /\ hook[a].read.mode # "strict" /\ Updates(a, "flag", hook[a].read, hook[a].loaded)
      \/ op' = op /\ Refused(a)
  BY <1>0, GoesOn, Refuses DEF Use, Places
<1>2. TypeOK'
  BY <1>1 DEF SInv, TypeOK, Use, others, bootVars, At, Updates, Refused, Idle
<1>3. BootOrder'
  BY <1>1 DEF SInv, Use, others, bootVars, At, Updates, BootOrder
<1>4. HookOrder'
  BY <1>1 DEF SInv, Use, others, At, Updates, Refused, Idle, HookOrder
<1>5. StrictReads'
  BY <1>1 DEF SInv, Use, others, bootVars, At, Updates, Refused, Idle, StrictReads, ReadMode,
     AfterCompare
<1>6. QuietReads'
  BY <1>1 DEF SInv, Use, others, bootVars, At, Updates, Refused, Idle, QuietReads, ReadPath
<1>7. NoReturn'
  BY <1>1 DEF SInv, Use, others, bootVars, At, Updates, Refused, Idle, NoReturn, HookOrder,
     StrictReads, AfterCompare
<1>8. NoWayBack'
  BY <1>1 DEF SInv, Use, others, bootVars, At, Updates, Refused, Idle, NoWayBack
<1> QED  BY <1>2, <1>3, <1>4, <1>5, <1>6, <1>7, <1>8 DEF SInv

\* The sealed path, up, or a refusal.
LEMMA CheckRouteKeeps ==
  ASSUME SInv, NEW a \in Actor, CheckRoute(a)
  PROVE  SInv'
<1>0. TypeOK  BY DEF SInv
<1>1. \/ hook[a].read.path = seal.path /\ phase = "up" /\ Updates(a, "flag", hook[a].read, hook[a].loaded)
      \/ Refused(a)
  BY <1>0, GoesOn, Refuses DEF CheckRoute, Places
<1>2. TypeOK'
  BY <1>1 DEF SInv, TypeOK, CheckRoute, others, bootVars, At, Updates, Refused, Idle
<1>3. BootOrder'
  BY <1>1 DEF SInv, CheckRoute, others, bootVars, At, Updates, BootOrder
<1>4. HookOrder'
  BY <1>1 DEF SInv, CheckRoute, others, At, Updates, Refused, Idle, HookOrder
<1>5. StrictReads'
  BY <1>1 DEF SInv, CheckRoute, others, bootVars, At, Updates, Refused, Idle, StrictReads,
     ReadMode, AfterCompare
<1>6. QuietReads'
  BY <1>1 DEF SInv, CheckRoute, others, bootVars, At, Updates, Refused, Idle, QuietReads,
     ReadPath
<1>7. NoReturn'
  BY <1>1 DEF SInv, CheckRoute, others, bootVars, At, Updates, Refused, Idle, NoReturn
<1>8. NoWayBack'
  BY <1>1 DEF SInv, CheckRoute, others, bootVars, At, Updates, Refused, Idle, NoWayBack
<1> QED  BY <1>2, <1>3, <1>4, <1>5, <1>6, <1>7, <1>8 DEF SInv

\* A second registration is admitted on a route that is up.
LEMMA ReuseKeeps ==
  ASSUME SInv, NEW a \in Actor, Reuse(a)
  PROVE  SInv'
<1>0. TypeOK  BY DEF SInv
<1>1. \/ phase = "up" /\ Admitted(a)
      \/ Refused(a)
  BY <1>0, Admits, Refuses DEF Reuse
<1>2. TypeOK'
  BY <1>1 DEF SInv, TypeOK, Reuse, others, bootVars, At, Updates, Refused, Idle, Admitted,
     KeptPath
<1>3. BootOrder'
  BY <1>1 DEF SInv, Reuse, others, bootVars, At, Updates, BootOrder, Admitted, KeptPath
<1>4. HookOrder'
  BY <1>1 DEF SInv, Reuse, others, At, Updates, Refused, Idle, HookOrder, Admitted, KeptPath
<1>5. StrictReads'
  BY <1>1 DEF SInv, Reuse, others, bootVars, At, Updates, Refused, Idle, StrictReads, ReadMode,
     AfterCompare, HookOrder, Admitted, KeptPath
<1>6. QuietReads'
  BY <1>1 DEF SInv, Reuse, others, bootVars, At, Updates, Refused, Idle, QuietReads, ReadPath,
     Admitted, KeptPath
<1>7. NoReturn'
  BY <1>1 DEF SInv, Reuse, others, bootVars, At, Updates, Refused, Idle, NoReturn, Admitted,
     KeptPath
<1>8. NoWayBack'
  BY <1>1 DEF SInv, Reuse, others, bootVars, At, Updates, Refused, Idle, NoWayBack, Protected,
     HookOrder, QuietReads, NoReturn, Admitted, KeptPath
<1> QED  BY <1>2, <1>3, <1>4, <1>5, <1>6, <1>7, <1>8 DEF SInv

\* The transport gate.
LEMMA FlagKeeps ==
  ASSUME SInv, NEW a \in Actor, Flag(a)
  PROVE  SInv'
<1>0. TypeOK  BY DEF SInv
<1>1. \/ Admitted(a)
      \/ Refused(a)
  BY <1>0, Admits, Refuses DEF Flag
<1>2. TypeOK'
  BY <1>1 DEF SInv, TypeOK, Flag, others, bootVars, At, ActivePath, Updates, Refused, Idle,
     Admitted, KeptPath
<1>3. BootOrder'
  BY <1>1 DEF SInv, Flag, others, bootVars, At, ActivePath, Updates, BootOrder, Admitted,
     KeptPath
<1>4. HookOrder'
  BY <1>1 DEF SInv, Flag, others, At, ActivePath, Updates, Refused, Idle, HookOrder, Admitted,
     KeptPath
<1>5. StrictReads'
  BY <1>1 DEF SInv, Flag, others, bootVars, At, ActivePath, Updates, Refused, Idle, StrictReads,
     ReadMode, AfterCompare, Admitted, KeptPath
<1>6. QuietReads'
  BY <1>1 DEF SInv, Flag, others, bootVars, At, ActivePath, Updates, Refused, Idle, QuietReads,
     ReadPath, Admitted, KeptPath
<1>7. NoReturn'
  BY <1>1 DEF SInv, Flag, others, bootVars, At, ActivePath, Updates, Refused, Idle, NoReturn,
     HookOrder, Admitted, KeptPath
<1>8. NoWayBack'
  BY <1>1, ActorAssumption, EditAssumption, Kinds DEF SInv, TypeOK, Flag, others, bootVars, At,
     ActivePath, ReadConf, Idle, NoWayBack, NoReturn, HookOrder, BootOrder, QuietReads,
     StrictReads, AfterCompare, Hooking, ReadPath, ReadMode, Protected, Updates, Refused, Calls,
     Admitted, KeptPath
<1> QED  BY <1>2, <1>3, <1>4, <1>5, <1>6, <1>7, <1>8 DEF SInv

\* The active path must be the configured protected one.
LEMMA StatusKeeps ==
  ASSUME SInv, NEW a \in Actor, Status(a)
  PROVE  SInv'
<1>0. TypeOK  BY DEF SInv
<1>1. ActivePath \in Paths \cup {"none"}
  BY <1>0 DEF TypeOK, ActivePath, Paths
<1>2. \/ Refused(a)
      \/ /\ ActivePath \in Protected
         /\ Updates(a, "dropped", [mode |-> hook[a].read.mode, path |-> ActivePath], hook[a].loaded)
      \/ ActivePath \notin Protected /\ hook[a].read.path \notin Protected /\ Admitted(a)
  BY <1>0, <1>1, Admits, Refuses, TakesPath DEF Status, Places
<1>3. TypeOK'
  BY <1>2 DEF SInv, TypeOK, Status, others, bootVars, At, ActivePath, Updates, Refused, Idle,
     Admitted, KeptPath
<1>4. BootOrder'
  BY <1>2 DEF SInv, Status, others, bootVars, At, ActivePath, Updates, BootOrder, Admitted,
     KeptPath
<1>5. HookOrder'
  BY <1>2 DEF SInv, Status, others, At, ActivePath, Updates, Refused, Idle, HookOrder, Admitted,
     KeptPath
<1>6. StrictReads'
  BY <1>2 DEF SInv, Status, others, bootVars, At, ActivePath, Updates, Refused, Idle,
     StrictReads, ReadMode, AfterCompare, HookOrder, Admitted, KeptPath
<1>7. QuietReads'
  BY <1>2 DEF SInv, Status, others, bootVars, At, ActivePath, Updates, Refused, Idle,
     QuietReads, ReadPath, Admitted, KeptPath
<1>8. NoReturn'
  BY <1>2 DEF SInv, Status, others, bootVars, At, ActivePath, Updates, Refused, Idle, NoReturn,
     HookOrder, Protected, ReadMode, ReadPath, Admitted, KeptPath
<1>9. NoWayBack'
  BY <1>2 DEF SInv, Status, others, bootVars, At, Updates, Refused, Idle, NoWayBack, NoReturn,
     HookOrder, BootOrder, QuietReads, Hooking, ActivePath, Admitted, KeptPath
<1> QED  BY <1>3, <1>4, <1>5, <1>6, <1>7, <1>8, <1>9 DEF SInv

\* The separate look at the drop flag.
LEMMA IsDroppedKeeps ==
  ASSUME SInv, NEW a \in Actor, IsDropped(a)
  PROVE  SInv'
<1>0. TypeOK  BY DEF SInv
<1>1. \/ Refused(a)
      \/ phase # "dropped" /\ hook[a].kind = "request" /\ Updates(a, "flag", hook[a].read, hook[a].loaded)
      \/ phase # "dropped" /\ Admitted(a)
  BY <1>0, Admits, Refuses, GoesOn DEF IsDropped, Passed, Places
<1>2. TypeOK'
  BY <1>1 DEF SInv, TypeOK, IsDropped, others, bootVars, At, Updates, Refused, Idle, Admitted,
     KeptPath
<1>3. BootOrder'
  BY <1>1 DEF SInv, IsDropped, others, bootVars, At, Updates, BootOrder, Admitted, KeptPath
<1>4. HookOrder'
  BY <1>1 DEF SInv, IsDropped, others, At, Updates, Refused, Idle, HookOrder, Admitted, KeptPath
<1>5. StrictReads'
  BY <1>1 DEF SInv, IsDropped, others, bootVars, At, Updates, Refused, Idle, StrictReads,
     ReadMode, AfterCompare, HookOrder, Admitted, KeptPath
<1>6. QuietReads'
  BY <1>1 DEF SInv, IsDropped, others, bootVars, At, Updates, Refused, Idle, QuietReads,
     ReadPath, Admitted, KeptPath
<1>7. NoReturn'
  BY <1>1 DEF SInv, IsDropped, others, bootVars, At, Updates, Refused, Idle, NoReturn,
     HookOrder, BootOrder, Hooking, Admitted, KeptPath
<1>8. NoWayBack'
  BY <1>1 DEF SInv, TypeOK, IsDropped, others, bootVars, At, Updates, Refused, Idle, NoWayBack,
     Protected, HookOrder, BootOrder, Hooking, StrictReads, NoReturn, Admitted, KeptPath
<1> QED  BY <1>2, <1>3, <1>4, <1>5, <1>6, <1>7, <1>8 DEF SInv

-----------------------------------------------------------------------------
(* The theorems. *)

\* Before registration no call is there.
LEMMA InitSInv == Init => SInv
<1> SUFFICES ASSUME Init PROVE SInv
  OBVIOUS
<1>1. Idle \in Calls
  BY DEF Idle, Calls, Places, ReadConf, Unset
<1>2. TypeOK
  <2>1. disk \in [mode : Modes \cup {Damaged}, path : Paths \cup {Damaged}]
    BY DEF Init
  <2>2. edits \in 0 .. MaxEdit
    BY EditAssumption DEF Init
  <2>3. conf \in ReadConf /\ phase = "open" /\ via = "none"
    BY DEF Init, ReadConf, Unset, Route!Init
  <2> QED  BY <1>1, <2>1, <2>2, <2>3 DEF Init, TypeOK
<1>3. BootOrder /\ HookOrder
  BY DEF Init, Route!Init, BootOrder, HookOrder, Hooking, At, Idle, Unset
<1>4. StrictReads /\ QuietReads /\ NoReturn /\ NoWayBack
  BY DEF Init, StrictReads, QuietReads, NoReturn, NoWayBack, At, Idle
<1> QED  BY <1>2, <1>3, <1>4 DEF SInv

LEMMA NextKeeps == SInv /\ [Next]_vars => SInv'
<1> SUFFICES ASSUME SInv, [Next]_vars PROVE SInv'
  OBVIOUS
<1>1. CASE UNCHANGED vars
  BY <1>1 DEF vars, bootVars, SInv, TypeOK, BootOrder, HookOrder, StrictReads, QuietReads, NoReturn,
     NoWayBack, At, ReadMode, ReadPath
<1>2. CASE Edit \/ Exit \/ Drop
  BY <1>2, EditKeeps, ExitKeeps, DropKeeps
<1>3. CASE Boot
  BY <1>3, BootLoadModeKeeps, BootLoadPathKeeps, ActivateKeeps, RefuseBootKeeps, PublishKeeps,
     WireHooksKeeps, WireFailsKeeps DEF Boot
<1>4. ASSUME NEW a \in Actor, Hook(a) PROVE SInv'
  BY <1>4, WrapperKeeps, ReadPolicyKeeps, ReadDefaultPathKeeps, LoadModeKeeps, LoadPathKeeps,
     AssertRouteConfigKeeps, UpdateModeKeeps, UseKeeps, CheckRouteKeeps, FlagKeeps, ReuseKeeps,
     StatusKeeps, IsDroppedKeeps DEF Hook
<1>5. ASSUME NEW a \in Actor, NEW k \in DOMAIN Compared, Call(a, k) PROVE SInv'
  BY <1>5, CallKeeps, Kinds
<1> QED  BY <1>1, <1>2, <1>3, <1>4, <1>5 DEF Next

\* The types, the order of registration and of the hooks, and what their reads show.
THEOREM SessionInvariant == Spec => []SInv
BY InitSInv, NextKeeps, PTL DEF Spec

\* While the policy on disk is strict nothing is let in over a route that was not
\* sealed by strict rules (network/hooks.py: on_session_start, the gates, and the
\* second registration), whatever the user edits between two of its reads: what was
\* compared with the seal was itself read as strict.
THEOREM SessionStrict == Spec => []StrictOnStrictRoute
<1>1. SInv => StrictOnStrictRoute
  BY DEF SInv, BootOrder, HookOrder, StrictReads, StrictOnStrictRoute, StrictlyAdmitted, At,
     AfterCompare
<1> QED  BY <1>1, SessionInvariant, PTL

\* A drop and an end are final: a call that began after one is not let through by a
\* process that goes on (is_dropped, use on a frozen route, the reuse of a
\* registration), however its steps interleave with the worker, an exit and edits.
THEOREM SessionNoWayBack == Spec => []NoWayBack
<1>1. SInv => NoWayBack
  BY DEF SInv
<1> QED  BY <1>1, SessionInvariant, PTL

=============================================================================
