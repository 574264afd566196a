---------------------------- MODULE PairingProofs ----------------------------
(***************************************************************************)
(* ReportsHold, SingleUse, PrincipalProven and NoReplay for any number of  *)
(* codes, credentials and commands.                                        *)
(*                                                                         *)
(* A code commits from a claim that is still unended, and a claim is made  *)
(* once: a code that has committed is neither deriving nor unclaimed.  A   *)
(* code reported failed can no longer commit, since its entry has an       *)
(* outcome, which nothing takes back, or is gone, and no code is generated *)
(* twice.                                                                  *)
(*                                                                         *)
(* An authentication ends with the fingerprint it began with, and a        *)
(* fingerprint does not come back: pairings and credentials are numbered   *)
(* upwards. A command that was released is in the evidence with its age.   *)
(***************************************************************************)
EXTENDS Pairing, FiniteSetTheorems, TLAPS

Entry == [used : BOOLEAN, result : {"none", "paired", "failed"}]

\* The parts of the inductive invariant.
FileTypes ==
  /\ DOMAIN pending \subseteq Code /\ pending \in [DOMAIN pending -> Entry]
  /\ state = [x \in {"pairing", "code", "keyed", "seen"} |-> state[x]]
  /\ state.code \in Code \cup {Nobody}
ShakeTypes == shake \in [Code -> {"none", "derive", "mark"}] /\ cli \in [Code -> Reports]
Issued == \A c \in DOMAIN pending \cup committed : cli[c] # "none"
Spent == \A c \in committed : shake[c] # "derive" /\ (c \in DOMAIN pending => pending[c].used)
Credited ==
  /\ state.code # Nobody => state.code \in committed
  /\ committed \subseteq Code
  /\ \A c \in DOMAIN pending : pending[c].result = "paired" => c \in committed
Told ==
  \A c \in Code :
    /\ cli[c] = "paired" => c \in committed
    /\ cli[c] = "failed" => state.code # c /\ (c \in DOMAIN pending => pending[c].result # "none")

IInv == FileTypes /\ ShakeTypes /\ Issued /\ Spent /\ Credited /\ Told

-----------------------------------------------------------------------------
LEMMA InitIInv == Init => IInv
<1> SUFFICES ASSUME Init PROVE IInv
  OBVIOUS
<1>1. DOMAIN pending = {} /\ pending \in [{} -> Entry]
  BY DEF Init
<1>2. state = [x \in {"pairing", "code", "keyed", "seen"} |-> state[x]] /\ state.code = Nobody
  BY DEF Init, NoState
<1>3. ShakeTypes /\ committed = {} /\ \A c \in Code : cli[c] = "none"
  BY DEF Init, ShakeTypes, Reports
<1> QED
  BY <1>1, <1>2, <1>3 DEF IInv, FileTypes, Issued, Spent, Credited, Told

\* One entry of pending.json is annotated, or none.
LEMMA AnnotatedEntry ==
  ASSUME FileTypes, NEW c \in Code, NEW r \in {"paired", "failed"}
  PROVE  /\ DOMAIN Annotated(c, r) = DOMAIN pending
         /\ Annotated(c, r) \in [DOMAIN pending -> Entry]
         /\ \A d \in DOMAIN pending : /\ Annotated(c, r)[d].used = pending[d].used
                                      /\ d # c => Annotated(c, r)[d] = pending[d]
                                      /\ d = c => Annotated(c, r)[d].result = r
  BY DEF FileTypes, Annotated, Entry

\* The files as _write_pairing_locked leaves them.
LEMMA PairedState ==
  ASSUME FileTypes, NEW c \in Code
  PROVE  /\ Paired(c) = [x \in {"pairing", "code", "keyed", "seen"} |-> Paired(c)[x]]
         /\ Paired(c).code = c
<1> DEFINE fields == {"pairing", "code", "keyed", "seen"}
           n == Cardinality(committed \cup {c})
<1>1. Paired(c) = [state EXCEPT !.pairing = n, !.code = c]
  BY DEF Paired
<1>2. state = [x \in fields |-> state[x]]
  BY DEF FileTypes
<1> HIDE DEF n
<1> QED
  BY <1>1, <1>2

LEMMA StepIInv == IInv /\ [Next]_vars => IInv'
<1> SUFFICES ASSUME IInv, [Next]_vars PROVE IInv'
  OBVIOUS
<1> USE NobodyAssumption
        DEF IInv, FileTypes, ShakeTypes, Issued, Spent, Credited, Told, Reports, files
<1>1. CASE UNCHANGED vars
  BY <1>1 DEF vars
<1>2. ASSUME NEW c \in Code, Generate(c) PROVE IInv'
  BY <1>2 DEF Generate, Entry
<1>3. ASSUME NEW c \in Code, Poll(c) PROVE IInv'
  BY <1>3 DEF Poll, Report, Outcome, Entry
<1>4. ASSUME NEW c \in Code, Withdraw(c) PROVE IInv'
  <2>1. CASE UNCHANGED pending
    BY <1>4, <2>1 DEF Withdraw, Revocable
  <2>2. CASE /\ Revocable(c) /\ cli' = [cli EXCEPT ![c] = "failed"]
             /\ pending' = [pending EXCEPT ![c] = [used |-> TRUE, result |-> "failed"]]
    <3>1. [used |-> TRUE, result |-> "failed"] \in Entry
      BY DEF Entry
    <3>2. /\ DOMAIN pending' = DOMAIN pending /\ pending' \in [DOMAIN pending -> Entry]
          /\ \A d \in DOMAIN pending :
               pending'[d] = IF d = c THEN [used |-> TRUE, result |-> "failed"] ELSE pending[d]
      BY <2>2, <3>1
    <3>3. UNCHANGED <<state, shake, committed>> /\ state.code # c /\ c \in DOMAIN pending
      BY <1>4, <2>2 DEF Withdraw, Revocable, Unended
    <3> QED
      BY <2>2, <3>2, <3>3
  <2> QED
    BY <1>4, <2>1, <2>2 DEF Withdraw
<1>5. ASSUME NEW c \in Code, Observe(c) PROVE IInv'
  BY <1>5 DEF Observe, Report, Outcome, Entry
<1>6. ASSUME NEW c \in Code, PairInit(c) PROVE IInv'
  <2>1. c \in DOMAIN pending /\ ~pending[c].used /\ c \notin committed
    BY <1>6 DEF PairInit, Claimable
  <2>2. /\ DOMAIN pending' = DOMAIN pending /\ pending' \in [DOMAIN pending -> Entry]
        /\ \A d \in DOMAIN pending : /\ pending'[d].result = pending[d].result
                                     /\ d # c => pending'[d] = pending[d]
    <3>1. [pending[c] EXCEPT !.used = TRUE] \in Entry
      BY <2>1 DEF Entry
    <3>2. [pending[c] EXCEPT !.used = TRUE].result = pending[c].result
      BY <2>1 DEF Entry
    <3>3. pending' = [pending EXCEPT ![c] = [pending[c] EXCEPT !.used = TRUE]]
      BY <1>6 DEF PairInit
    <3> QED
      BY <2>1, <3>1, <3>2, <3>3
  <2>3. UNCHANGED <<state, cli, committed>> /\ shake' = [shake EXCEPT ![c] = "derive"]
    BY <1>6 DEF PairInit
  <2> QED
    BY <2>1, <2>2, <2>3
<1>7. ASSUME NEW c \in Code, Commit(c) PROVE IInv'
  <2>1. /\ DOMAIN pending' = DOMAIN pending /\ pending' \in [DOMAIN pending -> Entry]
        /\ \A d \in DOMAIN pending : /\ pending'[d].used = pending[d].used
                                     /\ d # c => pending'[d] = pending[d]
                                     /\ pending'[d].result = pending[d].result
                                          \/ (d = c /\ pending'[d].result = "paired")
    BY <1>7, AnnotatedEntry DEF Commit
  <2>2. state'.code = c /\ state' = [x \in {"pairing", "code", "keyed", "seen"} |-> state'[x]]
    BY <1>7, PairedState DEF Commit
  <2>3. UNCHANGED cli /\ shake' = [shake EXCEPT ![c] = "none"] /\ committed' = committed \cup {c}
    BY <1>7 DEF Commit
  <2>4. c \in DOMAIN pending /\ pending[c].used /\ pending[c].result = "none"
    BY <1>7 DEF Commit, Admissible, Unended
  <2>5. cli[c] # "none" /\ cli[c] # "failed"
    BY <2>4
  <2>6. (FileTypes /\ ShakeTypes)'
    BY <2>1, <2>2, <2>3
  <2>7. (Issued /\ Spent)'
    BY <2>1, <2>3, <2>4, <2>5
  <2>8. (Credited /\ Told)'
    BY <2>1, <2>2, <2>3, <2>5
  <2> QED
    BY <2>6, <2>7, <2>8
<1>8. ASSUME NEW c \in Code, CommitUnsure(c) PROVE IInv'
  BY <1>8, PairedState DEF CommitUnsure, Admissible, Unended
<1>9. ASSUME NEW c \in Code, Reject(c) PROVE IInv'
  BY <1>9 DEF Reject
<1>10. ASSUME NEW c \in Code, Mark(c) PROVE IInv'
  <2>1. /\ DOMAIN pending' = DOMAIN pending /\ pending' \in [DOMAIN pending -> Entry]
        /\ \A d \in DOMAIN pending : /\ pending'[d].used = pending[d].used
                                     /\ pending'[d].result \in {pending[d].result, "failed"}
    BY <1>10, AnnotatedEntry DEF Mark
  <2>2. UNCHANGED <<state, cli, committed>> /\ shake' = [shake EXCEPT ![c] = "none"]
    BY <1>10 DEF Mark
  <2> QED
    BY <2>1, <2>2
<1>11. ASSUME Session PROVE IInv'
  <2>1. CASE KeySet
    BY <2>1 DEF KeySet
  <2>2. CASE Register
    BY <2>2 DEF Register
  <2> QED
    BY <1>11, <2>1, <2>2
    DEF Session, Auth, AuthNeed, AuthAssert, AuthEnd, Refuse, SignRequest, SignPrompt, SignApprove, Write,
        Unwritten
<1>12. ASSUME NEW k \in Command, Claim(k) PROVE IInv'
  BY <1>12 DEF Claim
<1>13. CASE Tick
  BY <1>13 DEF Tick
<1>14. CASE Clear
  BY <1>14 DEF Clear, NoState
<1>15. CASE Crash
  BY <1>15 DEF Crash
<1> QED
  BY <1>1, <1>2, <1>3, <1>4, <1>5, <1>6, <1>7, <1>8, <1>9, <1>10, <1>11, <1>12, <1>13, <1>14, <1>15
  DEF Next, Cli, Handshake

\* Only a commit brings in another code, and its code has committed nothing.
LEMMA StepSingleUse ==
  IInv /\ [Next]_vars => [state'.code \notin {Nobody, state.code} => state'.code \notin committed]_vars
<1> SUFFICES ASSUME IInv, Next, state'.code \notin {Nobody, state.code} PROVE state'.code \notin committed
  BY DEF vars
<1> USE DEF IInv, FileTypes, Spent, files
<1>1. ASSUME NEW c \in Code, Commit(c) \/ CommitUnsure(c) PROVE state'.code \notin committed
  BY <1>1, PairedState DEF Commit, CommitUnsure
<1>2. ASSUME NEW c \in Code, Cli(c) \/ PairInit(c) \/ Reject(c) \/ Mark(c) PROVE FALSE
  BY <1>2 DEF Cli, Generate, Poll, Withdraw, Observe, PairInit, Reject, Mark
<1>3. CASE Session
  <2>1. CASE KeySet
    BY <2>1 DEF KeySet
  <2> QED
    BY <1>3, <2>1
    DEF Session, Auth, AuthNeed, AuthAssert, AuthEnd, Refuse, SignRequest, SignPrompt, SignApprove, Write,
        Unwritten, Register
<1>4. ASSUME NEW k \in Command, Claim(k) PROVE FALSE
  BY <1>4 DEF Claim
<1>5. ASSUME Tick \/ Clear \/ Crash PROVE FALSE
  BY <1>5 DEF Tick, Clear, Crash, NoState
<1> QED
  BY <1>1, <1>2, <1>3, <1>4, <1>5 DEF Next, Handshake

\* What `extension pair` reported holds, for any number of codes and of processes that lose
\* annotations or die (pair_outcome, revoke_code, _commit_pairing).
THEOREM PairingReports == Spec => []ReportsHold
<1>1. IInv => ReportsHold
  BY DEF IInv, Told, ReportsHold
<1> QED
  BY <1>1, InitIInv, StepIInv, PTL DEF Spec

\* A code writes one pairing (_consume_code, _commit_pairing).
THEOREM PairingSingleUse == Spec => SingleUse
  BY InitIInv, StepIInv, StepSingleUse, PTL DEF Spec, SingleUse

-----------------------------------------------------------------------------
(* The evidence of released commands.                                       *)

Ageing ==
  /\ state = [x \in {"pairing", "code", "keyed", "seen"} |-> state[x]]
  /\ state.seen \subseteq Command \X Nat
  /\ released \in [Command -> Nat] /\ \A k \in Command : released[k] <= Ttl + 1
  /\ \A k \in Command : released[k] <= Ttl => <<k, released[k]>> \in state.seen

LEMMA InitAgeing == Init => Ageing
<1> SUFFICES ASSUME Init PROVE Ageing
  OBVIOUS
<1>1. state = [x \in {"pairing", "code", "keyed", "seen"} |-> state[x]] /\ state.seen = {}
  BY DEF Init, NoState
<1>2. released = [k \in Command |-> Ttl + 1] /\ Ttl \in Nat
  BY BoundAssumption DEF Init
<1> QED
  BY <1>1, <1>2 DEF Ageing

\* A pairing and a channel key leave the evidence as it is.
LEMMA EvidenceKept ==
  ASSUME Ageing, UNCHANGED released, state'.seen = state.seen,
         state' = [x \in {"pairing", "code", "keyed", "seen"} |-> state'[x]]
  PROVE  Ageing'
  BY DEF Ageing

LEMMA StepAgeing == Ageing /\ IInv /\ [Next]_vars => Ageing'
  /\ [\A k \in Command : released'[k] < released[k] => released[k] > Ttl]_vars
<1> SUFFICES ASSUME Ageing, IInv, [Next]_vars
             PROVE  Ageing' /\ \A k \in Command : released'[k] < released[k] => released[k] > Ttl
  OBVIOUS
<1> USE BoundAssumption
<1>0. ASSUME UNCHANGED released PROVE \A k \in Command : released'[k] < released[k] => released[k] > Ttl
  BY <1>0 DEF Ageing
<1>1. CASE UNCHANGED <<state, released>>
  BY <1>0, <1>1 DEF Ageing
<1>2. ASSUME NEW c \in Code, state' = Paired(c), UNCHANGED released PROVE Ageing'
  <2>1. state'.seen = state.seen
    <3> DEFINE n == Cardinality(committed \cup {c})
    <3>1. state' = [state EXCEPT !.pairing = n, !.code = c]
      BY <1>2 DEF Paired
    <3> HIDE DEF n
    <3> QED
      BY <3>1 DEF Ageing
  <2> QED
    BY <1>2, <2>1, PairedState, EvidenceKept DEF IInv
<1>3. CASE KeySet
  <2>1. state' = [state EXCEPT !.keyed = TRUE] /\ UNCHANGED released
    BY <1>3 DEF KeySet
  <2>2. state'.seen = state.seen /\ state' = [x \in {"pairing", "code", "keyed", "seen"} |-> state'[x]]
    BY <2>1 DEF Ageing
  <2> QED
    BY <1>0, <2>1, <2>2, EvidenceKept
<1>4. ASSUME NEW k \in Command, Claim(k)
      PROVE  Ageing' /\ \A j \in Command : released'[j] < released[j] => released[j] > Ttl
  <2>1. /\ \A e \in Retained : e[1] # k
        /\ state' = [state EXCEPT !.seen = Retained \cup {<<k, 0>>}]
        /\ released' = [released EXCEPT ![k] = 0]
    BY <1>4 DEF Claim
  <2>2. state'.seen = Retained \cup {<<k, 0>>}
          /\ state' = [x \in {"pairing", "code", "keyed", "seen"} |-> state'[x]]
    BY <2>1 DEF Ageing
  <2>3. Retained \subseteq state.seen
    BY DEF Retained
  <2>4. \A j \in Command : released[j] <= Ttl => <<j, released[j]>> \in Retained
    BY DEF Ageing, Retained
  <2>5. released[k] > Ttl
    <3>1. <<k, released[k]>> \notin Retained
      BY <2>1
    <3>2. released[k] \in Nat /\ ~(released[k] <= Ttl)
      BY <2>4, <3>1 DEF Ageing
    <3> QED
      BY <3>2
  <2>6. \A j \in Command : released'[j] = IF j = k THEN 0 ELSE released[j]
    BY <2>1 DEF Ageing
  <2>7. Ageing'
    BY <2>1, <2>2, <2>3, <2>4, <2>6 DEF Ageing
  <2> QED
    BY <2>5, <2>6, <2>7 DEF Ageing
<1>5. CASE Tick
  <2> DEFINE older(n) == IF n > Ttl THEN n ELSE n + 1
  <2>1. /\ state' = [state EXCEPT !.seen = {<<e[1], older(e[2])>> : e \in state.seen}]
        /\ released' = [k \in Command |-> older(released[k])]
    BY <1>5 DEF Tick
  <2>2. /\ state'.seen = {<<e[1], older(e[2])>> : e \in state.seen}
        /\ state' = [x \in {"pairing", "code", "keyed", "seen"} |-> state'[x]]
    BY <2>1 DEF Ageing
  <2>3. state'.seen \subseteq Command \X Nat
    BY <2>2 DEF Ageing
  <2>4. \A k \in Command : released'[k] \in Nat /\ released'[k] <= Ttl + 1 /\ released'[k] >= released[k]
    BY <2>1 DEF Ageing
  <2>5. ASSUME NEW k \in Command, released'[k] <= Ttl PROVE <<k, released'[k]>> \in state'.seen
    <3>1. released[k] <= Ttl /\ released'[k] = older(released[k]) /\ <<k, released[k]>> \in state.seen
      BY <2>1, <2>5 DEF Ageing
    <3> HIDE DEF older
    <3> QED
      BY <2>2, <3>1
  <2> QED
    BY <2>1, <2>2, <2>3, <2>4, <2>5 DEF Ageing
<1>6. CASE Clear
  <2>1. state' = NoState /\ released' = [k \in Command |-> Ttl + 1]
    BY <1>6 DEF Clear
  <2>2. state'.seen = {} /\ state' = [x \in {"pairing", "code", "keyed", "seen"} |-> state'[x]]
    BY <2>1 DEF NoState
  <2> QED
    BY <2>1, <2>2 DEF Ageing
<1>7. ASSUME NEW c \in Code, Handshake(c)
      PROVE  UNCHANGED <<state, released>> \/ (state' = Paired(c) /\ UNCHANGED released)
  BY <1>7 DEF Handshake, PairInit, Commit, CommitUnsure, Reject, Mark, files
<1>8. ASSUME NEW c \in Code, Cli(c) PROVE UNCHANGED <<state, released>>
  BY <1>8 DEF Cli, Generate, Poll, Withdraw, Observe, files
<1>9. CASE Session /\ ~KeySet
  BY <1>1, <1>9
  DEF Session, Auth, AuthNeed, AuthAssert, AuthEnd, Refuse, SignRequest, SignPrompt, SignApprove, Write,
      Unwritten, Register, files
<1>10. CASE Crash \/ UNCHANGED vars
  BY <1>1, <1>10 DEF Crash, files, vars
<1> QED
  BY <1>0, <1>1, <1>2, <1>3, <1>4, <1>5, <1>6, <1>7, <1>8, <1>9, <1>10 DEF Next

\* A released command is not released again before its evidence is out of date, across new
\* pairings and deaths of the gateway (claim_e2e_replay_identities, _write_pairing_locked).
THEOREM PairingNoReplay == Spec => NoReplay
  BY InitIInv, StepIInv, InitAgeing, StepAgeing, PTL DEF Spec, NoReplay

-----------------------------------------------------------------------------
(* The numbers of pairings and credentials.                                 *)

Numbered ==
  /\ IsFiniteSet(committed) /\ creds \in Nat
  /\ state.pairing \in Nat /\ state.pairing <= Cardinality(committed)
  /\ cred = [id |-> cred.id, pairing |-> cred.pairing]
  /\ cred.id \in Nat /\ cred.id <= creds /\ cred.pairing \in Nat

\* What the fingerprint <<p, n>> says of the files.
Stands(p, n) == state.pairing = p /\ cred.pairing = p /\ cred.id = n

\* What has been passed does not come back.
Onward ==
  /\ Cardinality(committed') >= Cardinality(committed) /\ creds' >= creds
  /\ \A p, n \in Nat \ {0} :
       p <= Cardinality(committed) /\ n <= creds /\ ~Stands(p, n) => ~Stands(p, n)'

LEMMA InitNumbered == Init => Numbered
  BY FS_EmptySet DEF Init, Numbered, NoState, NoCred

\* A commit has a number of its own.
LEMMA CommitNumbers ==
  ASSUME IInv, Numbered, NEW c \in Code, Commit(c) \/ CommitUnsure(c)
  PROVE  Numbered' /\ Onward
<1> DEFINE n == Cardinality(committed \cup {c})
<1>1. /\ state' = [state EXCEPT !.pairing = n, !.code = c] /\ committed' = committed \cup {c}
      /\ cred' \in {cred, NoCred} /\ creds' = creds /\ shake[c] = "derive"
  BY DEF Commit, CommitUnsure, Paired
<1>2. c \notin committed
  BY <1>1 DEF IInv, Spent
<1>3. IsFiniteSet(committed') /\ n = Cardinality(committed) + 1 /\ Cardinality(committed) \in Nat
  BY <1>1, <1>2, FS_AddElement, FS_CardinalityType DEF Numbered
<1>4. Cardinality(committed') = n
  BY <1>1
<1> HIDE DEF n
<1>5. state'.pairing = n
  BY <1>1 DEF IInv, FileTypes
<1>6. cred' = cred \/ cred' = [id |-> 0, pairing |-> 0]
  BY <1>1 DEF NoCred
<1>7. Numbered'
  BY <1>1, <1>3, <1>4, <1>5, <1>6 DEF Numbered
<1> QED
  BY <1>1, <1>3, <1>4, <1>5, <1>7 DEF Onward, Stands, Numbered

LEMMA RegisterNumbers ==
  ASSUME Numbered, Register
  PROVE  Numbered' /\ Onward
<1>1. UNCHANGED <<state, committed>> /\ Cardinality(committed) \in Nat
  BY FS_CardinalityType DEF Register, Numbered
<1>2. \/ state.pairing # 0 /\ creds' = creds + 1 /\ cred' = [id |-> creds', pairing |-> state.pairing]
      \/ creds' = creds /\ cred' = [id |-> 0, pairing |-> 0]
  BY DEF Register, NoCred
<1> QED
  BY <1>1, <1>2 DEF Numbered, Onward, Stands

LEMMA StepNumbered == IInv /\ Numbered /\ [Next]_vars => Numbered' /\ Onward
<1> SUFFICES ASSUME IInv, Numbered, [Next]_vars PROVE Numbered' /\ Onward
  OBVIOUS
<1>0. Cardinality(committed) \in Nat
  BY FS_CardinalityType DEF Numbered
<1>1. ASSUME state'.pairing = state.pairing, UNCHANGED <<cred, creds, committed>> PROVE Numbered' /\ Onward
  BY <1>0, <1>1 DEF Numbered, Onward, Stands
<1>2. ASSUME NEW c \in Code, Commit(c) \/ CommitUnsure(c) PROVE Numbered' /\ Onward
  BY <1>2, CommitNumbers
<1>3. CASE Clear
  <2>1. state'.pairing = 0 /\ UNCHANGED <<creds, committed>>
          /\ (cred' = cred \/ cred' = [id |-> 0, pairing |-> 0])
    BY <1>3 DEF Clear, NoState, NoCred
  <2> QED
    BY <1>0, <2>1 DEF Numbered, Onward, Stands
<1>4. CASE Register
  BY <1>4, RegisterNumbers
<1>5. ASSUME KeySet \/ Tick \/ \E k \in Command : Claim(k)
      PROVE state'.pairing = state.pairing /\ UNCHANGED <<cred, creds, committed>>
  BY <1>5 DEF KeySet, Tick, Claim, IInv, FileTypes
<1>6. ASSUME Session, ~KeySet, ~Register PROVE UNCHANGED <<state, cred, creds, committed>>
  BY <1>6
  DEF Session, Auth, AuthNeed, AuthAssert, AuthEnd, Refuse, SignRequest, SignPrompt, SignApprove, Write,
      Unwritten, files
<1>7. ASSUME NEW c \in Code, Cli(c) \/ PairInit(c) \/ Reject(c) \/ Mark(c)
      PROVE  UNCHANGED <<state, cred, creds, committed>>
  BY <1>7 DEF Cli, Generate, Poll, Withdraw, Observe, PairInit, Reject, Mark, files
<1>8. ASSUME Crash \/ UNCHANGED vars PROVE UNCHANGED <<state, cred, creds, committed>>
  BY <1>8 DEF Crash, files, vars
<1> QED
  BY <1>1, <1>2, <1>3, <1>4, <1>5, <1>6, <1>7, <1>8 DEF Next, Handshake

-----------------------------------------------------------------------------
(* The connection.                                                          *)

AuthSteps == {"asked", "assert", "final", "again", "stable"}

Proving ==
  /\ conn = [x \in {"at", "principal", "print", "proof", "code", "prompt"} |-> conn[x]]
  /\ conn.at \in AuthSteps =>
       /\ conn.principal = NoPrint /\ conn.prompt = NoPrint
       /\ \E p \in Nat \ {0} : \E n \in Nat :
            conn.print = <<p, n>> /\ p <= Cardinality(committed) /\ n <= creds
  /\ conn.at \in {"final", "stable"} =>
       conn.print[2] \in {0, conn.proof} \/ ~Stands(conn.print[1], conn.print[2])
  /\ PrincipalProven

LEMMA InitProving == Init => Proving
  BY DEF Init, Proving, AuthSteps, PrincipalProven, Closed

LEMMA ClosedProving == ASSUME conn' = Closed PROVE Proving'
  BY DEF Proving, AuthSteps, PrincipalProven, Closed

\* A fingerprint that was passed, or that asks for no credential, stays so.
LEMMA KeptPrint ==
  ASSUME Numbered, Numbered', Onward, NEW p \in Nat \ {0}, NEW n \in Nat, NEW proof,
         p <= Cardinality(committed), n <= creds
  PROVE  /\ p <= Cardinality(committed') /\ n <= creds'
         /\ n \in {0, proof} \/ ~Stands(p, n) => n \in {0, proof} \/ ~Stands(p, n)'
<1>1. Cardinality(committed) \in Nat /\ Cardinality(committed') \in Nat /\ creds \in Nat /\ creds' \in Nat
  BY FS_CardinalityType DEF Numbered
<1> QED
  BY <1>1 DEF Onward

\* The files move on under a connection that stays where it is.
LEMMA KeptProving ==
  ASSUME Proving, Numbered, Numbered', Onward, conn' = conn
  PROVE  Proving'
<1>1. CASE conn.at \in AuthSteps
  <2>1. PICK p \in Nat \ {0}, n \in Nat : conn.print = <<p, n>> /\ p <= Cardinality(committed) /\ n <= creds
    BY <1>1 DEF Proving
  <2>2. conn.at \in {"final", "stable"} => n \in {0, conn.proof} \/ ~Stands(p, n)
    BY <2>1 DEF Proving
  <2>3. /\ p <= Cardinality(committed') /\ n <= creds'
        /\ conn.at \in {"final", "stable"} => n \in {0, conn.proof} \/ ~Stands(p, n)'
    BY <2>1, <2>2, KeptPrint
  <2> QED
    BY <2>1, <2>3 DEF Proving, PrincipalProven
<1>2. CASE conn.at \notin AuthSteps
  BY <1>2 DEF Proving, PrincipalProven, AuthSteps
<1> QED
  BY <1>1, <1>2

\* Steps outside an authentication: a frame, a prompt, a handshake.
LEMMA FrameProving ==
  ASSUME Proving, conn' = [x \in {"at", "principal", "print", "proof", "code", "prompt"} |-> conn'[x]],
         conn'.at \notin AuthSteps, conn'.principal = conn.principal, conn'.proof = conn.proof,
         conn'.prompt \in {conn.prompt, NoPrint, conn.principal}
  PROVE  Proving'
  BY DEF Proving, PrincipalProven, AuthSteps

\* The credential in force is the one that stands.
LEMMA ActiveStands ==
  ASSUME Numbered, NEW p \in Nat \ {0}, NEW n \in Nat
  PROVE  /\ ActiveCred \in Nat /\ ActiveCred <= creds
         /\ n \in {0, ActiveCred} \/ ~Stands(p, n)
         /\ Fingerprint = <<p, n>> => state.pairing = p /\ n = ActiveCred /\ (n = 0 \/ Stands(p, n))
<1>1. ActiveCred \in Nat /\ ActiveCred <= creds
  BY DEF ActiveCred, Numbered
<1>2. n \in {0, ActiveCred} \/ ~Stands(p, n)
  BY DEF ActiveCred, Stands
<1>3. Fingerprint = <<p, n>> => state.pairing = p /\ n = ActiveCred
  BY DEF Fingerprint
<1>4. state.pairing = p /\ n = ActiveCred => n = 0 \/ Stands(p, n)
  BY DEF ActiveCred, Stands
<1> QED
  BY <1>1, <1>2, <1>3, <1>4

LEMMA AuthProving ==
  ASSUME Proving, Numbered, Auth
  PROVE  Proving'
<1>1. UNCHANGED <<state, cred, creds, committed>>
  BY DEF Auth, files
<1>2. CASE conn' = Closed
  BY <1>2, ClosedProving
<1>3. CASE state.pairing # 0 /\ conn' = [Closed EXCEPT !.at = "asked", !.print = Fingerprint]
  <2>1. conn' = [at |-> "asked", principal |-> NoPrint, print |-> <<state.pairing, ActiveCred>>,
                 proof |-> 0, code |-> Nobody, prompt |-> NoPrint]
    BY <1>3 DEF Closed, Fingerprint
  <2>2. /\ state.pairing \in Nat \ {0} /\ state.pairing <= Cardinality(committed)
        /\ ActiveCred \in Nat /\ ActiveCred <= creds
    BY <1>3, ActiveStands DEF Numbered
  <2> HIDE DEF ActiveCred
  <2> QED
    BY <1>1, <2>1, <2>2 DEF Proving, PrincipalProven, AuthSteps
<1> QED
  BY <1>2, <1>3 DEF Auth, Revoked

\* Between the reads: the credential that is asked for, and the assertion.
LEMMA AssertProving ==
  ASSUME Proving, Numbered, AuthNeed \/ AuthAssert
  PROVE  Proving'
<1>1. UNCHANGED <<state, cred, creds, committed>> /\ conn.at \in AuthSteps
  BY DEF AuthNeed, AuthAssert, files, AuthSteps
<1>2. PICK p \in Nat \ {0}, n \in Nat : conn.print = <<p, n>> /\ p <= Cardinality(committed) /\ n <= creds
  BY <1>1 DEF Proving
<1>3. n \in {0, ActiveCred} \/ ~Stands(p, n)
  BY ActiveStands
<1>4. CASE conn' = Closed
  BY <1>4, ClosedProving
<1>5. CASE AuthNeed
  <2>1. PICK step \in {"assert", "final"} : conn' = [conn EXCEPT !.at = step]
          /\ (step = "final" => ActiveCred = 0)
    BY <1>5 DEF AuthNeed, Goes
  <2> QED
    BY <1>1, <1>2, <1>3, <2>1 DEF Proving, PrincipalProven, AuthSteps, Stands
<1>6. CASE AuthAssert /\ conn' # Closed
  <2>1. PICK step \in {"final", "stable"} : conn' = [conn EXCEPT !.at = step, !.proof = ActiveCred]
    BY <1>6 DEF AuthAssert
  <2>2. /\ conn' = [x \in {"at", "principal", "print", "proof", "code", "prompt"} |-> conn'[x]]
        /\ conn'.at = step /\ conn'.principal = NoPrint /\ conn'.prompt = NoPrint
        /\ conn'.print = <<p, n>> /\ conn'.proof = ActiveCred
    BY <1>1, <1>2, <2>1 DEF Proving
  <2>3. n \in {0, conn'.proof} \/ ~Stands(p, n)'
    BY <1>1, <1>3, <2>2 DEF Stands
  <2>4. /\ p <= Cardinality(committed') /\ n <= creds'
        /\ conn'.print[1] = p /\ conn'.print[2] = n
    BY <1>1, <1>2, <2>2
  <2> QED
    BY <2>2, <2>3, <2>4 DEF Proving, PrincipalProven
<1> QED
  BY <1>4, <1>5, <1>6

LEMMA EndProving ==
  ASSUME Proving, Numbered, AuthEnd
  PROVE  Proving'
<1>1. UNCHANGED <<state, cred, creds, committed>> /\ conn.at \in {"final", "stable"}
  BY DEF AuthEnd, files
<1>2. PICK p \in Nat \ {0}, n \in Nat : conn.print = <<p, n>> /\ p <= Cardinality(committed) /\ n <= creds
  BY <1>1 DEF Proving, AuthSteps
<1>3. n \in {0, conn.proof} \/ ~Stands(p, n)
  BY <1>1, <1>2 DEF Proving
<1>4. CASE conn' = Closed
  BY <1>4, ClosedProving
<1>5. CASE Settled /\ conn' = [conn EXCEPT !.at = "idle", !.principal = Fingerprint, !.print = NoPrint]
  <2>1. Fingerprint = <<p, n>> /\ n \in {0, conn.proof}
    BY <1>2, <1>3, <1>5, ActiveStands DEF Settled
  <2>2. conn.prompt = NoPrint
    BY <1>1 DEF Proving, AuthSteps
  <2> QED
    BY <1>5, <2>1, <2>2 DEF Proving, PrincipalProven, AuthSteps
<1>6. CASE Fingerprint[1] = conn.print[1] /\ conn' = [conn EXCEPT !.at = "again", !.print = Fingerprint]
  <2>1. Fingerprint = <<p, ActiveCred>> /\ ActiveCred \in Nat /\ ActiveCred <= creds
    BY <1>2, <1>6, ActiveStands DEF Fingerprint
  <2> QED
    BY <1>1, <1>2, <1>6, <2>1 DEF Proving, PrincipalProven, AuthSteps
<1> QED
  BY <1>4, <1>5, <1>6 DEF AuthEnd

LEMMA StepProving == IInv /\ Proving /\ Numbered /\ [Next]_vars => Proving'
<1> SUFFICES ASSUME IInv, Proving, Numbered, [Next]_vars PROVE Proving'
  OBVIOUS
<1>1. Numbered' /\ Onward
  BY StepNumbered
<1>2. CASE conn' = conn
  BY <1>1, <1>2, KeptProving
<1>3. CASE conn' = Closed
  BY <1>3, ClosedProving
<1>4. CASE Auth \/ AuthNeed \/ AuthAssert \/ AuthEnd
  BY <1>4, AuthProving, AssertProving, EndProving
<1>5. CASE SignRequest \/ SignPrompt \/ SignApprove \/ Write \/ Register \/ KeySet \/ Unwritten
  <2>1. CASE SignPrompt
    BY <2>1, FrameProving DEF SignPrompt, Proving, AuthSteps
  <2>2. CASE SignApprove
    BY <2>2, FrameProving DEF SignApprove, Current, Authed, Proving, AuthSteps
  <2>3. CASE \E step \in {"prepare", "register", "keyset", "idle"} : conn' = [conn EXCEPT !.at = step]
    BY <2>3, FrameProving DEF Proving, AuthSteps
  <2> QED
    BY <1>2, <1>5, <2>1, <2>2, <2>3 DEF SignRequest, Write, Register, KeySet, Unwritten, Lets, Goes
<1>6. ASSUME NEW c \in Code, Handshake(c) PROVE Proving'
  <2>1. CASE conn' = [conn EXCEPT !.at = "pairing", !.code = c]
    BY <2>1, FrameProving DEF Proving, AuthSteps
  <2>2. CASE conn' = [conn EXCEPT !.at = "idle", !.code = Nobody]
    BY <2>2, FrameProving DEF Proving, AuthSteps
  <2> QED
    BY <1>2, <1>3, <1>6, <2>1, <2>2 DEF Handshake, PairInit, Commit, CommitUnsure, Reject, Mark, Revoked
<1>7. ASSUME NEW c \in Code, Cli(c) PROVE Proving'
  BY <1>2, <1>7 DEF Cli, Generate, Poll, Withdraw, Observe
<1>8. ASSUME Tick \/ Clear \/ \E k \in Command : Claim(k) PROVE Proving'
  BY <1>2, <1>8 DEF Tick, Clear, Claim
<1>9. CASE Crash \/ Refuse \/ UNCHANGED vars
  BY <1>2, <1>3, <1>9 DEF Crash, Refuse, Revoked, vars
<1> QED
  BY <1>4, <1>5, <1>6, <1>7, <1>8, <1>9 DEF Next, Session

\* A principal that carries a credential was proven by an assertion of that credential,
\* although the files may have changed between any two reads of the authentication, and no
\* prompt passes to another principal (_on_auth, _invalidate_authentication).
THEOREM PairingProven == Spec => []PrincipalProven
<1>1. Proving => PrincipalProven
  BY DEF Proving
<1> QED
  BY <1>1, InitIInv, StepIInv, InitNumbered, StepNumbered, InitProving, StepProving, PTL DEF Spec
==============================================================================
