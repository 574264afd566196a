------------------------------- MODULE Pairing -------------------------------
(***************************************************************************)
(* The pairing of the browser extension: the one-time codes of             *)
(* pending.json, the handshake that turns a code into state.json, the      *)
(* WebAuthn credential bound to it, a connection that authenticates under  *)
(* it, and the replay evidence of the encrypted gateway commands           *)
(* (extension/pairing.py, webauthn.py, api.py, gateway_plugin.py and       *)
(* wizard/extension_pair_cli.py).                                          *)
(*                                                                         *)
(* Every read-modify-write of the files runs under _state_lock, which the  *)
(* processes share, so each is one step; what a handler does between two   *)
(* of them is not.  A token and its keys are the number of the pairing     *)
(* that wrote them, a credential is a number, and the fingerprint of an    *)
(* authentication is the pair of both.  One connection is modelled whole,  *)
(* the others by what they do to the files.                                *)
(***************************************************************************)
EXTENDS Naturals, FiniteSets

CONSTANTS
  Code,      \* pairing codes; secrets.choice never repeats one
  Command,   \* encrypted commands of the chat gateway
  Nobody,    \* no code
  MaxCred,   \* bound: WebAuthn credentials registered
  Capacity,  \* _E2E_REPLAY_MAX_IDENTITIES
  Ttl        \* _E2E_REPLAY_TTL_SECONDS

ASSUME NobodyAssumption == Nobody \notin Code
ASSUME BoundAssumption == MaxCred \in Nat /\ Capacity \in Nat /\ Ttl \in Nat

VARIABLES
  pending,   \* pending.json: the entry of each code it holds
  state,     \* state.json: pairing number, its code, channel key, evidence
  cred,      \* webauthn.json: the credential and the pairing it is bound to
  creds,     \* credentials registered so far
  shake,     \* the handshake of each code: none, deriving keys, failed
  conn,      \* the connection: where its handler is, what it holds
  cli,       \* what `extension pair` does or has reported about each code
  committed, \* history: codes whose pairing reached state.json
  released   \* history: the age of each command's last release, out of date if none

files == <<pending, state, cred, creds>>
vars == <<pending, state, cred, creds, shake, conn, cli, committed, released>>

NoState == [pairing |-> 0, code |-> Nobody, keyed |-> FALSE, seen |-> {}]
NoCred == [id |-> 0, pairing |-> 0]
NoPrint == <<0, 0>>
Closed == [at |-> "idle", principal |-> NoPrint, print |-> NoPrint,
           proof |-> 0, code |-> Nobody, prompt |-> NoPrint]

Ages == 0..(Ttl + 1)   \* the last one: out of date
Steps == {"idle", "asked", "assert", "final", "again", "stable",
          "prepare", "register", "keyset", "pairing"}
Reports == {"none", "waiting", "observing", "paired", "assumed", "failed", "open"}

TypeOK ==
  /\ DOMAIN pending \subseteq Code
  /\ \A c \in DOMAIN pending :
       pending[c] \in [used : BOOLEAN, result : {"none", "paired", "failed"}]
  /\ state.pairing \in 0..Cardinality(Code) /\ state.code \in Code \cup {Nobody}
  /\ state.keyed \in BOOLEAN /\ state.seen \subseteq Command \X Ages
  /\ creds \in 0..MaxCred /\ cred.id \in 0..creds
  /\ shake \in [Code -> {"none", "derive", "mark"}]
  /\ conn.at \in Steps /\ conn.code \in Code \cup {Nobody}
  /\ cli \in [Code -> Reports]
  /\ committed \subseteq Code /\ released \in [Command -> Ages]

Init ==
  /\ pending = [c \in {} |-> Nobody]
  /\ state = NoState
  /\ cred = NoCred
  /\ creds = 0
  /\ shake = [c \in Code |-> "none"]
  /\ conn = Closed
  /\ cli = [c \in Code |-> "none"]
  /\ committed = {}
  /\ released = [k \in Command |-> Ttl + 1]

(***************************************************************************)
(* What the files say.                                                     *)
(***************************************************************************)

\* _active_webauthn_data: a credential counts only under the pairing whose
\* token hash it carries.
ActiveCred == IF state.pairing # 0 /\ cred.pairing = state.pairing THEN cred.id ELSE 0

\* authentication_generation_fingerprint
Fingerprint == <<state.pairing, ActiveCred>>

Unended(c) == c \in DOMAIN pending /\ pending[c].result = "none"

\* pair_outcome: the digest in state.json outranks the annotation.
Outcome(c) ==
  CASE state.code = c -> "paired"
    [] state.code # c /\ (c \notin DOMAIN pending \/ ~pending[c].used) -> "pending"
    [] OTHER -> IF pending[c].result = "none" THEN "consumed" ELSE pending[c].result

Annotated(c, result) ==
  IF c \in DOMAIN pending THEN [pending EXCEPT ![c].result = result] ELSE pending

(***************************************************************************)
(* `extension pair`: one process per code (extension_pair, _await_outcome, *)
(* _revoke_or_observe).                                                    *)
(***************************************************************************)

\* generate_code drops the expired entries, those of claimed codes included:
\* any that an earlier run has left.
Generate(c) ==
  /\ cli[c] = "none"
  /\ \E kept \in SUBSET DOMAIN pending :
       pending' = [d \in kept \cup {c} |->
                     IF d = c THEN [used |-> FALSE, result |-> "none"] ELSE pending[d]]
  /\ cli' = [cli EXCEPT ![c] = "waiting"]
  /\ UNCHANGED <<state, cred, creds, shake, conn, committed, released>>

\* What the terminal is told: the recorded outcome, or what is said without one.
Report(c, otherwise) == IF Outcome(c) \in {"paired", "failed"} THEN Outcome(c) ELSE otherwise

\* A claimed code has a grace period to record its outcome; after it the
\* terminal prints "Paired" and exits with success, and adds a note that the
\* outcome was never recorded: "assumed".
Poll(c) ==
  /\ cli[c] = "waiting"
  /\ Outcome(c) # "pending"
  /\ cli' = [cli EXCEPT ![c] = Report(c, "assumed")]
  /\ UNCHANGED <<files, shake, conn, committed, released>>

\* revoke_code: a claimed code can still be revoked, a committed one cannot.
Revocable(c) == Unended(c) /\ state.code # c

\* Ctrl+C, or the deadline: revoke the code, and if that is refused or its
\* write fails, look at what became of it.
Withdraw(c) ==
  /\ cli[c] = "waiting"
  /\ \/ /\ Revocable(c)
        /\ pending' = [pending EXCEPT ![c] = [used |-> TRUE, result |-> "failed"]]
        /\ cli' = [cli EXCEPT ![c] = "failed"]
     \/ /\ cli' = [cli EXCEPT ![c] = "observing"]
        /\ UNCHANGED pending
  /\ UNCHANGED <<state, cred, creds, shake, conn, committed, released>>

\* Without an outcome the status could not be confirmed.
Observe(c) ==
  /\ cli[c] = "observing"
  /\ cli' = [cli EXCEPT ![c] = Report(c, "open")]
  /\ UNCHANGED <<files, shake, conn, committed, released>>

Cli(c) == Generate(c) \/ Poll(c) \/ Withdraw(c) \/ Observe(c)

(***************************************************************************)
(* The handshake, on an executor thread, for the modelled connection or    *)
(* for another one (_on_pair_init, handle_pair_init).                      *)
(***************************************************************************)

\* Fault: a claimed code is claimed again.
ClaimableTwice(c) == c \in DOMAIN pending

\* _consume_code; a refused claim (unknown, used, expired) changes nothing.
Claimable(c) == c \in DOMAIN pending /\ ~pending[c].used

PairInit(c) ==
  /\ Claimable(c) /\ shake[c] = "none"
  /\ pending' = [pending EXCEPT ![c].used = TRUE]
  /\ shake' = [shake EXCEPT ![c] = "derive"]
  /\ \/ UNCHANGED conn
     \/ conn.at = "idle" /\ conn' = [conn EXCEPT !.at = "pairing", !.code = c]
  /\ UNCHANGED <<state, cred, creds, cli, committed, released>>

\* Fault: the new pairing starts from an empty state.json.
PairedAfresh(c) == [NoState EXCEPT !.pairing = Cardinality(committed \cup {c}), !.code = c, !.keyed = state.keyed]

\* _write_pairing_locked keeps the channel keys and the replay evidence.
Paired(c) == [state EXCEPT !.pairing = Cardinality(committed \cup {c}), !.code = c]

\* Fault: the outcome is not looked at again once the keys are derived.
AdmissibleUnseen(c) == c \in DOMAIN pending /\ pending[c].used

\* _commit_pairing: the entry is still there, claimed and without an outcome.
Admissible(c) == Unended(c) /\ pending[c].used

\* _invalidate_authentication
Revoked == Closed

\* The removal of the old credential and the annotation may both fail: the
\* code in state.json decides.  The connection that asked is signed out.
Commit(c) ==
  /\ shake[c] = "derive" /\ Admissible(c)
  /\ state' = Paired(c)
  /\ committed' = committed \cup {c}
  /\ cred' \in {cred, NoCred}
  /\ pending' \in {pending, Annotated(c, "paired")}
  /\ shake' = [shake EXCEPT ![c] = "none"]
  /\ conn' = IF conn.code = c THEN Revoked ELSE conn
  /\ UNCHANGED <<creds, cli, released>>

\* The write of state.json is in place but reports a failure (the fsync of
\* the directory): the rest of the commit is skipped and the code is failed.
CommitUnsure(c) ==
  /\ shake[c] = "derive" /\ Admissible(c)
  /\ state' = Paired(c)
  /\ committed' = committed \cup {c}
  /\ shake' = [shake EXCEPT ![c] = "mark"]
  /\ UNCHANGED <<pending, cred, creds, conn, cli, released>>

\* The challenge, the key or the attestation fails, the commit is refused,
\* or its write fails: nothing is stored.
Reject(c) ==
  /\ shake[c] = "derive"
  /\ shake' = [shake EXCEPT ![c] = "mark"]
  /\ UNCHANGED <<files, conn, cli, committed, released>>

\* _mark_pair_result, best effort; the connection keeps its principal.
Mark(c) ==
  /\ shake[c] = "mark"
  /\ pending' \in {pending, Annotated(c, "failed")}
  /\ shake' = [shake EXCEPT ![c] = "none"]
  /\ conn' = IF conn.code = c THEN [conn EXCEPT !.at = "idle", !.code = Nobody] ELSE conn
  /\ UNCHANGED <<state, cred, creds, cli, committed, released>>

Handshake(c) == PairInit(c) \/ Commit(c) \/ CommitUnsure(c) \/ Reject(c) \/ Mark(c)

(***************************************************************************)
(* Authentication (_on_auth).  The handler does not yield, but each of its *)
(* reads of the files is one of its own: a handshake on the executor, or   *)
(* another process, writes between them.                                   *)
(***************************************************************************)

Goes(step) == conn' = [conn EXCEPT !.at = step]

\* The client presents the token of the pairing in force, or an older one.
Auth ==
  /\ conn.at = "idle"
  /\ conn' \in {Revoked} \cup
       (IF state.pairing = 0 THEN {} ELSE {[Revoked EXCEPT !.at = "asked", !.print = Fingerprint]})
  /\ conn' # conn
  /\ UNCHANGED <<files, shake, cli, committed, released>>

\* has_webauthn_credential
AuthNeed ==
  /\ conn.at = "asked"
  /\ Goes(IF ActiveCred # 0 THEN "assert" ELSE "final")
  /\ UNCHANGED <<files, shake, cli, committed, released>>

\* verify_webauthn_assertion, against the credential stored by now; the
\* second time the same assertion is verified again.
AuthAssert ==
  /\ conn.at \in {"assert", "again"}
  /\ \/ conn' = Closed
     \/ /\ ActiveCred # 0 /\ conn.proof \in {0, ActiveCred}
        /\ conn' = [conn EXCEPT !.at = IF @ = "assert" THEN "final" ELSE "stable", !.proof = ActiveCred]
  /\ UNCHANGED <<files, shake, cli, committed, released>>

\* Fault: only the token has to be the one authentication began with.
SettledLoose == Fingerprint[1] = conn.print[1]

\* The fingerprint the handler took is still that of the files.
Settled == Fingerprint = conn.print

\* A changed fingerprint is taken once more if an assertion was verified and
\* the token still stands; otherwise it is pairing_changed.
AuthEnd ==
  /\ conn.at \in {"final", "stable"}
  /\ conn' =
       CASE Settled -> [conn EXCEPT !.at = "idle", !.principal = Fingerprint, !.print = NoPrint]
         [] ~Settled /\ conn.at = "final" /\ conn.proof # 0 /\ Fingerprint[1] = conn.print[1] ->
              [conn EXCEPT !.at = "again", !.print = Fingerprint]
         [] OTHER -> Closed
  /\ UNCHANGED <<files, shake, cli, committed, released>>

(***************************************************************************)
(* Frames of an authenticated connection: dispatch compares the            *)
(* fingerprint of the files with the connection's, then the handler runs.  *)
(***************************************************************************)

Authed == conn.at = "idle" /\ conn.principal # NoPrint

\* _authentication_is_current
Current == Authed /\ conn.principal = Fingerprint

\* _authed_refusal: pairing_changed
Refuse ==
  /\ Authed /\ ~Current
  /\ conn' = Revoked
  /\ UNCHANGED <<files, shake, cli, committed, released>>

\* _on_sign_request prepares on the executor; one open prompt is modelled.
SignRequest ==
  /\ Current /\ conn.prompt = NoPrint
  /\ Goes("prepare")
  /\ UNCHANGED <<files, shake, cli, committed, released>>

SignPrompt ==
  /\ conn.at = "prepare"
  /\ conn' = [conn EXCEPT !.at = "idle", !.prompt = conn.principal]
  /\ UNCHANGED <<files, shake, cli, committed, released>>

\* _on_sign_approve: the prompt is taken, and signed or refused.
SignApprove ==
  /\ Current /\ conn.prompt # NoPrint
  /\ conn' = [conn EXCEPT !.prompt = NoPrint]
  /\ UNCHANGED <<files, shake, cli, committed, released>>

\* _on_webauthn_register and _on_channel_key_set write after the check.
Write ==
  /\ Current
  /\ Goes("register") \/ Goes("keyset")
  /\ UNCHANGED <<files, shake, cli, committed, released>>

\* By the modelled connection, or by another one.
Lets(step) == UNCHANGED conn \/ (conn.at = step /\ Goes("idle"))

\* save_webauthn_credential binds to whatever pairing is active by now;
\* clear_webauthn_credential takes no notice of it.
Register ==
  /\ Lets("register")
  /\ \/ /\ state.pairing # 0 /\ creds < MaxCred
        /\ creds' = creds + 1
        /\ cred' = [id |-> creds', pairing |-> state.pairing]
     \/ /\ cred' = NoCred
        /\ UNCHANGED creds
  /\ UNCHANGED <<pending, state, shake, cli, committed, released>>

\* save_channel_key
KeySet ==
  /\ Lets("keyset")
  /\ state' = [state EXCEPT !.keyed = TRUE]
  /\ UNCHANGED <<pending, cred, creds, shake, cli, committed, released>>

\* The write of either handler fails, or what it was sent is refused.
Unwritten ==
  /\ conn.at \in {"register", "keyset"}
  /\ Goes("idle")
  /\ UNCHANGED <<files, shake, cli, committed, released>>

Session ==
  \/ Auth \/ AuthNeed \/ AuthAssert \/ AuthEnd
  \/ Refuse \/ SignRequest \/ SignPrompt \/ SignApprove
  \/ Write \/ Register \/ KeySet \/ Unwritten

(***************************************************************************)
(* Encrypted commands of the chat gateway (decrypt_gateway_envelope,       *)
(* _rewrite_encrypted, claim_e2e_replay_identities).  One identity stands  *)
(* for the two a command claims together, its age for its timestamp.       *)
(***************************************************************************)

\* _retained_replay_entries
Retained == {e \in state.seen : e[2] <= Ttl}

\* A command, delivered for the first time or again, that decrypts under the
\* channel key.  The claim is written before the command is released; one
\* that is known, finds no room or cannot be written is skipped.
Claim(k) ==
  /\ state.keyed /\ state.pairing # 0
  /\ \A e \in Retained : e[1] # k
  /\ Cardinality(Retained) < Capacity
  /\ state' = [state EXCEPT !.seen = Retained \cup {<<k, 0>>}]
  /\ released' = [released EXCEPT ![k] = 0]
  /\ UNCHANGED <<pending, cred, creds, shake, conn, cli, committed>>

\* Time passes for the evidence.
Tick ==
  /\ state' = [state EXCEPT !.seen = {<<e[1], IF e[2] > Ttl THEN e[2] ELSE e[2] + 1>> : e \in @}]
  /\ released' = [k \in Command |-> IF released[k] > Ttl THEN released[k] ELSE released[k] + 1]
  /\ UNCHANGED <<pending, cred, creds, shake, conn, cli, committed>>

\* clear_pairing: evidence and channel keys go with the pairing.
Clear ==
  /\ state # NoState
  /\ state' = NoState
  /\ cred' \in {cred, NoCred}
  /\ released' = [k \in Command |-> Ttl + 1]
  /\ UNCHANGED <<pending, creds, shake, conn, cli, committed>>

\* The gateway dies.
Crash ==
  /\ conn' = Closed
  /\ shake' = [c \in Code |-> "none"]
  /\ UNCHANGED <<files, cli, committed, released>>

Next ==
  \/ \E c \in Code : Cli(c) \/ Handshake(c)
  \/ Session
  \/ \E k \in Command : Claim(k)
  \/ Tick \/ Clear \/ Crash

Spec == Init /\ [][Next]_vars

(***************************************************************************)
(* Properties.                                                             *)
(***************************************************************************)

\* What `extension pair` confirmed holds: a code it called paired, without the
\* note that no outcome was recorded, has reached state.json, and the pairing of
\* a code it called failed or revoked is not in force, whatever handshake had
\* claimed the code (pair_outcome, revoke_code, _commit_pairing).  Of a code
\* that it only assumes paired, see NoFalsePaired.
ReportsHold ==
  \A c \in Code :
    /\ cli[c] = "paired" => c \in committed
    /\ cli[c] = "failed" => state.code # c

\* What handle_pair_init (pairing.py:1061-1063) says of the annotation: "so the
\* polling CLI reports rejection instead of a false 'Paired' when the handshake
\* dies after the code is claimed".  The code does not keep it: when the gateway
\* dies with the handshake there is no annotation, and after the grace period
\* the CLI prints "Paired" with a note.
NoFalsePaired == \A c \in Code : cli[c] \in {"paired", "assumed"} => c \in committed

\* A code writes one pairing, whatever annotations and processes were lost:
\* what enters state.json comes from a code that has written none
\* (_consume_code, _commit_pairing).
SingleUse == [][state'.code \notin {Nobody, state.code} => state'.code \notin committed]_vars

\* A connection whose principal carries a credential has verified an
\* assertion by that credential, and a prompt waits only for the principal
\* it was shown to (_on_auth, _invalidate_authentication).
PrincipalProven ==
  conn.principal # NoPrint =>
    /\ conn.principal[2] \in {0, conn.proof}
    /\ conn.prompt \in {NoPrint, conn.principal}

\* While state.json lasts, across new pairings and deaths of the gateway, a
\* command reaches the agent again only when its evidence is out of date
\* (claim_e2e_replay_identities, _write_pairing_locked).
NoReplay ==
  [][\A k \in Command : released'[k] < released[k] => released[k] > Ttl]_vars
===============================================================================
