------------------------------ MODULE SecretMgr ------------------------------
(***************************************************************************)
(* SecretMgr: the master key under which the TOTP secrets of the accounts  *)
(* are stored, and its change.  The digest in the database says which key  *)
(* is in use; a start with another key decrypts every secret with the old  *)
(* one and encrypts it with the new in one transaction, which is handed to *)
(* the database workers and not waited for.                                *)
(*                                                                         *)
(* A stored secret is the sequence of the keys it has been encrypted with; *)
(* Argon2 verifies a key against a digest exactly when they belong         *)
(* together, and AES-GCM decrypts exactly with the last key.               *)
(***************************************************************************)
EXTENDS Naturals, SequencesExt

CONSTANTS
  Keys, NoKey,    (* values of TOTPMasterSecret; none                        *)
  Accounts,
  NoTransaction, RolledBack,
  MaxLosses       (* bound: queries and transactions that fail               *)

NoSecret == <<NoKey>>

(* The statements of a transaction: the secrets, and the digest replaced.     *)
Transaction == [secret : [Accounts -> Seq(Keys) \cup {NoSecret}],
                deletes : BOOLEAN, digest : Keys \cup {NoKey}]

ASSUME SecretAssumption ==
  /\ NoKey \notin Keys /\ MaxLosses \in Nat
  /\ NoTransaction \notin Transaction /\ RolledBack \notin Transaction
  /\ NoTransaction # RolledBack

VARIABLES
  secret,       (* account.totp_secret                                       *)
  digest,       (* secret_digest                                             *)
  current, old, (* TOTPMasterSecret and TOTPOldMasterSecret in the file      *)
  state,        (* Secret::state                                             *)
  value,        (* Secret::value                                             *)
  transition,   (* the transaction AttemptTransition has handed over         *)
  announced,    (* the configuration of the last start that succeeded        *)
  misread,      (* queries whose failure was taken for an empty result       *)
  losses

config     == <<current, old>>
stored     == <<secret, digest>>
loaded     == <<state, value, transition>>
secretVars == <<stored, config, loaded, announced, misread, losses>>

Under(k) == IF k = NoKey THEN <<>> ELSE <<k>>
Unloaded == state = "NOT_LOADED_YET" /\ value = NoKey /\ transition = NoTransaction

SecretInit ==
  /\ digest \in Keys \cup {NoKey}
  /\ secret \in [Accounts -> {NoSecret, Under(digest)}]
  /\ current = digest /\ old = NoKey
  /\ Unloaded
  /\ announced = <<>> /\ misread = {} /\ losses = 0

(* The operator edits the file; the server is not running. *)
Configure(c, o) ==
  /\ current' = c /\ old' = o
  /\ config' # config
  /\ UNCHANGED <<stored, loaded, announced, misread, losses>>

Loss == losses < MaxLosses /\ losses' = losses + 1
NoLoss == UNCHANGED <<misread, losses>>

-----------------------------------------------------------------------------
(* AttemptLoad *)

NotLoaded == state = "NOT_LOADED_YET"
Loads ==
  /\ state' = (IF current = NoKey THEN "NOT_PRESENT" ELSE "PRESENT")
  /\ value' = current
  /\ announced' = config
LoadFails ==
  /\ state' = "LOAD_FAILED"
  /\ UNCHANGED <<stored, config, value, transition, announced>>

(* The keys AttemptTransition works with, given the digest that was read:     *)
(* the old one is only asked for when there is a digest.                     *)
OldSecret(d) == IF d = NoKey THEN NoKey ELSE old
OldKeyWrong(d) == d # NoKey /\ old # NoKey /\ old # d
Decryptable(s, d) == d = NoKey \/ (OldSecret(d) # NoKey /\ s # <<>> /\ Last(s) = OldSecret(d))

(* Mutant: the secrets are not decrypted first. *)
EncryptedTwice(s, d) == s \o Under(current)

Reencrypted(s, d) == (IF d = NoKey THEN s ELSE Front(s)) \o Under(current)

Transitions(d, seen) ==
  /\ transition' = [secret |-> [a \in Accounts |-> IF a \in seen THEN Reencrypted(secret[a], d)
                                                                 ELSE secret[a]],
                    deletes |-> d # NoKey, digest |-> current]
  /\ Loads
  /\ UNCHANGED <<stored, config>>

HaveSecrets == {a \in Accounts : secret[a] # NoSecret}
Mismatch(d) == NotLoaded /\ d # current

(* The digest verifies the key, or there is neither. *)
Verified ==
  /\ NotLoaded /\ digest = current
  /\ Loads /\ NoLoss
  /\ UNCHANGED <<stored, config, transition>>

OldValueInvalid == Mismatch(digest) /\ OldKeyWrong(digest) /\ LoadFails /\ NoLoss

(* "Cannot decrypt old TOTP tokens" *)
CannotDecrypt ==
  /\ Mismatch(digest) /\ ~OldKeyWrong(digest)
  /\ \E a \in HaveSecrets : ~Decryptable(secret[a], digest)
  /\ LoadFails /\ NoLoss

AttemptTransition ==
  /\ Mismatch(digest) /\ ~OldKeyWrong(digest)
  /\ \A a \in HaveSecrets : Decryptable(secret[a], digest)
  /\ Transitions(digest, HaveSecrets) /\ NoLoss

(* The query for the digest fails, which reads as no digest ...               *)
DigestUnread ==
  /\ NotLoaded /\ digest # NoKey /\ Loss /\ misread' = misread \cup {"digest"}
  /\ IF current = NoKey THEN Loads /\ UNCHANGED <<stored, config, transition>>
                        ELSE Transitions(NoKey, HaveSecrets)

(* ... or that for the secrets, which reads as no accounts.                   *)
SecretsUnread ==
  /\ Mismatch(digest) /\ ~OldKeyWrong(digest) /\ HaveSecrets # {}
  /\ Loss /\ misread' = misread \cup {"secrets"}
  /\ Transitions(digest, {})

AttemptLoad == Verified \/ OldValueInvalid \/ CannotDecrypt \/ AttemptTransition
               \/ DigestUnread \/ SecretsUnread

-----------------------------------------------------------------------------
(* A database worker executes the transaction, as a whole or not at all.      *)
Queued == transition \notin {NoTransaction, RolledBack}

(* A second digest is a duplicate key. *)
Conflicts == transition.digest # NoKey /\ digest # NoKey /\ ~transition.deletes

(* Mutant: the secrets are written, the digest is not. *)
CommitSecretsOnly ==
  /\ Queued /\ ~Conflicts
  /\ secret' = transition.secret /\ UNCHANGED digest
  /\ transition' = NoTransaction
  /\ UNCHANGED <<config, state, value, announced, misread, losses>>

Commit ==
  /\ Queued /\ ~Conflicts
  /\ secret' = transition.secret
  /\ digest' = (IF transition.deletes \/ transition.digest # NoKey THEN transition.digest ELSE digest)
  /\ transition' = NoTransaction
  /\ UNCHANGED <<config, state, value, announced, misread, losses>>

RollBack ==
  /\ Queued
  /\ transition' = RolledBack
  /\ IF Conflicts THEN UNCHANGED losses ELSE Loss
  /\ UNCHANGED <<stored, config, state, value, announced, misread>>

-----------------------------------------------------------------------------
(* Properties *)

SecretTypes ==
  /\ secret \in [Accounts -> Seq(Keys) \cup {NoSecret}]
  /\ {digest, current, old, value} \subseteq Keys \cup {NoKey}
  /\ state \in {"NOT_LOADED_YET", "LOAD_FAILED", "NOT_PRESENT", "PRESENT"}
  /\ transition \in Transaction \cup {NoTransaction, RolledBack}
  /\ announced \in {<<>>} \cup ((Keys \cup {NoKey}) \X (Keys \cup {NoKey}))
  /\ misread \subseteq {"digest", "secrets"}
  /\ losses \in 0 .. MaxLosses

(* Every stored secret is encrypted once, with the key of the digest, whatever *)
(* starts, crashes, failed transactions and configurations came before, unless *)
(* a failed query was taken for an account table without secrets.            *)
OneKey ==
  "secrets" \notin misread => \A a \in Accounts : secret[a] \in {NoSecret, Under(digest)}

(* A logon then decrypts the secret it reads (AuthSession's "invalid          *)
(* ciphertext" is not met), once the transition is through.                  *)
Decrypts(s) == IF state = "PRESENT" THEN s # <<>> /\ Last(s) = value ELSE s = <<>>
LogonsDecrypt ==
  state \in {"PRESENT", "NOT_PRESENT"} /\ transition = NoTransaction /\ misread = {} =>
    \A a \in HaveSecrets : Decrypts(secret[a])

(* Together: the secrets can be read with the key the server has.             *)
SecretsReadable == OneKey /\ LogonsDecrypt

(* A start with a configuration that an earlier start announced as good does  *)
(* not fail, also when the earlier one ended before it had written anything. *)
RestartSucceeds == announced = config /\ misread = {} => state # "LOAD_FAILED"
=============================================================================
