----------------------------- MODULE AcmeTables -----------------------------
(***************************************************************************)
(* The tables of the ACME database that creating requests write together:   *)
(* orders with what hangs on them (AcmeNewOrder), external account keys     *)
(* (AcmeEABKeys) and the challenges that are validated (AcmeChallenge).     *)
(* The three parts write different tables and share no lock.                *)
(***************************************************************************)
EXTENDS AcmeNewOrder

CONSTANTS
  Provs, KeyIDs, Refs,
  KeyAccounts,       \* the accounts an external account key may be bound to
  Tokens, AccountKeys, Hosts, Addresses, Devices

VARIABLES
  key, refIndex, keyList, rows, op, created, used, conflict,
  ch, jwk, enabled, status, err, proved, refuted, missed

Keys == INSTANCE AcmeEABKeys WITH list <- keyList, Accounts <- KeyAccounts

Challenge == INSTANCE AcmeChallenge

keyVars == << key, refIndex, keyList, rows, op, created, used, conflict >>
chVars == << ch, jwk, enabled, status, err, proved, refuted, missed >>

-----------------------------------------------------------------------------
(* What the proofs need of the environment.                                 *)

\* "No row", "no order" and "unlocked" are told apart from what is there.
NoneDistinct == None \notin Procs \cup Orders \cup Accounts \cup Order \cup [chals: SUBSET Challenges]

\* A missing row or value is not an ID, a reference or a key.
KeyNoneDistinct == None \notin KeyIDs \cup Provs \cup Refs \cup KeyAccounts \cup Keys!Key

\* What is absent is not a key authorization, a device, a certificate or a
\* statement, and no device has the name of a serial number that does not parse.
AnswersDistinct ==
  /\ None \notin Challenge!KeyAuthorizations \cup Challenge!Certificates
  /\ None \notin Challenge!AppleStatements \cup Challenge!StepStatements \cup [format: {"tpm", "unknown"}]
  /\ Devices \cap {None, "malformed", "trailing"} = {}

-----------------------------------------------------------------------------
(* GetExternalAccountKeyByReference never follows a reference to a key that *)
(* is gone, or to a key of another provisioner or reference, wherever an    *)
(* operation stopped: CreateExternalAccountKey writes the key before the    *)
(* reference, DeleteExternalAccountKey deletes the reference first.         *)
ReferenceLeadsToKey == Keys!ReferenceLeadsToKey

(* A key whose creation was reported as a success stays in its              *)
(* provisioner's list as long as it is stored, whatever is added to the     *)
(* list and deleted from it meanwhile (addEAKID, deleteEAKID).              *)
CreatedKeyListed == Keys!CreatedKeyListed

(* A challenge is valid only when some answer to it proved control of the   *)
(* identifier under the account's key, invalid only when some answer that   *)
(* did arrive failed to, a valid one carries no error of an earlier         *)
(* attempt, and a full proof, once stored, makes it valid: lost             *)
(* connections, undecodable payloads, records that are not there yet and    *)
(* failures of the database settle nothing (Challenge.Validate).            *)
ChallengeFollowsProof == Challenge!ChallengeFollowsProof

=============================================================================
