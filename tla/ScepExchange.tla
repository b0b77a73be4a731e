---------------------------- MODULE ScepExchange ----------------------------
(***************************************************************************)
(* SCEP requests in progress (scep/api/api.go, scep/authority.go): a client  *)
(* asks a provisioner for a certificate, the request is checked against the  *)
(* challenge password, signed and stored, and the answer is encrypted with   *)
(* the algorithm of the provisioner.  The algorithm is a global variable of  *)
(* the pkcs7 library that SignCSR sets and restores around the encryption.   *)
(*                                                                         *)
(* Messages are told apart by type; cryptography fails or does not.  The     *)
(* checks of Authority.Sign are those of CertValidity and ProvisionerSign.   *)
(***************************************************************************)
EXTENDS Naturals, FiniteSets

CONSTANTS
  Requests,   \* requests in progress
  Provs,      \* the SCEP provisioners
  Others,     \* names of other provisioners and of none
  Algorithm,  \* [Provs -> algorithm]: GetContentEncryptionAlgorithm
  Password,   \* [Provs -> password]: GetChallengePassword
  Default     \* the algorithm of the library

VARIABLES
  contentEncryptionAlgorithm,  \* pkcs7.ContentEncryptionAlgorithm
  req,                         \* [Requests -> the locals of a request]
  stored                       \* the requests whose certificate is in the database

vars == << contentEncryptionAlgorithm, req, stored >>

Operations == {"GetCACert", "GetCACaps", "PKIOperation"}
\* The types that carry a certificate request; GetCert stands for the others.
CSRReqs == {"PKCSReq", "UpdateReq", "RenewalReq"}
MessageTypes == CSRReqs \cup {"GetCert"}
Passwords == {Password[p] : p \in Provs}

NoRequest ==
  [pc |-> "none", prov |-> "", type |-> "", password |-> "", toRestore |-> Default, with |-> Default, answer |-> ""]

Init ==
  /\ contentEncryptionAlgorithm = Default
  /\ req = [r \in Requests |-> NoRequest]
  /\ stored = {}

Goto(r, pc) == req' = [req EXCEPT ![r].pc = pc]

Answer(r, a) == req' = [req EXCEPT ![r].pc = "done", ![r].answer = a]

-----------------------------------------------------------------------------
\* decodeRequest and lookupProvisioner; the reads are answered at once.
Receive(r) ==
  /\ req[r].pc = "none"
  /\ \E p \in Provs \cup Others, op \in Operations, t \in MessageTypes, w \in Passwords :
       req' = [req EXCEPT ![r] =
         [NoRequest EXCEPT !.prov = p, !.type = t, !.password = w,
            !.pc = IF p \in Provs /\ op = "PKIOperation" THEN "decrypt" ELSE "done",
            !.answer = CASE p \notin Provs -> "error" [] op = "PKIOperation" -> "" [] OTHER -> op]]
  /\ UNCHANGED << contentEncryptionAlgorithm, stored >>

\* DecryptPKIEnvelope: the message may not parse or decrypt.  Of the types without
\* a request some are refused and the others end the handler with a nil request.
DecryptPKIEnvelope(r) ==
  /\ req[r].pc = "decrypt"
  /\ \/ Answer(r, "error")
     \/ req[r].type \in CSRReqs /\ Goto(r, "match")
  /\ UNCHANGED << contentEncryptionAlgorithm, stored >>

\* The challenge password of an UpdateReq is not matched.
MatchChallengePassword(r) ==
  /\ req[r].pc = "match"
  /\ Goto(r, IF req[r].type \in {"PKCSReq", "RenewalReq"} /\ req[r].password # Password[req[r].prov]
             THEN "failure" ELSE "sign")
  /\ UNCHANGED << contentEncryptionAlgorithm, stored >>

\* SignCSR as far as Authority.Sign, which stores the certificate.
Sign(r) ==
  /\ req[r].pc = "sign"
  /\ \/ Goto(r, "failure") /\ UNCHANGED stored
     \/ Goto(r, "save") /\ stored' = stored \cup {r}
  /\ UNCHANGED contentEncryptionAlgorithm

\* encryptionAlgorithmToRestore
SaveAlgorithm(r) ==
  /\ req[r].pc = "save"
  /\ req' = [req EXCEPT ![r].pc = "set", ![r].toRestore = contentEncryptionAlgorithm]
  /\ UNCHANGED << contentEncryptionAlgorithm, stored >>

SetAlgorithm(r) ==
  /\ req[r].pc = "set"
  /\ contentEncryptionAlgorithm' = Algorithm[req[r].prov]
  /\ Goto(r, "encrypt")
  /\ UNCHANGED stored

\* pkcs7.Encrypt fails when the certificate of the client has no RSA key, and
\* SignCSR returns at once.
Encrypt(r) ==
  /\ req[r].pc = "encrypt"
  /\ \/ Goto(r, "failure")
     \/ req' = [req EXCEPT ![r].pc = "restore", ![r].with = contentEncryptionAlgorithm]
  /\ UNCHANGED << contentEncryptionAlgorithm, stored >>

RestoreAlgorithm(r) ==
  /\ req[r].pc = "restore"
  /\ contentEncryptionAlgorithm' = req[r].toRestore
  /\ Goto(r, "finish")
  /\ UNCHANGED stored

\* The CertRep is signed with the key of the CA.
Finish(r) ==
  /\ req[r].pc = "finish"
  /\ Answer(r, "SUCCESS") \/ Goto(r, "failure")
  /\ UNCHANGED << contentEncryptionAlgorithm, stored >>

CreateFailureResponse(r) ==
  /\ req[r].pc = "failure"
  /\ Answer(r, "FAILURE") \/ Answer(r, "error")
  /\ UNCHANGED << contentEncryptionAlgorithm, stored >>

Next ==
  \E r \in Requests :
    \/ Receive(r) \/ DecryptPKIEnvelope(r) \/ MatchChallengePassword(r) \/ Sign(r)
    \/ SaveAlgorithm(r) \/ SetAlgorithm(r) \/ Encrypt(r) \/ RestoreAlgorithm(r)
    \/ Finish(r) \/ CreateFailureResponse(r)

Spec == Init /\ [][Next]_vars

-----------------------------------------------------------------------------
Encrypting(r) == req[r].pc \in {"encrypt", "restore"}

\* SignCSR: "We need to restore the current setting after the cryptographic
\* operation, so that other usages of the library are not influenced by this call
\* to Encrypt()": whenever no request encrypts, the library has its own setting.
\* Does not hold, see the README.
LibraryUninfluenced ==
  (\A r \in Requests : ~Encrypting(r)) => contentEncryptionAlgorithm = Default

\* GetContentEncryptionAlgorithm "returns the numeric identifier for the pkcs7
\* package encryption algorithm to use": the answer to a request is encrypted with
\* the algorithm of its provisioner, whatever other requests do (SignCSR).
EncryptedAsConfigured ==
  \A r \in Requests : req[r].answer = "SUCCESS" => req[r].with = Algorithm[req[r].prov]

=============================================================================
