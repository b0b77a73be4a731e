--------------------------- MODULE AcmeChallenge ---------------------------
(***************************************************************************)
(* The validation of one ACME challenge (acme/challenge.go): what each of   *)
(* the four validators makes of every answer the client's server, zone or   *)
(* device can give, through repeated attempts and failures of the database.  *)
(* How requests interleave around it is the subject of AcmeOrder.            *)
(***************************************************************************)
EXTENDS Naturals, Sequences

CONSTANTS
  Tokens,      \* challenge tokens
  AccountKeys, \* thumbprints of account keys
  Hosts,       \* DNS names, without regard to case
  Addresses,   \* IP addresses
  Devices,     \* serial numbers and UDIDs
  None

VARIABLES
  ch,       \* the challenge: type, value and token
  jwk,      \* the key of the account that validates it
  enabled,  \* the attestation formats of the provisioner
  status,   \* the stored status
  err,      \* whether an error is stored with it
  proved, refuted, \* history: an answer proved or refuted control
  missed    \* history: the outcome of an answer that proves it was lost

vars == << ch, jwk, enabled, status, err, proved, refuted, missed >>

\* A key authorization; its hash identifies it.
KeyAuthorizations == Tokens \X AccountKeys

KeyAuthorization(c, key) == << c.token, key >>

\* The host of a wildcard is validated.
Name(host, wildcard) == [host |-> host, wildcard |-> wildcard]

ValuesOf ==
  [type \in {"http-01", "dns-01", "tls-alpn-01", "device-attest-01"} |->
     CASE type = "http-01" -> {Name(h, FALSE) : h \in Hosts \cup Addresses}
       [] type = "dns-01" -> {Name(h, w) : h \in Hosts, w \in BOOLEAN}
       [] type = "tls-alpn-01" -> {Name(h, FALSE) : h \in Hosts \cup Addresses}
       [] type = "device-attest-01" -> {Name(d, FALSE) : d \in Devices}]

(* The outcome of a validator: the challenge becomes valid or invalid, keeps *)
(* its status with an error stored, or the handler fails with nothing        *)
(* stored.                                                                   *)
Outcomes == {"valid", "invalid", "retry", "fails"}

-----------------------------------------------------------------------------
(* http-01: no connection, an error status, a body cut short, or a body.     *)
HttpAnswers ==
  [reply: {"unreachable", "status", "cut"}, body: {None}]
    \cup [reply: {"body"}, body: KeyAuthorizations]

http01Validate(c, key, answer) ==
  CASE answer.reply \in {"unreachable", "status"} -> "retry"
    [] answer.reply = "cut" -> "fails"
    [] answer.reply = "body" ->
         IF answer.body = KeyAuthorization(c, key) THEN "valid" ELSE "invalid"

(* dns-01: the lookup fails, or finds records for the host.                  *)
TxtAnswers ==
  [reply: {"error"}, records: {{}}] \cup [reply: {"records"}, records: SUBSET KeyAuthorizations]

\* Mutant: a record that is not there settles the challenge.
dns01ValidateSettles(c, key, answer) ==
  CASE answer.reply = "error" -> "retry"
    [] answer.reply = "records" ->
         IF KeyAuthorization(c, key) \in answer.records THEN "valid" ELSE "invalid"

dns01Validate(c, key, answer) ==
  IF answer.reply = "records" /\ KeyAuthorization(c, key) \in answer.records
  THEN "valid" ELSE "retry"

(* tls-alpn-01: the dial fails, with the alert no_application_protocol or    *)
(* otherwise, or yields a protocol and at most one certificate.  A DNS name  *)
(* is compared without regard to case.  The extensions are those with the    *)
(* identifier of acmeIdentifier or its obsolete predecessor, in order.       *)
acmeIdentifier ==
  [oid: {"acmeIdentifier"}, critical: BOOLEAN, wellFormed: {TRUE}, hash: KeyAuthorizations]
    \cup [oid: {"acmeIdentifier"}, critical: BOOLEAN, wellFormed: {FALSE}, hash: {None}]

obsolete == [oid |-> "obsolete", critical |-> TRUE, wellFormed |-> TRUE, hash |-> None]

ExtensionLists ==
  {<<>>, << obsolete >>}
    \cup UNION {{<< e >>, << e, obsolete >>, << obsolete, e >>} : e \in acmeIdentifier}

UpTo2(S) == {<<>>} \cup {<< x >> : x \in S} \cup {<< x, y >> : x, y \in S}

Certificates ==
  [dnsNames: UpTo2(Hosts), ipAddresses: UpTo2(Addresses), extensions: ExtensionLists]

TlsAnswers ==
  [reply: {"no_application_protocol", "dial"}, protocol: {None}, leaf: {None}]
    \cup [reply: {"connected"}, protocol: {"acme-tls/1", "other"},
          leaf: Certificates \cup {None}]

\* The names of the leaf: a single IP address when it has no DNS name, a single
\* DNS name otherwise.
namesMatch(c, leaf) ==
  IF leaf.dnsNames = <<>>
  THEN leaf.ipAddresses = << c.value.host >>
  ELSE leaf.dnsNames = << c.value.host >>

\* The loop over the extensions ends at the first acmeIdentifier.
extensionVerdict(extensions, keyAuth) ==
  IF \E i \in DOMAIN extensions :
       LET e == extensions[i]
       IN /\ e.oid = "acmeIdentifier"
          /\ \A j \in 1 .. i - 1 : extensions[j].oid # "acmeIdentifier"
          /\ e.critical /\ e.wellFormed /\ e.hash = keyAuth
  THEN "valid" ELSE "invalid"

tlsalpn01Validate(c, key, answer) ==
  CASE answer.reply = "dial" -> "retry"
    [] answer.reply = "no_application_protocol" -> "invalid"
    [] answer.reply = "connected" ->
         IF answer.leaf = None \/ answer.protocol # "acme-tls/1" THEN "invalid"
         ELSE IF ~namesMatch(c, answer.leaf) THEN "invalid"
         ELSE extensionVerdict(answer.leaf.extensions, KeyAuthorization(c, key))

(* device-attest-01: a payload that cannot be decoded or reports an error,   *)
(* or an attestation statement.                                              *)
Formats == {"apple", "step", "tpm"}

\* All formats, unless the provisioner has a list of its own.
enabledFormats(list) == IF list = {} THEN Formats ELSE list

Chains == {"absent", "empty", "malformed", "untrusted", "verified"}

AppleStatements ==
  [format: {"apple"}, x5c: Chains, nonce: {None} \cup Tokens, serial: Devices \cup {None},
   udid: Devices \cup {None}]

\* The signature is None when it is absent or malformed.  The serial number of
\* the leaf may be missing, not parse, or be followed by other bytes.
SerialNumbers == Devices \cup {None, "malformed", "trailing"}

StepStatements ==
  [format: {"step"}, x5c: Chains, sig: {None}, publicKey: {"P-256"}, serial: {None}]
  \cup [format: {"step"}, x5c: {"verified"}, sig: KeyAuthorizations,
        publicKey: {"P-256", "P-384", "RSA", "Ed25519", "other"}, serial: SerialNumbers]

AttestationAnswers ==
  [reply: {"not JSON", "error", "not CBOR"}, statement: {None}]
    \cup [reply: {"attObj"},
          statement: AppleStatements \cup StepStatements \cup [format: {"tpm", "unknown"}]]

(* The outcome of the format, or "data" when it yields the data of the leaf. *)
doAppleAttestationFormat(s) == IF s.x5c = "verified" THEN "data" ELSE "invalid"

\* WrapError returns a nil *Error for a nil error: for an elliptic curve that is
\* not supported, and for bytes after the serial number, the caller gets an error
\* that it dereferences, and the request panics.
doStepAttestationFormat(c, key, s) ==
  IF s.x5c # "verified" \/ s.sig = None THEN "invalid"
  ELSE IF s.publicKey = "P-384" THEN "fails"
  ELSE IF s.publicKey = "other" \/ s.sig # KeyAuthorization(c, key) THEN "invalid"
  ELSE CASE s.serial = "malformed" -> "invalid"
         [] s.serial = "trailing" -> "fails"
         [] OTHER -> "data"

nonceMatches(c, s) == s.nonce \in {None, c.token}

deviceAttest01Validate(c, key, answer) ==
  LET s == answer.statement
      format == IF s.format = "apple" THEN doAppleAttestationFormat(s)
                ELSE doStepAttestationFormat(c, key, s)
  IN CASE answer.reply \in {"not JSON", "not CBOR"} -> "fails"
       [] answer.reply = "error" -> "invalid"
       [] answer.reply = "attObj" ->
            IF s.format \notin enabled \cap {"apple", "step"} THEN "invalid"
            ELSE IF format # "data" THEN format
            ELSE IF s.format = "apple"
                 THEN IF nonceMatches(c, s) /\ c.value.host \in {s.udid, s.serial}
                      THEN "valid" ELSE "invalid"
                 ELSE IF s.serial = c.value.host THEN "valid" ELSE "invalid"

-----------------------------------------------------------------------------
Answers ==
  [type \in DOMAIN ValuesOf |->
     CASE type = "http-01" -> HttpAnswers
       [] type = "dns-01" -> TxtAnswers
       [] type = "tls-alpn-01" -> TlsAnswers
       [] type = "device-attest-01" -> AttestationAnswers]

Outcome(c, key, answer) ==
  CASE c.type = "http-01" -> http01Validate(c, key, answer)
    [] c.type = "dns-01" -> dns01Validate(c, key, answer)
    [] c.type = "tls-alpn-01" -> tlsalpn01Validate(c, key, answer)
    [] c.type = "device-attest-01" -> deviceAttest01Validate(c, key, answer)

(* What an answer shows, whichever way the validator reads it.               *)
Proves(c, key, answer) ==
  LET keyAuth == KeyAuthorization(c, key)
      s == answer.statement
  IN CASE c.type = "http-01" -> answer.body = keyAuth
       [] c.type = "dns-01" -> keyAuth \in answer.records
       [] c.type = "tls-alpn-01" ->
            /\ answer.leaf # None
            /\ answer.protocol = "acme-tls/1"
            /\ LET names == answer.leaf.dnsNames \o answer.leaf.ipAddresses
               IN  \E i \in DOMAIN names : names[i] = c.value.host
            /\ LET extensions == answer.leaf.extensions
               IN  \E i \in DOMAIN extensions :
                     extensions[i].critical /\ extensions[i].hash = keyAuth
       [] c.type = "device-attest-01" ->
            /\ s # None
            /\ s.format \in enabled \cap {"apple", "step"}
            /\ s.x5c = "verified"
            /\ \/ s.serial = c.value.host
               \/ s.format = "apple" /\ s.udid = c.value.host
            /\ IF s.format = "apple" THEN s.nonce \in {None, c.token}
               ELSE s.publicKey \in {"P-256", "RSA", "Ed25519"} /\ s.sig = keyAuth

\* The certificate of a tls-alpn-01 answer names nothing else (RFC 8737).
NamedAlone(c, answer) ==
  c.type = "tls-alpn-01" /\ answer.leaf # None =>
    Len(answer.leaf.dnsNames \o answer.leaf.ipAddresses) = 1

ProvesFully(c, key, answer) == Proves(c, key, answer) /\ NamedAlone(c, answer)

\* An answer that did not arrive, and records that may still be propagating,
\* settle nothing.
Transient(c, answer) ==
  \/ c.type = "dns-01"
  \/ answer.reply \in {"unreachable", "status", "cut", "dial", "not JSON", "not CBOR"}

-----------------------------------------------------------------------------
ChallengesToValidate == UNION {[type: {t}, value: ValuesOf[t], token: Tokens] : t \in DOMAIN ValuesOf}

\* NewChallenge stores a pending challenge; the provisioner enables formats.
Init ==
  /\ ch \in ChallengesToValidate /\ jwk \in AccountKeys
  /\ enabled \in {enabledFormats(list) : list \in SUBSET Formats}
  /\ ch.type # "device-attest-01" => enabled = Formats
  /\ status = "pending" /\ err = FALSE
  /\ proved = FALSE /\ refuted = FALSE /\ missed = FALSE

\* The error stored with a challenge, and its status.
storeError(outcome) ==
  /\ err' = TRUE
  /\ status' = IF outcome = "invalid" THEN "invalid" ELSE status

storeValid ==
  /\ err' = FALSE
  /\ status' = "valid"

\* One request to validate.  Nothing is validated again once the challenge is
\* settled; an update that fails leaves the stored challenge as it was.
Validate(answer, saved) ==
  LET outcome == Outcome(ch, jwk, answer)
  IN /\ status = "pending"
     /\ IF outcome = "fails" \/ ~saved THEN UNCHANGED << err, status >>
        ELSE IF outcome = "valid" THEN storeValid
        ELSE storeError(outcome)
     /\ proved' = (proved \/ Proves(ch, jwk, answer))
     /\ refuted' = (refuted \/ ~(ProvesFully(ch, jwk, answer) \/ Transient(ch, answer)))
     /\ missed' = (saved /\ ProvesFully(ch, jwk, answer) /\ status' # "valid")
     /\ UNCHANGED << ch, jwk, enabled >>

ValidateSettled ==
  /\ status # "pending"
  /\ UNCHANGED vars

Next ==
  \/ \E answer \in Answers[ch.type], saved \in BOOLEAN : Validate(answer, saved)
  \/ ValidateSettled

Spec == Init /\ [][Next]_vars

-----------------------------------------------------------------------------
TypeOK ==
  /\ ch \in ChallengesToValidate /\ jwk \in AccountKeys /\ enabled \subseteq Formats
  /\ status \in {"pending", "valid", "invalid"}
  /\ << err, proved, refuted, missed >> \in BOOLEAN \X BOOLEAN \X BOOLEAN \X BOOLEAN

(* A challenge is valid only when some answer to it proved control of the    *)
(* identifier under the account's key, invalid only when some answer that    *)
(* did arrive failed to, a valid one carries no error of an earlier attempt, *)
(* and a full proof, once stored, makes it valid: lost connections,          *)
(* undecodable payloads, records that are not there yet and failures of the  *)
(* database settle nothing (Validate and the four validators).               *)
ChallengeFollowsProof ==
  /\ status = "valid" => proved /\ ~err
  /\ status = "invalid" => refuted
  /\ ~missed
=============================================================================
