----------------------------- MODULE Authority ------------------------------
(***************************************************************************)
(* The life of a certificate in the authority: one-time tokens             *)
(* (authority/authorize.go), Sign, Renew, Rekey and Revoke of X.509 and    *)
(* SSH certificates (authority/tls.go, authority/ssh.go), the handlers of  *)
(* api/ that call them, the RevokeCert of acme/api, and the database       *)
(* behind them: db.DB, or db.SimpleDB when none is configured.             *)
(*                                                                         *)
(* A process is one HTTP request; the CA may be reloaded (ca/ca.go) or may *)
(* stop and be started again at any time.  Time is in seconds, as the      *)
(* NumericDates of a token are.                                            *)
(***************************************************************************)
EXTENDS Naturals, FiniteSets, Sequences

CONSTANTS
  Serials,               \* serial numbers of certificates: bound what is signed
  SSH,                   \* those of SSH certificates
  Tokens,                \* the tokens clients hold
  Keys, KeyOf,           \* GetTokenID of a token, None when it is an error
  Procs,                 \* requests served at the same time
  MaxTime,               \* bound on the clock
  Persistent,            \* db.DB, and not db.SimpleDB
  DisableIssuedAtCheck,  \* of the configuration
  None

\* How a request is authorized.
By == {"token", "mTLS", "ACME"}

ASSUME AuthorityAssumption ==
  /\ SSH \subseteq Serials
  /\ KeyOf \in [Tokens -> Keys \cup {None}]
  /\ MaxTime \in Nat
  /\ Persistent \in BOOLEAN /\ DisableIssuedAtCheck \in BOOLEAN
  /\ None \notin Keys /\ None \notin Serials /\ None \notin Tokens /\ None \notin By

VARIABLES
  now,        \* the clock
  startTime,  \* Authority.startTime of the CA that is serving
  token,      \* the tokens issued so far
  used,       \* table used_ott, or SimpleDB.usedTokens
  signed,     \* serials of the certificates the CAS has signed
  certs,      \* tables x509_certs and ssh_certs
  casRevoked, \* X.509 certificates the CAS was told to revoke
  revoked,    \* tables revoked_x509_certs and revoked_ssh_certs
  delivered,  \* certificates sent to clients
  admitted,   \* history: how often authorizeToken accepted a reuse key
  acks,       \* history: how many requests were told they revoked a serial
  late,       \* history: certificates renewed for a request that arrived after
              \* their revocation had been reported
  loc         \* the local variables of each request

vars == <<now, startTime, token, used, signed, certs, casRevoked, revoked,
          delivered, admitted, acks, late, loc>>

tables == <<used, certs, casRevoked, revoked>>

\* What a request has to do, one certificate after the other: sign one, renew
\* or rekey old, revoke old.
Part == [op: {"Sign", "Renew", "Revoke"}, ssh: BOOLEAN, old: Serials \cup {None}]

\* A token is made for one operation; some carry no iat claim.
Token == [part: Part, iat: 0 .. MaxTime \cup {None}]

Labels == {"idle", "authorizeToken", "IsRevoked", "CreateCertificate", "store",
           "RevokeCertificate", "revoke", "respond"}

\* The locals of a request: how it is authorized, the parts still to do, the
\* certificate just signed, the certificates to send, the startTime of the
\* authority that serves it (where a token is checked against it), and (history)
\* the serials whose revocation had been reported when it arrived.
Locals ==
  [pc: Labels, by: By, tok: Tokens \cup {None}, parts: Seq(Part),
   new: Serials \cup {None}, out: SUBSET Serials, start: 0 .. MaxTime,
   acked: SUBSET Serials]

Idle ==
  [pc |-> "idle", by |-> "token", tok |-> None, parts |-> <<>>, new |-> None,
   out |-> {}, start |-> 0, acked |-> {}]

Init ==
  /\ now = 0 /\ startTime = 0
  /\ token = [t \in Tokens |-> None]
  /\ used = {} /\ signed = {} /\ certs = {} /\ casRevoked = {}
  /\ revoked = [s \in Serials |-> None]
  /\ delivered = {}
  /\ admitted = [k \in Keys |-> 0]
  /\ acks = [s \in Serials |-> 0]
  /\ late = {}
  /\ loc = [p \in Procs |-> Idle]

At(p, label) == loc[p].pc = label

part(p) == Head(loc[p].parts)

\* The request ends with an error.
Error(p) == loc' = [loc EXCEPT ![p] = Idle]

\* Where the work on a part begins, once the request is authorized.
Start(q) ==
  CASE q.op = "Sign" -> "CreateCertificate"
    [] q.op = "Renew" -> "IsRevoked"
    [] q.op = "Revoke" -> IF q.ssh THEN "revoke" ELSE "RevokeCertificate"

-----------------------------------------------------------------------------
(* Clients.                                                                 *)

\* A client makes a token for an operation, on a certificate it holds unless it
\* asks for a new one; SSH only where it is configured.
IssueToken(t, q) ==
  /\ token[t] = None
  /\ \E s \in Serials : q.ssh = (s \in SSH)
  /\ IF q.op = "Sign" THEN q.old = None
     ELSE q.old \in delivered /\ q.ssh = (q.old \in SSH)
  /\ \E iat \in {now, None} : token' = [token EXCEPT ![t] = [part |-> q, iat |-> iat]]
  /\ UNCHANGED <<now, startTime, tables, signed, delivered, admitted, acks, late, loc>>

Arrive(p, by, t, parts, label) ==
  /\ At(p, "idle")
  /\ loc' = [loc EXCEPT ![p] =
       [Idle EXCEPT !.pc = label, !.by = by, !.tok = t, !.parts = parts,
                    !.start = IF t = None THEN 0 ELSE startTime,
                    !.acked = {s \in Serials : acks[s] > 0 /\ \E i \in DOMAIN parts :
                                                            parts[i].old = s}]]
  /\ UNCHANGED <<now, startTime, token, tables, signed, delivered, admitted, acks, late>>

\* SSHSign may also sign a certificate to add the user (SignSSHAddUser), and an
\* identity certificate, which skips the token reuse check.
SSHSign ==
  LET addUser  == [op |-> "Sign", ssh |-> TRUE, old |-> None]
      identity == [op |-> "Sign", ssh |-> FALSE, old |-> None]
  IN  {<<addUser>>, <<identity>>, <<addUser, identity>>}

\* SSHRenew and SSHRekey renew the client's X.509 certificate with the SSH one.
renewIdentityCertificate ==
  {<<[op |-> "Renew", ssh |-> FALSE, old |-> s]>> : s \in delivered \ SSH}

\* What a handler may do after the part the token was made for.
Extra(q) ==
  {<<>>} \cup
  CASE ~q.ssh \/ q.op = "Revoke" -> {}
    [] q.op = "Sign" -> SSHSign
    [] q.op = "Renew" -> renewIdentityCertificate

\* Sign, Revoke, Renew with a token in its header, and the SSH handlers: the
\* same token may be presented any number of times.
RequestWithToken(p, t) ==
  /\ token[t] # None
  /\ \E extra \in Extra(token[t].part) :
       Arrive(p, "token", t, <<token[t].part>> \o extra, "authorizeToken")

\* Renew and Rekey over mTLS; Revoke of the client's own certificate.
RequestWithCertificate(p, s, op) ==
  /\ s \in delivered \ SSH
  /\ op # "Sign"
  /\ LET q == [op |-> op, ssh |-> FALSE, old |-> s] IN
     Arrive(p, "mTLS", None, <<q>>, Start(q))

\* FinalizeOrder signs without a token; RevokeCert first asks IsRevoked.
RequestByACME(p, s, op) ==
  /\ op # "Renew"
  /\ IF op = "Sign" THEN s = None ELSE s \in delivered \ SSH
  /\ LET q == [op |-> op, ssh |-> FALSE, old |-> s] IN
     Arrive(p, "ACME", None, <<q>>, IF op = "Sign" THEN Start(q) ELSE "IsRevoked")

-----------------------------------------------------------------------------
(* The authority.                                                           *)

\* authorizeToken refuses a token issued before the start of the CA;
\* AuthorizeRenewToken does not ask.
IssuedBeforeStart(p) ==
  /\ ~DisableIssuedAtCheck
  /\ part(p).ssh \/ part(p).op # "Renew"
  /\ LET iat == token[loc[p].tok].iat IN iat # None /\ iat < loc[p].start

\* UseToken stores the reuse key of the token and fails when it is there; a
\* token without one may be used again.
UseToken(p, key) ==
  /\ key \notin used
  /\ used' = used \cup {key}
  /\ admitted' = [admitted EXCEPT ![key] = @ + 1]

authorizeToken(p) ==
  /\ At(p, "authorizeToken")
  /\ LET key == KeyOf[loc[p].tok]
         Go == loc' = [loc EXCEPT ![p].pc = Start(part(p))]
     IN
     /\ ~IssuedBeforeStart(p)
     /\ IF key = None THEN Go /\ UNCHANGED <<used, admitted>>
        ELSE UseToken(p, key) /\ Go
  /\ UNCHANGED <<now, startTime, token, certs, casRevoked, revoked, signed,
                 delivered, acks, late>>

\* Mutant: only the SSH certificate of SSHRenew is looked up.
IsRevokedSSH(p) ==
  /\ At(p, "IsRevoked")
  /\ IF part(p).ssh /\ revoked[part(p).old] # None THEN Error(p)
     ELSE loc' = [loc EXCEPT ![p].pc =
            IF part(p).op = "Renew" THEN "CreateCertificate" ELSE "RevokeCertificate"]
  /\ UNCHANGED <<now, startTime, token, tables, signed, delivered, admitted, acks, late>>

\* authorizeRenew, authorizeSSHCertificate and RevokeCert look in the table of
\* revoked certificates, which is always empty in a SimpleDB.
IsRevoked(p) ==
  /\ At(p, "IsRevoked")
  /\ IF revoked[part(p).old] # None THEN Error(p)
     ELSE loc' = [loc EXCEPT ![p].pc =
            IF part(p).op = "Renew" THEN "CreateCertificate" ELSE "RevokeCertificate"]
  /\ UNCHANGED <<now, startTime, token, tables, signed, delivered, admitted, acks, late>>

\* The CAS, or the SSH key of the authority, signs a certificate with a new
\* serial number.
CreateCertificate(p, s) ==
  /\ At(p, "CreateCertificate")
  /\ s \notin signed /\ (s \in SSH) = part(p).ssh
  /\ signed' = signed \cup {s}
  /\ loc' = [loc EXCEPT ![p].new = s, ![p].pc = "store"]
  /\ UNCHANGED <<now, startTime, token, tables, delivered, admitted, acks, late>>

Sign(p, s) == CreateCertificate(p, s) /\ part(p).op = "Sign" /\ ~part(p).ssh

\* Renew is Rekey with the key of the old certificate.
Rekey(p, s) == CreateCertificate(p, s) /\ part(p).op = "Renew" /\ ~part(p).ssh

SignSSH(p, s) == CreateCertificate(p, s) /\ part(p).op = "Sign" /\ part(p).ssh

\* RenewSSH and RekeySSH.
RenewSSH(p, s) == CreateCertificate(p, s) /\ part(p).op = "Renew" /\ part(p).ssh

\* Mutant: the certificate is stored only when it was signed for a token.
storeIfToken(p) == IF loc[p].by = "token" THEN certs \cup {loc[p].new} ELSE certs

\* storeCertificate and its three likes; the ErrNotImplemented of SimpleDB is
\* ignored.
Stored(p) == IF Persistent THEN certs \cup {loc[p].new} ELSE certs

store(p) ==
  /\ At(p, "store")
  /\ certs' = Stored(p)
  /\ late' = IF part(p).op = "Renew" /\ part(p).old \in loc[p].acked
             THEN late \cup {part(p).old} ELSE late
  /\ LET rest == Tail(loc[p].parts) IN
     loc' = [loc EXCEPT ![p].parts = rest,
                        ![p].out = @ \cup {loc[p].new},
                        ![p].new = None,
                        ![p].pc = IF rest = <<>> THEN "respond" ELSE Start(Head(rest))]
  /\ UNCHANGED <<now, startTime, token, used, casRevoked, revoked, signed,
                 delivered, admitted, acks>>

\* The CAS is told first (a no-op in SoftCAS) ...
RevokeCertificate(p) ==
  /\ At(p, "RevokeCertificate")
  /\ casRevoked' = casRevoked \cup {part(p).old}
  /\ loc' = [loc EXCEPT ![p].pc = "revoke"]
  /\ UNCHANGED <<now, startTime, token, used, certs, revoked, signed, delivered,
                 admitted, acks, late>>

\* Mutant: the row is set whether it exists or not.
RevokeSets(p, s) == revoked' = [revoked EXCEPT ![s] = loc[p].by]

\* ... and then the database, where the row must not exist: otherwise the
\* request fails with ErrAlreadyExists.
Revoke(p, s) ==
  /\ revoked[s] = None
  /\ revoked' = [revoked EXCEPT ![s] = loc[p].by]

revoke(p) ==
  /\ At(p, "revoke")
  /\ Persistent
  /\ Revoke(p, part(p).old)
  /\ loc' = [loc EXCEPT ![p].pc = "respond"]
  /\ UNCHANGED <<now, startTime, token, used, certs, casRevoked, signed, delivered,
                 admitted, acks, late>>

\* The client has its certificates, or knows that its certificate is revoked.
respond(p) ==
  /\ At(p, "respond")
  /\ delivered' = delivered \cup loc[p].out
  /\ acks' = [s \in Serials |->
       IF loc[p].parts # <<>> /\ s = part(p).old THEN acks[s] + 1 ELSE acks[s]]
  /\ loc' = [loc EXCEPT ![p] = Idle]
  /\ UNCHANGED <<now, startTime, token, tables, signed, admitted, late>>

\* A check of the provisioner or of a policy refuses, a call fails, or one of the
\* conditions above does not hold: the request ends with an error and what it
\* has written stays.
Fail(p) ==
  /\ ~At(p, "idle")
  /\ Error(p)
  /\ UNCHANGED <<now, startTime, token, tables, signed, delivered, admitted, acks, late>>

-----------------------------------------------------------------------------
(* The CA process.                                                          *)

\* Reload makes a new Authority on the same database; requests in progress go on
\* with the old one.
Reload ==
  /\ startTime' = now
  /\ UNCHANGED <<now, token, tables, signed, delivered, admitted, acks, late, loc>>

\* Mutant: the database of used tokens is opened anew.
RestartForgets ==
  /\ startTime' = now
  /\ used' = {}
  /\ loc' = [p \in Procs |-> Idle]
  /\ UNCHANGED <<now, token, certs, casRevoked, revoked, signed, delivered,
                 admitted, acks, late>>

\* The CA stops, or crashes, and is started again; a SimpleDB starts empty.
Restart ==
  /\ startTime' = now
  /\ used' = IF Persistent THEN used ELSE {}
  /\ loc' = [p \in Procs |-> Idle]
  /\ UNCHANGED <<now, token, certs, casRevoked, revoked, signed, delivered,
                 admitted, acks, late>>

Tick ==
  /\ now < MaxTime
  /\ now' = now + 1
  /\ UNCHANGED <<startTime, token, tables, signed, delivered, admitted, acks, late, loc>>

Request(p) ==
  \/ \E t \in Tokens : RequestWithToken(p, t)
  \/ \E s \in Serials, op \in {"Renew", "Revoke"} : RequestWithCertificate(p, s, op)
  \/ \E s \in Serials \cup {None}, op \in {"Sign", "Revoke"} : RequestByACME(p, s, op)

Step(p) ==
  \/ authorizeToken(p)
  \/ IsRevoked(p)
  \/ \E s \in Serials : Sign(p, s) \/ Rekey(p, s) \/ SignSSH(p, s) \/ RenewSSH(p, s)
  \/ store(p)
  \/ RevokeCertificate(p)
  \/ revoke(p)
  \/ respond(p)
  \/ Fail(p)

Next ==
  \/ \E t \in Tokens, q \in Part : IssueToken(t, q)
  \/ \E p \in Procs : Request(p) \/ Step(p)
  \/ Reload
  \/ Restart
  \/ Tick

Spec == Init /\ [][Next]_vars

-----------------------------------------------------------------------------
(* Properties.                                                              *)

\* Tables, histories and locals hold values of their types.
TypeOK ==
  /\ now \in 0 .. MaxTime /\ startTime \in 0 .. MaxTime
  /\ token \in [Tokens -> Token \cup {None}]
  /\ used \subseteq Keys
  /\ signed \subseteq Serials /\ certs \subseteq Serials
  /\ casRevoked \subseteq Serials
  /\ revoked \in [Serials -> By \cup {None}]
  /\ delivered \subseteq Serials
  /\ admitted \in [Keys -> Nat] /\ acks \in [Serials -> Nat]
  /\ late \subseteq Serials
  /\ loc \in [Procs -> Locals]

\* A reuse key, one token or all tokens of one cloud instance, authorizes one
\* request at most, also when requests race and when the CA is reloaded or
\* restarted ("tokens can only be used once", authorizeToken).
TokenUsedOnce ==
  \A k \in Keys : admitted[k] <= 1

\* Every certificate a client holds is among the authority's certificates in the
\* database, whichever handler issued it (storeCertificate), so that Revoke can
\* find it.  The table of ACME, in which RevokeCert looks, is in AcmeOrder.
DeliveredStored ==
  Persistent => delivered \subseteq certs

\* A revocation is reported to one request only, and what was reported is in the
\* database and, for X.509, at the CAS: no crash, race or restart loses it.
RevocationReportedOnce ==
  \A s \in Serials :
    /\ acks[s] <= 1
    /\ acks[s] = 1 => revoked[s] # None /\ (s \in casRevoked \/ s \in SSH)

\* Once its revocation was reported, a certificate cannot be renewed: no request
\* that arrives later, by mTLS, by token or with an SSH certificate, renews it
\* ("prevent existing certificates from being renewed", Revoke).
NoRenewalAfterRevocation == late = {}

\* The record of a revocation is never replaced or removed.
RevocationKept ==
  [][\A s \in Serials : revoked[s] # None => revoked'[s] = revoked[s]]_vars

=============================================================================
