------------------------- MODULE ProvisionerTokens --------------------------
(***************************************************************************)
(* Who may do what with a token: how the authority finds the provisioner a *)
(* token belongs to (Collection.LoadByToken), under which identifier it    *)
(* records the token as used (GetTokenID, Authority.UseToken), and what    *)
(* each type of provisioner then checks (authorizeToken and the methods    *)
(* Authorize... of authority/provisioner).                                 *)
(*                                                                         *)
(* A request takes two steps: the authority loads the provisioner and      *)
(* records the token; the provisioner validates it.  Between the two time  *)
(* may pass and other requests may be served.  Tokens are the ones the     *)
(* provisioners' own issuers hand out, and any that are addressed to an    *)
(* ACME or SCEP provisioner, which has no issuer.  Time is in minutes.     *)
(***************************************************************************)
EXTENDS Integers, FiniteSets, Sequences, TLC

CONSTANTS
  Provisioners,  \* the collection: a set of records Provisioner
  Tokens,        \* the tokens clients hold: a function to records Token
  Requests,      \* bound on the requests
  MaxTime        \* bound on the clock

VARIABLES
  now,        \* the clock
  startTime,  \* Authority.startTime
  sshCA,      \* the authority has an SSH host or user key
  used,       \* table used_ott
  req         \* the requests

vars == << now, startTime, sshCA, used, req >>

Never == MaxTime + 2
Leeway == 1

(* Operations a token authorizes: the methods of Authority.Authorize, and   *)
(* the renewal with a token (AuthorizeRenewToken).                          *)
Ops == {"Sign", "Revoke", "SSHSign", "SSHRenew", "SSHRekey", "SSHRevoke", "Renew"}

(* type, name and keys (who can sign tokens) of a provisioner; kid of a JWK;*)
(* client is the clientID of OIDC, tenant and aud are those of Azure; tofu  *)
(* is ~DisableTrustOnFirstUse; ssh, after (renewal after expiry) and renew  *)
(* (renewal enabled) are its claims; age is InstanceAge, 0 when not set.    *)
Provisioner(type, name) ==
  [type |-> type, name |-> name, keys |-> name, kid |-> "", client |-> "", tenant |-> "",
   aud |-> "", tofu |-> TRUE, ssh |-> TRUE, after |-> FALSE, renew |-> TRUE, age |-> 0]

(* A token: its provisioner, the operation it was asked for, its period,    *)
(* jti and nonce; the instance it identifies and when that was created;     *)
(* whether the account, project, group or domain filters of the provisioner *)
(* list it (listed), whether it belongs to an administrator (OIDC); whether *)
(* it has azp and email claims and its tid; for SSHPOP, the certificate.    *)
Token(id, p, op) ==
  [id |-> id, prov |-> p, op |-> op, iat |-> 0, nbf |-> 0, exp |-> Never, jti |-> "", nonce |-> "",
   instance |-> "", born |-> 0, listed |-> TRUE, admin |-> FALSE, azp |-> FALSE, email |-> FALSE,
   tid |-> "", host |-> TRUE, certAfter |-> 0, certBefore |-> Never, ownSerial |-> TRUE]

-----------------------------------------------------------------------------
(* Identifiers are pairs: <<"aws", name>> is the string "aws/name".         *)

Types      == {"JWK", "X5C", "Nebula", "SSHPOP", "OIDC", "AWS", "GCP", "Azure", "K8sSA", "ACME", "SCEP"}
JwkTypes   == {"JWK", "X5C", "Nebula", "SSHPOP"}
CloudTypes == {"AWS", "GCP", "Azure"}
\* Provisioners of a protocol of their own, that neither check nor identify a token.
ProtocolTypes == {"ACME", "SCEP"}
\* Provisioners whose audiences carry their identifier as the fragment.
FragmentTypes == {"AWS", "GCP", "X5C", "SSHPOP", "Nebula"}

GetIDForToken(p) ==
  CASE p.type = "JWK"   -> <<p.name, p.kid>>
    [] p.type = "OIDC"  -> <<"", p.client>>
    [] p.type = "Azure" -> <<"", p.tenant>>
    [] p.type = "K8sSA" -> <<"k8ssa", "k8sSA-default">>
    [] OTHER            -> <<p.type, p.name>>

(* Collection.Store refuses a second provisioner of a name or an identifier;*)
(* Azure's Init requires a tenant.  Only Kubernetes signs as its issuer.    *)
ASSUME CollectionAssumption ==
  /\ \A p \in Provisioners :
       /\ p.type \in Types /\ p.age \in Nat
       /\ p.type = "Azure" => p.tenant # ""
       /\ p.type \in {"OIDC", "Azure"} => p.keys # "kubernetes/serviceaccount"
  /\ \A p, q \in Provisioners :
       /\ p.name = q.name => p = q
       /\ GetIDForToken(p) = GetIDForToken(q) => p = q

(* The operations the issuer of a provisioner hands out tokens for: one of  *)
(* OIDC, a cloud or Kubernetes names none, and counts as one for Sign.  For *)
(* ACME and SCEP, the operations a token addressed to one may name.         *)
IssuedFor(type) ==
  {"Renew"} \cup
  CASE type \in {"JWK", "Nebula"} -> {"Sign", "Revoke", "SSHSign", "SSHRevoke"}
    [] type = "X5C"               -> {"Sign", "Revoke", "SSHSign"}
    [] type = "SSHPOP"            -> {"SSHRevoke", "SSHRenew", "SSHRekey"}
    [] type = "ACME"              -> {"Sign", "Revoke"}
    [] OTHER                      -> {"Sign"}

(* A token is not valid before it is issued; the token of an Azure instance *)
(* names its tenant, and neither a user nor an authorized party.            *)
ASSUME TokensAssumption ==
  /\ MaxTime \in Nat
  /\ \A tok \in DOMAIN Tokens :
       LET t == Tokens[tok] IN
       /\ t.id = tok /\ t.prov \in Provisioners /\ t.op \in IssuedFor(t.prov.type)
       /\ {t.iat, t.nbf, t.exp, t.born, t.certAfter, t.certBefore} \subseteq Nat /\ t.iat <= t.nbf
       /\ t.prov.type = "Azure" /\ t.op # "Renew" => t.tid = t.prov.tenant /\ ~ t.azp /\ ~ t.email

NoFragment == <<"", "">>

(* The audience of a server operation, and any other audience.              *)
Audience(op, fragment) == [op |-> op, id |-> fragment]
Other(aud) == [op |-> "", id |-> <<"", aud>>]

(* The audience an issuer puts in a token.  The tokens of AWS and GCP are   *)
(* always generated for the sign endpoint.  A renewal token has the renew   *)
(* audience, whatever the provisioner of its certificate.                   *)
TokenAudience(t) ==
  LET p == t.prov IN
  CASE t.op = "Renew"                  -> Audience("Renew", NoFragment)
    [] p.type = "JWK"                  -> Audience(t.op, NoFragment)
    [] p.type \in {"X5C", "SSHPOP", "Nebula"} \cup ProtocolTypes -> Audience(t.op, GetIDForToken(p))
    [] p.type \in {"AWS", "GCP"}       -> Audience("Sign", GetIDForToken(p))
    [] p.type = "OIDC"                 -> Other(p.client)
    [] p.type = "Azure"                -> Other(p.aud)
    [] OTHER                           -> Other("")

Issuer(p) ==
  CASE p.type \in JwkTypes -> p.name
    [] p.type = "AWS"      -> "ec2.amazonaws.com"
    [] p.type = "GCP"      -> "https://accounts.google.com"
    [] p.type = "K8sSA"    -> "kubernetes/serviceaccount"
    [] OTHER               -> p.keys

(* The provisioners registered under an identifier: one at most.            *)
LoadByTokenID(id) == {p \in Provisioners : GetIDForToken(p) = id}

First(S, T) == IF S # {} THEN S ELSE T

LoadByToken(t) ==
  LET aud == TokenAudience(t) IN
  IF aud.op # ""
  THEN LoadByTokenID(IF aud.id # NoFragment THEN aud.id ELSE <<Issuer(t.prov), t.prov.kid>>)
  ELSE IF Issuer(t.prov) = "kubernetes/serviceaccount"
  THEN LoadByTokenID(<<"k8ssa", "k8sSA-default">>)
  ELSE LET byAud == LoadByTokenID(aud.id)
           byAzp == IF t.azp THEN LoadByTokenID(<<"", t.prov.client>>) ELSE {}
           byTid == IF t.tid = "" THEN {}
                    ELSE First(IF t.email THEN byAud ELSE {}, LoadByTokenID(<<"", t.tid>>))
       IN First(byAzp, First(byTid, byAud))

Loaded == [tok \in DOMAIN Tokens |-> LoadByToken(Tokens[tok])]

-----------------------------------------------------------------------------
(* Validation of a token at time n by provisioner p.                        *)

ValidateWithLeeway(t, n) == n - Leeway <= t.exp /\ t.nbf <= n + Leeway /\ t.iat <= n + Leeway

(* Its signature verifies with a key of p, it names p's issuer and is live. *)
VerifiedBy(p, t, n) ==
  p.keys = t.prov.keys /\ Issuer(p) = Issuer(t.prov) /\ ValidateWithLeeway(t, n)

(* Audiences of p for op: with its identifier as fragment where it has one. *)
Audiences(p, op) == Audience(op, IF p.type \in FragmentTypes THEN GetIDForToken(p) ELSE NoFragment)

TooOld(p, t, n) == p.age > 0 /\ n - t.born > p.age

(* For an operation.                                                        *)
JwkAuthorizeToken(p, t, op, n) ==
  VerifiedBy(p, t, n) /\ TokenAudience(t) = Audiences(p, op)

X5cAuthorizeToken(p, t, op, n) ==
  VerifiedBy(p, t, n) /\ TokenAudience(t) = Audiences(p, op)

NebulaAuthorizeToken(p, t, op, n) ==
  VerifiedBy(p, t, n) /\ TokenAudience(t) = Audiences(p, op)

(* checkValidity: the certificate in the sshpop header must be live.        *)
SshpopAuthorizeToken(p, t, op, n) ==
  /\ VerifiedBy(p, t, n) /\ TokenAudience(t) = Audiences(p, op)
  /\ op # "SSHRenew" => t.certAfter <= n /\ n < t.certBefore

DefaultAuthorizeSSHRenew(p, t, n) ==
  p.renew /\ t.certAfter <= n /\ (n < t.certBefore \/ p.after)

AwsAuthorizeToken(p, t, n) ==
  /\ VerifiedBy(p, t, n)
  /\ TokenAudience(t) = Audiences(p, "Sign")
  /\ t.listed /\ ~ TooOld(p, t, n)

GcpAuthorizeToken(p, t, n) ==
  /\ VerifiedBy(p, t, n)
  /\ TokenAudience(t) = Audiences(p, "Sign")
  /\ t.listed /\ ~ TooOld(p, t, n)

AzureAuthorizeToken(p, t, n) ==
  /\ VerifiedBy(p, t, n)
  /\ TokenAudience(t) = Other(p.aud) /\ t.tid = p.tenant

OidcAuthorizeToken(p, t, n) ==
  /\ VerifiedBy(p, t, n)
  /\ TokenAudience(t) = Other(p.client)
  /\ t.azp => t.prov.client = p.client
  /\ t.listed

(* Neither the audience nor the period of a service account token counts.   *)
K8sAuthorizeToken(p, t) == p.keys = t.prov.keys /\ Issuer(p) = Issuer(t.prov)

AuthorizeRenewToken(t, n) == ValidateWithLeeway(t, n)

(* The method of provisioner p for the operation: refused by the embedded   *)
(* base when p's type has none.                                             *)
Authorize(p, t, op, n) ==
  CASE op = "Renew" -> AuthorizeRenewToken(t, n)
    [] op # "Renew" /\ p.type = "JWK" ->
         /\ op \in {"Sign", "Revoke", "SSHSign", "SSHRevoke"}
         /\ op = "SSHSign" => p.ssh
         /\ JwkAuthorizeToken(p, t, op, n)
    [] op # "Renew" /\ p.type = "Nebula" ->
         /\ op \in {"Sign", "Revoke", "SSHSign", "SSHRevoke"}
         /\ op \in {"SSHSign", "SSHRevoke"} => p.ssh
         /\ NebulaAuthorizeToken(p, t, op, n)
    [] op # "Renew" /\ p.type = "X5C" ->
         /\ op \in {"Sign", "Revoke", "SSHSign"}
         /\ op = "SSHSign" => p.ssh
         /\ X5cAuthorizeToken(p, t, op, n)
    [] op # "Renew" /\ p.type = "SSHPOP" ->
         /\ op \in {"SSHRevoke", "SSHRenew", "SSHRekey"}
         /\ SshpopAuthorizeToken(p, t, op, n)
         /\ IF op = "SSHRevoke" THEN t.ownSerial ELSE t.host
         /\ op = "SSHRenew" => DefaultAuthorizeSSHRenew(p, t, n)
    [] op # "Renew" /\ p.type = "OIDC" ->
         /\ op \in {"Sign", "Revoke", "SSHSign", "SSHRevoke"}
         /\ op = "SSHSign" => p.ssh
         /\ OidcAuthorizeToken(p, t, n)
         /\ op \in {"Revoke", "SSHRevoke"} => t.admin
    [] op # "Renew" /\ p.type = "AWS" ->
         op \in {"Sign", "SSHSign"} /\ (op = "SSHSign" => p.ssh) /\ AwsAuthorizeToken(p, t, n)
    [] op # "Renew" /\ p.type = "GCP" ->
         op \in {"Sign", "SSHSign"} /\ (op = "SSHSign" => p.ssh) /\ GcpAuthorizeToken(p, t, n)
    [] op # "Renew" /\ p.type = "Azure" ->
         \* The filters apply to X.509 certificates only.
         /\ op \in {"Sign", "SSHSign"} /\ (op = "SSHSign" => p.ssh)
         /\ AzureAuthorizeToken(p, t, n)
         /\ op = "Sign" => t.listed
    [] op # "Renew" /\ p.type = "K8sSA" ->
         /\ op \in {"Sign", "Revoke", "SSHSign"} /\ (op = "SSHSign" => p.ssh)
         /\ K8sAuthorizeToken(p, t)
    \* Whatever the token says.
    [] op # "Renew" /\ p.type = "ACME" -> op \in {"Sign", "Revoke"}
    [] op # "Renew" /\ p.type = "SCEP" -> op = "Sign"

-----------------------------------------------------------------------------
(* The identifier a token is recorded under: an empty set stands for the    *)
(* error that makes UseToken record nothing.  Hashes are injective.         *)

HashOf(t) == <<"token", t.id>>
Claimed(id, t) == IF id = "" THEN HashOf(t) ELSE <<"id", id>>

AwsTokenIDOfToken(p, t, n) == IF AwsAuthorizeToken(p, t, n) THEN {HashOf(t)} ELSE {}

AwsTokenID(p, t, n) ==
  IF ~ AwsAuthorizeToken(p, t, n) THEN {}
  ELSE {IF p.tofu THEN <<"instance", GetIDForToken(p), t.instance>> ELSE HashOf(t)}

GcpTokenIDOfInstance(p, t) == {<<"instance", GetIDForToken(p), t.instance>>}

GcpTokenID(p, t) == {IF p.tofu THEN <<"instance", GetIDForToken(p), t.instance>> ELSE HashOf(t)}

(* The hash of xms_mirid; with trust on first use disabled,                 *)
(* ErrAllowTokenReuse.                                                      *)
AzureTokenID(p, t) == IF p.tofu THEN {<<"xms_mirid", t.instance>>} ELSE {}

(* The claim jti of JWK, X5C, Nebula and SSHPOP, nonce of OIDC, or the hash *)
(* of the token; Kubernetes, ACME and SCEP have no identifiers.             *)
GetTokenID(p, t, n) ==
  CASE p.type \in JwkTypes -> {Claimed(t.jti, t)}
    [] p.type = "OIDC"     -> {Claimed(t.nonce, t)}
    [] p.type = "AWS"      -> AwsTokenID(p, t, n)
    [] p.type = "GCP"      -> GcpTokenID(p, t)
    [] p.type = "Azure"    -> AzureTokenID(p, t)
    [] p.type \in {"K8sSA"} \cup ProtocolTypes -> {}

-----------------------------------------------------------------------------
(* A request: the operation, the token, the provisioner found (its name, in *)
(* a set), the identifiers recorded for it and why it was refused.  History:*)
(* the token was live from arrival to answer; it arrived too early.         *)
NoRequest ==
  [st |-> "none", op |-> "", tok |-> "", provs |-> {}, keys |-> {}, why |-> "",
   live |-> FALSE, early |-> FALSE]

Live(t, n) ==
  t.nbf <= n /\ n <= t.exp /\ ~ TooOld(t.prov, t, n) /\ t.certAfter <= n /\ n < t.certBefore

Init ==
  /\ now = 0 /\ startTime = 0 /\ sshCA \in BOOLEAN
  /\ used = {} /\ req = [r \in Requests |-> NoRequest]

(* The reasons not to record a token, in the order of the checks.           *)
Refusal(op, t, provs, keys) ==
  IF op \in {"SSHSign", "SSHRenew", "SSHRekey"} /\ ~ sshCA THEN "not enabled"
  ELSE IF provs = {} THEN "not found"
  ELSE IF op # "Renew" /\ t.iat < startTime THEN "issued before start"
  ELSE IF keys \cap used # {} THEN "used"
  ELSE ""

(* Authority.Authorize up to the provisioner's method: the token is         *)
(* recorded before it is validated.  A renewal token, whose provisioner is  *)
(* the one its certificate names, is of use to AuthorizeRenewToken only.    *)
Arrive(r, op, tok) ==
  LET t     == Tokens[tok]
      provs == IF op = "Renew" THEN {t.prov} ELSE Loaded[tok]
      keys  == UNION {GetTokenID(p, t, now) : p \in provs}
      why   == Refusal(op, t, provs, keys)
  IN /\ req[r] = NoRequest
     /\ (op = "Renew") = (t.op = "Renew")
     /\ used' = IF why = "" THEN used \cup keys ELSE used
     /\ req' = [req EXCEPT ![r] =
                  [st |-> IF why = "" THEN "recorded" ELSE "refused", op |-> op, tok |-> tok,
                   provs |-> {p.name : p \in provs}, keys |-> keys, why |-> why,
                   live |-> Live(t, now), early |-> t.nbf > now + Leeway]]
     /\ UNCHANGED << now, startTime, sshCA >>

Validate(r) ==
  /\ req[r].st = "recorded"
  /\ LET t  == Tokens[req[r].tok]
         ok == \A p \in Provisioners : p.name \in req[r].provs => Authorize(p, t, req[r].op, now)
     IN req' = [req EXCEPT ![r].st = IF ok THEN "granted" ELSE "refused",
                           ![r].why = IF ok THEN "" ELSE "invalid",
                           ![r].live = @ /\ Live(t, now)]
  /\ UNCHANGED << now, startTime, sshCA, used >>

(* A stop and a start of the CA: requests in progress are lost, the table   *)
(* of used tokens is not.                                                   *)
Restart ==
  /\ startTime' = now
  /\ req' = [r \in Requests |-> IF req[r].st = "recorded" THEN [req[r] EXCEPT !.st = "lost"] ELSE req[r]]
  /\ UNCHANGED << now, sshCA, used >>

Tick == now < MaxTime /\ now' = now + 1 /\ UNCHANGED << startTime, sshCA, used, req >>

Next ==
  \/ \E r \in Requests, op \in Ops, t \in DOMAIN Tokens : Arrive(r, op, t)
  \/ \E r \in Requests : Validate(r)
  \/ Restart
  \/ Tick

Spec == Init /\ [][Next]_vars

-----------------------------------------------------------------------------
(* Tables, times and requests keep their types; the CA never started later  *)
(* than now (Authority.startTime), and what a request recorded stays so.    *)
TokensTypeOK ==
  /\ now \in 0 .. MaxTime /\ startTime \in 0 .. now /\ sshCA \in BOOLEAN
  /\ \A r \in Requests :
       /\ req[r].st \in {"none", "recorded", "granted", "refused", "lost"}
       /\ req[r].provs \subseteq {p.name : p \in Provisioners} /\ Cardinality(req[r].provs) <= 1
       /\ req[r].st \in {"recorded", "granted", "lost"} => req[r].keys \subseteq used

Granted(r) == req[r].st = "granted"

(* What the properties need of the environment: no client of an OIDC        *)
(* provider is named like the audience of an Azure provisioner; a claim     *)
(* that identifies a token, jti or nonce, is in no other.                   *)
DistinctAudiences ==
  \A p, q \in Provisioners : p.type = "Azure" /\ q.type = "OIDC" => p.aud # q.client

DistinctClaims ==
  \A i, j \in DOMAIN Tokens :
    LET t == Tokens[i]
        u == Tokens[j]
    IN i # j /\ {t.jti, t.nonce} \cap {u.jti, u.nonce} # {} =>
         {t.jti, t.nonce} \cap {u.jti, u.nonce} = {""}

\* A certificate request, not a renewal, that was granted.
Enrolled(r) == Granted(r) /\ req[r].op \in {"Sign", "SSHSign"}

TokenOf(r) == Tokens[req[r].tok]
ProvOf(r) == TokenOf(r).prov

\* An AWS token that was not valid yet when it arrived: its identifier could
\* not be computed, and UseToken ignores that.
TooEarly(r) == ProvOf(r).type = "AWS" /\ req[r].early

(* With trust on first use, an instance of a cloud is granted one           *)
(* certificate by a provisioner, X.509 or SSH, whichever of its tokens it   *)
(* presents (GetTokenID of AWS, GCP and Azure), unless its first token was  *)
(* not valid yet when it arrived.                                           *)
OnePerInstance ==
  \A r, s \in Requests :
    /\ r # s /\ Enrolled(r) /\ Enrolled(s)
    /\ ProvOf(r).name = ProvOf(s).name /\ TokenOf(r).instance = TokenOf(s).instance
    /\ ProvOf(r).type \in CloudTypes /\ ProvOf(r).tofu
    => TooEarly(r) \/ TooEarly(s)

(* A token is granted one operation (UseToken), whatever happens between    *)
(* its recording and its validation, except where the provisioner cannot or *)
(* does not identify tokens: Kubernetes, ACME and SCEP, whose certificates  *)
(* are renewed with one token any number of times, Azure without trust on   *)
(* first use, and AWS, which only identifies its own valid tokens.          *)
TokenGrantedOnce ==
  \A r, s \in Requests :
    r # s /\ Granted(r) /\ Granted(s) /\ req[r].tok = req[s].tok
    => \/ ProvOf(r).type \in {"K8sSA"} \cup ProtocolTypes
       \/ ProvOf(r).type = "Azure" /\ ~ ProvOf(r).tofu
       \/ ProvOf(r).type = "AWS" /\ (req[r].op = "Renew" \/ TooEarly(r) \/ TooEarly(s))

(* A token is granted by the provisioner it was issued for, also when       *)
(* several share keys, issuer or tenant; and, where the audience names the  *)
(* operation (JWK, X5C, Nebula, SSHPOP), for that operation only.  ACME and *)
(* SCEP look at no token: they grant what is addressed to them.             *)
GrantedAsIssued ==
  \A r \in Requests :
    Granted(r) => /\ req[r].provs = {ProvOf(r).name}
                  /\ ProvOf(r).type \in JwkTypes => req[r].op = TokenOf(r).op

(* A token is good for what it was issued for, once: the three statements   *)
(* above, of any two requests with restarts and delays between them.        *)
GrantedAsMeant == OnePerInstance /\ TokenGrantedOnce /\ GrantedAsIssued

\* What its issuer meant a token for: nothing when it is only addressed to one.
MeantFor(t, op) ==
  \/ op = t.op /\ (t.prov.type \in ProtocolTypes => op = "Renew")
  \/ t.prov.type \in CloudTypes \cup {"OIDC", "K8sSA"} /\ t.op # "Renew" /\ op \in {"Sign", "SSHSign"}

\* The holder of the token may do what the request asks.
Entitled(r) ==
  LET t  == TokenOf(r)
      op == req[r].op
  IN /\ MeantFor(t, op) /\ req[r].live /\ t.listed /\ t.ownSerial
     /\ (op = "SSHSign" \/ (t.prov.type = "Nebula" /\ op = "SSHRevoke")) => t.prov.ssh
     /\ op \in {"SSHRenew", "SSHRekey"} => t.host /\ t.prov.renew
     /\ op \in {"SSHSign", "SSHRenew", "SSHRekey"} => sshCA

\* An OIDC token without email and azp is taken for a token of the provisioner
\* that is registered under its tenant, an Azure one as a rule (LoadByToken).
Shadowed(t) ==
  /\ t.prov.type = "OIDC" /\ ~ t.email /\ ~ t.azp /\ t.tid # ""
  /\ \E p \in Provisioners : p # t.prov /\ GetIDForToken(p) = <<"", t.tid>>

\* Two requests present one token, or one instance trusted on first use.  The
\* instance of an Azure token is all that identifies it, whatever the provisioner;
\* so all tokens that name no instance count as one: renewal tokens, and OIDC
\* tokens that are taken for Azure's.
SameUse(r, s) ==
  /\ req[s].st # "none"
  /\ \/ req[r].tok = req[s].tok
     \/ /\ ProvOf(r).type \in {"AWS", "GCP"} /\ ProvOf(r).tofu /\ ProvOf(r).name = ProvOf(s).name
        /\ TokenOf(r).instance = TokenOf(s).instance
     \/ /\ ProvOf(r).type = "Azure" /\ ProvOf(r).tofu
        /\ (ProvOf(s).type = "Azure" /\ ProvOf(s).tofu) \/ Shadowed(TokenOf(s))
        /\ TokenOf(r).instance = TokenOf(s).instance

(* Whoever is entitled to an operation is granted it, unless the token is   *)
(* older than the CA, was used, or falls to the provisioner of its tenant:  *)
(* no other request, restart or delay takes it away.                        *)
EntitledGranted ==
  \A r \in Requests :
    req[r].st = "refused" /\ Entitled(r)
    => \/ req[r].why = "issued before start" /\ TokenOf(r).iat < startTime
       \/ req[r].why = "used" /\ \E s \in Requests \ {r} : SameUse(r, s)
       \/ Shadowed(TokenOf(r))

=============================================================================
