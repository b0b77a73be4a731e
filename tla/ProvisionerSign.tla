--------------------------- MODULE ProvisionerSign --------------------------
(***************************************************************************)
(* What a certificate says once its token is accepted: the sign options    *)
(* each type of provisioner returns (the methods AuthorizeSign and         *)
(* AuthorizeSSHSign of authority/provisioner), the validators of           *)
(* sign_options.go and sign_ssh_options.go, and the order in which         *)
(* Authority.Sign and Authority.SignSSH apply them.                        *)
(*                                                                         *)
(* A credential is what the provisioner knows after it validated the token *)
(* (ProvisionerTokens), or an ACME order; the validity period is in        *)
(* CertValidity.  Names are opaque, a DNS name being the same in capitals: *)
(* Kind says how x509util.SplitSANs classifies one.                        *)
(***************************************************************************)
EXTENDS Integers, Sequences, FiniteSets

CONSTANTS
  SignProvisioners,  \* records SignProvisioner
  Credentials,       \* a function from a provisioner's name to records Credential
  CSRs,              \* X.509 certificate requests
  SSHRequests,       \* SSH certificate requests: SignSSHOptions and a key
  DefaultCNs,        \* common names a configuration may default to, "" for none
  Kind,              \* names to {"dns", "ip", "email", "uri"}, or a kind of identifier
  Lower              \* strings.ToLower

VARIABLES
  signers,    \* the SSH keys of the authority: subset of {"user", "host"}
  defaultCN,  \* the common name of AuthorityConfig.Template
  ask,        \* the last request: provisioner, credential, request
  cert        \* its answer: a certificate, or Refused

signVars == << signers, defaultCN, ask, cert >>

Refused == [st |-> "refused"]
Kinds == {"dns", "ip", "email", "uri"}
InstanceTypes == {"AWS", "GCP", "Azure"}

(* The ten types that sign.                                                 *)
SignTypes == {"JWK", "X5C", "Nebula", "AWS", "GCP", "Azure", "OIDC", "K8sSA", "ACME", "SCEP"}

(* A provisioner.  template: none, or a custom template that copies the     *)
(* request.  x509, host and user: the names its policy allows, or NoPolicy. *)
NoPolicy == {"none"}
SignProvisioner(type, name) ==
  [type |-> type, name |-> name, template |-> FALSE, disableCustomSANs |-> FALSE, forceCN |-> FALSE,
   minLength |-> 2048, x509 |-> NoPolicy, host |-> NoPolicy, user |-> NoPolicy]

NoSSH == [type |-> "none", keyID |-> "", principals |-> <<>>]

(* A credential: subject and SANs of the token, its SSH options; names are  *)
(* the ones the cloud, the Nebula certificate or the OIDC provider vouches  *)
(* for, or those of an ACME order, and pid the order's permanent            *)
(* identifier; cns are the common names GCP accepts; users are the usernames*)
(* of an OIDC identity.  With viaToken, a token addressed to an ACME or SCEP*)
(* provisioner has reached the sign endpoint, without an order or a message.*)
Credential(subject) ==
  [subject |-> subject, sans |-> {}, ssh |-> NoSSH, names |-> <<>>, pid |-> "", cns |-> {}, email |-> TRUE,
   admin |-> FALSE, users |-> <<>>, viaToken |-> FALSE]

Elements(s) == {s[i] : i \in DOMAIN s}
OfKind(k, S) == {n \in S : Kind[n] = k}

(* Every alternative name is of one of the four kinds; an instance and a    *)
(* Nebula certificate have a name.                                          *)
WellFormed ==
  /\ \A p \in SignProvisioners : p.type \in SignTypes
  /\ \A csr \in CSRs : \A n \in csr.sans : Kind[n] \in Kinds
  /\ \A p \in SignProvisioners : p.type \in InstanceTypes \cup {"Nebula"} =>
       \A c \in Credentials[p.name] : c.names \in Seq(DOMAIN Kind) \ {<<>>}

-----------------------------------------------------------------------------
(* Validators of certificate requests, as values: what they look at and     *)
(* what they want there.                                                    *)

commonNameSliceValidator(cns) == [v |-> "cn", want |-> cns]
commonNameValidator(cn) == commonNameSliceValidator({cn})
dnsNamesValidator(S) == [v |-> "dns", want |-> OfKind("dns", S)]
ipAddressesValidator(S) == [v |-> "ip", want |-> OfKind("ip", S)]
emailAddressesValidator(S) == [v |-> "email", want |-> OfKind("email", S)]
urisValidator(S) == [v |-> "uri", want |-> OfKind("uri", S)]
defaultSANsValidator(S) ==
  {dnsNamesValidator(S), emailAddressesValidator(S), ipAddressesValidator(S), urisValidator(S)}
defaultPublicKeyValidator == [v |-> "key", want |-> 2048]
publicKeyMinimumLengthValidator(bits) == [v |-> "key", want |-> bits]

(* The names of a Nebula certificate; it may have several addresses, and a  *)
(* request any of them.                                                     *)
nebulaSANsValidator(name, ips) ==
  {dnsNamesValidator({name}), emailAddressesValidator({name}), urisValidator({name}),
   [v |-> "ips", want |-> OfKind("ip", {name} \cup ips)]}

KeyAllowed(key, bits) == key.alg = "ec" \/ (key.alg = "rsa" /\ key.bits \div 8 >= bits \div 8)

Valid(v, csr) ==
  CASE v.v = "cn"  -> csr.cn \in v.want \cup {""}
    [] v.v = "key" -> KeyAllowed(csr.key, v.want)
    [] v.v = "ips" -> OfKind("ip", csr.sans) \subseteq v.want
    [] v.v = "order" -> csr.sans = v.want
    [] OTHER       -> OfKind(v.v, csr.sans) \in {{}, v.want}

-----------------------------------------------------------------------------
(* AuthorizeSign: the validators, the template data and default template.   *)

SignOptions(validators, cn, sans, template) ==
  [validators |-> validators \cup {defaultPublicKeyValidator}, cn |-> cn, sans |-> sans, template |-> template]

(* A token without SANs stands for its subject.                             *)
JwkAuthorizeSign(c) ==
  LET sans == IF c.sans = {} THEN {c.subject} ELSE c.sans
  IN SignOptions({commonNameValidator(c.subject)} \cup defaultSANsValidator(sans), c.subject, sans, "leaf")

\* The chain of the token limits the period only.
X5cAuthorizeSign(c) == JwkAuthorizeSign(c)

NebulaAuthorizeSign(c) ==
  LET sans == IF c.sans = {} THEN Elements(c.names) ELSE c.sans
  IN SignOptions({commonNameValidator(c.subject)} \cup nebulaSANsValidator(Head(c.names), Elements(c.names)),
                 c.subject, sans, "leaf")

(* The clouds take the names of the request, unless told not to.            *)
InstanceSANs(p, c) == IF p.disableCustomSANs THEN Elements(c.names) ELSE {}
InstanceValidators(p, c) == IF p.disableCustomSANs THEN defaultSANsValidator(Elements(c.names)) ELSE {}

AwsAuthorizeSign(p, c) ==
  SignOptions(InstanceValidators(p, c) \cup {commonNameValidator(c.subject)}, c.subject, InstanceSANs(p, c), "iid")

GcpAuthorizeSign(p, c) ==
  SignOptions(InstanceValidators(p, c) \cup (IF p.disableCustomSANs THEN {commonNameSliceValidator(c.cns)} ELSE {}),
              c.subject, InstanceSANs(p, c), "iid")

AzureAuthorizeSign(p, c) ==
  SignOptions(InstanceValidators(p, c) \cup (IF p.disableCustomSANs THEN {commonNameValidator(c.subject)} ELSE {}),
              c.subject, InstanceSANs(p, c), "iid")

(* An administrator without a custom template gets what the request asks.   *)
OidcAuthorizeSign(p, c) ==
  SignOptions({}, c.subject, Elements(c.names), IF ~ p.template /\ c.admin THEN "admin" ELSE "leaf")

K8sAuthorizeSign(c) == SignOptions({}, c.subject, {}, "admin")

(* Order.Finalize: the common name of the request counts among its names,   *)
(* for the custom template too, and these must be the names of the order.   *)
canonicalize(csr) == [csr EXCEPT !.sans = @ \cup ({csr.cn} \ {""})]

(* An order with a permanent identifier is for that identifier alone, and   *)
(* nothing is compared with the request.  The sign endpoint gets no template*)
(* from AuthorizeSign, so the certificate is the request.                   *)
AcmeSign(c, csr) ==
  IF c.viaToken THEN SignOptions({}, csr.cn, csr.sans, "admin")
  ELSE IF c.pid # "" THEN SignOptions({}, csr.cn, {c.pid}, "leaf")
  ELSE SignOptions({[v |-> "order", want |-> Elements(c.names)]}, csr.cn, Elements(c.names), "leaf")

(* scep.Authority.SignCSR: the names of the request, or its common name.    *)
ScepSign(p, c, csr) ==
  LET sans == IF csr.sans = {} THEN {csr.cn} ELSE csr.sans
  IN [SignOptions({}, csr.cn, sans, IF c.viaToken THEN "admin" ELSE "leaf")
      EXCEPT !.validators = {publicKeyMinimumLengthValidator(p.minLength)}]

AuthorizeSign(p, c, csr) ==
  CASE p.type = "JWK"    -> JwkAuthorizeSign(c)
    [] p.type = "X5C"    -> X5cAuthorizeSign(c)
    [] p.type = "Nebula" -> NebulaAuthorizeSign(c)
    [] p.type = "AWS"    -> AwsAuthorizeSign(p, c)
    [] p.type = "GCP"    -> GcpAuthorizeSign(p, c)
    [] p.type = "Azure"  -> AzureAuthorizeSign(p, c)
    [] p.type = "OIDC"   -> OidcAuthorizeSign(p, c)
    [] p.type = "K8sSA"  -> K8sAuthorizeSign(c)
    [] p.type = "ACME"   -> AcmeSign(c, csr)
    [] p.type = "SCEP"   -> ScepSign(p, c, csr)

(* The templates of x509util: the leaf template uses the template data, the *)
(* one for instances the request's common name and the data's SANs if any,  *)
(* the administrator's one copies the request.                              *)
NewCertificate(p, opts, csr) ==
  CASE p.template \/ opts.template = "admin" -> [cn |-> csr.cn, sans |-> csr.sans]
    [] ~ p.template /\ opts.template = "leaf" -> [cn |-> opts.cn, sans |-> opts.sans]
    [] ~ p.template /\ opts.template = "iid" ->
         [cn |-> csr.cn, sans |-> IF opts.sans # {} THEN opts.sans ELSE csr.sans]

withDefaultASN1DN(leaf) ==
    [cn |-> IF leaf.cn = "" THEN defaultCN ELSE leaf.cn, sans |-> leaf.sans]

\* The common names the certificate may end up with; none when the option fails.
forceCNOption(p, leaf) ==
  IF p.forceCN /\ leaf.cn = "" THEN OfKind("dns", leaf.sans) ELSE {leaf.cn}

(* A permanent identifier is not a name to the policy.                      *)
x509NamePolicyValidator(p, leaf) ==
  p.x509 = NoPolicy \/ ({n \in leaf.sans : Kind[n] \in Kinds} \cup ({leaf.cn} \ {""})) \subseteq p.x509

-----------------------------------------------------------------------------
SignInit ==
  /\ signers \in SUBSET {"user", "host"} /\ defaultCN \in DefaultCNs
  /\ ask = [op |-> "none"] /\ cert = Refused

(* The request as Authority.Sign gets it.                                   *)
Presented(p, c, csr) == IF p.type = "ACME" /\ ~ c.viaToken THEN canonicalize(csr) ELSE csr

(* Authority.Sign: request validators, template, default subject, modifiers,*)
(* validators.                                                              *)
Sign(p, c, csr) ==
  LET got  == Presented(p, c, csr)
      opts == AuthorizeSign(p, c, got)
      tpl  == withDefaultASN1DN(NewCertificate(p, opts, got))
      cns  == forceCNOption(p, tpl)
      ok   == (\A v \in opts.validators : Valid(v, got)) /\ cns # {}
  IN /\ ask' = [op |-> "Sign", prov |-> p, cred |-> c, csr |-> csr]
     /\ cert' \in IF ~ ok THEN {Refused}
                  ELSE {IF x509NamePolicyValidator(p, [tpl EXCEPT !.cn = cn])
                        THEN [st |-> "x509", cn |-> cn, sans |-> tpl.sans] ELSE Refused : cn \in cns}
     /\ UNCHANGED << signers, defaultCN >>

-----------------------------------------------------------------------------
(* SSH.  Options that only wants a type and principals.                     *)
Want(type, principals) == [type |-> type, keyID |-> "", principals |-> principals]
Members(s) == {Lower[s[i]] : i \in DOMAIN s}

containsAllMembersOrLonger(group, subgroup) == Members(subgroup) \cap Members(group) # {}

containsAllMembers(group, subgroup) ==
  Len(subgroup) <= Len(group) /\ (group # <<>> => subgroup # <<>>) /\ Members(subgroup) \subseteq Members(group)

(* SignSSHOptions.match: zero values match; the key ids are not compared.   *)
match(want, got) ==
  /\ want.type # "" /\ got.type # "" => want.type = got.type
  /\ want.principals # <<>> /\ got.principals # <<>> => containsAllMembers(want.principals, got.principals)

\* sshCertOptionsRequireValidator
Required(fields, got) ==
  /\ "type" \in fields => got.type # ""
  /\ "keyID" \in fields => got.keyID # ""
  /\ "principals" \in fields => got.principals # <<>>

OrElse(value, empty, default) == IF value # empty THEN value ELSE default

(* AuthorizeSSHSign: refused, or the options to match (match), the fields   *)
(* to require, the template data (type, keyID, principals), the template    *)
(* and the policies that apply.                                             *)
SSHOptions(wants, fields, data, template, host, user) ==
  [ok |-> TRUE, wants |-> wants, fields |-> fields, data |-> data, template |-> template, host |-> host, user |-> user]

NotAuthorized == [ok |-> FALSE]

JwkAuthorizeSSHSign(p, c) ==
  IF c.ssh = NoSSH THEN NotAuthorized
  ELSE SSHOptions({c.ssh}, {},
                  [type |-> OrElse(c.ssh.type, "", "user"), keyID |-> OrElse(c.ssh.keyID, "", c.subject),
                   principals |-> OrElse(c.ssh.principals, <<>>, <<c.subject>>)],
                  "default", p.host, p.user)

X5cAuthorizeSSHSign(p, c) == JwkAuthorizeSSHSign(p, c)

(* Host certificates only, for the names of the Nebula certificate.         *)
NebulaAuthorizeSSHSign(p, c) ==
  LET opts == IF c.ssh = NoSSH THEN Want("", <<>>) ELSE c.ssh
  IN IF ~ (Elements(opts.principals) \subseteq Elements(c.names) /\ opts.type \in {"", "host"})
     THEN NotAuthorized
     ELSE SSHOptions(IF c.ssh = NoSSH THEN {} ELSE {Want("host", <<>>), opts}, {},
                     [type |-> "host", keyID |-> OrElse(opts.keyID, "", c.subject),
                      principals |-> OrElse(opts.principals, <<>>, c.names)],
                     "default", p.host, NoPolicy)

(* AWS: host certificates only; the user policy is not handed to the        *)
(* validator.                                                               *)
AwsAuthorizeSSHSign(p, c) ==
  SSHOptions({Want("host", IF p.disableCustomSANs THEN c.names ELSE <<>>)},
             IF p.disableCustomSANs THEN {} ELSE {"principals"},
             [type |-> "host", keyID |-> c.subject, principals |-> c.names], "iid", p.host, NoPolicy)

GcpAuthorizeSSHSign(p, c) == AwsAuthorizeSSHSign(p, c)
AzureAuthorizeSSHSign(p, c) == AwsAuthorizeSSHSign(p, c)

(* A token without a subject is refused; without an email there are no      *)
(* principals.                                                              *)
OidcAuthorizeSSHSign(p, c) ==
  LET users == IF c.email THEN c.users ELSE <<>>
  IN IF c.subject = "" THEN NotAuthorized
     ELSE SSHOptions(IF c.admin THEN {} ELSE {Want("user", users)},
                     IF c.admin THEN {"type", "keyID", "principals"} ELSE {},
                     [type |-> "user", keyID |-> c.subject, principals |-> users],
                     IF c.admin /\ ~ p.template THEN "request" ELSE "default", p.host, p.user)

K8sAuthorizeSSHSign(p, c) ==
  SSHOptions({}, {"type", "keyID", "principals"},
             [type |-> "host", keyID |-> c.subject, principals |-> <<c.subject>>], "request", p.host, p.user)

AuthorizeSSHSign(p, c) ==
  CASE p.type = "JWK"    -> JwkAuthorizeSSHSign(p, c)
    [] p.type = "X5C"    -> X5cAuthorizeSSHSign(p, c)
    [] p.type = "Nebula" -> NebulaAuthorizeSSHSign(p, c)
    [] p.type = "AWS"    -> AwsAuthorizeSSHSign(p, c)
    [] p.type = "GCP"    -> GcpAuthorizeSSHSign(p, c)
    [] p.type = "Azure"  -> AzureAuthorizeSSHSign(p, c)
    [] p.type = "OIDC"   -> OidcAuthorizeSSHSign(p, c)
    [] p.type = "K8sSA"  -> K8sAuthorizeSSHSign(p, c)
    [] p.type \in {"ACME", "SCEP"} -> NotAuthorized

(* The templates of sshutil: from the data, from the request, or, for       *)
(* instances, the principals of the request if it has any.                  *)
NewSSHCertificate(p, opts, got) ==
  CASE p.template \/ opts.template = "request" ->
         [type |-> got.type, keyID |-> got.keyID, principals |-> got.principals]
    [] ~ p.template /\ opts.template = "default" -> opts.data
    [] ~ p.template /\ opts.template = "iid" ->
         [opts.data EXCEPT !.principals = OrElse(got.principals, <<>>, @)]

(* Host certificates are denied when only a policy for users is configured, *)
(* and the other way round.                                                 *)
sshNamePolicyValidator(opts, crt) ==
  LET mine == IF crt.type = "host" THEN opts.host ELSE opts.user
  IN (opts.host = NoPolicy /\ opts.user = NoPolicy) \/ (mine # NoPolicy /\ Elements(crt.principals) \subseteq mine)

(* sshDefaultPublicKeyValidator.                                            *)
SSHKeyAllowed(key) == key.alg # "dsa" /\ (key.alg = "rsa" => key.bits >= 2048)

\* The key of the authority for the type of certificate is configured.
SignerFor(type) == type \in signers

(* Authority.SignSSH: the request's own validation, option validators,      *)
(* template, signer, and the validators once it is signed.                  *)
SignSSH(p, c, got) ==
  LET opts == AuthorizeSSHSign(p, c)
      crt  == NewSSHCertificate(p, opts, got)
      ok   == /\ opts.ok /\ got.type \in {"", "user", "host"} /\ "" \notin Elements(got.principals)
              /\ \A want \in opts.wants : match(want, got)
              /\ Required(opts.fields, got)
              /\ SignerFor(crt.type)
              /\ crt.keyID # "" /\ SSHKeyAllowed(got.key) /\ sshNamePolicyValidator(opts, crt)
  IN /\ ask' = [op |-> "SignSSH", prov |-> p, cred |-> c, csr |-> got]
     /\ cert' = IF ok THEN [st |-> "ssh", type |-> crt.type, keyID |-> crt.keyID, principals |-> crt.principals]
                ELSE Refused
     /\ UNCHANGED << signers, defaultCN >>

\* One certificate, from any provisioner, credential and request.
SignNext ==
  /\ ask.op = "none"
  /\ \E p \in SignProvisioners : \E c \in Credentials[p.name] :
       \/ \E csr \in CSRs : Sign(p, c, csr)
       \/ \E got \in SSHRequests : SignSSH(p, c, got)

SignSpec == SignInit /\ [][SignNext]_signVars

-----------------------------------------------------------------------------
(* The answer to a request is a certificate of the requested kind, made of  *)
(* names known to the model, or a refusal (Sign, SignSSH).                  *)
SignTypeOK ==
  /\ signers \subseteq {"user", "host"}
  /\ \/ cert = Refused
     \/ cert.st = "x509" /\ ask.op = "Sign" /\ cert.cn \in DOMAIN Kind \cup {""} /\ cert.sans \subseteq DOMAIN Kind
     \/ cert.st = "ssh" /\ ask.op = "SignSSH" /\ cert.type \in signers /\ Elements(cert.principals) \subseteq DOMAIN Lower

Prov == ask.prov
Cred == ask.cred

\* An ACME order for a permanent identifier.
Attested == Prov.type = "ACME" /\ Cred.pid # ""

\* The provisioner takes the names of an X.509 certificate from the request.
TrustsRequest ==
  \/ Prov.type \in InstanceTypes /\ ~ Prov.disableCustomSANs
  \/ Prov.type \in {"K8sSA", "SCEP"}
  \/ Prov.type = "OIDC" /\ (Cred.admin \/ Prov.template)
  \/ Prov.type = "ACME" /\ Cred.viaToken
  \/ Attested /\ Prov.template

\* The names the token, the order, the cloud or the Nebula certificate vouches for.
Vouched == {Cred.subject, Cred.pid} \cup Cred.sans \cup Elements(Cred.names) \cup Cred.cns

(* A certificate names only what its credential vouches for, whatever the   *)
(* request asks and whichever template is configured, unless the            *)
(* provisioner is one that takes the names from the request                 *)
(* (AuthorizeSign, Order.Finalize, the request validators of                *)
(* sign_options.go).  The common name is vouched for too, unless it is the  *)
(* authority's default; an order for a permanent identifier takes the one   *)
(* of the request.                                                          *)
NamesVouched ==
  cert.st = "x509" /\ ~ TrustsRequest
  => /\ cert.sans \subseteq Vouched
     /\ ~ Attested => cert.cn \in Vouched \cup {"", defaultCN}

(* What a request asks for by name is in the certificate, exactly, or the   *)
(* request is refused: no name is dropped or added to a kind the request    *)
(* lists, an ACME request asking for its common name too.  OIDC, Nebula and *)
(* orders for a permanent identifier give the names of the identity instead.*)
AskedIsIssued ==
  cert.st = "x509" /\ ~ ((Prov.type \in {"OIDC", "Nebula"} \/ Attested) /\ ~ TrustsRequest)
  => /\ \A k \in Kinds : OfKind(k, Presented(Prov, Cred, ask.csr).sans) \in {{}, OfKind(k, cert.sans)}
     /\ ask.csr.cn \in {"", cert.cn}

\* The provisioner takes the principals from the request: instances with
\* custom names, Kubernetes, administrators, and custom templates where the
\* token does not say which principals.
TrustsSSHRequest ==
  \/ Prov.type \in InstanceTypes /\ ~ Prov.disableCustomSANs
  \/ Prov.type = "K8sSA"
  \/ Prov.type = "OIDC" /\ (Cred.admin \/ (Prov.template /\ (~ Cred.email \/ Cred.users = <<>>)))
  \/ Prov.type \in {"JWK", "X5C", "Nebula"} /\ Prov.template /\ Cred.ssh.principals = <<>>

SSHVouched ==
  Members(CASE Prov.type \in {"JWK", "X5C"} -> OrElse(Cred.ssh.principals, <<>>, <<Cred.subject>>)
            [] Prov.type = "Nebula" -> OrElse(Cred.ssh.principals, <<>>, Cred.names)
            [] Prov.type = "OIDC" -> IF Cred.email THEN Cred.users ELSE <<>>
            [] OTHER -> Cred.names)

(* An SSH certificate has only principals its credential vouches for, up to *)
(* case (match, containsAllMembers, nebulaPrincipalsValidator).             *)
PrincipalsVouched ==
  cert.st = "ssh" /\ ~ TrustsSSHRequest => Members(cert.principals) \subseteq SSHVouched

(* Instances and Nebula hosts get host certificates and OIDC users that are *)
(* not administrators user certificates, with a custom template too; but a  *)
(* Nebula token without SSH options leaves the type to the custom template. *)
TypeVouched ==
  cert.st = "ssh"
  => /\ Prov.type \in InstanceTypes => cert.type = "host"
     /\ Prov.type = "Nebula" /\ ~ (Prov.template /\ Cred.ssh = NoSSH) => cert.type = "host"
     /\ Prov.type = "OIDC" /\ ~ Cred.admin => cert.type = "user"
     /\ Prov.type \in {"JWK", "X5C"} => Cred.ssh.type \in {"", cert.type}

(* With a policy for one type of SSH certificates only, none of the other   *)
(* type is issued, and every principal is allowed by the policy of its type *)
(* (sshNamePolicyValidator).  Instances and Nebula hosts are outside the    *)
(* policy for users, even with a custom template that asks for one.         *)
SSHPolicyHolds ==
  LET user   == IF Prov.type \in InstanceTypes \cup {"Nebula"} THEN NoPolicy ELSE Prov.user
      policy == IF cert.type = "host" THEN Prov.host ELSE user
      other  == IF cert.type = "host" THEN user ELSE Prov.host
  IN cert.st = "ssh"
     => IF policy = NoPolicy THEN other = NoPolicy ELSE Elements(cert.principals) \subseteq policy

\* A request that leaves everything to the CA, of a plain provisioner.
AsksNothing ==
  /\ ask.csr.key.alg = "ec" /\ ~ Prov.template /\ ~ Prov.forceCN
  /\ ask.op = "Sign" => ask.csr.cn = "" /\ ask.csr.sans = {} /\ Prov.x509 = NoPolicy
  /\ ask.op = "SignSSH" => /\ ask.csr.type = "" /\ ask.csr.keyID = "" /\ ask.csr.principals = <<>>
                           /\ Prov.host = NoPolicy /\ Prov.user = NoPolicy /\ signers = {"user", "host"}

\* The SSH options of the token, if the provisioner looks at them, are ones it accepts.
SSHOptionsAccepted ==
  /\ Prov.type \in {"JWK", "X5C"} => Cred.ssh.type \in {"", "user", "host"}
  /\ Prov.type = "Nebula" /\ Cred.ssh # NoSSH
     => Cred.ssh.type \in {"", "host"} /\ Elements(Cred.ssh.principals) \subseteq Elements(Cred.names)

(* A request that asks for nothing in particular gets a certificate for     *)
(* what the credential says, by the provisioners that have a say in it.     *)
PlainIssued ==
  ask.op # "none" /\ AsksNothing
  => /\ /\ ask.op = "Sign" /\ ~ TrustsRequest /\ Prov.type # "ACME"
        /\ Prov.type \notin {"JWK", "X5C"} => Elements(Cred.names) # {}
        => cert.st = "x509" /\ cert.sans # {} /\ cert.sans \subseteq Vouched
     /\ /\ ask.op = "SignSSH" /\ Prov.type \notin {"ACME", "SCEP"} /\ ~ TrustsSSHRequest
        /\ SSHOptionsAccepted /\ Cred.subject # ""
        => cert.st = "ssh" /\ Members(cert.principals) = SSHVouched

(* The certificate is what the credential vouches for and the request asks  *)
(* for (AuthorizeSign and AuthorizeSSHSign of the provisioners, the         *)
(* modifiers and validators they return): no name, principal or type that   *)
(* the credential does not vouch for and no principal the policy refuses;   *)
(* no name the request lists is dropped; a request that asks for nothing in *)
(* particular is granted.                                                   *)
IssuedAsVouched ==
  /\ NamesVouched /\ PrincipalsVouched /\ TypeVouched
  /\ SSHPolicyHolds /\ AskedIsIssued /\ PlainIssued

=============================================================================
