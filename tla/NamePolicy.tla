----------------------------- MODULE NamePolicy -----------------------------
(***************************************************************************)
(* The name policy: which names an authority, a provisioner or an ACME     *)
(* account lets into a certificate.                                        *)
(*                                                                         *)
(*   policy/options.go            constraints are normalised and validated *)
(*   policy/validate.go           names are matched with them              *)
(*   policy/engine.go             a certificate is split and evaluated     *)
(*   authority/policy/*.go        the X.509, SSH host and SSH user engines *)
(*                                                                         *)
(* A configuration is a set of rules, each with the engine it belongs to,  *)
(* its kind (allow or deny), its name type and its pattern as written.     *)
(***************************************************************************)
EXTENDS Names

CONSTANTS
    Rules,      \* the rules a configuration is made of
    MaxRules,   \* bound: rules of one configuration
    Certs,      \* the certificates evaluated
    Invalid     \* a pattern that cannot be parsed, a configuration refused

VARIABLES
    config,     \* the configuration, [rules, wildcards]
    engines,    \* the engines built from it, or Invalid
    cert,       \* the certificate evaluated last
    reasons     \* why it is refused; empty when it is allowed

vars == <<config, engines, cert, reasons>>

Scopes == {"x509", "host", "user"}

Configs ==
    [rules : {R \in SUBSET Rules : Cardinality(R) <= MaxRules}, wildcards : BOOLEAN]

(***************************************************************************)
(* Building the engines: policy/options.go                                 *)
(***************************************************************************)

(* domainToReverseLabels drops one leading period and refuses other empty  *)
(* labels and characters outside of printable ASCII.                       *)
DropPeriod(d) == IF d # <<>> /\ d[1] = "" THEN Tail(d) ELSE d

Parses(d) == \A i \in DOMAIN DropPeriod(d) : DropPeriod(d)[i] \notin {"", " "}

domainToReverseLabels(d) == Reverse(DropPeriod(d))

(* idna.Lookup.ToASCII refuses what is not a letter, digit or hyphen.      *)
ToASCIIFails(d) == \E i \in DOMAIN d : d[i] \in Asterisks \cup {" "}

(* parseRFC2821Mailbox wants a local part and a domain that parses.        *)
parseRFC2821Mailbox(m) == m.local \notin {"", "a..b"} /\ Parses(m.labels)

normalizeAndValidateCommonName(n) ==
    IF n.labels = <<>> \/ n = DNS(<<"*">>) THEN Invalid
    ELSE FoldName(n)

CutWildcard(d) == IF d[1] = "*" /\ Len(d) > 1 THEN <<"">> \o Tail(d) ELSE d

normalizeAndValidateDNSDomainConstraint(pat) ==
    LET d == LowerAll(pat) IN
    IF \/ d = <<>>
       \/ \E i \in DOMAIN d : d[i] = ""
       \/ \E i \in DOMAIN d : d[i] \in Asterisks /\ (i > 1 \/ d[i] # "*")
       \/ ToASCIIFails(CutWildcard(d))
       \/ ~Parses(CutWildcard(d))
    THEN Invalid ELSE CutWildcard(d)

(* A constraint with a local part is a mailbox, one without ("@local" or   *)
(* "local") is a domain.                                                   *)
normalizeAndValidateEmailConstraint(pat) ==
    LET n == [pat EXCEPT !.local = Lower(@), !.labels = LowerAll(@)] IN
    IF \/ n.local = "" /\ (n.labels = <<>> \/ n.labels[1] = "")
       \/ n.local # "" /\ ~parseRFC2821Mailbox(n)
       \/ ToASCIIFails(n.labels)
       \/ ~Parses(n.labels)
    THEN Invalid ELSE n

normalizeAndValidateURIDomainConstraint(pat) ==
    LET d == LowerAll(pat.labels) IN
    IF \/ pat.form # "domain"
       \/ d = <<>>
       \/ \E i \in DOMAIN d : d[i] = ""
       \/ \E i \in DOMAIN d : i > 1 /\ d[i] \in Asterisks
       \/ ToASCIIFails(CutWildcard(d))
       \/ ~Parses(CutWildcard(d))
    THEN Invalid ELSE CutWildcard(d)

(* An address is the network of that address alone, one with a mask the    *)
(* network of its leading bits.                                            *)
networkFor(pat) ==
    [family |-> pat.family,
     bits   |-> IF "mask" \in DOMAIN pat THEN SubSeq(pat.bits, 1, pat.mask) ELSE pat.bits]

Normalize(type, pat) ==
    CASE type = "cn"        -> normalizeAndValidateCommonName(pat)
      [] type = "dns"       -> normalizeAndValidateDNSDomainConstraint(pat)
      [] type = "ip"        -> networkFor(pat)
      [] type = "email"     -> normalizeAndValidateEmailConstraint(pat)
      [] type = "uri"       -> normalizeAndValidateURIDomainConstraint(pat)
      [] type = "principal" -> pat

(* policy.New: the constraints of an engine, without duplicates.  No       *)
(* engine is built for a scope without names.                              *)
New(rules, wildcards) ==
    [constraints |-> {[kind |-> r.kind, type |-> r.type, pat |-> Normalize(r.type, r.pat)]
                        : r \in rules},
     wildcards |-> wildcards]

NewEngine(c, scope) ==
    LET rules == {r \in c.rules : r.scope = scope} IN
    IF rules = {} THEN {}
    ELSE {New(rules, scope = "x509" /\ c.wildcards)}

NewEngines(c) ==
    IF \E r \in c.rules : Normalize(r.type, r.pat) = Invalid THEN Invalid
    ELSE [scope \in Scopes |-> NewEngine(c, scope)]

(***************************************************************************)
(* Matching: policy/validate.go                                            *)
(***************************************************************************)

Matches(b) == IF b THEN "match" ELSE "no match"

(* Mutant: labels are compared from the left, as they are written.         *)
matchDomainForward(e, domain, constraint) ==
    LET sub == constraint[1] = ""
        d   == domain
        c   == DropPeriod(constraint)
    IN  Matches(/\ Len(d) = Len(c) + (IF sub THEN 1 ELSE 0)
                /\ \A i \in 1..Len(c) : Lower(c[i]) = Lower(d[i]))

matchDomainConstraint(e, domain, constraint) ==
    LET sub == constraint[1] = ""
        d   == domainToReverseLabels(domain)
        c   == domainToReverseLabels(constraint)
    IN  IF \/ domain[1] \in {"", "*a", "a*"}
           \/ domain[1] = "*" /\ ~e.wildcards
           \/ \E i \in 2..Len(domain) : domain[i] \in Asterisks
        THEN "no match"
        ELSE IF ~Parses(domain) THEN "error"
        ELSE Matches(/\ Len(d) = Len(c) + (IF sub THEN 1 ELSE 0)
                     /\ \A i \in 1..Len(c) : Lower(c[i]) = Lower(d[i]))

matchIPConstraint(ip, net) ==
    Matches(ip.family = net.family /\ IsPrefix(net.bits, ip.bits))

matchEmailConstraint(e, mailbox, constraint) ==
    IF constraint.local # ""
    THEN Matches(/\ mailbox.local = constraint.local
                 /\ EqualFold(mailbox.labels, constraint.labels))
    ELSE matchDomainConstraint(e, mailbox.labels, constraint.labels)

matchURIConstraint(e, uri, constraint) ==
    IF \/ uri.labels = <<>>
       \/ \E i \in DOMAIN uri.labels : uri.labels[i] \in Asterisks
       \/ uri.form = "ip"
    THEN "error"
    ELSE matchDomainConstraint(e, uri.labels, constraint)

matchPrincipalConstraint(name, constraint) ==
    Matches(constraint = <<"*">> \/ EqualFold(name.labels, constraint))

matchCommonNameConstraint(name, constraint) ==
    Matches(FoldName(name) = constraint)

Match(e, type, name, pat) ==
    CASE type = "dns"       -> matchDomainConstraint(e, name.labels, pat)
      [] type = "ip"        -> matchIPConstraint(name, pat)
      [] type = "email"     -> matchEmailConstraint(e, name, pat)
      [] type = "uri"       -> matchURIConstraint(e, name, pat)
      [] type = "principal" -> matchPrincipalConstraint(name, pat)
      [] type = "cn"        -> matchCommonNameConstraint(name, pat)

Of(e, kind, type) == {c \in e.constraints : c.kind = kind /\ c.type = type}

(* checkNameConstraints: whether a name makes a match fail does not depend *)
(* on the constraint, so the order of the constraints does not matter.     *)
checkNameConstraints(e, type, name) ==
    LET permitted == {Match(e, type, name, c.pat) : c \in Of(e, "permitted", type)}
        excluded  == {Match(e, type, name, c.pat) : c \in Of(e, "excluded", type)}
    IN  CASE "error" \in excluded -> "cannot match"
          [] "match" \in excluded -> "not allowed"
          [] "error" \in permitted -> "cannot match"
          [] OTHER -> IF permitted = {} \/ "match" \in permitted THEN "ok"
                      ELSE "not allowed"

(* The parsing of a name before it is matched.                             *)
CannotParse(type, name) ==
    \/ type = "dns" /\ (ToASCIIFails(CutWildcard(name.labels)) \/ ~Parses(name.labels))
    \/ type = "email" /\ ~parseRFC2821Mailbox(name)

(* One round of the loops of validateNames: a type without constraints is  *)
(* not allowed when anything else is explicitly permitted.                 *)
validateName(e, type, name) ==
    IF /\ \A c \in e.constraints : c.type # type
       /\ \E c \in e.constraints : c.kind = "permitted"
    THEN "not allowed"
    ELSE IF CannotParse(type, name) THEN "cannot parse"
    ELSE checkNameConstraints(e, type, name)

(* A common name is allowed by the constraints on common names, or else as *)
(* the kind of name that it looks like.                                    *)
validateCommonName(e, name) ==
    IF /\ \E c \in e.constraints : c.type = "cn"
       /\ checkNameConstraints(e, "cn", name) = "ok"
    THEN "ok"
    ELSE validateName(e, name.type, name)

(***************************************************************************)
(* Evaluating a certificate: policy/engine.go, authority/policy/engine.go  *)
(***************************************************************************)

IsX509CertificateAllowed(e, c) ==
    {validateName(e, n.type, n) : n \in c.names}
      \cup {validateCommonName(e, n) : n \in c.cn}

(* splitSSHPrincipals: a domain is a host name in a host certificate and a *)
(* principal in a user certificate.                                        *)
SSHType(kind, name) ==
    IF kind = "user" /\ name.type = "dns" THEN "principal" ELSE name.type

splitSSHPrincipals(c) ==
    \E n \in c.names : n.type = "uri" \/ (c.kind = "user" /\ n.type = "ip")

IsSSHCertificateAllowed(e, c) ==
    IF splitSSHPrincipals(c) THEN {"unexpected principal"}
    ELSE {validateName(e, SSHType(c.kind, n), n) : n \in c.names}

(* Engine: an SSH engine for one kind of certificate refuses the other.    *)
EvaluateCertificate(es, c) ==
    ( IF c.kind = "x509"
      THEN UNION {IsX509CertificateAllowed(e, c) : e \in es["x509"]}
      ELSE IF es[c.kind] = {} /\ es["host"] \cup es["user"] # {}
      THEN {"no engine"}
      ELSE UNION {IsSSHCertificateAllowed(e, c) : e \in es[c.kind]} ) \ {"ok"}

(***************************************************************************)
(* Behaviour: a configured authority evaluates a certificate               *)
(***************************************************************************)

NoCert == [kind |-> "x509", names |-> {}, cn |-> {}]

Reasons == {"not allowed", "cannot parse", "cannot match", "unexpected principal", "no engine"}

(* Every variable has its type; no reason is "ok".                         *)
TypeOK ==
    /\ config \in Configs
    /\ engines # Invalid => DOMAIN engines = Scopes
    /\ cert \in Certs \cup {NoCert}
    /\ reasons \subseteq Reasons

Init ==
    /\ config \in Configs
    /\ engines = NewEngines(config)
    /\ cert = NoCert
    /\ reasons = {}

(* Evaluation keeps no state: one certificate per behaviour is enough.  A  *)
(* configuration that is refused stops the authority from starting.        *)
Evaluate(c) ==
    /\ engines # Invalid
    /\ cert = NoCert
    /\ cert' = c
    /\ reasons' = EvaluateCertificate(engines, c)
    /\ UNCHANGED <<config, engines>>

Next == \E c \in Certs : Evaluate(c)

Spec == Init /\ [][Next]_vars

(***************************************************************************)
(* What a configuration says, name by name, as it is written               *)
(***************************************************************************)

DenotesDomain(pat, d) ==
    IF pat[1] = "*"
    THEN Len(d) = Len(pat) /\ d[1] # "" /\ EqualFold(Tail(pat), Tail(d))
    ELSE EqualFold(pat, d)

(* The names of a type that a pattern stands for.                          *)
Denotes(r, n) ==
    CASE r.type = "dns"   -> DenotesDomain(r.pat, n.labels)
      [] r.type = "ip"    -> /\ r.pat.family = n.family
                             /\ \A i \in DOMAIN n.bits :
                                  r.pat.bits[i] = n.bits[i]
                                    \/ ("mask" \in DOMAIN r.pat /\ i > r.pat.mask)
      [] r.type = "email" -> /\ r.pat.local \in {"", n.local}
                             /\ EqualFold(r.pat.labels, n.labels)
      [] r.type = "uri"   -> /\ n.form # "ip" /\ n.labels # <<>>
                             /\ \A i \in DOMAIN n.labels : n.labels[i] \notin Asterisks
                             /\ DenotesDomain(r.pat.labels, n.labels)
      [] r.type = "principal" -> r.pat = <<"*">> \/ EqualFold(r.pat, n.labels)
      [] r.type = "cn"    -> FoldName(r.pat) = FoldName(n)

Allowed == engines # Invalid /\ cert # NoCert /\ reasons = {}

RulesFor(kind, type) ==
    {r \in config.rules : r.scope = cert.kind /\ r.kind = kind /\ r.type = type}

Type(n) == SSHType(cert.kind, n)

Wildcard(n) == n.type = "dns" /\ n.labels[1] = "*"

(* A mailbox that a rule with capitals in its local part is written for,   *)
(* up to the case of the letters.  Such a rule is stored in lower case and *)
(* matched exactly, so it stands for another mailbox than it says.         *)
CapitalMailbox(n) ==
    \E r \in config.rules :
        /\ r.scope = cert.kind /\ r.type = "email" /\ n.type = "email"
        /\ r.pat.local # Lower(r.pat.local)
        /\ Lower(r.pat.local) = Lower(n.local)
        /\ EqualFold(r.pat.labels, n.labels)

(***************************************************************************)
(* Properties                                                              *)
(***************************************************************************)

(* A certificate the policy allows has no alternative name that a deny     *)
(* rule stands for (checkNameConstraints looks at excluded constraints     *)
(* first).  Two kinds of names are left out, as the code does not keep to  *)
(* the rules for them: literal wildcards without the option for them       *)
(* (WildcardNeedsOption) and mailboxes of rules with capitals in the local *)
(* part (LocalPartExact).                                                  *)
NoDeniedName ==
    Allowed => \A n \in cert.names :
        \/ CapitalMailbox(n)
        \/ Wildcard(n) /\ ~(config.wildcards /\ cert.kind = "x509")
        \/ \A r \in RulesFor("excluded", Type(n)) : ~Denotes(r, n)

(* When something is explicitly allowed in a kind of certificate, every    *)
(* name of a certificate that passes is one that an allow rule stands for, *)
(* unless its type has deny rules only.  Mailboxes of rules with capitals  *)
(* in the local part are left out (LocalPartExact).                        *)
OnlyAllowedNames ==
    Allowed /\ (\E r \in config.rules : r.scope = cert.kind /\ r.kind = "permitted")
      => \A n \in cert.names :
           \/ CapitalMailbox(n)
           \/ \E r \in RulesFor("permitted", Type(n)) : Denotes(r, n)
           \/ /\ RulesFor("permitted", Type(n)) = {}
              /\ RulesFor("excluded", Type(n)) # {}

(* A name that the rules of its type stand for is not refused by accident: *)
(* a certificate of names that parse, each allowed by a rule and denied by *)
(* none, passes.  Literal wildcards and mailboxes of rules with capitals   *)
(* in the local part are left out.                                         *)
AllowedNamesPass ==
    /\ engines # Invalid
    /\ cert # NoCert
    /\ cert.cn = {}
    /\ ~(cert.kind # "x509" /\ splitSSHPrincipals(cert))
    /\ cert.names # {}
    /\ \A n \in cert.names :
         /\ ~Wildcard(n)
         /\ ~CapitalMailbox(n)
         /\ ~CannotParse(Type(n), n)
         /\ \E r \in RulesFor("permitted", Type(n)) : Denotes(r, n)
         /\ \A r \in RulesFor("excluded", Type(n)) : ~Denotes(r, n)
    => reasons = {}

(* An authority with SSH rules for one kind of certificate only issues no  *)
(* certificate of the other kind (IsSSHCertificateAllowed).                *)
OtherKindRefused ==
    Allowed /\ cert.kind \in {"host", "user"} =>
        \/ \E r \in config.rules : r.scope = cert.kind
        \/ \A r \in config.rules : r.scope = "x509"

(* A certificate whose common name is denied by a rule for common names    *)
(* is refused.                                                             *)
(* Does not hold, see the README.                                          *)
NoDeniedCommonName ==
    Allowed => \A n \in cert.cn : \A r \in RulesFor("excluded", "cn") : ~Denotes(r, n)

(* When something is explicitly allowed, a common name passes because a    *)
(* rule allows it or because it would pass as an alternative name.         *)
(* Does not hold, see the README.                                          *)
CommonNameExplicit ==
    Allowed /\ (\E r \in config.rules : r.kind = "permitted") => \A n \in cert.cn :
        \/ \E r \in RulesFor("permitted", "cn") : Denotes(r, n)
        \/ EvaluateCertificate(engines, [kind |-> "x509", names |-> {n}, cn |-> {}]) = {}

(* Literal wildcard names are allowed only where the option says so.       *)
(* Does not hold, see the README.                                          *)
WildcardNeedsOption ==
    Allowed /\ cert.kind = "x509"
      /\ (\E r \in config.rules : r.scope = "x509")
      => config.wildcards \/ \A n \in cert.names : ~Wildcard(n)

(* A mailbox constraint denies exactly the mailbox it is written as: what  *)
(* NoDeniedName says, for mailboxes of rules with capitals too.            *)
(* Does not hold, see the README.                                          *)
LocalPartExact ==
    Allowed => \A n \in cert.names :
        n.type = "email" => \A r \in RulesFor("excluded", "email") : ~Denotes(r, n)

=============================================================================
