------------------------------- MODULE MCSign -------------------------------
(* What the authority lets into a certificate: the period (CertValidity),   *)
(* the names its policies allow (NamePolicy) and the names its own chain    *)
(* allows (NameConstraints).  A behaviour exercises one part, chosen at the *)
(* start.                                                                   *)
EXTENDS CertValidity, FiniteSets

CONSTANT Invalid

VARIABLES part, config, engines, subject, reasons, chain, leaf, verdict

-----------------------------------------------------------------------------
(* Periods.  The global claims are 2 to 4 seconds, by default 4, of two     *)
(* ticks each.                                                              *)
Claim(min, max, def) == [NoClaims EXCEPT !.min = min, !.max = max, !.def = def]

MCGlobal == [k \in Kinds |-> [min |-> 4, max |-> 8, def |-> 8]]

TLSClaims ==
  { Claim(min, max, def) : min \in {None, 5, 6}, max \in {None, 7}, def \in {None, 3, 6, 10} }
    \cup { [NoClaims EXCEPT !.allowAfterExpiry = TRUE], [NoClaims EXCEPT !.disableRenewal = TRUE] }

(* Whole seconds, each minimum, default and maximum in order.               *)
SSHClaims == {NoClaims, Claim(None, None, 2), Claim(None, None, 10), Claim(6, 6, 6)}
MCClaims == TLSClaims \cup SSHClaims

MCPopClaims ==
  { NoClaims, Claim(6, 6, 6), [NoClaims EXCEPT !.allowAfterExpiry = TRUE],
    [NoClaims EXCEPT !.disableRenewal = TRUE] }

MCLimits == {None, Window(Start - 4, Start + 6), Window(Start + 2, Start + 12)}

TLSTimes == {Unset, Time(Start), Time(Start + 5), Time(Start - 4), Dur(5), Dur(8), Dur(-3)}
SSHTimes == {Unset, Time(Start + 5), Time(Start - 4), Time(-5), Dur(4), Dur(8)}
MCReqTimes == TLSTimes \cup SSHTimes
MCTokTimes == {Unset, Time(Start + 2), Dur(8)}

Scope ==
  IF IsTLS
  THEN conf.claims \in TLSClaims /\ {req.after, req.before} \subseteq TLSTimes
  ELSE /\ conf.claims \in SSHClaims /\ {req.after, req.before} \subseteq SSHTimes
       /\ clock <= Start + 4 /\ gen <= 1

-----------------------------------------------------------------------------
(* Policies.  Every kind of pattern and of name occurs: exact and wildcard  *)
(* domains, capital letters, names that do not parse, addresses and         *)
(* networks, mailboxes and mail domains, hosts of URIs with port, address   *)
(* and asterisk, and principals.                                            *)
N == INSTANCE Names

Rule(scope, kind, type, pat) == [scope |-> scope, kind |-> kind, type |-> type, pat |-> pat]

Both(scope, type, pats) ==
  {Rule(scope, kind, type, p) : kind \in {"permitted", "excluded"}, p \in pats}

Net(f, b, m) == [family |-> f, bits |-> b, mask |-> m]
Addr(f, b)   == [family |-> f, bits |-> b]

BadRules ==
  Both("x509", "dns", {<<"", "local">>, <<"a", "*">>, <<"*a", "local">>, <<"*">>})
    \cup Both("x509", "uri", {N!URI("port", <<"local">>)})
    \cup Both("x509", "email", {N!Email("", <<"", "local">>), N!Email("a..b", <<"local">>)})

X509Rules ==
  Both("x509", "dns", {<<"*", "local">>, <<"a", "LOCAL">>})
    \cup Both("x509", "ip", {Net(4, <<1, 0>>, 1), Addr(4, <<0, 1>>)})
    \cup Both("x509", "email", {N!Email("john", <<"local">>), N!Email("John", <<"local">>), N!Email("", <<"local">>)})
    \cup Both("x509", "uri", {N!URI("domain", <<"*", "local">>)})
    \cup Both("x509", "cn", {N!DNS(<<"a", "local">>)})
    \cup {r \in BadRules : r.kind = "permitted"}

SSHRules ==
  Both("host", "dns", {<<"*", "local">>, <<"a", "local">>})
    \cup Both("host", "ip", {Net(4, <<1, 0>>, 1)})
    \cup Both("user", "principal", {<<"*">>, <<"John">>})
    \cup Both("user", "email", {N!Email("", <<"local">>), N!Email("John", <<"local">>)})

X509Names ==
  { N!DNS(<<"local">>), N!DNS(<<"a", "local">>), N!DNS(<<"b", "LOCAL">>),
    N!DNS(<<"a", "b", "local">>), N!DNS(<<"*", "local">>), N!DNS(<<"", "local">>),
    N!DNS(<<"a", "", "local">>), N!DNS(<<" ">>),
    N!IP(4, <<1, 1>>), N!IP(4, <<0, 1>>), N!IP(6, <<1, 1, 1>>),
    N!Email("John", <<"local">>), N!Email("john", <<"LOCAL">>),
    N!Email("john", <<"a", "local">>), N!Email("a..b", <<"local">>),
    N!URI("domain", <<"a", "local">>), N!URI("port", <<"a", "local">>),
    N!URI("ip", <<"local">>), N!URI("domain", <<"*", "local">>), N!URI("domain", <<>>) }

SSHNames ==
  { N!DNS(<<"a", "local">>), N!DNS(<<"b", "local">>), N!DNS(<<"John">>), N!DNS(<<"*", "local">>),
    N!IP(4, <<1, 1>>), N!IP(4, <<0, 1>>), N!Email("John", <<"local">>), N!Email("john", <<"LOCAL">>),
    N!Email("john", <<"a", "local">>), N!URI("domain", <<"a", "local">>) }

Cert(kind, names, cn) == [kind |-> kind, names |-> names, cn |-> cn]

Pairs(S) == {{x, y} : x, y \in S}

X509Certs ==
  {Cert("x509", ns, {}) : ns \in Pairs(X509Names)}
    \cup {Cert("x509", {}, {n}) : n \in X509Names}
    \cup {Cert("x509", {N!DNS(<<"a", "local">>)}, {n}) : n \in X509Names}

SSHCerts == {Cert(k, ns, {}) : k \in {"host", "user"}, ns \in Pairs(SSHNames)}

X509 == INSTANCE NamePolicy WITH cert <- subject, Rules <- X509Rules, MaxRules <- 2, Certs <- X509Certs
SSH  == INSTANCE NamePolicy WITH cert <- subject, Rules <- SSHRules, MaxRules <- 2, Certs <- SSHCerts

-----------------------------------------------------------------------------
(* Name constraints: an intermediate and a root with up to two each.        *)
C(kind, type, pat) == [kind |-> kind, type |-> type, pat |-> pat]

Constraints ==
  {C(kind, "dns", p) : kind \in {"permitted", "excluded"}, p \in {<<"local">>, <<"", "a", "LOCAL">>, <<>>}}
    \cup {C(kind, "email", N!Email("john", <<"local">>)) : kind \in {"permitted", "excluded"}}
    \cup { C("permitted", "dns", <<"a", "">>), C("permitted", "ip", [family |-> 4, bits |-> <<1>>]),
           C("permitted", "email", N!Email("", <<"local">>)), C("excluded", "uri", <<"local">>) }

LeafNames ==
  { N!DNS(<<"local">>), N!DNS(<<"a", "local">>), N!DNS(<<"b", "a", "local">>),
    N!DNS(<<"b", "", "c">>), N!IP(4, <<1, 0>>), N!IP(6, <<1, 1, 1>>), N!Email("john", <<"LOCAL">>),
    N!Email("a..b", <<"local">>), N!URI("port", <<"a", "local">>), N!URI("ip", <<"local">>),
    N!URI("domain", <<>>) }

(* Names are checked one after the other: every name occurs alone, and      *)
(* beside a DNS name or a mailbox.                                          *)
Leaves ==
  {{n} : n \in LeafNames}
    \cup {{n, m} : n \in LeafNames, m \in {N!DNS(<<"a", "local">>), N!Email("john", <<"LOCAL">>)}}

Chain == INSTANCE NameConstraints WITH MaxPerCert <- 2, ChainLength <- 2, Certs <- Leaves

-----------------------------------------------------------------------------
policyVars == << config, engines, subject, reasons >>
chainVars == << chain, leaf, verdict >>
all == << part, vars, policyVars, chainVars >>

(* A part that is not exercised stays in one of its initial states.         *)
PeriodRests ==
  /\ conf = [kind |-> "tls", claims |-> NoClaims, limit |-> None, pop |-> NoClaims]
  /\ req = [after |-> Unset, before |-> Unset, tokAfter |-> Unset, tokBefore |-> Unset]
  /\ clock = Start /\ cert = [after |-> 0, before |-> 0] /\ pc = "modify"
  /\ old = cert /\ gen = 0 /\ at = 0
PolicyRests ==
  /\ config = [rules |-> {}, wildcards |-> FALSE] /\ engines = X509!NewEngines(config)
  /\ subject = X509!NoCert /\ reasons = {}
ChainRests == chain = << <<>>, <<>> >> /\ leaf = Chain!NoLeaf /\ verdict = "none"

MCInit ==
  \/ part = "period" /\ Init /\ Scope /\ PolicyRests /\ ChainRests
  \/ part = "X.509 policy" /\ X509!Init /\ PeriodRests /\ ChainRests
  \/ part = "SSH policy" /\ SSH!Init /\ PeriodRests /\ ChainRests
  \/ part = "chain" /\ Chain!Init /\ PeriodRests /\ PolicyRests

MCNext ==
  \/ part = "period" /\ Next /\ Scope' /\ UNCHANGED << part, policyVars, chainVars >>
  \/ part = "X.509 policy" /\ X509!Next /\ UNCHANGED << part, vars, chainVars >>
  \/ part = "SSH policy" /\ SSH!Next /\ UNCHANGED << part, vars, chainVars >>
  \/ part = "chain" /\ Chain!Next /\ UNCHANGED << part, vars, policyVars >>

MCSpec == MCInit /\ [][MCNext]_all

-----------------------------------------------------------------------------
(* The policy engine decides what the rules say.  A certificate it allows   *)
(* has no alternative name that a deny rule stands for and, when something  *)
(* is explicitly allowed, only names that an allow rule stands for or whose *)
(* type has deny rules only; with SSH rules for one kind of certificate no  *)
(* other kind is allowed.  A certificate of names that parse, each allowed  *)
(* by a rule and denied by none, passes (validateNames,                     *)
(* IsSSHCertificateAllowed).  It is silent on the names for which the code  *)
(* departs from its rules: a literal wildcard without the option for them,  *)
(* and a mailbox that a rule with capitals in the local part is written     *)
(* for, as normalizeAndValidateEmailConstraint lower-cases such a rule.     *)
PolicyFollowsRules ==
  /\ part = "X.509 policy" => X509!NoDeniedName /\ X509!OnlyAllowedNames /\ X509!AllowedNamesPass
  /\ part = "SSH policy" => /\ SSH!NoDeniedName /\ SSH!OnlyAllowedNames /\ SSH!AllowedNamesPass
                            /\ SSH!OtherKindRefused

(* The constraints engine agrees with the clients that verify the chain     *)
(* (constraints.Engine).  It issues for no name that a CA of the chain      *)
(* excludes, refuses only certificates that would not verify, and issues    *)
(* only certificates that verify when at most one CA of the chain permits   *)
(* names of a type and the DNS names parse: Validate parses a DNS name only *)
(* to match it, a client as soon as a CA has any constraint.                *)
EngineAgreesWithVerifier ==
  part = "chain" => Chain!ExcludedByAnyCA /\ Chain!NeverTooStrict /\ Chain!IssuedVerifiesAlone

=============================================================================
