-------------------------- MODULE NameConstraints --------------------------
(***************************************************************************)
(* The name constraints of the CA's own certificates, which the authority  *)
(* enforces when it issues and renews (authority/internal/constraints).    *)
(*                                                                         *)
(* The engine is built from the chain of intermediate certificates and     *)
(* their root; a client checks the same chain certificate by certificate.  *)
(***************************************************************************)
EXTENDS Names

CONSTANTS
    Constraints,    \* the name constraints a CA certificate may hold
    MaxPerCert,     \* bound: constraints of one certificate
    ChainLength,    \* certificates in the chain
    Certs           \* the leaf certificates, sets of names

VARIABLES
    chain,      \* the constraints of each CA certificate of the chain
    leaf,       \* the names of the certificate validated last
    verdict     \* "accepted" or "refused" by the engine

vars == <<chain, leaf, verdict>>

(***************************************************************************)
(* Matching: verify.go                                                     *)
(***************************************************************************)

DropPeriod(d) == IF d # <<>> /\ d[1] = "" THEN Tail(d) ELSE d

Parses(d) == \A i \in DOMAIN DropPeriod(d) : DropPeriod(d)[i] \notin {"", " "}

domainToReverseLabels(d) == Reverse(DropPeriod(d))

parseRFC2821Mailbox(m) == m.local \notin {"", "a..b"} /\ Parses(m.labels)

Matches(b) == IF b THEN "match" ELSE "no match"

(* An empty constraint matches everything; one with a leading period wants *)
(* at least one more label.                                                *)
matchDomainConstraint(domain, constraint) ==
    LET sub == constraint[1] = ""
        d   == domainToReverseLabels(domain)
        c   == domainToReverseLabels(DropPeriod(constraint))
    IN  IF constraint = <<>> THEN "match"
        ELSE IF ~Parses(domain) \/ ~Parses(DropPeriod(constraint)) THEN "error"
        ELSE Matches(/\ Len(d) >= Len(c)
                     /\ ~(sub /\ Len(d) = Len(c))
                     /\ \A i \in 1..Len(c) : Lower(c[i]) = Lower(d[i]))

matchIPConstraint(ip, net) ==
    Matches(ip.family = net.family /\ IsPrefix(net.bits, ip.bits))

matchEmailConstraint(mailbox, constraint) ==
    IF constraint.local # ""
    THEN IF ~parseRFC2821Mailbox(constraint) THEN "error"
         ELSE Matches(/\ mailbox.local = constraint.local
                      /\ EqualFold(mailbox.labels, constraint.labels))
    ELSE matchDomainConstraint(mailbox.labels, constraint.labels)

matchURIConstraint(uri, constraint) ==
    IF uri.labels = <<>> \/ uri.form = "ip" THEN "error"
    ELSE matchDomainConstraint(uri.labels, constraint)

Match(name, pat) ==
    CASE name.type = "dns"   -> matchDomainConstraint(name.labels, pat)
      [] name.type = "ip"    -> matchIPConstraint(name, pat)
      [] name.type = "email" -> matchEmailConstraint(name, pat)
      [] name.type = "uri"   -> matchURIConstraint(name, pat)

(* The constraints of an engine of a kind that apply to a name, in the     *)
(* order in which they are matched.                                        *)
Of(cs, kind, name) == SelectSeq(cs, LAMBDA c : c.kind = kind /\ c.type = name.type)

Results(cs, kind, name) ==
    LET s == Of(cs, kind, name) IN [i \in DOMAIN s |-> Match(name, s[i].pat)]

(* No excluded constraint may match or fail; the first permitted one that  *)
(* matches has to come before any that fails.                              *)
checkNameConstraints(cs, name) ==
    LET ex == Results(cs, "excluded", name)
        pm == Results(cs, "permitted", name)
    IN  /\ \A i \in DOMAIN ex : ex[i] = "no match"
        /\ \/ pm = <<>>
           \/ \E i \in DOMAIN pm : /\ pm[i] = "match"
                                   /\ \A j \in 1..(i - 1) : pm[j] # "error"

(***************************************************************************)
(* The engine: constraints.go                                              *)
(***************************************************************************)

(* Mutant: only the constraints of the issuing certificate are used.       *)
NewFirst(ch) == ch[1]

(* New collects the constraints of all the certificates of the chain.      *)
New(ch) == FlattenSeq(ch)

(* Validate: a certificate without constraints accepts every name, one     *)
(* with constraints wants mailboxes that parse.                            *)
Validate(cs, names) ==
    \/ cs = <<>>
    \/ \A n \in names : /\ n.type = "email" => parseRFC2821Mailbox(n)
                        /\ checkNameConstraints(cs, n)

Verdict(cs, names) == IF Validate(cs, names) THEN "accepted" ELSE "refused"

(* External: crypto/x509 in the client.  Every CA certificate of the chain *)
(* that holds any constraint wants all the DNS names and mailboxes of the  *)
(* leaf to parse, whatever the constraints are on, and its own constraints *)
(* to accept every name; verify.go is the client's matching.               *)
ClientParses(n) ==
    /\ n.type = "dns" => Parses(n.labels)
    /\ n.type = "email" => parseRFC2821Mailbox(n)

Verifies(ch, names) ==
    \A i \in DOMAIN ch : ch[i] # <<>> =>
        \A n \in names : ClientParses(n) /\ checkNameConstraints(ch[i], n)

NoLeaf == {}

PerCert == UNION {[1..n -> Constraints] : n \in 0..MaxPerCert}

(* Every variable has its type.                                            *)
TypeOK ==
    /\ chain \in [1..ChainLength -> PerCert]
    /\ leaf \in Certs \cup {NoLeaf}
    /\ verdict \in {"none", "accepted", "refused"}

Init ==
    /\ chain \in [1..ChainLength -> PerCert]
    /\ leaf = NoLeaf
    /\ verdict = "none"

(* Signing and renewing validate the names of the new certificate; the     *)
(* engine keeps no state, so one certificate per behaviour is enough.      *)
ValidateCertificate(c) ==
    /\ leaf = NoLeaf
    /\ leaf' = c
    /\ verdict' = Verdict(New(chain), c)
    /\ UNCHANGED chain

Next == \E c \in Certs : ValidateCertificate(c)

Spec == Init /\ [][Next]_vars

(***************************************************************************)
(* Properties                                                              *)
(***************************************************************************)

(* No certificate is issued for a name that any CA certificate of the      *)
(* chain excludes.                                                         *)
ExcludedByAnyCA ==
    verdict = "accepted" => \A i \in DOMAIN chain : \A n \in leaf :
        \A k \in DOMAIN chain[i] :
            chain[i][k].kind = "excluded" /\ chain[i][k].type = n.type
              => Match(n, chain[i][k].pat) # "match"

(* The engine is not stricter than the clients: a certificate it refuses   *)
(* does not verify.                                                        *)
NeverTooStrict ==
    verdict = "refused" => ~Verifies(chain, leaf)

(* At most one certificate of the chain permits names of a type.           *)
OnePermitter ==
    \A i, j \in DOMAIN chain : i # j =>
        \A k \in DOMAIN chain[i], l \in DOMAIN chain[j] :
            ~(/\ chain[i][k].kind = "permitted" /\ chain[j][l].kind = "permitted"
              /\ chain[i][k].type = chain[j][l].type)

(* The engine parses a DNS name only to match it with a constraint.        *)
DNSNamesParse == \A n \in leaf : n.type = "dns" => Parses(n.labels)

(* A certificate that is issued verifies, when its DNS names parse and at  *)
(* most one certificate of the chain holds permitted constraints of any    *)
(* one name type.                                                          *)
IssuedVerifiesAlone ==
    verdict = "accepted" /\ OnePermitter /\ DNSNamesParse => Verifies(chain, leaf)

(* A certificate that is issued verifies: the constraints of every CA      *)
(* certificate of the chain are enforced.                                  *)
(* Does not hold, neither without OnePermitter nor without DNSNamesParse,  *)
(* see the README.                                                         *)
IssuedVerifies == verdict = "accepted" => Verifies(chain, leaf)

=============================================================================
