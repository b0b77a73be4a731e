--------------------------- MODULE MCProvisioners ---------------------------
(* The provisioners.  Only the chosen part moves: a family of tokens        *)
(* (ProvisionerTokens), the signing of one certificate (ProvisionerSign), or*)
(* the cached keys of an identity provider (KeyStore).                      *)
EXTENDS ProvisionerPackage

VARIABLE family

(* Two of each type that may share something: JWKs and X5Cs with one key,   *)
(* OIDC clients of one provider, Azure and OIDC of one tenant; clouds with  *)
(* and without trust on first use.                                          *)
Jwk1 == [Provisioner("JWK", "j1") EXCEPT !.kid = "k", !.keys = "shared"]
Jwk2 == [Provisioner("JWK", "j2") EXCEPT !.kid = "k", !.keys = "shared", !.ssh = FALSE]
X5c1 == [Provisioner("X5C", "x1") EXCEPT !.keys = "shared"]
Neb1 == [Provisioner("Nebula", "n1") EXCEPT !.ssh = FALSE]
Pop1 == Provisioner("SSHPOP", "s1")
Pop2 == [Provisioner("SSHPOP", "s2") EXCEPT !.keys = "s1", !.after = TRUE]
Pop3 == [Provisioner("SSHPOP", "s3") EXCEPT !.renew = FALSE]
Oidc1 == [Provisioner("OIDC", "o1") EXCEPT !.keys = "tenant", !.client = "c1"]
Oidc2 == [Provisioner("OIDC", "o2") EXCEPT !.keys = "tenant", !.client = "c2", !.ssh = FALSE]
Azure1 == [Provisioner("Azure", "a1") EXCEPT !.keys = "tenant", !.tenant = "tenant", !.aud = "azure"]
Azure2 == [Provisioner("Azure", "a2") EXCEPT !.tenant = "other", !.aud = "azure", !.tofu = FALSE]
Azure3 == [Provisioner("Azure", "a3") EXCEPT !.tenant = "third", !.aud = "azure"]
Aws1 == [Provisioner("AWS", "w1") EXCEPT !.keys = "aws", !.age = 2]
Aws2 == [Provisioner("AWS", "w2") EXCEPT !.keys = "aws", !.tofu = FALSE]
Gcp1 == [Provisioner("GCP", "g1") EXCEPT !.keys = "gcp"]
Gcp2 == [Provisioner("GCP", "g2") EXCEPT !.keys = "gcp", !.tofu = FALSE, !.ssh = FALSE]
K8s1 == Provisioner("K8sSA", "k1")
Acme1 == Provisioner("ACME", "ac1")
Scep1 == Provisioner("SCEP", "sc1")

MCProvisioners ==
  {Jwk1, Jwk2, X5c1, Neb1, Pop1, Pop2, Pop3, Oidc1, Oidc2, Azure1, Azure2, Azure3, Aws1, Aws2, Gcp1, Gcp2, K8s1,
   Acme1, Scep1}

Jti(id, p, op) == [Token(id, p, op) EXCEPT !.jti = id, !.exp = 1]
Cloud(id, p, i) == [Token(id, p, "Sign") EXCEPT !.instance = i, !.exp = 2, !.tid = p.tenant]

Families ==
  [ jwk   |-> { Jti("t1", Jwk1, "Sign"), Jti("t2", Jwk1, "SSHSign"), [Jti("t3", Jwk2, "Revoke") EXCEPT !.jti = ""],
                [Jti("t4", Jwk2, "SSHSign") EXCEPT !.iat = 1, !.nbf = 1] },
    x5c   |-> { Jti("t5", X5c1, "Sign"), Jti("t6", X5c1, "SSHSign"), Jti("t7", Neb1, "Sign"), Jti("t8", Neb1, "SSHRevoke") },
    pop   |-> { Jti("t9", Pop1, "SSHRevoke"), [Jti("t10", Pop1, "SSHRenew") EXCEPT !.certBefore = 1],
                [Jti("t11", Pop2, "SSHRenew") EXCEPT !.certBefore = 1], Jti("t12", Pop3, "SSHRenew"),
                [Jti("t13", Pop2, "SSHRekey") EXCEPT !.host = FALSE], Jti("t14", Pop1, "SSHRekey"),
                [Jti("t15", Pop2, "SSHRevoke") EXCEPT !.ownSerial = FALSE] },
    oidc  |-> { [Token("t16", Oidc1, "Sign") EXCEPT !.nonce = "n1", !.email = TRUE, !.tid = "tenant"],
                [Token("t17", Oidc2, "Sign") EXCEPT !.azp = TRUE, !.tid = "tenant", !.admin = TRUE, !.exp = 1],
                [Token("t18", Oidc1, "Sign") EXCEPT !.tid = "tenant"],
                [Token("t19", Oidc1, "Sign") EXCEPT !.nonce = "n2", !.listed = FALSE], Cloud("t20", Azure1, "vm"),
                Jti("t40", Azure1, "Renew") },
    azure |-> { Cloud("t21", Azure1, "vm"), [Cloud("t22", Azure1, "vm") EXCEPT !.iat = 1, !.nbf = 1],
                [Cloud("t23", Azure2, "vm") EXCEPT !.listed = FALSE], Cloud("t24", Azure2, "vm"),
                Jti("t25", Azure1, "Renew"), Jti("t26", Azure3, "Renew") },
    aws   |-> { Cloud("t27", Aws1, "vm"), [Cloud("t28", Aws1, "vm") EXCEPT !.iat = 2, !.nbf = 2, !.exp = 4],
                Cloud("t29", Aws2, "vm"), Cloud("t30", Aws2, "vm"), Jti("t31", Aws1, "Renew") },
    gcp   |-> { Cloud("t32", Gcp1, "vm"), Cloud("t33", Gcp1, "vm"), Cloud("t34", Gcp2, "vm"), Cloud("t35", Gcp2, "vm"),
                Jti("t36", Gcp1, "Renew") },
    k8s   |-> { Token("t37", K8s1, "Sign"), Jti("t38", Jwk1, "Renew"), Jti("t39", K8s1, "Renew") },
    acme  |-> { Jti("t41", Acme1, "Sign"), Jti("t42", Acme1, "Revoke"), Jti("t43", Scep1, "Sign"),
                Jti("t44", Acme1, "Renew"), Jti("t45", Scep1, "Renew") } ]

ById(S) == [id \in {t.id : t \in S} |-> CHOOSE t \in S : t.id = id]
MCTokens == ById(UNION {Families[f] : f \in DOMAIN Families})

(* What is proved for every instance holds of this one.                     *)
ASSUME Environment == DistinctAudiences /\ DistinctClaims /\ Durations /\ WellFormed

Held == [f \in DOMAIN Families |-> {t.id : t \in Families[f]}]

-----------------------------------------------------------------------------
(* The names certificates are about: two DNS names, two addresses, an email *)
(* and a URI, a permanent identifier, a default common name; for SSH, two   *)
(* users, one of them also spelled in capitals.                             *)
MCKind ==
  [n \in {"a", "b", "1", "2", "u", "uri", "id", "d", ""} |->
     CASE n \in {"a", "b", "d", ""} -> "dns" [] n \in {"1", "2"} -> "ip" [] n = "u" -> "email"
       [] n = "id" -> "permanent-identifier" [] OTHER -> "uri"]

MCDefaultCNs == {"", "d"}

MCLower == [n \in {"a", "b", "A", "1", "2", "u"} |-> IF n = "A" THEN "a" ELSE n]

(* Each type as it is by default, with a custom template, with policies and *)
(* with both; the clouds with and without custom names.                     *)
Variants(p) ==
  {p, [p EXCEPT !.template = TRUE], [p EXCEPT !.x509 = {"a", "1", "u", "uri"}, !.host = {"a", "1"}, !.user = {"a"}],
   [p EXCEPT !.user = {"a", "b"}], [p EXCEPT !.host = {"a", "b"}],
   [p EXCEPT !.template = TRUE, !.user = {"a"}], [p EXCEPT !.template = TRUE, !.host = {"a"}, !.user = {"b"}]}

MCSignProvisioners ==
  UNION {Variants(SignProvisioner(t, t)) : t \in SignTypes}
  \cup UNION {Variants([SignProvisioner(t, t) EXCEPT !.disableCustomSANs = TRUE]) : t \in InstanceTypes}
  \cup {[SignProvisioner(t, t) EXCEPT !.forceCN = TRUE, !.minLength = 4096] : t \in {"ACME", "SCEP"}}

SSH(type, keyID, principals) == [type |-> type, keyID |-> keyID, principals |-> principals]

TokenCredentials ==
  {Credential("a"), [Credential("a") EXCEPT !.sans = {"a", "b", "1"}], [Credential("b") EXCEPT !.sans = {"u", "uri"}],
   [Credential("a") EXCEPT !.ssh = SSH("", "", <<>>)], [Credential("a") EXCEPT !.ssh = SSH("user", "", <<"a", "b">>)],
   [Credential("a") EXCEPT !.ssh = SSH("host", "id", <<"b">>)], [Credential("a") EXCEPT !.ssh = SSH("other", "", <<>>)]}

MCCredentials ==
  [ JWK    |-> TokenCredentials,
    X5C    |-> TokenCredentials,
    Nebula |-> {[c EXCEPT !.names = <<"a", "1", "2">>] : c \in
                  {Credential("a"), [Credential("a") EXCEPT !.sans = {"1", "a"}]}
                  \cup {[Credential("a") EXCEPT !.ssh = options] : options \in
                          {SSH("", "", <<>>), SSH("host", "", <<"1", "a">>), SSH("host", "", <<"b">>),
                           SSH("user", "", <<>>)}}},
    AWS    |-> {[Credential("a") EXCEPT !.names = <<"1", "a">>]},
    GCP    |-> {[Credential("u") EXCEPT !.names = <<"a", "b">>, !.cns = {"u", "a", "b"}]},
    Azure  |-> {[Credential("a") EXCEPT !.names = <<"a">>]},
    OIDC   |-> {[Credential("u") EXCEPT !.names = <<"u", "uri">>, !.users = <<"a", "u">>],
                [Credential("u") EXCEPT !.names = <<"u", "uri">>, !.users = <<"a">>, !.admin = TRUE],
                [Credential("u") EXCEPT !.names = <<"uri">>, !.email = FALSE], [Credential("") EXCEPT !.email = FALSE]},
    K8sSA  |-> {Credential("a")},
    ACME   |-> {[Credential("") EXCEPT !.names = s] : s \in {<<"a", "1">>, <<"1">>, <<"a", "b">>}}
               \cup {[Credential("") EXCEPT !.pid = "id", !.names = <<"a">>], [Credential("") EXCEPT !.viaToken = TRUE]},
    SCEP   |-> {Credential(""), [Credential("") EXCEPT !.viaToken = TRUE]} ]

Keys == {[alg |-> "ec", bits |-> 256], [alg |-> "rsa", bits |-> 1024], [alg |-> "rsa", bits |-> 2048], [alg |-> "dsa", bits |-> 2048]}
Ec == [alg |-> "ec", bits |-> 256]

MCCSRs ==
  {[cn |-> cn, sans |-> S, key |-> Ec] : cn \in {"", "a", "b", "u"}, S \in SUBSET {"a", "b", "1", "2", "u", "uri"}}
  \cup {[cn |-> "", sans |-> {}, key |-> k] : k \in Keys}

MCSSHRequests ==
  {[type |-> t, keyID |-> k, principals |-> s, key |-> Ec] :
     t \in {"", "user", "host"}, k \in {"", "id"},
     s \in {<<>>, <<"a">>, <<"A">>, <<"b">>, <<"1">>, <<"u">>, <<"a", "b">>, <<"a", "a">>, <<"a", "1">>, <<"">>}}
  \cup {[type |-> "", keyID |-> "", principals |-> <<>>, key |-> k] : k \in Keys}
  \cup {[type |-> "other", keyID |-> "", principals |-> <<>>, key |-> Ec]}

-----------------------------------------------------------------------------
(* The ages of the keys are none, and one on either side of Hour.           *)
MCAges == {0, 3, 4}

(* A store at rest in the other parts.                                      *)
StoreResting == age = 0 /\ timer = 0

-----------------------------------------------------------------------------
MCInit ==
  /\ family \in DOMAIN Families \cup {"sign", "keys"}
  /\ Store!Init /\ (family # "keys" => StoreResting)
  /\ Init /\ (family \notin {"jwk", "pop"} => sshCA)
  /\ SignInit /\ signers \in (IF family = "sign" THEN {{"host"}, {"user", "host"}} ELSE {{}})
  \* The signers are for SSH certificates, the common name for the others.
  /\ defaultCN = (IF "user" \in signers THEN "d" ELSE "")

MCNext ==
  \/ /\ family \notin {"sign", "keys"}
     /\ \/ \E r \in Requests, op \in Ops, t \in Held[family] : Arrive(r, op, t)
        \/ \E r \in Requests : Validate(r)
        \/ Restart
        \/ Tick
     /\ UNCHANGED << family, signVars, keyVars >>
  \/ family = "sign" /\ SignNext /\ UNCHANGED << vars, family, keyVars >>
  \/ family = "keys" /\ Store!Next /\ UNCHANGED << vars, family, signVars >>

MCSpec == MCInit /\ [][MCNext]_<<vars, family, signVars, keyVars>>

Symmetry == Permutations(Requests)

=============================================================================
