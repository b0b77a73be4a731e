---------------------------- MODULE MCAcmeOrder ----------------------------
(* Instances of AcmeOrder: an order with two authorizations, the first with  *)
(* one or two challenges.                                                   *)
EXTENDS AcmeOrder, TLC

CONSTANTS o1, a1, a2, c1, c2, c3

MCOrderOf == a1 :> o1 @@ a2 :> o1

MCAuthzOf == c1 :> a1 @@ c2 :> a2
MCTypeOf == c1 :> "http-01" @@ c2 :> "dns-01"

MCAuthzOf3 == c1 :> a1 @@ c2 :> a2 @@ c3 :> a1
MCTypeOf3 == c1 :> "tls-alpn-01" @@ c2 :> "device-attest-01" @@ c3 :> "dns-01"

Symmetry == Permutations(Procs) \cup Permutations(Certs)

\* Challenge.Validate: "If already valid or invalid then return without performing
\* validation", so a settled challenge keeps its status.
\* Does not hold, see the README.
SettledChallengeKept ==
  [][\A c \in Challenges : chal[c] # "pending" => chal'[c] = chal[c]]_vars
=============================================================================
