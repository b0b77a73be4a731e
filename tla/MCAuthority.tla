---------------------------- MODULE MCAuthority -----------------------------
(* Instances of Authority for model checking.  One state space with four     *)
(* scopes, each large enough for one kind of race, chosen at the start.      *)
EXTENDS Authority, TLC

CONSTANTS k1

VARIABLE scope

\* Tokens 1 and 2 are those of one cloud instance; the others may be used again,
\* as those of Azure without trust on first use.
OneTime == {1, 2}
MCTokens == 1 .. 5
MCKeyOf == [t \in Tokens |-> IF t \in OneTime THEN k1 ELSE None]

\* Each of the tokens that may be used again is made for one operation.
OpOf == 3 :> "Sign" @@ 4 :> "Renew" @@ 5 :> "Revoke"

issued == {t \in Tokens : token[t] # None}
busy == {p \in Procs : loc[p].pc # "idle"}

\* The tokens clients make in a scope; token 1 is issued before token 2.
MayIssue(t, q) ==
  CASE scope = "X.509" -> t = 1 /\ ~q.ssh
    [] scope = "tokens" -> t \in OneTime /\ (t = 2 => 1 \in issued) /\ ~q.ssh
    [] OTHER -> /\ t \notin OneTime /\ q.op = OpOf[t] /\ q.ssh
                /\ scope = "identity" => Cardinality(issued) <= 1

Within ==
  CASE scope = "X.509" ->      \* two requests on two X.509 certificates
         signed \cap SSH = {} /\ now = 0
    [] scope = "tokens" ->     \* two tokens with one reuse key, and the clock
         signed \cap SSH = {} /\ Cardinality(signed) <= 1
    [] scope = "SSH" ->        \* two requests on two SSH certificates
         signed \subseteq SSH /\ now = 0
    [] scope = "identity" ->   \* both kinds, one request at a time
         Cardinality(busy) <= 1 /\ now = 0

MCInit == Init /\ scope \in {"X.509", "tokens", "SSH", "identity"}

MCNext ==
  /\ \/ \E t \in Tokens, q \in Part : MayIssue(t, q) /\ IssueToken(t, q)
     \/ \E p \in Procs : Request(p) \/ Step(p)
     \/ Reload
     \/ Restart
     \/ Tick
  /\ UNCHANGED scope
  /\ Within'

MCSpec == MCInit /\ [][MCNext]_<< scope, vars >>

\* Serials of one kind and requests are interchangeable.
Symmetry == Permutations(SSH) \cup Permutations(Serials \ SSH) \cup Permutations(Procs)

=============================================================================
