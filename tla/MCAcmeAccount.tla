--------------------------- MODULE MCAcmeAccount ---------------------------
(* Instances of AcmeAccount for model checking.                             *)
EXTENDS AcmeAccount, TLC

CONSTANTS e1, v1

MCProvOf == [e \in {e1} |-> v1]

\* Requests, keys, nonces and account IDs are interchangeable.
Symmetry ==
  Permutations(Procs) \cup Permutations(Nonces) \cup Permutations(Keys)
    \cup Permutations(Accounts)

=============================================================================
