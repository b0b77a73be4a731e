----------------------------- MODULE AcmeStatus -----------------------------
(***************************************************************************)
(* What acme/order.go, acme/authorization.go and acme/challenge.go promise   *)
(* of the stored statuses: the switch statements of the UpdateStatus methods *)
(* and of Validate and Finalize read as one state machine, in which valid    *)
(* and invalid are final and each object follows the ones below it.          *)
(***************************************************************************)
CONSTANTS Orders, Authzs, Challenges, OrderOf, AuthzOf

VARIABLES order, authz, chal

statuses == <<order, authz, chal>>

Init ==
  /\ order = [o \in Orders |-> "pending"]
  /\ authz = [a \in Authzs |-> "pending"]
  /\ chal = [c \in Challenges |-> "pending"]

\* Challenge.Validate acts on a pending challenge only.
ChallengeSettles(c) ==
  /\ chal[c] = "pending"
  /\ \E status \in {"valid", "invalid"} : chal' = [chal EXCEPT ![c] = status]
  /\ UNCHANGED <<order, authz>>

\* Authorization.UpdateStatus: valid with a valid challenge, invalid by expiry.
AuthzSettles(a) ==
  /\ authz[a] = "pending"
  /\ \/ /\ \E c \in Challenges : AuthzOf[c] = a /\ chal[c] = "valid"
        /\ authz' = [authz EXCEPT ![a] = "valid"]
     \/ authz' = [authz EXCEPT ![a] = "invalid"]
  /\ UNCHANGED <<order, chal>>

\* Order.UpdateStatus and Order.Finalize.
OrderAdvances(o) ==
  /\ \/ /\ order[o] = "pending"
        /\ \A a \in Authzs : OrderOf[a] = o => authz[a] = "valid"
        /\ order' = [order EXCEPT ![o] = "ready"]
     \/ /\ order[o] = "ready"
        /\ order' = [order EXCEPT ![o] = "valid"]
     \/ /\ order[o] \in {"pending", "ready"}
        /\ order' = [order EXCEPT ![o] = "invalid"]
  /\ UNCHANGED <<authz, chal>>

Next ==
  \/ \E c \in Challenges : ChallengeSettles(c)
  \/ \E a \in Authzs : AuthzSettles(a)
  \/ \E o \in Orders : OrderAdvances(o)

Spec == Init /\ [][Next]_statuses
=============================================================================
