---------------------------- MODULE MCAcmeTables ----------------------------
(* AcmeTables for TLC: a behaviour exercises one part, chosen at the start. *)
EXTENDS AcmeTables

CONSTANT First  \* the account that places the larger orders

VARIABLE part

(* What is proved for every instance holds of this one.                     *)
ASSUME Environment == NoneDistinct /\ KeyNoneDistinct /\ AnswersDistinct

all == << part, vars, keyVars, chVars >>

(* One token and one account key are validated, the others occur in answers; *)
(* the parts without a validation have an http-01 challenge.                 *)
OneChallenge ==
  /\ jwk = CHOOSE k \in AccountKeys : TRUE
  /\ ch.token = CHOOSE t \in Tokens : TRUE
  /\ part # "challenge" =>
       ch = CHOOSE c \in Challenge!ChallengesToValidate : c.type = "http-01" /\ c.token = ch.token

MCInit ==
  /\ part \in {"order", "accounts", "keys", "challenge"}
  /\ Init /\ Keys!Init /\ Challenge!Init /\ OneChallenge

(* One account places orders of MaxIdentifiers, or all accounts place       *)
(* orders of one identifier without challenges.                             *)
MCNext ==
  \/ /\ part \in {"order", "accounts"}
     /\ Next
     /\ part = "order" => \A p \in Procs : loc'[p].acc \in {First, None}
     /\ part = "accounts" => \A p \in Procs : loc'[p].left <= 1 /\ loc'[p].types = 0
     /\ UNCHANGED << part, keyVars, chVars >>
  \/ part = "keys" /\ Keys!Next /\ UNCHANGED << part, vars, chVars >>
  \/ part = "challenge" /\ Challenge!Next /\ UNCHANGED << part, vars, keyVars >>

(* The fairness of AcmeNewOrder, for the part whose liveness is checked.    *)
MCFairness ==
  \A p \in Procs :
    /\ WF_all(part = "order" /\ Step(p) /\ UNCHANGED << part, keyVars, chVars >>)
    /\ SF_all(part = "order" /\ Lock(p) /\ UNCHANGED << part, keyVars, chVars >>)

MCSpec == MCInit /\ [][MCNext]_all /\ MCFairness

-----------------------------------------------------------------------------
(* Every request is answered: no path leaves ordersByAccountMux locked.     *)
RequestAnswered ==
  \A p \in Procs : part = "order" /\ ~At(p, "idle") ~> At(p, "idle")

=============================================================================
