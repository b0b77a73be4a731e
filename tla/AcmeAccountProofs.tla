------------------------- MODULE AcmeAccountProofs -------------------------
(***************************************************************************)
(* Proofs about AcmeAccount, for any number of requests, keys, accounts,    *)
(* nonces and external account keys.                                       *)
(*                                                                         *)
(* KeyIndexAgrees is not inductive: CreateAccount writes the index before   *)
(* the account, so the argument needs what a request in between holds.      *)
(* Claims says that it alone holds the index entry of its key and that the  *)
(* account of that entry is not stored, hence saving the account makes the  *)
(* two tables agree and taking the entry back orphans no account.           *)
(***************************************************************************)
EXTENDS AcmeAccount, TLAPS

(* A leaf is Zenon's unless it names another prover.                        *)
USE ZenonT(60)

Claim == {"saveAccount", "rollback"}

NewLabels == {"getAccountIDByKeyID", "validateEAB", "CreateAccount",
              "saveAccount", "rollback", "UpdateEAK"}

UpdateLabels == {"UpdateAccount", "save"}

\* What the locals of a request say about the tables.
LocInv(l) ==
  /\ l.pc # "idle" => l.kind \in Kinds
  /\ l.pc # "idle" /\ l.kind = "NewAccount" => l.key \in Keys
  /\ l.pc # "idle" /\ l.kind # "NewAccount" => l.id \in Accounts
  /\ l.pc = "GetAccount" => l.id \in Accounts
  /\ l.pc \in NewLabels => l.kind = "NewAccount"
  /\ l.pc \in UpdateLabels =>
       l.kind # "NewAccount" /\ l.acc # None /\ account[l.id] # None
  /\ l.pc \in Claim =>
       l.id \in Accounts /\ keyIndex[l.key] = l.id /\ account[l.id] = None
  /\ l.pc = "UpdateEAK" =>
       l.id \in Accounts /\ account[l.id] # None /\ l.eab \in EABKeys

NonceInv ==
  \A n \in Nonces : admitted[n] <= 1 /\ (n \in nonces => admitted[n] = 0)

\* No two requests have claimed the same key.
Claims ==
  \A p, q \in Procs :
    p # q /\ loc[p].pc \in Claim /\ loc[q].pc \in Claim
      => loc[p].key # loc[q].key

\* No two keys have the same account.
IndexInjective ==
  \A j, k \in Keys :
    keyIndex[j] = keyIndex[k] /\ keyIndex[j] # None => j = k

Inv ==
  /\ TypeOK
  /\ NonceInv
  /\ IndexInjective
  /\ KeyIndexAgrees
  /\ BoundKeyHasAccount
  /\ \A p \in Procs : LocInv(loc[p])
  /\ Claims

USE DEF Claim, NewLabels, UpdateLabels

-----------------------------------------------------------------------------
\* No request is being served at first, and nothing is stored.
LEMMA InitInv == Init => Inv
<1> SUFFICES ASSUME Init PROVE Inv
  OBVIOUS
<1>1. Idle \in Locals /\ Idle.pc = "idle"
  BY DEF Idle, Locals, Labels, Kinds
<1>2. TypeOK
  BY <1>1 DEF Init, TypeOK, EAKStates
<1>3. NonceInv /\ IndexInjective /\ KeyIndexAgrees /\ BoundKeyHasAccount /\ Claims
  BY <1>1, NoneAssumption, SMTT(60)
     DEF Init, NonceInv, IndexInjective, KeyIndexAgrees, BoundKeyHasAccount, Claims
<1>4. ASSUME NEW p \in Procs PROVE LocInv(loc[p])
  BY <1>1 DEF Init, LocInv
<1>5. QED
  BY <1>2, <1>3, <1>4 DEF Inv

\* A step that only moves one request, or uses or adds a nonce, keeps the
\* invariant when the request's new locals agree with the tables and claim
\* nothing.
LEMMA LocalStep ==
  ASSUME Inv, NEW p \in Procs, NEW l \in Locals, LocInv(l), l.pc \notin Claim,
         loc' = [loc EXCEPT ![p] = l], UNCHANGED <<tables, bindings>>,
         nonces' \subseteq Nonces, admitted' \in [Nonces -> Nat], NonceInv'
  PROVE  Inv'
<1>1. TypeOK'
  BY DEF Inv, TypeOK, tables
<1>2. IndexInjective' /\ KeyIndexAgrees' /\ BoundKeyHasAccount'
  BY DEF Inv, IndexInjective, KeyIndexAgrees, BoundKeyHasAccount, tables
<1>3. ASSUME NEW q \in Procs PROVE LocInv(loc[q])'
  <2>1. loc'[q] = IF q = p THEN l ELSE loc[q]
    BY DEF Inv, TypeOK
  <2>2. CASE q = p
    BY <2>1, <2>2 DEF LocInv, tables
  <2>3. CASE q # p
    BY <2>1, <2>3 DEF Inv, LocInv, tables
  <2>4. QED
    BY <2>2, <2>3
<1>4. Claims'
  BY DEF Inv, TypeOK, Claims
<1>5. QED
  BY <1>1, <1>2, <1>3, <1>4 DEF Inv

\* A stuttering step keeps the invariant.
LEMMA UnchangedStep ==
  ASSUME Inv, UNCHANGED vars
  PROVE  Inv'
<1>1. TypeOK'
  BY DEF Inv, TypeOK, vars
<1>2. /\ NonceInv' /\ IndexInjective' /\ KeyIndexAgrees'
      /\ BoundKeyHasAccount' /\ Claims'
  BY DEF Inv, NonceInv, IndexInjective, KeyIndexAgrees, BoundKeyHasAccount,
         Claims, vars
<1>3. \A p \in Procs : LocInv(loc[p])'
  BY DEF Inv, LocInv, vars
<1>4. QED
  BY <1>1, <1>2, <1>3 DEF Inv

\* The request's own locals, typed and consistent.
LEMMA OwnLocals ==
  ASSUME Inv, NEW p \in Procs
  PROVE  loc[p] \in Locals /\ LocInv(loc[p])
BY DEF Inv, TypeOK

\* Moving on changes nothing but the label.
LEMMA GotoLocals ==
  ASSUME NEW l \in Locals, NEW x \in Labels
  PROVE  [l EXCEPT !.pc = x] \in Locals
BY DEF Locals

\* Idle locals say nothing about the tables.
LEMMA IdleLocals == Idle \in Locals /\ LocInv(Idle) /\ Idle.pc = "idle"
BY DEF Idle, Locals, Labels, Kinds, LocInv

\* Answering a request without a write keeps the invariant.
LEMMA RespondStep ==
  ASSUME Inv, NEW p \in Procs, Respond(p),
         UNCHANGED <<nonces, admitted, tables, bindings>>
  PROVE  Inv'
<1>1. nonces' \subseteq Nonces /\ admitted' \in [Nonces -> Nat] /\ NonceInv'
  BY DEF Inv, TypeOK, NonceInv
<1>2. QED
  BY <1>1, IdleLocals, LocalStep DEF Respond

-----------------------------------------------------------------------------
(* The middleware.                                                          *)

\* A fresh nonce has admitted no request.
LEMMA addNonceStep ==
  ASSUME Inv, addNonce, admitted' = admitted
  PROVE  nonces' \subseteq Nonces /\ admitted' \in [Nonces -> Nat] /\ NonceInv'
BY DEF Inv, TypeOK, NonceInv, addNonce, FreshNonce

\* A fresh nonce was not used before.
LEMMA GetNonceStep ==
  ASSUME Inv, GetNonce
  PROVE  Inv'
<1>1. nonces' \subseteq Nonces /\ admitted' \in [Nonces -> Nat] /\ NonceInv'
  BY addNonceStep DEF GetNonce
<1>2. TypeOK'
  BY <1>1 DEF Inv, TypeOK, GetNonce, tables
<1>3. QED
  BY <1>1, <1>2 DEF Inv, GetNonce, tables, IndexInjective, KeyIndexAgrees,
                    BoundKeyHasAccount, LocInv, Claims

\* A request that arrives holds nothing yet; a nonce admits it at most once.
LEMMA ReceiveStep ==
  ASSUME Inv, NEW p \in Procs, NEW r \in Locals, Receive(p, r), r.kind \in Kinds,
         r.kind = "NewAccount" => r.key \in Keys,
         r.kind # "NewAccount" => r.id \in Accounts
  PROVE  Inv'
<1>1. nonces' \subseteq Nonces /\ admitted' \in [Nonces -> Nat] /\ NonceInv'
  BY addNonceStep DEF Receive
<1> DEFINE l == [r EXCEPT !.pc = "validateJWS"]
<1>2. l \in Locals
  BY DEF Locals, Labels
<1>3. LocInv(l) /\ l.pc = "validateJWS"
  BY DEF Locals, LocInv
<1> HIDE DEF l
<1>4. QED
  BY <1>1, <1>2, <1>3, LocalStep DEF Receive, l

\* A nonce that admits a request had admitted none and is gone.
LEMMA validateJWSStep ==
  ASSUME Inv, NEW p \in Procs, NEW n \in Nonces, validateJWS(p, n)
  PROVE  Inv'
<1>1. nonces' \subseteq Nonces /\ admitted' \in [Nonces -> Nat] /\ NonceInv'
  BY SMTT(60) DEF Inv, TypeOK, NonceInv, validateJWS, DeleteNonce
<1>2. loc[p] \in Locals /\ LocInv(loc[p]) /\ loc[p].pc = "validateJWS"
  BY OwnLocals DEF validateJWS, At
<1> DEFINE l == [loc[p] EXCEPT !.pc = IF loc[p].kind = "NewAccount"
                                        THEN "getAccountIDByKeyID"
                                        ELSE "GetAccount"]
<1>3. l \in Locals
  BY <1>2, SMTT(60) DEF Locals, Labels
<1>4. LocInv(l) /\ l.pc \notin Claim
  BY <1>2 DEF Locals, LocInv
<1>5. loc' = [loc EXCEPT ![p] = l] /\ UNCHANGED <<tables, bindings>>
  BY DEF validateJWS, Goto, Inv, TypeOK
<1> HIDE DEF l
<1>6. QED
  BY <1>1, <1>3, <1>4, <1>5, LocalStep

\* The nonces of a step that leaves them alone.
LEMMA NoncesKept ==
  ASSUME Inv, UNCHANGED <<nonces, admitted>>
  PROVE  nonces' \subseteq Nonces /\ admitted' \in [Nonces -> Nat] /\ NonceInv'
BY DEF Inv, TypeOK, NonceInv

\* The middleware looks the account of a key up in the index.
LEMMA getAccountIDByKeyIDStep ==
  ASSUME Inv, NEW p \in Procs, getAccountIDByKeyID(p)
  PROVE  Inv'
<1>1. loc[p] \in Locals /\ LocInv(loc[p]) /\ loc[p].pc = "getAccountIDByKeyID"
  BY OwnLocals DEF getAccountIDByKeyID, At
<1> DEFINE id == keyIndex[loc[p].key]
           pc == IF id = None THEN "validateEAB" ELSE "GetAccount"
           l == [loc[p] EXCEPT !.id = id, !.pc = pc]
<1>2. /\ id \in Accounts \cup {None} /\ pc \in Labels
      /\ pc \in {"validateEAB", "GetAccount"}
      /\ pc = "GetAccount" => id \in Accounts
  BY <1>1 DEF LocInv, Inv, TypeOK, Labels
<1>3. loc' = [loc EXCEPT ![p] = l]
  BY DEF getAccountIDByKeyID, Inv, TypeOK
<1> HIDE DEF id, pc
<1>4. l \in Locals
  BY <1>1, <1>2 DEF Locals
<1>5. LocInv(l) /\ l.pc \notin Claim
  BY <1>1, <1>2 DEF Locals, LocInv
<1> HIDE DEF l
<1>6. QED
  BY <1>3, <1>4, <1>5, NoncesKept, LocalStep DEF getAccountIDByKeyID

\* The middleware reads the account.
LEMMA GetAccountStep ==
  ASSUME Inv, NEW p \in Procs, GetAccount(p)
  PROVE  Inv'
<1>1. loc[p] \in Locals /\ LocInv(loc[p]) /\ loc[p].pc = "GetAccount"
  BY OwnLocals DEF GetAccount, At
<1>2. CASE Respond(p)
  BY <1>2, RespondStep DEF GetAccount
<1>3. CASE loc[p].kind = "NewAccount" /\ Goto(p, "validateEAB")
  <2> DEFINE l == [loc[p] EXCEPT !.pc = "validateEAB"]
  <2>1. l \in Locals
    BY <1>1 DEF Locals, Labels
  <2>2. LocInv(l) /\ l.pc \notin Claim
    BY <1>1, <1>3 DEF Locals, LocInv
  <2>3. loc' = [loc EXCEPT ![p] = l]
    BY <1>3 DEF Goto, Inv, TypeOK
  <2> HIDE DEF l
  <2>4. QED
    BY <2>1, <2>2, <2>3, NoncesKept, LocalStep DEF GetAccount
<1>4. CASE /\ account[loc[p].id] # None /\ loc[p].kind # "NewAccount"
           /\ loc' = [loc EXCEPT ![p].acc = account[loc[p].id],
                                 ![p].pc = "UpdateAccount"]
  <2> DEFINE acc == account[loc[p].id]
             l == [loc[p] EXCEPT !.acc = acc, !.pc = "UpdateAccount"]
  <2>1. acc \in Account \cup {None} /\ acc # None
    BY <1>1, <1>4 DEF LocInv, Inv, TypeOK
  <2>2. loc' = [loc EXCEPT ![p] = l]
    BY <1>4 DEF Inv, TypeOK
  <2>3. account[loc[p].id] # None
    BY <1>4
  <2> HIDE DEF acc
  <2>4. l \in Locals
    BY <1>1, <2>1 DEF Locals, Labels
  <2>5. LocInv(l) /\ l.pc \notin Claim
    BY <1>1, <1>4, <2>1, <2>3 DEF Locals, LocInv
  <2> HIDE DEF l
  <2>6. QED
    BY <2>2, <2>4, <2>5, NoncesKept, LocalStep DEF GetAccount
<1>5. QED
  BY <1>2, <1>3, <1>4 DEF GetAccount

-----------------------------------------------------------------------------
(* NewAccount.                                                              *)

\* validateExternalAccountBinding reads the external account key.
LEMMA validateEABStep ==
  ASSUME Inv, NEW p \in Procs, validateEAB(p)
  PROVE  Inv'
<1>1. loc[p] \in Locals /\ LocInv(loc[p]) /\ loc[p].pc = "validateEAB"
  BY OwnLocals DEF validateEAB, At
<1>2. CASE Respond(p)
  BY <1>2, RespondStep DEF validateEAB
<1>3. ASSUME NEW e \in EABKeys \cup {None},
             loc' = [loc EXCEPT ![p].eab = e, ![p].pc = "CreateAccount"]
      PROVE  Inv'
  <2> DEFINE l == [loc[p] EXCEPT !.eab = e, !.pc = "CreateAccount"]
  <2>1. l \in Locals
    BY <1>1 DEF Locals, Labels
  <2>2. LocInv(l) /\ l.pc \notin Claim
    BY <1>1 DEF Locals, LocInv
  <2>3. loc' = [loc EXCEPT ![p] = l]
    BY <1>3 DEF Inv, TypeOK
  <2> HIDE DEF l
  <2>4. QED
    BY <2>1, <2>2, <2>3, NoncesKept, LocalStep DEF validateEAB
<1>4. CASE Goto(p, "CreateAccount")
  <2>1. loc[p].eab \in EABKeys \cup {None}
    BY <1>1 DEF Locals
  <2>2. loc' = [loc EXCEPT ![p].eab = loc[p].eab, ![p].pc = "CreateAccount"]
    <3>1. [loc[p] EXCEPT !.pc = "CreateAccount"]
            = [loc[p] EXCEPT !.eab = loc[p].eab, !.pc = "CreateAccount"]
      BY <1>1 DEF Locals
    <3>2. QED
      BY <1>4, <3>1 DEF Goto, Inv, TypeOK
  <2>3. QED
    BY <2>1, <2>2, <1>3
<1>5. QED
  BY <1>2, <1>3, <1>4 DEF validateEAB

\* A step that writes a table keeps the other requests' locals in agreement
\* with it when it removes no account, and neither takes a claimed index entry
\* away nor stores an account another request has claimed.
LEMMA OthersKept ==
  ASSUME Inv, NEW p \in Procs, NEW l \in Locals,
         loc' = [loc EXCEPT ![p] = l],
         account' \in [Accounts -> Account \cup {None}],
         \A a \in Accounts : account[a] # None => account'[a] # None,
         \A q \in Procs : q # p /\ loc[q].pc \in Claim =>
            /\ keyIndex'[loc[q].key] = keyIndex[loc[q].key]
            /\ account'[loc[q].id] = account[loc[q].id],
         LocInv(l)'
  PROVE  \A q \in Procs : LocInv(loc[q])'
<1> SUFFICES ASSUME NEW q \in Procs PROVE LocInv(loc[q])'
  OBVIOUS
<1>1. loc'[q] = IF q = p THEN l ELSE loc[q]
  BY DEF Inv, TypeOK
<1>2. CASE q = p
  BY <1>1, <1>2 DEF LocInv
<1>3. CASE q # p
  <2>1. PICK k \in Locals : k = loc[q] /\ LocInv(k)
    BY OwnLocals
  <2>2. LocInv(k)'
    BY <1>3, <2>1 DEF LocInv
  <2>3. QED
    BY <1>1, <1>3, <2>1, <2>2 DEF LocInv
<1>4. QED
  BY <1>2, <1>3

\* CreateAccount writes the index entry, from then on the claim of this request.
LEMMA CreateAccountStep ==
  ASSUME Inv, NEW p \in Procs, NEW a \in Accounts, CreateAccount(p, a)
  PROVE  Inv'
<1>1. /\ loc[p] \in Locals /\ LocInv(loc[p]) /\ loc[p].pc = "CreateAccount"
      /\ loc[p].kind = "NewAccount" /\ loc[p].key \in Keys
  BY OwnLocals DEF CreateAccount, At, LocInv
<1>2. CASE Respond(p) /\ UNCHANGED keyIndex
  BY <1>2, RespondStep DEF CreateAccount, tables
<1>3. CASE /\ keyIndex[loc[p].key] = None
           /\ keyIndex' = [keyIndex EXCEPT ![loc[p].key] = a]
           /\ loc' = [loc EXCEPT ![p].id = a, ![p].pc = "saveAccount"]
  <2>1. PICK l \in Locals : l = [loc[p] EXCEPT !.id = a, !.pc = "saveAccount"]
    BY <1>1 DEF Locals, Labels
  <2>2. /\ l.pc = "saveAccount" /\ l.kind = "NewAccount"
        /\ l.key = loc[p].key /\ l.id = a
    BY <1>1, <2>1 DEF Locals
  <2>3. loc' = [loc EXCEPT ![p] = l]
    BY <1>3, <2>1 DEF Inv, TypeOK
  <2>4. account[a] = None /\ account' = account /\ keyIndex'[loc[p].key] = a
    BY <1>1, <1>3 DEF CreateAccount, FreshAccount, Inv, TypeOK
  <2>5. LocInv(l)'
    BY <1>1, <2>2, <2>4 DEF LocInv, Kinds
  <2>6. ASSUME NEW q \in Procs, q # p, loc[q].pc \in Claim
        PROVE  /\ loc[q].key # loc[p].key
               /\ keyIndex'[loc[q].key] = keyIndex[loc[q].key]
    <3>1. keyIndex[loc[q].key] \in Accounts /\ loc[q].key \in Keys
      BY <2>6, OwnLocals DEF LocInv
    <3>2. QED
      BY <1>1, <1>3, <3>1, NoneAssumption DEF Inv, TypeOK
  <2>7. \A q \in Procs : LocInv(loc[q])'
    BY <2>1, <2>3, <2>4, <2>5, <2>6, OthersKept DEF Inv, TypeOK
  <2>8. Claims'
    BY <2>2, <2>3, <2>6, SMTT(60) DEF Claims, Inv, TypeOK
  <2>9. IndexInjective'
    <3>1. \A k \in Keys : keyIndex[k] # a
      BY DEF CreateAccount, FreshAccount, Range, Inv, TypeOK
    <3>2. QED
      BY <1>1, <1>3, <3>1 DEF IndexInjective, Inv, TypeOK
  <2>10. KeyIndexAgrees'
    BY <1>1, <1>3, <2>4, NoneAssumption, SMTT(60) DEF KeyIndexAgrees, Inv, TypeOK, Account
  <2>11. TypeOK' /\ NonceInv' /\ BoundKeyHasAccount'
    BY <1>1, <1>3, <2>1, <2>3, NoncesKept, SMTT(60)
       DEF CreateAccount, Inv, TypeOK, BoundKeyHasAccount
  <2>12. QED
    BY <2>7, <2>8, <2>9, <2>10, <2>11 DEF Inv
<1>4. QED
  BY <1>2, <1>3 DEF CreateAccount

\* Two requests that have claimed a key have claimed different keys, for
\* different accounts.
LEMMA OtherClaims ==
  ASSUME Inv, NEW p \in Procs, loc[p].pc \in Claim,
         NEW q \in Procs, q # p, loc[q].pc \in Claim
  PROVE  /\ loc[q].key \in Keys /\ loc[q].key # loc[p].key
         /\ loc[q].id \in Accounts /\ loc[q].id # loc[p].id
<1>1. \A r \in {p, q} : /\ loc[r].key \in Keys /\ loc[r].id \in Accounts
                        /\ keyIndex[loc[r].key] = loc[r].id
  BY OwnLocals DEF LocInv
<1>2. loc[q].key # loc[p].key
  BY DEF Inv, Claims
<1>3. QED
  BY <1>1, <1>2, NoneAssumption DEF Inv, IndexInjective

\* CreateAccount writes the account, or fails and goes on to remove the entry.
LEMMA saveAccountStep ==
  ASSUME Inv, NEW p \in Procs, saveAccount(p)
  PROVE  Inv'
<1>1. /\ loc[p] \in Locals /\ LocInv(loc[p]) /\ loc[p].pc = "saveAccount"
      /\ loc[p].kind = "NewAccount" /\ loc[p].key \in Keys
      /\ loc[p].id \in Accounts /\ keyIndex[loc[p].key] = loc[p].id
      /\ account[loc[p].id] = None
  BY OwnLocals DEF saveAccount, At, LocInv
<1>2. CASE Goto(p, "rollback") /\ UNCHANGED account
  <2>1. PICK l \in Locals : l = [loc[p] EXCEPT !.pc = "rollback"]
    BY OwnLocals, GotoLocals DEF Labels
  <2>2. /\ l.pc = "rollback" /\ l.kind = "NewAccount"
        /\ l.key = loc[p].key /\ l.id = loc[p].id
    BY <1>1, <2>1 DEF Locals
  <2>3. loc' = [loc EXCEPT ![p] = l]
    BY <1>2, <2>1 DEF Goto, Inv, TypeOK
  <2>4. LocInv(l)'
    BY <1>1, <1>2, <2>2 DEF LocInv, Kinds, saveAccount
  <2>5. \A q \in Procs : LocInv(loc[q])'
    BY <1>2, <2>3, <2>4, OthersKept DEF Inv, TypeOK, saveAccount
  <2>6. Claims'
    BY <1>1, <2>2, <2>3, OtherClaims, SMTT(60) DEF Inv, TypeOK, Claims
  <2>7. TypeOK' /\ NonceInv'
    BY <1>2, <2>3, NoncesKept DEF Inv, TypeOK, saveAccount
  <2>8. QED
    BY <1>2, <2>5, <2>6, <2>7
       DEF Inv, saveAccount, IndexInjective, KeyIndexAgrees, BoundKeyHasAccount
<1>3. ASSUME NEW l \in Locals, loc' = [loc EXCEPT ![p] = l], l.pc \notin Claim,
             account' = [account EXCEPT ![loc[p].id] =
                           [key |-> loc[p].key, status |-> "valid"]],
             account'[loc[p].id] # None => LocInv(l)'
      PROVE  Inv'
  <2>1. PICK row \in Account : row = [key |-> loc[p].key, status |-> "valid"]
    BY <1>1 DEF Account
  <2>2. /\ account' \in [Accounts -> Account \cup {None}]
        /\ \A b \in Accounts : b # loc[p].id => account'[b] = account[b]
        /\ account'[loc[p].id] = row /\ row # None /\ row.key = loc[p].key
    BY <1>1, <1>3, <2>1, NoneAssumption DEF Inv, TypeOK
  <2>3. \A q \in Procs : LocInv(loc[q])'
    <3>1. \A b \in Accounts : account[b] # None => account'[b] # None
      BY <2>2
    <3>2. ASSUME NEW q \in Procs, q # p, loc[q].pc \in Claim
          PROVE  account'[loc[q].id] = account[loc[q].id]
      BY <1>1, <2>2, <3>2, OtherClaims
    <3>3. QED
      BY <1>3, <2>2, <3>1, <3>2, OthersKept DEF saveAccount
  <2>4. Claims'
    BY <1>3 DEF Inv, TypeOK, Claims
  <2>5. KeyIndexAgrees'
    BY <1>1, <2>2, SMTT(60) DEF Inv, KeyIndexAgrees, saveAccount
  <2>6. TypeOK' /\ NonceInv'
    BY <1>3, <2>2, NoncesKept DEF Inv, TypeOK, saveAccount
  <2>7. IndexInjective' /\ BoundKeyHasAccount'
    BY <2>2 DEF Inv, IndexInjective, BoundKeyHasAccount, saveAccount
  <2>8. QED
    BY <2>3, <2>4, <2>5, <2>6, <2>7 DEF Inv
<1>4. CASE /\ loc[p].eab = None /\ Respond(p)
           /\ account' = [account EXCEPT ![loc[p].id] =
                            [key |-> loc[p].key, status |-> "valid"]]
  <2>1. LocInv(Idle)'
    BY IdleLocals DEF LocInv
  <2>2. QED
    BY <1>3, <1>4, <2>1, IdleLocals DEF Respond
<1>5. CASE /\ loc[p].eab # None /\ Goto(p, "UpdateEAK")
           /\ account' = [account EXCEPT ![loc[p].id] =
                            [key |-> loc[p].key, status |-> "valid"]]
  <2>1. PICK l \in Locals : l = [loc[p] EXCEPT !.pc = "UpdateEAK"]
    BY OwnLocals, GotoLocals DEF Labels
  <2>2. /\ l.pc = "UpdateEAK" /\ l.kind = "NewAccount" /\ l.eab \in EABKeys
        /\ l.key = loc[p].key /\ l.id = loc[p].id
    BY <1>1, <1>5, <2>1 DEF Locals
  <2>3. loc' = [loc EXCEPT ![p] = l]
    BY <1>5, <2>1 DEF Goto, Inv, TypeOK
  <2>4. account'[loc[p].id] # None => LocInv(l)'
    BY <1>1, <2>2 DEF LocInv, Kinds
  <2>5. QED
    BY <1>3, <1>5, <2>2, <2>3, <2>4
<1>6. QED
  BY <1>2, <1>4, <1>5 DEF saveAccount

\* The index entry is removed while no account is stored under it.
LEMMA rollbackStep ==
  ASSUME Inv, NEW p \in Procs, rollback(p)
  PROVE  Inv'
<1>1. /\ loc[p] \in Locals /\ LocInv(loc[p]) /\ loc[p].pc = "rollback"
      /\ loc[p].key \in Keys /\ loc[p].id \in Accounts
      /\ keyIndex[loc[p].key] = loc[p].id /\ account[loc[p].id] = None
  BY OwnLocals DEF rollback, At, LocInv
<1>2. /\ \A k \in Keys : k # loc[p].key => keyIndex'[k] = keyIndex[k]
      /\ keyIndex'[loc[p].key] = None
      /\ keyIndex' \in [Keys -> Accounts \cup {None}]
  BY <1>1 DEF rollback, Inv, TypeOK
<1>3. \A q \in Procs : LocInv(loc[q])'
  <2>1. ASSUME NEW q \in Procs, q # p, loc[q].pc \in Claim
        PROVE  keyIndex'[loc[q].key] = keyIndex[loc[q].key]
    BY <1>1, <1>2, <2>1, OtherClaims
  <2>2. LocInv(Idle)'
    BY IdleLocals DEF LocInv
  <2>3. QED
    BY <2>1, <2>2, IdleLocals, OthersKept DEF rollback, Respond, Inv, TypeOK
<1>4. Claims'
  BY IdleLocals DEF Inv, TypeOK, Claims, rollback, Respond
<1>5. IndexInjective' /\ KeyIndexAgrees' /\ BoundKeyHasAccount'
  <2>1. KeyIndexAgrees'
    <3> SUFFICES ASSUME NEW b \in Accounts, account[b] # None
                 PROVE  keyIndex'[account[b].key] = b
      BY DEF KeyIndexAgrees, rollback
    <3>1. account[b].key \in Keys /\ keyIndex[account[b].key] = b
      BY DEF Inv, TypeOK, KeyIndexAgrees, Account
    <3>2. QED
      BY <1>1, <1>2, <3>1
  <2>2. QED
    BY <1>2, <2>1 DEF Inv, IndexInjective, BoundKeyHasAccount, rollback
<1>6. TypeOK' /\ NonceInv'
  BY <1>2, IdleLocals, NoncesKept DEF Inv, TypeOK, rollback, Respond
<1>7. QED
  BY <1>3, <1>4, <1>5, <1>6 DEF Inv

\* The external account key is bound to the account just stored.
LEMMA UpdateEAKStep ==
  ASSUME Inv, NEW p \in Procs, UpdateEAK(p)
  PROVE  Inv'
<1>1. /\ loc[p].id \in Accounts /\ account[loc[p].id] # None
      /\ loc[p].eab \in EABKeys
  BY OwnLocals DEF UpdateEAK, At, LocInv
<1>2. TypeOK' /\ BoundKeyHasAccount'
  BY <1>1, IdleLocals, SMTT(60)
     DEF Inv, TypeOK, BoundKeyHasAccount, EAKStates, UpdateEAK, Respond
<1>3. \A q \in Procs : LocInv(loc[q])'
  <2>1. LocInv(Idle)'
    BY IdleLocals DEF LocInv
  <2>2. QED
    BY <2>1, IdleLocals, OthersKept DEF UpdateEAK, Respond, Inv, TypeOK
<1>4. Claims'
  BY IdleLocals DEF Inv, TypeOK, Claims, UpdateEAK, Respond
<1>5. NonceInv' /\ IndexInjective' /\ KeyIndexAgrees'
  BY NoncesKept DEF Inv, IndexInjective, KeyIndexAgrees, UpdateEAK
<1>6. QED
  BY <1>2, <1>3, <1>4, <1>5 DEF Inv

\* Deleting an external account key binds nothing.
LEMMA DeleteExternalAccountKeyStep ==
  ASSUME Inv, NEW e \in EABKeys, DeleteExternalAccountKey(e)
  PROVE  Inv'
<1>1. TypeOK' /\ BoundKeyHasAccount'
  BY NoneAssumption DEF Inv, TypeOK, EAKStates, BoundKeyHasAccount,
                        DeleteExternalAccountKey
<1>2. NonceInv' /\ IndexInjective' /\ KeyIndexAgrees' /\ Claims'
  BY NoncesKept DEF Inv, IndexInjective, KeyIndexAgrees, Claims,
                    DeleteExternalAccountKey
<1>3. \A q \in Procs : LocInv(loc[q])'
  BY DEF Inv, LocInv, DeleteExternalAccountKey
<1>4. QED
  BY <1>1, <1>2, <1>3 DEF Inv

-----------------------------------------------------------------------------
(* GetOrUpdateAccount.                                                      *)

\* UpdateAccount reads the row that its compare-and-swap will expect.
LEMMA UpdateAccountStep ==
  ASSUME Inv, NEW p \in Procs, UpdateAccount(p)
  PROVE  Inv'
<1>1. /\ loc[p] \in Locals /\ LocInv(loc[p]) /\ loc[p].pc = "UpdateAccount"
      /\ account[loc[p].id] \in Account \cup {None}
  BY OwnLocals DEF UpdateAccount, At, LocInv, Inv, TypeOK
<1>2. PICK row \in Account \cup {None} : row = account[loc[p].id]
  BY <1>1
<1> DEFINE l == [loc[p] EXCEPT !.old = row, !.pc = "save"]
<1>3. loc' = [loc EXCEPT ![p] = l]
  BY <1>2 DEF UpdateAccount, Inv, TypeOK
<1>4. l \in Locals
  BY OwnLocals DEF Locals, Labels
<1>5. LocInv(l) /\ l.pc \notin Claim
  BY <1>1 DEF Locals, LocInv
<1> HIDE DEF l
<1>6. QED
  BY <1>3, <1>4, <1>5, NoncesKept, LocalStep DEF UpdateAccount

\* The compare-and-swap of UpdateAccount keeps the key of the account.
LEMMA saveStep ==
  ASSUME Inv, NEW p \in Procs, save(p)
  PROVE  Inv'
<1>1. /\ loc[p] \in Locals /\ loc[p].id \in Accounts /\ loc[p].acc \in Account
      /\ account[loc[p].id] \in Account
  BY OwnLocals DEF save, At, LocInv, Inv, TypeOK, Locals
<1>2. PICK st \in {"valid", "deactivated"} : st = NewStatus(loc[p])
  BY <1>1 DEF NewStatus, Account
<1>3. [account[loc[p].id] EXCEPT !.status = st] \in Account
  BY <1>1 DEF Account
<1>4. /\ account' \in [Accounts -> Account \cup {None}]
      /\ \A b \in Accounts : b # loc[p].id => account'[b] = account[b]
      /\ account'[loc[p].id] \in Account
      /\ account'[loc[p].id].key = account[loc[p].id].key
  <2>1. CASE account' = [account EXCEPT ![loc[p].id].status = st]
    <3>1. account' = [account EXCEPT ![loc[p].id] =
                        [account[loc[p].id] EXCEPT !.status = st]]
      BY <2>1
    <3>2. [account[loc[p].id] EXCEPT !.status = st].key = account[loc[p].id].key
      BY <1>1 DEF Account
    <3>3. QED
      BY <1>1, <1>3, <3>1, <3>2 DEF Inv, TypeOK
  <2>2. CASE account' = account
    BY <1>1, <2>2 DEF Inv, TypeOK
  <2>3. QED
    BY <1>2, <2>1, <2>2 DEF save
<1>5. \A b \in Accounts : account[b] # None <=> account'[b] # None
  BY <1>1, <1>4, NoneAssumption
<1>6. \A q \in Procs : LocInv(loc[q])'
  <2>1. LocInv(Idle)'
    BY IdleLocals DEF LocInv
  <2>2. ASSUME NEW q \in Procs, loc[q].pc \in Claim
        PROVE  account'[loc[q].id] = account[loc[q].id]
    BY <1>1, <1>4, <2>2, OwnLocals, NoneAssumption DEF LocInv
  <2>3. QED
    BY <1>4, <1>5, <2>1, <2>2, IdleLocals, OthersKept DEF save, Respond
<1>7. Claims'
  BY IdleLocals DEF Inv, TypeOK, Claims, save, Respond
<1>8. IndexInjective' /\ KeyIndexAgrees' /\ BoundKeyHasAccount'
  BY <1>1, <1>4, <1>5, SMTT(60)
     DEF Inv, TypeOK, IndexInjective, KeyIndexAgrees, BoundKeyHasAccount, save
<1>9. TypeOK' /\ NonceInv'
  BY <1>4, IdleLocals, NoncesKept DEF Inv, TypeOK, save, Respond
<1>10. QED
  BY <1>6, <1>7, <1>8, <1>9 DEF Inv

-----------------------------------------------------------------------------
(* The theorems.                                                            *)

\* The requests with which a handler starts.
LEMMA RequestStep ==
  ASSUME Inv, NEW p \in Procs, Request(p)
  PROVE  Inv'
<1>1. ASSUME NEW v \in Provs, NEW k \in Keys, NEW e \in EABKeys \cup {None},
             Receive(p, NewAccountRequest(v, k, e))
      PROVE  Inv'
  <2>1. PICK r \in Locals : r = NewAccountRequest(v, k, e)
    BY DEF NewAccountRequest, Idle, Locals, Labels, Kinds
  <2>2. r.kind = "NewAccount" /\ r.key = k
    BY <2>1 DEF NewAccountRequest, Idle
  <2>3. QED
    BY <1>1, <2>1, <2>2, ReceiveStep DEF Kinds
<1>2. ASSUME NEW a \in Accounts, NEW kind \in {"UpdateContact", "Deactivate"},
             Receive(p, UpdateAccountRequest(kind, a))
      PROVE  Inv'
  <2>1. PICK r \in Locals : r = UpdateAccountRequest(kind, a)
    BY DEF UpdateAccountRequest, Idle, Locals, Labels, Kinds
  <2>2. r.kind = kind /\ r.id = a
    BY <2>1 DEF UpdateAccountRequest, Idle
  <2>3. QED
    BY <1>2, <2>1, <2>2, ReceiveStep DEF Kinds
<1>3. CASE UNCHANGED vars
  BY <1>3, UnchangedStep
<1>4. QED
  BY <1>1, <1>2, <1>3 DEF Request, CreateNonceFails

\* Every step keeps the invariant.
LEMMA NextInv == Inv /\ [Next]_vars => Inv'
<1> SUFFICES ASSUME Inv, [Next]_vars PROVE Inv'
  OBVIOUS
<1>1. ASSUME NEW p \in Procs, Step(p) PROVE Inv'
  BY <1>1, validateJWSStep, getAccountIDByKeyIDStep, GetAccountStep,
     validateEABStep, CreateAccountStep, saveAccountStep, rollbackStep,
     UpdateEAKStep, UpdateAccountStep, saveStep, RespondStep DEF Step, Fail
<1>2. QED
  BY <1>1, UnchangedStep, RequestStep, GetNonceStep, DeleteExternalAccountKeyStep
     DEF Next

\* The inductive invariant holds in every reachable state.
THEOREM Invariance == Spec => []Inv
BY InitInv, NextInv, PTL DEF Spec

\* Tables and locals keep their types.
THEOREM TypeCorrect == Spec => []TypeOK
<1>1. Inv => TypeOK
  BY DEF Inv
<1>2. QED
  BY <1>1, Invariance, PTL

\* No nonce ever admits two requests (DeleteNonce).
THEOREM NonceUsedOnce == Spec => []NonceAdmitsOnce
<1>1. Inv => NonceAdmitsOnce
  BY DEF Inv, NonceInv, NonceAdmitsOnce
<1>2. QED
  BY <1>1, Invariance, PTL

\* Every stored account is found through its key (CreateAccount), so a key has
\* at most one account.
THEOREM AccountFoundByKey == Spec => []KeyIndexAgrees
<1>1. Inv => KeyIndexAgrees
  BY DEF Inv
<1>2. QED
  BY <1>1, Invariance, PTL

\* A bound external account key names a stored account (NewAccount).
THEOREM BoundAfterCreated == Spec => []BoundKeyHasAccount
<1>1. Inv => BoundKeyHasAccount
  BY DEF Inv
<1>2. QED
  BY <1>1, Invariance, PTL

=============================================================================
