---------------------------- MODULE AcmeAccount ----------------------------
(***************************************************************************)
(* ACME accounts: replay nonces, the middleware that admits a signed       *)
(* request (acme/api/middleware.go), account creation with an external     *)
(* account binding, and account updates (acme/api/account.go, eab.go), on  *)
(* the tables of acme/db/nosql.                                            *)
(*                                                                         *)
(* A process is one HTTP request; every access to the database is a step.  *)
(* The operations on external account keys hold externalAccountKeyMutex    *)
(* from their read to their write and are one step each.                   *)
(***************************************************************************)
EXTENDS Naturals, FiniteSets, Functions

CONSTANTS
  Keys,        \* account keys (JWKs)
  Accounts,    \* account IDs randID can return: bounds account creation
  Nonces,      \* nonces randID can return: bounds the requests admitted
  EABKeys,     \* external account keys an admin has created
  ProvOf,      \* the provisioner an external account key was created for
  Provs,       \* ACME provisioners
  RequireEAB,  \* the provisioners with RequireEAB
  Procs,       \* requests served at the same time
  None

ASSUME ProvsAssumption ==
  RequireEAB \subseteq Provs /\ ProvOf \in [EABKeys -> Provs]

\* The stored account.  The contacts are left out: no decision depends on them.
Account == [key: Keys, status: {"valid", "deactivated"}]

ASSUME NoneAssumption ==
  /\ None \notin Keys \cup Accounts \cup EABKeys \cup Provs
  /\ None \notin Account
  /\ "unbound" \notin Accounts

VARIABLES
  nonces,    \* table nonces: issued and not yet used
  admitted,  \* history: how many requests each nonce has admitted
  keyIndex,  \* table acme_keyID_accountID_index
  account,   \* table acme_accounts; None when there is no row
  eak,       \* table acme_external_account_keys: the account a key is bound to
  bindings,  \* history: every account created with an external account key
  loc        \* the local variables of each request

vars == <<nonces, admitted, keyIndex, account, eak, bindings, loc>>
tables == <<keyIndex, account, eak>>

\* An external account key is unbound (it has its HMAC key), bound to an
\* account (the HMAC key is cleared), or deleted.
EAKStates == Accounts \cup {"unbound", None}

Kinds == {"NewAccount", "UpdateContact", "Deactivate"}

Labels == {"idle", "validateJWS", "getAccountIDByKeyID", "GetAccount",
           "validateEAB", "CreateAccount", "saveAccount", "rollback",
           "UpdateEAK", "UpdateAccount", "save"}

\* The locals: the kind of request, the provisioner it is for, the account key
\* of the JWS, the kid or the account found for the key, the external account
\* key claimed, and the rows read: acc in the middleware, old by UpdateAccount.
Locals ==
  [pc: Labels, kind: Kinds \cup {None}, prov: Provs \cup {None},
   key: Keys \cup {None}, id: Accounts \cup {None}, eab: EABKeys \cup {None},
   acc: Account \cup {None}, old: Account \cup {None}]

Idle ==
  [pc |-> "idle", kind |-> None, prov |-> None, key |-> None, id |-> None,
   eab |-> None, acc |-> None, old |-> None]

Init ==
  /\ nonces = {}
  /\ admitted = [n \in Nonces |-> 0]
  /\ keyIndex = [k \in Keys |-> None]
  /\ account = [a \in Accounts |-> None]
  /\ eak = [e \in EABKeys |-> "unbound"]
  /\ bindings = {}
  /\ loc = [p \in Procs |-> Idle]

At(p, label) == loc[p].pc = label

Goto(p, label) == loc' = [loc EXCEPT ![p].pc = label]

\* The request is answered, with a result or with an error.
Respond(p) == loc' = [loc EXCEPT ![p] = Idle]

-----------------------------------------------------------------------------
(* The middleware: every response carries a new nonce, every signed request *)
(* uses one up, and the account of the request is looked up.                *)

\* randID never returns an identifier twice.
FreshNonce(n) == n \notin nonces /\ admitted[n] = 0

\* CreateNonce, the first step of GetNonce and of every signed request.
addNonce == \E n \in Nonces : FreshNonce(n) /\ nonces' = nonces \cup {n}

GetNonce ==
  /\ addNonce
  /\ UNCHANGED <<admitted, tables, bindings, loc>>

\* A request arrives: NewAccount with the key in its JWS and perhaps an external
\* account binding, an update with the account's kid.
Receive(p, r) ==
  /\ At(p, "idle")
  /\ addNonce
  /\ loc' = [loc EXCEPT ![p] = [r EXCEPT !.pc = "validateJWS"]]
  /\ UNCHANGED <<admitted, tables, bindings>>

\* CreateNonce fails and its error is the answer.
CreateNonceFails(p) == At(p, "idle") /\ UNCHANGED vars

NewAccountRequest(v, k, e) ==
  [Idle EXCEPT !.kind = "NewAccount", !.prov = v, !.key = k, !.eab = e]

UpdateAccountRequest(kind, a) == [Idle EXCEPT !.kind = kind, !.id = a]

\* Mutant: the nonce is deleted without first being read.
DeleteNonceUnread(n) == nonces' = nonces \ {n}

\* DeleteNonce reads and deletes the nonce of the JWS in one transaction: a
\* nonce that is not stored refuses the request.
DeleteNonce(n) == n \in nonces /\ nonces' = nonces \ {n}

validateJWS(p, n) ==
  /\ At(p, "validateJWS")
  /\ DeleteNonce(n)
  /\ admitted' = [admitted EXCEPT ![n] = @ + 1]
  /\ Goto(p, IF loc[p].kind = "NewAccount"
               THEN "getAccountIDByKeyID"
               ELSE "GetAccount")
  /\ UNCHANGED <<tables, bindings>>

\* extractJWK: the account ID of the key.  With none, NewAccount goes on.
getAccountIDByKeyID(p) ==
  /\ At(p, "getAccountIDByKeyID")
  /\ LET id == keyIndex[loc[p].key] IN
     loc' = [loc EXCEPT ![p].id = id,
                        ![p].pc = IF id = None THEN "validateEAB"
                                               ELSE "GetAccount"]
  /\ UNCHANGED <<nonces, admitted, tables, bindings>>

\* extractJWK and lookupJWK read the account row.  A missing row means a new
\* account to extractJWK and an error to lookupJWK; an account that is not
\* valid is refused by both.  NewAccount answers with a valid one.
GetAccount(p) ==
  /\ At(p, "GetAccount")
  /\ LET acc == account[loc[p].id]
         new == loc[p].kind = "NewAccount"
     IN  \/ /\ acc = None /\ new
            /\ Goto(p, "validateEAB")
         \/ /\ acc = None /\ ~new
            /\ Respond(p)
         \/ /\ acc # None
            /\ new \/ acc.status # "valid"
            /\ Respond(p)
         \/ /\ acc # None
            /\ ~new /\ acc.status = "valid"
            /\ loc' = [loc EXCEPT ![p].acc = acc, ![p].pc = "UpdateAccount"]
  /\ UNCHANGED <<nonces, admitted, tables, bindings>>

-----------------------------------------------------------------------------
(* NewAccount.                                                              *)

\* GetExternalAccountKey finds a key only for its own provisioner.
UsableEAB(l) ==
  l.eab # None /\ ProvOf[l.eab] = l.prov /\ eak[l.eab] = "unbound"

\* validateExternalAccountBinding: without RequireEAB the binding is ignored;
\* with it the request needs a binding signed with a key of the provisioner that
\* is stored and not yet bound.  The handler keeps a copy of the key.
validateEAB(p) ==
  /\ At(p, "validateEAB")
  /\ IF loc[p].prov \notin RequireEAB
       THEN loc' = [loc EXCEPT ![p].eab = None, ![p].pc = "CreateAccount"]
       ELSE IF UsableEAB(loc[p]) THEN Goto(p, "CreateAccount") ELSE Respond(p)
  /\ UNCHANGED <<nonces, admitted, tables, bindings>>

\* randID never returns an identifier twice.
FreshAccount(a) == account[a] = None /\ a \notin Range(keyIndex)

\* Mutant: the index entry is set without a comparison.
CreateAccountOverwrites(p, a) ==
  /\ At(p, "CreateAccount")
  /\ FreshAccount(a)
  /\ keyIndex' = [keyIndex EXCEPT ![loc[p].key] = a]
  /\ loc' = [loc EXCEPT ![p].id = a, ![p].pc = "saveAccount"]
  /\ UNCHANGED <<nonces, admitted, account, eak, bindings>>

\* CreateAccount first claims the key in the index: a compare-and-swap from no
\* entry, which fails when another request has claimed it.
CreateAccount(p, a) ==
  /\ At(p, "CreateAccount")
  /\ FreshAccount(a)
  /\ \/ /\ keyIndex[loc[p].key] = None
        /\ keyIndex' = [keyIndex EXCEPT ![loc[p].key] = a]
        /\ loc' = [loc EXCEPT ![p].id = a, ![p].pc = "saveAccount"]
     \/ /\ keyIndex[loc[p].key] # None
        /\ Respond(p)
        /\ UNCHANGED keyIndex
  /\ UNCHANGED <<nonces, admitted, account, eak, bindings>>

\* Mutant: an error of the save is not looked at.
saveAccountUnchecked(p) ==
  /\ At(p, "saveAccount")
  /\ \/ account' = [account EXCEPT ![loc[p].id] =
                       [key |-> loc[p].key, status |-> "valid"]]
     \/ UNCHANGED account
  /\ IF loc[p].eab = None THEN Respond(p) ELSE Goto(p, "UpdateEAK")
  /\ UNCHANGED <<nonces, admitted, keyIndex, eak, bindings>>

\* Then it saves the account, from no row.  An error sends it to delete the
\* index entry again.
saveAccount(p) ==
  /\ At(p, "saveAccount")
  /\ \/ /\ account[loc[p].id] = None
        /\ account' = [account EXCEPT ![loc[p].id] =
                         [key |-> loc[p].key, status |-> "valid"]]
        /\ IF loc[p].eab = None THEN Respond(p) ELSE Goto(p, "UpdateEAK")
     \/ /\ Goto(p, "rollback")
        /\ UNCHANGED account
  /\ UNCHANGED <<nonces, admitted, keyIndex, eak, bindings>>

rollback(p) ==
  /\ At(p, "rollback")
  /\ keyIndex' = [keyIndex EXCEPT ![loc[p].key] = None]
  /\ Respond(p)
  /\ UNCHANGED <<nonces, admitted, account, eak, bindings>>

\* BindTo looks at the handler's copy of the external account key, still
\* unbound; UpdateExternalAccountKey writes that copy over the stored key,
\* unless it has been deleted.
UpdateEAK(p) ==
  /\ At(p, "UpdateEAK")
  /\ \/ /\ eak[loc[p].eab] # None
        /\ eak' = [eak EXCEPT ![loc[p].eab] = loc[p].id]
        /\ bindings' = bindings \cup {<<loc[p].eab, loc[p].id>>}
     \/ /\ eak[loc[p].eab] = None
        /\ UNCHANGED <<eak, bindings>>
  /\ Respond(p)
  /\ UNCHANGED <<nonces, admitted, keyIndex, account>>

\* DeleteExternalAccountKey, called for an administrator.
DeleteExternalAccountKey(e) ==
  /\ eak[e] # None
  /\ eak' = [eak EXCEPT ![e] = None]
  /\ UNCHANGED <<nonces, admitted, keyIndex, account, bindings, loc>>

-----------------------------------------------------------------------------
(* GetOrUpdateAccount.                                                      *)

\* The status the handler writes: a contact update writes back the one the
\* middleware read.
NewStatus(l) == IF l.kind = "Deactivate" THEN "deactivated" ELSE l.acc.status

\* UpdateAccount reads the row again ...
UpdateAccount(p) ==
  /\ At(p, "UpdateAccount")
  /\ loc' = [loc EXCEPT ![p].old = account[loc[p].id], ![p].pc = "save"]
  /\ UNCHANGED <<nonces, admitted, tables, bindings>>

\* ... and compare-and-swaps against that second read.
save(p) ==
  /\ At(p, "save")
  /\ account' = IF account[loc[p].id] = loc[p].old
                  THEN [account EXCEPT ![loc[p].id].status = NewStatus(loc[p])]
                  ELSE account
  /\ Respond(p)
  /\ UNCHANGED <<nonces, admitted, keyIndex, eak, bindings>>

-----------------------------------------------------------------------------
(* Failures, and the next-state relation.                                   *)

\* A check on the request or a database call fails, the client goes away, or the
\* server stops: the request ends where it is.  An account whose row was not
\* saved keeps its index entry then.
Fail(p) ==
  /\ ~At(p, "idle")
  /\ Respond(p)
  /\ UNCHANGED <<nonces, admitted, tables, bindings>>

Step(p) ==
  \/ \E n \in Nonces : validateJWS(p, n)
  \/ getAccountIDByKeyID(p)
  \/ GetAccount(p)
  \/ validateEAB(p)
  \/ \E a \in Accounts : CreateAccount(p, a)
  \/ saveAccount(p)
  \/ rollback(p)
  \/ UpdateEAK(p)
  \/ UpdateAccount(p)
  \/ save(p)
  \/ Fail(p)

Request(p) ==
  \/ \E v \in Provs, k \in Keys, e \in EABKeys \cup {None} :
       Receive(p, NewAccountRequest(v, k, e))
  \/ \E a \in Accounts, kind \in {"UpdateContact", "Deactivate"} :
       Receive(p, UpdateAccountRequest(kind, a))
  \/ CreateNonceFails(p)

Next ==
  \/ \E p \in Procs : Request(p) \/ Step(p)
  \/ GetNonce
  \/ \E e \in EABKeys : DeleteExternalAccountKey(e)

Spec == Init /\ [][Next]_vars

-----------------------------------------------------------------------------
(* Properties.                                                              *)

\* Tables and locals hold values of their Go types: an account row is whole and
\* an update never writes a row without its key.
TypeOK ==
  /\ nonces \subseteq Nonces
  /\ admitted \in [Nonces -> Nat]
  /\ keyIndex \in [Keys -> Accounts \cup {None}]
  /\ account \in [Accounts -> Account \cup {None}]
  /\ eak \in [EABKeys -> EAKStates]
  /\ bindings \subseteq EABKeys \X Accounts
  /\ loc \in [Procs -> Locals]

\* A nonce admits at most one request, whatever is replayed and however the
\* requests carrying it interleave (DeleteNonce, validateJWS).
NonceAdmitsOnce == \A n \in Nonces : admitted[n] <= 1

\* Every stored account is the one the index gives for its key, so extractJWK
\* finds it and no key ever has two accounts, although CreateAccount writes the
\* two tables one after the other and takes the first write back on an error.
KeyIndexAgrees ==
  \A a \in Accounts : account[a] # None => keyIndex[account[a].key] = a

\* An external account key is never bound to an account that is not stored:
\* NewAccount binds only after CreateAccount has succeeded.
BoundKeyHasAccount ==
  \A e \in EABKeys : eak[e] \in Accounts => account[eak[e]] # None

\* An external account key binds one account ("can only be used once",
\* ExternalAccountKey.BindTo).
\* Does not hold, see the README.
EABKeyBindsOnce ==
  \A e \in EABKeys, a, b \in Accounts :
    <<e, a>> \in bindings /\ <<e, b>> \in bindings => a = b

\* The status of an account is only ever updated to deactivated
\* (UpdateAccountRequest.Validate), so no step takes deactivated back to valid.
\* Does not hold, see the README.
OnlyDeactivated ==
  [][\A a \in Accounts :
       account[a] # None /\ account[a].status = "deactivated"
         => account'[a].status = "deactivated"]_vars

=============================================================================
