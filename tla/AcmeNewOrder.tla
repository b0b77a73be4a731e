---------------------------- MODULE AcmeNewOrder ----------------------------
(***************************************************************************)
(* The creation of ACME orders and the index of an account's orders:       *)
(* NewOrder and newAuthorization of acme/api/order.go, the CreateXxx of    *)
(* acme/db/nosql, and updateAddOrderIDs, which every CreateOrder and every  *)
(* GetOrdersByAccountID runs under ordersByAccountMux.                     *)
(*                                                                         *)
(* A process is one HTTP request.  The status of an order is abstracted to *)
(* whether it is still pending: AcmeOrder proves that an order that has    *)
(* left pending never returns to it (NeverPendingAgain).                   *)
(***************************************************************************)
EXTENDS Naturals, Sequences, Functions

CONSTANTS
  Orders, Authzs, Challenges,  \* IDs randID can return: bound what is created
  Accounts,                    \* the accounts that place orders
  Procs,                       \* requests served at the same time
  MaxIdentifiers,              \* identifiers in one order
  MaxChallenges,               \* challenge types enabled for an identifier
  None

ASSUME BoundsAssumption == MaxIdentifiers \in Nat /\ MaxChallenges \in Nat

VARIABLES
  order,   \* table acme_orders
  authz,   \* table acme_authzs: the challenges of an authorization
  chal,    \* table acme_challenges: the IDs that have a row
  list,    \* table acme_ordersByAccountID_index
  mux,     \* the request that holds ordersByAccountMux
  open,    \* orders that are still pending
  placed,  \* history: orders whose creation was answered with 201 Created
  loc      \* the local variables of each request

vars == <<order, authz, chal, list, mux, open, placed, loc>>

Order == [acc: Accounts, authzs: SUBSET Authzs]

Labels == {"idle", "CreateChallenge", "CreateAuthorization", "CreateOrder",
           "Lock", "GetOrder", "UpdateStatus", "save"}

\* The locals of NewOrder: the identifiers still to authorize, the challenges
\* still to create for this one, the challenges and authorizations created, the
\* order's ID; and of updateAddOrderIDs: the old list, the orders still to
\* visit, whether this one was read pending, the new list.
Locals ==
  [pc: Labels, acc: Accounts \cup {None}, left: 0 .. MaxIdentifiers,
   types: 0 .. MaxChallenges, chals: SUBSET Challenges,
   authzs: SUBSET Authzs, oid: Orders \cup {None},
   old: Seq(Orders), todo: Seq(Orders), pending: BOOLEAN, new: Seq(Orders)]

Idle ==
  [pc |-> "idle", acc |-> None, left |-> 0, types |-> 0, chals |-> {},
   authzs |-> {}, oid |-> None, old |-> <<>>, todo |-> <<>>,
   pending |-> FALSE, new |-> <<>>]

Init ==
  /\ order = [o \in Orders |-> None]
  /\ authz = [a \in Authzs |-> None]
  /\ chal = {}
  /\ list = [a \in Accounts |-> <<>>]
  /\ mux = None
  /\ open = {}
  /\ placed = {}
  /\ loc = [p \in Procs |-> Idle]

At(p, label) == loc[p].pc = label

\* The request is answered, with a result or with an error; the deferred Unlock
\* has run.
Respond(p) ==
  /\ loc' = [loc EXCEPT ![p] = Idle]
  /\ mux' = IF mux = p THEN None ELSE mux

-----------------------------------------------------------------------------
(* NewOrder.                                                                *)

\* The label from which the next identifier is authorized, or the order created:
\* an identifier with no enabled challenge type has its authorization at once.
Authorize(left, types) ==
  IF left = 0 THEN "CreateOrder"
  ELSE IF types = 0 THEN "CreateAuthorization" ELSE "CreateChallenge"

\* The request names one or more identifiers (NewOrderRequest.Validate), all of
\* them allowed by the policies.
NewOrder(p, acc, n, types) ==
  /\ At(p, "idle")
  /\ loc' = [loc EXCEPT ![p] = [Idle EXCEPT !.acc = acc, !.left = n, !.types = types,
                                            !.pc = Authorize(n, types)]]
  /\ UNCHANGED <<order, authz, chal, list, mux, open, placed>>

\* newAuthorization creates the challenges of the identifier one by one ...
CreateChallenge(p, c) ==
  /\ At(p, "CreateChallenge")
  /\ c \notin chal
  /\ chal' = chal \cup {c}
  /\ loc' = [loc EXCEPT ![p].chals = @ \cup {c},
                        ![p].types = @ - 1,
                        ![p].pc = Authorize(loc[p].left, loc[p].types - 1)]
  /\ UNCHANGED <<order, authz, list, mux, open, placed>>

\* Mutant: the error of CreateAuthorization is dropped.
CreateAuthorizationUnchecked(p, a, types) ==
  /\ At(p, "CreateAuthorization")
  /\ authz[a] = None
  /\ \/ authz' = [authz EXCEPT ![a] = [chals |-> loc[p].chals]]
     \/ UNCHANGED authz
  /\ loc' = [loc EXCEPT ![p].authzs = @ \cup {a}, ![p].chals = {},
                        ![p].left = @ - 1, ![p].types = types,
                        ![p].pc = Authorize(loc[p].left - 1, types)]
  /\ UNCHANGED <<order, chal, list, mux, open, placed>>

\* ... and then the authorization, and goes on to the next identifier.
CreateAuthorization(p, a, types) ==
  /\ At(p, "CreateAuthorization")
  /\ authz[a] = None
  /\ authz' = [authz EXCEPT ![a] = [chals |-> loc[p].chals]]
  /\ loc' = [loc EXCEPT ![p].authzs = @ \cup {a}, ![p].chals = {},
                        ![p].left = @ - 1, ![p].types = types,
                        ![p].pc = Authorize(loc[p].left - 1, types)]
  /\ UNCHANGED <<order, chal, list, mux, open, placed>>

\* CreateOrder saves the order and then adds it to the account's list.
CreateOrder(p, o) ==
  /\ At(p, "CreateOrder")
  /\ order[o] = None
  /\ order' = [order EXCEPT ![o] = [acc |-> loc[p].acc, authzs |-> loc[p].authzs]]
  /\ open' = open \cup {o}
  /\ loc' = [loc EXCEPT ![p].oid = o, ![p].pc = "Lock"]
  /\ UNCHANGED <<authz, chal, list, mux, placed>>

-----------------------------------------------------------------------------
(* updateAddOrderIDs.                                                       *)

\* GetOrdersByAccountID lists the orders without adding one.
GetOrdersByAccountID(p, acc) ==
  /\ At(p, "idle")
  /\ loc' = [loc EXCEPT ![p] = [Idle EXCEPT !.acc = acc, !.pc = "Lock"]]
  /\ UNCHANGED <<order, authz, chal, list, mux, open, placed>>

\* With ordersByAccountMux the list is read, a missing row as no orders.
Lock(p) ==
  /\ At(p, "Lock")
  /\ mux = None
  /\ mux' = p
  /\ LET oids == list[loc[p].acc] IN
     loc' = [loc EXCEPT ![p].old = oids, ![p].todo = oids,
                        ![p].pc = IF oids = <<>> THEN "save" ELSE "GetOrder"]
  /\ UNCHANGED <<order, authz, chal, list, open, placed>>

\* Every listed order is read; one that cannot be read ends the request.
GetOrder(p) ==
  /\ At(p, "GetOrder")
  /\ LET o == Head(loc[p].todo) IN
     IF order[o] = None THEN Respond(p)
     ELSE /\ loc' = [loc EXCEPT ![p].pending = (o \in open),
                               ![p].pc = "UpdateStatus"]
          /\ UNCHANGED mux
  /\ UNCHANGED <<order, authz, chal, list, open, placed>>

\* Mutant: an order that is pending no longer is read again.
UpdateStatusAgain(p) ==
  /\ At(p, "UpdateStatus")
  /\ \E pending \in {b \in BOOLEAN : b => loc[p].pending} :
       LET o == Head(loc[p].todo) IN
       /\ open' = IF pending THEN open ELSE open \ {o}
       /\ loc' = [loc EXCEPT
            ![p].new = IF pending THEN Append(@, o) ELSE @,
            ![p].todo = IF pending THEN Tail(@) ELSE @,
            ![p].pc = IF pending /\ Len(loc[p].todo) = 1 THEN "save" ELSE "GetOrder"]
  /\ UNCHANGED <<order, authz, chal, list, mux, placed>>

\* UpdateStatus may find that a pending order is pending no longer; the orders
\* that are pending after it are kept in the list.
UpdateStatus(p) ==
  /\ At(p, "UpdateStatus")
  /\ \E pending \in {b \in BOOLEAN : b => loc[p].pending} :
       LET o == Head(loc[p].todo) IN
       /\ open' = IF pending THEN open ELSE open \ {o}
       /\ loc' = [loc EXCEPT
            ![p].new = IF pending THEN Append(@, o) ELSE @,
            ![p].todo = Tail(@),
            ![p].pc = IF Len(loc[p].todo) = 1 THEN "save" ELSE "GetOrder"]
  /\ UNCHANGED <<order, authz, chal, list, mux, placed>>

\* The order being created, if any, goes to the end of the list.
AddOids(l) == IF l.oid = None THEN <<>> ELSE <<l.oid>>

\* Mutant: the list written is that of the new order alone.
saveAdded(p) ==
  /\ At(p, "save")
  /\ list[loc[p].acc] = loc[p].old
  /\ list' = [list EXCEPT ![loc[p].acc] = AddOids(loc[p])]
  /\ placed' = placed \cup Range(AddOids(loc[p]))
  /\ Respond(p)
  /\ UNCHANGED <<order, authz, chal, open>>

\* The new list is compare-and-swapped from the one read under the mutex, or
\* nothing is written when both are empty.  An empty list is written and
\* compared as nil, which the code takes to be a missing row.
save(p) ==
  /\ At(p, "save")
  /\ list[loc[p].acc] = loc[p].old
  /\ list' = [list EXCEPT ![loc[p].acc] = loc[p].new \o AddOids(loc[p])]
  /\ placed' = placed \cup Range(AddOids(loc[p]))
  /\ Respond(p)
  /\ UNCHANGED <<order, authz, chal, open>>

\* When the save fails, the order just created is deleted again; an error of
\* that is ignored.
saveFails(p) ==
  /\ At(p, "save")
  /\ \/ order' = [o \in Orders |-> IF o = loc[p].oid THEN None ELSE order[o]]
     \/ UNCHANGED order
  /\ open' = {o \in open : order'[o] # None}
  /\ Respond(p)
  /\ UNCHANGED <<authz, chal, list, placed>>

-----------------------------------------------------------------------------
(* The other requests, failures, and the next-state relation.               *)

\* Another request's UpdateStatus or Finalize takes the order out of pending.
Settle(o) ==
  /\ o \in open
  /\ open' = open \ {o}
  /\ UNCHANGED <<order, authz, chal, list, mux, placed, loc>>

\* randID or a database call fails.
Fail(p) ==
  /\ ~At(p, "idle") /\ ~At(p, "Lock") /\ ~At(p, "save")
  /\ Respond(p)
  /\ UNCHANGED <<order, authz, chal, list, open, placed>>

Step(p) ==
  \/ \E c \in Challenges : CreateChallenge(p, c)
  \/ \E a \in Authzs, n \in 0 .. MaxChallenges : CreateAuthorization(p, a, n)
  \/ \E o \in Orders : CreateOrder(p, o)
  \/ GetOrder(p)
  \/ UpdateStatus(p)
  \/ save(p)
  \/ saveFails(p)
  \/ Fail(p)

Next ==
  \/ \E p \in Procs :
       \/ \E acc \in Accounts :
            \/ \E n \in 1 .. MaxIdentifiers, types \in 0 .. MaxChallenges :
                 NewOrder(p, acc, n, types)
            \/ GetOrdersByAccountID(p, acc)
       \/ Lock(p)
       \/ Step(p)
  \/ \E o \in Orders : Settle(o)

Spec == Init /\ [][Next]_vars

\* A handler keeps running, and a sync.Mutex serves every waiter.
Fairness == \A p \in Procs : WF_vars(Step(p)) /\ SF_vars(Lock(p))

FairSpec == Spec /\ Fairness

-----------------------------------------------------------------------------
(* Properties.                                                              *)

\* Tables and locals hold values of their Go types.
TypeOK ==
  /\ order \in [Orders -> Order \cup {None}]
  /\ authz \in [Authzs -> [chals: SUBSET Challenges] \cup {None}]
  /\ chal \subseteq Challenges
  /\ list \in [Accounts -> Seq(Orders)]
  /\ mux \in Procs \cup {None}
  /\ open \subseteq Orders /\ placed \subseteq Orders
  /\ loc \in [Procs -> Locals]

\* A stored order is whole, wherever a creation stopped: its authorizations and
\* their challenges are stored, so GetOrder, GetAuthorization and UpdateStatus
\* find every row they follow; and they are of this order alone, also when
\* requests create orders at the same time: proving an identifier of one order
\* proves none of another (AcmeOrder takes this as given).
StoredOrderComplete ==
  \A o \in Orders : order[o] # None =>
    /\ \A a \in order[o].authzs : authz[a] # None /\ authz[a].chals \subseteq chal
    /\ \A q \in Orders \ {o} : order[q] # None => order[o].authzs \cap order[q].authzs = {}
    /\ \A a \in order[o].authzs, b \in Authzs \ order[o].authzs :
         authz[b] # None => authz[a].chals \cap authz[b].chals = {}

\* The list of an account and its orders agree although every request rewrites
\* the list.  A listed order is stored and of the account: one missing row would
\* make GetOrder fail for every later NewOrder of the account.  A pending order
\* whose creation was reported is listed ("The server SHOULD include pending
\* orders", updateAddOrderIDs).
OrderListAgrees ==
  /\ \A acc \in Accounts, o \in Orders :
       o \in Range(list[acc]) => order[o] # None /\ order[o].acc = acc
  /\ \A o \in placed \cap open : o \in Range(list[order[o].acc])

\* Every request is answered: no path leaves ordersByAccountMux locked.
EveryRequestAnswered ==
  \A p \in Procs : ~At(p, "idle") ~> At(p, "idle")

=============================================================================
