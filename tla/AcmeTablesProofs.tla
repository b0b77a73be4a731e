-------------------------- MODULE AcmeTablesProofs --------------------------
(***************************************************************************)
(* Proofs about the tables of the ACME database, for any number of          *)
(* requests, accounts, orders, identifiers, challenges, provisioners and    *)
(* keys.                                                                    *)
(*                                                                         *)
(* StoredOrderComplete needs what a request has created and not yet put     *)
(* into an order: its draft is stored and shared with no other request and  *)
(* no order.  OrderListAgrees needs what updateAddOrderIDs has found so far:*)
(* the holder of the mutex still has the list as it is stored, and every    *)
(* pending order of it is either kept already or still to be visited.       *)
(* ReferenceLeadsToKey and CreatedKeyListed need what the operation that    *)
(* holds externalAccountKeyMutex has written so far.  ChallengeFollowsProof *)
(* needs, of each validator, that it judges every answer by what it proves. *)
(***************************************************************************)
EXTENDS AcmeTables, TLAPS

(* A leaf is Zenon's unless it names another prover.                        *)
USE ZenonT(60)

Creating == {"CreateChallenge", "CreateAuthorization", "CreateOrder"}
Section == {"GetOrder", "UpdateStatus", "save"}

\* The authorizations a request has created for the order it will create.
Draft(l) == IF l.pc \in Creating THEN l.authzs ELSE {}

\* Rows point to rows, and no two point to the same one.
Rows ==
  /\ \A a \in Authzs : authz[a] # None => authz[a].chals \subseteq chal
  /\ \A a, b \in Authzs : a # b /\ authz[a] # None /\ authz[b] # None
                            => authz[a].chals \cap authz[b].chals = {}
  /\ \A o \in Orders : order[o] # None => \A a \in order[o].authzs : authz[a] # None
  /\ \A o, q \in Orders : o # q /\ order[o] # None /\ order[q] # None
                            => order[o].authzs \cap order[q].authzs = {}

\* What a request has created is stored and in no other row.
Own(l) ==
  /\ l.chals \subseteq chal
  /\ \A a \in Authzs : authz[a] # None => authz[a].chals \cap l.chals = {}
  /\ \A a \in Draft(l) : authz[a] # None
  /\ \A o \in Orders : order[o] # None => order[o].authzs \cap Draft(l) = {}

\* The order a request adds to a list is stored, of its account, not answered
\* and in no list yet.
Adding(l) ==
  l.oid # None =>
    /\ order[l.oid] # None /\ order[l.oid].acc = l.acc
    /\ l.oid \notin placed
    /\ \A acc \in Accounts : l.oid \notin Range(list[acc])

\* Two requests have created different things.
Apart(l, m) ==
  /\ l.chals \cap m.chals = {}
  /\ Draft(l) \cap Draft(m) = {}
  /\ l.oid # None => l.oid # m.oid

\* The control of a request: what its place in the code says of its locals.
Control(l) ==
  /\ l.pc = "CreateChallenge" => l.left > 0 /\ l.types > 0
  /\ l.pc = "CreateAuthorization" => l.left > 0
  /\ l.pc # "idle" => l.acc \in Accounts
  /\ l.pc \notin Section => l.new = <<>>
  /\ l.pc \in {"GetOrder", "UpdateStatus"} => l.todo # <<>>
  /\ l.pc = "save" => l.todo = <<>>

\* The holder of the mutex has the stored list, and misses no pending order.
Rewriting(l) ==
  l.pc \in Section =>
    /\ l.old = list[l.acc]
    /\ Range(l.new) \cup Range(l.todo) \subseteq Range(l.old)
    /\ open \cap Range(l.old) \subseteq Range(l.new) \cup Range(l.todo)

Request(l) == Own(l) /\ Adding(l) /\ Control(l) /\ Rewriting(l)

Placed == \A o \in placed : order[o] # None

Locked == \A p \in Procs : mux = p <=> loc[p].pc \in Section

Separate == \A p, q \in Procs : p # q => Apart(loc[p], loc[q])

IInv ==
  /\ TypeOK /\ Rows /\ Placed /\ OrderListAgrees /\ Locked /\ Separate
  /\ \A p \in Procs : Request(loc[p])

-----------------------------------------------------------------------------
(* Sequences.                                                               *)

\* The orders of the lists that updateAddOrderIDs takes apart and puts together.
LEMMA RangeFacts ==
  ASSUME NEW S
  PROVE  /\ Range(<<>>) = {}
         /\ \A e \in S : <<e>> \in Seq(S) /\ Range(<<e>>) = {e}
         /\ \A s \in Seq(S) : Range(s) \subseteq S
         /\ \A s \in Seq(S), e \in S : Range(Append(s, e)) = Range(s) \cup {e}
         /\ \A s \in Seq(S) : s # <<>> =>
              /\ Head(s) \in S /\ Tail(s) \in Seq(S) /\ (Len(s) = 1 <=> Tail(s) = <<>>)
              /\ Range(s) = {Head(s)} \cup Range(Tail(s))
         /\ \A s, t \in Seq(S) : s \o t \in Seq(S) /\ Range(s \o t) = Range(s) \cup Range(t)
<1>1. Range(<<>>) = {}
  BY SMTT(60) DEF Range
<1>2. \A e \in S : <<e>> \in Seq(S) /\ Range(<<e>>) = {e}
  BY SMTT(60) DEF Range
<1>3. \A s \in Seq(S) : Range(s) \subseteq S
  BY SMTT(60) DEF Range
<1>4. ASSUME NEW s \in Seq(S), NEW e \in S
      PROVE  Range(Append(s, e)) = Range(s) \cup {e}
  <2>1. DOMAIN Append(s, e) = 1 .. Len(s) + 1 /\ DOMAIN s = 1 .. Len(s)
    BY SMTT(60)
  <2>2. \A i \in 1 .. Len(s) : Append(s, e)[i] = s[i]
    BY SMTT(60)
  <2>3. Append(s, e)[Len(s) + 1] = e
    BY SMTT(60)
  <2>4. Len(s) \in Nat /\ 1 .. Len(s) + 1 = (1 .. Len(s)) \cup {Len(s) + 1}
    BY SMTT(60)
  <2> QED
    BY <2>1, <2>2, <2>3, <2>4, SMTT(60) DEF Range
<1>5. ASSUME NEW s \in Seq(S), s # <<>>
      PROVE  /\ Head(s) \in S /\ Tail(s) \in Seq(S) /\ (Len(s) = 1 <=> Tail(s) = <<>>)
             /\ Range(s) = {Head(s)} \cup Range(Tail(s))
  <2>1. /\ Len(s) \in Nat \ {0} /\ Head(s) = s[1] /\ Head(s) \in S /\ Tail(s) \in Seq(S)
        /\ Len(Tail(s)) = Len(s) - 1
    BY <1>5, SMTT(60)
  <2>2. \A i \in 1 .. Len(s) - 1 : Tail(s)[i] = s[i + 1]
    BY <1>5, SMTT(60)
  <2>3. DOMAIN s = 1 .. Len(s) /\ DOMAIN Tail(s) = 1 .. Len(s) - 1
    BY <2>1, SMTT(60)
  <2>4. \A i \in 1 .. Len(s) : i = 1 \/ (i - 1 \in 1 .. Len(s) - 1 /\ Tail(s)[i - 1] = s[i])
    BY <2>1, <2>2, SMTT(60)
  <2>5. \A i \in 1 .. Len(s) - 1 : i + 1 \in 1 .. Len(s)
    BY <2>1, SMTT(60)
  <2>6. 1 \in 1 .. Len(s)
    BY <2>1, SMTT(60)
  <2>7. Len(s) = 1 <=> Tail(s) = <<>>
    <3>1. \A u \in Seq(S) : u = <<>> <=> Len(u) = 0
      BY SMTT(60)
    <3>2. Tail(s) = <<>> <=> Len(Tail(s)) = 0
      BY <2>1, <3>1
    <3> QED
      BY <2>1, <3>2, SMTT(60)
  <2>8. ASSUME NEW x \in Range(s) PROVE x \in {Head(s)} \cup Range(Tail(s))
    <3>1. PICK i \in 1 .. Len(s) : x = s[i]
      BY <2>3 DEF Range
    <3> QED
      BY <3>1, <2>1, <2>3, <2>4 DEF Range
  <2>9. ASSUME NEW x \in {Head(s)} \cup Range(Tail(s)) PROVE x \in Range(s)
    <3>1. CASE x = Head(s)
      BY <3>1, <2>1, <2>3, <2>6 DEF Range
    <3>2. CASE x \in Range(Tail(s))
      <4>1. PICK i \in 1 .. Len(s) - 1 : x = Tail(s)[i]
        BY <3>2, <2>3 DEF Range
      <4> QED
        BY <4>1, <2>2, <2>3, <2>5 DEF Range
    <3> QED
      BY <3>1, <3>2
  <2> QED
    BY <2>1, <2>7, <2>8, <2>9
<1>6. ASSUME NEW s \in Seq(S), NEW t \in Seq(S)
      PROVE  s \o t \in Seq(S) /\ Range(s \o t) = Range(s) \cup Range(t)
  <2>1. /\ s \o t \in Seq(S) /\ Len(s) \in Nat /\ Len(t) \in Nat
        /\ DOMAIN (s \o t) = 1 .. Len(s) + Len(t)
        /\ DOMAIN s = 1 .. Len(s) /\ DOMAIN t = 1 .. Len(t)
    BY SMTT(60)
  <2>2. \A i \in 1 .. Len(s) : (s \o t)[i] = s[i] /\ i \in 1 .. Len(s) + Len(t)
    BY SMTT(60)
  <2>3. \A i \in 1 .. Len(t) : (s \o t)[i + Len(s)] = t[i] /\ i + Len(s) \in 1 .. Len(s) + Len(t)
    BY SMTT(60)
  <2>4. \A i \in 1 .. Len(s) + Len(t) :
          \/ i \in 1 .. Len(s) /\ (s \o t)[i] = s[i]
          \/ i - Len(s) \in 1 .. Len(t) /\ (s \o t)[i] = t[i - Len(s)]
    BY SMTT(60)
  <2>5. ASSUME NEW x \in Range(s \o t) PROVE x \in Range(s) \cup Range(t)
    <3>1. PICK i \in 1 .. Len(s) + Len(t) : x = (s \o t)[i]
      BY <2>1 DEF Range
    <3> QED
      BY <3>1, <2>1, <2>4 DEF Range
  <2>6. ASSUME NEW x \in Range(s) PROVE x \in Range(s \o t)
    <3>1. PICK i \in 1 .. Len(s) : x = s[i]
      BY <2>1 DEF Range
    <3> QED
      BY <3>1, <2>1, <2>2 DEF Range
  <2>7. ASSUME NEW x \in Range(t) PROVE x \in Range(s \o t)
    <3>1. PICK i \in 1 .. Len(t) : x = t[i]
      BY <2>1 DEF Range
    <3> QED
      BY <3>1, <2>1, <2>3 DEF Range
  <2> QED
    BY <2>1, <2>5, <2>6, <2>7
<1> QED
  BY <1>1, <1>2, <1>3, <1>4, <1>5, <1>6

-----------------------------------------------------------------------------
(* What all steps have in common.                                           *)

\* The types of the tables.
Tables ==
  /\ order \in [Orders -> Order \cup {None}]
  /\ authz \in [Authzs -> [chals: SUBSET Challenges] \cup {None}]
  /\ chal \subseteq Challenges
  /\ list \in [Accounts -> Seq(Orders)]
  /\ open \subseteq Orders /\ placed \subseteq Orders

\* A request that waits for nothing has nothing.
LEMMA IdleRequest ==
  ASSUME NoneDistinct
  PROVE  /\ Idle \in Locals /\ Idle.pc = "idle" /\ Idle.chals = {} /\ Draft(Idle) = {}
         /\ Idle.oid = None /\ Idle.new = <<>>
         /\ Request(Idle) /\ Request(Idle)'
         /\ \A m : Apart(Idle, m) /\ Apart(m, Idle)
<1>1. Idle \in Locals
  BY BoundsAssumption, SMTT(60) DEF Idle, Locals, Labels
<1>2. /\ Idle.pc = "idle" /\ Idle.chals = {} /\ Draft(Idle) = {} /\ Idle.oid = None
      /\ Idle.new = <<>>
  BY DEF Idle, Draft, Creating
<1>3. Request(Idle) /\ Request(Idle)'
  BY <1>2 DEF Request, Own, Adding, Control, Rewriting, Section, Creating
<1>4. \A m : Apart(Idle, m) /\ Apart(m, Idle)
  BY <1>2 DEF Apart
<1> QED
  BY <1>1, <1>2, <1>3, <1>4

\* Nothing is stored and no request is in progress at first.
LEMMA InitIInv ==
  ASSUME NoneDistinct, Init
  PROVE  IInv
<1>1. \A p \in Procs : loc[p] = Idle
  BY DEF Init
<1>2. TypeOK
  BY IdleRequest, SMTT(60) DEF Init, TypeOK
<1>3. Rows /\ Placed
  BY DEF Init, Rows, Placed
<1>4. OrderListAgrees
  BY RangeFacts DEF Init, OrderListAgrees
<1>5. Locked
  BY <1>1, IdleRequest DEF Init, Locked, Section, NoneDistinct
<1>6. Separate
  BY <1>1, IdleRequest DEF Separate
<1> QED
  BY <1>1, <1>2, <1>3, <1>4, <1>5, <1>6, IdleRequest DEF IInv

\* A step of a request keeps the invariant when the tables do, and when it
\* takes nothing from the requests that are apart from it.
LEMMA LocalStep ==
  ASSUME NoneDistinct, IInv, NEW p \in Procs, NEW l \in Locals,
         loc' = [loc EXCEPT ![p] = l],
         Tables', Rows', Placed', OrderListAgrees', Request(l)',
         \A m \in Locals :
           /\ Request(m) /\ Apart(loc[p], m) /\ Apart(m, loc[p])
           /\ mux = p => m.pc \notin Section
           => Request(m)' /\ Apart(l, m) /\ Apart(m, l),
         \/ mux' = mux /\ (l.pc \in Section <=> loc[p].pc \in Section)
         \/ mux = None /\ mux' = p /\ l.pc \in Section
         \/ mux = p /\ mux' = None /\ l.pc \notin Section
  PROVE  IInv'
<1>1. /\ loc \in [Procs -> Locals] /\ mux \in Procs \cup {None}
      /\ \A q \in Procs : mux = q <=> loc[q].pc \in Section
  BY DEF IInv, TypeOK, Locked
<1>2. loc' \in [Procs -> Locals] /\ loc'[p] = l /\ \A q \in Procs \ {p} : loc'[q] = loc[q]
  BY <1>1
<1>3. ASSUME NEW q \in Procs, q # p
      PROVE  /\ loc[q] \in Locals /\ Request(loc[q])
             /\ Apart(loc[p], loc[q]) /\ Apart(loc[q], loc[p])
             /\ mux = p => loc[q].pc \notin Section
  BY <1>1, <1>3 DEF IInv, Separate
<1>4. ASSUME NEW m \in Locals, NEW q \in Procs, q # p, m = loc[q]
      PROVE  Request(m)' /\ Apart(l, m) /\ Apart(m, l)
  <2>1. /\ Request(m) /\ Apart(loc[p], m) /\ Apart(m, loc[p])
        /\ mux = p => m.pc \notin Section
    BY <1>3, <1>4
  <2> QED
    BY <2>1
<1>5. TypeOK'
  BY <1>1, <1>2 DEF TypeOK, Tables
<1>6. Locked'
  <2>1. ASSUME NEW q \in Procs PROVE mux' = q <=> loc'[q].pc \in Section
    BY <1>1, <1>2 DEF NoneDistinct
  <2> QED
    BY <2>1 DEF Locked
<1>7. Separate'
  <2>1. ASSUME NEW q \in Procs, NEW r \in Procs, q # r PROVE Apart(loc'[q], loc'[r])
    <3>1. CASE q = p
      BY <3>1, <2>1, <1>2, <1>3, <1>4
    <3>2. CASE r = p
      BY <3>2, <2>1, <1>2, <1>3, <1>4
    <3>3. CASE q # p /\ r # p
      BY <3>3, <2>1, <1>2 DEF IInv, Separate
    <3> QED
      BY <3>1, <3>2, <3>3
  <2> QED
    BY <2>1 DEF Separate
<1>8. \A q \in Procs : Request(loc[q])'
  <2>1. ASSUME NEW q \in Procs PROVE Request(loc[q])'
    <3>1. CASE q = p
      BY <3>1, <1>2, SMTT(60) DEF Request, Own, Adding, Control, Rewriting, Draft
    <3>2. CASE q # p
      <4>1. PICK n \in Locals : n = loc[q]
        BY <1>1
      <4>2. Request(n)' /\ loc'[q] = n
        BY <3>2, <4>1, <1>2, <1>4
      <4> QED
        BY <4>2, SMTT(60) DEF Request, Own, Adding, Control, Rewriting, Draft
    <3> QED
      BY <3>1, <3>2
  <2> QED
    BY <2>1
<1> QED
  BY <1>5, <1>6, <1>7, <1>8 DEF IInv

\* A step that changes no table keeps the invariant when the request has
\* nothing that it did not have before.
LEMMA QuietStep ==
  ASSUME NoneDistinct, IInv, NEW p \in Procs, NEW l \in Locals,
         loc' = [loc EXCEPT ![p] = l],
         UNCHANGED <<order, authz, chal, list, open, placed>>,
         Request(l), l.chals \subseteq loc[p].chals, Draft(l) \subseteq Draft(loc[p]),
         l.oid = None \/ l.oid = loc[p].oid,
         \/ mux' = mux /\ (l.pc \in Section <=> loc[p].pc \in Section)
         \/ mux = None /\ mux' = p /\ l.pc \in Section
         \/ mux = p /\ mux' = None /\ l.pc \notin Section
  PROVE  IInv'
<1>1. Tables' /\ Rows' /\ Placed' /\ OrderListAgrees'
  BY DEF IInv, TypeOK, Tables, Rows, Placed, OrderListAgrees
<1>2. \A m \in Locals : Request(m) => Request(m)'
  BY DEF Request, Own, Adding, Control, Rewriting
<1>3. \A m \in Locals : Apart(loc[p], m) /\ Apart(m, loc[p]) => Apart(l, m) /\ Apart(m, l)
  BY DEF Apart
<1>4. Request(l)'
  BY <1>2
<1> QED
  BY <1>1, <1>2, <1>3, <1>4, LocalStep

\* What the invariant says of one request.
LEMMA OwnRequest ==
  ASSUME IInv, NEW p \in Procs
  PROVE  loc[p] \in Locals /\ Request(loc[p]) /\ (mux = p <=> loc[p].pc \in Section)
BY DEF IInv, TypeOK, Locked

\* Where NewOrder goes on with the identifiers and challenges that are left.
LEMMA AuthorizeLabel ==
  ASSUME NEW n \in Nat, NEW k \in Nat
  PROVE  /\ Authorize(n, k) \in Creating
         /\ Authorize(n, k) = "CreateChallenge" => n > 0 /\ k > 0
         /\ Authorize(n, k) = "CreateAuthorization" => n > 0
BY SMTT(60) DEF Authorize, Creating

-----------------------------------------------------------------------------
(* One lemma for each action.                                               *)

\* A new request has created nothing.
LEMMA NewOrderKeeps ==
  ASSUME NoneDistinct, IInv, NEW p \in Procs, NEW acc \in Accounts, NEW n \in 1 .. MaxIdentifiers,
         NEW types \in 0 .. MaxChallenges, NewOrder(p, acc, n, types)
  PROVE  IInv'
<1> DEFINE label == Authorize(n, types)
           l == [Idle EXCEPT !.acc = acc, !.left = n, !.types = types, !.pc = label]
<1>1. label \in {"CreateChallenge", "CreateAuthorization"} /\ (label = "CreateChallenge" => types > 0)
  BY BoundsAssumption, SMTT(60) DEF Authorize
<1> HIDE DEF label
<1>2. n \in 0 .. MaxIdentifiers /\ n > 0
  BY BoundsAssumption, SMTT(60)
<1>3. l \in Locals
  BY <1>1, <1>2, IdleRequest DEF Locals, Labels
<1>4. /\ l.pc = label /\ l.acc = acc /\ l.left = n /\ l.types = types /\ l.chals = {}
      /\ l.authzs = {} /\ l.oid = None /\ l.new = <<>>
  BY DEF Idle
<1>5. loc' = [loc EXCEPT ![p] = l] /\ mux' = mux /\ loc[p].pc = "idle"
      /\ UNCHANGED <<order, authz, chal, list, open, placed>>
  BY DEF NewOrder, At, label
<1> HIDE DEF l
<1>6. Request(l) /\ Draft(l) = {} /\ l.pc \notin Section
  BY <1>1, <1>2, <1>4 DEF Request, Own, Adding, Control, Rewriting, Draft, Section
<1> QED
  BY <1>3, <1>4, <1>5, <1>6, QuietStep DEF Section

\* Neither has a request for the list.
LEMMA GetOrdersKeeps ==
  ASSUME NoneDistinct, IInv, NEW p \in Procs, NEW acc \in Accounts, GetOrdersByAccountID(p, acc)
  PROVE  IInv'
<1> DEFINE l == [Idle EXCEPT !.acc = acc, !.pc = "Lock"]
<1>1. l \in Locals
  BY IdleRequest DEF Locals, Labels
<1>2. /\ l.pc = "Lock" /\ l.acc = acc /\ l.chals = {} /\ l.authzs = {} /\ l.oid = None
      /\ l.new = <<>>
  BY DEF Idle
<1>3. loc' = [loc EXCEPT ![p] = l] /\ mux' = mux /\ loc[p].pc = "idle"
      /\ UNCHANGED <<order, authz, chal, list, open, placed>>
  BY DEF GetOrdersByAccountID, At
<1> HIDE DEF l
<1>4. Request(l) /\ Draft(l) = {} /\ l.pc \notin Section
  BY <1>2 DEF Request, Own, Adding, Control, Rewriting, Draft, Section, Creating
<1> QED
  BY <1>1, <1>2, <1>3, <1>4, QuietStep DEF Section

\* The list is read under the mutex and all of it is still to be visited.
LEMMA LockKeeps ==
  ASSUME NoneDistinct, IInv, NEW p \in Procs, Lock(p)
  PROVE  IInv'
<1> DEFINE oids == list[loc[p].acc]
           label == IF oids = <<>> THEN "save" ELSE "GetOrder"
           l == [loc[p] EXCEPT !.old = oids, !.todo = oids, !.pc = label]
<1>1. loc[p] \in Locals /\ Request(loc[p]) /\ loc[p].pc = "Lock" /\ loc \in [Procs -> Locals]
  BY OwnRequest DEF Lock, At, IInv, TypeOK
<1>2. loc[p].acc \in Accounts /\ oids \in Seq(Orders) /\ loc[p].new = <<>>
  BY <1>1 DEF Request, Control, IInv, TypeOK, Section
<1>3. /\ loc' = [loc EXCEPT ![p] = l] /\ mux = None /\ mux' = p
      /\ UNCHANGED <<order, authz, chal, list, open, placed>>
  BY <1>1 DEF Lock
<1>4. label \in {"save", "GetOrder"} /\ (label = "save" <=> oids = <<>>)
  OBVIOUS
<1> HIDE DEF label
<1>5. l \in Locals
  BY <1>1, <1>2, <1>4 DEF Locals, Labels
<1>6. /\ l.pc = label /\ l.acc = loc[p].acc /\ l.left = loc[p].left /\ l.types = loc[p].types
      /\ l.chals = loc[p].chals /\ l.oid = loc[p].oid /\ l.old = oids /\ l.todo = oids
      /\ l.new = loc[p].new
  BY <1>1 DEF Locals
<1> HIDE DEF l
<1>7. Draft(l) = {} /\ Draft(loc[p]) = {} /\ l.pc \in Section
  BY <1>1, <1>4, <1>6 DEF Draft, Creating, Section
<1>8. Own(l) /\ Adding(l)
  BY <1>1, <1>6, <1>7 DEF Request, Own, Adding
<1>9. Control(l)
  BY <1>2, <1>4, <1>6 DEF Control, Section
<1>10. Rewriting(l)
  BY <1>2, <1>6, RangeFacts DEF Rewriting
<1> QED
  BY <1>3, <1>5, <1>6, <1>7, <1>8, <1>9, <1>10, QuietStep DEF Request

\* A request that is answered gives up the mutex and all it has.
LEMMA RespondKeeps ==
  ASSUME NoneDistinct, IInv, NEW p \in Procs, Respond(p),
         UNCHANGED <<order, authz, chal, list, open, placed>>
  PROVE  IInv'
<1>1. loc' = [loc EXCEPT ![p] = Idle] /\ mux' = IF mux = p THEN None ELSE mux
  BY DEF Respond
<1>2. mux = p <=> loc[p].pc \in Section
  BY OwnRequest
<1>3. Idle.pc \notin Section
  BY IdleRequest DEF Section
<1>4. CASE mux = p
  BY <1>1, <1>3, <1>4, IdleRequest, QuietStep
<1>5. CASE mux # p
  BY <1>1, <1>2, <1>3, <1>5, IdleRequest, QuietStep
<1> QED
  BY <1>4, <1>5

\* A listed order is read and stays to be visited.
LEMMA GetOrderKeeps ==
  ASSUME NoneDistinct, IInv, NEW p \in Procs, GetOrder(p)
  PROVE  IInv'
<1> DEFINE o == Head(loc[p].todo)
           pending == o \in open
           l == [loc[p] EXCEPT !.pending = pending, !.pc = "UpdateStatus"]
<1>1. loc[p] \in Locals /\ Request(loc[p]) /\ loc[p].pc = "GetOrder" /\ loc \in [Procs -> Locals]
  BY OwnRequest DEF GetOrder, At, IInv, TypeOK
<1>2. CASE order[o] = None
  BY <1>2, RespondKeeps DEF GetOrder
<1>3. CASE order[o] # None
  <2>1. /\ loc' = [loc EXCEPT ![p] = l] /\ mux' = mux
        /\ UNCHANGED <<order, authz, chal, list, open, placed>>
    BY <1>1, <1>3 DEF GetOrder
  <2>2. pending \in BOOLEAN
    BY SMTT(60)
  <2> HIDE DEF pending
  <2>3. l \in Locals
    BY <1>1, <2>2 DEF Locals, Labels
  <2>4. /\ l.pc = "UpdateStatus" /\ l.acc = loc[p].acc /\ l.left = loc[p].left
        /\ l.types = loc[p].types /\ l.chals = loc[p].chals /\ l.oid = loc[p].oid
        /\ l.old = loc[p].old /\ l.todo = loc[p].todo /\ l.new = loc[p].new
    BY <1>1 DEF Locals
  <2> HIDE DEF l
  <2>5. Draft(l) = {} /\ Draft(loc[p]) = {} /\ l.pc \in Section /\ loc[p].pc \in Section
    BY <1>1, <2>4 DEF Draft, Creating, Section
  <2>6. Request(l)
    BY <1>1, <2>4, <2>5 DEF Request, Own, Adding, Control, Rewriting, Section
  <2> QED
    BY <2>1, <2>3, <2>4, <2>5, <2>6, QuietStep
<1> QED
  BY <1>2, <1>3

\* A failure leaves the rows created so far to nobody.
LEMMA FailKeeps ==
  ASSUME NoneDistinct, IInv, NEW p \in Procs, Fail(p)
  PROVE  IInv'
BY RespondKeeps DEF Fail

\* A new challenge is in no authorization and of no other request.
LEMMA CreateChallengeKeeps ==
  ASSUME NoneDistinct, IInv, NEW p \in Procs, NEW c \in Challenges, CreateChallenge(p, c)
  PROVE  IInv'
<1> DEFINE types == loc[p].types - 1
           label == Authorize(loc[p].left, types)
           next == [loc[p] EXCEPT !.chals = @ \cup {c}, !.types = types, !.pc = label]
<1>1. /\ loc[p] \in Locals /\ Request(loc[p]) /\ loc[p].pc = "CreateChallenge"
      /\ loc \in [Procs -> Locals]
  BY OwnRequest DEF CreateChallenge, At, IInv, TypeOK
<1>2. /\ loc[p].left > 0 /\ loc[p].left \in 0 .. MaxIdentifiers
      /\ types \in 0 .. MaxChallenges
      /\ loc[p].acc \in Accounts /\ loc[p].new = <<>>
  BY <1>1, BoundsAssumption, SMTT(60) DEF Request, Control, Locals, Section
<1>3. label \in Creating /\ (label = "CreateChallenge" => types > 0)
  BY <1>2, AuthorizeLabel, BoundsAssumption, SMTT(60)
<1>4. /\ loc' = [loc EXCEPT ![p] = next] /\ mux' = mux /\ c \notin chal /\ chal' = chal \cup {c}
      /\ UNCHANGED <<order, authz, list, open, placed>>
  BY <1>1 DEF CreateChallenge
<1> HIDE DEF types, label
<1>5. /\ next \in Locals
      /\ next.pc = label /\ next.acc = loc[p].acc /\ next.left = loc[p].left
      /\ next.types = types /\ next.chals = loc[p].chals \cup {c}
      /\ next.authzs = loc[p].authzs /\ next.oid = loc[p].oid /\ next.new = loc[p].new
  <2>1. next \in Locals
    BY <1>1, <1>2, <1>3 DEF Locals, Labels, Creating
  <2> QED
    BY <1>1, <2>1 DEF Locals
<1> HIDE DEF next
<1>6. PICK l \in Locals :
        /\ l = next /\ l.pc = label /\ l.acc = loc[p].acc /\ l.left = loc[p].left
        /\ l.types = types /\ l.chals = loc[p].chals \cup {c}
        /\ l.authzs = loc[p].authzs /\ l.oid = loc[p].oid /\ l.new = loc[p].new
  BY <1>5
<1>7. Draft(l) = Draft(loc[p])
  BY <1>1, <1>3, <1>6 DEF Draft, Creating
<1>8. Tables' /\ Placed' /\ OrderListAgrees'
  BY <1>4 DEF IInv, TypeOK, Tables, Placed, OrderListAgrees
<1>9. Rows'
  BY <1>4 DEF IInv, Rows
<1>10. Own(l)'
  BY <1>1, <1>4, <1>6, <1>7, SMTT(60) DEF IInv, Rows, Request, Own
<1>11. Adding(l)' /\ Control(l)' /\ Rewriting(l)'
  BY <1>1, <1>2, <1>3, <1>4, <1>6 DEF Request, Adding, Control, Rewriting, Section, Creating
<1>12. ASSUME NEW m \in Locals, Request(m), Apart(loc[p], m), Apart(m, loc[p])
       PROVE  Request(m)' /\ Apart(l, m) /\ Apart(m, l)
  BY <1>12, <1>4, <1>6, <1>7 DEF Request, Own, Adding, Control, Rewriting, Apart
<1>13. l.pc \notin Section /\ loc[p].pc \notin Section
  BY <1>1, <1>3, <1>6 DEF Section, Creating
<1>14. Request(l)' /\ loc' = [loc EXCEPT ![p] = l]
  BY <1>4, <1>6, <1>10, <1>11 DEF Request
<1> QED
  BY <1>4, <1>8, <1>9, <1>12, <1>13, <1>14, LocalStep

\* A new authorization takes over the challenges of its request.
LEMMA CreateAuthorizationKeeps ==
  ASSUME NoneDistinct, IInv, NEW p \in Procs, NEW a \in Authzs, NEW types \in 0 .. MaxChallenges,
         CreateAuthorization(p, a, types)
  PROVE  IInv'
<1> DEFINE left == loc[p].left - 1
           label == Authorize(left, types)
           next == [loc[p] EXCEPT !.authzs = @ \cup {a}, !.chals = {}, !.left = left,
                                  !.types = types, !.pc = label]
           row == [chals |-> loc[p].chals]
<1>1. /\ loc[p] \in Locals /\ Request(loc[p]) /\ loc[p].pc = "CreateAuthorization"
      /\ loc \in [Procs -> Locals]
  BY OwnRequest DEF CreateAuthorization, At, IInv, TypeOK
<1>2. left \in 0 .. MaxIdentifiers /\ loc[p].acc \in Accounts /\ loc[p].new = <<>>
  BY <1>1, BoundsAssumption, SMTT(60) DEF Request, Control, Locals, Section
<1>3. /\ label \in Creating
      /\ label = "CreateChallenge" => left > 0 /\ types > 0
      /\ label = "CreateAuthorization" => left > 0
  BY <1>2, AuthorizeLabel, BoundsAssumption, SMTT(60)
<1>4. /\ loc' = [loc EXCEPT ![p] = next] /\ mux' = mux /\ authz[a] = None
      /\ authz' = [authz EXCEPT ![a] = row]
      /\ UNCHANGED <<order, chal, list, open, placed>>
  BY <1>1 DEF CreateAuthorization
<1> HIDE DEF left, label
<1>5. /\ next \in Locals
      /\ next.pc = label /\ next.acc = loc[p].acc /\ next.left = left
      /\ next.types = types /\ next.chals = {} /\ next.authzs = loc[p].authzs \cup {a}
      /\ next.oid = loc[p].oid /\ next.new = loc[p].new
  <2>1. next \in Locals
    BY <1>1, <1>2, <1>3 DEF Locals, Labels, Creating
  <2> QED
    BY <1>1, <2>1 DEF Locals
<1> HIDE DEF next
<1>6. PICK l \in Locals :
        /\ l = next /\ l.pc = label /\ l.acc = loc[p].acc /\ l.left = left
        /\ l.types = types /\ l.chals = {} /\ l.authzs = loc[p].authzs \cup {a}
        /\ l.oid = loc[p].oid /\ l.new = loc[p].new
  BY <1>5
<1>7. row \in [chals: SUBSET Challenges] /\ row.chals = loc[p].chals
  BY <1>1 DEF Locals
<1> HIDE DEF row
<1>8. /\ authz' \in [Authzs -> [chals: SUBSET Challenges] \cup {None}]
      /\ authz'[a] = row /\ row # None
      /\ \A b \in Authzs \ {a} : authz'[b] = authz[b]
  BY <1>4, <1>7 DEF IInv, TypeOK, NoneDistinct
<1>9. Draft(l) = Draft(loc[p]) \cup {a}
  BY <1>1, <1>3, <1>6 DEF Draft, Creating
<1>10. Tables' /\ Placed' /\ OrderListAgrees'
  BY <1>4, <1>8 DEF IInv, TypeOK, Tables, Placed, OrderListAgrees
<1>11. \A o \in Orders : order[o] # None => order[o].authzs \subseteq Authzs /\ a \notin order[o].authzs
  BY <1>4 DEF IInv, Rows, TypeOK, Order
<1>12. Rows'
  <2>1. \A b \in Authzs : authz'[b] # None => authz'[b].chals \subseteq chal'
    BY <1>1, <1>4, <1>7, <1>8 DEF IInv, Rows, Request, Own
  <2>2. \A b, d \in Authzs : b # d /\ authz'[b] # None /\ authz'[d] # None
                              => authz'[b].chals \cap authz'[d].chals = {}
    BY <1>1, <1>4, <1>7, <1>8, SMTT(60) DEF IInv, Rows, Request, Own
  <2>3. \A o \in Orders : order'[o] # None => \A b \in order'[o].authzs : authz'[b] # None
    BY <1>4, <1>8, <1>11, SMTT(60) DEF IInv, Rows
  <2> QED
    BY <2>1, <2>2, <2>3, <1>4 DEF IInv, Rows
<1>13. Own(l)'
  <2>1. \A b \in Draft(l) : authz'[b] # None
    BY <1>1, <1>8, <1>9 DEF Request, Own, Draft, Locals
  <2>2. \A o \in Orders : order[o] # None => order[o].authzs \cap Draft(l) = {}
    BY <1>1, <1>9, <1>11 DEF Request, Own
  <2> QED
    BY <2>1, <2>2, <1>4, <1>6 DEF Own, Draft
<1>14. Adding(l)' /\ Control(l)' /\ Rewriting(l)'
  BY <1>1, <1>2, <1>3, <1>4, <1>6 DEF Request, Adding, Control, Rewriting, Section, Creating
<1>15. ASSUME NEW m \in Locals, Request(m), Apart(loc[p], m), Apart(m, loc[p])
       PROVE  Request(m)' /\ Apart(l, m) /\ Apart(m, l)
  <2>1. a \notin Draft(m) /\ Draft(m) \subseteq Authzs
    BY <1>15, <1>4 DEF Request, Own, Draft, Locals
  <2>2. Own(m)'
    <3>1. \A b \in Authzs : authz'[b] # None => authz'[b].chals \cap m.chals = {}
      BY <1>15, <1>7, <1>8 DEF Request, Own, Apart
    <3>2. \A b \in Draft(m) : authz'[b] # None
      BY <1>15, <1>8, <2>1 DEF Request, Own
    <3> QED
      BY <3>1, <3>2, <1>15, <1>4 DEF Request, Own, Draft
  <2>3. Adding(m)' /\ Control(m)' /\ Rewriting(m)'
    BY <1>15, <1>4 DEF Request, Adding, Control, Rewriting
  <2> QED
    BY <2>1, <2>2, <2>3, <1>15, <1>6, <1>9 DEF Request, Apart
<1>16. l.pc \notin Section /\ loc[p].pc \notin Section
  BY <1>1, <1>3, <1>6 DEF Section, Creating
<1>17. Request(l)' /\ loc' = [loc EXCEPT ![p] = l]
  BY <1>4, <1>6, <1>13, <1>14 DEF Request
<1> QED
  BY <1>4, <1>10, <1>12, <1>15, <1>16, <1>17, LocalStep

\* A new order takes over the draft of its request; an ID without a row is in no
\* list and of no other request.
LEMMA CreateOrderKeeps ==
  ASSUME NoneDistinct, IInv, NEW p \in Procs, NEW o \in Orders, CreateOrder(p, o)
  PROVE  IInv'
<1> DEFINE next == [loc[p] EXCEPT !.oid = o, !.pc = "Lock"]
           row == [acc |-> loc[p].acc, authzs |-> loc[p].authzs]
<1>1. /\ loc[p] \in Locals /\ Request(loc[p]) /\ loc[p].pc = "CreateOrder"
      /\ loc \in [Procs -> Locals]
  BY OwnRequest DEF CreateOrder, At, IInv, TypeOK
<1>2. loc[p].acc \in Accounts /\ loc[p].new = <<>> /\ Draft(loc[p]) = loc[p].authzs
      /\ loc[p].authzs \subseteq Authzs
  BY <1>1 DEF Request, Control, Locals, Section, Draft, Creating
<1>3. /\ loc' = [loc EXCEPT ![p] = next] /\ mux' = mux /\ order[o] = None
      /\ order' = [order EXCEPT ![o] = row] /\ open' = open \cup {o}
      /\ UNCHANGED <<authz, chal, list, placed>>
  BY <1>1 DEF CreateOrder
<1>4. /\ next \in Locals /\ next.pc = "Lock" /\ next.acc = loc[p].acc
      /\ next.chals = loc[p].chals /\ next.oid = o /\ next.new = loc[p].new
  <2>1. next \in Locals
    BY <1>1 DEF Locals, Labels
  <2> QED
    BY <1>1, <2>1 DEF Locals
<1> HIDE DEF next
<1>5. PICK l \in Locals :
        /\ l = next /\ l.pc = "Lock" /\ l.acc = loc[p].acc
        /\ l.chals = loc[p].chals /\ l.oid = o /\ l.new = loc[p].new
  BY <1>4
<1>6. row \in Order /\ row.acc = loc[p].acc /\ row.authzs = loc[p].authzs
  BY <1>2 DEF Order
<1> HIDE DEF row
<1>7. /\ order' \in [Orders -> Order \cup {None}] /\ order'[o] = row /\ row # None
      /\ \A q \in Orders \ {o} : order'[q] = order[q]
  BY <1>3, <1>6 DEF IInv, TypeOK, NoneDistinct
<1>8. Draft(l) = {}
  BY <1>5 DEF Draft, Creating
<1>9. o \notin placed /\ \A acc \in Accounts : o \notin Range(list[acc])
  BY <1>3 DEF IInv, Placed, OrderListAgrees
<1>10. Tables' /\ Placed'
  BY <1>3, <1>7, <1>9 DEF IInv, TypeOK, Tables, Placed
<1>11. OrderListAgrees'
  <2>1. \A acc \in Accounts, q \in Orders :
          q \in Range(list[acc]) => order'[q] # None /\ order'[q].acc = acc
    BY <1>7, <1>9, SMTT(60) DEF IInv, OrderListAgrees
  <2>2. \A q \in placed \cap open' : q \in Range(list[order'[q].acc])
    BY <1>3, <1>7, <1>9, SMTT(60) DEF IInv, OrderListAgrees, TypeOK
  <2> QED
    BY <2>1, <2>2, <1>3 DEF OrderListAgrees
<1>12. Rows'
  <2>0. /\ \A b \in row.authzs : authz[b] # None
        /\ \A q \in Orders : order[q] # None => order[q].authzs \cap row.authzs = {}
    BY <1>1, <1>2, <1>6 DEF Request, Own
  <2>1. \A q \in Orders : order'[q] # None => \A b \in order'[q].authzs : authz[b] # None
    BY <1>7, <2>0 DEF IInv, Rows
  <2>2. \A q, r \in Orders : q # r /\ order'[q] # None /\ order'[r] # None
                              => order'[q].authzs \cap order'[r].authzs = {}
    <3> SUFFICES ASSUME NEW q \in Orders, NEW r \in Orders, q # r, order'[q] # None, order'[r] # None
                 PROVE  order'[q].authzs \cap order'[r].authzs = {}
      OBVIOUS
    <3>1. CASE q # o /\ r # o
      BY <1>7, <3>1 DEF IInv, Rows
    <3>2. CASE q # o /\ r = o
      BY <1>7, <2>0, <3>2
    <3>3. CASE q = o /\ r # o
      BY <1>7, <2>0, <3>3
    <3> QED BY <3>1, <3>2, <3>3
  <2> QED
    BY <2>1, <2>2, <1>3 DEF IInv, Rows
<1>13. Own(l)'
  BY <1>1, <1>3, <1>5, <1>8 DEF Request, Own, Draft
<1>14. Adding(l)'
  BY <1>3, <1>5, <1>6, <1>7, <1>9 DEF Adding
<1>15. Control(l)' /\ Rewriting(l)'
  BY <1>2, <1>5 DEF Control, Rewriting, Section
<1>16. ASSUME NEW m \in Locals, Request(m), Apart(loc[p], m), Apart(m, loc[p])
       PROVE  Request(m)' /\ Apart(l, m) /\ Apart(m, l)
  <2>1. Own(m)'
    BY <1>16, <1>2, <1>3, <1>6, <1>7 DEF Request, Own, Apart, Draft
  <2>2. m.oid # o /\ (m.oid # None => m.oid \in Orders)
    BY <1>16, <1>3 DEF Request, Adding, Locals, NoneDistinct
  <2>3. Adding(m)'
    BY <1>16, <2>2, <1>3, <1>7 DEF Request, Adding
  <2>4. Rewriting(m)'
    <3>1. m.pc \in Section => m.acc \in Accounts
      BY <1>16 DEF Request, Control, Section
    <3> QED
      BY <3>1, <1>16, <1>3, <1>9 DEF Request, Rewriting
  <2>5. Control(m)'
    BY <1>16 DEF Request, Control
  <2>6. Apart(l, m) /\ Apart(m, l)
    BY <1>16, <1>5, <1>8, <2>2 DEF Apart
  <2> QED
    BY <2>1, <2>3, <2>4, <2>5, <2>6 DEF Request
<1>17. l.pc \notin Section /\ loc[p].pc \notin Section
  BY <1>1, <1>5 DEF Section
<1>18. Request(l)' /\ loc' = [loc EXCEPT ![p] = l]
  BY <1>3, <1>5, <1>13, <1>14, <1>15 DEF Request
<1> QED
  BY <1>3, <1>10, <1>11, <1>12, <1>16, <1>17, <1>18, LocalStep

\* The order visited is kept when it is still pending, and pending no longer
\* when it is not kept.
LEMMA UpdateStatusKeeps ==
  ASSUME NoneDistinct, IInv, NEW p \in Procs, UpdateStatus(p)
  PROVE  IInv'
<1>1. /\ loc[p] \in Locals /\ Request(loc[p]) /\ loc[p].pc = "UpdateStatus"
      /\ loc \in [Procs -> Locals] /\ mux = p
  BY OwnRequest DEF UpdateStatus, At, IInv, TypeOK, Section
<1>2. PICK pending \in BOOLEAN :
        /\ open' = IF pending THEN open ELSE open \ {Head(loc[p].todo)}
        /\ loc' = [loc EXCEPT
             ![p].new = IF pending THEN Append(@, Head(loc[p].todo)) ELSE @,
             ![p].todo = Tail(@),
             ![p].pc = IF Len(loc[p].todo) = 1 THEN "save" ELSE "GetOrder"]
        /\ UNCHANGED <<order, authz, chal, list, mux, placed>>
  BY DEF UpdateStatus
<1> DEFINE o == Head(loc[p].todo)
           todo == Tail(loc[p].todo)
           new == IF pending THEN Append(loc[p].new, o) ELSE loc[p].new
           label == IF Len(loc[p].todo) = 1 THEN "save" ELSE "GetOrder"
           next == [loc[p] EXCEPT !.new = new, !.todo = todo, !.pc = label]
<1>3. /\ loc[p].todo # <<>> /\ loc[p].todo \in Seq(Orders) /\ loc[p].new \in Seq(Orders)
      /\ loc[p].old \in Seq(Orders) /\ loc[p].acc \in Accounts
  BY <1>1 DEF Request, Control, Locals
<1>4. /\ o \in Orders /\ todo \in Seq(Orders) /\ Range(loc[p].todo) = {o} \cup Range(todo)
  BY <1>3, RangeFacts
<1>5. /\ new \in Seq(Orders)
      /\ Range(new) = IF pending THEN Range(loc[p].new) \cup {o} ELSE Range(loc[p].new)
  <2>1. CASE pending
    BY <2>1, <1>3, <1>4, RangeFacts, SMTT(60)
  <2>2. CASE ~pending
    BY <2>2, <1>3
  <2> QED
    BY <2>1, <2>2
<1>6. /\ label \in {"save", "GetOrder"} /\ (label = "save" => todo = <<>>)
      /\ label = "GetOrder" => todo # <<>>
  BY <1>3, RangeFacts
<1>7. loc' = [loc EXCEPT ![p] = next]
  BY <1>1, <1>2
<1> HIDE DEF o, todo, new, label
<1>8. /\ next \in Locals /\ next.pc = label /\ next.acc = loc[p].acc
      /\ next.chals = loc[p].chals /\ next.oid = loc[p].oid /\ next.old = loc[p].old
      /\ next.todo = todo /\ next.new = new
  <2>1. next \in Locals
    BY <1>1, <1>4, <1>5, <1>6 DEF Locals, Labels
  <2> QED
    BY <1>1, <2>1 DEF Locals
<1> HIDE DEF next
<1>9. PICK l \in Locals :
        /\ l = next /\ l.pc = label /\ l.acc = loc[p].acc /\ l.chals = loc[p].chals
        /\ l.oid = loc[p].oid /\ l.old = loc[p].old /\ l.todo = todo /\ l.new = new
  BY <1>8
<1>10. Draft(l) = {} /\ Draft(loc[p]) = {} /\ l.pc \in Section /\ loc[p].pc \in Section
  BY <1>1, <1>6, <1>9 DEF Draft, Creating, Section
<1>11. open' \subseteq open /\ (pending \/ o \notin open')
  BY <1>2 DEF o
<1>12. Tables' /\ Rows' /\ Placed' /\ OrderListAgrees'
  BY <1>2, <1>11 DEF IInv, TypeOK, Tables, Rows, Placed, OrderListAgrees
<1>13. Own(l)' /\ Adding(l)'
  BY <1>1, <1>2, <1>9, <1>10 DEF Request, Own, Adding, Draft
<1>14. Control(l)'
  BY <1>3, <1>6, <1>9 DEF Control, Section
<1>15. Rewriting(l)'
  <2>1. /\ loc[p].old = list[loc[p].acc]
        /\ Range(loc[p].new) \cup Range(loc[p].todo) \subseteq Range(loc[p].old)
        /\ open \cap Range(loc[p].old) \subseteq Range(loc[p].new) \cup Range(loc[p].todo)
    BY <1>1, <1>10 DEF Request, Rewriting
  <2>2. Range(new) \cup Range(todo) \subseteq Range(loc[p].old)
    BY <2>1, <1>4, <1>5
  <2>3. open' \cap Range(loc[p].old) \subseteq Range(new) \cup Range(todo)
    BY <2>1, <1>4, <1>5, <1>11
  <2> QED
    BY <2>1, <2>2, <2>3, <1>2, <1>9 DEF Rewriting
<1>16. ASSUME NEW m \in Locals, Request(m), Apart(loc[p], m), Apart(m, loc[p]), m.pc \notin Section
       PROVE  Request(m)' /\ Apart(l, m) /\ Apart(m, l)
  BY <1>16, <1>2, <1>9, <1>10 DEF Request, Own, Adding, Control, Rewriting, Apart, Draft
<1>17. Request(l)' /\ loc' = [loc EXCEPT ![p] = l] /\ mux' = mux
  BY <1>2, <1>7, <1>9, <1>13, <1>14, <1>15 DEF Request
<1> QED
  BY <1>1, <1>10, <1>12, <1>16, <1>17, LocalStep

\* The list written has every pending order of the one read, and the new order.
LEMMA saveKeeps ==
  ASSUME NoneDistinct, IInv, NEW p \in Procs, save(p)
  PROVE  IInv'
<1> DEFINE l == loc[p]
           acc == loc[p].acc
           oids == loc[p].new \o AddOids(loc[p])
<1>1. l \in Locals /\ Request(l) /\ l.pc = "save" /\ mux = p
  BY OwnRequest DEF save, At, Section
<1>2. /\ loc' = [loc EXCEPT ![p] = Idle] /\ mux' = None
      /\ list' = [list EXCEPT ![acc] = oids]
      /\ placed' = placed \cup Range(AddOids(l))
      /\ UNCHANGED <<order, authz, chal, open>>
  BY <1>1 DEF save, Respond
<1>3. /\ acc \in Accounts /\ l.todo = <<>> /\ l.new \in Seq(Orders) /\ l.oid \in Orders \cup {None}
      /\ l.old = list[acc] /\ Range(l.new) \subseteq Range(list[acc])
      /\ open \cap Range(list[acc]) \subseteq Range(l.new)
  BY <1>1, RangeFacts DEF Request, Control, Rewriting, Locals, Section
<1>4. /\ AddOids(l) \in Seq(Orders)
      /\ Range(AddOids(l)) = IF l.oid = None THEN {} ELSE {l.oid}
  <2>1. CASE l.oid = None
    BY <2>1, RangeFacts, SMTT(60) DEF AddOids
  <2>2. CASE l.oid # None
    BY <2>2, <1>3, RangeFacts DEF AddOids
  <2> QED
    BY <2>1, <2>2
<1>5. oids \in Seq(Orders) /\ Range(oids) = Range(l.new) \cup Range(AddOids(l))
  BY <1>3, <1>4, RangeFacts, SMTT(60)
<1> HIDE DEF oids
<1>6. /\ list' \in [Accounts -> Seq(Orders)] /\ list'[acc] = oids
      /\ \A b \in Accounts \ {acc} : list'[b] = list[b]
  BY <1>2, <1>3, <1>5 DEF IInv, TypeOK
<1>7. l.oid # None => /\ l.oid \in Orders /\ order[l.oid] # None /\ order[l.oid].acc = acc
  BY <1>1, <1>3 DEF Request, Adding
<1>8. Tables'
  BY <1>2, <1>4, <1>6, <1>7, SMTT(60) DEF IInv, TypeOK, Tables
<1>9. Rows' /\ Placed'
  BY <1>2, <1>4, <1>7 DEF IInv, Rows, Placed
<1>10. OrderListAgrees'
  <2>1. \A b \in Accounts, o \in Orders :
          o \in Range(list'[b]) => order[o] # None /\ order[o].acc = b
    <3>1. ASSUME NEW o \in Orders, o \in Range(oids) PROVE order[o] # None /\ order[o].acc = acc
      BY <3>1, <1>3, <1>4, <1>5, <1>7, SMTT(60) DEF IInv, OrderListAgrees
    <3> QED
      BY <3>1, <1>6, SMTT(60) DEF IInv, OrderListAgrees
  <2>2. ASSUME NEW o \in placed' \cap open PROVE o \in Range(list'[order[o].acc])
    <3>1. CASE o \in Range(AddOids(l))
      BY <3>1, <1>4, <1>5, <1>6, <1>7
    <3>2. CASE o \notin Range(AddOids(l))
      <4>1. o \in placed \cap open /\ o \in Orders /\ order[o] # None
        BY <3>2, <2>2, <1>2 DEF IInv, Placed, TypeOK
      <4>2. o \in Range(list[order[o].acc]) /\ order[o].acc \in Accounts
        BY <4>1 DEF IInv, OrderListAgrees, TypeOK, Order
      <4>3. CASE order[o].acc = acc
        BY <4>1, <4>2, <4>3, <1>3, <1>5, <1>6
      <4>4. CASE order[o].acc # acc
        BY <4>2, <4>4, <1>6
      <4> QED
        BY <4>3, <4>4
    <3> QED
      BY <3>1, <3>2
  <2> QED
    BY <2>1, <2>2, <1>2 DEF OrderListAgrees
<1>11. ASSUME NEW m \in Locals, Request(m), Apart(l, m), Apart(m, l), m.pc \notin Section
       PROVE  Request(m)'
  <2>1. Own(m)' /\ Control(m)' /\ Rewriting(m)'
    BY <1>11, <1>2 DEF Request, Own, Control, Rewriting, Draft
  <2>2. ASSUME m.oid # None
        PROVE  m.oid \notin placed' /\ \A b \in Accounts : m.oid \notin Range(list'[b])
    <3>1. /\ m.oid # l.oid /\ m.oid \notin placed
          /\ \A b \in Accounts : m.oid \notin Range(list[b])
      BY <1>11, <2>2 DEF Apart, Request, Adding
    <3>2. m.oid \notin Range(AddOids(l))
      BY <3>1, <1>4
    <3> QED
      BY <3>1, <3>2, <1>2, <1>3, <1>5, <1>6
  <2>3. Adding(m)'
    BY <1>11, <2>2, <1>2 DEF Request, Adding
  <2> QED
    BY <2>1, <2>3 DEF Request
<1>12. Idle.pc \notin Section
  BY IdleRequest DEF Section
<1> QED
  BY <1>1, <1>2, <1>8, <1>9, <1>10, <1>11, <1>12, IdleRequest, LocalStep

\* The order deleted after a failed save is in no list and of no other request.
LEMMA saveFailsKeeps ==
  ASSUME NoneDistinct, IInv, NEW p \in Procs, saveFails(p)
  PROVE  IInv'
<1> DEFINE l == loc[p]
<1>1. l \in Locals /\ Request(l) /\ l.pc = "save" /\ mux = p
  BY OwnRequest DEF saveFails, At, Section
<1>2. /\ loc' = [loc EXCEPT ![p] = Idle] /\ mux' = None
      /\ UNCHANGED <<authz, chal, list, placed>>
  BY <1>1 DEF saveFails, Respond
<1>3. /\ order' \in [Orders -> Order \cup {None}]
      /\ \A o \in Orders : order'[o] = order[o] \/ (o = l.oid /\ order'[o] = None)
  BY SMTT(60) DEF saveFails, IInv, TypeOK
<1>4. open' \subseteq open
  BY DEF saveFails
<1>5. \A o \in Orders : o = l.oid => o \notin placed /\ \A acc \in Accounts : o \notin Range(list[acc])
  BY <1>1 DEF Request, Adding, NoneDistinct
<1>6. Tables' /\ Placed'
  BY <1>2, <1>3, <1>4, <1>5 DEF IInv, TypeOK, Tables, Placed
<1>7. Rows'
  BY <1>2, <1>3 DEF IInv, Rows
<1>8. OrderListAgrees'
  <2>1. \A acc \in Accounts, o \in Orders :
          o \in Range(list[acc]) => order'[o] # None /\ order'[o].acc = acc
    BY <1>3, <1>5 DEF IInv, OrderListAgrees
  <2>2. \A o \in placed \cap open' : o \in Range(list[order'[o].acc])
    BY <1>3, <1>4, <1>5 DEF IInv, OrderListAgrees, TypeOK
  <2> QED
    BY <2>1, <2>2, <1>2 DEF OrderListAgrees
<1>9. ASSUME NEW m \in Locals, Request(m), Apart(l, m), Apart(m, l), m.pc \notin Section
      PROVE  Request(m)'
  <2>1. Own(m)'
    BY <1>9, <1>2, <1>3 DEF Request, Own, Draft
  <2>2. m.oid # None => m.oid \in Orders /\ m.oid # l.oid
    BY <1>9 DEF Apart, Locals
  <2>3. Adding(m)'
    BY <1>9, <2>2, <1>2, <1>3 DEF Request, Adding
  <2>4. Control(m)' /\ Rewriting(m)'
    BY <1>9 DEF Request, Control, Rewriting
  <2> QED
    BY <2>1, <2>3, <2>4 DEF Request
<1>10. Idle.pc \notin Section
  BY IdleRequest DEF Section
<1> QED
  BY <1>1, <1>2, <1>6, <1>7, <1>8, <1>9, <1>10, IdleRequest, LocalStep

\* An order that leaves pending needs no place in a list.
LEMMA SettleKeeps ==
  ASSUME NoneDistinct, IInv, NEW o \in Orders, Settle(o)
  PROVE  IInv'
<1>1. open' \subseteq open /\ UNCHANGED <<order, authz, chal, list, mux, placed, loc>>
  BY DEF Settle
<1>2. TypeOK' /\ Rows' /\ Placed' /\ OrderListAgrees' /\ Locked' /\ Separate'
  BY <1>1 DEF IInv, TypeOK, Rows, Placed, OrderListAgrees, Locked, Separate
<1>3. ASSUME NEW p \in Procs PROVE Request(loc[p])'
  <2>1. Request(loc[p])
    BY DEF IInv
  <2> QED
    BY <2>1, <1>1 DEF Request, Own, Adding, Control, Rewriting, Draft
<1> QED
  BY <1>2, <1>3 DEF IInv

\* A step that changes nothing.
LEMMA StutterKeeps ==
  ASSUME IInv, UNCHANGED vars
  PROVE  IInv'
<1>1. UNCHANGED <<order, authz, chal, list, mux, open, placed, loc>>
  BY DEF vars
<1>2. TypeOK' /\ Rows' /\ Placed' /\ OrderListAgrees' /\ Locked' /\ Separate'
  BY <1>1 DEF IInv, TypeOK, Rows, Placed, OrderListAgrees, Locked, Separate
<1>3. ASSUME NEW p \in Procs PROVE Request(loc[p])'
  <2>1. Request(loc[p])
    BY DEF IInv
  <2> QED
    BY <2>1, <1>1 DEF Request, Own, Adding, Control, Rewriting, Draft
<1> QED
  BY <1>2, <1>3 DEF IInv

\* Every step keeps the invariant.
LEMMA NextKeeps ==
  ASSUME NoneDistinct, IInv, [Next]_vars
  PROVE  IInv'
<1>1. CASE UNCHANGED vars
  BY <1>1, StutterKeeps
<1>2. ASSUME NEW p \in Procs, Step(p) PROVE IInv'
  BY <1>2, CreateChallengeKeeps, CreateAuthorizationKeeps, CreateOrderKeeps, GetOrderKeeps,
     UpdateStatusKeeps, saveKeeps, saveFailsKeeps, FailKeeps DEF Step
<1>3. ASSUME NEW p \in Procs, Lock(p) PROVE IInv'
  BY <1>3, LockKeeps
<1>4. ASSUME NEW o \in Orders, Settle(o) PROVE IInv'
  BY <1>4, SettleKeeps
<1>5. ASSUME NEW p \in Procs, NEW acc \in Accounts, NEW n \in 1 .. MaxIdentifiers,
             NEW types \in 0 .. MaxChallenges, NewOrder(p, acc, n, types)
      PROVE  IInv'
  BY <1>5, NewOrderKeeps
<1>6. ASSUME NEW p \in Procs, NEW acc \in Accounts, GetOrdersByAccountID(p, acc) PROVE IInv'
  BY <1>6, GetOrdersKeeps
<1> QED
  BY <1>1, <1>2, <1>3, <1>4, <1>5, <1>6 DEF Next

-----------------------------------------------------------------------------
(* The theorems.                                                            *)

\* The inductive invariant holds, for any number of requests at the same time.
THEOREM Invariance ==
  ASSUME NoneDistinct
  PROVE  Spec => []IInv
<1>1. Init => IInv
  BY InitIInv
<1>2. IInv /\ [Next]_vars => IInv'
  BY NextKeeps
<1> QED
  BY <1>1, <1>2, PTL DEF Spec

\* Every stored order is whole and shares nothing with another one, wherever
\* NewOrder and newAuthorization stopped.
THEOREM OrdersComplete ==
  ASSUME NoneDistinct
  PROVE  Spec => []StoredOrderComplete
<1>1. IInv => StoredOrderComplete
  BY DEF IInv, TypeOK, Order, Rows, StoredOrderComplete
<1>2. Spec => []IInv
  BY Invariance
<1> QED
  BY <1>1, <1>2, PTL

\* The list of an account has stored orders of the account only, and every
\* pending one that was answered (updateAddOrderIDs under ordersByAccountMux).
THEOREM ListsAgree ==
  ASSUME NoneDistinct
  PROVE  Spec => []OrderListAgrees
<1>1. IInv => OrderListAgrees
  BY DEF IInv
<1>2. Spec => []IInv
  BY Invariance
<1> QED
  BY <1>1, <1>2, PTL

-----------------------------------------------------------------------------
(* External account keys.                                                    *)

\* Every key was stored under an ID that randID returned.
UsedIDs == created \subseteq used /\ \A k \in KeyIDs : key[k] # None => k \in used

\* The key an operation creates is stored with its provisioner and reference, and
\* listed once its ID has been added.
KeyStored ==
  /\ op.pc \in {"addEAKID", "saveReference"} =>
       /\ op.id \in KeyIDs /\ op.prov \in Provs
       /\ key[op.id] # None /\ key[op.id].prov = op.prov /\ key[op.id].ref = op.ref
  /\ op.pc = "saveReference" => op.ref \in Refs /\ op.id \in keyList[op.prov]

\* No reference leads to the key an operation is about to delete, and the ID it
\* takes off the list is that of no stored key.
KeyUnreferenced ==
  /\ op.pc = "deleteKey" =>
       /\ op.id \in KeyIDs /\ op.prov \in Provs
       /\ \A v \in Provs, r \in Refs : refIndex[<<v, r>>] # op.id
  /\ op.pc = "deleteEAKID" => op.id \in KeyIDs /\ op.prov \in Provs /\ key[op.id] = None

KeyIInv ==
  /\ Keys!TypeOK /\ UsedIDs /\ KeyStored /\ KeyUnreferenced
  /\ Keys!ReferenceLeadsToKey /\ Keys!CreatedKeyListed

\* The tables are empty at first.
LEMMA KeyInitIInv ==
  ASSUME KeyNoneDistinct, Keys!Init
  PROVE  KeyIInv
BY DEF KeyNoneDistinct, Keys!Init, KeyIInv, Keys!TypeOK, Keys!Labels, Keys!Idle,
   UsedIDs, KeyStored, KeyUnreferenced,
       Keys!ReferenceLeadsToKey, Keys!CreatedKeyListed

\* A reference names a stored key, which is then among the used ones.
LEMMA ReferencedIsUsed ==
  ASSUME KeyNoneDistinct, KeyIInv, NEW v \in Provs, NEW r \in Refs,
     refIndex[<<v, r>>] # None
  PROVE  /\ refIndex[<<v, r>>] \in KeyIDs
         /\ key[refIndex[<<v, r>>]] \in Keys!Key
         /\ key[refIndex[<<v, r>>]].prov = v /\ key[refIndex[<<v, r>>]].ref = r
         /\ refIndex[<<v, r>>] \in used
<1>1. refIndex[<<v, r>>] \in KeyIDs
  BY DEF KeyIInv, Keys!TypeOK
<1> QED
  BY <1>1, SMTT(60) DEF KeyIInv, Keys!TypeOK, UsedIDs, Keys!ReferenceLeadsToKey

\* CreateExternalAccountKey stores a key under an ID that was never used.
LEMMA CreateKeyKeeps ==
  ASSUME KeyNoneDistinct, KeyIInv, NEW k \in KeyIDs, NEW v \in Provs,
     NEW r \in Refs \cup {None},
         Keys!CreateExternalAccountKey(k, v, r)
  PROVE  KeyIInv'
<1> DEFINE new == [prov |-> v, ref |-> r, acc |-> None]
<1>1. new \in Keys!Key /\ new # None
  BY SMTT(60) DEF Keys!Key, KeyNoneDistinct
<1>2. /\ key' \in [KeyIDs -> Keys!Key \cup {None}] /\ key'[k] = new
      /\ \A j \in KeyIDs \ {k} : key'[j] = key[j]
  BY <1>1 DEF Keys!CreateExternalAccountKey, KeyIInv, Keys!TypeOK
<1>3. Keys!TypeOK'
  BY <1>2 DEF Keys!CreateExternalAccountKey, Keys!index, KeyIInv, Keys!TypeOK,
     Keys!Labels
<1>4. UsedIDs' /\ KeyStored' /\ KeyUnreferenced'
  BY <1>1, <1>2 DEF Keys!CreateExternalAccountKey, KeyIInv, UsedIDs,
     KeyStored, KeyUnreferenced
<1>5. Keys!ReferenceLeadsToKey'
  <2> SUFFICES ASSUME NEW w \in Provs, NEW s \in Refs, refIndex[<<w, s>>] # None
               PROVE  LET i == refIndex[<<w, s>>]
                      IN  key'[i] # None /\ key'[i].prov = w /\ key'[i].ref = s
    BY SMTT(60) DEF Keys!ReferenceLeadsToKey, Keys!CreateExternalAccountKey
  <2>1. refIndex[<<w, s>>] \in KeyIDs \ {k}
    BY ReferencedIsUsed, SMTT(60) DEF Keys!CreateExternalAccountKey
  <2> QED
    BY <1>2, <2>1, SMTT(60) DEF KeyIInv, Keys!ReferenceLeadsToKey
<1>6. Keys!CreatedKeyListed'
  BY <1>2, SMTT(60) DEF Keys!CreateExternalAccountKey, Keys!index, KeyIInv, Keys!TypeOK, UsedIDs,
     Keys!CreatedKeyListed
<1> QED
  BY <1>3, <1>4, <1>5, <1>6 DEF KeyIInv

\* addEAKID lists the key that was stored before.
LEMMA KeyAddKeeps ==
  ASSUME KeyNoneDistinct, KeyIInv, Keys!addEAKID
  PROVE  KeyIInv'
<1>1. /\ op.id \in KeyIDs /\ op.prov \in Provs /\ op.ref \in Refs \cup {None}
      /\ key[op.id] # None /\ key[op.id].prov = op.prov /\ key[op.id].ref = op.ref
  BY DEF Keys!addEAKID, Keys!At, KeyIInv, Keys!TypeOK, KeyStored
<1>2. /\ keyList' \in [Provs -> SUBSET KeyIDs] /\ rows' \subseteq Provs
      /\ \A v \in Provs : keyList[v] \subseteq keyList'[v]
      /\ op'.pc # "saveReference" \/ op.id \in keyList'[op.prov]
      /\ created' = created \/ (created' = created \cup {op.id} /\ op.id \in keyList'[op.prov])
  <2>1. keyList \in [Provs -> SUBSET KeyIDs] /\ rows \subseteq Provs
    BY DEF KeyIInv, Keys!TypeOK
  <2>2. CASE Keys!saveList(op.prov, keyList[op.prov] \cup {op.id})
    <3>1. /\ keyList' = [keyList EXCEPT ![op.prov] = keyList[op.prov] \cup {op.id}]
          /\ rows' = rows \cup {op.prov}
      BY <2>2 DEF Keys!saveList
    <3>2. created' = created \/ created' = created \cup {op.id}
      BY DEF Keys!addEAKID
    <3> QED
      BY <1>1, <2>1, <3>1, <3>2
  <2>3. CASE Keys!saveListFails(op.prov) /\ Keys!Return /\ UNCHANGED created
    BY <2>1, <2>3 DEF Keys!saveListFails, Keys!index, Keys!Return, Keys!Idle
  <2> QED
    BY <2>2, <2>3 DEF Keys!addEAKID
<1>3. /\ op' = Keys!Idle \/ (op' = [op EXCEPT !.pc = "saveReference"] /\ op.ref # None)
      /\ UNCHANGED <<key, refIndex, used>>
  BY DEF Keys!addEAKID, Keys!Return, Keys!Goto
<1>4. Keys!TypeOK'
  <2>1. conflict' \in BOOLEAN
    <3>1. conflict \in BOOLEAN
      BY DEF KeyIInv, Keys!TypeOK
    <3> QED
      BY <3>1 DEF Keys!addEAKID
  <2>2. op' \in [pc: Keys!Labels, id: KeyIDs \cup {None}, prov: Provs \cup {None},
                 ref: Refs \cup {None}]
    BY <1>3, SMTT(60) DEF KeyIInv, Keys!TypeOK, Keys!Labels, Keys!Idle
  <2>3. created' \subseteq KeyIDs
    BY <1>1, <1>2 DEF KeyIInv, Keys!TypeOK
  <2> QED
    BY <1>2, <1>3, <2>1, <2>2, <2>3 DEF KeyIInv, Keys!TypeOK
<1>5. UsedIDs' /\ KeyStored' /\ KeyUnreferenced'
  BY <1>1, <1>2, <1>3, SMTT(60) DEF KeyIInv, Keys!TypeOK, UsedIDs, KeyStored, KeyUnreferenced,
     Keys!Idle
<1>6. Keys!ReferenceLeadsToKey'
  BY <1>3 DEF KeyIInv, Keys!ReferenceLeadsToKey
<1>7. Keys!CreatedKeyListed'
  <2> SUFFICES ASSUME NEW k \in created', key[k] # None
               PROVE  k \in keyList'[key[k].prov]
    BY <1>3 DEF Keys!CreatedKeyListed
  <2>1. CASE k \in created
    <3>1. key[k] \in Keys!Key /\ key[k].prov \in Provs /\ k \in keyList[key[k].prov]
      BY <2>1 DEF KeyIInv, Keys!TypeOK, Keys!CreatedKeyListed, Keys!Key
    <3> QED
      BY <3>1, <1>2
  <2>2. CASE k = op.id /\ op.id \in keyList'[op.prov]
    BY <2>2, <1>1
  <2> QED
    BY <1>2, <2>1, <2>2
<1> QED
  BY <1>4, <1>5, <1>6, <1>7 DEF KeyIInv

\* saveReference lets a reference lead to the key that was stored and listed.
LEMMA SaveReferenceKeeps ==
  ASSUME KeyNoneDistinct, KeyIInv, Keys!saveReference
  PROVE  KeyIInv'
<1>1. /\ op.id \in KeyIDs /\ op.prov \in Provs /\ op.ref \in Refs /\ op.id \in keyList[op.prov]
      /\ key[op.id] # None /\ key[op.id].prov = op.prov /\ key[op.id].ref = op.ref
  BY DEF Keys!saveReference, Keys!At, KeyIInv, KeyStored
<1>2. /\ op' = Keys!Idle /\ UNCHANGED <<key, keyList, rows, used, conflict>>
      /\ created' = created \/ created' = created \cup {op.id}
      /\ refIndex' = refIndex \/ refIndex' = [refIndex EXCEPT ![<<op.prov, op.ref>>] = op.id]
  BY DEF Keys!saveReference, Keys!Return, Keys!index
<1>3. Keys!TypeOK'
  BY <1>1, <1>2 DEF KeyIInv, Keys!TypeOK, Keys!Labels, Keys!Idle
<1>4. UsedIDs' /\ KeyStored' /\ KeyUnreferenced'
  BY <1>1, <1>2 DEF KeyIInv, UsedIDs, KeyStored, KeyUnreferenced, Keys!Idle
<1>5. Keys!ReferenceLeadsToKey'
  <2> SUFFICES ASSUME NEW w \in Provs, NEW s \in Refs, refIndex'[<<w, s>>] # None
               PROVE  LET i == refIndex'[<<w, s>>]
                      IN  key[i] # None /\ key[i].prov = w /\ key[i].ref = s
    BY <1>2, SMTT(60) DEF Keys!ReferenceLeadsToKey
  <2>1. CASE refIndex'[<<w, s>>] = refIndex[<<w, s>>]
    BY <2>1, SMTT(60) DEF KeyIInv, Keys!ReferenceLeadsToKey
  <2>2. CASE w = op.prov /\ s = op.ref /\ refIndex'[<<w, s>>] = op.id
    BY <2>2, <1>1
  <2> QED
    BY <1>2, <2>1, <2>2 DEF KeyIInv, Keys!TypeOK
<1>6. Keys!CreatedKeyListed'
  BY <1>1, <1>2 DEF KeyIInv, Keys!CreatedKeyListed
<1> QED
  BY <1>3, <1>4, <1>5, <1>6 DEF KeyIInv

\* DeleteExternalAccountKey deletes the only reference that can lead to the key.
LEMMA DeleteExternalKeeps ==
  ASSUME KeyNoneDistinct, KeyIInv, NEW k \in KeyIDs, NEW v \in Provs,
     Keys!DeleteExternalAccountKey(k, v)
  PROVE  KeyIInv'
<1>1. key[k] \in Keys!Key /\ key[k] # None /\ key[k].prov = v /\ key[k].ref \in Refs \cup {None}
  BY DEF Keys!DeleteExternalAccountKey, KeyIInv, Keys!TypeOK, Keys!Key
<1>2. /\ refIndex' \in [Provs \X Refs -> KeyIDs \cup {None}]
      /\ \A w \in Provs, s \in Refs :
           refIndex'[<<w, s>>] = IF w = v /\ s = key[k].ref THEN None ELSE refIndex[<<w, s>>]
  BY <1>1 DEF Keys!DeleteExternalAccountKey, KeyIInv, Keys!TypeOK, KeyNoneDistinct
<1>3. Keys!TypeOK'
  BY <1>2 DEF Keys!DeleteExternalAccountKey, KeyIInv, Keys!TypeOK, Keys!Labels,
     Keys!index
<1>4. \A w \in Provs, s \in Refs : refIndex'[<<w, s>>] # k
  <2> SUFFICES ASSUME NEW w \in Provs, NEW s \in Refs, refIndex'[<<w, s>>] = k
               PROVE  FALSE
    OBVIOUS
  <2>1. k # None
    BY DEF KeyNoneDistinct
  <2>2. refIndex[<<w, s>>] = k /\ ~(w = v /\ s = key[k].ref)
    BY <1>2, <2>1
  <2>3. key[k].prov = w /\ key[k].ref = s
    BY <2>1, <2>2, SMTT(60) DEF KeyIInv, Keys!ReferenceLeadsToKey
  <2> QED
    BY <1>1, <2>2, <2>3
<1>5. UsedIDs' /\ KeyStored' /\ KeyUnreferenced'
  BY <1>4 DEF Keys!DeleteExternalAccountKey, KeyIInv, UsedIDs, KeyStored,
     KeyUnreferenced
<1>6. Keys!ReferenceLeadsToKey'
  BY <1>2, SMTT(60) DEF Keys!DeleteExternalAccountKey, KeyIInv, Keys!ReferenceLeadsToKey
<1>7. Keys!CreatedKeyListed'
  BY DEF Keys!DeleteExternalAccountKey, Keys!index, KeyIInv, Keys!CreatedKeyListed
<1> QED
  BY <1>3, <1>5, <1>6, <1>7 DEF KeyIInv

\* deleteKey deletes a key that no reference leads to any more.
LEMMA DeleteKeyRowKeeps ==
  ASSUME KeyNoneDistinct, KeyIInv, Keys!deleteKey
  PROVE  KeyIInv'
<1>1. /\ op.id \in KeyIDs /\ op.prov \in Provs
      /\ \A v \in Provs, r \in Refs : refIndex[<<v, r>>] # op.id
  BY DEF Keys!deleteKey, Keys!At, KeyIInv, KeyUnreferenced
<1>2. /\ key' \in [KeyIDs -> Keys!Key \cup {None}] /\ key'[op.id] = None
      /\ \A j \in KeyIDs \ {op.id} : key'[j] = key[j]
      /\ op' = [op EXCEPT !.pc = "deleteEAKID"]
  BY <1>1 DEF Keys!deleteKey, Keys!Goto, KeyIInv, Keys!TypeOK
<1>3. Keys!TypeOK'
  BY <1>2 DEF Keys!deleteKey, Keys!index, KeyIInv, Keys!TypeOK, Keys!Labels
<1>4. UsedIDs'
  BY <1>2 DEF Keys!deleteKey, KeyIInv, UsedIDs
<1>5. KeyStored' /\ KeyUnreferenced'
  BY <1>1, <1>2 DEF KeyIInv, Keys!TypeOK, KeyStored, KeyUnreferenced
<1>6. Keys!ReferenceLeadsToKey'
  <2> SUFFICES ASSUME NEW w \in Provs, NEW s \in Refs, refIndex[<<w, s>>] # None
               PROVE  LET i == refIndex[<<w, s>>]
                      IN  key'[i] # None /\ key'[i].prov = w /\ key'[i].ref = s
    BY SMTT(60) DEF Keys!ReferenceLeadsToKey, Keys!deleteKey
  <2>1. refIndex[<<w, s>>] \in KeyIDs \ {op.id}
    BY <1>1, ReferencedIsUsed
  <2> QED
    BY <1>2, <2>1, SMTT(60) DEF KeyIInv, Keys!ReferenceLeadsToKey
<1>7. Keys!CreatedKeyListed'
  BY <1>2 DEF Keys!deleteKey, Keys!index, KeyIInv, Keys!TypeOK,
     Keys!CreatedKeyListed
<1> QED
  BY <1>3, <1>4, <1>5, <1>6, <1>7 DEF KeyIInv

\* deleteEAKID takes only the ID of the deleted key off the list.
LEMMA KeyDeleteIDKeeps ==
  ASSUME KeyNoneDistinct, KeyIInv, Keys!deleteEAKID
  PROVE  KeyIInv'
<1>1. op.id \in KeyIDs /\ op.prov \in Provs /\ key[op.id] = None
  BY DEF Keys!deleteEAKID, Keys!At, KeyIInv, KeyUnreferenced
<1>2. /\ keyList' \in [Provs -> SUBSET KeyIDs] /\ rows' \subseteq Provs
      /\ \A v \in Provs : keyList[v] \ {op.id} \subseteq keyList'[v]
      /\ op' = Keys!Idle /\ UNCHANGED <<key, refIndex, created, used>>
      /\ conflict' \in BOOLEAN
  <2>1. keyList \in [Provs -> SUBSET KeyIDs] /\ rows \subseteq Provs /\ conflict \in BOOLEAN
    BY DEF KeyIInv, Keys!TypeOK
  <2>2. ASSUME Keys!saveList(op.prov, keyList[op.prov] \ {op.id})
        PROVE  /\ keyList' \in [Provs -> SUBSET KeyIDs] /\ rows' \subseteq Provs
               /\ \A v \in Provs : keyList[v] \ {op.id} \subseteq keyList'[v]
    BY <1>1, <2>1, <2>2 DEF Keys!saveList
  <2>3. ASSUME Keys!saveListFails(op.prov)
        PROVE  /\ keyList' \in [Provs -> SUBSET KeyIDs] /\ rows' \subseteq Provs
               /\ \A v \in Provs : keyList[v] \ {op.id} \subseteq keyList'[v]
    BY <2>1, <2>3 DEF Keys!saveListFails, Keys!index
  <2>4. op' = Keys!Idle /\ UNCHANGED <<key, refIndex, created, used>>
    BY DEF Keys!deleteEAKID, Keys!Return
  <2>5. conflict' \in BOOLEAN
    BY <2>1 DEF Keys!deleteEAKID
  <2>6. Keys!saveList(op.prov, keyList[op.prov] \ {op.id}) \/ Keys!saveListFails(op.prov)
    BY DEF Keys!deleteEAKID
  <2> QED
    BY <2>2, <2>3, <2>4, <2>5, <2>6
<1>3. Keys!TypeOK'
  BY <1>2 DEF KeyIInv, Keys!TypeOK, Keys!Labels, Keys!Idle
<1>4. UsedIDs' /\ KeyStored' /\ KeyUnreferenced' /\ Keys!ReferenceLeadsToKey'
  BY <1>2, SMTT(60) DEF KeyIInv, UsedIDs, KeyStored, KeyUnreferenced, Keys!ReferenceLeadsToKey,
     Keys!Idle
<1>5. Keys!CreatedKeyListed'
  <2> SUFFICES ASSUME NEW k \in created, key[k] # None
               PROVE  k \in keyList'[key[k].prov]
    BY <1>2 DEF Keys!CreatedKeyListed
  <2>1. key[k].prov \in Provs /\ k \in keyList[key[k].prov] /\ k # op.id
    BY <1>1 DEF KeyIInv, Keys!TypeOK, Keys!CreatedKeyListed, Keys!Key
  <2> QED
    BY <1>2, <2>1
<1> QED
  BY <1>3, <1>4, <1>5 DEF KeyIInv

\* UpdateExternalAccountKey keeps the provisioner and the reference of a key.
LEMMA UpdateKeyKeeps ==
  ASSUME KeyNoneDistinct, KeyIInv, NEW k \in KeyIDs, NEW v \in Provs,
     NEW a \in KeyAccounts,
         Keys!UpdateExternalAccountKey(k, v, a)
  PROVE  KeyIInv'
<1>1. /\ key[k] \in Keys!Key /\ key[k] # None
      /\ key' = [key EXCEPT ![k] = [key[k] EXCEPT !.acc = a]]
  BY DEF Keys!UpdateExternalAccountKey, KeyIInv, Keys!TypeOK
<1>2. LET new == [key[k] EXCEPT !.acc = a]
      IN  new \in Keys!Key /\ new # None /\ new.prov = key[k].prov /\ new.ref = key[k].ref
  BY <1>1 DEF Keys!Key, KeyNoneDistinct
<1>3. /\ key' \in [KeyIDs -> Keys!Key \cup {None}]
      /\ \A j \in KeyIDs : /\ key'[j] = None <=> key[j] = None
                           /\ key[j] # None => key'[j].prov = key[j].prov /\ key'[j].ref = key[j].ref
  BY <1>1, <1>2 DEF KeyIInv, Keys!TypeOK
<1>4. UNCHANGED <<refIndex, keyList, rows, op, created, used>> /\ conflict' = FALSE
  BY DEF Keys!UpdateExternalAccountKey, Keys!index
<1>5. Keys!TypeOK' /\ UsedIDs' /\ KeyStored' /\ KeyUnreferenced'
  BY <1>3, <1>4 DEF KeyIInv, Keys!TypeOK, UsedIDs, KeyStored, KeyUnreferenced
<1>6. Keys!ReferenceLeadsToKey'
  <2> SUFFICES ASSUME NEW w \in Provs, NEW s \in Refs, refIndex[<<w, s>>] # None
               PROVE  LET i == refIndex[<<w, s>>]
                      IN  key'[i] # None /\ key'[i].prov = w /\ key'[i].ref = s
    BY <1>4, SMTT(60) DEF Keys!ReferenceLeadsToKey
  <2>1. refIndex[<<w, s>>] \in KeyIDs
    BY DEF KeyIInv, Keys!TypeOK
  <2> QED
    BY <1>3, <2>1, SMTT(60) DEF KeyIInv, Keys!ReferenceLeadsToKey
<1>7. Keys!CreatedKeyListed'
  BY <1>3, <1>4 DEF KeyIInv, Keys!TypeOK, Keys!CreatedKeyListed
<1> QED
  BY <1>5, <1>6, <1>7 DEF KeyIInv

\* An operation that fails on its way leaves the tables as they are.
LEMMA KeyFailKeeps ==
  ASSUME KeyNoneDistinct, KeyIInv, Keys!CreateFails \/ Keys!Fail \/ UNCHANGED Keys!vars
  PROVE  KeyIInv'
<1>1. /\ op' = op \/ op' = Keys!Idle
      /\ UNCHANGED <<key, refIndex, keyList, rows, created, used>>
      /\ conflict' \in BOOLEAN
  BY DEF Keys!CreateFails, Keys!Fail, Keys!Return, Keys!vars, Keys!index, KeyIInv,
     Keys!TypeOK
<1>2. Keys!TypeOK' /\ UsedIDs' /\ Keys!ReferenceLeadsToKey' /\ Keys!CreatedKeyListed'
  BY <1>1, SMTT(60) DEF KeyIInv, Keys!TypeOK, Keys!Labels, Keys!Idle, UsedIDs,
     Keys!ReferenceLeadsToKey, Keys!CreatedKeyListed
<1>3. KeyStored' /\ KeyUnreferenced'
  BY <1>1, SMTT(60) DEF KeyIInv, KeyStored, KeyUnreferenced, Keys!Idle
<1> QED
  BY <1>2, <1>3 DEF KeyIInv

\* The invariant is inductive: KeyIInv relates the tables to what the operation that
\* holds externalAccountKeyMutex has written so far.
LEMMA KeyNextKeeps ==
  ASSUME KeyNoneDistinct, KeyIInv, [Keys!Next]_Keys!vars
  PROVE  KeyIInv'
BY CreateKeyKeeps, KeyAddKeeps, SaveReferenceKeeps, DeleteExternalKeeps, DeleteKeyRowKeeps,
   KeyDeleteIDKeeps, UpdateKeyKeeps, KeyFailKeeps
   DEF Keys!Next

\* KeyIInv holds in every state of the store.
THEOREM KeyInvariance ==
  ASSUME KeyNoneDistinct
  PROVE  Keys!Spec => []KeyIInv
<1>1. Keys!Init => KeyIInv
  BY KeyInitIInv
<1>2. KeyIInv /\ [Keys!Next]_Keys!vars => KeyIInv'
  BY KeyNextKeeps
<1> QED
  BY <1>1, <1>2, PTL DEF Keys!Spec

\* GetExternalAccountKeyByReference never follows a reference to a key that is
\* gone or to another key, wherever an operation stopped.
THEOREM ReferenceFollowed ==
  ASSUME KeyNoneDistinct
  PROVE  Keys!Spec => []ReferenceLeadsToKey
<1>1. KeyIInv => ReferenceLeadsToKey
  BY DEF KeyIInv, ReferenceLeadsToKey
<1> QED
  BY <1>1, KeyInvariance, PTL

\* A key whose creation was reported stays in the list of its provisioner as long
\* as it is stored.
THEOREM CreatedIsListed ==
  ASSUME KeyNoneDistinct
  PROVE  Keys!Spec => []CreatedKeyListed
<1>1. KeyIInv => CreatedKeyListed
  BY DEF KeyIInv, CreatedKeyListed
<1> QED
  BY <1>1, KeyInvariance, PTL

-----------------------------------------------------------------------------
(* The validation of a challenge.                                            *)

\* The elements of a list.
Elements(s) == {s[i] : i \in DOMAIN s}

\* A validator finds an answer valid when it proves control, and whenever it proves
\* it fully; it finds none invalid that did not arrive.
Judged(c, k, answer) ==
  /\ Challenge!Outcome(c, k, answer) \in Challenge!Outcomes
  /\ Challenge!Outcome(c, k, answer) = "valid" => Challenge!Proves(c, k, answer)
  /\ Challenge!ProvesFully(c, k, answer) => Challenge!Outcome(c, k, answer) = "valid"
  /\ Challenge!Outcome(c, k, answer) = "invalid" => ~Challenge!Transient(c, answer)

\* The type of a challenge is one of the four, and its token a token.
LEMMA ChallengeParts ==
  ASSUME NEW c \in Challenge!ChallengesToValidate, NEW k \in AccountKeys
  PROVE  /\ c.type \in {"http-01", "dns-01", "tls-alpn-01", "device-attest-01"}
         /\ c.type = "device-attest-01" => c.value.host \in Devices
         /\ c.token \in Tokens
         /\ Challenge!KeyAuthorization(c, k) \in Challenge!KeyAuthorizations
<1> DEFINE OfType(t) == [type: {t}, value: Challenge!ValuesOf[t], token: Tokens]
<1>1. PICK t \in DOMAIN Challenge!ValuesOf : c \in OfType(t)
  <2>1. PICK T \in {OfType(t) : t \in DOMAIN Challenge!ValuesOf} : c \in T
    BY DEF Challenge!ChallengesToValidate
  <2> QED
    BY <2>1
<1>2. t \in {"http-01", "dns-01", "tls-alpn-01", "device-attest-01"}
  BY <1>1, SMTT(60) DEF Challenge!ValuesOf
<1>3. c.type = t /\ c.value \in Challenge!ValuesOf[t] /\ c.token \in Tokens
  BY <1>1
<1>4. c.type = "device-attest-01" => c.value.host \in Devices
  BY <1>2, <1>3, SMTT(60) DEF Challenge!ValuesOf, Challenge!Name
<1> QED
  BY <1>2, <1>3, <1>4 DEF Challenge!KeyAuthorization, Challenge!KeyAuthorizations

\* http-01: only the key authorization as the body is a proof.
LEMMA HttpJudged ==
  ASSUME AnswersDistinct, NEW c \in Challenge!ChallengesToValidate, NEW k \in AccountKeys,
         NEW answer \in Challenge!HttpAnswers, c.type = "http-01"
  PROVE  Judged(c, k, answer)
<1>1. /\ Challenge!KeyAuthorization(c, k) \in Challenge!KeyAuthorizations
      /\ Challenge!KeyAuthorization(c, k) # None
  BY ChallengeParts DEF AnswersDistinct
<1>2. Challenge!Outcome(c, k, answer) = Challenge!http01Validate(c, k, answer)
  BY DEF Challenge!Outcome
<1>3. Challenge!Proves(c, k, answer) <=> answer.body = Challenge!KeyAuthorization(c, k)
  BY DEF Challenge!Proves
<1>4. Challenge!ProvesFully(c, k, answer) <=> Challenge!Proves(c, k, answer)
  BY DEF Challenge!ProvesFully, Challenge!NamedAlone
<1>5. CASE answer \in [reply: {"unreachable", "status", "cut"}, body: {None}]
  BY <1>1, <1>2, <1>3, <1>4, <1>5 DEF Judged, Challenge!http01Validate,
     Challenge!Outcomes, Challenge!Transient
<1>6. CASE answer \in [reply: {"body"}, body: Challenge!KeyAuthorizations]
  BY <1>1, <1>2, <1>3, <1>4, <1>6 DEF Judged, Challenge!http01Validate,
     Challenge!Outcomes, Challenge!Transient
<1> QED
  BY <1>5, <1>6 DEF Challenge!HttpAnswers

\* dns-01: a record with the key authorization is a proof, and no lookup settles the
\* challenge otherwise.
LEMMA DnsJudged ==
  ASSUME AnswersDistinct, NEW c \in Challenge!ChallengesToValidate, NEW k \in AccountKeys,
         NEW answer \in Challenge!TxtAnswers, c.type = "dns-01"
  PROVE  Judged(c, k, answer)
<1>2. Challenge!Outcome(c, k, answer) = Challenge!dns01Validate(c, k, answer)
  BY DEF Challenge!Outcome
<1>3. Challenge!Proves(c, k, answer) <=> Challenge!KeyAuthorization(c, k) \in answer.records
  BY DEF Challenge!Proves
<1>4. Challenge!ProvesFully(c, k, answer) <=> Challenge!Proves(c, k, answer)
  BY DEF Challenge!ProvesFully, Challenge!NamedAlone
<1>5. answer.reply = "records" \/ answer.records = {}
  BY DEF Challenge!TxtAnswers
<1> QED
  BY <1>2, <1>3, <1>4, <1>5 DEF Judged, Challenge!dns01Validate, Challenge!Outcomes

\* A list of at most two elements.
LEMMA ShortLists ==
  ASSUME NEW S, NEW s \in Challenge!UpTo2(S)
  PROVE  /\ s \in Seq(S)
         /\ s = <<>> \/ Len(s) >= 1
         /\ Len(s) = 1 => s = << s[1] >>
<1>1. CASE s = <<>>
  BY <1>1, SMTT(60)
<1>2. CASE \E x \in S : s = << x >>
  BY <1>2, SMTT(60)
<1>3. CASE \E x, y \in S : s = << x, y >>
  BY <1>3, SMTT(60)
<1> QED
  BY <1>1, <1>2, <1>3, SMTT(60) DEF Challenge!UpTo2

\* The names of a certificate: a match proves that the host is named, and a host
\* named alone matches.
LEMMA NamesJudged ==
  ASSUME NEW c, NEW dns \in Challenge!UpTo2(Hosts), NEW ip \in Challenge!UpTo2(Addresses),
         NEW leaf, leaf.dnsNames = dns, leaf.ipAddresses = ip
  PROVE  /\ Challenge!namesMatch(c, leaf) => c.value.host \in Elements(dns \o ip)
         /\ c.value.host \in Elements(dns \o ip) /\ Len(dns \o ip) = 1 => Challenge!namesMatch(c, leaf)
<1>1. dns \in Seq(Hosts \cup Addresses) /\ ip \in Seq(Hosts \cup Addresses)
  <2>1. dns \in Seq(Hosts) /\ ip \in Seq(Addresses)
    BY ShortLists
  <2> QED
    BY <2>1, SMTT(60)
<1>2. /\ Len(dns \o ip) = Len(dns) + Len(ip)
      /\ \A i \in 1 .. Len(dns) : (dns \o ip)[i] = dns[i]
      /\ DOMAIN (dns \o ip) = 1 .. Len(dns \o ip)
      /\ Elements(dns \o ip) = {(dns \o ip)[i] : i \in 1 .. Len(dns \o ip)}
  <2>1. Len(dns \o ip) = Len(dns) + Len(ip)
    BY <1>1, SMTT(60)
  <2>2. \A i \in 1 .. Len(dns) : (dns \o ip)[i] = dns[i]
    BY <1>1, SMTT(60)
  <2>3. DOMAIN (dns \o ip) = 1 .. Len(dns \o ip)
    BY <1>1, SMTT(60)
  <2> QED
    BY <2>1, <2>2, <2>3 DEF Elements
<1>3. CASE dns = <<>>
  <2>1. Challenge!namesMatch(c, leaf) <=> ip = << c.value.host >>
    BY <1>3 DEF Challenge!namesMatch
  <2>2. dns \o ip = ip
    BY <1>3, <1>1, SMTT(60)
  <2>3. ip = << c.value.host >> => c.value.host \in Elements(ip)
    BY SMTT(60) DEF Elements
  <2>4. c.value.host \in Elements(ip) /\ Len(ip) = 1 => ip = << c.value.host >>
    BY <1>1, ShortLists, SMTT(60) DEF Elements
  <2> QED
    BY <2>1, <2>2, <2>3, <2>4
<1>4. CASE dns # <<>>
  <2>1. Challenge!namesMatch(c, leaf) <=> dns = << c.value.host >>
    BY <1>4 DEF Challenge!namesMatch
  <2>2. dns = << c.value.host >> => Len(dns) = 1 /\ dns[1] = c.value.host
    BY SMTT(60)
  <2>3. Len(dns) >= 1 /\ Len(ip) \in Nat /\ Len(dns) \in Nat
    BY <1>1, <1>4, ShortLists, SMTT(60)
  <2>4. dns = << c.value.host >> => c.value.host \in Elements(dns \o ip)
    BY <1>2, <2>2, <2>3, SMTT(60)
  <2>5. ASSUME c.value.host \in Elements(dns \o ip), Len(dns \o ip) = 1
        PROVE  dns = << c.value.host >>
    <3>1. Len(dns) = 1
      <4>1. Len(dns) + Len(ip) = 1
        BY <1>2, <2>5
      <4>2. \A m, n \in Nat : m >= 1 /\ m + n = 1 => m = 1
        BY SMTT(60)
      <4> QED
        BY <2>3, <4>1, <4>2
    <3>2. dns[1] = c.value.host
      BY <1>2, <2>5, <3>1, SMTT(60)
    <3> QED
      BY <3>1, <3>2, ShortLists
  <2> QED
    BY <2>1, <2>4, <2>5
<1> QED
  BY <1>3, <1>4

\* The extensions: one that proves is the first acmeIdentifier.
LEMMA ExtensionsJudged ==
  ASSUME AnswersDistinct, NEW exts \in Challenge!ExtensionLists,
     NEW keyAuth \in Challenge!KeyAuthorizations
  PROVE  /\ Challenge!extensionVerdict(exts, keyAuth) \in {"valid", "invalid"}
         /\ Challenge!extensionVerdict(exts, keyAuth) = "valid"
              <=> \E e \in Elements(exts) : e.critical /\ e.hash = keyAuth
<1> DEFINE Proof(e) == e.critical /\ e.hash = keyAuth
<1>1. keyAuth # None
  BY DEF AnswersDistinct
<1>2. ~Proof(Challenge!obsolete) /\ Challenge!obsolete.oid # "acmeIdentifier"
  BY <1>1 DEF Challenge!obsolete
<1>3. ASSUME NEW e \in Challenge!acmeIdentifier
      PROVE  e.oid = "acmeIdentifier" /\ (Proof(e) => e.wellFormed)
  BY <1>1 DEF Challenge!acmeIdentifier
<1> HIDE DEF Proof
<1>4. ASSUME exts \in {<<>>, << Challenge!obsolete >>}
      PROVE  /\ ~(\E f \in Elements(exts) : Proof(f))
             /\ Challenge!extensionVerdict(exts, keyAuth) = "invalid"
  <2>1. ~(\E f \in Elements(exts) : Proof(f))
    BY <1>2, <1>4, SMTT(60) DEF Elements
  <2>2. \A i \in DOMAIN exts : exts[i].oid # "acmeIdentifier"
    BY <1>2, <1>4, SMTT(60)
  <2> QED
    BY <2>1, <2>2 DEF Challenge!extensionVerdict
<1>5. ASSUME NEW e \in Challenge!acmeIdentifier, exts \in {<< e >>,
   << e, Challenge!obsolete >>, << Challenge!obsolete, e >>}
      PROVE  Challenge!extensionVerdict(exts, keyAuth) = "valid" <=> Proof(e)
  BY <1>2, <1>3, <1>5, SMTT(60) DEF Elements, Challenge!extensionVerdict, Proof
<1>6. ASSUME NEW e \in Challenge!acmeIdentifier, exts \in {<< e >>,
   << e, Challenge!obsolete >>, << Challenge!obsolete, e >>}
      PROVE  (\E f \in Elements(exts) : Proof(f)) <=> Proof(e)
  BY <1>2, <1>6, SMTT(60) DEF Elements
<1>7. (\E f \in Elements(exts) : Proof(f)) <=> \E e \in Elements(exts) : e.critical /\ e.hash = keyAuth
  BY DEF Proof
<1>8. Challenge!extensionVerdict(exts, keyAuth) \in {"valid", "invalid"}
  BY DEF Challenge!extensionVerdict
<1>9. Challenge!extensionVerdict(exts, keyAuth) = "valid" <=> \E f \in Elements(exts) : Proof(f)
  BY <1>2, <1>4, <1>5, <1>6 DEF Challenge!ExtensionLists, Elements,
     Challenge!extensionVerdict
<1> QED
  BY <1>7, <1>8, <1>9
\* tls-alpn-01: the certificate names the host and carries the key authorization.
LEMMA TlsJudged ==
  ASSUME AnswersDistinct, NEW c \in Challenge!ChallengesToValidate, NEW k \in AccountKeys,
         NEW answer \in Challenge!TlsAnswers, c.type = "tls-alpn-01"
  PROVE  Judged(c, k, answer)
<1> DEFINE keyAuth == Challenge!KeyAuthorization(c, k)
           leaf == answer.leaf
<1>1. keyAuth \in Challenge!KeyAuthorizations
  BY ChallengeParts
<1>2. Challenge!Outcome(c, k, answer) = Challenge!tlsalpn01Validate(c, k, answer)
  BY DEF Challenge!Outcome
<1>3. Challenge!Proves(c, k, answer) <=>
        /\ leaf # None
        /\ answer.protocol = "acme-tls/1"
        /\ c.value.host \in Elements(leaf.dnsNames \o leaf.ipAddresses)
        /\ \E e \in Elements(leaf.extensions) : e.critical /\ e.hash = keyAuth
  BY DEF Challenge!Proves, Elements
<1>4. Challenge!ProvesFully(c, k, answer) <=>
        /\ Challenge!Proves(c, k, answer)
        /\ leaf # None => Len(leaf.dnsNames \o leaf.ipAddresses) = 1
  BY DEF Challenge!ProvesFully, Challenge!NamedAlone
<1>5. CASE answer \in [reply: {"no_application_protocol", "dial"}, protocol: {None}, leaf: {None}]
  BY <1>2, <1>3, <1>4, <1>5 DEF Judged, Challenge!tlsalpn01Validate, Challenge!Outcomes,
     Challenge!Transient
<1>6. CASE answer \in [reply: {"connected"}, protocol: {"acme-tls/1", "other"},
                       leaf: Challenge!Certificates \cup {None}]
  <2>1. /\ answer.reply = "connected" /\ answer.protocol \in {"acme-tls/1", "other"}
        /\ leaf \in Challenge!Certificates \cup {None}
    BY <1>6
  <2>2. Challenge!tlsalpn01Validate(c, k, answer) =
          IF leaf = None \/ answer.protocol # "acme-tls/1" THEN "invalid"
          ELSE IF ~Challenge!namesMatch(c, leaf) THEN "invalid"
          ELSE Challenge!extensionVerdict(leaf.extensions, keyAuth)
    BY <2>1 DEF Challenge!tlsalpn01Validate
  <2>3. ~Challenge!Transient(c, answer)
    BY <2>1 DEF Challenge!Transient
  <2>4. CASE leaf = None \/ answer.protocol # "acme-tls/1"
    BY <1>2, <1>3, <1>4, <2>2, <2>3, <2>4 DEF Judged, Challenge!Outcomes
  <2>5. CASE leaf # None /\ answer.protocol = "acme-tls/1"
    <3>1. /\ leaf.dnsNames \in Challenge!UpTo2(Hosts) /\ leaf.ipAddresses \in Challenge!UpTo2(Addresses)
          /\ leaf.extensions \in Challenge!ExtensionLists
      BY <2>1, <2>5 DEF Challenge!Certificates
    <3>2. /\ Challenge!namesMatch(c, leaf) => c.value.host \in Elements(leaf.dnsNames \o leaf.ipAddresses)
          /\ c.value.host \in Elements(leaf.dnsNames \o leaf.ipAddresses)
               /\ Len(leaf.dnsNames \o leaf.ipAddresses) = 1 => Challenge!namesMatch(c, leaf)
      BY <3>1, NamesJudged
    <3>3. /\ Challenge!extensionVerdict(leaf.extensions, keyAuth) \in {"valid", "invalid"}
          /\ Challenge!extensionVerdict(leaf.extensions, keyAuth) = "valid"
               <=> \E e \in Elements(leaf.extensions) : e.critical /\ e.hash = keyAuth
      BY <1>1, <3>1, ExtensionsJudged
    <3> QED
      BY <1>2, <1>3, <1>4, <2>2, <2>3, <2>5, <3>2, <3>3 DEF Judged,
         Challenge!Outcomes
  <2> QED
    BY <2>4, <2>5
<1> QED
  BY <1>5, <1>6 DEF Challenge!TlsAnswers

\* device-attest-01: a verified chain, an enabled format and the serial number or
\* the UDID of the device.
LEMMA DeviceJudged ==
  ASSUME AnswersDistinct, NEW c \in Challenge!ChallengesToValidate, NEW k \in AccountKeys,
         NEW answer \in Challenge!AttestationAnswers, c.type = "device-attest-01"
  PROVE  Judged(c, k, answer)
<1> DEFINE s == answer.statement
           keyAuth == Challenge!KeyAuthorization(c, k)
<1>1. /\ keyAuth \in Challenge!KeyAuthorizations /\ keyAuth # None
      /\ c.value.host \in Devices /\ c.value.host \notin {None, "malformed", "trailing"}
  BY ChallengeParts DEF AnswersDistinct
<1>2. Challenge!Outcome(c, k, answer) = Challenge!deviceAttest01Validate(c, k, answer)
  BY DEF Challenge!Outcome
<1>3. Challenge!Proves(c, k, answer) <=>
        /\ s # None
        /\ s.format \in enabled \cap {"apple", "step"}
        /\ s.x5c = "verified"
        /\ \/ s.serial = c.value.host
           \/ s.format = "apple" /\ s.udid = c.value.host
        /\ IF s.format = "apple" THEN s.nonce \in {None, c.token}
           ELSE s.publicKey \in {"P-256", "RSA", "Ed25519"} /\ s.sig = keyAuth
  BY DEF Challenge!Proves
<1>4. Challenge!ProvesFully(c, k, answer) <=> Challenge!Proves(c, k, answer)
  BY <1>1 DEF Challenge!ProvesFully, Challenge!NamedAlone
<1>5. CASE answer \in [reply: {"not JSON", "error", "not CBOR"}, statement: {None}]
  BY <1>2, <1>3, <1>4, <1>5 DEF Judged, Challenge!deviceAttest01Validate,
     Challenge!Outcomes, Challenge!Transient
<1>6. CASE /\ answer.reply = "attObj"
           /\ s \in Challenge!AppleStatements \cup Challenge!StepStatements \cup [format: {"tpm", "unknown"}]
  <2>1. ~Challenge!Transient(c, answer)
    BY <1>6 DEF Challenge!Transient
  <2>2. Challenge!deviceAttest01Validate(c, k, answer) =
          LET format == IF s.format = "apple" THEN Challenge!doAppleAttestationFormat(s)
                        ELSE Challenge!doStepAttestationFormat(c, k, s)
          IN IF s.format \notin enabled \cap {"apple", "step"} THEN "invalid"
             ELSE IF format # "data" THEN format
             ELSE IF s.format = "apple"
                  THEN IF Challenge!nonceMatches(c, s) /\ c.value.host \in {s.udid, s.serial}
                       THEN "valid" ELSE "invalid"
                  ELSE IF s.serial = c.value.host THEN "valid" ELSE "invalid"
    BY <1>6 DEF Challenge!deviceAttest01Validate
  <2>3. s # None
    BY <1>6 DEF AnswersDistinct
  <2>4. CASE s.format \notin enabled \cap {"apple", "step"}
    BY <1>2, <1>3, <1>4, <2>1, <2>2, <2>4 DEF Judged, Challenge!Outcomes
  <2>5. CASE s.format \in enabled /\ s.format = "apple"
    <3>1. Challenge!doAppleAttestationFormat(s) = IF s.x5c = "verified" THEN "data" ELSE "invalid"
      BY DEF Challenge!doAppleAttestationFormat
    <3>2. Challenge!nonceMatches(c, s) <=> s.nonce \in {None, c.token}
      BY DEF Challenge!nonceMatches
    <3> QED
      BY <1>2, <1>3, <1>4, <2>1, <2>2, <2>3, <2>5, <3>1, <3>2 DEF Judged,
         Challenge!Outcomes
  <2>6. CASE s.format \in enabled /\ s.format = "step"
    <3>1. Challenge!doStepAttestationFormat(c, k, s) \in {"data", "invalid", "fails"}
      BY DEF Challenge!doStepAttestationFormat
    <3>2. s.publicKey \in {"P-256", "P-384", "RSA", "Ed25519", "other"}
      BY <1>6, <2>6 DEF Challenge!AppleStatements, Challenge!StepStatements
    <3>3. s.serial = c.value.host =>
            (Challenge!doStepAttestationFormat(c, k, s) = "data" <=>
               /\ s.x5c = "verified" /\ s.sig = keyAuth
               /\ s.publicKey \in {"P-256", "RSA", "Ed25519"})
      BY <1>1, <3>2 DEF Challenge!doStepAttestationFormat
    <3> QED
      BY <1>2, <1>3, <1>4, <2>1, <2>2, <2>3, <2>6, <3>1, <3>3 DEF Judged,
         Challenge!Outcomes
  <2> QED
    BY <2>4, <2>5, <2>6
<1> QED
  BY <1>5, <1>6 DEF Challenge!AttestationAnswers

\* Every answer to a challenge of its type is judged so.
LEMMA AllJudged ==
  ASSUME AnswersDistinct, NEW c \in Challenge!ChallengesToValidate, NEW k \in AccountKeys,
         NEW answer \in Challenge!Answers[c.type]
  PROVE  Judged(c, k, answer)
<1>1. c.type \in {"http-01", "dns-01", "tls-alpn-01", "device-attest-01"}
  BY ChallengeParts
<1>2. DOMAIN Challenge!ValuesOf = {"http-01", "dns-01", "tls-alpn-01", "device-attest-01"}
  BY SMTT(60) DEF Challenge!ValuesOf
<1>3. Challenge!Answers[c.type] = CASE c.type = "http-01" -> Challenge!HttpAnswers
                          [] c.type = "dns-01" -> Challenge!TxtAnswers
                          [] c.type = "tls-alpn-01" -> Challenge!TlsAnswers
                          [] c.type = "device-attest-01" -> Challenge!AttestationAnswers
  BY <1>1, <1>2 DEF Challenge!Answers
<1> QED
  BY <1>1, <1>3, HttpJudged, DnsJudged, TlsJudged, DeviceJudged

\* The type invariant and the property are inductive.
LEMMA ChallengeNextKeeps ==
  ASSUME AnswersDistinct, Challenge!TypeOK, Challenge!ChallengeFollowsProof,
     [Challenge!Next]_Challenge!vars
  PROVE  Challenge!TypeOK' /\ Challenge!ChallengeFollowsProof'
<1>1. CASE UNCHANGED Challenge!vars
  BY <1>1 DEF Challenge!vars, Challenge!TypeOK, Challenge!ChallengeFollowsProof
<1>2. ASSUME NEW answer \in Challenge!Answers[ch.type], NEW saved \in BOOLEAN,
   Challenge!Validate(answer, saved)
      PROVE  Challenge!TypeOK' /\ Challenge!ChallengeFollowsProof'
  <2> DEFINE outcome == Challenge!Outcome(ch, jwk, answer)
  <2>1. Judged(ch, jwk, answer)
    BY AllJudged DEF Challenge!TypeOK
  <2>2. /\ ch' = ch /\ jwk' = jwk /\ enabled' = enabled
        /\ proved' = (proved \/ Challenge!Proves(ch, jwk, answer))
        /\ refuted' = \/ refuted
                       \/ ~(Challenge!ProvesFully(ch, jwk, answer) \/ Challenge!Transient(ch, answer))
        /\ missed' = (saved /\ Challenge!ProvesFully(ch, jwk, answer) /\ status' # "valid")
        /\ status = "pending"
    BY <1>2 DEF Challenge!Validate
  <2>3. CASE outcome = "fails" \/ ~saved
    <3>1. err' = err /\ status' = status
      BY <1>2, <2>3 DEF Challenge!Validate
    <3>2. ~missed'
      BY <2>1, <2>2, <2>3 DEF Judged
    <3> QED
      BY <2>2, <3>1, <3>2 DEF Challenge!TypeOK, Challenge!ChallengeFollowsProof
  <2>4. CASE outcome = "valid" /\ saved
    <3>1. err' = FALSE /\ status' = "valid"
      BY <1>2, <2>4 DEF Challenge!Validate, Challenge!storeValid
    <3> QED
      BY <2>1, <2>2, <3>1, <2>4 DEF Challenge!TypeOK, Challenge!ChallengeFollowsProof,
         Judged
  <2>5. CASE outcome \in {"invalid", "retry"} /\ saved
    <3>1. err' = TRUE /\ status' = IF outcome = "invalid" THEN "invalid" ELSE status
      BY <1>2, <2>5 DEF Challenge!Validate, Challenge!storeError
    <3> QED
      BY <2>1, <2>2, <3>1, <2>5 DEF Challenge!TypeOK, Challenge!ChallengeFollowsProof,
         Judged
  <2> QED
    BY <2>1, <2>3, <2>4, <2>5 DEF Judged, Challenge!Outcomes
<1> QED
  BY <1>1, <1>2 DEF Challenge!Next, Challenge!ValidateSettled

\* A challenge is valid only after an answer that proved control of the identifier,
\* invalid only after one that arrived and did not, and a full proof that could be
\* stored makes it valid, for every validator, answer and attempt.
THEOREM ChallengeFollows ==
  ASSUME AnswersDistinct
  PROVE  Challenge!Spec => []ChallengeFollowsProof
<1>1. Challenge!Init => Challenge!TypeOK /\ Challenge!ChallengeFollowsProof
  <2> SUFFICES ASSUME Challenge!Init
               PROVE  Challenge!TypeOK /\ Challenge!ChallengeFollowsProof
    OBVIOUS
  <2>1. enabled \subseteq Challenge!Formats
    BY DEF Challenge!Init, Challenge!enabledFormats
  <2> QED
    BY <2>1 DEF Challenge!Init, Challenge!TypeOK, Challenge!ChallengeFollowsProof
<1>2. Challenge!TypeOK /\ Challenge!ChallengeFollowsProof /\ [Challenge!Next]_Challenge!vars =>
        Challenge!TypeOK' /\ Challenge!ChallengeFollowsProof'
  BY ChallengeNextKeeps
<1> QED
  BY <1>1, <1>2, PTL DEF Challenge!Spec, ChallengeFollowsProof

=============================================================================
