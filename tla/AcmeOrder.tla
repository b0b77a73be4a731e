----------------------------- MODULE AcmeOrder -----------------------------
(***************************************************************************)
(* The life cycle of ACME orders, authorizations and challenges           *)
(* (acme/order.go, acme/authorization.go, acme/challenge.go) as the request *)
(* handlers of acme/api run it against the tables of acme/db/nosql.        *)
(*                                                                         *)
(* A process is one HTTP request.  Every database access is one step, so   *)
(* requests interleave between a read and the write that rests on it.  An   *)
(* UpdateXxx of acme/db/nosql is two steps: it reads the stored row again   *)
(* and then compare-and-swaps against that second read, not against the row *)
(* the handler decided on.                                                 *)
(*                                                                         *)
(* NewOrder (acme/api/order.go) has created every order, authorization and *)
(* challenge before the first step: their random identifiers are unknown to *)
(* clients until its response.                                             *)
(***************************************************************************)
EXTENDS Naturals, FiniteSets

CONSTANTS
  Orders, Authzs, Challenges,  \* identifiers of the stored objects
  Certs,                       \* certificates the CA can sign: bounds Sign
  Procs,                       \* requests served at the same time
  OrderOf,                     \* the order an authorization belongs to
  AuthzOf,                     \* the authorization a challenge belongs to
  TypeOf,                      \* the challenge type
  None

ChallengeTypes == {"http-01", "dns-01", "tls-alpn-01", "device-attest-01"}

ASSUME OwnersAssumption ==
  /\ OrderOf \in [Authzs -> Orders]
  /\ AuthzOf \in [Challenges -> Authzs]
  /\ TypeOf \in [Challenges -> ChallengeTypes]

ASSUME NoneAssumption ==
  None \notin Orders \cup Authzs \cup Challenges \cup Certs

VARIABLES
  order,      \* table acme_orders: status and certificate ID
  authz,      \* table acme_authzs: status
  chal,       \* table acme_challenges: status
  certs,      \* table acme_certs: the order a stored certificate is for
  serials,    \* table acme_serial_certs_index: certificates found by serial
  expired,    \* orders whose ExpiresAt lies before the clock
  issued,     \* history: every certificate signed, with its order
  validated,  \* history: challenges whose validation succeeded
  loc         \* the local variables of each request

db == <<order, authz, chal, certs, serials>>
vars == <<order, authz, chal, certs, serials, expired, issued, validated, loc>>

\* An order also has the status ready, between its authorization and its
\* certificate.
AuthzStatus == {"pending", "valid", "invalid"}

OrderStatus == AuthzStatus \cup {"ready"}

AuthzsOf(o) == {a \in Authzs : OrderOf[a] = o}

ChallengesOf(a) == {c \in Challenges : AuthzOf[c] = a}

\* A stored row, as the second read of an UpdateXxx remembers it.
Row == [status: OrderStatus, cert: Certs \cup {None}]

RowOf(status) == [status |-> status, cert |-> None]

Labels == {"idle", "UpdateStatus", "NextAuthz", "GetChallenges",
           "AuthzUpdateStatus", "UpdateAuthorization", "saveAuthorization",
           "UpdateOrder", "saveOrder", "Sign", "CreateCertificate",
           "saveSerial", "Validate", "UpdateChallenge", "saveChallenge"}

Kinds == {"GetOrder", "FinalizeOrder", "GetAuthorization", "GetChallenge"}

\* The locals of a handler: the order o, authorization az and challenge ch it
\* read, the authorizations UpdateStatus still has to visit, the statuses it
\* counted, the row old of an UpdateXxx and the certificate it signed.
Locals ==
  [pc: Labels,
   kind: Kinds \cup {None},
   oid: Orders \cup {None}, ostatus: OrderStatus, ocert: Certs \cup {None},
   todo: SUBSET Authzs, count: SUBSET AuthzStatus,
   aid: Authzs \cup {None}, astatus: AuthzStatus,
   unread: SUBSET Challenges, proven: BOOLEAN,
   cid: Challenges \cup {None}, cstatus: AuthzStatus,
   old: Row, cert: Certs \cup {None}]

Idle ==
  [pc |-> "idle", kind |-> None,
   oid |-> None, ostatus |-> "pending", ocert |-> None,
   todo |-> {}, count |-> {},
   aid |-> None, astatus |-> "pending", unread |-> {}, proven |-> FALSE,
   cid |-> None, cstatus |-> "pending",
   old |-> RowOf("pending"), cert |-> None]

Init ==
  /\ order = [o \in Orders |-> RowOf("pending")]
  /\ authz = [a \in Authzs |-> "pending"]
  /\ chal = [c \in Challenges |-> "pending"]
  /\ certs = [c \in Certs |-> None]
  /\ serials = {}
  /\ expired = {}
  /\ issued = {}
  /\ validated = {}
  /\ loc = [p \in Procs |-> Idle]

At(p, label) == loc[p].pc = label

\* The request is answered, with a result or with an error.
Respond(p) == loc' = [loc EXCEPT ![p] = Idle]

-----------------------------------------------------------------------------
(* The challenge handler: GetChallenge and Challenge.Validate.              *)

\* Mutant: a challenge is validated whatever its status.
GetChallengeAnyStatus(p, c) ==
  /\ At(p, "idle")
  /\ loc' = [loc EXCEPT ![p] = [Idle EXCEPT !.pc = "Validate",
                                            !.kind = "GetChallenge",
                                            !.cid = c]]
  /\ UNCHANGED <<db, expired, issued, validated>>

\* GetChallenge reads the challenge; Validate returns at once unless the copy
\* is pending, and then nothing changes.
GetChallenge(p, c) ==
  /\ At(p, "idle")
  /\ chal[c] = "pending"
  /\ loc' = [loc EXCEPT ![p] = [Idle EXCEPT !.pc = "Validate",
                                            !.kind = "GetChallenge",
                                            !.cid = c]]
  /\ UNCHANGED <<db, expired, issued, validated>>

\* The status each validator leaves in its copy of the challenge: storeError
\* marks it invalid for a wrong proof, and keeps it pending when the client
\* may try again.
Verdicts(type) ==
  CASE type = "dns-01" -> {"valid", "pending"}
    [] type = "device-attest-01" -> {"valid", "invalid"}
    [] type \in {"http-01", "tls-alpn-01"} -> {"valid", "invalid", "pending"}

\* http01Validate, tlsalpn01Validate, dns01Validate, deviceAttest01Validate.
Validate(p) ==
  /\ At(p, "Validate")
  /\ \E verdict \in Verdicts(TypeOf[loc[p].cid]) :
       /\ loc' = [loc EXCEPT ![p].pc = "UpdateChallenge", ![p].cstatus = verdict]
       /\ validated' = IF verdict = "valid" THEN validated \cup {loc[p].cid}
                                            ELSE validated
  /\ UNCHANGED <<db, expired, issued>>

UpdateChallenge(p) ==
  /\ At(p, "UpdateChallenge")
  /\ loc' = [loc EXCEPT ![p].pc = "saveChallenge",
                        ![p].old = RowOf(chal[loc[p].cid])]
  /\ UNCHANGED <<db, expired, issued, validated>>

saveChallenge(p) ==
  /\ At(p, "saveChallenge")
  /\ chal' = IF RowOf(chal[loc[p].cid]) = loc[p].old
             THEN [chal EXCEPT ![loc[p].cid] = loc[p].cstatus]
             ELSE chal
  /\ Respond(p)
  /\ UNCHANGED <<order, authz, certs, serials, expired, issued, validated>>

-----------------------------------------------------------------------------
(* Authorization.UpdateStatus, called by GetAuthorization and by            *)
(* Order.UpdateStatus for each authorization of the order.                  *)

\* The locals of a request that has read the row of an authorization and still
\* has to read its challenges.
ReadAuthz(l, a) ==
  [l EXCEPT !.pc = IF ChallengesOf(a) = {} THEN "AuthzUpdateStatus"
                                           ELSE "GetChallenges",
            !.aid = a, !.astatus = authz[a],
            !.unread = ChallengesOf(a), !.proven = FALSE]

GetAuthorization(p, a) ==
  /\ At(p, "idle")
  /\ loc' = [loc EXCEPT ![p] =
               ReadAuthz([Idle EXCEPT !.kind = "GetAuthorization"], a)]
  /\ UNCHANGED <<db, expired, issued, validated>>

\* DB.GetAuthorization reads the challenges of the authorization one by one.
GetChallenges(p) ==
  /\ At(p, "GetChallenges")
  /\ \E c \in loc[p].unread :
       loc' = [loc EXCEPT
         ![p].pc = IF loc[p].unread = {c} THEN "AuthzUpdateStatus" ELSE @,
         ![p].unread = @ \ {c},
         ![p].proven = @ \/ chal[c] = "valid"]
  /\ UNCHANGED <<db, expired, issued, validated>>

\* The loop of Order.UpdateStatus counts the status of an authorization.
Counted(l, status) ==
  [l EXCEPT !.pc = "NextAuthz",
            !.count = @ \cup {status}, !.todo = @ \ {l.aid},
            !.aid = None, !.astatus = "pending", !.proven = FALSE,
            !.old = RowOf("pending")]

\* The authorization is up to date: GetAuthorization responds, and
\* Order.UpdateStatus goes on.
AuthzDone(p, status) ==
  IF loc[p].kind = "GetAuthorization"
  THEN Respond(p)
  ELSE loc' = [loc EXCEPT ![p] = Counted(@, status)]

AuthzUnchanged(p) ==
  /\ At(p, "AuthzUpdateStatus")
  /\ \/ loc[p].astatus # "pending"
     \/ OrderOf[loc[p].aid] \notin expired /\ ~loc[p].proven
  /\ AuthzDone(p, loc[p].astatus)
  /\ UNCHANGED <<db, expired, issued, validated>>

\* Mutant: a changed authorization is not saved.
AuthzChangedNotSaved(p) ==
  /\ At(p, "AuthzUpdateStatus")
  /\ loc[p].astatus = "pending"
  /\ \/ /\ OrderOf[loc[p].aid] \in expired
        /\ AuthzDone(p, "invalid")
     \/ /\ OrderOf[loc[p].aid] \notin expired
        /\ loc[p].proven
        /\ AuthzDone(p, "valid")
  /\ UNCHANGED <<db, expired, issued, validated>>

\* An authorization expires with its order: NewOrder gives both one ExpiresAt.
AuthzChanged(p) ==
  /\ At(p, "AuthzUpdateStatus")
  /\ loc[p].astatus = "pending"
  /\ \/ /\ OrderOf[loc[p].aid] \in expired
        /\ loc' = [loc EXCEPT ![p].pc = "UpdateAuthorization",
                              ![p].astatus = "invalid"]
     \/ /\ OrderOf[loc[p].aid] \notin expired
        /\ loc[p].proven
        /\ loc' = [loc EXCEPT ![p].pc = "UpdateAuthorization",
                              ![p].astatus = "valid"]
  /\ UNCHANGED <<db, expired, issued, validated>>

UpdateAuthorization(p) ==
  /\ At(p, "UpdateAuthorization")
  /\ loc' = [loc EXCEPT ![p].pc = "saveAuthorization",
                        ![p].old = RowOf(authz[loc[p].aid])]
  /\ UNCHANGED <<db, expired, issued, validated>>

saveAuthorization(p) ==
  /\ At(p, "saveAuthorization")
  /\ \/ /\ RowOf(authz[loc[p].aid]) = loc[p].old
        /\ authz' = [authz EXCEPT ![loc[p].aid] = loc[p].astatus]
        /\ AuthzDone(p, loc[p].astatus)
     \/ /\ RowOf(authz[loc[p].aid]) # loc[p].old
        /\ authz' = authz
        /\ Respond(p)
  /\ UNCHANGED <<order, chal, certs, serials, expired, issued, validated>>

-----------------------------------------------------------------------------
(* Order.UpdateStatus, called by GetOrder and FinalizeOrder.                *)

\* The handlers GetOrder and FinalizeOrder begin by reading the order.
ReadOrder(p, kind, o) ==
  /\ At(p, "idle")
  /\ loc' = [loc EXCEPT ![p] = [Idle EXCEPT !.pc = "UpdateStatus", !.kind = kind,
                                            !.oid = o,
                                            !.ostatus = order[o].status,
                                            !.ocert = order[o].cert]]
  /\ UNCHANGED <<db, expired, issued, validated>>

GetOrder(p, o) == ReadOrder(p, "GetOrder", o)

FinalizeOrder(p, o) == ReadOrder(p, "FinalizeOrder", o)

ToSign(l) == [l EXCEPT !.pc = "Sign", !.old = RowOf("pending"), !.count = {}]

\* UpdateStatus returned without error, with this status in the copy: Finalize
\* goes on only with a ready order, every other case is a response.
UpdateStatusDone(p, status) ==
  IF loc[p].kind = "FinalizeOrder" /\ status = "ready"
  THEN loc' = [loc EXCEPT ![p] = ToSign(@)]
  ELSE Respond(p)

OrderUnchanged(p) ==
  /\ At(p, "UpdateStatus")
  /\ \/ loc[p].ostatus \in {"valid", "invalid"}
     \/ loc[p].ostatus = "ready" /\ loc[p].oid \notin expired
  /\ UpdateStatusDone(p, loc[p].ostatus)
  /\ UNCHANGED <<db, expired, issued, validated>>

OrderExpired(p) ==
  /\ At(p, "UpdateStatus")
  /\ loc[p].ostatus \in {"pending", "ready"}
  /\ loc[p].oid \in expired
  /\ loc' = [loc EXCEPT ![p].pc = "UpdateOrder", ![p].ostatus = "invalid"]
  /\ UNCHANGED <<db, expired, issued, validated>>

OrderPending(p) ==
  /\ At(p, "UpdateStatus")
  /\ loc[p].ostatus = "pending"
  /\ loc[p].oid \notin expired
  /\ loc' = [loc EXCEPT ![p].pc = "NextAuthz",
                        ![p].todo = AuthzsOf(loc[p].oid)]
  /\ UNCHANGED <<db, expired, issued, validated>>

\* The next authorization of the order's list; the list's order is left open.
NextAuthz(p) ==
  /\ At(p, "NextAuthz")
  /\ \E a \in loc[p].todo : loc' = [loc EXCEPT ![p] = ReadAuthz(@, a)]
  /\ UNCHANGED <<db, expired, issued, validated>>

\* Mutant: one valid authorization is enough.
StatusOfAnyValid(count) ==
  CASE "invalid" \in count -> "invalid"
    [] "invalid" \notin count /\ "valid" \in count -> "ready"
    [] OTHER -> "pending"

\* The status the counted authorizations give the order.
StatusOfCount(count) ==
  CASE "invalid" \in count -> "invalid"
    [] "invalid" \notin count /\ "pending" \in count -> "pending"
    [] OTHER -> "ready"

\* Mutant: the order is saved although its status did not change.
AuthzsCountedSaved(p) ==
  /\ At(p, "NextAuthz")
  /\ loc[p].todo = {}
  /\ loc' = [loc EXCEPT ![p].pc = "UpdateOrder", ![p].count = {},
                        ![p].ostatus = StatusOfCount(loc[p].count)]
  /\ UNCHANGED <<db, expired, issued, validated>>

AuthzsCounted(p) ==
  /\ At(p, "NextAuthz")
  /\ loc[p].todo = {}
  /\ LET status == StatusOfCount(loc[p].count)
     IN  IF status = "pending"
         THEN UpdateStatusDone(p, status)
         ELSE loc' = [loc EXCEPT ![p].pc = "UpdateOrder", ![p].ostatus = status,
                                 ![p].count = {}]
  /\ UNCHANGED <<db, expired, issued, validated>>

UpdateOrder(p) ==
  /\ At(p, "UpdateOrder")
  /\ loc' = [loc EXCEPT ![p].pc = "saveOrder", ![p].old = order[loc[p].oid]]
  /\ UNCHANGED <<db, expired, issued, validated>>

\* Mutant: UpdateOrder forgets to copy the certificate ID.
saveOrderStatusOnly(p) ==
  /\ At(p, "saveOrder")
  /\ \/ /\ order[loc[p].oid] = loc[p].old
        /\ order' = [order EXCEPT ![loc[p].oid].status = loc[p].ostatus]
        /\ UpdateStatusDone(p, loc[p].ostatus)
     \/ /\ order[loc[p].oid] # loc[p].old
        /\ order' = order
        /\ Respond(p)
  /\ UNCHANGED <<authz, chal, certs, serials, expired, issued, validated>>

saveOrder(p) ==
  /\ At(p, "saveOrder")
  /\ \/ /\ order[loc[p].oid] = loc[p].old
        /\ order' = [order EXCEPT ![loc[p].oid] =
                       [status |-> loc[p].ostatus, cert |-> loc[p].ocert]]
        /\ UpdateStatusDone(p, loc[p].ostatus)
     \/ /\ order[loc[p].oid] # loc[p].old
        /\ order' = order
        /\ Respond(p)
  /\ UNCHANGED <<authz, chal, certs, serials, expired, issued, validated>>

-----------------------------------------------------------------------------
(* The rest of Order.Finalize, for a ready order.                           *)

\* The authority signs a certificate no one has seen before.
Sign(p) ==
  /\ At(p, "Sign")
  /\ \E c \in Certs :
       /\ \A i \in issued : i.cert # c
       /\ issued' = issued \cup {[cert |-> c, order |-> loc[p].oid]}
       /\ loc' = [loc EXCEPT ![p].pc = "CreateCertificate", ![p].cert = c]
  /\ UNCHANGED <<db, expired, validated>>

CreateCertificate(p) ==
  /\ At(p, "CreateCertificate")
  /\ certs' = [certs EXCEPT ![loc[p].cert] = loc[p].oid]
  /\ loc' = [loc EXCEPT ![p].pc = "saveSerial"]
  /\ UNCHANGED <<order, authz, chal, serials, expired, issued, validated>>

\* The second save of CreateCertificate; Finalize then makes its copy of the
\* order valid and saves it.
saveSerial(p) ==
  /\ At(p, "saveSerial")
  /\ serials' = serials \cup {loc[p].cert}
  /\ loc' = [loc EXCEPT ![p].pc = "UpdateOrder", ![p].ostatus = "valid",
                        ![p].ocert = loc[p].cert, ![p].cert = None]
  /\ UNCHANGED <<order, authz, chal, certs, expired, issued, validated>>

-----------------------------------------------------------------------------
(* The environment.                                                         *)

\* A database error, a refused signature, an internal error of a validator or
\* the end of the server process: the request stops, its locals are lost, and
\* what it stored stays.
Fail(p) ==
  /\ ~At(p, "idle")
  /\ Respond(p)
  /\ UNCHANGED <<db, expired, issued, validated>>

\* The clock passes ExpiresAt of an order.
Expire(o) ==
  /\ o \notin expired
  /\ expired' = expired \cup {o}
  /\ UNCHANGED <<db, issued, validated, loc>>

Request(p) ==
  \/ \E o \in Orders : GetOrder(p, o) \/ FinalizeOrder(p, o)
  \/ \E a \in Authzs : GetAuthorization(p, a)
  \/ \E c \in Challenges : GetChallenge(p, c)

Step(p) ==
  \/ Validate(p) \/ UpdateChallenge(p) \/ saveChallenge(p)
  \/ GetChallenges(p) \/ AuthzUnchanged(p) \/ AuthzChanged(p)
  \/ UpdateAuthorization(p) \/ saveAuthorization(p)
  \/ OrderUnchanged(p) \/ OrderExpired(p) \/ OrderPending(p)
  \/ NextAuthz(p) \/ AuthzsCounted(p)
  \/ UpdateOrder(p) \/ saveOrder(p)
  \/ Sign(p) \/ CreateCertificate(p) \/ saveSerial(p)

Next ==
  \/ \E p \in Procs : Request(p) \/ Step(p) \/ Fail(p)
  \/ \E o \in Orders : Expire(o)

Spec == Init /\ [][Next]_vars

-----------------------------------------------------------------------------
(* Properties.                                                              *)

\* Rows and copies hold statuses of their Go types.
TypeOK ==
  /\ order \in [Orders -> Row]
  /\ authz \in [Authzs -> AuthzStatus]
  /\ chal \in [Challenges -> AuthzStatus]
  /\ certs \in [Certs -> Orders \cup {None}]
  /\ serials \subseteq Certs
  /\ expired \subseteq Orders
  /\ issued \subseteq [cert: Certs, order: Orders]
  /\ validated \subseteq Challenges
  /\ loc \in [Procs -> Locals]

\* Some challenge of the authorization was validated.
Proven(a) == \E c \in ChallengesOf(a) : c \in validated

\* Finalize signs a certificate only for an order each of whose authorizations
\* had a challenge validated, whatever requests ran in between.
IssuedOnlyIfAuthorized ==
  \A i \in issued : \A a \in AuthzsOf(i.order) : Proven(a)

\* An order is stored as valid exactly when it names a certificate, and that
\* certificate is stored, is this order's and is found by its serial number:
\* UpdateOrder never separates the status from the certificate ID.
ValidOrderHasCertificate ==
  \A o \in Orders :
    /\ order[o].status = "valid" <=> order[o].cert # None
    /\ order[o].status = "valid" =>
         /\ certs[order[o].cert] = o
         /\ order[o].cert \in serials

\* A stored order is never ahead of its authorizations: once it is ready or
\* valid none of them is stored as pending.
OrderNotAheadOfAuthzs ==
  \A o \in Orders : order[o].status \in {"ready", "valid"} =>
    \A a \in AuthzsOf(o) : authz[a] # "pending"

\* No request, however stale its copy, writes an order or an authorization
\* back to pending.
NeverPendingAgain ==
  [][/\ \A o \in Orders :
          order[o].status # "pending" => order'[o].status # "pending"
     /\ \A a \in Authzs : authz[a] # "pending" => authz'[a] # "pending"]_vars

-----------------------------------------------------------------------------
(* The inductive invariant behind those properties: what the tables and the *)
(* copies the requests hold, stale or not, have in common.                  *)

\* Proven, and not stored as pending any more.
Settled(a) == Proven(a) /\ authz[a] # "pending"

StoredInv ==
  /\ \A c \in Challenges : chal[c] = "valid" => c \in validated
  /\ \A a \in Authzs : authz[a] = "valid" => Proven(a)
  /\ \A o \in Orders :
       order[o].status \in {"ready", "valid"} => \A a \in AuthzsOf(o) : Settled(a)

IssuedInv ==
  /\ IssuedOnlyIfAuthorized
  /\ \A i, j \in issued : i.cert = j.cert => i = j
  /\ \A c \in Certs : certs[c] # None => [cert |-> c, order |-> certs[c]] \in issued

\* A certificate ID and a status that may be saved together.
CertFits(status, cert, o) ==
  /\ status = "valid" <=> cert # None
  /\ status = "valid" => certs[cert] = o /\ cert \in serials

CertInv == \A o \in Orders : CertFits(order[o].status, order[o].cert, o)

OrderLabels == {"UpdateStatus", "NextAuthz", "UpdateOrder", "saveOrder", "Sign",
                "CreateCertificate", "saveSerial"}

AuthzLabels == {"GetChallenges", "AuthzUpdateStatus", "UpdateAuthorization",
                "saveAuthorization"}

ChallengeLabels == {"Validate", "UpdateChallenge", "saveChallenge"}

ChallengeCopyInv(l) ==
  /\ l.pc \in ChallengeLabels => l.cid \in Challenges
  /\ l.cstatus = "valid" => l.cid \in validated

AuthzCopyInv(l) ==
  l.pc \in AuthzLabels =>
    /\ l.aid \in Authzs
    /\ l.unread \subseteq ChallengesOf(l.aid)
    /\ l.proven \/ l.astatus = "valid" => Proven(l.aid)
    /\ l.pc \in {"GetChallenges", "AuthzUpdateStatus"} /\ l.astatus # "pending" =>
         authz[l.aid] # "pending"
    /\ l.pc \in {"UpdateAuthorization", "saveAuthorization"} => l.astatus # "pending"

\* A request in the loop of Order.UpdateStatus has settled the authorizations it
\* is done with, unless it counted one that is not valid.
LoopInv(l) ==
  l.pc = "NextAuthz" \/ (l.pc \in AuthzLabels /\ l.kind # "GetAuthorization") =>
    /\ l.oid \in Orders
    /\ l.ostatus = "pending"
    /\ l.count \subseteq {"valid"} =>
         \A a \in AuthzsOf(l.oid) \ l.todo : Settled(a)

OrderCopyInv(l) ==
  /\ l.pc \in OrderLabels \/ l.ostatus # "pending" => l.oid \in Orders
  /\ l.ostatus \in {"ready", "valid"} => \A a \in AuthzsOf(l.oid) : Settled(a)
  /\ CertFits(l.ostatus, l.ocert, l.oid)
  /\ l.pc \in {"UpdateOrder", "saveOrder"} => l.ostatus # "pending"
  /\ l.pc \in {"Sign", "CreateCertificate", "saveSerial"} => l.ostatus = "ready"
  /\ l.pc \in {"CreateCertificate", "saveSerial"} =>
       [cert |-> l.cert, order |-> l.oid] \in issued
  /\ l.pc = "saveSerial" => certs[l.cert] = l.oid

CopyInv(l) == ChallengeCopyInv(l) /\ AuthzCopyInv(l) /\ LoopInv(l) /\ OrderCopyInv(l)

Inv ==
  /\ TypeOK
  /\ StoredInv
  /\ IssuedInv
  /\ CertInv
  /\ \A p \in Procs : CopyInv(loc[p])

-----------------------------------------------------------------------------
(* The status machine of AcmeStatus, which the handlers implement while they *)
(* do not overlap.                                                          *)

OrderStatuses == [o \in Orders |-> order[o].status]

Abstract == INSTANCE AcmeStatus WITH order <- OrderStatuses

\* One request at a time.
Serial == \A p, q \in Procs : p = q

\* With one request at a time the handlers implement the status machine that
\* their switch statements spell out: every stored status change is one of its
\* steps, across failures of the requests and expiry.
StatusMachine == Abstract!Spec
====
