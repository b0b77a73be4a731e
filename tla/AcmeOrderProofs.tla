-------------------------- MODULE AcmeOrderProofs --------------------------
(***************************************************************************)
(* Proofs of the safety properties of AcmeOrder, for any number of requests, *)
(* orders, authorizations, challenges and certificates.                    *)
(*                                                                         *)
(* A request decides on copies that can be old when it writes.  Inv says of *)
(* every copy what stays true however old it is (CopyInv); it rests on what *)
(* no step undoes (Grows), so that a step of one request keeps the copies   *)
(* of all others (CopyGrows), and a write is judged by the copy behind it.  *)
(*                                                                         *)
(* While requests do not overlap the copies are what is stored (AllFresh),  *)
(* and the handlers implement the status machine of AcmeStatus.             *)
(***************************************************************************)
EXTENDS AcmeOrder, TLAPS

(* A leaf is Zenon's unless it names another prover.                        *)
USE ZenonT(60)

\* What no step undoes: validations, signatures, stored certificates, and the
\* end of an authorization's pending status.
Grows ==
  /\ validated \subseteq validated'
  /\ issued \subseteq issued'
  /\ serials \subseteq serials'
  /\ \A a \in Authzs : authz[a] # "pending" => authz'[a] # "pending"
  /\ \A c \in Certs : certs[c] # None => certs'[c] = certs[c]

\* A copy held by a request stays consistent while the tables only grow.
LEMMA CopyGrows ==
  ASSUME TypeOK, Grows, NEW l \in Locals, CopyInv(l)
  PROVE  CopyInv(l)'
<1>1. ChallengeCopyInv(l)'
  BY DEF TypeOK, Grows, CopyInv, ChallengeCopyInv
<1>2. AuthzCopyInv(l)'
  BY DEF TypeOK, Grows, CopyInv, AuthzCopyInv, Proven
<1>3. LoopInv(l)'
  BY DEF TypeOK, Grows, CopyInv, LoopInv, Settled, Proven, AuthzsOf
<1>4. OrderCopyInv(l)'
  <2>1. ASSUME l.ostatus \in {"ready", "valid"}, NEW a \in AuthzsOf(l.oid)
        PROVE  Settled(a)'
    BY <2>1 DEF Grows, CopyInv, OrderCopyInv, Settled, Proven, AuthzsOf
  <2>2. CertFits(l.ostatus, l.ocert, l.oid)'
    BY NoneAssumption DEF Grows, CopyInv, OrderCopyInv, CertFits, Locals
  <2>3. l.pc = "saveSerial" => certs'[l.cert] = l.oid
    BY NoneAssumption DEF TypeOK, Grows, CopyInv, OrderCopyInv, OrderLabels
  <2>4. QED
    BY <2>1, <2>2, <2>3 DEF Grows, CopyInv, OrderCopyInv
<1>5. QED
  BY <1>1, <1>2, <1>3, <1>4 DEF CopyInv

\* A step of p that changes only its locals keeps the invariant if the new
\* locals are consistent.
LEMMA LocalStep ==
  ASSUME Inv, NEW p \in Procs, NEW l \in Locals, CopyInv(l),
         loc' = [loc EXCEPT ![p] = l],
         UNCHANGED <<db, expired, issued, validated>>
  PROVE  Inv'
<1>1. TypeOK'
  BY DEF Inv, TypeOK, db
<1>2. StoredInv' /\ IssuedInv' /\ CertInv'
  BY DEF Inv, StoredInv, IssuedInv, IssuedOnlyIfAuthorized, CertInv, CertFits,
         Settled, Proven, db
<1>3. ASSUME NEW q \in Procs PROVE CopyInv(loc[q])'
  <2>1. PICK k \in Locals : k = loc'[q]
    BY DEF Inv, TypeOK
  <2>2. CopyInv(k)
    BY <2>1 DEF Inv, TypeOK
  <2>3. CopyInv(k)'
    BY <2>2, CopyGrows DEF Inv, Grows, db
  <2>4. QED
    BY <2>1, <2>3
<1>4. QED
  BY <1>1, <1>2, <1>3 DEF Inv

\* A step of p that writes a table or a history keeps the invariant if the tables
\* only grow, their own invariants hold after it, and so do the new locals of p.
LEMMA GrowStep ==
  ASSUME Inv, NEW p \in Procs, NEW l \in Locals,
         loc' = [loc EXCEPT ![p] = l],
         Grows, TypeOK', StoredInv', IssuedInv', CertInv', CopyInv(l)'
  PROVE  Inv'
<1>1. ASSUME NEW q \in Procs PROVE CopyInv(loc[q])'
  <2>1. PICK k \in Locals : k = loc'[q]
    BY DEF Inv, TypeOK
  <2>2. CASE q = p
    BY <2>1, <2>2 DEF Inv, TypeOK
  <2>3. CASE q # p
    <3>1. CopyInv(k)
      BY <2>1, <2>3 DEF Inv, TypeOK
    <3>2. CopyInv(k)'
      BY <3>1, CopyGrows DEF Inv
    <3>3. QED
      BY <2>1, <3>2
  <2>4. QED
    BY <2>2, <2>3
<1>2. QED
  BY <1>1 DEF Inv

\* A request that has read nothing holds no copy.
LEMMA IdleConsistent == Idle \in Locals /\ CopyInv(Idle)
BY NoneAssumption
   DEF Idle, Locals, Labels, Kinds, Row, RowOf, OrderStatus, AuthzStatus, CopyInv,
       ChallengeCopyInv, AuthzCopyInv, LoopInv, OrderCopyInv, CertFits,
       ChallengeLabels, AuthzLabels, OrderLabels

\* At first every order and authorization is pending and no request is served.
LEMMA InitInv == Init => Inv
<1> SUFFICES ASSUME Init PROVE Inv
  OBVIOUS
<1>2. TypeOK
  BY IdleConsistent DEF Init, TypeOK, Row, RowOf, OrderStatus, AuthzStatus
<1>3. StoredInv /\ IssuedInv /\ CertInv
  BY NoneAssumption DEF Init, StoredInv, IssuedInv, IssuedOnlyIfAuthorized, CertInv, CertFits, RowOf
<1>4. QED
  BY <1>2, <1>3, IdleConsistent DEF Init, Inv

\* A request that responds leaves consistent locals behind.
LEMMA RespondStep ==
  ASSUME Inv, NEW p \in Procs, Respond(p),
         UNCHANGED <<db, expired, issued, validated>>
  PROVE  Inv'
BY IdleConsistent, LocalStep DEF Respond

\* Order.UpdateStatus decides that an expired order is invalid.
LEMMA OrderExpiredStep ==
  ASSUME Inv, NEW p \in Procs, OrderExpired(p)
  PROVE  Inv'
<1> DEFINE l == [loc[p] EXCEPT !.pc = "UpdateOrder", !.ostatus = "invalid"]
<1>1. loc[p] \in Locals /\ CopyInv(loc[p])
  BY DEF Inv, TypeOK
<1>2. l \in Locals
  <2>1. "UpdateOrder" \in Labels /\ "invalid" \in OrderStatus
    BY <1>1 DEF Labels, OrderStatus, AuthzStatus
  <2>2. QED
    BY <1>1, <2>1 DEF Locals
<1>3. CopyInv(l)
  <2>1. ChallengeCopyInv(l) /\ AuthzCopyInv(l)
    BY <1>1 DEF OrderExpired, At, CopyInv, ChallengeCopyInv, AuthzCopyInv, Locals, ChallengeLabels, AuthzLabels
  <2>2. LoopInv(l)
    BY <1>1 DEF OrderExpired, At, CopyInv, LoopInv, Locals, AuthzLabels
  <2>3. OrderCopyInv(l)
    BY <1>1 DEF OrderExpired, At, CopyInv, OrderCopyInv, CertFits, Locals, OrderLabels
  <2>4. QED
    BY <2>1, <2>2, <2>3 DEF CopyInv
<1>4. loc' = [loc EXCEPT ![p] = l]
  BY <1>1 DEF OrderExpired, Locals
<1>5. QED
  BY <1>2, <1>3, <1>4, LocalStep DEF OrderExpired

\* Order.UpdateStatus of a pending order starts on its authorizations.
LEMMA OrderPendingStep ==
  ASSUME Inv, NEW p \in Procs, OrderPending(p)
  PROVE  Inv'
<1> DEFINE l == [loc[p] EXCEPT !.pc = "NextAuthz", !.todo = AuthzsOf(loc[p].oid)]
<1>1. loc[p] \in Locals /\ CopyInv(loc[p])
  BY DEF Inv, TypeOK
<1>2. l \in Locals
  <2>1. "NextAuthz" \in Labels /\ AuthzsOf(loc[p].oid) \in SUBSET Authzs
    BY <1>1 DEF Labels, AuthzsOf
  <2>2. QED
    BY <1>1, <2>1 DEF Locals
<1>3. CopyInv(l)
  <2>1. ChallengeCopyInv(l) /\ AuthzCopyInv(l)
    BY <1>1 DEF OrderPending, At, CopyInv, ChallengeCopyInv, AuthzCopyInv, Locals, ChallengeLabels, AuthzLabels
  <2>2. LoopInv(l)
    BY <1>1 DEF OrderPending, At, CopyInv, LoopInv, Locals, AuthzLabels, OrderCopyInv, OrderLabels
  <2>3. OrderCopyInv(l)
    BY <1>1 DEF OrderPending, At, CopyInv, OrderCopyInv, CertFits, Locals, OrderLabels
  <2>4. QED
    BY <2>1, <2>2, <2>3 DEF CopyInv
<1>4. loc' = [loc EXCEPT ![p] = l]
  BY <1>1 DEF OrderPending, Locals
<1>5. QED
  BY <1>2, <1>3, <1>4, LocalStep DEF OrderPending

\* UpdateOrder reads the row that its compare-and-swap will expect.
LEMMA UpdateOrderStep ==
  ASSUME Inv, NEW p \in Procs, UpdateOrder(p)
  PROVE  Inv'
<1> DEFINE l == [loc[p] EXCEPT !.pc = "saveOrder", !.old = order[loc[p].oid]]
<1>1. loc[p] \in Locals /\ CopyInv(loc[p])
  BY DEF Inv, TypeOK
<1>2. l \in Locals
  <2>1. "saveOrder" \in Labels /\ order[loc[p].oid] \in Row
    BY <1>1 DEF Inv, TypeOK, Labels, CopyInv, OrderCopyInv, UpdateOrder, At, OrderLabels
  <2>2. QED
    BY <1>1, <2>1 DEF Locals
<1>3. CopyInv(l)
  <2>1. ChallengeCopyInv(l) /\ AuthzCopyInv(l)
    BY <1>1 DEF UpdateOrder, At, CopyInv, ChallengeCopyInv, AuthzCopyInv, Locals, ChallengeLabels, AuthzLabels
  <2>2. LoopInv(l)
    BY <1>1 DEF UpdateOrder, At, CopyInv, LoopInv, Locals, AuthzLabels
  <2>3. OrderCopyInv(l)
    BY <1>1 DEF UpdateOrder, At, CopyInv, OrderCopyInv, CertFits, Locals, OrderLabels
  <2>4. QED
    BY <2>1, <2>2, <2>3 DEF CopyInv
<1>4. loc' = [loc EXCEPT ![p] = l]
  BY <1>1 DEF UpdateOrder, Locals
<1>5. QED
  BY <1>2, <1>3, <1>4, LocalStep DEF UpdateOrder

\* UpdateAuthorization reads the row that its compare-and-swap will expect.
LEMMA UpdateAuthorizationStep ==
  ASSUME Inv, NEW p \in Procs, UpdateAuthorization(p)
  PROVE  Inv'
<1> DEFINE l == [loc[p] EXCEPT !.pc = "saveAuthorization", !.old = RowOf(authz[loc[p].aid])]
<1>1. loc[p] \in Locals /\ CopyInv(loc[p])
  BY DEF Inv, TypeOK
<1>2. l \in Locals
  <2>1. "saveAuthorization" \in Labels /\ RowOf(authz[loc[p].aid]) \in Row
    BY <1>1 DEF Inv, TypeOK, Labels, CopyInv, AuthzCopyInv, UpdateAuthorization, At, AuthzLabels,
              Row, RowOf, OrderStatus
  <2>2. QED
    BY <1>1, <2>1 DEF Locals
<1>3. CopyInv(l)
  <2>1. ChallengeCopyInv(l) /\ AuthzCopyInv(l)
    BY <1>1 DEF UpdateAuthorization, At, CopyInv, ChallengeCopyInv, AuthzCopyInv, Locals, ChallengeLabels, AuthzLabels
  <2>2. LoopInv(l)
    BY <1>1 DEF UpdateAuthorization, At, CopyInv, LoopInv, Locals, AuthzLabels
  <2>3. OrderCopyInv(l)
    BY <1>1 DEF UpdateAuthorization, At, CopyInv, OrderCopyInv, CertFits, Locals, OrderLabels
  <2>4. QED
    BY <2>1, <2>2, <2>3 DEF CopyInv
<1>4. loc' = [loc EXCEPT ![p] = l]
  BY <1>1 DEF UpdateAuthorization, Locals
<1>5. QED
  BY <1>2, <1>3, <1>4, LocalStep DEF UpdateAuthorization

\* UpdateChallenge reads the row that its compare-and-swap will expect.
LEMMA UpdateChallengeStep ==
  ASSUME Inv, NEW p \in Procs, UpdateChallenge(p)
  PROVE  Inv'
<1> DEFINE l == [loc[p] EXCEPT !.pc = "saveChallenge", !.old = RowOf(chal[loc[p].cid])]
<1>1. loc[p] \in Locals /\ CopyInv(loc[p])
  BY DEF Inv, TypeOK
<1>2. l \in Locals
  <2>1. "saveChallenge" \in Labels /\ RowOf(chal[loc[p].cid]) \in Row
    BY <1>1 DEF Inv, TypeOK, Labels, CopyInv, ChallengeCopyInv, UpdateChallenge, At, ChallengeLabels,
              Row, RowOf, OrderStatus
  <2>2. QED
    BY <1>1, <2>1 DEF Locals
<1>3. CopyInv(l)
  <2>1. ChallengeCopyInv(l) /\ AuthzCopyInv(l)
    BY <1>1 DEF UpdateChallenge, At, CopyInv, ChallengeCopyInv, AuthzCopyInv, Locals, ChallengeLabels, AuthzLabels
  <2>2. LoopInv(l)
    BY <1>1 DEF UpdateChallenge, At, CopyInv, LoopInv, Locals, AuthzLabels
  <2>3. OrderCopyInv(l)
    BY <1>1 DEF UpdateChallenge, At, CopyInv, OrderCopyInv, CertFits, Locals, OrderLabels
  <2>4. QED
    BY <2>1, <2>2, <2>3 DEF CopyInv
<1>4. loc' = [loc EXCEPT ![p] = l]
  BY <1>1 DEF UpdateChallenge, Locals
<1>5. QED
  BY <1>2, <1>3, <1>4, LocalStep DEF UpdateChallenge

\* Authorization.UpdateStatus decides on valid only after it read a valid challenge.
LEMMA AuthzDecisionStep ==
  ASSUME Inv, NEW p \in Procs, NEW st \in {"valid", "invalid"},
         At(p, "AuthzUpdateStatus"),
         st = "valid" => loc[p].proven,
         loc' = [loc EXCEPT ![p].pc = "UpdateAuthorization", ![p].astatus = st],
         UNCHANGED <<db, expired, issued, validated>>
  PROVE  Inv'
<1> DEFINE l == [loc[p] EXCEPT !.pc = "UpdateAuthorization", !.astatus = st]
<1>1. loc[p] \in Locals /\ CopyInv(loc[p])
  BY DEF Inv, TypeOK
<1>2. l \in Locals
  <2>1. "UpdateAuthorization" \in Labels /\ st \in AuthzStatus
    BY DEF Labels, AuthzStatus
  <2>2. QED
    BY <1>1, <2>1 DEF Locals
<1>3. CopyInv(l)
  <2>1. ChallengeCopyInv(l) /\ AuthzCopyInv(l)
    BY <1>1 DEF At, CopyInv, ChallengeCopyInv, AuthzCopyInv, Locals, ChallengeLabels, AuthzLabels
  <2>2. LoopInv(l) /\ OrderCopyInv(l)
    BY <1>1 DEF At, CopyInv, LoopInv, OrderCopyInv, CertFits, Locals, AuthzLabels, OrderLabels
  <2>3. QED
    BY <2>1, <2>2 DEF CopyInv
<1>4. loc' = [loc EXCEPT ![p] = l]
  BY <1>1 DEF Locals
<1>5. QED
  BY <1>2, <1>3, <1>4, LocalStep

\* Authorization.UpdateStatus with a change to write.
LEMMA AuthzChangedStep ==
  ASSUME Inv, NEW p \in Procs, AuthzChanged(p)
  PROVE  Inv'
BY AuthzDecisionStep DEF AuthzChanged

\* The locals that AuthzDone leaves in the loop of Order.UpdateStatus are
\* consistent when the counted status, if valid, is that of a settled authorization.
LEMMA CountedConsistent ==
  ASSUME NEW r \in Locals, CopyInv(r)', r.pc \in AuthzLabels, r.kind # "GetAuthorization",
         NEW st \in AuthzStatus, st = "valid" => Settled(r.aid)'
  PROVE  Counted(r, st) \in Locals /\ CopyInv(Counted(r, st))'
<1> DEFINE l == Counted(r, st)
<1>1. l \in Locals
  <2>1. /\ "NextAuthz" \in Labels
        /\ "pending" \in AuthzStatus
        /\ RowOf("pending") \in Row
        /\ r.count \cup {st} \in SUBSET AuthzStatus
        /\ r.todo \ {r.aid} \in SUBSET Authzs
    BY DEF Labels, AuthzStatus, OrderStatus, Row, RowOf, Locals
  <2>2. QED
    BY <2>1 DEF Locals, Counted
<1>2. /\ l.pc = "NextAuthz" /\ l.oid = r.oid /\ l.ostatus = r.ostatus /\ l.ocert = r.ocert
      /\ l.count = r.count \cup {st} /\ l.todo = r.todo \ {r.aid}
      /\ l.cid = r.cid /\ l.cstatus = r.cstatus /\ l.cert = r.cert
  BY DEF Locals, Counted
<1>3. PICK k \in Locals : k = l
  BY <1>1
<1> HIDE DEF l
<1>4. ChallengeCopyInv(k)' /\ AuthzCopyInv(k)'
  BY <1>2, <1>3 DEF CopyInv, ChallengeCopyInv, AuthzCopyInv, ChallengeLabels, AuthzLabels
<1>5. LoopInv(k)'
  <2>1. r.oid \in Orders /\ r.ostatus = "pending"
    BY DEF CopyInv, LoopInv
  <2>2. ASSUME k.count \subseteq {"valid"}, NEW a \in AuthzsOf(k.oid) \ k.todo
        PROVE  Settled(a)'
    <3>1. CASE a = r.aid
      BY <3>1, <2>2, <1>2, <1>3
    <3>2. CASE a # r.aid
      <4>1. r.count \subseteq {"valid"} /\ a \in AuthzsOf(r.oid) \ r.todo
        BY <3>2, <2>2, <1>2, <1>3
      <4>2. QED
        BY <4>1 DEF CopyInv, LoopInv
    <3>3. QED
      BY <3>1, <3>2
  <2>3. QED
    BY <2>1, <2>2, <1>2, <1>3 DEF LoopInv, AuthzsOf
<1>6. OrderCopyInv(k)'
  BY <1>2, <1>3 DEF CopyInv, OrderCopyInv, LoopInv, CertFits, OrderLabels
<1>7. CopyInv(k)'
  BY <1>4, <1>5, <1>6 DEF CopyInv
<1>8. QED
  BY <1>1, <1>3, <1>7 DEF l

\* Authorization.UpdateStatus with nothing to write: the order counts what it read.
LEMMA AuthzUnchangedStep ==
  ASSUME Inv, NEW p \in Procs, AuthzUnchanged(p)
  PROVE  Inv'
<1>1. loc[p] \in Locals /\ CopyInv(loc[p]) /\ loc[p].astatus \in AuthzStatus
  BY DEF Inv, TypeOK, Locals
<1>2. CASE loc[p].kind = "GetAuthorization"
  BY <1>2, RespondStep DEF AuthzUnchanged, AuthzDone
<1>3. CASE loc[p].kind # "GetAuthorization"
  <2>1. PICK r \in Locals, st \in AuthzStatus : r = loc[p] /\ st = loc[p].astatus
    BY <1>1
  <2>2. Grows
    BY DEF AuthzUnchanged, db, Grows
  <2>3. CopyInv(r)'
    BY <1>1, <2>1, <2>2, CopyGrows DEF Inv
  <2>4. st = "valid" => Settled(r.aid)'
    BY <1>1, <2>1 DEF AuthzUnchanged, db, At, CopyInv, AuthzCopyInv, AuthzLabels, Settled, Proven
  <2>5. r.pc \in AuthzLabels
    BY <2>1 DEF AuthzUnchanged, At, AuthzLabels
  <2>6. Counted(r, st) \in Locals /\ CopyInv(Counted(r, st))'
    BY <1>3, <2>1, <2>3, <2>4, <2>5, CountedConsistent
  <2>7. PICK l \in Locals : l = Counted(r, st)
    BY <2>6
  <2>8. loc' = [loc EXCEPT ![p] = l]
    BY <1>3, <2>1, <2>7 DEF AuthzUnchanged, AuthzDone
  <2>9. TypeOK' /\ StoredInv' /\ IssuedInv' /\ CertInv'
    BY <2>8 DEF AuthzUnchanged, db, Inv, TypeOK, StoredInv, IssuedInv,
                IssuedOnlyIfAuthorized, CertInv, CertFits, Settled, Proven
  <2>10. QED
    BY <2>2, <2>6, <2>7, <2>8, <2>9, GrowStep
<1>4. QED
  BY <1>2, <1>3

\* The locals of a request that has just read an authorization.
LEMMA ReadAuthzConsistent ==
  ASSUME Inv, NEW r \in Locals, CopyInv(r), NEW a \in Authzs,
         r.kind = "GetAuthorization" \/ r.pc = "NextAuthz"
  PROVE  ReadAuthz(r, a) \in Locals /\ CopyInv(ReadAuthz(r, a))
<1> DEFINE l == ReadAuthz(r, a)
           pc == IF ChallengesOf(a) = {} THEN "AuthzUpdateStatus" ELSE "GetChallenges"
<1>1. l \in Locals
  <2>1. /\ pc \in Labels
        /\ authz[a] \in AuthzStatus
        /\ ChallengesOf(a) \in SUBSET Challenges
    BY DEF Labels, Inv, TypeOK, ChallengesOf
  <2> HIDE DEF pc
  <2>2. [r EXCEPT !.pc = pc, !.aid = a, !.astatus = authz[a],
                  !.unread = ChallengesOf(a), !.proven = FALSE] \in Locals
    BY <2>1 DEF Locals
  <2>3. QED
    BY <2>2 DEF ReadAuthz, pc
<1>2. /\ l.pc \in {"AuthzUpdateStatus", "GetChallenges"}
      /\ l.aid = a /\ l.astatus = authz[a] /\ l.unread = ChallengesOf(a) /\ l.proven = FALSE
      /\ l.kind = r.kind /\ l.oid = r.oid /\ l.ostatus = r.ostatus /\ l.ocert = r.ocert
      /\ l.count = r.count /\ l.todo = r.todo
      /\ l.cid = r.cid /\ l.cstatus = r.cstatus /\ l.cert = r.cert
  BY DEF Locals, ReadAuthz
<1> HIDE DEF l
<1>3. ChallengeCopyInv(l) /\ AuthzCopyInv(l)
  BY <1>2 DEF Inv, StoredInv, CopyInv, ChallengeCopyInv, AuthzCopyInv, ChallengeLabels, AuthzLabels
<1>4. LoopInv(l)
  BY <1>2 DEF CopyInv, LoopInv, AuthzLabels
<1>5. OrderCopyInv(l)
  BY <1>2 DEF CopyInv, OrderCopyInv, CertFits, OrderLabels
<1>6. QED
  BY <1>1, <1>3, <1>4, <1>5 DEF CopyInv, l

\* Order.UpdateStatus reads its next authorization.
LEMMA NextAuthzStep ==
  ASSUME Inv, NEW p \in Procs, NextAuthz(p)
  PROVE  Inv'
<1>1. loc[p] \in Locals /\ CopyInv(loc[p]) /\ loc[p].todo \subseteq Authzs
  BY DEF Inv, TypeOK, Locals
<1>2. PICK a \in Authzs : loc' = [loc EXCEPT ![p] = ReadAuthz(loc[p], a)]
  BY <1>1 DEF NextAuthz
<1>3. QED
  BY <1>1, <1>2, ReadAuthzConsistent, LocalStep DEF NextAuthz, At

\* The handler GetAuthorization reads the authorization.
LEMMA GetAuthorizationStep ==
  ASSUME Inv, NEW p \in Procs, NEW a \in Authzs, GetAuthorization(p, a)
  PROVE  Inv'
<1> DEFINE r == [Idle EXCEPT !.kind = "GetAuthorization"]
<1>1. r \in Locals /\ r.kind = "GetAuthorization"
  <2>1. "GetAuthorization" \in Kinds
    BY DEF Kinds
  <2>2. QED
    BY <2>1, IdleConsistent DEF Locals
<1>2. CopyInv(r)
  BY NoneAssumption
     DEF Idle, CopyInv, ChallengeCopyInv, AuthzCopyInv, LoopInv, OrderCopyInv, CertFits,
         ChallengeLabels, AuthzLabels, OrderLabels
<1> HIDE DEF r
<1>3. ReadAuthz(r, a) \in Locals /\ CopyInv(ReadAuthz(r, a))
  BY <1>1, <1>2, ReadAuthzConsistent
<1>4. QED
  BY <1>3, LocalStep DEF GetAuthorization, r

\* GetAuthorization of the database reads the challenges one after the other.
LEMMA GetChallengesStep ==
  ASSUME Inv, NEW p \in Procs, GetChallenges(p)
  PROVE  Inv'
<1>1. loc[p] \in Locals /\ CopyInv(loc[p]) /\ loc[p].pc = "GetChallenges"
  BY DEF Inv, TypeOK, GetChallenges, At
<1>2. PICK c \in loc[p].unread :
        loc' = [loc EXCEPT
          ![p].pc = IF loc[p].unread = {c} THEN "AuthzUpdateStatus" ELSE @,
          ![p].unread = @ \ {c},
          ![p].proven = @ \/ chal[c] = "valid"]
  BY DEF GetChallenges
<1> DEFINE pc == IF loc[p].unread = {c} THEN "AuthzUpdateStatus" ELSE "GetChallenges"
           b == loc[p].proven \/ chal[c] = "valid"
           l == [loc[p] EXCEPT !.pc = pc, !.unread = @ \ {c}, !.proven = b]
<1>3. l \in Locals
  <2>1. /\ pc \in Labels
        /\ b \in BOOLEAN
        /\ loc[p].unread \ {c} \in SUBSET Challenges
    BY <1>1 DEF Labels, Locals
  <2> HIDE DEF pc, b
  <2>2. QED
    BY <1>1, <2>1 DEF Locals
<1>4. loc' = [loc EXCEPT ![p] = l]
  BY <1>1, <1>2 DEF Locals
<1>5. b => Proven(loc[p].aid)
  BY <1>1 DEF Inv, StoredInv, CopyInv, AuthzCopyInv, AuthzLabels, Proven, ChallengesOf
<1>6. pc \in {"AuthzUpdateStatus", "GetChallenges"}
  OBVIOUS
<1> HIDE DEF pc, b
<1>7. CopyInv(l)
  <2>1. ChallengeCopyInv(l)
    BY <1>1, <1>6 DEF CopyInv, ChallengeCopyInv, Locals, ChallengeLabels
  <2>2. AuthzCopyInv(l)
    BY <1>1, <1>5, <1>6 DEF CopyInv, AuthzCopyInv, Locals, AuthzLabels
  <2>3. LoopInv(l) /\ OrderCopyInv(l)
    BY <1>1, <1>6 DEF CopyInv, LoopInv, OrderCopyInv, CertFits, Locals, AuthzLabels, OrderLabels
  <2>4. QED
    BY <2>1, <2>2, <2>3 DEF CopyInv
<1>8. QED
  BY <1>3, <1>4, <1>7, LocalStep DEF GetChallenges

\* GetOrder and FinalizeOrder read the order.
LEMMA ReadOrderStep ==
  ASSUME Inv, NEW p \in Procs, NEW o \in Orders, NEW kind \in Kinds, ReadOrder(p, kind, o),
         kind # "GetAuthorization"
  PROVE  Inv'
<1> DEFINE l == [Idle EXCEPT !.pc = "UpdateStatus", !.kind = kind, !.oid = o,
                             !.ostatus = order[o].status, !.ocert = order[o].cert]
<1>1. l \in Locals
  <2>1. /\ "UpdateStatus" \in Labels
        /\ order[o].status \in OrderStatus
        /\ order[o].cert \in Certs \cup {None}
    BY DEF Labels, Inv, TypeOK, Row
  <2>2. QED
    BY <2>1, IdleConsistent DEF Locals
<1>2. CopyInv(l)
  BY NoneAssumption, SMTT(60)
     DEF Inv, StoredInv, CertInv, Idle, CopyInv, ChallengeCopyInv, AuthzCopyInv, LoopInv,
         OrderCopyInv, CertFits, ChallengeLabels, AuthzLabels, OrderLabels
<1>3. QED
  BY <1>1, <1>2, LocalStep DEF ReadOrder

\* The handler GetChallenge reads the challenge.
LEMMA GetChallengeStep ==
  ASSUME Inv, NEW p \in Procs, NEW c \in Challenges, GetChallenge(p, c)
  PROVE  Inv'
<1> DEFINE l == [Idle EXCEPT !.pc = "Validate", !.kind = "GetChallenge", !.cid = c]
<1>1. l \in Locals
  <2>1. "Validate" \in Labels /\ "GetChallenge" \in Kinds
    BY DEF Labels, Kinds
  <2>2. QED
    BY <2>1, IdleConsistent DEF Locals
<1>2. CopyInv(l)
  BY NoneAssumption
     DEF Idle, CopyInv, ChallengeCopyInv, AuthzCopyInv, LoopInv,
         OrderCopyInv, CertFits, ChallengeLabels, AuthzLabels, OrderLabels
<1>3. QED
  BY <1>1, <1>2, LocalStep DEF GetChallenge

\* A ready copy of an order is one that Finalize may sign for.
LEMMA ToSignConsistent ==
  ASSUME NEW r \in Locals, CopyInv(r), r.pc \in OrderLabels, r.ostatus = "ready"
  PROVE  ToSign(r) \in Locals /\ CopyInv(ToSign(r))
<1> DEFINE l == ToSign(r)
<1>1. l \in Locals
  <2>1. "Sign" \in Labels /\ RowOf("pending") \in Row /\ {} \in SUBSET AuthzStatus
    BY DEF Labels, Row, RowOf, OrderStatus, AuthzStatus
  <2>2. QED
    BY <2>1 DEF Locals, ToSign
<1>2. CopyInv(l)
  BY DEF ToSign, Locals, CopyInv, ChallengeCopyInv, AuthzCopyInv, LoopInv, OrderCopyInv,
         CertFits, ChallengeLabels, AuthzLabels, OrderLabels
<1>3. QED
  BY <1>1, <1>2

\* Order.UpdateStatus of an order with nothing to decide.
LEMMA OrderUnchangedStep ==
  ASSUME Inv, NEW p \in Procs, OrderUnchanged(p)
  PROVE  Inv'
<1>1. loc[p] \in Locals /\ CopyInv(loc[p]) /\ loc[p].pc \in OrderLabels
  BY DEF Inv, TypeOK, OrderUnchanged, At, OrderLabels
<1>2. CASE Respond(p)
  BY <1>2, RespondStep DEF OrderUnchanged
<1>3. CASE loc[p].ostatus = "ready" /\ loc' = [loc EXCEPT ![p] = ToSign(loc[p])]
  BY <1>1, <1>3, ToSignConsistent, LocalStep DEF OrderUnchanged
<1>4. QED
  BY <1>2, <1>3 DEF OrderUnchanged, UpdateStatusDone

\* Order.UpdateStatus decides from the authorizations it counted.
LEMMA AuthzsCountedStep ==
  ASSUME Inv, NEW p \in Procs, AuthzsCounted(p)
  PROVE  Inv'
<1>1. loc[p] \in Locals /\ CopyInv(loc[p]) /\ loc[p].pc = "NextAuthz" /\ loc[p].todo = {}
  BY DEF Inv, TypeOK, AuthzsCounted, At
<1> DEFINE st == StatusOfCount(loc[p].count)
<1>2. CASE st = "pending"
  BY <1>2, RespondStep DEF AuthzsCounted, UpdateStatusDone
<1>3. CASE st # "pending"
  <2> DEFINE l == [loc[p] EXCEPT !.pc = "UpdateOrder", !.ostatus = st, !.count = {}]
  <2>1. st \in {"invalid", "ready"}
    BY <1>3 DEF StatusOfCount
  <2>2. st = "ready" => \A a \in AuthzsOf(loc[p].oid) : Settled(a)
    <3>1. st = "ready" => loc[p].count \subseteq {"valid"}
      BY <1>1 DEF StatusOfCount, Locals, AuthzStatus
    <3>2. QED
      BY <1>1, <3>1 DEF CopyInv, LoopInv
  <2>3. loc' = [loc EXCEPT ![p] = l]
    BY <1>1, <1>3 DEF AuthzsCounted, Locals
  <2> HIDE DEF st
  <2>4. l \in Locals
    <3>1. "UpdateOrder" \in Labels /\ st \in OrderStatus /\ {} \in SUBSET AuthzStatus
      BY <2>1 DEF Labels, OrderStatus, AuthzStatus
    <3>2. QED
      BY <1>1, <3>1 DEF Locals
  <2>5. CopyInv(l)
    <3>1. ChallengeCopyInv(l) /\ AuthzCopyInv(l) /\ LoopInv(l)
      BY <1>1 DEF CopyInv, ChallengeCopyInv, AuthzCopyInv, LoopInv, Locals, ChallengeLabels, AuthzLabels
    <3>2. OrderCopyInv(l)
      BY <1>1, <2>1, <2>2 DEF CopyInv, LoopInv, OrderCopyInv, CertFits, Locals, OrderLabels
    <3>3. QED
      BY <3>1, <3>2 DEF CopyInv
  <2>6. QED
    BY <2>3, <2>4, <2>5, LocalStep DEF AuthzsCounted
<1>4. QED
  BY <1>2, <1>3

\* A step that writes a table or a history, and leaves p with locals that were
\* consistent before the step.
LEMMA WriteStep ==
  ASSUME Inv, NEW p \in Procs, NEW l \in Locals, CopyInv(l),
         loc' = [loc EXCEPT ![p] = l],
         Grows, TypeOK', StoredInv', IssuedInv', CertInv'
  PROVE  Inv'
BY CopyGrows, GrowStep DEF Inv

\* Challenge.Validate decides on a copy, and a validation is never undone.
LEMMA ValidateStep ==
  ASSUME Inv, NEW p \in Procs, Validate(p)
  PROVE  Inv'
<1>1. loc[p] \in Locals /\ CopyInv(loc[p]) /\ loc[p].pc = "Validate" /\ loc[p].cid \in Challenges
  BY DEF Inv, TypeOK, Validate, At, CopyInv, ChallengeCopyInv, ChallengeLabels
<1>2. PICK st \in AuthzStatus :
        /\ loc' = [loc EXCEPT ![p].pc = "UpdateChallenge", ![p].cstatus = st]
        /\ validated' = IF st = "valid" THEN validated \cup {loc[p].cid} ELSE validated
  BY <1>1, OwnersAssumption DEF Validate, Verdicts, AuthzStatus, ChallengeTypes
<1> DEFINE e == [loc[p] EXCEPT !.pc = "UpdateChallenge", !.cstatus = st]
<1>3. e \in Locals
  <2>1. "UpdateChallenge" \in Labels
    BY DEF Labels
  <2>2. QED
    BY <1>1, <2>1 DEF Locals
<1>4. loc' = [loc EXCEPT ![p] = e]
  BY <1>1, <1>2 DEF Locals
<1>5. PICK l \in Locals : l = e
  BY <1>3
<1>6. Grows
  BY <1>2 DEF Grows, Validate, db
<1>7. TypeOK' /\ StoredInv' /\ IssuedInv' /\ CertInv'
  <2>1. TypeOK'
    BY <1>1, <1>2, <1>3, <1>4 DEF Validate, db, Inv, TypeOK
  <2>2. QED
    <3>1. StoredInv'
      BY <1>6 DEF Grows, Validate, db, Inv, StoredInv, Settled, Proven, AuthzsOf
    <3>2. IssuedInv' /\ CertInv'
      BY <1>6 DEF Grows, Validate, db, Inv, Proven, IssuedInv,
                  IssuedOnlyIfAuthorized, CertInv, CertFits, AuthzsOf
    <3>3. QED
      BY <2>1, <3>1, <3>2
<1>8. CopyInv(l)'
  <2>1. PICK r \in Locals : r = loc[p]
    BY <1>1
  <2>2. CopyInv(r)'
    BY <1>1, <1>6, <2>1, CopyGrows DEF Inv
  <2>3. /\ l.pc = "UpdateChallenge" /\ l.cstatus = st /\ l.cid = r.cid
        /\ l.oid = r.oid /\ l.ostatus = r.ostatus /\ l.ocert = r.ocert
    BY <1>5, <2>1 DEF Locals
  <2>4. ChallengeCopyInv(l)'
    BY <1>1, <1>2, <2>1, <2>3 DEF ChallengeCopyInv
  <2>5. AuthzCopyInv(l)' /\ LoopInv(l)'
    BY <2>3 DEF AuthzCopyInv, LoopInv, AuthzLabels
  <2>6. OrderCopyInv(l)'
    BY <2>2, <2>3 DEF CopyInv, OrderCopyInv, CertFits, OrderLabels
  <2>7. QED
    BY <2>4, <2>5, <2>6 DEF CopyInv
<1>9. QED
  BY <1>4, <1>5, <1>6, <1>7, <1>8, GrowStep

\* The compare-and-swap of UpdateChallenge stores only what was validated as valid.
LEMMA saveChallengeStep ==
  ASSUME Inv, NEW p \in Procs, saveChallenge(p)
  PROVE  Inv'
<1>1. /\ CopyInv(loc[p]) /\ loc[p].cid \in Challenges /\ loc[p].cstatus \in AuthzStatus
      /\ loc[p].cstatus = "valid" => loc[p].cid \in validated
  BY DEF Inv, TypeOK, Locals, saveChallenge, At, CopyInv, ChallengeCopyInv, ChallengeLabels
<1>2. Grows
  BY DEF Grows, saveChallenge
<1>3. TypeOK'
  BY <1>1, IdleConsistent DEF saveChallenge, Respond, Inv, TypeOK
<1>4. StoredInv' /\ IssuedInv' /\ CertInv'
  BY <1>1 DEF saveChallenge, Inv, TypeOK, StoredInv, Settled, Proven, IssuedInv,
              IssuedOnlyIfAuthorized, CertInv, CertFits
<1>5. QED
  BY <1>2, <1>3, <1>4, IdleConsistent, WriteStep DEF saveChallenge, Respond

\* The compare-and-swap of UpdateAuthorization settles the authorization.
LEMMA saveAuthorizationStep ==
  ASSUME Inv, NEW p \in Procs, saveAuthorization(p)
  PROVE  Inv'
<1>1. /\ loc[p] \in Locals /\ CopyInv(loc[p]) /\ loc[p].pc \in AuthzLabels
      /\ loc[p].aid \in Authzs /\ loc[p].astatus \in {"valid", "invalid"}
      /\ loc[p].astatus = "valid" => Proven(loc[p].aid)
  BY DEF Inv, TypeOK, Locals, AuthzStatus, saveAuthorization, At, CopyInv, AuthzCopyInv, AuthzLabels
<1>2. CASE authz' = authz /\ Respond(p)
  BY <1>2, RespondStep DEF saveAuthorization, db
<1>3. CASE authz' = [authz EXCEPT ![loc[p].aid] = loc[p].astatus] /\ AuthzDone(p, loc[p].astatus)
  <2>1. Grows
    BY <1>1, <1>3 DEF Grows, saveAuthorization, Inv, TypeOK
  <2>2. \A a \in Authzs : Settled(a) => Settled(a)'
    BY <2>1 DEF Grows, Settled, Proven
  <2>3. StoredInv'
    <3>1. \A a \in Authzs : authz'[a] = "valid" => Proven(a)'
      BY <1>1, <1>3 DEF saveAuthorization, Inv, TypeOK, StoredInv, Proven
    <3>2. QED
      BY <2>2, <3>1 DEF saveAuthorization, Inv, StoredInv, AuthzsOf
  <2>4. IssuedInv' /\ CertInv'
    BY DEF saveAuthorization, Inv, Proven, IssuedInv, IssuedOnlyIfAuthorized, CertInv, CertFits
  <2>5. authz' \in [Authzs -> AuthzStatus]
    BY <1>1, <1>3 DEF Inv, TypeOK, AuthzStatus
  <2>6. CASE Respond(p)
    <3>1. TypeOK'
      BY <2>5, <2>6, IdleConsistent DEF saveAuthorization, Respond, Inv, TypeOK
    <3>2. QED
      BY <2>1, <2>3, <2>4, <2>6, <3>1, IdleConsistent, WriteStep DEF Respond
  <2>7. CASE /\ loc[p].kind # "GetAuthorization"
             /\ loc' = [loc EXCEPT ![p] = Counted(loc[p], loc[p].astatus)]
    <3>1. PICK r \in Locals, st \in AuthzStatus : r = loc[p] /\ st = loc[p].astatus
      BY <1>1 DEF AuthzStatus
    <3>2. CopyInv(r)'
      BY <1>1, <2>1, <3>1, CopyGrows DEF Inv
    <3>3. st = "valid" => Settled(r.aid)'
      BY <1>1, <1>3, <3>1 DEF Settled, Proven, saveAuthorization, Inv, TypeOK
    <3>4. Counted(r, st) \in Locals /\ CopyInv(Counted(r, st))'
      BY <1>1, <2>7, <3>1, <3>2, <3>3, CountedConsistent
    <3>5. PICK l \in Locals : l = Counted(r, st)
      BY <3>4
    <3>6. CopyInv(l)'
      BY <3>4, <3>5
    <3>7. TypeOK'
      BY <2>5, <2>7, <3>1, <3>4 DEF saveAuthorization, Inv, TypeOK
    <3>8. QED
      BY <2>1, <2>3, <2>4, <2>7, <3>1, <3>5, <3>6, <3>7, GrowStep
  <2>8. QED
    BY <1>3, <2>6, <2>7 DEF AuthzDone
<1>4. QED
  BY <1>2, <1>3 DEF saveAuthorization

\* The compare-and-swap of UpdateOrder stores what holds of the order by now.
LEMMA saveOrderStep ==
  ASSUME Inv, NEW p \in Procs, saveOrder(p)
  PROVE  Inv'
<1>1. /\ loc[p] \in Locals /\ CopyInv(loc[p]) /\ loc[p].pc \in OrderLabels
      /\ loc[p].oid \in Orders
      /\ loc[p].ostatus \in OrderStatus /\ loc[p].ocert \in Certs \cup {None}
  BY DEF Inv, TypeOK, Locals, saveOrder, At, CopyInv, OrderCopyInv, OrderLabels
<1>2. CASE order' = order /\ Respond(p)
  BY <1>2, RespondStep DEF saveOrder, db
<1>3. CASE /\ order' = [order EXCEPT ![loc[p].oid] =
                          [status |-> loc[p].ostatus, cert |-> loc[p].ocert]]
           /\ UpdateStatusDone(p, loc[p].ostatus)
  <2>1. Grows
    BY DEF Grows, saveOrder
  <2>2. order' \in [Orders -> Row]
    BY <1>1, <1>3 DEF Inv, TypeOK, Row
  <2>3. StoredInv'
    BY <1>1, <1>3
    DEF saveOrder, Inv, TypeOK, StoredInv, Settled, Proven, CopyInv, OrderCopyInv
  <2>4. IssuedInv'
    BY DEF saveOrder, Inv, Proven, IssuedInv, IssuedOnlyIfAuthorized
  <2>5. CertInv'
    BY <1>1, <1>3 DEF saveOrder, Inv, TypeOK, CertInv, CertFits, CopyInv, OrderCopyInv
  <2>6. CASE Respond(p)
    <3>1. TypeOK'
      BY <2>2, <2>6, IdleConsistent DEF saveOrder, Respond, Inv, TypeOK
    <3>2. QED
      BY <2>1, <2>3, <2>4, <2>5, <2>6, <3>1, IdleConsistent, WriteStep DEF Respond
  <2>7. CASE loc[p].ostatus = "ready" /\ loc' = [loc EXCEPT ![p] = ToSign(loc[p])]
    <3>1. ToSign(loc[p]) \in Locals /\ CopyInv(ToSign(loc[p]))
      BY <1>1, <2>7, ToSignConsistent
    <3>2. TypeOK'
      BY <2>2, <2>7, <3>1 DEF saveOrder, Inv, TypeOK
    <3>3. QED
      BY <2>1, <2>3, <2>4, <2>5, <2>7, <3>1, <3>2, WriteStep
  <2>8. QED
    BY <1>3, <2>6, <2>7 DEF UpdateStatusDone
<1>4. QED
  BY <1>2, <1>3 DEF saveOrder

\* Finalize signs for an order whose authorizations were valid when it was read.
LEMMA SignStep ==
  ASSUME Inv, NEW p \in Procs, Sign(p)
  PROVE  Inv'
<1>1. /\ loc[p] \in Locals /\ CopyInv(loc[p]) /\ loc[p].pc = "Sign"
      /\ loc[p].oid \in Orders /\ loc[p].ostatus = "ready"
      /\ \A a \in AuthzsOf(loc[p].oid) : Proven(a)
  BY DEF Inv, TypeOK, Sign, At, CopyInv, OrderCopyInv, OrderLabels, Settled
<1>2. PICK c \in Certs :
        /\ \A i \in issued : i.cert # c
        /\ issued' = issued \cup {[cert |-> c, order |-> loc[p].oid]}
        /\ loc' = [loc EXCEPT ![p].pc = "CreateCertificate", ![p].cert = c]
  BY DEF Sign
<1> DEFINE e == [loc[p] EXCEPT !.pc = "CreateCertificate", !.cert = c]
<1>3. e \in Locals
  <2>1. "CreateCertificate" \in Labels
    BY DEF Labels
  <2>2. QED
    BY <1>1, <2>1 DEF Locals
<1>4. loc' = [loc EXCEPT ![p] = e]
  BY <1>1, <1>2 DEF Locals
<1>5. PICK r \in Locals, l \in Locals : r = loc[p] /\ l = e
  BY <1>1, <1>3
<1>6. Grows
  BY <1>2 DEF Grows, Sign, db
<1>7. TypeOK'
  <2>1. issued' \subseteq [cert: Certs, order: Orders]
    BY <1>1, <1>2, SMTT(60) DEF Inv, TypeOK
  <2>2. loc' \in [Procs -> Locals]
    BY <1>3, <1>4 DEF Inv, TypeOK
  <2>3. QED
    BY <2>1, <2>2 DEF Sign, db, Inv, TypeOK
<1>8. StoredInv' /\ CertInv'
  BY DEF Sign, db, Inv, StoredInv, Settled, Proven, CertInv, CertFits
<1>9. IssuedInv'
  <2>1. IssuedOnlyIfAuthorized'
    BY <1>1, <1>2, SMTT(60) DEF Sign, db, Inv, IssuedInv, IssuedOnlyIfAuthorized, Proven
  <2>2. \A i, j \in issued' : i.cert = j.cert => i = j
    BY <1>2, SMTT(60) DEF Inv, IssuedInv
  <2>3. QED
    BY <1>2, <2>1, <2>2 DEF Sign, db, Inv, IssuedInv
<1>10. CopyInv(l)'
  <2>1. CopyInv(r)'
    BY <1>1, <1>5, <1>6, CopyGrows DEF Inv
  <2>2. /\ l.pc = "CreateCertificate" /\ l.cert = c
        /\ l.cid = r.cid /\ l.cstatus = r.cstatus
        /\ l.oid = r.oid /\ l.ostatus = r.ostatus /\ l.ocert = r.ocert
    BY <1>5 DEF Locals
  <2>3. ChallengeCopyInv(l)' /\ AuthzCopyInv(l)' /\ LoopInv(l)'
    BY <2>1, <2>2 DEF CopyInv, ChallengeCopyInv, AuthzCopyInv, LoopInv, ChallengeLabels, AuthzLabels
  <2>4. OrderCopyInv(l)'
    BY <1>1, <1>2, <1>5, <2>1, <2>2, SMTT(60) DEF CopyInv, OrderCopyInv, CertFits, OrderLabels
  <2>5. QED
    BY <2>3, <2>4 DEF CopyInv
<1>11. QED
  BY <1>4, <1>5, <1>6, <1>7, <1>8, <1>9, <1>10, GrowStep

\* CreateCertificate stores the certificate before the order names it.
LEMMA CreateCertificateStep ==
  ASSUME Inv, NEW p \in Procs, CreateCertificate(p)
  PROVE  Inv'
<1>1. /\ loc[p] \in Locals /\ CopyInv(loc[p]) /\ loc[p].pc = "CreateCertificate"
      /\ loc[p].oid \in Orders /\ loc[p].ostatus = "ready"
      /\ [cert |-> loc[p].cert, order |-> loc[p].oid] \in issued
  BY DEF Inv, TypeOK, CreateCertificate, At, CopyInv, OrderCopyInv, OrderLabels
<1>2. loc[p].cert \in Certs
  BY <1>1 DEF Inv, TypeOK
<1>3. certs[loc[p].cert] # None => certs[loc[p].cert] = loc[p].oid
  BY <1>1, <1>2 DEF Inv, IssuedInv
<1> DEFINE e == [loc[p] EXCEPT !.pc = "saveSerial"]
<1>4. e \in Locals
  <2>1. "saveSerial" \in Labels
    BY DEF Labels
  <2>2. QED
    BY <1>1, <2>1 DEF Locals
<1>5. loc' = [loc EXCEPT ![p] = e]
  BY <1>1 DEF CreateCertificate, Locals
<1>6. PICK r \in Locals, l \in Locals : r = loc[p] /\ l = e
  BY <1>1, <1>4
<1>7. Grows
  BY <1>2, <1>3 DEF Grows, CreateCertificate, Inv, TypeOK
<1>8. TypeOK'
  <2>1. certs' \in [Certs -> Orders \cup {None}]
    BY <1>1, <1>2 DEF CreateCertificate, Inv, TypeOK
  <2>2. loc' \in [Procs -> Locals]
    BY <1>4, <1>5 DEF Inv, TypeOK
  <2>3. QED
    BY <2>1, <2>2 DEF CreateCertificate, Inv, TypeOK
<1>9. StoredInv'
  BY DEF CreateCertificate, Inv, StoredInv, Settled, Proven
<1>10. CertInv'
  BY <1>7, NoneAssumption, SMTT(60) DEF CreateCertificate, Grows, Inv, TypeOK, Row, CertInv, CertFits
<1>11. IssuedInv'
  <2>1. IssuedOnlyIfAuthorized'
    BY DEF CreateCertificate, Inv, IssuedInv, IssuedOnlyIfAuthorized, Proven
  <2>2. \A c \in Certs : certs'[c] # None => [cert |-> c, order |-> certs'[c]] \in issued
    BY <1>1 DEF CreateCertificate, Inv, TypeOK, IssuedInv
  <2>3. QED
    BY <2>1, <2>2 DEF CreateCertificate, Inv, IssuedInv
<1>12. CopyInv(l)'
  <2>1. CopyInv(r)'
    BY <1>1, <1>6, <1>7, CopyGrows DEF Inv
  <2>2. /\ l.pc = "saveSerial" /\ l.cert = r.cert
        /\ l.cid = r.cid /\ l.cstatus = r.cstatus
        /\ l.oid = r.oid /\ l.ostatus = r.ostatus /\ l.ocert = r.ocert
    BY <1>6 DEF Locals
  <2>3. ChallengeCopyInv(l)' /\ AuthzCopyInv(l)' /\ LoopInv(l)'
    BY <2>1, <2>2 DEF CopyInv, ChallengeCopyInv, AuthzCopyInv, LoopInv, ChallengeLabels, AuthzLabels
  <2>4. certs'[l.cert] = l.oid
    BY <1>2, <1>6, <2>2 DEF CreateCertificate, Inv, TypeOK
  <2>5. OrderCopyInv(l)'
    BY <1>1, <1>6, <2>1, <2>2, <2>4 DEF CopyInv, OrderCopyInv, CertFits, OrderLabels
  <2>6. QED
    BY <2>3, <2>5 DEF CopyInv
<1>13. QED
  BY <1>5, <1>6, <1>7, <1>8, <1>9, <1>10, <1>11, <1>12, GrowStep

\* CreateCertificate stores the serial number, and Finalize goes on to the order.
LEMMA saveSerialStep ==
  ASSUME Inv, NEW p \in Procs, saveSerial(p)
  PROVE  Inv'
<1>1. /\ loc[p] \in Locals /\ CopyInv(loc[p]) /\ loc[p].pc = "saveSerial"
      /\ loc[p].oid \in Orders /\ loc[p].ostatus = "ready"
      /\ [cert |-> loc[p].cert, order |-> loc[p].oid] \in issued
      /\ certs[loc[p].cert] = loc[p].oid
  BY DEF Inv, TypeOK, saveSerial, At, CopyInv, OrderCopyInv, OrderLabels
<1>2. loc[p].cert \in Certs
  BY <1>1 DEF Inv, TypeOK
<1> DEFINE e == [loc[p] EXCEPT !.pc = "UpdateOrder", !.ostatus = "valid",
                               !.ocert = loc[p].cert, !.cert = None]
<1>3. e \in Locals
  <2>1. "UpdateOrder" \in Labels /\ "valid" \in OrderStatus
    BY DEF Labels, OrderStatus, AuthzStatus
  <2>2. QED
    BY <1>1, <1>2, <2>1 DEF Locals
<1>4. loc' = [loc EXCEPT ![p] = e]
  BY <1>1 DEF saveSerial, Locals
<1>5. PICK r \in Locals, l \in Locals : r = loc[p] /\ l = e
  BY <1>1, <1>3
<1>6. Grows
  BY DEF Grows, saveSerial
<1>7. TypeOK'
  BY <1>2, <1>3, <1>4, SMTT(60) DEF saveSerial, Inv, TypeOK
<1>8. StoredInv' /\ IssuedInv' /\ CertInv'
  BY DEF saveSerial, Inv, StoredInv, Settled, Proven, IssuedInv, IssuedOnlyIfAuthorized,
         CertInv, CertFits
<1>9. CopyInv(l)'
  <2>1. CopyInv(r)'
    BY <1>1, <1>5, <1>6, CopyGrows DEF Inv
  <2>2. /\ l.pc = "UpdateOrder" /\ l.ocert = r.cert /\ l.ostatus = "valid"
        /\ l.cid = r.cid /\ l.cstatus = r.cstatus /\ l.oid = r.oid
    BY <1>5 DEF Locals
  <2>3. ChallengeCopyInv(l)' /\ AuthzCopyInv(l)' /\ LoopInv(l)'
    BY <2>1, <2>2 DEF CopyInv, ChallengeCopyInv, AuthzCopyInv, LoopInv, ChallengeLabels, AuthzLabels
  <2>4. CertFits(l.ostatus, l.ocert, l.oid)'
    BY <1>1, <1>2, <1>5, <2>2, NoneAssumption, SMTT(60) DEF CertFits, saveSerial
  <2>5. \A a \in AuthzsOf(l.oid) : Settled(a)'
    BY <1>1, <1>5, <2>1, <2>2 DEF CopyInv, OrderCopyInv
  <2>6. OrderCopyInv(l)'
    BY <1>1, <1>5, <2>2, <2>4, <2>5 DEF OrderCopyInv, OrderLabels, AuthzsOf
  <2>7. QED
    BY <2>3, <2>6 DEF CopyInv
<1>10. QED
  BY <1>4, <1>5, <1>6, <1>7, <1>8, <1>9, GrowStep

\* The clock changes nothing the invariant speaks of.
LEMMA ExpireStep ==
  ASSUME Inv, NEW o \in Orders, Expire(o)
  PROVE  Inv'
<1>1. TypeOK'
  BY DEF Expire, db, Inv, TypeOK
<1>2. StoredInv' /\ IssuedInv' /\ CertInv'
  BY DEF Expire, db, Inv, StoredInv, Settled, Proven, IssuedInv, IssuedOnlyIfAuthorized,
         CertInv, CertFits
<1>3. ASSUME NEW q \in Procs PROVE CopyInv(loc[q])'
  <2>1. PICK k \in Locals : k = loc[q] /\ CopyInv(k)
    BY DEF Inv, TypeOK
  <2>2. CopyInv(k)'
    BY <2>1, CopyGrows DEF Inv, Grows, Expire, db
  <2>3. QED
    BY <2>1, <2>2 DEF Expire
<1>4. QED
  BY <1>1, <1>2, <1>3 DEF Inv

\* Every step of every request, and the clock, keep the invariant.
LEMMA NextInv == Inv /\ [Next]_vars => Inv'
<1> SUFFICES ASSUME Inv, [Next]_vars PROVE Inv'
  OBVIOUS
<1>1. ASSUME NEW p \in Procs, Request(p) PROVE Inv'
  BY <1>1, ReadOrderStep, GetAuthorizationStep, GetChallengeStep
     DEF Request, GetOrder, FinalizeOrder, Kinds
<1>2. ASSUME NEW p \in Procs, Step(p) PROVE Inv'
  <2>1. CASE Validate(p) \/ UpdateChallenge(p) \/ saveChallenge(p)
    BY <2>1, ValidateStep, UpdateChallengeStep, saveChallengeStep
  <2>2. CASE GetChallenges(p) \/ AuthzUnchanged(p) \/ AuthzChanged(p)
             \/ UpdateAuthorization(p) \/ saveAuthorization(p)
    BY <2>2, GetChallengesStep, AuthzUnchangedStep, AuthzChangedStep,
       UpdateAuthorizationStep, saveAuthorizationStep
  <2>3. CASE OrderUnchanged(p) \/ OrderExpired(p) \/ OrderPending(p) \/ NextAuthz(p)
             \/ AuthzsCounted(p) \/ UpdateOrder(p) \/ saveOrder(p)
    BY <2>3, OrderUnchangedStep, OrderExpiredStep, OrderPendingStep, NextAuthzStep,
       AuthzsCountedStep, UpdateOrderStep, saveOrderStep
  <2>4. CASE Sign(p) \/ CreateCertificate(p) \/ saveSerial(p)
    BY <2>4, SignStep, CreateCertificateStep, saveSerialStep
  <2>5. QED
    BY <1>2, <2>1, <2>2, <2>3, <2>4 DEF Step
<1>3. ASSUME NEW p \in Procs, Fail(p) PROVE Inv'
  BY <1>3, RespondStep DEF Fail
<1>4. ASSUME NEW o \in Orders, Expire(o) PROVE Inv'
  BY <1>4, ExpireStep
<1>5. CASE UNCHANGED vars
  <2>1. TypeOK'
    BY <1>5 DEF vars, db, Inv, TypeOK
  <2>2. StoredInv' /\ IssuedInv' /\ CertInv'
    BY <1>5 DEF vars, db, Inv, StoredInv, IssuedInv, IssuedOnlyIfAuthorized,
       CertInv, CertFits, Settled, Proven
  <2>3. ASSUME NEW q \in Procs PROVE CopyInv(loc[q])'
    <3>1. PICK k \in Locals : k = loc[q] /\ CopyInv(k)
      BY DEF Inv, TypeOK
    <3>2. CopyInv(k)'
      BY <1>5, <3>1, CopyGrows DEF Inv, Grows, vars, db
    <3>3. QED
      BY <1>5, <3>1, <3>2 DEF vars
  <2>4. QED
    BY <2>1, <2>2, <2>3 DEF Inv
<1>6. QED
  BY <1>1, <1>2, <1>3, <1>4, <1>5 DEF Next

\* The inductive invariant holds in every reachable state.
THEOREM Invariance == Spec => []Inv
BY InitInv, NextInv, PTL DEF Spec

\* Tables and locals keep their types: no step of a handler stores or holds a value
\* of the wrong kind.
THEOREM TypeCorrect == Spec => []TypeOK
<1>1. Inv => TypeOK
  BY DEF Inv
<1>2. QED
  BY <1>1, Invariance, PTL

\* Order.Finalize never signs for an order with an authorization none of whose
\* challenges was validated, whatever the interleaving, failures and expiries.
THEOREM IssuanceAuthorized == Spec => []IssuedOnlyIfAuthorized
<1>1. Inv => IssuedOnlyIfAuthorized
  BY DEF Inv, IssuedInv
<1>2. QED
  BY <1>1, Invariance, PTL

\* A stored valid order names a stored certificate of its own that can be found by
\* serial number, and no other order names one.
THEOREM ValidOrderCertificate == Spec => []ValidOrderHasCertificate
<1>1. Inv => ValidOrderHasCertificate
  BY DEF Inv, CertInv, CertFits, ValidOrderHasCertificate
<1>2. QED
  BY <1>1, Invariance, PTL

\* A stored order is never ahead of its stored authorizations.
THEOREM OrderBehindAuthzs == Spec => []OrderNotAheadOfAuthzs
<1>1. Inv => OrderNotAheadOfAuthzs
  BY DEF Inv, StoredInv, Settled, OrderNotAheadOfAuthzs
<1>2. QED
  BY <1>1, Invariance, PTL

\* No step writes an order or an authorization back to pending: UpdateOrder and
\* UpdateAuthorization are only reached with a copy that left that status.
THEOREM PendingIsLeftForGood == Spec => NeverPendingAgain
<1> DEFINE A == /\ \A o \in Orders :
                     order[o].status # "pending" => order'[o].status # "pending"
                /\ \A a \in Authzs : authz[a] # "pending" => authz'[a] # "pending"
<1>1. Inv /\ [Next]_vars => [A]_vars
  <2> SUFFICES ASSUME Inv, Next PROVE A
    OBVIOUS
  <2>1. ASSUME NEW p \in Procs, saveOrder(p) PROVE A
    <3>1. loc[p].ostatus # "pending" /\ loc[p].oid \in Orders
      BY <2>1 DEF Inv, CopyInv, OrderCopyInv, OrderLabels, saveOrder, At
    <3>2. QED
      BY <2>1, <3>1, SMTT(60) DEF saveOrder, Inv, TypeOK
  <2>2. ASSUME NEW p \in Procs, saveAuthorization(p) PROVE A
    <3>1. loc[p].astatus # "pending" /\ loc[p].aid \in Authzs
      BY <2>2 DEF Inv, CopyInv, AuthzCopyInv, AuthzLabels, saveAuthorization, At
    <3>2. QED
      BY <2>2, <3>1 DEF saveAuthorization, Inv, TypeOK
  <2>3. ASSUME NEW p \in Procs, Request(p) \/ Step(p) \/ Fail(p),
               ~saveOrder(p), ~saveAuthorization(p)
        PROVE  order' = order /\ authz' = authz
    BY <2>3 DEF Request, Step, Fail, GetOrder, FinalizeOrder, ReadOrder, GetAuthorization,
       GetChallenge, Validate, UpdateChallenge, saveChallenge, GetChallenges, AuthzUnchanged,
       AuthzChanged, UpdateAuthorization, OrderUnchanged, OrderExpired, OrderPending,
       NextAuthz, AuthzsCounted, UpdateOrder, Sign, CreateCertificate, saveSerial, db
  <2>4. ASSUME NEW o \in Orders, Expire(o) PROVE order' = order /\ authz' = authz
    BY <2>4 DEF Expire, db
  <2>5. QED
    BY <2>1, <2>2, <2>3, <2>4 DEF Next
<1>2. Spec => [][A]_vars
  BY <1>1, Invariance, PTL DEF Spec
<1>3. QED
  BY <1>2 DEF NeverPendingAgain

-----------------------------------------------------------------------------
(* While requests do not overlap, every copy is fresh: what a request decides *)
(* on is what is stored, and every change it is about to store is one of the  *)
(* status machine.                                                           *)

Backed(a) == \E c \in Challenges : AuthzOf[c] = a /\ chal[c] = "valid"

FreshChallenge(l) == l.pc \in ChallengeLabels => chal[l.cid] = "pending"

FreshAuthz(l) ==
  l.pc \in AuthzLabels =>
    /\ l.pc \in {"GetChallenges", "AuthzUpdateStatus"} => l.astatus = authz[l.aid]
    /\ l.pc \in {"UpdateAuthorization", "saveAuthorization"} =>
         authz[l.aid] = "pending" /\ (l.astatus = "valid" => Backed(l.aid))
    /\ l.proven => Backed(l.aid)

FreshLoop(l) ==
  l.pc = "NextAuthz" \/ (l.pc \in AuthzLabels /\ l.kind # "GetAuthorization") =>
    /\ order[l.oid].status = "pending"
    /\ l.count \subseteq {"valid"} => \A a \in AuthzsOf(l.oid) \ l.todo : authz[a] = "valid"

FreshOrder(l) ==
  /\ l.pc = "UpdateStatus" => order[l.oid].status = l.ostatus
  /\ l.pc \in {"Sign", "CreateCertificate", "saveSerial"} => order[l.oid].status = "ready"
  /\ l.pc \in {"UpdateOrder", "saveOrder"} =>
       \/ /\ l.ostatus = "ready" /\ order[l.oid].status = "pending"
          /\ \A a \in AuthzsOf(l.oid) : authz[a] = "valid"
       \/ l.ostatus = "valid" /\ order[l.oid].status = "ready"
       \/ l.ostatus = "invalid" /\ order[l.oid].status \in {"pending", "ready"}

Fresh(l) == FreshChallenge(l) /\ FreshAuthz(l) /\ FreshLoop(l) /\ FreshOrder(l)

AllFresh == \A p \in Procs : Fresh(loc[p])

\* The only request's locals are fresh after a step.
LEMMA FreshAfter ==
  ASSUME Serial, TypeOK, NEW p \in Procs, NEW l, loc' = [loc EXCEPT ![p] = l], Fresh(l)'
  PROVE  AllFresh'
BY DEF Serial, TypeOK, AllFresh

\* Freshness is about the stored statuses only.
LEMMA FreshSame ==
  ASSUME NEW l, Fresh(l), UNCHANGED <<order, authz, chal>>
  PROVE  Fresh(l)'
BY DEF Fresh, FreshChallenge, FreshAuthz, FreshLoop, FreshOrder, Backed

\* A step that stores no status.
LEMMA FreshLocal ==
  ASSUME Serial, TypeOK, NEW p \in Procs, NEW l, loc' = [loc EXCEPT ![p] = l], Fresh(l),
         UNCHANGED <<order, authz, chal>>
  PROVE  AllFresh'
BY FreshSame, FreshAfter

\* A request that has read nothing is fresh.
LEMMA IdleFresh == Fresh(Idle) /\ Fresh(Idle)'
BY DEF Idle, Fresh, FreshChallenge, FreshAuthz, FreshLoop, FreshOrder,
   ChallengeLabels, AuthzLabels

\* Nor is anything stale when it responds.
LEMMA RespondFresh ==
  ASSUME Serial, TypeOK, NEW p \in Procs, Respond(p)
  PROVE  AllFresh'
BY IdleFresh, FreshAfter DEF Respond

\* GetChallenge goes on with a pending challenge only.
LEMMA FreshGetChallenge ==
  ASSUME Serial, Inv, AllFresh, NEW p \in Procs, NEW c \in Challenges, GetChallenge(p, c)
  PROVE  AllFresh'
<1> DEFINE l == [Idle EXCEPT !.pc = "Validate", !.kind = "GetChallenge", !.cid = c]
<1>1. loc[p] \in Locals /\ Fresh(loc[p]) /\ TypeOK
  BY DEF Inv, TypeOK, AllFresh
<1>2. FreshChallenge(l) /\ FreshAuthz(l)
  BY <1>1 DEF GetChallenge, Idle, At, Fresh, FreshChallenge, FreshAuthz, Locals, ChallengeLabels, AuthzLabels
<1>3. FreshLoop(l)
  BY <1>1 DEF GetChallenge, Idle, At, Fresh, FreshLoop, FreshOrder, Locals, AuthzLabels
<1>4. FreshOrder(l)
  BY <1>1 DEF GetChallenge, Idle, At, Fresh, FreshLoop, FreshOrder, Locals
<1>5. loc' = [loc EXCEPT ![p] = l]
  BY <1>1 DEF GetChallenge, Idle, Locals
<1>6. UNCHANGED <<order, authz, chal>>
  BY DEF GetChallenge, Idle, db
<1> HIDE DEF l
<1> QED
  BY <1>1, <1>2, <1>3, <1>4, <1>5, <1>6, FreshLocal DEF Fresh

\* UpdateChallenge reads the row again.
LEMMA FreshUpdateChallenge ==
  ASSUME Serial, Inv, AllFresh, NEW p \in Procs, UpdateChallenge(p)
  PROVE  AllFresh'
<1> DEFINE l == [loc[p] EXCEPT !.pc = "saveChallenge", !.old = RowOf(chal[loc[p].cid])]
<1>1. loc[p] \in Locals /\ Fresh(loc[p]) /\ TypeOK
  BY DEF Inv, TypeOK, AllFresh
<1>2. FreshChallenge(l) /\ FreshAuthz(l)
  BY <1>1 DEF UpdateChallenge, At, Fresh, FreshChallenge, FreshAuthz, Locals, ChallengeLabels, AuthzLabels
<1>3. FreshLoop(l)
  BY <1>1 DEF UpdateChallenge, At, Fresh, FreshLoop, FreshOrder, Locals, AuthzLabels
<1>4. FreshOrder(l)
  BY <1>1 DEF UpdateChallenge, At, Fresh, FreshLoop, FreshOrder, Locals
<1>5. loc' = [loc EXCEPT ![p] = l]
  BY <1>1 DEF UpdateChallenge, Locals
<1>6. UNCHANGED <<order, authz, chal>>
  BY DEF UpdateChallenge, db
<1> HIDE DEF l
<1> QED
  BY <1>1, <1>2, <1>3, <1>4, <1>5, <1>6, FreshLocal DEF Fresh

\* UpdateAuthorization reads the row again.
LEMMA FreshUpdateAuthorization ==
  ASSUME Serial, Inv, AllFresh, NEW p \in Procs, UpdateAuthorization(p)
  PROVE  AllFresh'
<1> DEFINE l == [loc[p] EXCEPT !.pc = "saveAuthorization", !.old = RowOf(authz[loc[p].aid])]
<1>1. loc[p] \in Locals /\ Fresh(loc[p]) /\ TypeOK
  BY DEF Inv, TypeOK, AllFresh
<1>2. FreshChallenge(l) /\ FreshAuthz(l)
  BY <1>1 DEF UpdateAuthorization, At, Fresh, FreshChallenge, FreshAuthz, Locals, ChallengeLabels, AuthzLabels
<1>3. FreshLoop(l)
  BY <1>1 DEF UpdateAuthorization, At, Fresh, FreshLoop, FreshOrder, Locals, AuthzLabels
<1>4. FreshOrder(l)
  BY <1>1 DEF UpdateAuthorization, At, Fresh, FreshLoop, FreshOrder, Locals
<1>5. loc' = [loc EXCEPT ![p] = l]
  BY <1>1 DEF UpdateAuthorization, Locals
<1>6. UNCHANGED <<order, authz, chal>>
  BY DEF UpdateAuthorization, db
<1> HIDE DEF l
<1> QED
  BY <1>1, <1>2, <1>3, <1>4, <1>5, <1>6, FreshLocal DEF Fresh

\* UpdateOrder reads the row again.
LEMMA FreshUpdateOrder ==
  ASSUME Serial, Inv, AllFresh, NEW p \in Procs, UpdateOrder(p)
  PROVE  AllFresh'
<1> DEFINE l == [loc[p] EXCEPT !.pc = "saveOrder", !.old = order[loc[p].oid]]
<1>1. loc[p] \in Locals /\ Fresh(loc[p]) /\ TypeOK
  BY DEF Inv, TypeOK, AllFresh
<1>2. FreshChallenge(l) /\ FreshAuthz(l)
  BY <1>1 DEF UpdateOrder, At, Fresh, FreshChallenge, FreshAuthz, Locals, ChallengeLabels, AuthzLabels
<1>3. FreshLoop(l)
  BY <1>1 DEF UpdateOrder, At, Fresh, FreshLoop, FreshOrder, Locals, AuthzLabels
<1>4. FreshOrder(l)
  BY <1>1 DEF UpdateOrder, At, Fresh, FreshLoop, FreshOrder, Locals
<1>5. loc' = [loc EXCEPT ![p] = l]
  BY <1>1 DEF UpdateOrder, Locals
<1>6. UNCHANGED <<order, authz, chal>>
  BY DEF UpdateOrder, db
<1> HIDE DEF l
<1> QED
  BY <1>1, <1>2, <1>3, <1>4, <1>5, <1>6, FreshLocal DEF Fresh

\* Order.UpdateStatus decides that an expired order is invalid.
LEMMA FreshOrderExpired ==
  ASSUME Serial, Inv, AllFresh, NEW p \in Procs, OrderExpired(p)
  PROVE  AllFresh'
<1> DEFINE l == [loc[p] EXCEPT !.pc = "UpdateOrder", !.ostatus = "invalid"]
<1>1. loc[p] \in Locals /\ Fresh(loc[p]) /\ TypeOK
  BY DEF Inv, TypeOK, AllFresh
<1>2. FreshChallenge(l) /\ FreshAuthz(l)
  BY <1>1 DEF OrderExpired, At, Fresh, FreshChallenge, FreshAuthz, Locals, ChallengeLabels, AuthzLabels
<1>3. FreshLoop(l)
  BY <1>1 DEF OrderExpired, At, Fresh, FreshLoop, FreshOrder, Locals, AuthzLabels
<1>4. FreshOrder(l)
  BY <1>1 DEF OrderExpired, At, Fresh, FreshLoop, FreshOrder, Locals
<1>5. loc' = [loc EXCEPT ![p] = l]
  BY <1>1 DEF OrderExpired, Locals
<1>6. UNCHANGED <<order, authz, chal>>
  BY DEF OrderExpired, db
<1> HIDE DEF l
<1> QED
  BY <1>1, <1>2, <1>3, <1>4, <1>5, <1>6, FreshLocal DEF Fresh

\* Order.UpdateStatus starts on the authorizations of a pending order.
LEMMA FreshOrderPending ==
  ASSUME Serial, Inv, AllFresh, NEW p \in Procs, OrderPending(p)
  PROVE  AllFresh'
<1> DEFINE l == [loc[p] EXCEPT !.pc = "NextAuthz", !.todo = AuthzsOf(loc[p].oid)]
<1>1. loc[p] \in Locals /\ Fresh(loc[p]) /\ TypeOK
  BY DEF Inv, TypeOK, AllFresh
<1>2. FreshChallenge(l) /\ FreshAuthz(l)
  BY <1>1 DEF OrderPending, At, Fresh, FreshChallenge, FreshAuthz, Locals, ChallengeLabels, AuthzLabels
<1>3. FreshLoop(l)
  BY <1>1 DEF OrderPending, At, Fresh, FreshLoop, FreshOrder, Locals, AuthzLabels
<1>4. FreshOrder(l)
  BY <1>1 DEF OrderPending, At, Fresh, FreshLoop, FreshOrder, Locals
<1>5. loc' = [loc EXCEPT ![p] = l]
  BY <1>1 DEF OrderPending, Locals
<1>6. UNCHANGED <<order, authz, chal>>
  BY DEF OrderPending, db
<1> HIDE DEF l
<1> QED
  BY <1>1, <1>2, <1>3, <1>4, <1>5, <1>6, FreshLocal DEF Fresh

\* GetOrder and FinalizeOrder read the order.
LEMMA FreshReadOrder ==
  ASSUME Serial, Inv, AllFresh, NEW p \in Procs, NEW o \in Orders, NEW kind, ReadOrder(p, kind, o)
  PROVE  AllFresh'
<1> DEFINE l == [Idle EXCEPT !.pc = "UpdateStatus", !.kind = kind, !.oid = o,
                             !.ostatus = order[o].status, !.ocert = order[o].cert]
<1>1. loc[p] \in Locals /\ Fresh(loc[p]) /\ TypeOK
  BY DEF Inv, TypeOK, AllFresh
<1>2. FreshChallenge(l) /\ FreshAuthz(l)
  BY <1>1 DEF ReadOrder, Idle, At, Fresh, FreshChallenge, FreshAuthz, Locals, ChallengeLabels, AuthzLabels
<1>3. FreshLoop(l)
  BY <1>1 DEF ReadOrder, Idle, At, Fresh, FreshLoop, FreshOrder, Locals, AuthzLabels
<1>4. FreshOrder(l)
  BY <1>1 DEF ReadOrder, Idle, At, Fresh, FreshLoop, FreshOrder, Locals
<1>5. loc' = [loc EXCEPT ![p] = l]
  BY <1>1 DEF ReadOrder, Idle, Locals
<1>6. UNCHANGED <<order, authz, chal>>
  BY DEF ReadOrder, Idle, db
<1> HIDE DEF l
<1> QED
  BY <1>1, <1>2, <1>3, <1>4, <1>5, <1>6, FreshLocal DEF Fresh

\* The certificate of a ready order is stored.
LEMMA FreshCreateCertificate ==
  ASSUME Serial, Inv, AllFresh, NEW p \in Procs, CreateCertificate(p)
  PROVE  AllFresh'
<1> DEFINE l == [loc[p] EXCEPT !.pc = "saveSerial"]
<1>1. loc[p] \in Locals /\ Fresh(loc[p]) /\ TypeOK
  BY DEF Inv, TypeOK, AllFresh
<1>2. FreshChallenge(l) /\ FreshAuthz(l)
  BY <1>1 DEF CreateCertificate, At, Fresh, FreshChallenge, FreshAuthz, Locals, ChallengeLabels, AuthzLabels
<1>3. FreshLoop(l)
  BY <1>1 DEF CreateCertificate, At, Fresh, FreshLoop, FreshOrder, Locals, AuthzLabels
<1>4. FreshOrder(l)
  BY <1>1 DEF CreateCertificate, At, Fresh, FreshLoop, FreshOrder, Locals
<1>5. loc' = [loc EXCEPT ![p] = l]
  BY <1>1 DEF CreateCertificate, Locals
<1>6. UNCHANGED <<order, authz, chal>>
  BY DEF CreateCertificate, db
<1> HIDE DEF l
<1> QED
  BY <1>1, <1>2, <1>3, <1>4, <1>5, <1>6, FreshLocal DEF Fresh

\* Finalize makes its copy of a ready order valid.
LEMMA FreshSaveSerial ==
  ASSUME Serial, Inv, AllFresh, NEW p \in Procs, saveSerial(p)
  PROVE  AllFresh'
<1> DEFINE l == [loc[p] EXCEPT !.pc = "UpdateOrder", !.ostatus = "valid", !.ocert = loc[p].cert, !.cert = None]
<1>1. loc[p] \in Locals /\ Fresh(loc[p]) /\ TypeOK
  BY DEF Inv, TypeOK, AllFresh
<1>2. FreshChallenge(l) /\ FreshAuthz(l)
  BY <1>1 DEF saveSerial, At, Fresh, FreshChallenge, FreshAuthz, Locals, ChallengeLabels, AuthzLabels
<1>3. FreshLoop(l)
  BY <1>1 DEF saveSerial, At, Fresh, FreshLoop, FreshOrder, Locals, AuthzLabels
<1>4. FreshOrder(l)
  BY <1>1 DEF saveSerial, At, Fresh, FreshLoop, FreshOrder, Locals
<1>5. loc' = [loc EXCEPT ![p] = l]
  BY <1>1 DEF saveSerial, Locals
<1>6. UNCHANGED <<order, authz, chal>>
  BY DEF saveSerial, db
<1> HIDE DEF l
<1> QED
  BY <1>1, <1>2, <1>3, <1>4, <1>5, <1>6, FreshLocal DEF Fresh

\* Validate leaves a verdict in its copy.
LEMMA FreshValidate ==
  ASSUME Serial, Inv, AllFresh, NEW p \in Procs, Validate(p)
  PROVE  AllFresh'
<1>1. loc[p] \in Locals /\ Fresh(loc[p]) /\ TypeOK
  BY DEF Inv, TypeOK, AllFresh
<1>2. PICK verdict : loc' = [loc EXCEPT ![p].pc = "UpdateChallenge", ![p].cstatus = verdict]
  BY DEF Validate
<1> DEFINE l == [loc[p] EXCEPT !.pc = "UpdateChallenge", !.cstatus = verdict]
<1>3. FreshChallenge(l) /\ FreshAuthz(l)
  BY <1>1 DEF Validate, At, Fresh, FreshChallenge, FreshAuthz, Locals, ChallengeLabels, AuthzLabels
<1>4. FreshLoop(l) /\ FreshOrder(l)
  BY <1>1 DEF Validate, At, Fresh, FreshLoop, FreshOrder, Locals, AuthzLabels
<1>5. loc' = [loc EXCEPT ![p] = l]
  BY <1>1, <1>2 DEF Locals
<1>6. UNCHANGED <<order, authz, chal>>
  BY DEF Validate, db
<1> HIDE DEF l
<1> QED
  BY <1>1, <1>3, <1>4, <1>5, <1>6, FreshLocal DEF Fresh

\* Sign is reached with a ready order only.
LEMMA FreshSign ==
  ASSUME Serial, Inv, AllFresh, NEW p \in Procs, Sign(p)
  PROVE  AllFresh'
<1>1. loc[p] \in Locals /\ Fresh(loc[p]) /\ TypeOK
  BY DEF Inv, TypeOK, AllFresh
<1>2. PICK c : loc' = [loc EXCEPT ![p].pc = "CreateCertificate", ![p].cert = c]
  BY DEF Sign
<1> DEFINE l == [loc[p] EXCEPT !.pc = "CreateCertificate", !.cert = c]
<1>3. FreshChallenge(l) /\ FreshAuthz(l)
  BY <1>1 DEF Sign, At, Fresh, FreshChallenge, FreshAuthz, Locals, ChallengeLabels, AuthzLabels
<1>4. FreshLoop(l) /\ FreshOrder(l)
  BY <1>1 DEF Sign, At, Fresh, FreshLoop, FreshOrder, Locals, AuthzLabels
<1>5. loc' = [loc EXCEPT ![p] = l]
  BY <1>1, <1>2 DEF Locals
<1>6. UNCHANGED <<order, authz, chal>>
  BY DEF Sign, db
<1> HIDE DEF l
<1> QED
  BY <1>1, <1>3, <1>4, <1>5, <1>6, FreshLocal DEF Fresh

\* The row of an authorization is read, by GetAuthorization or in the loop over the
\* authorizations of a pending order.
LEMMA FreshReadAuthz ==
  ASSUME NEW k \in Locals, NEW a,
         k.kind = "GetAuthorization" \/ (k.pc = "NextAuthz" /\ Fresh(k))
  PROVE  Fresh(ReadAuthz(k, a))
<1>1. PICK l : l = ReadAuthz(k, a)
  OBVIOUS
<1>2. /\ l.pc \in {"GetChallenges", "AuthzUpdateStatus"} /\ l.kind = k.kind
      /\ l.oid = k.oid /\ l.count = k.count /\ l.todo = k.todo
      /\ l.aid = a /\ l.astatus = authz[a] /\ l.proven = FALSE
  BY <1>1 DEF ReadAuthz, Locals
<1>3. FreshChallenge(l) /\ FreshAuthz(l) /\ FreshOrder(l)
  BY <1>2 DEF FreshChallenge, FreshAuthz, FreshOrder, ChallengeLabels, AuthzLabels
<1>4. FreshLoop(l)
  BY <1>2 DEF Fresh, FreshLoop, AuthzLabels
<1> QED
  BY <1>1, <1>3, <1>4 DEF Fresh

(* GetAuthorization: the handler reads what is stored, so its copy is       *)
(* fresh.                                                                   *)
LEMMA FreshGetAuthorization ==
  ASSUME Serial, Inv, AllFresh, NEW p \in Procs, NEW a \in Authzs, GetAuthorization(p, a)
  PROVE  AllFresh'
<1>1. PICK k \in Locals : k = [Idle EXCEPT !.kind = "GetAuthorization"] /\ k.kind = "GetAuthorization"
  <2>1. PICK i \in Locals : i = Idle
    BY IdleConsistent
  <2>2. [i EXCEPT !.kind = "GetAuthorization"] \in Locals
    BY DEF Locals, Kinds
  <2>3. [i EXCEPT !.kind = "GetAuthorization"].kind = "GetAuthorization"
    BY DEF Locals
  <2> QED
    BY <2>1, <2>2, <2>3
<1>2. loc' = [loc EXCEPT ![p] = ReadAuthz(k, a)] /\ UNCHANGED <<order, authz, chal>>
  BY <1>1 DEF GetAuthorization, db
<1>3. Fresh(ReadAuthz(k, a))
  BY <1>1, FreshReadAuthz
<1> QED
  BY <1>2, <1>3, FreshLocal DEF Inv

(* Order.UpdateStatus: going on to the order's next authorization keeps     *)
(* every copy fresh.                                                        *)
LEMMA FreshNextAuthz ==
  ASSUME Serial, Inv, AllFresh, NEW p \in Procs, NextAuthz(p)
  PROVE  AllFresh'
<1>1. PICK k \in Locals : k = loc[p] /\ Fresh(k) /\ k.pc = "NextAuthz"
  BY DEF Inv, TypeOK, AllFresh, NextAuthz, At
<1>2. PICK a : loc' = [loc EXCEPT ![p] = ReadAuthz(k, a)]
  BY <1>1 DEF NextAuthz
<1>3. UNCHANGED <<order, authz, chal>>
  BY DEF NextAuthz, db
<1>4. Fresh(ReadAuthz(k, a))
  BY <1>1, FreshReadAuthz
<1> QED
  BY <1>2, <1>3, <1>4, FreshLocal DEF Inv

\* A valid challenge of the authorization is seen.
LEMMA FreshGetChallenges ==
  ASSUME Serial, Inv, AllFresh, NEW p \in Procs, GetChallenges(p)
  PROVE  AllFresh'
<1>1. PICK k \in Locals : k = loc[p] /\ Fresh(k) /\ CopyInv(k) /\ k.pc = "GetChallenges"
  BY DEF Inv, TypeOK, AllFresh, GetChallenges, At
<1>2. PICK c \in k.unread :
        loc' = [loc EXCEPT
          ![p].pc = IF loc[p].unread = {c} THEN "AuthzUpdateStatus" ELSE @,
          ![p].unread = @ \ {c},
          ![p].proven = @ \/ chal[c] = "valid"]
  BY <1>1 DEF GetChallenges
<1> DEFINE l == [k EXCEPT !.pc = IF k.unread = {c} THEN "AuthzUpdateStatus" ELSE @,
                          !.unread = @ \ {c}, !.proven = @ \/ chal[c] = "valid"]
<1>3. loc' = [loc EXCEPT ![p] = l]
  BY <1>1, <1>2 DEF Inv, TypeOK, Locals
<1>4. /\ l.pc \in {"GetChallenges", "AuthzUpdateStatus"} /\ l.kind = k.kind
      /\ l.oid = k.oid /\ l.count = k.count /\ l.todo = k.todo /\ l.aid = k.aid /\ l.astatus = k.astatus
      /\ l.proven => k.proven \/ chal[c] = "valid"
  BY <1>1 DEF Locals
<1>5. UNCHANGED <<order, authz, chal>>
  BY DEF GetChallenges, db
<1> HIDE DEF l
<1>6. c \in Challenges /\ AuthzOf[c] = k.aid
  BY <1>1, <1>2 DEF CopyInv, AuthzCopyInv, AuthzLabels, ChallengesOf
<1>7. l.proven => Backed(l.aid)
  <2>1. k.proven => Backed(k.aid)
    BY <1>1 DEF Fresh, FreshAuthz, AuthzLabels
  <2> QED
    BY <1>4, <1>6, <2>1 DEF Backed
<1>8. FreshChallenge(l) /\ FreshOrder(l)
  BY <1>4 DEF FreshChallenge, FreshOrder, ChallengeLabels
<1>9. FreshAuthz(l)
  BY <1>1, <1>4, <1>7 DEF Fresh, FreshAuthz, AuthzLabels
<1>10. FreshLoop(l)
  BY <1>1, <1>4 DEF Fresh, FreshLoop, AuthzLabels
<1> QED
  BY <1>3, <1>5, <1>8, <1>9, <1>10, FreshLocal DEF Inv, Fresh

\* Authorization.UpdateStatus decides on valid only with a valid challenge.
LEMMA FreshAuthzChanged ==
  ASSUME Serial, Inv, AllFresh, NEW p \in Procs, AuthzChanged(p)
  PROVE  AllFresh'
<1>1. PICK k \in Locals :
        /\ k = loc[p] /\ Fresh(k) /\ k.pc = "AuthzUpdateStatus" /\ k.astatus = "pending"
  BY DEF Inv, TypeOK, AllFresh, AuthzChanged, At
<1>2. PICK st : /\ loc' = [loc EXCEPT ![p].pc = "UpdateAuthorization", ![p].astatus = st]
                /\ st = "valid" => k.proven
  <2>1. CASE OrderOf[k.aid] \in expired
    <3>1. loc' = [loc EXCEPT ![p].pc = "UpdateAuthorization", ![p].astatus = "invalid"]
      BY <1>1, <2>1 DEF AuthzChanged
    <3>2. "invalid" = "valid" => k.proven
      OBVIOUS
    <3> QED
      BY <3>1, <3>2
  <2>2. CASE OrderOf[k.aid] \notin expired
    <3>1. loc' = [loc EXCEPT ![p].pc = "UpdateAuthorization", ![p].astatus = "valid"] /\ k.proven
      BY <1>1, <2>2 DEF AuthzChanged
    <3> QED
      BY <3>1
  <2> QED
    BY <2>1, <2>2
<1> DEFINE l == [k EXCEPT !.pc = "UpdateAuthorization", !.astatus = st]
<1>3. loc' = [loc EXCEPT ![p] = l] /\ UNCHANGED <<order, authz, chal>>
  BY <1>1, <1>2 DEF Inv, TypeOK, Locals, AuthzChanged, db
<1>4. /\ l.pc = "UpdateAuthorization" /\ l.kind = k.kind /\ l.oid = k.oid /\ l.count = k.count
      /\ l.todo = k.todo /\ l.aid = k.aid /\ l.astatus = st /\ l.proven = k.proven
  BY DEF Locals
<1> HIDE DEF l
<1>5. authz[k.aid] = "pending" /\ (k.proven => Backed(k.aid))
  BY <1>1 DEF Fresh, FreshAuthz, AuthzLabels
<1>6. FreshChallenge(l) /\ FreshOrder(l)
  BY <1>4 DEF FreshChallenge, FreshOrder, ChallengeLabels
<1>7. FreshAuthz(l)
  BY <1>2, <1>4, <1>5 DEF FreshAuthz
<1>8. FreshLoop(l)
  BY <1>1, <1>4 DEF Fresh, FreshLoop, AuthzLabels
<1> QED
  BY <1>3, <1>6, <1>7, <1>8, FreshLocal DEF Inv, Fresh

\* The loop over the authorizations counts what is stored.
LEMMA FreshCounted ==
  ASSUME NEW k \in Locals, k.pc \in AuthzLabels, k.kind # "GetAuthorization", NEW st,
         order'[k.oid].status = "pending",
         st = "valid" /\ k.count \subseteq {"valid"} =>
           \A a \in AuthzsOf(k.oid) \ (k.todo \ {k.aid}) : authz'[a] = "valid"
  PROVE  Fresh(Counted(k, st))'
<1>1. PICK l : l = Counted(k, st)
  OBVIOUS
<1>2. l.pc = "NextAuthz" /\ l.oid = k.oid /\ l.count = k.count \cup {st} /\ l.todo = k.todo \ {k.aid}
  BY <1>1 DEF Counted, Locals
<1>3. FreshChallenge(l)' /\ FreshAuthz(l)' /\ FreshOrder(l)'
  BY <1>2 DEF FreshChallenge, FreshAuthz, FreshOrder, ChallengeLabels, AuthzLabels
<1>4. ASSUME l.count \subseteq {"valid"}
      PROVE  \A a \in AuthzsOf(l.oid) \ l.todo : authz'[a] = "valid"
  <2>1. st = "valid" /\ k.count \subseteq {"valid"}
    BY <1>2, <1>4
  <2> QED
    BY <1>2, <2>1
<1>5. FreshLoop(l)'
  BY <1>2, <1>4 DEF FreshLoop, AuthzsOf
<1> QED
  BY <1>1, <1>3, <1>5 DEF Fresh

(* Authorization.UpdateStatus that finds nothing to change keeps every copy *)
(* fresh.                                                                   *)
LEMMA FreshAuthzUnchanged ==
  ASSUME Serial, Inv, AllFresh, NEW p \in Procs, AuthzUnchanged(p)
  PROVE  AllFresh'
<1>1. PICK k \in Locals : k = loc[p] /\ Fresh(k) /\ k.pc = "AuthzUpdateStatus"
  BY DEF Inv, TypeOK, AllFresh, AuthzUnchanged, At
<1>2. UNCHANGED <<order, authz, chal>> /\ TypeOK
  BY DEF AuthzUnchanged, db, Inv
<1>3. CASE k.kind = "GetAuthorization"
  BY <1>1, <1>2, <1>3, RespondFresh DEF AuthzUnchanged, AuthzDone
<1>4. CASE k.kind # "GetAuthorization"
  <2>1. loc' = [loc EXCEPT ![p] = Counted(k, k.astatus)]
    BY <1>1, <1>4 DEF AuthzUnchanged, AuthzDone
  <2>2. /\ order'[k.oid].status = "pending" /\ authz'[k.aid] = k.astatus
        /\ k.count \subseteq {"valid"} => \A a \in AuthzsOf(k.oid) \ k.todo : authz'[a] = "valid"
    BY <1>1, <1>2, <1>4 DEF Fresh, FreshLoop, FreshAuthz, AuthzLabels
  <2>3. k.astatus = "valid" /\ k.count \subseteq {"valid"} =>
          \A a \in AuthzsOf(k.oid) \ (k.todo \ {k.aid}) : authz'[a] = "valid"
    BY <2>2
  <2>4. Fresh(Counted(k, k.astatus))'
    BY <1>1, <1>4, <2>2, <2>3, FreshCounted DEF AuthzLabels
  <2> QED
    BY <1>2, <2>1, <2>4, FreshAfter
<1> QED
  BY <1>3, <1>4

\* A changed authorization is stored, and the loop counts it.
LEMMA FreshSaveAuthorization ==
  ASSUME Serial, Inv, AllFresh, NEW p \in Procs, saveAuthorization(p)
  PROVE  AllFresh'
<1>1. PICK k \in Locals : k = loc[p] /\ Fresh(k) /\ CopyInv(k) /\ k.pc = "saveAuthorization"
  BY DEF Inv, TypeOK, AllFresh, saveAuthorization, At
<1>2. TypeOK /\ order' = order /\ k.aid \in Authzs
  BY <1>1 DEF saveAuthorization, Inv, CopyInv, AuthzCopyInv, AuthzLabels
<1>3. CASE Respond(p)
  BY <1>2, <1>3, RespondFresh
<1>4. CASE ~Respond(p)
  <2>1. /\ k.kind # "GetAuthorization" /\ loc' = [loc EXCEPT ![p] = Counted(k, k.astatus)]
        /\ authz' = [authz EXCEPT ![k.aid] = k.astatus]
    BY <1>1, <1>4 DEF saveAuthorization, AuthzDone
  <2>2. /\ order'[k.oid].status = "pending"
        /\ k.count \subseteq {"valid"} => \A a \in AuthzsOf(k.oid) \ k.todo : authz[a] = "valid"
    BY <1>1, <1>2, <2>1 DEF Fresh, FreshLoop, AuthzLabels
  <2>3. \A a \in Authzs : authz'[a] = IF a = k.aid THEN k.astatus ELSE authz[a]
    BY <1>2, <2>1 DEF TypeOK
  <2>4. k.astatus = "valid" /\ k.count \subseteq {"valid"} =>
          \A a \in AuthzsOf(k.oid) \ (k.todo \ {k.aid}) : authz'[a] = "valid"
    BY <2>2, <2>3 DEF AuthzsOf
  <2>5. Fresh(Counted(k, k.astatus))'
    BY <1>1, <2>1, <2>2, <2>4, FreshCounted DEF AuthzLabels
  <2> QED
    BY <1>2, <2>1, <2>5, FreshAfter
<1> QED
  BY <1>3, <1>4

\* Finalize goes on with an order that is stored as ready.
LEMMA FreshToSign ==
  ASSUME NEW k \in Locals, order'[k.oid].status = "ready"
  PROVE  Fresh(ToSign(k))'
<1>1. PICK l : l = ToSign(k)
  OBVIOUS
<1>2. l.pc = "Sign" /\ l.oid = k.oid
  BY <1>1 DEF ToSign, Locals
<1> QED
  BY <1>1, <1>2 DEF Fresh, FreshChallenge, FreshAuthz, FreshLoop, FreshOrder, ChallengeLabels, AuthzLabels

(* Order.UpdateStatus that finds nothing to change keeps every copy fresh.  *)
LEMMA FreshOrderUnchanged ==
  ASSUME Serial, Inv, AllFresh, NEW p \in Procs, OrderUnchanged(p)
  PROVE  AllFresh'
<1>1. PICK k \in Locals : k = loc[p] /\ Fresh(k) /\ k.pc = "UpdateStatus"
  BY DEF Inv, TypeOK, AllFresh, OrderUnchanged, At
<1>2. TypeOK /\ order' = order
  BY DEF OrderUnchanged, db, Inv
<1>3. CASE Respond(p)
  BY <1>2, <1>3, RespondFresh
<1>4. CASE ~Respond(p)
  <2>1. loc' = [loc EXCEPT ![p] = ToSign(k)] /\ k.ostatus = "ready"
    BY <1>1, <1>4 DEF OrderUnchanged, UpdateStatusDone
  <2>2. order'[k.oid].status = "ready"
    BY <1>1, <1>2, <2>1 DEF Fresh, FreshOrder
  <2> QED
    BY <1>2, <2>1, <2>2, FreshToSign, FreshAfter
<1> QED
  BY <1>3, <1>4

\* An order whose authorizations were all counted is ready when all are valid.
LEMMA FreshAuthzsCounted ==
  ASSUME Serial, Inv, AllFresh, NEW p \in Procs, AuthzsCounted(p)
  PROVE  AllFresh'
<1>1. PICK k \in Locals : k = loc[p] /\ Fresh(k) /\ k.pc = "NextAuthz" /\ k.todo = {}
  BY DEF Inv, TypeOK, AllFresh, AuthzsCounted, At
<1>2. TypeOK /\ UNCHANGED <<order, authz, chal>>
  BY DEF AuthzsCounted, db, Inv
<1>3. PICK st : st = StatusOfCount(k.count)
  OBVIOUS
<1>4. CASE st = "pending"
  BY <1>1, <1>2, <1>3, <1>4, RespondFresh DEF AuthzsCounted, UpdateStatusDone
<1>5. CASE st # "pending"
  <2> DEFINE l == [k EXCEPT !.pc = "UpdateOrder", !.ostatus = st, !.count = {}]
  <2>1. loc' = [loc EXCEPT ![p] = l]
    BY <1>1, <1>2, <1>3, <1>5 DEF AuthzsCounted, TypeOK, Locals
  <2>2. l.pc = "UpdateOrder" /\ l.ostatus = st /\ l.oid = k.oid
    BY DEF Locals
  <2> HIDE DEF l
  <2>3. order[k.oid].status = "pending"
    BY <1>1 DEF Fresh, FreshLoop
  <2>4. st = "invalid" \/ (st = "ready" /\ "invalid" \notin k.count /\ "pending" \notin k.count)
    BY <1>3, <1>5 DEF StatusOfCount
  <2>5. st = "ready" => \A a \in AuthzsOf(k.oid) : authz[a] = "valid"
    <3>1. k.count \subseteq AuthzStatus
      BY DEF Locals
    <3>2. st = "ready" => k.count \subseteq {"valid"}
      BY <2>4, <3>1 DEF AuthzStatus
    <3>3. \A a \in AuthzsOf(k.oid) : a \in AuthzsOf(k.oid) \ k.todo
      BY <1>1
    <3> QED
      BY <1>1, <3>2, <3>3 DEF Fresh, FreshLoop
  <2>6. FreshOrder(l)
    BY <2>2, <2>3, <2>4, <2>5 DEF FreshOrder
  <2>7. FreshChallenge(l) /\ FreshAuthz(l) /\ FreshLoop(l)
    BY <2>2 DEF FreshChallenge, FreshAuthz, FreshLoop, ChallengeLabels, AuthzLabels
  <2> QED
    BY <1>2, <2>1, <2>6, <2>7, FreshLocal DEF Fresh
<1> QED
  BY <1>4, <1>5

\* The order is stored, and Finalize goes on with a ready one.
LEMMA FreshSaveOrder ==
  ASSUME Serial, Inv, AllFresh, NEW p \in Procs, saveOrder(p)
  PROVE  AllFresh'
<1>1. PICK k \in Locals : k = loc[p] /\ CopyInv(k) /\ k.pc = "saveOrder"
  BY DEF Inv, TypeOK, saveOrder, At
<1>2. TypeOK /\ k.oid \in Orders
  BY <1>1 DEF Inv, CopyInv, OrderCopyInv, OrderLabels
<1>3. CASE Respond(p)
  BY <1>2, <1>3, RespondFresh
<1>4. CASE ~Respond(p)
  <2>1. /\ loc' = [loc EXCEPT ![p] = ToSign(k)] /\ k.ostatus = "ready"
        /\ order' = [order EXCEPT ![k.oid] = [status |-> k.ostatus, cert |-> k.ocert]]
    BY <1>1, <1>4 DEF saveOrder, UpdateStatusDone
  <2>2. order'[k.oid] = [status |-> k.ostatus, cert |-> k.ocert]
    BY <1>2, <2>1 DEF TypeOK
  <2>3. order'[k.oid].status = "ready"
    BY <2>1, <2>2, SMTT(60)
  <2> QED
    BY <1>2, <2>1, <2>3, FreshToSign, FreshAfter
<1> QED
  BY <1>3, <1>4


\* Every step keeps the copies fresh.
LEMMA NextFresh ==
  ASSUME Serial, Inv, AllFresh, [Next]_vars
  PROVE  AllFresh'
<1>1. ASSUME NEW p \in Procs, Request(p)
      PROVE  AllFresh'
  BY <1>1, FreshReadOrder, FreshGetAuthorization, FreshGetChallenge
     DEF Request, GetOrder, FinalizeOrder
<1>2. ASSUME NEW p \in Procs, Step(p)
      PROVE  AllFresh'
  <2>1. CASE Validate(p) \/ UpdateChallenge(p) \/ saveChallenge(p)
    BY <2>1, FreshValidate, FreshUpdateChallenge, RespondFresh DEF saveChallenge, Inv
  <2>2. CASE GetChallenges(p) \/ AuthzUnchanged(p) \/ AuthzChanged(p)
             \/ UpdateAuthorization(p) \/ saveAuthorization(p)
    BY <2>2, FreshGetChallenges, FreshAuthzUnchanged, FreshAuthzChanged, FreshUpdateAuthorization,
       FreshSaveAuthorization
  <2>3. CASE OrderUnchanged(p) \/ OrderExpired(p) \/ OrderPending(p) \/ NextAuthz(p)
             \/ AuthzsCounted(p) \/ UpdateOrder(p) \/ saveOrder(p)
    BY <2>3, FreshOrderUnchanged, FreshOrderExpired, FreshOrderPending, FreshNextAuthz,
       FreshAuthzsCounted, FreshUpdateOrder, FreshSaveOrder
  <2>4. CASE Sign(p) \/ CreateCertificate(p) \/ saveSerial(p)
    BY <2>4, FreshSign, FreshCreateCertificate, FreshSaveSerial
  <2> QED
    BY <1>2, <2>1, <2>2, <2>3, <2>4 DEF Step
<1>3. ASSUME NEW p \in Procs, Fail(p)
      PROVE  AllFresh'
  BY <1>3, RespondFresh DEF Fail, Inv
<1>4. ASSUME UNCHANGED <<loc, order, authz, chal>>
      PROVE  AllFresh'
  BY <1>4, FreshSame DEF AllFresh
<1>5. ASSUME NEW o \in Orders, Expire(o)
      PROVE  AllFresh'
  BY <1>4, <1>5 DEF Expire, db
<1> QED
  BY <1>1, <1>2, <1>3, <1>4, <1>5 DEF Next, vars

\* The statuses of AcmeStatus change only in the three saves.
LEMMA OnlySaves ==
  ASSUME NEW p \in Procs, Request(p) \/ Step(p) \/ Fail(p),
         ~saveChallenge(p), ~saveAuthorization(p), ~saveOrder(p)
  PROVE  UNCHANGED <<order, authz, chal>>
BY DEF Request, Step, Fail, GetOrder, FinalizeOrder, ReadOrder, GetAuthorization,
   GetChallenge, Validate, UpdateChallenge, GetChallenges, AuthzUnchanged,
   AuthzChanged, UpdateAuthorization, OrderUnchanged, OrderExpired, OrderPending,
   NextAuthz, AuthzsCounted, UpdateOrder, Sign, CreateCertificate, saveSerial, db

(* Storing a challenge whose copy is fresh is a step of the status machine, *)
(* or changes no status.                                                    *)
LEMMA SaveChallengeIs ==
  ASSUME Inv, AllFresh, NEW p \in Procs, saveChallenge(p)
  PROVE  [Abstract!Next]_(Abstract!statuses)
<1>1. PICK k \in Locals : k = loc[p] /\ Fresh(k) /\ CopyInv(k) /\ k.pc = "saveChallenge"
  BY DEF Inv, TypeOK, AllFresh, saveChallenge, At
<1>2. k.cid \in Challenges /\ chal[k.cid] = "pending" /\ k.cstatus \in AuthzStatus
  BY <1>1 DEF Fresh, FreshChallenge, CopyInv, ChallengeCopyInv, ChallengeLabels, Locals
<1>3. order' = order /\ authz' = authz /\ OrderStatuses' = OrderStatuses
  BY DEF saveChallenge, OrderStatuses
<1>4. CASE chal' = chal
  BY <1>3, <1>4 DEF Abstract!statuses
<1>5. CASE chal' # chal
  <2>1. chal' = [chal EXCEPT ![k.cid] = k.cstatus]
    BY <1>1, <1>5 DEF saveChallenge
  <2>2. k.cstatus # "pending"
    BY <1>2, <1>5, <2>1 DEF Inv, TypeOK
  <2>3. Abstract!ChallengeSettles(k.cid)
    BY <1>2, <1>3, <2>1, <2>2 DEF Abstract!ChallengeSettles, AuthzStatus
  <2> QED
    BY <1>2, <2>3 DEF Abstract!Next
<1> QED
  BY <1>4, <1>5

(* Storing an authorization whose copy is fresh is a step of the status     *)
(* machine, or changes no status.                                           *)
LEMMA SaveAuthorizationIs ==
  ASSUME Inv, AllFresh, NEW p \in Procs, saveAuthorization(p)
  PROVE  [Abstract!Next]_(Abstract!statuses)
<1>1. PICK k \in Locals : k = loc[p] /\ Fresh(k) /\ CopyInv(k) /\ k.pc = "saveAuthorization"
  BY DEF Inv, TypeOK, AllFresh, saveAuthorization, At
<1>2. /\ k.aid \in Authzs /\ authz[k.aid] = "pending" /\ k.astatus \in {"valid", "invalid"}
      /\ k.astatus = "valid" => Backed(k.aid)
  <2>1. k.astatus \in AuthzStatus
    BY DEF Locals
  <2> QED
    BY <1>1, <2>1 DEF Fresh, FreshAuthz, CopyInv, AuthzCopyInv, AuthzLabels, AuthzStatus
<1>3. order' = order /\ chal' = chal /\ OrderStatuses' = OrderStatuses
  BY DEF saveAuthorization, OrderStatuses
<1>4. CASE authz' = authz
  BY <1>3, <1>4 DEF Abstract!statuses
<1>5. CASE authz' # authz
  <2>1. authz' = [authz EXCEPT ![k.aid] = k.astatus]
    BY <1>1, <1>5 DEF saveAuthorization
  <2>2. Abstract!AuthzSettles(k.aid)
    BY <1>2, <1>3, <2>1 DEF Abstract!AuthzSettles, Backed
  <2> QED
    BY <1>2, <2>2 DEF Abstract!Next
<1> QED
  BY <1>4, <1>5

(* Storing an order whose copy is fresh is a step of the status machine, or *)
(* changes no status.                                                       *)
LEMMA SaveOrderIs ==
  ASSUME Inv, AllFresh, NEW p \in Procs, saveOrder(p)
  PROVE  [Abstract!Next]_(Abstract!statuses)
<1>1. PICK k \in Locals : k = loc[p] /\ Fresh(k) /\ CopyInv(k) /\ k.pc = "saveOrder"
  BY DEF Inv, TypeOK, AllFresh, saveOrder, At
<1>2. k.oid \in Orders /\ TypeOK
  BY <1>1 DEF Inv, CopyInv, OrderCopyInv, OrderLabels
<1>3. \/ /\ k.ostatus = "ready" /\ order[k.oid].status = "pending"
         /\ \A a \in AuthzsOf(k.oid) : authz[a] = "valid"
      \/ k.ostatus = "valid" /\ order[k.oid].status = "ready"
      \/ k.ostatus = "invalid" /\ order[k.oid].status \in {"pending", "ready"}
  BY <1>1 DEF Fresh, FreshOrder
<1>4. authz' = authz /\ chal' = chal
  BY DEF saveOrder
<1>5. CASE order' = order
  BY <1>4, <1>5 DEF Abstract!statuses, OrderStatuses
<1>6. CASE order' # order
  <2>1. order' = [order EXCEPT ![k.oid] = [status |-> k.ostatus, cert |-> k.ocert]]
    BY <1>1, <1>6 DEF saveOrder
  <2>2. OrderStatuses' = [OrderStatuses EXCEPT ![k.oid] = k.ostatus]
    <3>1. [status |-> k.ostatus, cert |-> k.ocert].status = k.ostatus
      OBVIOUS
    <3>2. \A o \in Orders : order'[o] = IF o = k.oid THEN [status |-> k.ostatus, cert |-> k.ocert] ELSE order[o]
      BY <1>2, <2>1 DEF TypeOK
    <3>3. \A o \in Orders : order'[o].status = IF o = k.oid THEN k.ostatus ELSE order[o].status
      BY <3>1, <3>2
    <3>4. OrderStatuses' = [o \in Orders |-> IF o = k.oid THEN k.ostatus ELSE order[o].status]
      BY <3>3 DEF OrderStatuses
    <3> QED
      BY <1>2, <3>4 DEF OrderStatuses
  <2>3. OrderStatuses[k.oid] = order[k.oid].status
    BY <1>2 DEF OrderStatuses
  <2>4. Abstract!OrderAdvances(k.oid)
    BY <1>3, <1>4, <2>2, <2>3 DEF Abstract!OrderAdvances, AuthzsOf
  <2> QED
    BY <1>2, <2>4 DEF Abstract!Next
<1> QED
  BY <1>5, <1>6

\* With one request at a time the handlers of acme/api, the methods UpdateStatus and
\* Finalize and the writes of the tables implement the status machine of their switch
\* statements, for any number of orders, authorizations and challenges, across
\* failures and expiry.
THEOREM HandlersImplementStatusMachine ==
  ASSUME Serial
  PROVE  Spec => StatusMachine
<1>1. Init => AllFresh
  BY IdleFresh DEF Init, AllFresh
<1>2. Inv /\ AllFresh /\ [Next]_vars => AllFresh'
  BY NextFresh
<1>3. Init => Abstract!Init
  <2> SUFFICES ASSUME Init PROVE Abstract!Init
    OBVIOUS
  <2>1. OrderStatuses = [o \in Orders |-> "pending"]
    BY SMTT(60) DEF Init, OrderStatuses, RowOf
  <2> QED
    BY <2>1 DEF Init, Abstract!Init
<1>4. Inv /\ AllFresh /\ [Next]_vars => [Abstract!Next]_(Abstract!statuses)
  <2> SUFFICES ASSUME Inv, AllFresh, [Next]_vars
               PROVE  [Abstract!Next]_(Abstract!statuses)
    OBVIOUS
  <2>1. ASSUME UNCHANGED <<order, authz, chal>>
        PROVE  UNCHANGED Abstract!statuses
    BY <2>1 DEF Abstract!statuses, OrderStatuses
  <2>2. CASE \E p \in Procs : Request(p) \/ Step(p) \/ Fail(p)
    BY <2>1, <2>2, OnlySaves, SaveChallengeIs, SaveAuthorizationIs, SaveOrderIs
  <2>3. CASE UNCHANGED vars \/ \E o \in Orders : Expire(o)
    BY <2>1, <2>3 DEF vars, Expire, db
  <2> QED
    BY <2>2, <2>3 DEF Next
<1> QED
  BY <1>1, <1>2, <1>3, <1>4, Invariance, PTL DEF Spec, StatusMachine, Abstract!Spec

====
