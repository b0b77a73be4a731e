----------------------------- MODULE AdminStore -----------------------------
(***************************************************************************)
(* The provisioners and the administrators of an authority whose admin API *)
(* is enabled: two tables of the admin database (authority/admin/db/nosql) *)
(* and the two collections that cache them in memory                       *)
(* (provisioner.Collection, administrator.Collection).                     *)
(*                                                                         *)
(* A process is one request of the admin API.  A request first looks       *)
(* something up under the read lock of adminMutex and then calls a method  *)
(* of Authority, which runs under the write lock.  That method is one step *)
(* here, except RemoveProvisioner, whose many writes a crash can separate. *)
(***************************************************************************)
EXTENDS Integers, Sequences, FiniteSets, Functions

CONSTANTS
  Procs,         \* requests
  MaxProvs,      \* rows that the table of provisioners can take
  MaxAdmins,     \* rows that the table of administrators can take
  Subjects,      \* subjects of administrators
  Configs,       \* configurations a provisioner can be given
  FirstConfig,   \* the configuration "Admin JWK"
  FirstSubject,  \* the subject "step"
  Workloads,     \* what clients ask for and what can fail
  None,          \* no row, no value
  Deleted        \* a row whose DeletedAt is set

ProvIDs == 1 .. MaxProvs
AdminIDs == 1 .. MaxAdmins
Names == {c.name : c \in Configs}
Types == {"ADMIN", "SUPER_ADMIN"}
Admin == [sub: Subjects, prov: ProvIDs, type: Types]

\* In a behaviour, clients have the requests procs in progress at the same time.
\* They send those of the kinds requests, about the subjects and configurations
\* named here, and the steps in faults can fail.  Bound: rows administrators.
Workload ==
  [procs: SUBSET Procs,
   requests: SUBSET {"CreateAdmin", "UpdateAdmin", "RemoveAdmin", "StoreProvisioner",
                     "UpdateProvisioner", "Rename", "RemoveProvisioner"},
   faults: SUBSET {"db", "reload", "init", "crash", "crash at first start"},
   subjects: SUBSET Subjects, configs: SUBSET Configs, rows: 0 .. MaxAdmins]

\* Rows can be told from each other, and a request from none.
ASSUME StoreAssumption ==
  /\ MaxProvs \in Nat /\ MaxAdmins \in Nat
  /\ Workloads \subseteq Workload
  /\ FirstConfig \in Configs /\ FirstSubject \in Subjects
  /\ \A c \in Configs : c = [name |-> c.name, kid |-> c.kid, client |-> c.client]
  /\ None \notin Procs /\ None # Deleted
  /\ {None, Deleted} \cap (Configs \cup Admin) = {}

VARIABLES
  work,       \* the workload of the behaviour
  provRows,   \* table provisioners
  adminRows,  \* table admins
  provs,      \* Authority.provisioners
  admins,     \* Authority.admins
  boot,       \* where Authority.init is, or "up"
  lock,       \* the request that keeps adminMutex between two steps
  stale,      \* history: the last ReloadAdminResources failed
  loc         \* the local variables of each request

vars == <<work, provRows, adminRows, provs, admins, boot, lock, stale, loc>>

Active(rows) == {i \in DOMAIN rows : rows[i] \notin {None, Deleted}}
Add(f, k, v) == [x \in DOMAIN f \cup {k} |-> IF x = k THEN v ELSE f[x]]
Drop(f, k) == [x \in DOMAIN f \ {k} |-> f[x]]

-----------------------------------------------------------------------------
(* provisioner.Collection: four maps from a key to a provisioner.           *)

Provisioner(id, c) ==
  [id |-> id, name |-> c.name, kid |-> c.kid, client |-> c.client]

\* A JWK provisioner is found by its name and key ID, one with a client ID by
\* that.
GetIDForToken(p) == IF p.kid = None THEN p.client ELSE <<p.name, p.kid>>

NewProvisioners == [byID |-> <<>>, byName |-> <<>>, byTokenID |-> <<>>, byKey |-> <<>>]

CanStoreProvisioner(c, p) ==
  /\ p.id \notin DOMAIN c.byID
  /\ p.name \notin DOMAIN c.byName
  /\ GetIDForToken(p) \notin DOMAIN c.byTokenID

StoreInProvisioners(c, p) ==
  [byID |-> Add(c.byID, p.id, p),
   byName |-> Add(c.byName, p.name, p),
   byTokenID |-> Add(c.byTokenID, GetIDForToken(p), p),
   byKey |-> IF p.kid = None THEN c.byKey ELSE Add(c.byKey, p.kid, p)]

\* Mutant: the token identifier stays behind.
RemoveKeepsTokenID(c, id) ==
  LET p == c.byID[id]
  IN  [byID |-> Drop(c.byID, id), byName |-> Drop(c.byName, p.name),
       byTokenID |-> c.byTokenID,
       byKey |-> IF p.kid = None THEN c.byKey ELSE Drop(c.byKey, p.kid)]

RemoveFromProvisioners(c, id) ==
  LET p == c.byID[id]
  IN  [byID |-> Drop(c.byID, id),
       byName |-> Drop(c.byName, p.name),
       byTokenID |-> Drop(c.byTokenID, GetIDForToken(p)),
       byKey |-> IF p.kid = None THEN c.byKey ELSE Drop(c.byKey, p.kid)]

CanUpdateProvisioner(c, nu) ==
  /\ nu.id \in DOMAIN c.byID
  /\ c.byID[nu.id].name # nu.name => nu.name \notin DOMAIN c.byName
  /\ GetIDForToken(c.byID[nu.id]) # GetIDForToken(nu)
       => GetIDForToken(nu) \notin DOMAIN c.byTokenID

UpdateInProvisioners(c, nu) == StoreInProvisioners(RemoveFromProvisioners(c, nu.id), nu)

-----------------------------------------------------------------------------
(* administrator.Collection.  The maps bySubProv and byProv hold pointers   *)
(* to the administrators of byID: here they hold the IDs.  An entry of      *)
(* byProv is a slice, an array and how much of it is in use, because        *)
(* RemoveProvisioner ranges over the array that Remove writes.              *)

NewAdmins ==
  [byID |-> <<>>, bySubProv |-> <<>>, byProv |-> <<>>,
   superCount |-> 0, superCountByProvisioner |-> <<>>]

LoadByProvisioner(c, name) ==
  IF name \in DOMAIN c.byProv THEN c.byProv[name] ELSE [arr |-> <<>>, len |-> 0]

SuperCountByProvisioner(c, name) ==
  IF name \in DOMAIN c.superCountByProvisioner
  THEN c.superCountByProvisioner[name] ELSE 0

AddSuper(c, name, n) ==
  [c EXCEPT !.superCount = @ + n,
            !.superCountByProvisioner = Add(@, name, SuperCountByProvisioner(c, name) + n)]

StoreInAdmins(c, id, adm, name) ==
  LET list == LoadByProvisioner(c, name)
      nu == [c EXCEPT !.byID = Add(@, id, adm),
                      !.bySubProv = Add(@, <<adm.sub, name>>, id),
                      !.byProv = Add(@, name,
                           [arr |-> Append(SubSeq(list.arr, 1, list.len), id),
                            len |-> list.len + 1])]
  IN  IF adm.type = "SUPER_ADMIN" THEN AddSuper(nu, name, 1) ELSE nu

\* Mutant: the last super administrator can be removed.
CanRemoveLast(c, pc, id) ==
  /\ id \in DOMAIN c.byID
  /\ c.byID[id].prov \in DOMAIN pc.byID
  /\ LET list == LoadByProvisioner(c, pc.byID[c.byID[id].prov].name)
     IN  \E i \in 1 .. list.len : list.arr[i] = id

\* The conditions under which Collection.Remove removes; any other is an error.
CanRemoveAdmin(c, pc, id) ==
  /\ id \in DOMAIN c.byID
  /\ ~ (c.byID[id].type = "SUPER_ADMIN" /\ c.superCount = 1)
  /\ c.byID[id].prov \in DOMAIN pc.byID
  /\ LET list == LoadByProvisioner(c, pc.byID[c.byID[id].prov].name)
     IN  \E i \in 1 .. list.len : list.arr[i] = id

\* The last element of the slice takes the place of the removed one.
RemoveFromAdmins(c, pc, id) ==
  LET adm == c.byID[id]
      name == pc.byID[adm.prov].name
      list == c.byProv[name]
      i == CHOOSE i \in 1 .. list.len : list.arr[i] = id
      nu == [c EXCEPT !.byID = Drop(@, id),
                      !.bySubProv = Drop(@, <<adm.sub, name>>),
                      !.byProv[name] = [arr |-> [list.arr EXCEPT ![i] = list.arr[list.len]],
                                        len |-> list.len - 1]]
  IN  IF adm.type = "SUPER_ADMIN" THEN AddSuper(nu, name, -1) ELSE nu

CanUpdateAdmin(c, id, type) ==
  /\ id \in DOMAIN c.byID
  /\ ~ (/\ c.byID[id].type = "SUPER_ADMIN"
        /\ type # "SUPER_ADMIN"
        /\ c.superCount = 1)

UpdateInAdmins(c, id, type) == [c EXCEPT !.byID[id].type = type]

-----------------------------------------------------------------------------
(* ReloadAdminResources: both collections are built again from the tables.  *)

\* Every Store of the loops of ReloadAdminResources succeeds.
Loadable(pr, ar) ==
  /\ \A i, j \in Active(pr) : i # j =>
       /\ pr[i].name # pr[j].name
       /\ GetIDForToken(pr[i]) # GetIDForToken(pr[j])
  /\ \A i \in Active(ar) : ar[i].prov \in Active(pr)
  /\ \A i, j \in Active(ar) :
       i # j => <<ar[i].sub, ar[i].prov>> # <<ar[j].sub, ar[j].prov>>

\* What the loops store.  (A key can belong to several provisioners: the last one
\* is found by it.)
LoadProvisioners(pr) ==
  LET ids == Active(pr)
      Prov(i) == Provisioner(i, pr[i])
  IN  [byID |-> [i \in ids |-> Prov(i)],
       byName |-> [n \in {pr[i].name : i \in ids} |->
                     Prov(CHOOSE i \in ids : pr[i].name = n)],
       byTokenID |-> [t \in {GetIDForToken(pr[i]) : i \in ids} |->
                        Prov(CHOOSE i \in ids : GetIDForToken(pr[i]) = t)],
       byKey |-> [k \in {pr[i].kid : i \in ids} \ {None} |->
                    Prov(CHOOSE i \in ids : /\ pr[i].kid = k
                                            /\ \A j \in ids : pr[j].kid = k => j <= i)]]

\* The rows come in the order of their keys, which are random.
LoadAdmins(pr, ar) ==
  LET ids == Active(ar)
      Name(i) == pr[ar[i].prov].name
      Of(n) == {i \in ids : Name(i) = n}
      super == {i \in ids : ar[i].type = "SUPER_ADMIN"}
  IN  [byID |-> [i \in ids |-> ar[i]],
       bySubProv |-> [sp \in {<<ar[i].sub, Name(i)>> : i \in ids} |->
                        CHOOSE i \in ids : <<ar[i].sub, Name(i)>> = sp],
       byProv |-> [n \in {Name(i) : i \in ids} |->
                     LET len == Cardinality(Of(n))
                     IN  [arr |-> CHOOSE arr \in Bijection(1 .. len, Of(n)) : TRUE,
                          len |-> len]],
       superCount |-> Cardinality(super),
       superCountByProvisioner |->
         [n \in {Name(i) : i \in super} |-> Cardinality(super \cap Of(n))]]

\* The outcomes of a call that the environment can make fail.
Outcomes(fault) == IF fault \in work.faults THEN BOOLEAN ELSE {TRUE}

\* The reload after a failed write; when it fails too, the collections keep the
\* change that the table did not get.
ReloadAdminResources(changedProvs, changedAdmins) ==
  \E ok \in Outcomes("reload") :
    IF ok /\ Loadable(provRows, adminRows)
    THEN /\ provs' = LoadProvisioners(provRows)
         /\ admins' = LoadAdmins(provRows, adminRows)
         /\ stale' = FALSE
    ELSE /\ provs' = changedProvs
         /\ admins' = changedAdmins
         /\ stale' = TRUE

-----------------------------------------------------------------------------
(* Authority.init.                                                          *)

Idle == [pc |-> "idle"]

Init ==
  /\ work \in Workloads
  /\ provRows = [i \in ProvIDs |-> None]
  /\ adminRows = [i \in AdminIDs |-> None]
  /\ provs = NewProvisioners
  /\ admins = NewAdmins
  /\ boot = "start"
  /\ lock = None
  /\ stale = FALSE
  /\ loc = [p \in Procs |-> Idle]

\* With no provisioner in the database, init creates the first one ...
CreateFirstProvisioner(id) ==
  /\ boot = "start" /\ Active(provRows) = {}
  /\ provRows[id] = None
  /\ provRows' = [provRows EXCEPT ![id] = FirstConfig]
  /\ boot' = "CreateAdmin"
  /\ UNCHANGED <<adminRows, provs, admins, lock, stale, loc>>

\* ... and the first administrator, who belongs to it.
CreateFirstAdmin(id, prov) ==
  /\ boot = "CreateAdmin" /\ prov \in Active(provRows)
  /\ adminRows[id] = None
  /\ adminRows' = [adminRows EXCEPT ![id] =
       [sub |-> FirstSubject, prov |-> prov, type |-> "SUPER_ADMIN"]]
  /\ boot' = "ReloadAdminResources"
  /\ UNCHANGED <<provRows, provs, admins, lock, stale, loc>>

\* An error of the load ends the process: the authority does not start.
Load ==
  /\ \/ boot = "ReloadAdminResources"
     \/ boot = "start" /\ Active(provRows) # {}
  /\ IF Loadable(provRows, adminRows)
     THEN /\ provs' = LoadProvisioners(provRows)
          /\ admins' = LoadAdmins(provRows, adminRows)
          /\ boot' = "up"
     ELSE boot' = "failed" /\ UNCHANGED <<provs, admins>>
  /\ stale' = FALSE
  /\ UNCHANGED <<provRows, adminRows, lock, loc>>

\* The process ends at any time; what it held in memory is lost.
Crash ==
  /\ IF boot = "CreateAdmin" THEN "crash at first start" \in work.faults ELSE "crash" \in work.faults
  /\ boot' = "start"
  /\ provs' = NewProvisioners
  /\ admins' = NewAdmins
  /\ lock' = None
  /\ stale' = FALSE
  /\ loc' = [p \in Procs |-> Idle]
  /\ UNCHANGED <<provRows, adminRows>>

-----------------------------------------------------------------------------
(* The requests.                                                            *)

\* p runs at a label while no other request keeps adminMutex.
At(p, label) == boot = "up" /\ lock = None /\ loc[p].pc = label

Sent(p, request) == request \in work.requests /\ At(p, "idle")

Goto(p, l) == loc' = [loc EXCEPT ![p] = l]

\* An error answer that changed nothing.
Refuse(p) ==
  /\ Goto(p, Idle)
  /\ UNCHANGED <<provRows, adminRows, provs, admins, stale>>

\* Bound: a row is left for every administrator that is being stored.
RowLeft ==
  Cardinality({q \in Procs : loc[q].pc = "StoreAdmin"})
    < Cardinality({i \in 1 .. work.rows : adminRows[i] = None})

\* POST /admin/admins: LoadProvisionerByName releases the lock again.
CreateAdmin(p, sub, name, type) ==
  /\ Sent(p, "CreateAdmin") /\ RowLeft
  /\ IF name \in DOMAIN provs.byName
     THEN Goto(p, [pc |-> "StoreAdmin", sub |-> sub, type |-> type,
                   prov |-> provs.byName[name]])
     ELSE UNCHANGED loc
  /\ UNCHANGED <<provRows, adminRows, provs, admins, boot, lock, stale>>

\* The row is written first, under a new random ID, and then cached.
StoreAdmin(p, id) ==
  /\ At(p, "StoreAdmin")
  /\ adminRows[id] = None
  /\ LET l == loc[p]
         adm == [sub |-> l.sub, prov |-> l.prov.id, type |-> l.type]
     IN  \E ok \in Outcomes("db") :
           IF ok /\ <<l.sub, l.prov.name>> \notin DOMAIN admins.bySubProv
           THEN /\ adminRows' = [adminRows EXCEPT ![id] = adm]
                /\ admins' = StoreInAdmins(admins, id, adm, l.prov.name)
                /\ Goto(p, Idle)
                /\ UNCHANGED <<provRows, provs, stale>>
           ELSE Refuse(p)
  /\ UNCHANGED <<boot, lock>>

\* PATCH /admin/admins/{id}: the cached administrator is changed in place, then
\* the row.  (For an ID that is not cached, Update panics on a nil administrator;
\* the server recovers and the deferred Unlock runs.)
UpdateAdmin(p, id, type) ==
  /\ Sent(p, "UpdateAdmin")
  /\ IF ~ CanUpdateAdmin(admins, id, type) THEN Refuse(p)
     ELSE LET nu == UpdateInAdmins(admins, id, type)
          IN  /\ \E ok \in Outcomes("db") :
                   IF ok /\ id \in Active(adminRows)
                   THEN /\ adminRows' = [adminRows EXCEPT ![id].type = type]
                        /\ admins' = nu
                        /\ UNCHANGED <<provs, stale>>
                   ELSE ReloadAdminResources(provs, nu) /\ UNCHANGED adminRows
              /\ UNCHANGED <<provRows, loc>>
  /\ UNCHANGED <<boot, lock>>

\* The cache loses the administrator first, then the row is marked deleted; the
\* answer says whether both worked.
removeAdmin(id, after, failed) ==
  LET nu == RemoveFromAdmins(admins, provs, id)
  IN  /\ \E ok \in Outcomes("db") :
           IF ok /\ id \in Active(adminRows)
           THEN /\ adminRows' = [adminRows EXCEPT ![id] = Deleted]
                /\ admins' = nu
                /\ after
                /\ UNCHANGED <<provs, stale>>
           ELSE /\ ReloadAdminResources(provs, nu)
                /\ failed
                /\ UNCHANGED adminRows
      /\ UNCHANGED provRows

\* DELETE /admin/admins/{id}.
RemoveAdmin(p, id) ==
  /\ Sent(p, "RemoveAdmin")
  /\ IF CanRemoveAdmin(admins, provs, id)
     THEN removeAdmin(id, UNCHANGED loc, UNCHANGED loc)
     ELSE Refuse(p)
  /\ UNCHANGED <<boot, lock>>

\* POST /admin/provisioners.  An OIDC provisioner fetches the configuration of its
\* issuer in Init, which runs once before the row is written and once after: the
\* second one can fail when the row exists.
StoreProvisioner(p, id, c) ==
  /\ Sent(p, "StoreProvisioner")
  /\ provRows[id] = None
  /\ LET nu == Provisioner(id, c)
     IN  \E ok \in Outcomes("db"), again \in Outcomes("init") :
           IF ok /\ CanStoreProvisioner(provs, nu)
           THEN /\ provRows' = [provRows EXCEPT ![id] = c]
                /\ provs' = IF again \/ c.client = None
                            THEN StoreInProvisioners(provs, nu) ELSE provs
                /\ UNCHANGED <<adminRows, admins, stale, loc>>
           ELSE Refuse(p)
  /\ UNCHANGED <<boot, lock>>

\* PUT /admin/provisioners/{name}: the body names the ID that the name stands for.
UpdateProvisionerRequest(p, name, c) ==
  /\ Sent(p, "UpdateProvisioner") /\ (c.name = name \/ "Rename" \in work.requests)
  /\ IF name \in DOMAIN provs.byName /\ provs.byName[name].id \in Active(provRows)
     THEN Goto(p, [pc |-> "UpdateProvisioner", nu |-> Provisioner(provs.byName[name].id, c)])
     ELSE UNCHANGED loc
  /\ UNCHANGED <<provRows, adminRows, provs, admins, boot, lock, stale>>

\* The cached provisioner is replaced first, then the row.
UpdateProvisioner(p) ==
  /\ At(p, "UpdateProvisioner")
  /\ LET nu == loc[p].nu
     IN  IF ~ CanUpdateProvisioner(provs, nu) THEN Refuse(p)
         ELSE /\ \E ok \in Outcomes("db") :
                   IF ok /\ nu.id \in Active(provRows)
                   THEN /\ provRows' = [provRows EXCEPT ![nu.id] =
                             [name |-> nu.name, kid |-> nu.kid, client |-> nu.client]]
                        /\ provs' = UpdateInProvisioners(provs, nu)
                        /\ UNCHANGED <<admins, stale>>
                   ELSE /\ ReloadAdminResources(UpdateInProvisioners(provs, nu), admins)
                        /\ UNCHANGED provRows
              /\ Goto(p, Idle)
              /\ UNCHANGED adminRows
  /\ UNCHANGED <<boot, lock>>

\* DELETE /admin/provisioners/{name}.
DeleteProvisioner(p, name) ==
  /\ Sent(p, "RemoveProvisioner")
  /\ IF name \in DOMAIN provs.byName
     THEN Goto(p, [pc |-> "RemoveProvisioner", id |-> provs.byName[name].id])
     ELSE UNCHANGED loc
  /\ UNCHANGED <<provRows, adminRows, provs, admins, boot, lock, stale>>

\* Mutant: the administrators of the provisioner are left alone.
RemoveProvisionerOnly(p) ==
  /\ At(p, "RemoveProvisioner")
  /\ LET id == loc[p].id
     IN  IF \/ id \notin DOMAIN provs.byID
            \/ admins.superCount = SuperCountByProvisioner(admins, provs.byID[id].name)
         THEN Refuse(p) /\ UNCHANGED lock
         ELSE /\ Goto(p, [pc |-> "removeAdmin", id |-> id, i |-> 1, n |-> 0])
              /\ lock' = p
              /\ UNCHANGED <<provRows, adminRows, provs, admins, stale>>
  /\ UNCHANGED boot

\* Super administrators must remain without the provisioner; then its
\* administrators are removed, one by one.
RemoveProvisioner(p) ==
  /\ At(p, "RemoveProvisioner")
  /\ LET id == loc[p].id
     IN  IF \/ id \notin DOMAIN provs.byID
            \/ admins.superCount = SuperCountByProvisioner(admins, provs.byID[id].name)
         THEN Refuse(p) /\ UNCHANGED lock
         ELSE /\ Goto(p, [pc |-> "removeAdmin", id |-> id, i |-> 1,
                          n |-> LoadByProvisioner(admins, provs.byID[id].name).len])
              /\ lock' = p
              /\ UNCHANGED <<provRows, adminRows, provs, admins, stale>>
  /\ UNCHANGED boot

\* One turn of the loop: the element is read from the array as it is now.
RemoveAdminOfProvisioner(p) ==
  /\ lock = p /\ loc[p].pc = "removeAdmin" /\ loc[p].i <= loc[p].n
  /\ LET name == provs.byID[loc[p].id].name
         adm == admins.byProv[name].arr[loc[p].i]
         next == Goto(p, [loc[p] EXCEPT !.i = @ + 1]) /\ UNCHANGED lock
         return == Goto(p, Idle) /\ lock' = None
     IN  IF CanRemoveAdmin(admins, provs, adm)
         THEN removeAdmin(adm, next, return)
         ELSE Refuse(p) /\ lock' = None
  /\ UNCHANGED boot

\* The provisioner itself: the cache first, then the row.
DeleteProvisionerRow(p) ==
  /\ lock = p /\ loc[p].pc = "removeAdmin" /\ loc[p].i > loc[p].n
  /\ LET id == loc[p].id
         nu == RemoveFromProvisioners(provs, id)
     IN  \E ok \in Outcomes("db") :
           IF ok /\ id \in Active(provRows)
           THEN /\ provRows' = [provRows EXCEPT ![id] = Deleted]
                /\ provs' = nu
                /\ UNCHANGED <<admins, stale>>
           ELSE ReloadAdminResources(nu, admins) /\ UNCHANGED provRows
  /\ Goto(p, Idle)
  /\ lock' = None
  /\ UNCHANGED <<adminRows, boot>>

AdminRequest(p) ==
  \/ \E sub \in work.subjects, name \in Names, type \in Types : CreateAdmin(p, sub, name, type)
  \/ \E id \in 1 .. work.rows : StoreAdmin(p, id) \/ RemoveAdmin(p, id)
  \/ \E id \in 1 .. work.rows, type \in Types : UpdateAdmin(p, id, type)

ProvisionerRequest(p) ==
  \/ \E id \in ProvIDs, c \in work.configs : StoreProvisioner(p, id, c)
  \/ \E name \in Names, c \in work.configs : UpdateProvisionerRequest(p, name, c)
  \/ \E name \in Names : DeleteProvisioner(p, name)
  \/ UpdateProvisioner(p) \/ RemoveProvisioner(p)
  \/ RemoveAdminOfProvisioner(p) \/ DeleteProvisionerRow(p)

Next ==
  /\ \/ \E id \in ProvIDs : CreateFirstProvisioner(id)
     \/ \E id \in 1 .. work.rows, prov \in ProvIDs : CreateFirstAdmin(id, prov)
     \/ Load
     \/ Crash
     \/ \E p \in work.procs : AdminRequest(p) \/ ProvisionerRequest(p)
  /\ UNCHANGED work

Spec == Init /\ [][Next]_vars

-----------------------------------------------------------------------------
(* Properties.                                                              *)

\* The tables hold rows, and adminMutex is kept only by a request in the loop of
\* RemoveProvisioner.  The counter is an int of the code: Collection.Update does
\* not count changes of roles, so that it can go below zero, see the README.
TypeOK ==
  /\ provRows \in [ProvIDs -> Configs \cup {None, Deleted}]
  /\ adminRows \in [AdminIDs -> Admin \cup {None, Deleted}]
  /\ boot \in {"start", "CreateAdmin", "ReloadAdminResources", "up", "failed"}
  /\ lock \in Procs \cup {None}
  /\ stale \in BOOLEAN
  /\ admins.superCount \in Int
  /\ \A p \in Procs : loc[p].pc = "removeAdmin" <=> lock = p

\* What a collection of administrators answers to its callers.
View(c) ==
  [byID |-> c.byID, bySubProv |-> c.bySubProv, superCount |-> c.superCount,
   byProv |-> [n \in Names |-> LET list == LoadByProvisioner(c, n)
                              IN  {list.arr[i] : i \in 1 .. list.len}],
   superCountByProvisioner |-> [n \in Names |-> SuperCountByProvisioner(c, n)]]

\* No role is changed: Collection.Update leaves the counters as they are.
RolesKept == "UpdateAdmin" \notin work.requests

\* No provisioner is renamed, none is removed while another request has looked it
\* up, and the second Init of a new one does not fail: after each of these the
\* collections are not what the tables say, see the README.
Orderly ==
  /\ "Rename" \notin work.requests
  /\ "RemoveProvisioner" \in work.requests => \A p, q \in work.procs : p = q
  /\ "init" \notin work.faults

\* Provisioners with different names have different keys.
OwnKeys ==
  \A c, d \in work.configs \cup {FirstConfig} :
    c.kid # None /\ c.kid = d.kid => c.name = d.name

\* Between two requests the collections in memory are what ReloadAdminResources
\* would build from the tables, whatever requests came before and whichever of
\* their writes failed (Authority.StoreAdmin to Authority.RemoveProvisioner).
CacheMatchesDatabase ==
  Orderly /\ RolesKept /\ OwnKeys /\ boot = "up" /\ lock = None /\ ~ stale =>
    /\ provs = LoadProvisioners(provRows)
    /\ View(admins) = View(LoadAdmins(provRows, adminRows))

\* "cannot remove the last super admin", "cannot change role of last super admin":
\* once the authority is up the database has a super administrator.
\* Does not hold, see the README.
LastSuperAdminKept ==
  boot = "up" => \E i \in Active(adminRows) : adminRows[i].type = "SUPER_ADMIN"

\* While no role is changed the database of an authority that is up has a super
\* administrator, also between the deletions of RemoveProvisioner, after a crash in
\* their middle, and when the collections have lost a change that the tables have
\* (Collection.Remove, RemoveProvisioner).
SuperAdminRemains ==
  RolesKept /\ "crash at first start" \notin work.faults => LastSuperAdminKept

\* At every moment the tables can be loaded, so that a process that ends there can
\* be started again: RemoveProvisioner ranges over a slice that it changes and can
\* stop at each of its writes, and two requests look something up before the other
\* stores (ReloadAdminResources in Authority.init).
DatabaseLoadable ==
  Orderly /\ "reload" \notin work.faults => Loadable(provRows, adminRows)

\* The key of a provisioner that has one can be fetched by its key ID
\* (GetEncryptedKey).
\* Does not hold, see the README.
KeysFound ==
  boot = "up" /\ lock = None /\ ~ stale =>
    \A id \in DOMAIN provs.byID :
      provs.byID[id].kid # None => provs.byID[id].kid \in DOMAIN provs.byKey

=============================================================================
