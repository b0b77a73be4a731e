-------------------------- MODULE AdminStoreProofs --------------------------
(***************************************************************************)
(* Proofs about the tables of provisioners and administrators and the      *)
(* collections that cache them, for any number of rows, requests, failed   *)
(* writes, failed reloads and crashes.                                     *)
(*                                                                         *)
(* A super administrator remains because the counter that CanRemoveAdmin   *)
(* reads counts cached super administrators, each of which has a row, even *)
(* when the collection lags behind the table (SuperInv).  The collections  *)
(* agree with the tables because each index has exactly the rows it should *)
(* have (Match), a request finds what it looked up still there (LocFound), *)
(* and the loop of RemoveProvisioner reads every administrator that is     *)
(* left although Remove rearranges the array it ranges over (Left).        *)
(***************************************************************************)
EXTENDS AdminStore, TLAPS

(* A leaf is Zenon's unless it names another prover.                        *)
USE ZenonT(60)

ProvRecs == {Provisioner(i, c) : i \in ProvIDs, c \in Configs}

AdminsRecord(c) ==
  \E i, sp, p, n, np : c = [byID |-> i, bySubProv |-> sp, byProv |-> p,
                            superCount |-> n, superCountByProvisioner |-> np]

\* Provisioners are stored under their own ID and name.
ProvsTyped(c) ==
  /\ \E i, n, t, k : c = [byID |-> i, byName |-> n, byTokenID |-> t, byKey |-> k]
  /\ \A n \in DOMAIN c.byName : c.byName[n] \in ProvRecs /\ c.byName[n].name = n
  /\ \A i \in DOMAIN c.byID : c.byID[i] \in ProvRecs /\ c.byID[i].id = i

-----------------------------------------------------------------------------
(* The collections.                                                         *)

\* A map with one more key.
LEMMA AddIs ==
  ASSUME NEW f, NEW k, NEW v
  PROVE  /\ DOMAIN Add(f, k, v) = DOMAIN f \cup {k} /\ Add(f, k, v)[k] = v
         /\ \A x \in DOMAIN f : x # k => Add(f, k, v)[x] = f[x]
  BY DEF Add

\* A map with one key less.
LEMMA DropIs ==
  ASSUME NEW f, NEW k
  PROVE  DOMAIN Drop(f, k) = DOMAIN f \ {k} /\ \A x \in DOMAIN f : x # k => Drop(f, k)[x] = f[x]
  BY DEF Drop

LEMMA AddTyped ==
  ASSUME NEW S, NEW T, NEW f \in [S -> T], NEW k, NEW v \in T
  PROVE  Add(f, k, v) \in [S \cup {k} -> T]
  BY DEF Add

LEMMA DropTyped ==
  ASSUME NEW S, NEW T, NEW f \in [S -> T], NEW k
  PROVE  Drop(f, k) \in [S \ {k} -> T]
  BY DEF Drop

\* An element of ProvRecs is a configuration with an ID.
LEMMA ProvRecIs ==
  ASSUME NEW p \in ProvRecs
  PROVE  /\ p.id \in ProvIDs /\ p.name \in Names
         /\ [name |-> p.name, kid |-> p.kid, client |-> p.client] \in Configs
         /\ p = Provisioner(p.id, [name |-> p.name, kid |-> p.kid, client |-> p.client])
<1>1. PICK i \in ProvIDs, c \in Configs : p = Provisioner(i, c)
  BY SMTT(60) DEF ProvRecs
<1>2. p.id = i /\ p.name = c.name /\ p.kid = c.kid /\ p.client = c.client
  BY <1>1 DEF Provisioner
<1>3. c = [name |-> c.name, kid |-> c.kid, client |-> c.client]
  BY StoreAssumption
<1>4. c = [name |-> p.name, kid |-> p.kid, client |-> p.client]
  BY <1>2, <1>3
<1> QED
  BY <1>1, <1>2, <1>4 DEF Names

LEMMA RecOfConfig ==
  ASSUME NEW i \in ProvIDs, NEW c \in Configs
  PROVE  /\ Provisioner(i, c) \in ProvRecs /\ Provisioner(i, c).id = i
         /\ Provisioner(i, c).name = c.name /\ c.name \in Names
         /\ Provisioner(i, c).kid = c.kid /\ Provisioner(i, c).client = c.client
         /\ GetIDForToken(Provisioner(i, c)) = GetIDForToken(c)
<1>1. Provisioner(i, c) \in ProvRecs /\ c.name \in Names
  BY SMTT(60) DEF ProvRecs, Names
<1> QED
  BY <1>1 DEF Provisioner, GetIDForToken

LEMMA SuperIs ==
  ASSUME NEW c, AdminsRecord(c), NEW name, NEW n, NEW d, d = AddSuper(c, name, n)
  PROVE  /\ AdminsRecord(d) /\ d.byID = c.byID /\ d.bySubProv = c.bySubProv
         /\ d.byProv = c.byProv /\ d.superCount = c.superCount + n
         /\ d.superCountByProvisioner =
              Add(c.superCountByProvisioner, name, SuperCountByProvisioner(c, name) + n)
<1>1. PICK i, sp, p, m, np : c = [byID |-> i, bySubProv |-> sp, byProv |-> p,
                                  superCount |-> m, superCountByProvisioner |-> np]
  BY DEF AdminsRecord
<1>2. d = [byID |-> i, bySubProv |-> sp, byProv |-> p, superCount |-> m + n,
           superCountByProvisioner |-> Add(np, name, SuperCountByProvisioner(c, name) + n)]
  BY <1>1 DEF AddSuper
<1>3. AdminsRecord(d)
  BY <1>2 DEF AdminsRecord
<1> QED
  BY <1>1, <1>2, <1>3, SMTT(60)

\* Collection.Store of an administrator, field by field.
StoredAs(c, id, adm, name, d) ==
  LET l == LoadByProvisioner(c, name)
  IN  /\ AdminsRecord(d) /\ d.byID = Add(c.byID, id, adm)
      /\ d.bySubProv = Add(c.bySubProv, <<adm.sub, name>>, id)
      /\ d.byProv = Add(c.byProv, name,
           [arr |-> Append(SubSeq(l.arr, 1, l.len), id), len |-> l.len + 1])
      /\ adm.type = "SUPER_ADMIN" =>
           /\ d.superCount = c.superCount + 1
           /\ d.superCountByProvisioner =
                Add(c.superCountByProvisioner, name, SuperCountByProvisioner(c, name) + 1)
      /\ adm.type # "SUPER_ADMIN" =>
           /\ d.superCount = c.superCount
           /\ d.superCountByProvisioner = c.superCountByProvisioner

LEMMA StoreInAdminsIs ==
  ASSUME NEW c, AdminsRecord(c), NEW id, NEW adm, NEW name
  PROVE  StoredAs(c, id, adm, name, StoreInAdmins(c, id, adm, name))
<1> DEFINE l == LoadByProvisioner(c, name)
           d == StoreInAdmins(c, id, adm, name)
<1>0. PICK x, y, z : /\ x = Add(c.byID, id, adm)
                     /\ y = Add(c.bySubProv, <<adm.sub, name>>, id)
                     /\ z = Add(c.byProv, name,
                          [arr |-> Append(SubSeq(l.arr, 1, l.len), id), len |-> l.len + 1])
  OBVIOUS
<1>1. PICK nu : nu = [c EXCEPT !.byID = x, !.bySubProv = y, !.byProv = z]
  OBVIOUS
<1>2. d = IF adm.type = "SUPER_ADMIN" THEN AddSuper(nu, name, 1) ELSE nu
  <2>1. nu = [c EXCEPT !.byID = Add(c.byID, id, adm),
                       !.bySubProv = Add(c.bySubProv, <<adm.sub, name>>, id),
                       !.byProv = Add(c.byProv, name,
                            [arr |-> Append(SubSeq(l.arr, 1, l.len), id), len |-> l.len + 1])]
    BY <1>0, <1>1
  <2> QED
    BY <2>1 DEF StoreInAdmins
<1>3. /\ AdminsRecord(nu) /\ nu.byID = x /\ nu.bySubProv = y /\ nu.byProv = z
      /\ nu.superCount = c.superCount
      /\ nu.superCountByProvisioner = c.superCountByProvisioner
  <2>1. PICK i, sp, p, m, np : c = [byID |-> i, bySubProv |-> sp, byProv |-> p,
                                    superCount |-> m, superCountByProvisioner |-> np]
    BY DEF AdminsRecord
  <2>2. nu = [byID |-> x, bySubProv |-> y, byProv |-> z,
              superCount |-> m, superCountByProvisioner |-> np]
    BY <1>1, <2>1
  <2>3. AdminsRecord(nu)
    BY <2>2 DEF AdminsRecord
  <2> QED
    BY <2>1, <2>2, <2>3
<1>4. SuperCountByProvisioner(nu, name) = SuperCountByProvisioner(c, name)
  BY <1>3 DEF SuperCountByProvisioner
<1>5. CASE adm.type = "SUPER_ADMIN"
  <2>1. /\ AdminsRecord(d) /\ d.byID = nu.byID /\ d.bySubProv = nu.bySubProv
        /\ d.byProv = nu.byProv /\ d.superCount = nu.superCount + 1
        /\ d.superCountByProvisioner =
             Add(nu.superCountByProvisioner, name, SuperCountByProvisioner(nu, name) + 1)
    <3> HIDE DEF d
    <3> QED BY <1>2, <1>3, <1>5, SuperIs, SMTT(60)
  <2> QED
    BY <1>0, <1>3, <1>4, <1>5, <2>1 DEF StoredAs
<1>6. CASE adm.type # "SUPER_ADMIN"
  BY <1>0, <1>2, <1>3, <1>6 DEF StoredAs
<1> QED
  BY <1>5, <1>6

\* Collection.Remove of an administrator who is in the slice, field by field.
RemovedAs(c, pc, id, d) ==
  LET adm == c.byID[id]
      name == pc.byID[adm.prov].name
      l == c.byProv[name]
      k == CHOOSE i \in 1 .. l.len : l.arr[i] = id
  IN  /\ AdminsRecord(d) /\ d.byID = Drop(c.byID, id)
      /\ d.bySubProv = Drop(c.bySubProv, <<adm.sub, name>>)
      /\ d.byProv = [c.byProv EXCEPT ![name] =
           [arr |-> [l.arr EXCEPT ![k] = l.arr[l.len]], len |-> l.len - 1]]
      /\ adm.type = "SUPER_ADMIN" =>
           /\ d.superCount = c.superCount + (-1)
           /\ d.superCountByProvisioner =
                Add(c.superCountByProvisioner, name, SuperCountByProvisioner(c, name) + (-1))
      /\ adm.type # "SUPER_ADMIN" =>
           /\ d.superCount = c.superCount
           /\ d.superCountByProvisioner = c.superCountByProvisioner

LEMMA RemoveFromAdminsIs ==
  ASSUME NEW c, AdminsRecord(c), NEW pc, NEW id
  PROVE  RemovedAs(c, pc, id, RemoveFromAdmins(c, pc, id))
<1> DEFINE adm == c.byID[id]
           name == pc.byID[adm.prov].name
           l == c.byProv[name]
           k == CHOOSE i \in 1 .. l.len : l.arr[i] = id
           x == Drop(c.byID, id)
           y == Drop(c.bySubProv, <<adm.sub, name>>)
           v == [arr |-> [l.arr EXCEPT ![k] = l.arr[l.len]], len |-> l.len - 1]
           nu == [c EXCEPT !.byID = x, !.bySubProv = y, !.byProv[name] = v]
           d == RemoveFromAdmins(c, pc, id)
<1>1. PICK m : m = -1
  OBVIOUS
<1>2. d = IF adm.type = "SUPER_ADMIN" THEN AddSuper(nu, name, -1) ELSE nu
  BY DEF RemoveFromAdmins
<1>3. d = IF adm.type = "SUPER_ADMIN" THEN AddSuper(nu, name, m) ELSE nu
  BY <1>1, <1>2
<1> HIDE DEF x, y, v
<1>4. /\ AdminsRecord(nu) /\ nu.byID = x /\ nu.bySubProv = y
      /\ nu.byProv = [c.byProv EXCEPT ![name] = v]
      /\ nu.superCount = c.superCount
      /\ nu.superCountByProvisioner = c.superCountByProvisioner
  <2>1. PICK i, sp, p, n, np : c = [byID |-> i, bySubProv |-> sp, byProv |-> p,
                                    superCount |-> n, superCountByProvisioner |-> np]
    BY DEF AdminsRecord
  <2>2. nu = [byID |-> x, bySubProv |-> y, byProv |-> [p EXCEPT ![name] = v],
              superCount |-> n, superCountByProvisioner |-> np]
    <3> HIDE DEF name
    <3>1. PICK z : z = [c.byProv EXCEPT ![name] = v]
      OBVIOUS
    <3>2. nu = [c EXCEPT !.byID = x, !.bySubProv = y, !.byProv = z]
      BY <3>1
    <3> HIDE DEF nu
    <3>3. nu = [byID |-> x, bySubProv |-> y, byProv |-> z,
                superCount |-> n, superCountByProvisioner |-> np] /\ c.byProv = p
      BY <2>1, <3>2
    <3> QED
      BY <3>1, <3>3
  <2> HIDE DEF nu
  <2>3. AdminsRecord(nu)
    BY <2>2 DEF AdminsRecord
  <2>4. c.byProv = p
    BY <2>1
  <2> HIDE DEF name
  <2> QED
    BY <2>1, <2>2, <2>3, <2>4
<1> HIDE DEF nu
<1>5. SuperCountByProvisioner(nu, name) = SuperCountByProvisioner(c, name)
  BY <1>4 DEF SuperCountByProvisioner
<1>6. CASE adm.type = "SUPER_ADMIN"
  <2>1. d = AddSuper(nu, name, m)
    BY <1>3, <1>6
  <2>2. /\ AdminsRecord(d) /\ d.byID = nu.byID /\ d.bySubProv = nu.bySubProv
        /\ d.byProv = nu.byProv /\ d.superCount = nu.superCount + m
        /\ d.superCountByProvisioner =
             Add(nu.superCountByProvisioner, name, SuperCountByProvisioner(nu, name) + m)
    <3> HIDE DEF name
    <3> HIDE DEF d
    <3> QED BY <1>4, <2>1, SuperIs, SMTT(60)
  <2> QED
    BY <1>1, <1>4, <1>5, <1>6, <2>2 DEF x, y, v, RemovedAs
<1>7. CASE adm.type # "SUPER_ADMIN"
  BY <1>3, <1>4, <1>7 DEF x, y, v, RemovedAs
<1> QED
  BY <1>6, <1>7

\* Collection.Update of an administrator changes the type and no counter.
UpdatedAs(c, id, type, d) ==
  /\ AdminsRecord(d) /\ d.byID = [c.byID EXCEPT ![id].type = type]
  /\ d.bySubProv = c.bySubProv /\ d.byProv = c.byProv
  /\ d.superCount = c.superCount
  /\ d.superCountByProvisioner = c.superCountByProvisioner

LEMMA UpdateInAdminsIs ==
  ASSUME NEW c, AdminsRecord(c), NEW id, NEW type
  PROVE  UpdatedAs(c, id, type, UpdateInAdmins(c, id, type))
<1> DEFINE d == UpdateInAdmins(c, id, type)
<1>1. PICK i, sp, p, m, np : c = [byID |-> i, bySubProv |-> sp, byProv |-> p,
                                  superCount |-> m, superCountByProvisioner |-> np]
  BY DEF AdminsRecord
<1>2. d = [byID |-> [i EXCEPT ![id].type = type], bySubProv |-> sp, byProv |-> p,
           superCount |-> m, superCountByProvisioner |-> np]
  BY <1>1, SMTT(60) DEF UpdateInAdmins
<1>3. AdminsRecord(d)
  BY <1>2 DEF AdminsRecord
<1>4. /\ c.byID = i /\ c.bySubProv = sp /\ c.byProv = p /\ c.superCount = m
      /\ c.superCountByProvisioner = np
  BY <1>1
<1>5. d.byID = [i EXCEPT ![id].type = type]
  BY <1>2, SMTT(60)
<1>6. /\ d.bySubProv = sp /\ d.byProv = p /\ d.superCount = m
      /\ d.superCountByProvisioner = np
  BY <1>2, SMTT(60)
<1> QED
  BY <1>3, <1>4, <1>5, <1>6 DEF UpdatedAs

LEMMA NewAdminsIs == AdminsRecord(NewAdmins)
<1>1. PICK e : e = <<>>
  OBVIOUS
<1> QED
  BY <1>1 DEF AdminsRecord, NewAdmins

LEMMA LoadAdminsRecord == ASSUME NEW pr, NEW ar PROVE AdminsRecord(LoadAdmins(pr, ar))
  BY DEF AdminsRecord, LoadAdmins

\* Every operation on provisioners keeps them under their own IDs and names.
LEMMA NewProvisionersTyped == ProvsTyped(NewProvisioners)
<1>1. PICK e : e = <<>>
  OBVIOUS
<1>2. NewProvisioners = [byID |-> e, byName |-> e, byTokenID |-> e, byKey |-> e] /\ DOMAIN e = {}
  BY <1>1, SMTT(60) DEF NewProvisioners
<1> QED
  BY <1>2 DEF ProvsTyped

LEMMA StoreProvisionersTyped ==
  ASSUME NEW c, ProvsTyped(c), NEW p \in ProvRecs
  PROVE  ProvsTyped(StoreInProvisioners(c, p))
<1>1. PICK d : d = StoreInProvisioners(c, p)
  OBVIOUS
<1>2. /\ d.byID = Add(c.byID, p.id, p) /\ d.byName = Add(c.byName, p.name, p)
      /\ \E i, n, t, k : d = [byID |-> i, byName |-> n, byTokenID |-> t, byKey |-> k]
  BY <1>1 DEF StoreInProvisioners
<1>3. \A n \in DOMAIN d.byName : d.byName[n] \in ProvRecs /\ d.byName[n].name = n
  BY <1>2, SMTT(60) DEF ProvsTyped, Add
<1>4. \A i \in DOMAIN d.byID : d.byID[i] \in ProvRecs /\ d.byID[i].id = i
  BY <1>2, SMTT(60) DEF ProvsTyped, Add
<1> QED
  BY <1>1, <1>2, <1>3, <1>4 DEF ProvsTyped

LEMMA RemoveProvisionersTyped ==
  ASSUME NEW c, ProvsTyped(c), NEW id
  PROVE  ProvsTyped(RemoveFromProvisioners(c, id))
<1>1. PICK d : d = RemoveFromProvisioners(c, id)
  OBVIOUS
<1>2. /\ d.byID = Drop(c.byID, id) /\ d.byName = Drop(c.byName, c.byID[id].name)
      /\ \E i, n, t, k : d = [byID |-> i, byName |-> n, byTokenID |-> t, byKey |-> k]
  BY <1>1 DEF RemoveFromProvisioners
<1>3. \A n \in DOMAIN d.byName : d.byName[n] \in ProvRecs /\ d.byName[n].name = n
  BY <1>2, SMTT(60) DEF ProvsTyped, Drop
<1>4. \A i \in DOMAIN d.byID : d.byID[i] \in ProvRecs /\ d.byID[i].id = i
  BY <1>2, SMTT(60) DEF ProvsTyped, Drop
<1> QED
  BY <1>1, <1>2, <1>3, <1>4 DEF ProvsTyped

ProvTable == [ProvIDs -> Configs \cup {None, Deleted}]

AdminTable == [AdminIDs -> Admin \cup {None, Deleted}]

LEMMA ActiveIs ==
  /\ \A pr \in ProvTable : Active(pr) \subseteq ProvIDs /\ \A i \in Active(pr) : pr[i] \in Configs
  /\ \A ar \in AdminTable : Active(ar) \subseteq AdminIDs /\ \A i \in Active(ar) : ar[i] \in Admin
  BY DEF Active, ProvTable, AdminTable

LEMMA LoadProvisionersTyped ==
  ASSUME NEW pr \in ProvTable
  PROVE  ProvsTyped(LoadProvisioners(pr))
<1>1. PICK d : d = LoadProvisioners(pr)
  OBVIOUS
<1>2. /\ d.byID = [i \in Active(pr) |-> Provisioner(i, pr[i])]
      /\ d.byName = [n \in {pr[i].name : i \in Active(pr)} |->
           Provisioner(CHOOSE i \in Active(pr) : pr[i].name = n, pr[CHOOSE i \in Active(pr) : pr[i].name = n])]
      /\ \E i, n, t, k : d = [byID |-> i, byName |-> n, byTokenID |-> t, byKey |-> k]
  BY <1>1 DEF LoadProvisioners
<1>3. \A i \in DOMAIN d.byID : d.byID[i] \in ProvRecs /\ d.byID[i].id = i
  BY <1>2, ActiveIs, RecOfConfig, SMTT(60)
<1>4. ASSUME NEW n \in DOMAIN d.byName PROVE d.byName[n] \in ProvRecs /\ d.byName[n].name = n
  <2>1. PICK j \in Active(pr) : pr[j].name = n
    BY <1>2, <1>4, SMTT(60)
  <2> DEFINE k == CHOOSE i \in Active(pr) : pr[i].name = n
  <2>2. k \in Active(pr) /\ pr[k].name = n
    BY <2>1
  <2>3. n \in {pr[i].name : i \in Active(pr)}
    BY <1>2, <1>4
  <2>4. d.byName[n] = Provisioner(k, pr[k])
    BY <1>2, <2>3
  <2> HIDE DEF k
  <2> QED
    BY <2>2, <2>4, ActiveIs, RecOfConfig, SMTT(60)
<1> QED
  BY <1>1, <1>2, <1>3, <1>4 DEF ProvsTyped

-----------------------------------------------------------------------------
(* Types and locks.                                                         *)

\* What a request remembers between its steps.
LocOK(l) ==
  /\ l.pc \in {"idle", "StoreAdmin", "UpdateProvisioner", "RemoveProvisioner", "removeAdmin"}
  /\ l.pc = "StoreAdmin" => l.sub \in Subjects /\ l.type \in Types /\ l.prov \in ProvRecs
  /\ l.pc = "UpdateProvisioner" => l.nu \in ProvRecs
  /\ l.pc = "RemoveProvisioner" => l.id \in ProvIDs
  /\ l.pc = "removeAdmin" => l.id \in ProvIDs /\ \E i, n : l = [pc |-> "removeAdmin", id |-> l.id, i |-> i, n |-> n]

\* Only a request that is being served is on its way, the one in the loop of
\* RemoveProvisioner holds adminMutex, and no request lives longer than the process.
Locs ==
  /\ DOMAIN loc = Procs /\ lock \in Procs \cup {None}
  /\ \A p \in Procs :
       /\ LocOK(loc[p])
       /\ loc[p].pc = "removeAdmin" <=> lock = p
       /\ loc[p].pc # "idle" => p \in work.procs
       /\ loc[p].pc \in {"RemoveProvisioner", "removeAdmin"} => "RemoveProvisioner" \in work.requests
  /\ boot # "up" => lock = None /\ \A p \in Procs : loc[p].pc = "idle"

Tables ==
  /\ provRows \in ProvTable /\ adminRows \in AdminTable
  /\ AdminsRecord(admins) /\ ProvsTyped(provs) /\ stale \in BOOLEAN

Typed ==
  /\ work \in Workloads
  /\ boot \in {"start", "CreateAdmin", "ReloadAdminResources", "up", "failed"}
  /\ Tables /\ Locs

LEMMA WorkIs ==
  ASSUME work \in Workloads
  PROVE  /\ work.procs \subseteq Procs /\ work.subjects \subseteq Subjects
         /\ work.configs \subseteq Configs /\ 1 .. work.rows \subseteq AdminIDs
<1>1. work \in Workload
  BY StoreAssumption
<1>2. MaxAdmins \in Nat
  BY StoreAssumption
<1>3. /\ work.procs \in SUBSET Procs /\ work.subjects \in SUBSET Subjects
      /\ work.configs \in SUBSET Configs /\ work.rows \in 0 .. MaxAdmins
  BY <1>1 DEF Workload
<1>4. PICK n : n = work.rows
  OBVIOUS
<1>5. 1 .. n \subseteq AdminIDs
  BY <1>2, <1>3, <1>4, SMTT(60) DEF AdminIDs
<1> QED
  BY <1>3, <1>4, <1>5

LEMMA RowsDiffer ==
  /\ None \notin Configs /\ Deleted \notin Configs /\ None \notin Admin /\ Deleted \notin Admin
  /\ None # Deleted /\ None \notin Procs
  BY StoreAssumption

LEMMA IdleOK == LocOK(Idle) /\ Idle.pc = "idle"
<1>1. Idle.pc = "idle"
  BY DEF Idle
<1> QED
  BY <1>1 DEF LocOK

\* One request takes a step, or returns.
LEMMA LocStep ==
  ASSUME Locs, NEW p \in Procs, p \in work.procs, NEW l, LocOK(l), boot = "up",
         loc' = [loc EXCEPT ![p] = l], UNCHANGED <<work, boot>>,
         lock \in {p, None}, lock' \in {p, None}, l.pc = "removeAdmin" <=> lock' = p,
         l.pc \in {"RemoveProvisioner", "removeAdmin"} => "RemoveProvisioner" \in work.requests
  PROVE  Locs'
<1>1. DOMAIN loc' = Procs /\ loc'[p] = l /\ \A q \in Procs : q # p => loc'[q] = loc[q]
  BY DEF Locs
<1>2. \A q \in Procs : q # p => lock # q /\ lock' # q
  BY RowsDiffer, SMTT(60)
<1>3. lock' \in Procs \cup {None} /\ boot' = "up" /\ work' = work
  OBVIOUS
<1>4. ASSUME NEW q \in Procs
      PROVE  /\ LocOK(loc'[q])
             /\ loc'[q].pc = "removeAdmin" <=> lock' = q
             /\ loc'[q].pc # "idle" => q \in work'.procs
             /\ loc'[q].pc \in {"RemoveProvisioner", "removeAdmin"} => "RemoveProvisioner" \in work'.requests
  <2>1. CASE q = p
    BY <1>1, <1>3, <2>1
  <2>2. CASE q # p
    BY <1>1, <1>2, <1>3, <2>2 DEF Locs
  <2> QED BY <2>1, <2>2
<1>5. LocOK(l)' = LocOK(l)
  OBVIOUS
<1> QED
  BY <1>1, <1>3, <1>4 DEF Locs

\* A request stays where it is.
LEMMA LocStays ==
  ASSUME Locs, UNCHANGED <<loc, lock, work, boot>>
  PROVE  Locs'
<1>1. loc' = loc /\ lock' = lock /\ work' = work /\ boot' = boot
  OBVIOUS
<1> QED
  BY <1>1 DEF Locs

\* The reload after a failed write.
LEMMA ReloadTyped ==
  ASSUME Tables, NEW cp, NEW ca, ProvsTyped(cp), AdminsRecord(ca), ReloadAdminResources(cp, ca)
  PROVE  ProvsTyped(provs') /\ AdminsRecord(admins') /\ stale' \in BOOLEAN
<1>1. PICK ok \in Outcomes("reload") :
        IF ok /\ Loadable(provRows, adminRows)
        THEN provs' = LoadProvisioners(provRows) /\ admins' = LoadAdmins(provRows, adminRows) /\ stale' = FALSE
        ELSE provs' = cp /\ admins' = ca /\ stale' = TRUE
  BY DEF ReloadAdminResources
<1>2. CASE ok /\ Loadable(provRows, adminRows)
  BY <1>1, <1>2, LoadAdminsRecord, LoadProvisionersTyped DEF Tables
<1>3. CASE ~ (ok /\ Loadable(provRows, adminRows))
  BY <1>1, <1>3
<1> QED
  BY <1>2, <1>3

LEMMA TypedInit == ASSUME Init PROVE Typed
<1>1. provRows \in ProvTable /\ adminRows \in AdminTable
  BY DEF Init, ProvTable, AdminTable
<1>2. Tables
  BY <1>1, NewAdminsIs, NewProvisionersTyped DEF Init, Tables
<1>3. DOMAIN loc = Procs /\ lock = None /\ \A p \in Procs : loc[p] = Idle
  BY DEF Init
<1>4. Locs
  BY <1>3, IdleOK, RowsDiffer DEF Locs, Init
<1> QED
  BY <1>2, <1>4 DEF Typed, Init

\* Authority.init.
LEMMA TypedBoot ==
  ASSUME Typed, UNCHANGED work,
         \/ \E id \in ProvIDs : CreateFirstProvisioner(id)
         \/ \E id \in 1 .. work.rows, prov \in ProvIDs : CreateFirstAdmin(id, prov)
         \/ Load \/ Crash
  PROVE  Typed'
<1> USE DEF Typed
<1>1. ASSUME NEW id \in ProvIDs, CreateFirstProvisioner(id) PROVE Typed'
  <2>1. provRows' \in ProvTable
    BY <1>1, StoreAssumption DEF CreateFirstProvisioner, ProvTable, Tables
  <2>2. Tables'
    BY <1>1, <2>1 DEF CreateFirstProvisioner, Tables
  <2>3. Locs'
    BY <1>1 DEF CreateFirstProvisioner, Locs
  <2> QED
    BY <1>1, <2>2, <2>3 DEF CreateFirstProvisioner
<1>2. ASSUME NEW id \in 1 .. work.rows, NEW prov \in ProvIDs, CreateFirstAdmin(id, prov) PROVE Typed'
  <2>0. id \in AdminIDs /\ FirstSubject \in Subjects
    BY WorkIs, StoreAssumption
  <2>1. [sub |-> FirstSubject, prov |-> prov, type |-> "SUPER_ADMIN"] \in Admin
    BY <2>0 DEF Admin, Types
  <2>2. adminRows' \in AdminTable
    BY <1>2, <2>0, <2>1 DEF CreateFirstAdmin, AdminTable, Tables
  <2>3. Tables'
    BY <1>2, <2>2 DEF CreateFirstAdmin, Tables
  <2>4. Locs'
    BY <1>2 DEF CreateFirstAdmin, Locs
  <2> QED
    BY <1>2, <2>3, <2>4 DEF CreateFirstAdmin
<1>3. ASSUME Load PROVE Typed'
  <2>1. Tables'
    <3>1. CASE Loadable(provRows, adminRows)
      BY <1>3, <3>1, LoadAdminsRecord, LoadProvisionersTyped DEF Load, Tables
    <3>2. CASE ~ Loadable(provRows, adminRows)
      BY <1>3, <3>2 DEF Load, Tables
    <3> QED BY <3>1, <3>2
  <2>2. boot # "up" /\ boot' \in {"up", "failed"}
    BY <1>3 DEF Load
  <2>3. Locs'
    BY <1>3, <2>2 DEF Load, Locs
  <2> QED
    BY <2>1, <2>2, <2>3
<1>4. ASSUME Crash PROVE Typed'
  <2>1. Tables'
    BY <1>4, NewAdminsIs, NewProvisionersTyped DEF Crash, Tables
  <2>2. DOMAIN loc' = Procs /\ lock' = None /\ \A p \in Procs : loc'[p] = Idle
    BY <1>4 DEF Crash
  <2>3. Locs'
    BY <2>2, IdleOK, RowsDiffer DEF Locs
  <2> QED
    BY <1>4, <2>1, <2>3 DEF Crash
<1> QED
  BY <1>1, <1>2, <1>3, <1>4

\* An error answer.
LEMMA TypedRefuse ==
  ASSUME Typed, NEW p \in Procs, p \in work.procs, UNCHANGED <<work, boot>>, boot = "up",
         lock \in {p, None}, lock' = None, Refuse(p)
  PROVE  Typed'
<1>1. Tables'
  BY DEF Typed, Tables, Refuse
<1>2. Locs'
  BY IdleOK, LocStep, RowsDiffer DEF Typed, Refuse, Goto
<1> QED
  BY <1>1, <1>2 DEF Typed

\* Authority.removeAdmin, whatever its caller does after it.
LEMMA TypedRemoval ==
  ASSUME Tables, NEW id, NEW ACTION A, NEW ACTION B, removeAdmin(id, A, B)
  PROVE  Tables'
<1>1. PICK nu : nu = RemoveFromAdmins(admins, provs, id)
  OBVIOUS
<1>2. AdminsRecord(nu)
  BY <1>1, RemoveFromAdminsIs DEF Tables, RemovedAs
<1>3. /\ UNCHANGED provRows
      /\ \/ /\ adminRows' = [adminRows EXCEPT ![id] = Deleted]
            /\ admins' = nu /\ UNCHANGED <<provs, stale>>
         \/ ReloadAdminResources(provs, nu) /\ UNCHANGED adminRows
  BY <1>1 DEF removeAdmin
<1>4. adminRows' \in AdminTable
  BY <1>3 DEF Tables, AdminTable
<1>5. AdminsRecord(admins') /\ ProvsTyped(provs') /\ stale' \in BOOLEAN
  BY <1>2, <1>3, ReloadTyped DEF Tables
<1> QED
  BY <1>3, <1>4, <1>5 DEF Tables

\* The requests about administrators.
LEMMA TypedAdminRequest ==
  ASSUME Typed, UNCHANGED work, NEW p \in Procs, p \in work.procs, AdminRequest(p)
  PROVE  Typed'
<1> USE DEF Typed
<1>1. ASSUME NEW sub \in work.subjects, NEW name \in Names, NEW type \in Types,
             CreateAdmin(p, sub, name, type)
      PROVE  Typed'
  <2>1. Tables'
    BY <1>1 DEF CreateAdmin, Tables
  <2>2. Locs'
    <3>1. CASE name \in DOMAIN provs.byName
      <4>1. PICK l : l = [pc |-> "StoreAdmin", sub |-> sub, type |-> type, prov |-> provs.byName[name]]
        OBVIOUS
      <4>2. LocOK(l) /\ l.pc = "StoreAdmin"
        <5>1. sub \in Subjects /\ provs.byName[name] \in ProvRecs
          BY <3>1, WorkIs DEF Tables, ProvsTyped
        <5> QED BY <4>1, <5>1 DEF LocOK
      <4> QED
        BY <1>1, <3>1, <4>1, <4>2, LocStep, RowsDiffer DEF CreateAdmin, Goto, Sent, At
    <3>2. CASE name \notin DOMAIN provs.byName
      BY <1>1, <3>2, LocStays DEF CreateAdmin
    <3> QED BY <3>1, <3>2
  <2> QED
    BY <1>1, <2>1, <2>2 DEF CreateAdmin
<1>2. ASSUME NEW id \in 1 .. work.rows, StoreAdmin(p, id) PROVE Typed'
  <2>1. PICK l, adm : l = loc[p] /\ adm = [sub |-> l.sub, prov |-> l.prov.id, type |-> l.type]
    OBVIOUS
  <2>2. CASE Refuse(p)
    BY <1>2, <2>2, TypedRefuse DEF StoreAdmin, At
  <2>3. CASE /\ adminRows' = [adminRows EXCEPT ![id] = adm]
             /\ admins' = StoreInAdmins(admins, id, adm, l.prov.name)
             /\ Goto(p, Idle) /\ UNCHANGED <<provRows, provs, stale>>
    <3>1. l.sub \in Subjects /\ l.type \in Types /\ l.prov.id \in ProvIDs /\ id \in AdminIDs
      BY <1>2, <2>1, ProvRecIs, WorkIs DEF StoreAdmin, At, Locs, LocOK
    <3>2. adm \in Admin
      BY <2>1, <3>1 DEF Admin
    <3>3. adminRows' \in AdminTable
      BY <2>3, <3>1, <3>2 DEF Tables, AdminTable
    <3>4. AdminsRecord(admins')
      BY <2>3, StoreInAdminsIs DEF Tables, StoredAs
    <3>5. Locs'
      BY <1>2, <2>3, IdleOK, LocStep, RowsDiffer DEF StoreAdmin, Goto, At
    <3>6. Tables'
      BY <2>3, <3>3, <3>4 DEF Tables
    <3> QED
      BY <1>2, <3>5, <3>6 DEF StoreAdmin
  <2> QED
    BY <1>2, <2>1, <2>2, <2>3 DEF StoreAdmin
<1>3. ASSUME NEW id \in 1 .. work.rows, NEW type \in Types, UpdateAdmin(p, id, type) PROVE Typed'
  <2>0. id \in AdminIDs
    BY WorkIs
  <2>1. CASE Refuse(p)
    BY <1>3, <2>1, TypedRefuse DEF UpdateAdmin, Sent, At
  <2>2. CASE ~ Refuse(p)
    <3>1. PICK nu : nu = UpdateInAdmins(admins, id, type)
      OBVIOUS
    <3>2. AdminsRecord(nu)
      BY <3>1, UpdateInAdminsIs DEF Tables, UpdatedAs
    <3>3. /\ UNCHANGED <<provRows, loc, boot, lock>>
          /\ \/ /\ id \in Active(adminRows)
                /\ adminRows' = [adminRows EXCEPT ![id].type = type]
                /\ admins' = nu /\ UNCHANGED <<provs, stale>>
             \/ ReloadAdminResources(provs, nu) /\ UNCHANGED adminRows
      BY <1>3, <2>2, <3>1 DEF UpdateAdmin
    <3>4. adminRows' \in AdminTable
      <4>1. id \in Active(adminRows) => [adminRows[id] EXCEPT !.type = type] \in Admin
        BY ActiveIs DEF Tables, Admin
      <4>2. id \in Active(adminRows) => [adminRows EXCEPT ![id].type = type] \in AdminTable
        BY <2>0, <4>1 DEF Tables, AdminTable
      <4> QED
        BY <3>3, <4>2 DEF Tables
    <3>5. AdminsRecord(admins') /\ ProvsTyped(provs') /\ stale' \in BOOLEAN
      BY <3>2, <3>3, ReloadTyped DEF Tables
    <3>6. Tables'
      BY <3>3, <3>4, <3>5 DEF Tables
    <3>7. Locs'
      BY <3>3, LocStays
    <3> QED
      BY <3>3, <3>6, <3>7
  <2> QED BY <2>1, <2>2
<1>4. ASSUME NEW id \in 1 .. work.rows, RemoveAdmin(p, id) PROVE Typed'
  <2>0. id \in AdminIDs
    BY WorkIs
  <2>1. CASE Refuse(p)
    BY <1>4, <2>1, TypedRefuse DEF RemoveAdmin, Sent, At
  <2>2. CASE removeAdmin(id, UNCHANGED loc, UNCHANGED loc)
    <3>1. UNCHANGED <<loc, boot, lock>>
      BY <1>4, <2>2 DEF RemoveAdmin, removeAdmin
    <3>2. Locs'
      BY <3>1, LocStays
    <3>3. Tables'
      BY <2>0, <2>2, TypedRemoval
    <3> QED
      BY <3>1, <3>2, <3>3
  <2> QED BY <1>4, <2>1, <2>2 DEF RemoveAdmin
<1> QED
  BY <1>1, <1>2, <1>3, <1>4 DEF AdminRequest

\* The requests about provisioners.
LEMMA TypedProvisionerLookup ==
  ASSUME Typed, UNCHANGED work, NEW p \in Procs, p \in work.procs,
         \/ \E name \in Names, c \in work.configs : UpdateProvisionerRequest(p, name, c)
         \/ \E name \in Names : DeleteProvisioner(p, name)
  PROVE  Typed'
<1> USE DEF Typed
<1>1. ASSUME NEW name \in Names, NEW c \in work.configs, UpdateProvisionerRequest(p, name, c)
      PROVE  Typed'
  <2>1. Tables'
    BY <1>1 DEF UpdateProvisionerRequest, Tables
  <2>2. Locs'
    <3>1. CASE name \in DOMAIN provs.byName /\ provs.byName[name].id \in Active(provRows)
      <4>1. PICK l : l = [pc |-> "UpdateProvisioner", nu |-> Provisioner(provs.byName[name].id, c)]
        OBVIOUS
      <4>2. l.pc = "UpdateProvisioner" /\ l.nu \in ProvRecs
        <5>1. c \in Configs /\ provs.byName[name].id \in ProvIDs
          BY <3>1, WorkIs, ProvRecIs DEF Tables, ProvsTyped
        <5> QED BY <4>1, <5>1, RecOfConfig
      <4>3. LocOK(l)
        BY <4>2 DEF LocOK
      <4> QED
        BY <1>1, <3>1, <4>1, <4>2, <4>3, LocStep, RowsDiffer DEF UpdateProvisionerRequest, Goto, Sent, At
    <3>2. CASE ~ (name \in DOMAIN provs.byName /\ provs.byName[name].id \in Active(provRows))
      BY <1>1, <3>2, LocStays DEF UpdateProvisionerRequest
    <3> QED BY <3>1, <3>2
  <2> QED
    BY <1>1, <2>1, <2>2 DEF UpdateProvisionerRequest
<1>2. ASSUME NEW name \in Names, DeleteProvisioner(p, name) PROVE Typed'
  <2>1. Tables'
    BY <1>2 DEF DeleteProvisioner, Tables
  <2>2. Locs'
    <3>1. CASE name \in DOMAIN provs.byName
      <4>1. PICK l : l = [pc |-> "RemoveProvisioner", id |-> provs.byName[name].id]
        OBVIOUS
      <4>2. l.pc = "RemoveProvisioner" /\ l.id \in ProvIDs
        BY <3>1, <4>1, ProvRecIs DEF Tables, ProvsTyped
      <4>3. LocOK(l)
        BY <4>2 DEF LocOK
      <4> QED
        BY <1>2, <3>1, <4>1, <4>2, <4>3, LocStep, RowsDiffer DEF DeleteProvisioner, Goto, Sent, At
    <3>2. CASE name \notin DOMAIN provs.byName
      BY <1>2, <3>2, LocStays DEF DeleteProvisioner
    <3> QED BY <3>1, <3>2
  <2> QED
    BY <1>2, <2>1, <2>2 DEF DeleteProvisioner
<1> QED
  BY <1>1, <1>2

LEMMA TypedStoreProvisioner ==
  ASSUME Typed, UNCHANGED work, NEW p \in Procs, p \in work.procs,
         NEW id \in ProvIDs, NEW c \in work.configs, StoreProvisioner(p, id, c)
  PROVE  Typed'
<1> USE DEF Typed
<1>1. c \in Configs
  BY WorkIs
<1>2. CASE Refuse(p)
  BY <1>2, TypedRefuse DEF StoreProvisioner, Sent, At
<1>3. CASE ~ Refuse(p)
  <2>1. PICK nu : nu = Provisioner(id, c)
    OBVIOUS
  <2>2. /\ provRows' = [provRows EXCEPT ![id] = c]
        /\ provs' \in {StoreInProvisioners(provs, nu), provs}
        /\ UNCHANGED <<adminRows, admins, stale, loc, boot, lock>>
    BY <1>3, <2>1 DEF StoreProvisioner
  <2>3. provRows' \in ProvTable
    BY <1>1, <2>2 DEF Tables, ProvTable
  <2>4. ProvsTyped(provs')
    BY <1>1, <2>1, <2>2, RecOfConfig, StoreProvisionersTyped DEF Tables
  <2>5. Tables'
    BY <2>2, <2>3, <2>4 DEF Tables
  <2>6. Locs'
    BY <2>2, LocStays
  <2> QED
    BY <2>2, <2>5, <2>6
<1> QED
  BY <1>2, <1>3

LEMMA UpdateProvisionersTyped ==
  ASSUME NEW c, ProvsTyped(c), NEW nu \in ProvRecs
  PROVE  ProvsTyped(UpdateInProvisioners(c, nu))
  BY RemoveProvisionersTyped, StoreProvisionersTyped DEF UpdateInProvisioners

LEMMA TypedUpdateProvisioner ==
  ASSUME Typed, UNCHANGED work, NEW p \in Procs, p \in work.procs, UpdateProvisioner(p)
  PROVE  Typed'
<1> USE DEF Typed
<1>1. CASE Refuse(p)
  BY <1>1, TypedRefuse DEF UpdateProvisioner, At
<1>2. CASE ~ Refuse(p)
  <2>1. PICK nu, c : nu = loc[p].nu /\ c = [name |-> nu.name, kid |-> nu.kid, client |-> nu.client]
    OBVIOUS
  <2>2. /\ Goto(p, Idle) /\ UNCHANGED <<adminRows, boot, lock>>
        /\ \/ /\ provRows' = [provRows EXCEPT ![nu.id] = c]
              /\ provs' = UpdateInProvisioners(provs, nu) /\ UNCHANGED <<admins, stale>>
           \/ ReloadAdminResources(UpdateInProvisioners(provs, nu), admins) /\ UNCHANGED provRows
    BY <1>2, <2>1 DEF UpdateProvisioner
  <2>3. nu \in ProvRecs /\ nu.id \in ProvIDs /\ c \in Configs
    BY <2>1, ProvRecIs DEF UpdateProvisioner, At, Locs, LocOK
  <2>4. provRows' \in ProvTable
    BY <2>2, <2>3 DEF Tables, ProvTable
  <2>5. ProvsTyped(UpdateInProvisioners(provs, nu))
    BY <2>3, UpdateProvisionersTyped DEF Tables
  <2>6. AdminsRecord(admins') /\ ProvsTyped(provs') /\ stale' \in BOOLEAN
    BY <2>2, <2>5, ReloadTyped DEF Tables
  <2>7. Tables'
    BY <2>2, <2>4, <2>6 DEF Tables
  <2>8. Locs'
    BY <2>2, IdleOK, LocStep, RowsDiffer DEF UpdateProvisioner, Goto, At
  <2> QED
    BY <2>2, <2>7, <2>8
<1> QED
  BY <1>1, <1>2

LEMMA TypedRemoveProvisioner ==
  ASSUME Typed, UNCHANGED work, NEW p \in Procs, p \in work.procs,
         RemoveProvisioner(p) \/ RemoveAdminOfProvisioner(p) \/ DeleteProvisionerRow(p)
  PROVE  Typed'
<1> USE DEF Typed
<1>0. lock \in {p, None} /\ boot = "up" /\ UNCHANGED boot
  BY RowsDiffer DEF RemoveProvisioner, RemoveAdminOfProvisioner, DeleteProvisionerRow, At, Locs
<1>1. CASE Refuse(p) /\ lock' = None
  BY <1>0, <1>1, TypedRefuse
<1>2. CASE RemoveProvisioner(p) /\ ~ (Refuse(p) /\ lock' = None)
  <2>0. At(p, "RemoveProvisioner") /\ lock = None
    BY <1>2 DEF RemoveProvisioner, At
  <2>1. PICK n, l : l = [pc |-> "removeAdmin", id |-> loc[p].id, i |-> 1, n |-> n]
              /\ Goto(p, l) /\ lock' = p /\ UNCHANGED <<provRows, adminRows, provs, admins, stale>>
    BY <1>2, <2>0 DEF RemoveProvisioner
  <2>2. loc[p].id \in ProvIDs /\ "RemoveProvisioner" \in work.requests
    BY <1>2 DEF RemoveProvisioner, At, Locs, LocOK
  <2>3. l.pc = "removeAdmin" /\ LocOK(l)
    BY <2>1, <2>2 DEF LocOK
  <2>4. Locs'
    BY <1>0, <2>1, <2>2, <2>3, LocStep DEF Goto
  <2>5. Tables'
    BY <2>1 DEF Tables
  <2> QED
    BY <1>0, <2>4, <2>5
<1>3. CASE RemoveAdminOfProvisioner(p) /\ ~ (Refuse(p) /\ lock' = None)
  <2>1. PICK l, adm : l = loc[p] /\ adm = admins.byProv[provs.byID[l.id].name].arr[l.i]
    OBVIOUS
  <2>2. \/ Goto(p, [l EXCEPT !.i = @ + 1]) /\ UNCHANGED lock
        \/ Goto(p, Idle) /\ lock' = None
    BY <1>3, <2>1 DEF RemoveAdminOfProvisioner, removeAdmin
  <2>3. l.pc = "removeAdmin" /\ lock = p /\ LocOK(l) /\ "RemoveProvisioner" \in work.requests
    BY <1>3, <2>1 DEF RemoveAdminOfProvisioner, Locs
  <2>4. Locs'
    <3>1. CASE Goto(p, [l EXCEPT !.i = @ + 1]) /\ UNCHANGED lock
      <4>1. PICK k : k = [l EXCEPT !.i = @ + 1]
        OBVIOUS
      <4>2. k.pc = "removeAdmin" /\ LocOK(k)
        <5>1. PICK i, n : l = [pc |-> "removeAdmin", id |-> l.id, i |-> i, n |-> n]
          BY <2>3 DEF LocOK
        <5>2. k = [pc |-> "removeAdmin", id |-> l.id, i |-> i + 1, n |-> n]
          BY <4>1, <5>1, SMTT(60)
        <5>3. k.pc = "removeAdmin" /\ k.id = l.id
          BY <5>2
        <5> QED
          BY <2>3, <5>2, <5>3 DEF LocOK
      <4> QED
        BY <1>0, <2>3, <3>1, <4>1, <4>2, LocStep DEF Goto
    <3>2. CASE Goto(p, Idle) /\ lock' = None
      BY <1>0, <3>2, IdleOK, LocStep, RowsDiffer DEF Goto
    <3> QED BY <2>2, <3>1, <3>2
  <2>5. Tables'
    BY <1>3, TypedRemoval DEF RemoveAdminOfProvisioner
  <2> QED BY <1>0, <2>4, <2>5
<1>4. CASE DeleteProvisionerRow(p)
  <2>1. PICK id, nu : id = loc[p].id /\ nu = RemoveFromProvisioners(provs, id)
    OBVIOUS
  <2>2. /\ Goto(p, Idle) /\ lock' = None /\ UNCHANGED <<adminRows, boot>>
        /\ \/ /\ provRows' = [provRows EXCEPT ![id] = Deleted]
              /\ provs' = nu /\ UNCHANGED <<admins, stale>>
           \/ ReloadAdminResources(nu, admins) /\ UNCHANGED provRows
    BY <1>4, <2>1 DEF DeleteProvisionerRow
  <2>3. provRows' \in ProvTable
    BY <2>2 DEF Tables, ProvTable
  <2>4. ProvsTyped(nu)
    BY <2>1, RemoveProvisionersTyped DEF Tables
  <2>5. AdminsRecord(admins') /\ ProvsTyped(provs') /\ stale' \in BOOLEAN
    BY <2>2, <2>4, ReloadTyped DEF Tables
  <2>6. Tables'
    BY <2>2, <2>3, <2>5 DEF Tables
  <2>7. Locs'
    BY <1>0, <2>2, IdleOK, LocStep, RowsDiffer DEF Goto
  <2> QED
    BY <2>2, <2>6, <2>7
<1> QED
  BY <1>1, <1>2, <1>3, <1>4

LEMMA TypedNext == ASSUME Typed, Next PROVE Typed'
<1>0. work.procs \subseteq Procs /\ UNCHANGED work
  BY WorkIs DEF Typed, Next
<1>1. ASSUME NEW p \in work.procs, AdminRequest(p) PROVE Typed'
  BY <1>0, <1>1, TypedAdminRequest
<1>2. ASSUME NEW p \in work.procs, ProvisionerRequest(p) PROVE Typed'
  BY <1>0, <1>2, TypedProvisionerLookup, TypedStoreProvisioner, TypedUpdateProvisioner,
     TypedRemoveProvisioner DEF ProvisionerRequest
<1> QED
  BY <1>0, <1>1, <1>2, TypedBoot DEF Next

LEMMA TypedStutter == ASSUME Typed, UNCHANGED vars PROVE Typed'
<1>1. Locs'
  BY LocStays DEF vars, Typed
<1>2. Tables'
  BY DEF Tables, vars, Typed
<1> QED
  BY <1>1, <1>2 DEF Typed, vars

\* The rows of the two tables and the entries of the two collections are what
\* StoreAdmin to RemoveProvisioner store, a request between two steps has what its
\* next step reads, and only RemoveProvisioner keeps adminMutex between two steps.
THEOREM AdminStoreTyped == Spec => []Typed
<1>1. Init => Typed
  BY TypedInit
<1>2. Typed /\ [Next]_vars => Typed'
  BY TypedNext, TypedStutter
<1> QED
  BY <1>1, <1>2, PTL DEF Spec

-----------------------------------------------------------------------------
(* The collections and the tables.                                          *)

Super(ar) == {i \in Active(ar) : ar[i].type = "SUPER_ADMIN"}

\* A table with one row written.
Write(rows, id, row) == [rows EXCEPT ![id] = row]

\* The names of the provisioners of the administrators.
NamesOf(pr, ar) == [i \in Active(ar) |-> pr[ar[i].prov].name]

Of(N, n) == {i \in DOMAIN N : N[i] = n}

\* The used part of a slice lists a set without repetition.
Lists(a, n, S) ==
  /\ a \in Seq(AdminIDs) /\ n \in Nat /\ n <= Len(a)
  /\ \A j, k \in 1 .. n : a[j] = a[k] => j = k
  /\ {a[k] : k \in 1 .. n} = S

Slice(l, S) == Lists(l.arr, l.len, S)

\* A collection of administrators holds the rows ar, whose provisioners have the
\* names N.
AdminsOf(c, ar, N) ==
  /\ c.byID = [i \in Active(ar) |-> ar[i]]
  /\ c.bySubProv \in [{<<ar[i].sub, N[i]>> : i \in Active(ar)} -> AdminIDs]
  /\ \A i \in Active(ar) : c.bySubProv[<<ar[i].sub, N[i]>>] = i
  /\ \A n \in Names : Slice(LoadByProvisioner(c, n), Of(N, n))

CountsOf(c, ar, N) ==
  /\ c.superCount = Cardinality(Super(ar))
  /\ \A n \in Names : SuperCountByProvisioner(c, n) = Cardinality(Super(ar) \cap Of(N, n))

\* A map from the keys K to the values V.
Indexed(m, K, V) ==
  /\ m \in [{K[i] : i \in DOMAIN K} -> ProvRecs]
  /\ \A i \in DOMAIN K : m[K[i]] = V[i]

Recs(pr) == [i \in Active(pr) |-> Provisioner(i, pr[i])]

RecIDs(pr) == [i \in Active(pr) |-> i]

RecNames(pr) == [i \in Active(pr) |-> pr[i].name]

RecTokens(pr) == [i \in Active(pr) |-> GetIDForToken(pr[i])]

RecKeys(pr) == [i \in {j \in Active(pr) : pr[j].kid # None} |-> pr[i].kid]

\* A collection of provisioners holds the rows pr.
ProvsOf(c, pr) ==
  /\ Indexed(c.byID, RecIDs(pr), Recs(pr))
  /\ Indexed(c.byName, RecNames(pr), Recs(pr))
  /\ Indexed(c.byTokenID, RecTokens(pr), Recs(pr))

KeysOf(c, pr) == Indexed(c.byKey, RecKeys(pr), Recs(pr))

\* The provisioners can be told apart by their names and by their tokens, and by
\* their keys.
Unlike(pr) ==
  \A i, j \in Active(pr) : i # j =>
    pr[i].name # pr[j].name /\ GetIDForToken(pr[i]) # GetIDForToken(pr[j])

UnlikeKeys(pr) ==
  \A i, j \in Active(pr) : pr[i].kid # None /\ pr[i].kid = pr[j].kid => i = j

LEMMA SliceAppend ==
  ASSUME NEW l, NEW S, Slice(l, S), NEW id \in AdminIDs, id \notin S
  PROVE  Slice([arr |-> Append(SubSeq(l.arr, 1, l.len), id), len |-> l.len + 1], S \cup {id})
<1>1. PICK a, n : a = l.arr /\ n = l.len
  OBVIOUS
<1>2. a \in Seq(AdminIDs) /\ n \in Nat /\ n <= Len(a)
  BY <1>1 DEF Slice, Lists
<1>3. PICK b : b = SubSeq(a, 1, n)
  OBVIOUS
<1>4. b \in Seq(AdminIDs) /\ Len(b) = n /\ \A k \in 1 .. n : b[k] = a[k]
  BY <1>2, <1>3, SMTT(60)
<1>5. PICK d : d = Append(b, id)
  OBVIOUS
<1>6. /\ d \in Seq(AdminIDs) /\ Len(d) = n + 1 /\ d[n + 1] = id
      /\ \A k \in 1 .. n : d[k] = a[k]
  BY <1>2, <1>4, <1>5, SMTT(60)
<1>7. /\ \A k \in 1 .. n : a[k] \in S
      /\ \A s \in S : \E k \in 1 .. n : a[k] = s
      /\ \A j, k \in 1 .. n : a[j] = a[k] => j = k
  BY <1>1 DEF Slice, Lists
<1>8. \A k \in 1 .. n + 1 : k \in 1 .. n \/ k = n + 1
  BY <1>2, SMTT(60)
<1>9. \A j, k \in 1 .. n + 1 : d[j] = d[k] => j = k
  BY <1>6, <1>7, <1>8
<1>10. {d[k] : k \in 1 .. n + 1} = S \cup {id}
  <2>1. \A k \in 1 .. n + 1 : d[k] \in S \cup {id}
    BY <1>6, <1>7, <1>8
  <2>2. \A s \in S : \E k \in 1 .. n + 1 : d[k] = s
    BY <1>2, <1>6, <1>7, SMTT(60)
  <2>3. n + 1 \in 1 .. n + 1
    BY <1>2, SMTT(60)
  <2> QED
    BY <1>6, <2>1, <2>2, <2>3, SMTT(60)
<1>11. PICK m : m = [arr |-> d, len |-> n + 1]
  OBVIOUS
<1>12. m.arr = d /\ m.len = n + 1
  BY <1>11
<1>13. Slice(m, S \cup {id})
  <2>1. Lists(d, n + 1, S \cup {id})
    BY <1>2, <1>6, <1>9, <1>10, SMTT(60) DEF Lists
  <2> QED
    BY <1>12, <2>1 DEF Slice
<1> QED
  BY <1>1, <1>3, <1>5, <1>11, <1>13

\* The last element takes the place of the removed one.
LEMMA SliceRemove ==
  ASSUME NEW l, NEW S, Slice(l, S), NEW k \in 1 .. l.len
  PROVE  Slice([arr |-> [l.arr EXCEPT ![k] = l.arr[l.len]], len |-> l.len - 1], S \ {l.arr[k]})
<1>1. PICK a, n : a = l.arr /\ n = l.len
  OBVIOUS
<1>2. a \in Seq(AdminIDs) /\ n \in Nat /\ n <= Len(a) /\ k \in 1 .. n /\ n \in 1 .. n
  BY <1>1, SMTT(60) DEF Slice, Lists
<1>3. PICK d : d = [a EXCEPT ![k] = a[n]]
  OBVIOUS
<1>4. /\ d \in Seq(AdminIDs) /\ Len(d) = Len(a) /\ d[k] = a[n]
      /\ \A j \in 1 .. n : j # k => d[j] = a[j]
  BY <1>2, <1>3, SMTT(60)
<1>5. /\ \A j \in 1 .. n : a[j] \in S
      /\ \A s \in S : \E j \in 1 .. n : a[j] = s
      /\ \A i, j \in 1 .. n : a[i] = a[j] => i = j
  BY <1>1 DEF Slice, Lists
<1>6. n - 1 \in Nat /\ \A j \in 1 .. n - 1 : j \in 1 .. n /\ j # n
  BY <1>2, SMTT(60)
<1>7. \A i, j \in 1 .. n - 1 : d[i] = d[j] => i = j
  BY <1>2, <1>4, <1>5, <1>6, SMTT(60)
<1>8. {d[j] : j \in 1 .. n - 1} = S \ {a[k]}
  <2>1. \A j \in 1 .. n - 1 : d[j] \in S /\ d[j] # a[k]
    BY <1>2, <1>4, <1>5, <1>6, SMTT(60)
  <2>2. ASSUME NEW s \in S, s # a[k] PROVE \E j \in 1 .. n - 1 : d[j] = s
    <3>1. PICK j \in 1 .. n : a[j] = s
      BY <1>5
    <3>2. j # k
      BY <2>2, <3>1
    <3>3. CASE j = n
      <4>1. k \in 1 .. n - 1
        BY <1>2, <3>2, <3>3, SMTT(60)
      <4> QED BY <1>4, <3>1, <3>3, <4>1
    <3>4. CASE j # n
      <4>1. j \in 1 .. n - 1
        BY <1>2, <3>4, SMTT(60)
      <4> QED BY <1>4, <3>1, <3>2, <4>1
    <3> QED BY <3>3, <3>4
  <2> QED
    BY <2>1, <2>2
<1>9. PICK m : m = [arr |-> d, len |-> n - 1]
  OBVIOUS
<1>10. m.arr = d /\ m.len = n - 1
  BY <1>9
<1>11. Slice(m, S \ {a[k]})
  <2>1. Lists(d, n - 1, S \ {a[k]})
    BY <1>2, <1>4, <1>6, <1>7, <1>8, SMTT(60) DEF Lists
  <2> QED
    BY <1>10, <2>1 DEF Slice
<1> QED
  BY <1>1, <1>3, <1>9, <1>11

LEMMA SliceEmpty == Slice([arr |-> <<>>, len |-> 0], {})
<1>1. Lists(<<>>, 0, {})
  BY SMTT(60) DEF Lists
<1> QED
  BY <1>1 DEF Slice

\* A row is written.
LEMMA RowWritten ==
  ASSUME NEW ar \in AdminTable, NEW id \in AdminIDs, NEW adm \in Admin, NEW br, br = Write(ar, id, adm)
  PROVE  /\ Active(br) = Active(ar) \cup {id} /\ br[id] = adm
         /\ \A x \in Active(ar) : x # id => br[x] = ar[x]
  BY RowsDiffer DEF Active, AdminTable, Write

LEMMA RowDeleted ==
  ASSUME NEW ar \in AdminTable, NEW id \in AdminIDs, NEW br, br = Write(ar, id, Deleted)
  PROVE  Active(br) = Active(ar) \ {id} /\ \A x \in Active(br) : br[x] = ar[x]
  BY DEF Active, AdminTable, Write

LEMMA NamesOfIs ==
  ASSUME NEW pr \in ProvTable, NEW ar \in AdminTable, Loadable(pr, ar)
  PROVE  NamesOf(pr, ar) \in [Active(ar) -> Names]
<1>1. \A i \in Active(ar) : pr[ar[i].prov] \in Configs
  BY ActiveIs DEF Loadable
<1> QED
  BY <1>1 DEF NamesOf, Names

\* No other administrator of the provisioner has the subject.
Alone(ar, N, id) == \A i \in Active(ar) : i # id => <<ar[i].sub, N[i]>> # <<ar[id].sub, N[id]>>

\* The name under which Collection.Remove looks for the administrator.
ProvName(c, pc, id) == pc.byID[c.byID[id].prov].name

\* One element of a slice is gone, the last one is in its place.
Shrunk(l, id, m) ==
  \E k \in 1 .. l.len :
    l.arr[k] = id /\ m = [arr |-> [l.arr EXCEPT ![k] = l.arr[l.len]], len |-> l.len - 1]

\* A row whose type is changed.
Retyped(ar, id, type) == [ar EXCEPT ![id].type = type]

\* Collection.Update of an administrator.
LEMMA AdminsUpdated ==
  ASSUME NEW c, AdminsRecord(c), NEW ar \in AdminTable, NEW N \in [Active(ar) -> Names],
         AdminsOf(c, ar, N), NEW id \in Active(ar), NEW type \in Types,
         NEW d, d = UpdateInAdmins(c, id, type), NEW br, br = Retyped(ar, id, type)
  PROVE  /\ AdminsOf(d, br, N) /\ Active(br) = Active(ar)
         /\ \A i \in Active(ar) : br[i].sub = ar[i].sub /\ br[i].prov = ar[i].prov
<1>0. id \in AdminIDs /\ ar[id] \in Admin
  BY ActiveIs
<1>1. [ar[id] EXCEPT !.type = type] \in Admin
  BY <1>0 DEF Admin
<1>2. PICK adm : adm = [ar[id] EXCEPT !.type = type]
  OBVIOUS
<1>3. adm.sub = ar[id].sub /\ adm.prov = ar[id].prov /\ adm \in Admin
  BY <1>0, <1>1, <1>2 DEF Admin
<1>4. br = Write(ar, id, adm)
  BY <1>0, <1>2 DEF Write, AdminTable, Retyped
<1>5. /\ Active(br) = Active(ar) /\ br[id] = adm
      /\ \A x \in Active(ar) : x # id => br[x] = ar[x]
  <2>1. /\ Active(br) = Active(ar) \cup {id} /\ br[id] = adm
        /\ \A x \in Active(ar) : x # id => br[x] = ar[x]
    BY <1>0, <1>3, <1>4, RowWritten, SMTT(60)
  <2>2. Active(ar) \cup {id} = Active(ar)
    OBVIOUS
  <2> QED
    BY <2>1, <2>2
<1>6. UpdatedAs(c, id, type, d)
  BY UpdateInAdminsIs
<1>7. /\ d.byID = [c.byID EXCEPT ![id].type = type] /\ d.bySubProv = c.bySubProv /\ d.byProv = c.byProv
  BY <1>6 DEF UpdatedAs
<1>8. c.byID = [i \in Active(ar) |-> ar[i]] /\ c.byID[id] = ar[id]
  BY DEF AdminsOf
<1>9. d.byID = [c.byID EXCEPT ![id] = adm]
  BY <1>2, <1>7, <1>8
<1>10. d.byID = [i \in Active(br) |-> br[i]]
  <2>1. d.byID = [i \in Active(ar) |-> IF i = id THEN adm ELSE ar[i]]
    BY <1>8, <1>9
  <2>2. \A i \in Active(ar) : br[i] = IF i = id THEN adm ELSE ar[i]
    BY <1>5
  <2>3. [i \in Active(ar) |-> br[i]] = [i \in Active(ar) |-> IF i = id THEN adm ELSE ar[i]]
    BY <2>2
  <2> QED
    BY <1>5, <2>1, <2>3
<1>11. \A i \in Active(ar) : br[i].sub = ar[i].sub /\ br[i].prov = ar[i].prov
  BY <1>3, <1>5
<1>12. /\ d.bySubProv \in [{<<br[i].sub, N[i]>> : i \in Active(br)} -> AdminIDs]
       /\ \A i \in Active(br) : d.bySubProv[<<br[i].sub, N[i]>>] = i
  <2>1. PICK P, Q : P = [i \in Active(ar) |-> <<br[i].sub, N[i]>>] /\ Q = [i \in Active(ar) |-> <<ar[i].sub, N[i]>>]
    OBVIOUS
  <2>2. P = Q
    BY <1>11, <2>1
  <2>3. /\ c.bySubProv \in [{Q[i] : i \in Active(ar)} -> AdminIDs]
        /\ \A i \in Active(ar) : c.bySubProv[Q[i]] = i
    <3>1. {Q[i] : i \in Active(ar)} = {<<ar[i].sub, N[i]>> : i \in Active(ar)}
      BY <2>1
    <3>2. \A i \in Active(ar) : Q[i] = <<ar[i].sub, N[i]>>
      BY <2>1
    <3> QED BY <3>1, <3>2 DEF AdminsOf
  <2>4. {P[i] : i \in Active(ar)} = {<<br[i].sub, N[i]>> : i \in Active(br)}
    BY <1>5, <2>1
  <2>5. \A i \in Active(br) : P[i] = <<br[i].sub, N[i]>>
    BY <1>5, <2>1
  <2>6. PICK S : S = {Q[i] : i \in Active(ar)}
    OBVIOUS
  <2>7. d.bySubProv \in [S -> AdminIDs] /\ \A i \in Active(ar) : d.bySubProv[Q[i]] = i
    BY <1>7, <2>3, <2>6
  <2>8. {<<br[i].sub, N[i]>> : i \in Active(br)} = S /\ \A i \in Active(br) : Q[i] = <<br[i].sub, N[i]>>
    BY <2>2, <2>4, <2>5, <2>6
  <2> QED
    BY <1>5, <2>7, <2>8
<1>13. \A n \in Names : LoadByProvisioner(d, n) = LoadByProvisioner(c, n)
  BY <1>7 DEF LoadByProvisioner
<1>14. \A n \in Names : Slice(LoadByProvisioner(d, n), Of(N, n))
  BY <1>13 DEF AdminsOf
<1>15. AdminsOf(d, br, N)
  BY <1>10, <1>12, <1>14 DEF AdminsOf
<1> QED
  BY <1>5, <1>11, <1>15

\* Two collections of the same rows answer the same.
LEMMA ViewsAgree ==
  ASSUME NEW c, NEW d, NEW ar, NEW N, AdminsOf(c, ar, N), CountsOf(c, ar, N),
         AdminsOf(d, ar, N), CountsOf(d, ar, N)
  PROVE  View(c) = View(d)
<1>1. c.byID = d.byID /\ c.superCount = d.superCount
  BY DEF AdminsOf, CountsOf
<1>2. c.bySubProv = d.bySubProv
  <2> DEFINE P(i) == <<ar[i].sub, N[i]>>
  <2>1. /\ c.bySubProv \in [{P(i) : i \in Active(ar)} -> AdminIDs]
        /\ d.bySubProv \in [{P(i) : i \in Active(ar)} -> AdminIDs]
        /\ \A i \in Active(ar) : c.bySubProv[P(i)] = i /\ d.bySubProv[P(i)] = i
    BY DEF AdminsOf
  <2> HIDE DEF P
  <2>2. \A x \in {P(i) : i \in Active(ar)} : c.bySubProv[x] = d.bySubProv[x]
    BY <2>1
  <2>3. PICK S : S = {P(i) : i \in Active(ar)}
    OBVIOUS
  <2> QED
    BY <2>1, <2>2, <2>3, SMTT(60)
<1>3. ASSUME NEW n \in Names
      PROVE  /\ {LoadByProvisioner(c, n).arr[i] : i \in 1 .. LoadByProvisioner(c, n).len} =
                  {LoadByProvisioner(d, n).arr[i] : i \in 1 .. LoadByProvisioner(d, n).len}
             /\ SuperCountByProvisioner(c, n) = SuperCountByProvisioner(d, n)
  BY DEF AdminsOf, CountsOf, Slice, Lists
<1>4. [n \in Names |-> {LoadByProvisioner(c, n).arr[i] : i \in 1 .. LoadByProvisioner(c, n).len}] =
      [n \in Names |-> {LoadByProvisioner(d, n).arr[i] : i \in 1 .. LoadByProvisioner(d, n).len}]
  BY <1>3
<1>5. [n \in Names |-> SuperCountByProvisioner(c, n)] = [n \in Names |-> SuperCountByProvisioner(d, n)]
  BY <1>3
<1> QED
  BY <1>1, <1>2, <1>4, <1>5 DEF View

\* Maps with one more entry, with one less, and with the same entries.
LEMMA IndexAdd ==
  ASSUME NEW m, NEW K, NEW V, Indexed(m, K, V), NEW id, id \notin DOMAIN K, NEW k, k \notin DOMAIN m,
         NEW v \in ProvRecs, NEW W, W[id] = v, \A i \in DOMAIN K : W[i] = V[i]
  PROVE  Indexed(Add(m, k, v), Add(K, id, k), W)
<1>1. PICK n, L : n = Add(m, k, v) /\ L = Add(K, id, k)
  OBVIOUS
<1>2. /\ DOMAIN L = DOMAIN K \cup {id} /\ L[id] = k /\ \A i \in DOMAIN K : L[i] = K[i]
  BY <1>1 DEF Add
<1>3. {L[i] : i \in DOMAIN L} = {K[i] : i \in DOMAIN K} \cup {k}
  BY <1>2, SMTT(60)
<1>4. PICK S : S = {K[i] : i \in DOMAIN K}
  OBVIOUS
<1>5. m \in [S -> ProvRecs] /\ DOMAIN m = S
  BY <1>4 DEF Indexed
<1>6. /\ n \in [S \cup {k} -> ProvRecs] /\ n[k] = v
      /\ \A x \in S : n[x] = m[x]
  BY <1>1, <1>5 DEF Add
<1>7. \A i \in DOMAIN L : n[L[i]] = W[i]
  BY <1>2, <1>4, <1>6, SMTT(60) DEF Indexed
<1>8. n \in [{L[i] : i \in DOMAIN L} -> ProvRecs]
  BY <1>3, <1>4, <1>6
<1>9. Indexed(n, L, W)
  BY <1>7, <1>8 DEF Indexed
<1> QED
  BY <1>1, <1>9

LEMMA IndexDrop ==
  ASSUME NEW m, NEW K, NEW V, Indexed(m, K, V), NEW id \in DOMAIN K,
         \A i \in DOMAIN K : i # id => K[i] # K[id],
         NEW W, \A i \in DOMAIN K : i # id => W[i] = V[i]
  PROVE  Indexed(Drop(m, K[id]), Drop(K, id), W)
<1>1. PICK n, L, k : n = Drop(m, k) /\ L = Drop(K, id) /\ k = K[id]
  OBVIOUS
<1>2. DOMAIN L = DOMAIN K \ {id} /\ \A i \in DOMAIN L : L[i] = K[i]
  BY <1>1 DEF Drop
<1>3. {L[i] : i \in DOMAIN L} = {K[i] : i \in DOMAIN K} \ {k}
  BY <1>1, <1>2, SMTT(60)
<1>4. PICK S : S = {K[i] : i \in DOMAIN K}
  OBVIOUS
<1>5. m \in [S -> ProvRecs] /\ DOMAIN m = S
  BY <1>4 DEF Indexed
<1>6. n \in [S \ {k} -> ProvRecs] /\ \A x \in S \ {k} : n[x] = m[x]
  BY <1>1, <1>5 DEF Drop
<1>7. \A i \in DOMAIN L : n[L[i]] = W[i]
  <2> TAKE i \in DOMAIN L
  <2>1. i \in DOMAIN K /\ i # id /\ L[i] = K[i] /\ K[i] \in S \ {k}
    BY <1>1, <1>2, <1>4
  <2>2. n[K[i]] = m[K[i]]
    BY <1>6, <2>1
  <2> QED
    BY <2>1, <2>2 DEF Indexed
<1>8. n \in [{L[i] : i \in DOMAIN L} -> ProvRecs]
  BY <1>3, <1>4, <1>6
<1>9. Indexed(n, L, W)
  BY <1>7, <1>8 DEF Indexed
<1> QED
  BY <1>1, <1>9

LEMMA IndexSame ==
  ASSUME NEW m, NEW n, NEW K, NEW V, Indexed(m, K, V), Indexed(n, K, V)
  PROVE  m = n
<1>1. PICK S : S = {K[i] : i \in DOMAIN K}
  OBVIOUS
<1>2. m \in [S -> ProvRecs] /\ n \in [S -> ProvRecs]
  BY <1>1 DEF Indexed
<1>3. \A x \in S : m[x] = n[x]
  BY <1>1, SMTT(60) DEF Indexed
<1> QED
  BY <1>2, <1>3, SMTT(60)

LEMMA IndexValues ==
  ASSUME NEW m, NEW K, NEW V, Indexed(m, K, V), NEW W, \A i \in DOMAIN K : W[i] = V[i]
  PROVE  Indexed(m, K, W)
  BY DEF Indexed

LEMMA IndexIs ==
  ASSUME NEW m, NEW K, NEW V, m = [x \in DOMAIN m |-> m[x]], DOMAIN m = {K[i] : i \in DOMAIN K},
         \A i \in DOMAIN K : m[K[i]] = V[i] /\ V[i] \in ProvRecs
  PROVE  Indexed(m, K, V)
<1>1. \A x \in DOMAIN m : m[x] \in ProvRecs
  BY SMTT(60)
<1>2. m \in [DOMAIN m -> ProvRecs]
  BY <1>1
<1> QED
  BY <1>2 DEF Indexed

LEMMA RecsAre ==
  ASSUME NEW pr \in ProvTable
  PROVE  /\ DOMAIN Recs(pr) = Active(pr) /\ DOMAIN RecIDs(pr) = Active(pr)
         /\ DOMAIN RecNames(pr) = Active(pr) /\ DOMAIN RecTokens(pr) = Active(pr)
         /\ DOMAIN RecKeys(pr) = {j \in Active(pr) : pr[j].kid # None}
         /\ \A i \in Active(pr) :
              /\ Recs(pr)[i] = Provisioner(i, pr[i]) /\ Recs(pr)[i] \in ProvRecs
              /\ RecIDs(pr)[i] = i /\ RecNames(pr)[i] = pr[i].name
              /\ RecTokens(pr)[i] = GetIDForToken(pr[i])
              /\ pr[i].kid # None => RecKeys(pr)[i] = pr[i].kid
<1>1. \A i \in Active(pr) : Provisioner(i, pr[i]) \in ProvRecs
  BY ActiveIs, RecOfConfig
<1> QED
  BY <1>1 DEF Recs, RecIDs, RecNames, RecTokens, RecKeys

\* A row of the table of provisioners is written.
LEMMA ProvWritten ==
  ASSUME NEW pr \in ProvTable, NEW id \in ProvIDs, NEW c \in Configs
  PROVE  /\ Write(pr, id, c) \in ProvTable
         /\ Active(Write(pr, id, c)) = Active(pr) \cup {id} /\ Write(pr, id, c)[id] = c
         /\ \A x \in Active(pr) : x # id => Write(pr, id, c)[x] = pr[x]
  BY RowsDiffer DEF Active, ProvTable, Write

LEMMA ProvDeleted ==
  ASSUME NEW pr \in ProvTable, NEW id \in ProvIDs
  PROVE  /\ Write(pr, id, Deleted) \in ProvTable
         /\ Active(Write(pr, id, Deleted)) = Active(pr) \ {id}
         /\ \A x \in Active(pr) : x # id => Write(pr, id, Deleted)[x] = pr[x]
  BY DEF Active, ProvTable, Write

\* Collection.Store of a provisioner.
LEMMA ProvsStored ==
  ASSUME NEW c, NEW pr \in ProvTable, ProvsOf(c, pr), NEW id \in ProvIDs, id \notin Active(pr),
         NEW cfg \in Configs, CanStoreProvisioner(c, Provisioner(id, cfg)),
         NEW d, d = StoreInProvisioners(c, Provisioner(id, cfg)), NEW qr, qr = Write(pr, id, cfg)
  PROVE  /\ ProvsOf(d, qr)
         /\ Unlike(pr) => Unlike(qr)
         /\ KeysOf(c, pr) /\ UnlikeKeys(qr) => KeysOf(d, qr)
<1>1. /\ qr \in ProvTable /\ Active(qr) = Active(pr) \cup {id} /\ qr[id] = cfg
      /\ \A x \in Active(pr) : x # id => qr[x] = pr[x]
  BY ProvWritten, SMTT(60)
<1>2. PICK nu : nu = Provisioner(id, cfg)
  OBVIOUS
<1>3. nu \in ProvRecs /\ nu.id = id /\ nu.name = cfg.name /\ nu.kid = cfg.kid
      /\ GetIDForToken(nu) = GetIDForToken(cfg)
  BY <1>2, RecOfConfig
<1>4. /\ d.byID = Add(c.byID, id, nu) /\ d.byName = Add(c.byName, cfg.name, nu)
      /\ d.byTokenID = Add(c.byTokenID, GetIDForToken(cfg), nu)
      /\ cfg.kid = None => d.byKey = c.byKey
      /\ cfg.kid # None => d.byKey = Add(c.byKey, cfg.kid, nu)
  <2>1. d = [byID |-> Add(c.byID, id, nu), byName |-> Add(c.byName, cfg.name, nu),
             byTokenID |-> Add(c.byTokenID, GetIDForToken(cfg), nu),
             byKey |-> IF cfg.kid = None THEN c.byKey ELSE Add(c.byKey, cfg.kid, nu)]
    BY <1>2, <1>3 DEF StoreInProvisioners
  <2> QED BY <2>1, SMTT(60)
<1>5. /\ id \notin DOMAIN c.byID /\ cfg.name \notin DOMAIN c.byName
      /\ GetIDForToken(cfg) \notin DOMAIN c.byTokenID
  BY <1>2, <1>3 DEF CanStoreProvisioner
<1>6. Recs(qr)[id] = nu /\ \A i \in Active(pr) : Recs(qr)[i] = Recs(pr)[i]
  BY <1>1, <1>2 DEF Recs
<1>7. /\ RecIDs(qr) = Add(RecIDs(pr), id, id)
      /\ RecNames(qr) = Add(RecNames(pr), id, cfg.name)
      /\ RecTokens(qr) = Add(RecTokens(pr), id, GetIDForToken(cfg))
  BY <1>1 DEF RecIDs, RecNames, RecTokens, Add
<1>8. Indexed(d.byID, RecIDs(qr), Recs(qr))
  <2>1. Indexed(c.byID, RecIDs(pr), Recs(pr)) /\ id \notin DOMAIN RecIDs(pr)
        /\ \A i \in DOMAIN RecIDs(pr) : Recs(qr)[i] = Recs(pr)[i]
    BY <1>6, RecsAre DEF ProvsOf
  <2>2. Indexed(Add(c.byID, id, nu), Add(RecIDs(pr), id, id), Recs(qr))
    BY <1>3, <1>5, <1>6, <2>1, IndexAdd, SMTT(60)
  <2> QED BY <1>4, <1>7, <2>2
<1>9. Indexed(d.byName, RecNames(qr), Recs(qr))
  <2>1. Indexed(c.byName, RecNames(pr), Recs(pr)) /\ id \notin DOMAIN RecNames(pr)
        /\ \A i \in DOMAIN RecNames(pr) : Recs(qr)[i] = Recs(pr)[i]
    BY <1>6, RecsAre DEF ProvsOf
  <2>2. Indexed(Add(c.byName, cfg.name, nu), Add(RecNames(pr), id, cfg.name), Recs(qr))
    BY <1>3, <1>5, <1>6, <2>1, IndexAdd, SMTT(60)
  <2> QED BY <1>4, <1>7, <2>2
<1>10. Indexed(d.byTokenID, RecTokens(qr), Recs(qr))
  <2>1. Indexed(c.byTokenID, RecTokens(pr), Recs(pr)) /\ id \notin DOMAIN RecTokens(pr)
        /\ \A i \in DOMAIN RecTokens(pr) : Recs(qr)[i] = Recs(pr)[i]
    BY <1>6, RecsAre DEF ProvsOf
  <2>2. Indexed(Add(c.byTokenID, GetIDForToken(cfg), nu), Add(RecTokens(pr), id, GetIDForToken(cfg)), Recs(qr))
    BY <1>3, <1>5, <1>6, <2>1, IndexAdd, SMTT(60)
  <2> QED BY <1>4, <1>7, <2>2
<1>11. ASSUME Unlike(pr) PROVE Unlike(qr)
  <2>1. \A i \in Active(pr) : pr[i].name # cfg.name /\ GetIDForToken(pr[i]) # GetIDForToken(cfg)
    <3>1. \A i \in Active(pr) : pr[i].name \in DOMAIN c.byName
      <4>1. DOMAIN c.byName = {RecNames(pr)[i] : i \in Active(pr)}
        BY RecsAre DEF ProvsOf, Indexed
      <4> QED BY <4>1 DEF RecNames
    <3>2. \A i \in Active(pr) : GetIDForToken(pr[i]) \in DOMAIN c.byTokenID
      <4>1. DOMAIN c.byTokenID = {RecTokens(pr)[i] : i \in Active(pr)}
        BY RecsAre DEF ProvsOf, Indexed
      <4> QED BY <4>1 DEF RecTokens
    <3> QED BY <1>5, <3>1, <3>2
  <2>2. \A i \in Active(qr) : i # id => i \in Active(pr) /\ qr[i] = pr[i]
    BY <1>1
  <2> QED
    BY <1>1, <1>11, <2>1, <2>2, SMTT(60) DEF Unlike
<1>12. ASSUME KeysOf(c, pr), UnlikeKeys(qr) PROVE KeysOf(d, qr)
  <2>0. DOMAIN RecKeys(pr) \subseteq Active(pr) /\ id \notin DOMAIN RecKeys(pr)
        /\ \A i \in DOMAIN RecKeys(pr) : Recs(qr)[i] = Recs(pr)[i]
    BY <1>6, RecsAre
  <2>1. CASE cfg.kid = None
    <3>1. RecKeys(qr) = RecKeys(pr)
      BY <1>1, <2>1 DEF RecKeys
    <3>2. Indexed(c.byKey, RecKeys(pr), Recs(qr))
      BY <1>12, <2>0, IndexValues DEF KeysOf
    <3> QED BY <1>4, <2>1, <3>1, <3>2 DEF KeysOf
  <2>2. CASE cfg.kid # None
    <3>1. RecKeys(qr) = Add(RecKeys(pr), id, cfg.kid)
      BY <1>1, <2>2, SMTT(60) DEF RecKeys, Add
    <3>2. cfg.kid \notin DOMAIN c.byKey
      <4>1. \A i \in Active(pr) : pr[i].kid # cfg.kid
        BY <1>1, <1>12, <2>2, SMTT(60) DEF UnlikeKeys
      <4>2. \A i \in DOMAIN RecKeys(pr) : RecKeys(pr)[i] # cfg.kid
        BY <4>1 DEF RecKeys
      <4> QED BY <1>12, <4>2 DEF KeysOf, Indexed
    <3>3. Indexed(Add(c.byKey, cfg.kid, nu), Add(RecKeys(pr), id, cfg.kid), Recs(qr))
      BY <1>3, <1>6, <1>12, <2>0, <3>2, IndexAdd DEF KeysOf
    <3> QED BY <1>4, <2>2, <3>1, <3>3 DEF KeysOf
  <2> QED BY <2>1, <2>2
<1> QED
  BY <1>8, <1>9, <1>10, <1>11, <1>12 DEF ProvsOf

\* Collection.Remove of a provisioner.
LEMMA ProvsRemoved ==
  ASSUME NEW c, NEW pr \in ProvTable, ProvsOf(c, pr), Unlike(pr), NEW id \in Active(pr),
         NEW d, d = RemoveFromProvisioners(c, id), NEW qr, qr = Write(pr, id, Deleted)
  PROVE  /\ ProvsOf(d, qr) /\ Unlike(qr)
         /\ KeysOf(c, pr) /\ UnlikeKeys(pr) => KeysOf(d, qr)
         /\ c.byID[id] = Provisioner(id, pr[id])
<1>0. id \in ProvIDs /\ pr[id] \in Configs
  BY ActiveIs
<1>1. /\ qr \in ProvTable /\ Active(qr) = Active(pr) \ {id}
      /\ \A x \in Active(pr) : x # id => qr[x] = pr[x]
  BY <1>0, ProvDeleted
<1>2. PICK cfg : cfg = pr[id]
  OBVIOUS
<1>3. c.byID[id] = Provisioner(id, cfg)
  <2>1. c.byID[RecIDs(pr)[id]] = Recs(pr)[id]
    BY RecsAre DEF ProvsOf, Indexed
  <2> QED
    BY <1>2, <2>1, RecsAre
<1>4. /\ d.byID = Drop(c.byID, RecIDs(pr)[id]) /\ d.byName = Drop(c.byName, RecNames(pr)[id])
      /\ d.byTokenID = Drop(c.byTokenID, RecTokens(pr)[id])
      /\ cfg.kid = None => d.byKey = c.byKey
      /\ cfg.kid # None => d.byKey = Drop(c.byKey, cfg.kid)
  <2>1. PICK p : p = c.byID[id]
    OBVIOUS
  <2>2. p.name = cfg.name /\ p.kid = cfg.kid /\ GetIDForToken(p) = GetIDForToken(cfg)
    BY <1>0, <1>2, <1>3, <2>1, RecOfConfig, SMTT(60)
  <2>3. /\ d.byID = Drop(c.byID, id) /\ d.byName = Drop(c.byName, p.name)
        /\ d.byTokenID = Drop(c.byTokenID, GetIDForToken(p))
        /\ d.byKey = IF p.kid = None THEN c.byKey ELSE Drop(c.byKey, p.kid)
    BY <2>1 DEF RemoveFromProvisioners
  <2>4. RecIDs(pr)[id] = id /\ RecNames(pr)[id] = cfg.name /\ RecTokens(pr)[id] = GetIDForToken(cfg)
    BY <1>2, RecsAre
  <2> QED
    BY <2>2, <2>3, <2>4
<1>5. \A i \in Active(pr) : i # id => Recs(qr)[i] = Recs(pr)[i]
  BY <1>1 DEF Recs
<1>6. /\ RecIDs(qr) = Drop(RecIDs(pr), id) /\ RecNames(qr) = Drop(RecNames(pr), id)
      /\ RecTokens(qr) = Drop(RecTokens(pr), id)
  BY <1>1 DEF RecIDs, RecNames, RecTokens, Drop
<1>7. Indexed(d.byID, RecIDs(qr), Recs(qr))
  <2>1. /\ Indexed(c.byID, RecIDs(pr), Recs(pr)) /\ DOMAIN RecIDs(pr) = Active(pr)
        /\ \A i \in Active(pr) : i # id => RecIDs(pr)[i] # RecIDs(pr)[id]
    <3>1. Indexed(c.byID, RecIDs(pr), Recs(pr))
      BY DEF ProvsOf
    <3>2. \A i \in Active(pr) : i # id => RecIDs(pr)[i] # RecIDs(pr)[id]
      BY DEF RecIDs
    <3> QED BY <3>1, <3>2, RecsAre
  <2>2. Indexed(Drop(c.byID, RecIDs(pr)[id]), Drop(RecIDs(pr), id), Recs(qr))
    BY <1>5, <2>1, IndexDrop
  <2> QED BY <1>4, <1>6, <2>2
<1>8. Indexed(d.byName, RecNames(qr), Recs(qr))
  <2>1. /\ Indexed(c.byName, RecNames(pr), Recs(pr)) /\ DOMAIN RecNames(pr) = Active(pr)
        /\ \A i \in Active(pr) : i # id => RecNames(pr)[i] # RecNames(pr)[id]
    <3>1. Indexed(c.byName, RecNames(pr), Recs(pr))
      BY DEF ProvsOf
    <3>2. \A i \in Active(pr) : i # id => RecNames(pr)[i] # RecNames(pr)[id]
      BY DEF RecNames, Unlike
    <3> QED BY <3>1, <3>2, RecsAre
  <2>2. Indexed(Drop(c.byName, RecNames(pr)[id]), Drop(RecNames(pr), id), Recs(qr))
    BY <1>5, <2>1, IndexDrop
  <2> QED BY <1>4, <1>6, <2>2
<1>9. Indexed(d.byTokenID, RecTokens(qr), Recs(qr))
  <2>1. /\ Indexed(c.byTokenID, RecTokens(pr), Recs(pr)) /\ DOMAIN RecTokens(pr) = Active(pr)
        /\ \A i \in Active(pr) : i # id => RecTokens(pr)[i] # RecTokens(pr)[id]
    <3>1. Indexed(c.byTokenID, RecTokens(pr), Recs(pr))
      BY DEF ProvsOf
    <3>2. \A i \in Active(pr) : i # id => RecTokens(pr)[i] # RecTokens(pr)[id]
      BY DEF RecTokens, Unlike
    <3> QED BY <3>1, <3>2, RecsAre
  <2>2. Indexed(Drop(c.byTokenID, RecTokens(pr)[id]), Drop(RecTokens(pr), id), Recs(qr))
    BY <1>5, <2>1, IndexDrop
  <2> QED BY <1>4, <1>6, <2>2
<1>10. Unlike(qr)
  BY <1>1, SMTT(60) DEF Unlike
<1>11. ASSUME KeysOf(c, pr), UnlikeKeys(pr) PROVE KeysOf(d, qr)
  <2>0. DOMAIN RecKeys(pr) \subseteq Active(pr)
    BY RecsAre
  <2>1. CASE cfg.kid = None
    <3>1. RecKeys(qr) = RecKeys(pr)
      BY <1>1, <1>2, <2>1 DEF RecKeys
    <3>2. \A i \in DOMAIN RecKeys(pr) : Recs(qr)[i] = Recs(pr)[i]
      BY <1>2, <1>5, <2>1, RecsAre
    <3>3. Indexed(c.byKey, RecKeys(pr), Recs(qr))
      BY <1>11, <3>2, IndexValues DEF KeysOf
    <3> QED BY <1>4, <2>1, <3>1, <3>3 DEF KeysOf
  <2>2. CASE cfg.kid # None
    <3>1. RecKeys(qr) = Drop(RecKeys(pr), id)
      BY <1>1, <2>2 DEF RecKeys, Drop
    <3>2. id \in DOMAIN RecKeys(pr) /\ RecKeys(pr)[id] = cfg.kid
      BY <1>2, <2>2, RecsAre
    <3>3. \A i \in DOMAIN RecKeys(pr) : i # id => RecKeys(pr)[i] # RecKeys(pr)[id]
      BY <1>2, <1>11, <2>2 DEF RecKeys, UnlikeKeys
    <3>4. \A i \in DOMAIN RecKeys(pr) : i # id => Recs(qr)[i] = Recs(pr)[i]
      BY <1>5, <2>0
    <3>5. Indexed(Drop(c.byKey, RecKeys(pr)[id]), Drop(RecKeys(pr), id), Recs(qr))
      BY <1>11, <3>2, <3>3, <3>4, IndexDrop DEF KeysOf
    <3> QED BY <1>4, <2>2, <3>1, <3>2, <3>5 DEF KeysOf
  <2> QED BY <2>1, <2>2
<1> QED
  BY <1>2, <1>3, <1>7, <1>8, <1>9, <1>10, <1>11 DEF ProvsOf

\* Collection.Update of a provisioner.
LEMMA ProvsUpdated ==
  ASSUME NEW c, NEW pr \in ProvTable, ProvsOf(c, pr), Unlike(pr), NEW id \in Active(pr),
         NEW cfg \in Configs, CanUpdateProvisioner(c, Provisioner(id, cfg)),
         NEW d, d = UpdateInProvisioners(c, Provisioner(id, cfg)), NEW qr, qr = Write(pr, id, cfg)
  PROVE  /\ ProvsOf(d, qr) /\ Unlike(qr)
         /\ KeysOf(c, pr) /\ UnlikeKeys(pr) /\ UnlikeKeys(qr) => KeysOf(d, qr)
<1>0. id \in ProvIDs
  BY ActiveIs
<1>1. PICK e, sr, nu : e = RemoveFromProvisioners(c, id) /\ sr = Write(pr, id, Deleted) /\ nu = Provisioner(id, cfg)
  OBVIOUS
<1>2. /\ ProvsOf(e, sr) /\ Unlike(sr) /\ (KeysOf(c, pr) /\ UnlikeKeys(pr) => KeysOf(e, sr))
      /\ c.byID[id] = Provisioner(id, pr[id])
  BY <1>1, ProvsRemoved
<1>3. nu.id = id /\ nu.name = cfg.name /\ GetIDForToken(nu) = GetIDForToken(cfg)
  BY <1>0, <1>1, RecOfConfig
<1>4. d = StoreInProvisioners(e, nu)
  BY <1>1, <1>3 DEF UpdateInProvisioners
<1>5. sr \in ProvTable /\ id \notin Active(sr)
  BY <1>0, <1>1, ProvDeleted
<1>6. qr = Write(sr, id, cfg)
  BY <1>0, <1>1 DEF Write, ProvTable
<1>7. CanStoreProvisioner(e, nu)
  <2>1. PICK p : p = c.byID[id]
    OBVIOUS
  <2>2. /\ e.byID = Drop(c.byID, id) /\ e.byName = Drop(c.byName, p.name)
        /\ e.byTokenID = Drop(c.byTokenID, GetIDForToken(p))
    BY <1>1, <2>1 DEF RemoveFromProvisioners
  <2>3. /\ DOMAIN e.byID = DOMAIN c.byID \ {id} /\ DOMAIN e.byName = DOMAIN c.byName \ {p.name}
        /\ DOMAIN e.byTokenID = DOMAIN c.byTokenID \ {GetIDForToken(p)}
    BY <2>2 DEF Drop
  <2>4. /\ p.name # nu.name => nu.name \notin DOMAIN c.byName
        /\ GetIDForToken(p) # GetIDForToken(nu) => GetIDForToken(nu) \notin DOMAIN c.byTokenID
    BY <1>1, <1>3, <2>1 DEF CanUpdateProvisioner
  <2> QED
    BY <1>3, <2>3, <2>4 DEF CanStoreProvisioner
<1> QED
  BY <1>0, <1>1, <1>2, <1>4, <1>5, <1>6, <1>7, ProvsStored

\* ReloadAdminResources.
LEMMA ProvsLoaded ==
  ASSUME NEW pr \in ProvTable, Unlike(pr), NEW d, d = LoadProvisioners(pr)
  PROVE  ProvsOf(d, pr) /\ (UnlikeKeys(pr) => KeysOf(d, pr))
<1> DEFINE A == Active(pr)
           Prov(i) == Provisioner(i, pr[i])
<1>1. /\ d.byID = [i \in A |-> Prov(i)]
      /\ d.byName = [n \in {pr[i].name : i \in A} |-> Prov(CHOOSE i \in A : pr[i].name = n)]
      /\ d.byTokenID = [t \in {GetIDForToken(pr[i]) : i \in A} |->
                          Prov(CHOOSE i \in A : GetIDForToken(pr[i]) = t)]
      /\ d.byKey = [k \in {pr[i].kid : i \in A} \ {None} |->
                      Prov(CHOOSE i \in A : pr[i].kid = k /\ \A j \in A : pr[j].kid = k => j <= i)]
  BY DEF LoadProvisioners
<1>0. \A i \in A : Recs(pr)[i] = Prov(i) /\ Recs(pr)[i] \in ProvRecs
  BY RecsAre
<1> HIDE DEF Prov
<1>2. Indexed(d.byID, RecIDs(pr), Recs(pr))
  <2>1. DOMAIN d.byID = A /\ d.byID = [x \in DOMAIN d.byID |-> d.byID[x]] /\ \A i \in A : d.byID[i] = Prov(i)
    BY <1>1
  <2>2. {RecIDs(pr)[i] : i \in DOMAIN RecIDs(pr)} = A
    BY DEF RecIDs
  <2>3. \A i \in DOMAIN RecIDs(pr) : d.byID[RecIDs(pr)[i]] = Recs(pr)[i] /\ Recs(pr)[i] \in ProvRecs
    BY <1>0, <2>1 DEF RecIDs
  <2> QED BY <2>1, <2>2, <2>3, IndexIs
<1>3. Indexed(d.byName, RecNames(pr), Recs(pr))
  <2>1. \A i \in A : d.byName[pr[i].name] = Prov(i)
    <3> TAKE i \in A
    <3> DEFINE k == CHOOSE j \in A : pr[j].name = pr[i].name
    <3>1. k \in A /\ pr[k].name = pr[i].name
      OBVIOUS
    <3>2. d.byName[pr[i].name] = Prov(k)
      <4>1. pr[i].name \in {pr[j].name : j \in A}
        OBVIOUS
      <4> QED BY <1>1, <4>1
    <3> HIDE DEF k
    <3>3. k = i
      BY <3>1 DEF Unlike
    <3> QED BY <3>2, <3>3
  <2>2. DOMAIN d.byName = {pr[i].name : i \in A} /\ d.byName = [x \in DOMAIN d.byName |-> d.byName[x]]
    BY <1>1
  <2>3. {RecNames(pr)[i] : i \in DOMAIN RecNames(pr)} = {pr[i].name : i \in A}
    BY DEF RecNames
  <2>4. \A i \in DOMAIN RecNames(pr) : d.byName[RecNames(pr)[i]] = Recs(pr)[i] /\ Recs(pr)[i] \in ProvRecs
    BY <1>0, <2>1 DEF RecNames
  <2> QED BY <2>2, <2>3, <2>4, IndexIs
<1>4. Indexed(d.byTokenID, RecTokens(pr), Recs(pr))
  <2>1. \A i \in A : d.byTokenID[GetIDForToken(pr[i])] = Prov(i)
    <3> TAKE i \in A
    <3> DEFINE k == CHOOSE j \in A : GetIDForToken(pr[j]) = GetIDForToken(pr[i])
    <3>1. k \in A /\ GetIDForToken(pr[k]) = GetIDForToken(pr[i])
      OBVIOUS
    <3>2. d.byTokenID[GetIDForToken(pr[i])] = Prov(k)
      <4>1. GetIDForToken(pr[i]) \in {GetIDForToken(pr[j]) : j \in A}
        OBVIOUS
      <4> QED BY <1>1, <4>1
    <3> HIDE DEF k
    <3>3. k = i
      BY <3>1 DEF Unlike
    <3> QED BY <3>2, <3>3
  <2>2. DOMAIN d.byTokenID = {GetIDForToken(pr[i]) : i \in A} /\ d.byTokenID = [x \in DOMAIN d.byTokenID |-> d.byTokenID[x]]
    BY <1>1
  <2>3. {RecTokens(pr)[i] : i \in DOMAIN RecTokens(pr)} = {GetIDForToken(pr[i]) : i \in A}
    BY DEF RecTokens
  <2>4. \A i \in DOMAIN RecTokens(pr) : d.byTokenID[RecTokens(pr)[i]] = Recs(pr)[i] /\ Recs(pr)[i] \in ProvRecs
    BY <1>0, <2>1 DEF RecTokens
  <2> QED BY <2>2, <2>3, <2>4, IndexIs
<1>5. ASSUME UnlikeKeys(pr) PROVE Indexed(d.byKey, RecKeys(pr), Recs(pr))
  <2>0. A \subseteq Int
    BY ActiveIs, SMTT(60) DEF ProvIDs
  <2>1. \A i \in A : pr[i].kid # None => d.byKey[pr[i].kid] = Prov(i)
    <3> SUFFICES ASSUME NEW i \in A, pr[i].kid # None PROVE d.byKey[pr[i].kid] = Prov(i)
      OBVIOUS
    <3> DEFINE k == CHOOSE j \in A : pr[j].kid = pr[i].kid /\ \A h \in A : pr[h].kid = pr[i].kid => h <= j
    <3>1. \A h \in A : pr[h].kid = pr[i].kid => h <= i
      BY <1>5, <2>0, SMTT(60) DEF UnlikeKeys
    <3>2. k \in A /\ pr[k].kid = pr[i].kid
      BY <3>1
    <3>3. d.byKey[pr[i].kid] = Prov(k)
      <4>1. pr[i].kid \in {pr[j].kid : j \in A} \ {None}
        OBVIOUS
      <4> QED BY <1>1, <4>1
    <3> HIDE DEF k
    <3>4. k = i
      BY <1>5, <3>2 DEF UnlikeKeys
    <3> QED BY <3>3, <3>4
  <2>2. DOMAIN d.byKey = {pr[i].kid : i \in A} \ {None} /\ d.byKey = [x \in DOMAIN d.byKey |-> d.byKey[x]]
    BY <1>1
  <2>3. {RecKeys(pr)[i] : i \in DOMAIN RecKeys(pr)} = {pr[i].kid : i \in A} \ {None}
    BY DEF RecKeys
  <2>4. \A i \in DOMAIN RecKeys(pr) : d.byKey[RecKeys(pr)[i]] = Recs(pr)[i] /\ Recs(pr)[i] \in ProvRecs
    BY <1>0, <2>1 DEF RecKeys
  <2> QED BY <2>2, <2>3, <2>4, IndexIs
<1> QED
  BY <1>2, <1>3, <1>4, <1>5 DEF ProvsOf, KeysOf

\* Two collections of the same rows are the same.
LEMMA ProvsAgree ==
  ASSUME NEW c, NEW d, ProvsTyped(c), ProvsTyped(d), NEW pr, ProvsOf(c, pr), ProvsOf(d, pr),
         KeysOf(c, pr), KeysOf(d, pr)
  PROVE  c = d
<1>1. c.byID = d.byID /\ c.byName = d.byName /\ c.byTokenID = d.byTokenID /\ c.byKey = d.byKey
  BY IndexSame DEF ProvsOf, KeysOf
<1>2. /\ \E i, n, t, k : c = [byID |-> i, byName |-> n, byTokenID |-> t, byKey |-> k]
      /\ \E i, n, t, k : d = [byID |-> i, byName |-> n, byTokenID |-> t, byKey |-> k]
  BY DEF ProvsTyped
<1> QED
  BY <1>1, <1>2, SMTT(60)

-----------------------------------------------------------------------------
(* The collections and the tables: the invariant.                           *)

\* The provisioners that are cached have rows with their names.
Found(c, pr) ==
  /\ \A n \in DOMAIN c.byName : c.byName[n].id \in Active(pr) /\ pr[c.byName[n].id].name = n
  /\ \A i \in DOMAIN c.byID : i \in Active(pr) /\ c.byID[i].name = pr[i].name

Configured(pr) == \A i \in Active(pr) : pr[i] \in work.configs \cup {FirstConfig}

\* What a request has looked up is still there.
LocFound(l, c, pr) ==
  /\ l.pc = "StoreAdmin" => l.prov.id \in Active(pr) /\ pr[l.prov.id].name = l.prov.name
  /\ l.pc = "UpdateProvisioner" =>
       /\ l.nu.id \in Active(pr) /\ pr[l.nu.id].name = l.nu.name
       /\ [name |-> l.nu.name, kid |-> l.nu.kid, client |-> l.nu.client] \in work.configs
  /\ l.pc = "removeAdmin" => l.id \in DOMAIN c.byID

\* Both collections hold the rows, and the rows can be loaded.
Match(pc, ac, pr, ar) ==
  /\ Loadable(pr, ar) /\ ProvsOf(pc, pr) /\ AdminsOf(ac, ar, NamesOf(pr, ar))
  /\ RolesKept => CountsOf(ac, ar, NamesOf(pr, ar))
  /\ OwnKeys => KeysOf(pc, pr)

\* The loop of RemoveProvisioner.  The turns i to n that are left read from the
\* array what the collection still has of the provisioner, although Remove moves
\* elements of the same array.
Left(i, n, s) ==
  /\ i \in Nat /\ n \in Nat /\ 1 <= i /\ i <= n + 1 /\ n <= Len(s.arr) /\ s.len = n + 1 - i
  /\ \A j, k \in i .. n : s.arr[j] = s.arr[k] => j = k
  /\ {s.arr[k] : k \in i .. n} = {s.arr[k] : k \in 1 .. s.len}

Looping(l, c, pr) ==
  l.pc = "removeAdmin" => Left(l.i, l.n, LoadByProvisioner(c, pr[l.id].name))

Good ==
  /\ Found(provs, provRows) /\ Configured(provRows)
  /\ \A p \in Procs : LocFound(loc[p], provs, provRows)
  /\ boot = "up" /\ ~ stale =>
       /\ Match(provs, admins, provRows, adminRows)
       /\ \A p \in Procs : Looping(loc[p], admins, provRows)
  /\ "reload" \notin work.faults =>
       /\ ~ stale /\ Loadable(provRows, adminRows)
       /\ boot = "CreateAdmin" => Active(adminRows) = {}

CoherenceInv == Orderly => Good

LEMMA KeysUnlike ==
  ASSUME NEW pr, OwnKeys, Configured(pr), Unlike(pr)
  PROVE  UnlikeKeys(pr)
  BY DEF OwnKeys, Configured, Unlike, UnlikeKeys

LEMMA LoadableUnlike == ASSUME NEW pr, NEW ar, Loadable(pr, ar) PROVE Unlike(pr)
  BY DEF Loadable, Unlike

LEMMA FoundProvs ==
  ASSUME NEW c, NEW pr \in ProvTable, ProvsOf(c, pr)
  PROVE  Found(c, pr)
<1>1. \A i \in Active(pr) : /\ Recs(pr)[i].id = i /\ Recs(pr)[i].name = pr[i].name
                            /\ RecIDs(pr)[i] = i /\ RecNames(pr)[i] = pr[i].name
  <2>1. \A i \in Active(pr) : Provisioner(i, pr[i]).id = i /\ Provisioner(i, pr[i]).name = pr[i].name
    BY DEF Provisioner
  <2> QED BY <2>1, RecsAre
<1>2. DOMAIN RecIDs(pr) = Active(pr) /\ DOMAIN RecNames(pr) = Active(pr)
  BY RecsAre
<1>3. ASSUME NEW n \in DOMAIN c.byName PROVE c.byName[n].id \in Active(pr) /\ pr[c.byName[n].id].name = n
  <2>1. PICK i \in Active(pr) : n = RecNames(pr)[i]
    BY <1>2, <1>3, SMTT(60) DEF ProvsOf, Indexed
  <2>2. c.byName[n] = Recs(pr)[i]
    BY <1>2, <2>1 DEF ProvsOf, Indexed
  <2> QED BY <1>1, <2>1, <2>2, SMTT(60)
<1>4. ASSUME NEW i \in DOMAIN c.byID PROVE i \in Active(pr) /\ c.byID[i].name = pr[i].name
  <2>1. PICK j \in Active(pr) : i = RecIDs(pr)[j]
    BY <1>2, <1>4, SMTT(60) DEF ProvsOf, Indexed
  <2>2. c.byID[i] = Recs(pr)[j]
    BY <1>2, <2>1 DEF ProvsOf, Indexed
  <2> QED BY <1>1, <2>1, <2>2
<1> QED
  BY <1>3, <1>4 DEF Found

\* More rows, or rows with other keys.
Grown(pr, qr) == \A i \in Active(pr) : i \in Active(qr) /\ qr[i].name = pr[i].name

LEMMA FoundGrown ==
  ASSUME NEW c, NEW pr, NEW qr, Found(c, pr), Grown(pr, qr)
  PROVE  Found(c, qr)
  BY DEF Found, Grown

LEMMA FoundStored ==
  ASSUME NEW c, NEW pr, Found(c, pr), NEW p \in ProvRecs, p.id \in Active(pr), pr[p.id].name = p.name
  PROVE  Found(StoreInProvisioners(c, p), pr)
<1>1. PICK d : d = StoreInProvisioners(c, p)
  OBVIOUS
<1>2. d.byID = Add(c.byID, p.id, p) /\ d.byName = Add(c.byName, p.name, p)
  BY <1>1 DEF StoreInProvisioners
<1>3. Found(d, pr)
  BY <1>2, SMTT(60) DEF Found, Add
<1> QED
  BY <1>1, <1>3

LEMMA FoundRemoved ==
  ASSUME NEW c, NEW pr, Found(c, pr), NEW id
  PROVE  Found(RemoveFromProvisioners(c, id), pr)
<1>1. PICK d : d = RemoveFromProvisioners(c, id)
  OBVIOUS
<1>2. d.byID = Drop(c.byID, id) /\ d.byName = Drop(c.byName, c.byID[id].name)
  BY <1>1 DEF RemoveFromProvisioners
<1>3. Found(d, pr)
  BY <1>2, SMTT(60) DEF Found, Drop
<1> QED
  BY <1>1, <1>3

LEMMA FoundDeleted ==
  ASSUME NEW c, NEW pr \in ProvTable, Found(c, pr), NEW id \in ProvIDs, id \in DOMAIN c.byID
  PROVE  Found(RemoveFromProvisioners(c, id), Write(pr, id, Deleted))
<1>1. PICK d, qr : d = RemoveFromProvisioners(c, id) /\ qr = Write(pr, id, Deleted)
  OBVIOUS
<1>2. d.byID = Drop(c.byID, id) /\ d.byName = Drop(c.byName, c.byID[id].name)
  BY <1>1 DEF RemoveFromProvisioners
<1>3. Active(qr) = Active(pr) \ {id} /\ \A x \in Active(pr) : x # id => qr[x] = pr[x]
  BY <1>1, ProvDeleted
<1>4. c.byID[id].name = pr[id].name
  BY DEF Found
<1>5. /\ DOMAIN d.byID = DOMAIN c.byID \ {id} /\ \A i \in DOMAIN d.byID : d.byID[i] = c.byID[i]
      /\ DOMAIN d.byName = DOMAIN c.byName \ {pr[id].name}
      /\ \A n \in DOMAIN d.byName : d.byName[n] = c.byName[n]
  BY <1>2, <1>4 DEF Drop
<1>6. Found(d, qr)
  BY <1>3, <1>5, SMTT(60) DEF Found
<1> QED
  BY <1>1, <1>6

LEMMA MatchUpdatedAdmin ==
  ASSUME NEW pc, NEW ac, NEW pr \in ProvTable, NEW ar \in AdminTable, Match(pc, ac, pr, ar), ~ RolesKept,
         AdminsRecord(ac), NEW id \in Active(ar), NEW type \in Types
  PROVE  Match(pc, UpdateInAdmins(ac, id, type), pr, Retyped(ar, id, type))
<1>1. PICK br, N, M, d : /\ br = Retyped(ar, id, type) /\ N = NamesOf(pr, ar) /\ M = NamesOf(pr, br)
                         /\ d = UpdateInAdmins(ac, id, type)
  OBVIOUS
<1>2. Loadable(pr, ar) /\ AdminsOf(ac, ar, N) /\ N \in [Active(ar) -> Names]
  BY <1>1, NamesOfIs DEF Match
<1>3. /\ AdminsOf(d, br, N) /\ Active(br) = Active(ar)
      /\ \A i \in Active(ar) : br[i].sub = ar[i].sub /\ br[i].prov = ar[i].prov
  BY <1>1, <1>2, AdminsUpdated, SMTT(60)
<1>4. M = N
  BY <1>1, <1>3 DEF NamesOf
<1>5. Loadable(pr, br)
  BY <1>2, <1>3 DEF Loadable
<1> QED
  BY <1>1, <1>3, <1>4, <1>5 DEF Match

SameNames(pr, qr, ar) ==
  \A i \in Active(ar) : ar[i].prov \in Active(qr) /\ qr[ar[i].prov].name = pr[ar[i].prov].name

\* A table of provisioners in which the administrators find the same names.
LEMMA MatchProvisioners ==
  ASSUME NEW pc, NEW ac, NEW pr, NEW ar, Match(pc, ac, pr, ar), NEW d, NEW qr, ProvsOf(d, qr), Unlike(qr),
         SameNames(pr, qr, ar),
         OwnKeys => KeysOf(d, qr)
  PROVE  Match(d, ac, qr, ar)
<1>1. NamesOf(qr, ar) = NamesOf(pr, ar)
  BY DEF NamesOf, SameNames
<1>2. Loadable(qr, ar)
  BY DEF Match, Loadable, Unlike, SameNames
<1> QED
  BY <1>1, <1>2 DEF Match

LEMMA MatchStoredProvisioner ==
  ASSUME NEW pc, NEW ac, NEW pr \in ProvTable, NEW ar \in AdminTable, Match(pc, ac, pr, ar),
         NEW id \in ProvIDs, pr[id] = None, NEW c \in Configs, NEW qr, qr = Write(pr, id, c), Configured(qr),
         CanStoreProvisioner(pc, Provisioner(id, c))
  PROVE  Match(StoreInProvisioners(pc, Provisioner(id, c)), ac, qr, ar)
<1>1. PICK d : d = StoreInProvisioners(pc, Provisioner(id, c))
  OBVIOUS
<1>2. id \notin Active(pr)
  BY DEF Active
<1>3. Active(qr) = Active(pr) \cup {id} /\ \A x \in Active(pr) : x # id => qr[x] = pr[x]
  BY ProvWritten, SMTT(60)
<1>4. Loadable(pr, ar) /\ Unlike(pr) /\ ProvsOf(pc, pr) /\ (OwnKeys => KeysOf(pc, pr))
  BY LoadableUnlike DEF Match
<1>5. /\ ProvsOf(d, qr) /\ Unlike(qr) /\ (KeysOf(pc, pr) /\ UnlikeKeys(qr) => KeysOf(d, qr))
  BY <1>1, <1>2, <1>4, ProvsStored
<1>6. OwnKeys => KeysOf(d, qr)
  BY <1>4, <1>5, KeysUnlike
<1>7. SameNames(pr, qr, ar)
  BY <1>2, <1>3, <1>4 DEF Loadable, SameNames
<1> QED
  BY <1>1, <1>5, <1>6, <1>7, MatchProvisioners

LEMMA MatchUpdatedProvisioner ==
  ASSUME NEW pc, NEW ac, NEW pr \in ProvTable, NEW ar \in AdminTable, Match(pc, ac, pr, ar),
         NEW id \in Active(pr), NEW c \in Configs, pr[id].name = c.name, NEW qr, qr = Write(pr, id, c),
         Configured(pr), Configured(qr), CanUpdateProvisioner(pc, Provisioner(id, c))
  PROVE  Match(UpdateInProvisioners(pc, Provisioner(id, c)), ac, qr, ar)
<1>1. PICK d : d = UpdateInProvisioners(pc, Provisioner(id, c))
  OBVIOUS
<1>2. id \in ProvIDs
  BY ActiveIs
<1>3. Active(qr) = Active(pr) \cup {id} /\ qr[id] = c /\ \A x \in Active(pr) : x # id => qr[x] = pr[x]
  BY <1>2, ProvWritten, SMTT(60)
<1>4. Loadable(pr, ar) /\ Unlike(pr) /\ ProvsOf(pc, pr) /\ (OwnKeys => KeysOf(pc, pr))
  BY LoadableUnlike DEF Match
<1>5. /\ ProvsOf(d, qr) /\ Unlike(qr) /\ (KeysOf(pc, pr) /\ UnlikeKeys(pr) /\ UnlikeKeys(qr) => KeysOf(d, qr))
  BY <1>1, <1>4, ProvsUpdated
<1>6. OwnKeys => KeysOf(d, qr)
  BY <1>4, <1>5, KeysUnlike
<1>7. SameNames(pr, qr, ar)
  BY <1>3, <1>4 DEF Loadable, SameNames
<1> QED
  BY <1>1, <1>5, <1>6, <1>7, MatchProvisioners

LEMMA MatchDeletedProvisioner ==
  ASSUME NEW pc, NEW ac, NEW pr \in ProvTable, NEW ar \in AdminTable, Match(pc, ac, pr, ar),
         NEW id \in Active(pr), Of(NamesOf(pr, ar), pr[id].name) = {}, Configured(pr),
         NEW qr, qr = Write(pr, id, Deleted)
  PROVE  Match(RemoveFromProvisioners(pc, id), ac, qr, ar)
<1>1. PICK d : d = RemoveFromProvisioners(pc, id)
  OBVIOUS
<1>2. id \in ProvIDs
  BY ActiveIs
<1>3. Active(qr) = Active(pr) \ {id} /\ \A x \in Active(pr) : x # id => qr[x] = pr[x]
  BY <1>2, ProvDeleted
<1>4. Loadable(pr, ar) /\ Unlike(pr) /\ ProvsOf(pc, pr) /\ (OwnKeys => KeysOf(pc, pr))
  BY LoadableUnlike DEF Match
<1>5. /\ ProvsOf(d, qr) /\ Unlike(qr) /\ (KeysOf(pc, pr) /\ UnlikeKeys(pr) => KeysOf(d, qr))
  BY <1>1, <1>4, ProvsRemoved
<1>6. OwnKeys => KeysOf(d, qr)
  BY <1>4, <1>5, KeysUnlike
<1>7. \A i \in Active(ar) : ar[i].prov # id
  BY DEF Of, NamesOf
<1>8. SameNames(pr, qr, ar)
  BY <1>3, <1>4, <1>7 DEF Loadable, SameNames
<1> QED
  BY <1>1, <1>5, <1>6, <1>8, MatchProvisioners

\* The parts of the next state.
LEMMA GoodStep ==
  ASSUME UNCHANGED work, Found(provs', provRows'), Configured(provRows'),
         \A p \in Procs : LocFound(loc'[p], provs', provRows'),
         boot' = "up" /\ ~ stale' =>
           /\ Match(provs', admins', provRows', adminRows')
           /\ \A p \in Procs : Looping(loc'[p], admins', provRows'),
         "reload" \notin work.faults =>
           /\ ~ stale' /\ Loadable(provRows', adminRows')
           /\ boot' = "CreateAdmin" => Active(adminRows') = {}
  PROVE  Good'
<1>1. Configured(provRows)'
  BY DEF Configured
<1>2. \A p \in Procs : LocFound(loc[p], provs, provRows)'
  BY DEF LocFound
<1>3. Match(provs', admins', provRows', adminRows') => Match(provs, admins, provRows, adminRows)'
  BY DEF Match, RolesKept, OwnKeys
<1> QED
  BY <1>1, <1>2, <1>3 DEF Good

LEMMA IdleFound ==
  ASSUME NEW l, l.pc \notin {"StoreAdmin", "UpdateProvisioner", "removeAdmin"}, NEW c, NEW pr
  PROVE  LocFound(l, c, pr) /\ Looping(l, c, pr)
  BY DEF LocFound, Looping

LEMMA GrownFound ==
  ASSUME NEW l, NEW c, NEW pr, NEW qr, LocFound(l, c, pr), l.pc # "removeAdmin", Grown(pr, qr), NEW d
  PROVE  LocFound(l, d, qr) /\ Looping(l, d, qr)
<1>1. l.pc = "StoreAdmin" => l.prov.id \in Active(qr) /\ qr[l.prov.id].name = l.prov.name
  BY DEF LocFound, Grown
<1>2. l.pc = "UpdateProvisioner" => l.nu.id \in Active(qr) /\ qr[l.nu.id].name = l.nu.name
  BY DEF LocFound, Grown
<1> QED
  BY <1>1, <1>2 DEF LocFound, Looping

LEMMA GrownSame == ASSUME NEW pr PROVE Grown(pr, pr)
  BY DEF Grown

\* While a provisioner is being removed no other request is on its way.
LEMMA Quiet ==
  ASSUME Typed, Orderly, NEW p \in Procs, loc[p].pc \in {"RemoveProvisioner", "removeAdmin"}, NEW q \in Procs, q # p
  PROVE  loc[q].pc = "idle"
  BY DEF Typed, Locs, Orderly

LEMMA NoLoop == ASSUME Typed, lock = None, NEW q \in Procs PROVE loc[q].pc # "removeAdmin"
  BY RowsDiffer DEF Typed, Locs

LEMMA GoodInit == ASSUME Init PROVE Good
<1>1. \A p \in Procs : loc[p] = Idle
  BY DEF Init
<1>2. \A p \in Procs : LocFound(loc[p], provs, provRows)
  BY <1>1, IdleOK, IdleFound
<1>3. Active(provRows) = {} /\ Active(adminRows) = {}
  BY DEF Init, Active
<1>4. DOMAIN provs.byName = {} /\ DOMAIN provs.byID = {}
  BY SMTT(60) DEF Init, NewProvisioners
<1>5. Found(provs, provRows) /\ Configured(provRows) /\ Loadable(provRows, adminRows)
  BY <1>3, <1>4 DEF Found, Configured, Loadable
<1> QED
  BY <1>2, <1>3, <1>5 DEF Good, Init

\* What the steps of requests have in common.
LEMMA GotoIs ==
  ASSUME Typed, NEW p \in Procs, NEW l, Goto(p, l)
  PROVE  loc'[p] = l /\ \A q \in Procs : q # p => loc'[q] = loc[q]
  BY DEF Typed, Locs, Goto

LEMMA GoodSame ==
  ASSUME Good, boot = "up", UNCHANGED <<work, provRows, adminRows, provs, admins, boot, stale>>,
         \A q \in Procs : \/ loc'[q] = loc[q]
                          \/ LocFound(loc'[q], provs, provRows) /\ (~ stale => Looping(loc'[q], admins, provRows))
  PROVE  Good'
<1>1. \A q \in Procs : LocFound(loc'[q], provs', provRows')
  BY DEF Good
<1>2. ~ stale => \A q \in Procs : Looping(loc'[q], admins', provRows')
  BY DEF Good
<1> QED
  BY <1>1, <1>2, GoodStep DEF Good

LEMMA GoodRefuse ==
  ASSUME Typed, Good, UNCHANGED <<work, boot>>, boot = "up", NEW p \in Procs, Refuse(p)
  PROVE  Good'
<1>1. UNCHANGED <<provRows, adminRows, provs, admins, stale>> /\ Goto(p, Idle)
  BY DEF Refuse
<1>2. loc'[p] = Idle /\ \A q \in Procs : q # p => loc'[q] = loc[q]
  BY <1>1, GotoIs
<1>3. LocFound(loc'[p], provs, provRows) /\ Looping(loc'[p], admins, provRows)
  BY <1>2, IdleOK, IdleFound
<1> QED
  BY <1>1, <1>2, <1>3, GoodSame

\* The other requests, while none is in the loop of RemoveProvisioner.
LEMMA OthersFound ==
  ASSUME Typed, Good, Grown(provRows, provRows'), NEW p \in Procs, NEW l,
         Goto(p, l), l.pc = "idle", \A q \in Procs : q # p => loc[q].pc # "removeAdmin",
         NEW c, NEW d, NEW q \in Procs
  PROVE  LocFound(loc'[q], c, provRows') /\ Looping(loc'[q], d, provRows')
<1>1. loc'[p] = l /\ \A r \in Procs : r # p => loc'[r] = loc[r]
  BY GotoIs
<1>2. CASE q = p
  BY <1>1, <1>2, IdleFound
<1>3. CASE q # p
  <2>1. LocFound(loc[q], provs, provRows) /\ loc[q].pc # "removeAdmin"
    BY <1>3 DEF Good
  <2> QED BY <1>1, <1>3, <2>1, GrownFound
<1> QED BY <1>2, <1>3

\* The same when no request moves.
LEMMA AllFound ==
  ASSUME Typed, Good, Grown(provRows, provRows'), lock = None, loc' = loc, NEW c, NEW d, NEW q \in Procs
  PROVE  LocFound(loc'[q], c, provRows') /\ Looping(loc'[q], d, provRows')
<1>1. LocFound(loc[q], provs, provRows) /\ loc[q].pc # "removeAdmin"
  BY NoLoop DEF Good
<1> QED BY <1>1, GrownFound

\* Requests about administrators.
LEMMA GoodCreateAdmin ==
  ASSUME Typed, Good, UNCHANGED work, NEW p \in Procs, NEW sub, NEW name, NEW type, CreateAdmin(p, sub, name, type)
  PROVE  Good'
<1>1. boot = "up" /\ UNCHANGED <<provRows, adminRows, provs, admins, boot, stale>>
  BY DEF CreateAdmin, Sent, At
<1>2. CASE name \in DOMAIN provs.byName
  <2>1. PICK l : l = [pc |-> "StoreAdmin", sub |-> sub, type |-> type, prov |-> provs.byName[name]]
    OBVIOUS
  <2>2. loc'[p] = l /\ \A q \in Procs : q # p => loc'[q] = loc[q]
    BY <1>2, <2>1, GotoIs DEF CreateAdmin
  <2>3. l.pc = "StoreAdmin" /\ l.prov = provs.byName[name]
    BY <2>1
  <2>4. provs.byName[name].id \in Active(provRows) /\ provRows[provs.byName[name].id].name = name
        /\ provs.byName[name].name = name
    BY <1>2 DEF Good, Found, Typed, Tables, ProvsTyped
  <2>5. LocFound(l, provs, provRows) /\ Looping(l, admins, provRows)
    BY <2>3, <2>4 DEF LocFound, Looping
  <2> QED BY <1>1, <2>2, <2>5, GoodSame
<1>3. CASE name \notin DOMAIN provs.byName
  <2>1. loc' = loc
    BY <1>3 DEF CreateAdmin
  <2> QED BY <1>1, <2>1, GoodSame
<1> QED BY <1>2, <1>3

\* Requests about provisioners.
LEMMA GoodStoreProvisioner ==
  ASSUME Typed, Orderly, Good, UNCHANGED work, NEW p \in Procs, NEW id \in ProvIDs, NEW c \in work.configs,
         StoreProvisioner(p, id, c)
  PROVE  Good'
<1>1. boot = "up" /\ lock = None /\ boot' = boot /\ provRows[id] = None
  BY DEF StoreProvisioner, Sent, At
<1>2. PICK nu : nu = Provisioner(id, c)
  OBVIOUS
<1>3. PICK ok \in Outcomes("db"), again \in Outcomes("init") :
        IF ok /\ CanStoreProvisioner(provs, nu)
        THEN /\ provRows' = [provRows EXCEPT ![id] = c]
             /\ provs' = IF again \/ c.client = None
                         THEN StoreInProvisioners(provs, nu) ELSE provs
             /\ UNCHANGED <<adminRows, admins, stale, loc>>
        ELSE Refuse(p)
  BY <1>2 DEF StoreProvisioner
<1>4. again
  BY DEF Orderly, Outcomes
<1>5. CASE ok /\ CanStoreProvisioner(provs, nu)
  <2>1. /\ provRows' = Write(provRows, id, c) /\ provs' = StoreInProvisioners(provs, nu)
        /\ adminRows' = adminRows /\ admins' = admins /\ stale' = stale /\ loc' = loc
    BY <1>3, <1>4, <1>5 DEF Write
  <2>2. provRows \in ProvTable /\ adminRows \in AdminTable /\ c \in Configs
    BY WorkIs DEF Typed, Tables
  <2>3. id \notin Active(provRows)
    BY <1>1 DEF Active
  <2>4. /\ Active(provRows') = Active(provRows) \cup {id} /\ provRows'[id] = c
        /\ \A x \in Active(provRows) : x # id => provRows'[x] = provRows[x]
    BY <2>1, <2>2, ProvWritten
  <2>5. Grown(provRows, provRows')
    BY <2>3, <2>4 DEF Grown
  <2>6. Configured(provRows')
    <3>1. Configured(provRows)
      BY DEF Good
    <3> QED BY <2>4, <3>1 DEF Configured
  <2>7. nu \in ProvRecs /\ nu.id = id /\ nu.name = c.name
    BY <1>2, <2>2, RecOfConfig
  <2>8. Found(provs', provRows')
    <3>1. Found(provs, provRows')
      BY <2>5, FoundGrown DEF Good
    <3> QED BY <2>1, <2>4, <2>7, <3>1, FoundStored
  <2>9. \A q \in Procs : LocFound(loc'[q], provs', provRows') /\ Looping(loc'[q], admins', provRows')
    BY <1>1, <2>1, <2>5, AllFound
  <2>10. Match(provs, admins, provRows, adminRows) => Match(provs', admins', provRows', adminRows')
    <3>1. SUFFICES ASSUME Match(provs, admins, provRows, adminRows)
                   PROVE  Match(provs', admins', provRows', adminRows')
      OBVIOUS
    <3> QED
      BY <1>1, <1>2, <1>5, <2>1, <2>2, <2>6, <3>1, MatchStoredProvisioner
  <2>11. ~ stale => Match(provs', admins', provRows', adminRows')
    BY <1>1, <2>10 DEF Good
  <2>12. "reload" \notin work.faults => ~ stale' /\ Loadable(provRows', adminRows')
    BY <2>1, <2>11 DEF Good, Match
  <2> QED
    BY <1>1, <2>1, <2>6, <2>8, <2>9, <2>11, <2>12, GoodStep
<1>6. CASE ~ (ok /\ CanStoreProvisioner(provs, nu))
  BY <1>1, <1>3, <1>6, GoodRefuse
<1> QED
  BY <1>5, <1>6

LEMMA GoodUpdateRequest ==
  ASSUME Typed, Orderly, Good, UNCHANGED work, NEW p \in Procs, NEW name, NEW c \in work.configs,
         UpdateProvisionerRequest(p, name, c)
  PROVE  Good'
<1>1. boot = "up" /\ UNCHANGED <<provRows, adminRows, provs, admins, boot, stale>> /\ c.name = name
  BY DEF UpdateProvisionerRequest, Sent, At, Orderly
<1>2. CASE name \in DOMAIN provs.byName /\ provs.byName[name].id \in Active(provRows)
  <2>1. PICK id, nu, l : /\ id = provs.byName[name].id /\ nu = Provisioner(id, c)
                         /\ l = [pc |-> "UpdateProvisioner", nu |-> nu]
    OBVIOUS
  <2>2. loc'[p] = l /\ \A q \in Procs : q # p => loc'[q] = loc[q]
    BY <1>2, <2>1, GotoIs DEF UpdateProvisionerRequest
  <2>3. l.pc = "UpdateProvisioner" /\ l.nu = nu
    BY <2>1
  <2>4. nu.id = id /\ nu.name = c.name /\ nu.kid = c.kid /\ nu.client = c.client
    BY <2>1 DEF Provisioner
  <2>5. c = [name |-> c.name, kid |-> c.kid, client |-> c.client]
    BY WorkIs, StoreAssumption DEF Typed
  <2>6. [name |-> nu.name, kid |-> nu.kid, client |-> nu.client] \in work.configs
    BY <2>4, <2>5
  <2>7. id \in Active(provRows) /\ provRows[id].name = name
    BY <1>2, <2>1 DEF Good, Found
  <2>8. LocFound(l, provs, provRows) /\ Looping(l, admins, provRows)
    <3>1. l.pc # "StoreAdmin" /\ l.pc # "removeAdmin"
      BY <2>3
    <3>2. /\ l.nu.id \in Active(provRows) /\ provRows[l.nu.id].name = l.nu.name
          /\ [name |-> l.nu.name, kid |-> l.nu.kid, client |-> l.nu.client] \in work.configs
      BY <1>1, <2>3, <2>4, <2>6, <2>7
    <3> QED BY <3>1, <3>2 DEF LocFound, Looping
  <2> QED BY <1>1, <2>2, <2>8, GoodSame
<1>3. CASE ~ (name \in DOMAIN provs.byName /\ provs.byName[name].id \in Active(provRows))
  <2>1. loc' = loc
    BY <1>3 DEF UpdateProvisionerRequest
  <2> QED BY <1>1, <2>1, GoodSame
<1> QED BY <1>2, <1>3

LEMMA GoodDelete ==
  ASSUME Typed, Good, UNCHANGED work, NEW p \in Procs, NEW name, DeleteProvisioner(p, name)
  PROVE  Good'
<1>1. boot = "up" /\ UNCHANGED <<provRows, adminRows, provs, admins, boot, stale>>
  BY DEF DeleteProvisioner, Sent, At
<1>2. CASE name \in DOMAIN provs.byName
  <2>1. PICK l : l = [pc |-> "RemoveProvisioner", id |-> provs.byName[name].id]
    OBVIOUS
  <2>2. loc'[p] = l /\ \A q \in Procs : q # p => loc'[q] = loc[q]
    BY <1>2, <2>1, GotoIs DEF DeleteProvisioner
  <2>3. LocFound(l, provs, provRows) /\ Looping(l, admins, provRows)
    BY <2>1, IdleFound
  <2> QED BY <1>1, <2>2, <2>3, GoodSame
<1>3. CASE name \notin DOMAIN provs.byName
  <2>1. loc' = loc
    BY <1>3 DEF DeleteProvisioner
  <2> QED BY <1>1, <2>1, GoodSame
<1> QED BY <1>2, <1>3

\* RemoveProvisioner: the first turn reads the first element.
LEMMA LeftFirst ==
  ASSUME NEW s, NEW S, Slice(s, S)
  PROVE  Left(1, s.len, s)
<1>1. s.len \in Nat /\ s.len <= Len(s.arr) /\ \A j, k \in 1 .. s.len : s.arr[j] = s.arr[k] => j = k
  BY DEF Slice, Lists
<1> QED
  BY <1>1, SMTT(60) DEF Left

\* Remove has moved the last element to a place that the loop has passed.
LEMMA LeftNext ==
  ASSUME NEW s, NEW S, Slice(s, S), NEW i, NEW n, Left(i, n, s), i <= n, NEW t, Shrunk(s, s.arr[i], t)
  PROVE  Left(i + 1, n, t)
<1>1. PICK k \in 1 .. s.len :
        s.arr[k] = s.arr[i] /\ t = [arr |-> [s.arr EXCEPT ![k] = s.arr[s.len]], len |-> s.len - 1]
  BY DEF Shrunk
<1>2. PICK a, m, b : a = s.arr /\ m = s.len /\ b = [a EXCEPT ![k] = a[m]]
  OBVIOUS
<1>3. /\ a \in Seq(AdminIDs) /\ m \in Nat /\ m <= Len(a)
      /\ \A j, h \in 1 .. m : a[j] = a[h] => j = h
  BY <1>2 DEF Slice, Lists
<1>4. /\ i \in Nat /\ n \in Nat /\ 1 <= i /\ n <= Len(a) /\ m = n + 1 - i
      /\ \A j, h \in i .. n : a[j] = a[h] => j = h
      /\ \A j \in i .. n : \E h \in 1 .. m : a[h] = a[j]
      /\ \A h \in 1 .. m : \E j \in i .. n : a[j] = a[h]
  <2>1. {a[h] : h \in i .. n} = {a[h] : h \in 1 .. m}
    BY <1>2 DEF Left
  <2>2. \A j \in i .. n : \E h \in 1 .. m : a[h] = a[j]
    BY <2>1, SMTT(60)
  <2>3. \A h \in 1 .. m : \E j \in i .. n : a[j] = a[h]
    BY <2>1, SMTT(60)
  <2> QED BY <1>2, <2>2, <2>3 DEF Left
<1>5. k \in 1 .. m /\ a[k] = a[i] /\ t.arr = b /\ t.len = m - 1
  BY <1>1, <1>2
<1>6. k <= i
  <2>1. SUFFICES ASSUME k > i PROVE FALSE
    BY <1>3, <1>4, <1>5, SMTT(60)
  <2>2. k \in i .. n /\ i \in i .. n
    BY <1>3, <1>4, <1>5, <2>1, SMTT(60)
  <2>3. k = i
    BY <1>4, <1>5, <2>2
  <2> QED BY <1>4, <2>1, <2>3, SMTT(60)
<1>7. b \in Seq(AdminIDs) /\ Len(b) = Len(a) /\ b[k] = a[m] /\ \A j \in 1 .. Len(a) : j # k => b[j] = a[j]
  <2>1. k \in 1 .. Len(a) /\ m \in 1 .. Len(a)
    BY <1>3, <1>5, SMTT(60)
  <2> QED BY <1>2, <1>3, <2>1, SMTT(60)
<1>8. \A j \in i + 1 .. n : b[j] = a[j] /\ j \in i .. n
  BY <1>4, <1>5, <1>6, <1>7, SMTT(60)
<1>9. \A j, h \in i + 1 .. n : b[j] = b[h] => j = h
  BY <1>4, <1>8
<1>10. \A j \in i + 1 .. n : \E h \in 1 .. m - 1 : b[h] = b[j]
  <2>1. SUFFICES ASSUME NEW j \in i + 1 .. n PROVE \E h \in 1 .. m - 1 : b[h] = b[j]
    OBVIOUS
  <2>2. PICK h \in 1 .. m : a[h] = a[j]
    BY <1>4, <1>8, <2>1
  <2>3. h # k
    <3>1. SUFFICES ASSUME h = k PROVE FALSE
      OBVIOUS
    <3>2. a[j] = a[i] /\ i \in i .. n /\ j \in i .. n /\ i # j
      BY <1>4, <1>5, <1>8, <2>1, <2>2, <3>1, SMTT(60)
    <3> QED BY <1>4, <3>2
  <2>4. CASE h = m
    <3>1. k \in 1 .. m - 1 /\ b[k] = a[j]
      BY <1>3, <1>5, <1>7, <2>2, <2>3, <2>4, SMTT(60)
    <3> QED BY <1>8, <2>1, <3>1
  <2>5. CASE h # m
    <3>1. h \in 1 .. m - 1 /\ h \in 1 .. Len(a)
      BY <1>3, <2>2, <2>5, SMTT(60)
    <3>2. b[h] = a[j]
      BY <1>7, <2>2, <2>3, <3>1
    <3> QED BY <1>8, <2>1, <3>1, <3>2
  <2> QED BY <2>4, <2>5
<1>11. \A h \in 1 .. m - 1 : \E j \in i + 1 .. n : b[j] = b[h]
  <2>1. SUFFICES ASSUME NEW h \in 1 .. m - 1 PROVE \E j \in i + 1 .. n : b[j] = b[h]
    OBVIOUS
  <2>2. PICK g \in 1 .. m : g # k /\ b[h] = a[g]
    <3>1. CASE h = k
      <4>1. m \in 1 .. m /\ m # k
        BY <1>3, <2>1, <3>1, SMTT(60)
      <4> QED BY <1>7, <3>1, <4>1
    <3>2. CASE h # k
      <4>1. h \in 1 .. m /\ h \in 1 .. Len(a)
        BY <1>3, <2>1, SMTT(60)
      <4> QED BY <1>7, <3>2, <4>1
    <3> QED BY <3>1, <3>2
  <2>3. PICK j \in i .. n : a[j] = a[g]
    BY <1>4, <2>2
  <2>4. j # i
    BY <1>3, <1>5, <2>2, <2>3
  <2>5. j \in i + 1 .. n
    BY <1>4, <2>3, <2>4, SMTT(60)
  <2> QED BY <1>8, <2>2, <2>3, <2>5
<1>12. {b[j] : j \in i + 1 .. n} = {b[h] : h \in 1 .. m - 1}
  BY <1>10, <1>11, SMTT(60)
<1>13. /\ i + 1 \in Nat /\ 1 <= i + 1 /\ i + 1 <= n + 1 /\ n <= Len(b) /\ m - 1 = n + 1 - (i + 1)
  BY <1>4, <1>7, SMTT(60)
<1>14. \A j, h \in i + 1 .. n : t.arr[j] = t.arr[h] => j = h
  BY <1>5, <1>9
<1>15. {t.arr[j] : j \in i + 1 .. n} = {t.arr[h] : h \in 1 .. t.len}
  BY <1>5, <1>12
<1>16. n <= Len(t.arr) /\ t.len = n + 1 - (i + 1) /\ n \in Nat
  BY <1>4, <1>5, <1>13
<1> QED
  BY <1>13, <1>14, <1>15, <1>16 DEF Left

\* After the last turn no administrator of the provisioner is left.
LEMMA LeftNone ==
  ASSUME NEW s, NEW S, Slice(s, S), NEW i, NEW n, Left(i, n, s), ~ (i <= n)
  PROVE  S = {}
<1>1. s.len = 0
  <2>1. i \in Nat /\ n \in Nat /\ i <= n + 1 /\ s.len = n + 1 - i
    BY DEF Left
  <2> QED BY <2>1, SMTT(60)
<1>2. S = {s.arr[k] : k \in 1 .. s.len}
  BY DEF Slice, Lists
<1> QED
  BY <1>1, <1>2, SMTT(60)

LEMMA SliceOf ==
  ASSUME NEW pc, NEW ac, NEW pr \in ProvTable, NEW ar, Match(pc, ac, pr, ar), NEW id \in Active(pr)
  PROVE  Slice(LoadByProvisioner(ac, pr[id].name), Of(NamesOf(pr, ar), pr[id].name))
<1>1. pr[id].name \in Names
  BY ActiveIs DEF Names
<1> QED
  BY <1>1 DEF Match, AdminsOf

LEMMA GoodRemoveProvisioner ==
  ASSUME Typed, Good, UNCHANGED work, NEW p \in Procs, RemoveProvisioner(p)
  PROVE  Good'
<1>1. boot = "up" /\ lock = None /\ boot' = boot
  BY DEF RemoveProvisioner, At
<1>2. PICK id : id = loc[p].id
  OBVIOUS
<1>3. CASE \/ id \notin DOMAIN provs.byID
           \/ admins.superCount = SuperCountByProvisioner(admins, provs.byID[id].name)
  <2>1. Refuse(p)
    BY <1>2, <1>3 DEF RemoveProvisioner
  <2> QED BY <1>1, <2>1, GoodRefuse
<1>4. CASE ~ (\/ id \notin DOMAIN provs.byID
              \/ admins.superCount = SuperCountByProvisioner(admins, provs.byID[id].name))
  <2>1. PICK s, l : /\ s = LoadByProvisioner(admins, provs.byID[id].name)
                    /\ l = [pc |-> "removeAdmin", id |-> id, i |-> 1, n |-> s.len]
    OBVIOUS
  <2>2. Goto(p, l) /\ UNCHANGED <<provRows, adminRows, provs, admins, stale>>
    BY <1>2, <1>4, <2>1 DEF RemoveProvisioner
  <2>3. loc'[p] = l /\ \A q \in Procs : q # p => loc'[q] = loc[q]
    BY <2>2, GotoIs
  <2>4. l.pc = "removeAdmin" /\ l.id = id /\ l.i = 1 /\ l.n = s.len
    BY <2>1
  <2>5. id \in DOMAIN provs.byID
    BY <1>4
  <2>6. id \in Active(provRows) /\ provs.byID[id].name = provRows[id].name /\ provRows \in ProvTable
    BY <2>5 DEF Good, Found, Typed, Tables
  <2>7. LocFound(l, provs, provRows)
    BY <2>4, <2>5 DEF LocFound
  <2>8. ASSUME ~ stale PROVE Looping(l, admins, provRows)
    <3>1. Match(provs, admins, provRows, adminRows)
      BY <1>1, <2>8 DEF Good
    <3>2. Slice(s, Of(NamesOf(provRows, adminRows), provRows[id].name))
      BY <2>1, <2>6, <3>1, SliceOf
    <3>3. Left(1, s.len, s)
      BY <3>2, LeftFirst
    <3> QED BY <2>1, <2>4, <2>6, <3>3 DEF Looping
  <2> QED BY <1>1, <2>2, <2>3, <2>7, <2>8, GoodSame
<1> QED
  BY <1>3, <1>4

LEMMA CoherenceStutter ==
  ASSUME CoherenceInv, UNCHANGED vars
  PROVE  CoherenceInv'
<1>1. /\ work' = work /\ provRows' = provRows /\ adminRows' = adminRows /\ provs' = provs
      /\ admins' = admins /\ boot' = boot /\ stale' = stale /\ loc' = loc
  BY DEF vars
<1>2. SUFFICES ASSUME Orderly, Good PROVE Good'
  BY <1>1 DEF CoherenceInv, Orderly
<1> QED
  BY <1>1, <1>2, GoodStep DEF Good

-----------------------------------------------------------------------------
(* What counts: finite sets of administrators.                              *)
INSTANCE FiniteSetTheorems

Supers(c) == {i \in DOMAIN c.byID : c.byID[i].type = "SUPER_ADMIN"}

\* Cached administrators have rows, and the counter counts the super ones that are
\* cached; the table may have more.
Counted(c, ar) ==
  /\ \A i \in DOMAIN c.byID : i \in Active(ar) /\ c.byID[i].type = ar[i].type
  /\ c.superCount = Cardinality(Supers(c))

SuperInv ==
  RolesKept /\ "crash at first start" \notin work.faults =>
    /\ Counted(admins, adminRows)
    /\ boot = "up" => Supers(admins) # {}
    /\ boot \in {"ReloadAdminResources", "up", "failed"} \/ (boot = "start" /\ Active(provRows) # {})
         => Super(adminRows) # {}

LEMMA FiniteAdmins == ASSUME NEW S, S \subseteq AdminIDs PROVE IsFiniteSet(S)
<1>1. IsFiniteSet(AdminIDs)
  BY StoreAssumption, FS_Interval, SMTT(60) DEF AdminIDs
<1> QED
  BY <1>1, FS_Subset

LEMMA SupersFinite ==
  ASSUME NEW c, NEW ar \in AdminTable, Counted(c, ar)
  PROVE  IsFiniteSet(Supers(c)) /\ Supers(c) \subseteq Super(ar)
<1>1. Supers(c) \subseteq Super(ar)
  BY DEF Supers, Super, Counted
<1>2. Supers(c) \subseteq AdminIDs
  BY <1>1, ActiveIs DEF Super
<1> QED
  BY <1>1, <1>2, FiniteAdmins

LEMMA StoreCounted ==
  ASSUME NEW c, AdminsRecord(c), NEW ar \in AdminTable, Counted(c, ar), NEW id \in AdminIDs,
         ar[id] = None, NEW adm \in Admin, NEW name
  PROVE  /\ Counted(StoreInAdmins(c, id, adm, name), Write(ar, id, adm))
         /\ Supers(c) \subseteq Supers(StoreInAdmins(c, id, adm, name))
         /\ Super(ar) \subseteq Super(Write(ar, id, adm))
<1>1. PICK d, br : d = StoreInAdmins(c, id, adm, name) /\ br = Write(ar, id, adm)
  OBVIOUS
<1>2. /\ d.byID = Add(c.byID, id, adm)
      /\ adm.type = "SUPER_ADMIN" => d.superCount = c.superCount + 1
      /\ adm.type # "SUPER_ADMIN" => d.superCount = c.superCount
  <2>1. StoredAs(c, id, adm, name, d)
    BY <1>1, StoreInAdminsIs
  <2> QED
    BY <2>1 DEF StoredAs
<1>3. /\ DOMAIN d.byID = DOMAIN c.byID \cup {id} /\ d.byID[id] = adm
      /\ \A x \in DOMAIN c.byID : x # id => d.byID[x] = c.byID[x]
  BY <1>2, SMTT(60) DEF Add
<1>4. id \notin Active(ar) /\ id \notin DOMAIN c.byID
  BY DEF Active, Counted
<1>5. /\ Active(br) = Active(ar) \cup {id} /\ br[id] = adm
      /\ \A x \in Active(ar) : x # id => br[x] = ar[x]
  BY <1>1, RowsDiffer, SMTT(60) DEF Active, AdminTable, Write
<1>6. Super(ar) \subseteq Super(br)
  BY <1>4, <1>5, SMTT(60) DEF Super
<1>7. Supers(d) = IF adm.type = "SUPER_ADMIN" THEN Supers(c) \cup {id} ELSE Supers(c)
  BY <1>3, <1>4 DEF Supers
<1>8. id \notin Supers(c)
  BY <1>4 DEF Supers
<1>9. d.superCount = Cardinality(Supers(d))
  <2>1. CASE adm.type = "SUPER_ADMIN"
    <3>1. d.superCount = c.superCount + 1
      BY <1>2, <2>1
    <3>2. Cardinality(Supers(c) \cup {id}) = Cardinality(Supers(c)) + 1
      BY <1>8, SupersFinite, FS_AddElement
    <3> QED
      BY <1>7, <2>1, <3>1, <3>2, SMTT(60) DEF Counted
  <2>2. CASE adm.type # "SUPER_ADMIN"
    BY <1>2, <1>7, <2>2 DEF Counted
  <2> QED BY <2>1, <2>2
<1>10. \A i \in DOMAIN d.byID : i \in Active(br) /\ d.byID[i].type = br[i].type
  BY <1>3, <1>4, <1>5 DEF Counted
<1> QED
  BY <1>1, <1>6, <1>7, <1>9, <1>10, SMTT(60) DEF Counted

\* After Collection.Remove the rest is counted, both before and after the row is
\* marked, and a super administrator is left.
LEMMA RemoveCounted ==
  ASSUME NEW c, AdminsRecord(c), NEW ar \in AdminTable, Counted(c, ar), Supers(c) # {},
         NEW pc, NEW id, CanRemoveAdmin(c, pc, id), NEW d, d = RemoveFromAdmins(c, pc, id)
  PROVE  /\ Counted(d, ar) /\ Counted(d, [ar EXCEPT ![id] = Deleted]) /\ Supers(d) # {}
         /\ Super([ar EXCEPT ![id] = Deleted]) # {}
<1>0. /\ d.byID = Drop(c.byID, id)
      /\ c.byID[id].type = "SUPER_ADMIN" => d.superCount = c.superCount + (-1)
      /\ c.byID[id].type # "SUPER_ADMIN" => d.superCount = c.superCount
  <2>1. RemovedAs(c, pc, id, d)
    BY RemoveFromAdminsIs
  <2> QED
    BY <2>1 DEF RemovedAs
<1>1. /\ DOMAIN d.byID = DOMAIN c.byID \ {id}
      /\ \A x \in DOMAIN c.byID : x # id => d.byID[x] = c.byID[x]
  BY <1>0, SMTT(60) DEF Drop
<1>2. id \in DOMAIN c.byID /\ id \in Active(ar) /\ id \in AdminIDs
  BY ActiveIs DEF CanRemoveAdmin, Counted
<1>3. PICK br : br = [ar EXCEPT ![id] = Deleted]
  OBVIOUS
<1>4. Active(br) = Active(ar) \ {id} /\ \A x \in Active(ar) : x # id => br[x] = ar[x]
  BY <1>2, <1>3 DEF Active, AdminTable
<1>5. Supers(d) = Supers(c) \ {id}
  BY <1>1 DEF Supers
<1>6. Cardinality(Supers(c)) \in Nat /\ IsFiniteSet(Supers(c))
  BY SupersFinite, FS_CardinalityType, SMTT(60)
<1>7. d.superCount = Cardinality(Supers(d)) /\ Supers(d) # {}
  <2>1. CASE c.byID[id].type = "SUPER_ADMIN"
    <3>1. id \in Supers(c)
      BY <1>2, <2>1 DEF Supers
    <3>2. Cardinality(Supers(d)) = Cardinality(Supers(c)) - 1
      BY <1>5, <1>6, <3>1, FS_RemoveElement
    <3>3. d.superCount = c.superCount + (-1)
      BY <1>0, <2>1, SMTT(60)
    <3>4. d.superCount = Cardinality(Supers(d))
      BY <1>6, <3>2, <3>3 DEF Counted
    <3>5. Supers(d) # {}
      <4>1. c.superCount # 1
        BY <2>1 DEF CanRemoveAdmin
      <4>2. Cardinality({}) = 0
        BY FS_EmptySet
      <4>3. Cardinality(Supers(d)) # 0
        BY <1>6, <3>2, <4>1, SMTT(60) DEF Counted
      <4> QED
        BY <4>2, <4>3
    <3> QED BY <3>4, <3>5
  <2>2. CASE c.byID[id].type # "SUPER_ADMIN"
    <3>1. Supers(d) = Supers(c)
      BY <1>5, <2>2 DEF Supers
    <3>2. d.superCount = c.superCount
      BY <1>0, <2>2
    <3> QED
      BY <3>1, <3>2 DEF Counted
  <2> QED BY <2>1, <2>2
<1>8. /\ \A i \in DOMAIN d.byID : i \in Active(ar) /\ d.byID[i].type = ar[i].type
      /\ \A i \in DOMAIN d.byID : i \in Active(br) /\ d.byID[i].type = br[i].type
  BY <1>1, <1>4, SMTT(60) DEF Counted
<1>9. Counted(d, ar) /\ Counted(d, br)
  BY <1>7, <1>8 DEF Counted
<1>10. Super(br) # {}
  BY <1>7, <1>8, SMTT(60) DEF Super, Supers
<1> QED
  BY <1>3, <1>7, <1>9, <1>10

LEMMA LoadCounted ==
  ASSUME NEW pr, NEW ar, NEW d, d = LoadAdmins(pr, ar)
  PROVE  Counted(d, ar) /\ Supers(d) = Super(ar)
<1>1. d.byID = [i \in Active(ar) |-> ar[i]]
  BY DEF LoadAdmins
<1>2. d.superCount = Cardinality(Super(ar))
  BY DEF LoadAdmins, Super
<1>3. Supers(d) = Super(ar)
  BY <1>1, SMTT(60) DEF Supers, Super
<1> QED
  BY <1>1, <1>2, <1>3 DEF Counted

\* What an authority that is up keeps.
Remaining == Counted(admins, adminRows) /\ Supers(admins) # {} /\ Super(adminRows) # {}

LEMMA RemainingSame == ASSUME Remaining, UNCHANGED <<admins, adminRows>> PROVE Remaining'
  BY DEF Remaining

LEMMA RemainingReload ==
  ASSUME Remaining, NEW cp, NEW ca, Counted(ca, adminRows), Supers(ca) # {},
         UNCHANGED adminRows, ReloadAdminResources(cp, ca)
  PROVE  Remaining'
<1>1. PICK ok \in Outcomes("reload") :
        IF ok /\ Loadable(provRows, adminRows)
        THEN provs' = LoadProvisioners(provRows) /\ admins' = LoadAdmins(provRows, adminRows) /\ stale' = FALSE
        ELSE provs' = cp /\ admins' = ca /\ stale' = TRUE
  BY DEF ReloadAdminResources
<1>2. CASE ok /\ Loadable(provRows, adminRows)
  BY <1>1, <1>2, LoadCounted DEF Remaining
<1>3. CASE ~ (ok /\ Loadable(provRows, adminRows))
  BY <1>1, <1>3 DEF Remaining
<1> QED
  BY <1>2, <1>3

LEMMA RemainingRemoval ==
  ASSUME Tables, Remaining, NEW id, NEW ACTION A, NEW ACTION B,
         CanRemoveAdmin(admins, provs, id), removeAdmin(id, A, B)
  PROVE  Remaining'
<1>1. PICK nu, br : nu = RemoveFromAdmins(admins, provs, id) /\ br = [adminRows EXCEPT ![id] = Deleted]
  OBVIOUS
<1>2. \/ adminRows' = br /\ admins' = nu
      \/ ReloadAdminResources(provs, nu) /\ UNCHANGED adminRows
  BY <1>1 DEF removeAdmin
<1>3. Counted(nu, adminRows) /\ Counted(nu, br) /\ Supers(nu) # {} /\ Super(br) # {}
  BY <1>1, RemoveCounted DEF Tables, Remaining
<1>4. CASE adminRows' = br /\ admins' = nu
  BY <1>3, <1>4 DEF Remaining
<1>5. CASE ReloadAdminResources(provs, nu) /\ UNCHANGED adminRows
  BY <1>3, <1>5, RemainingReload
<1> QED
  BY <1>2, <1>4, <1>5

LEMMA SuperAdminRequest ==
  ASSUME Typed, RolesKept, Remaining, NEW p \in Procs, AdminRequest(p)
  PROVE  Remaining'
<1>1. ASSUME NEW sub, NEW name, NEW type, CreateAdmin(p, sub, name, type) PROVE Remaining'
  BY <1>1, RemainingSame DEF CreateAdmin
<1>2. ASSUME NEW id \in 1 .. work.rows, StoreAdmin(p, id) PROVE Remaining'
  <2>1. PICK l, adm : l = loc[p] /\ adm = [sub |-> l.sub, prov |-> l.prov.id, type |-> l.type]
    OBVIOUS
  <2>2. CASE Refuse(p)
    BY <2>2, RemainingSame DEF Refuse
  <2>3. CASE /\ adminRows' = [adminRows EXCEPT ![id] = adm]
             /\ admins' = StoreInAdmins(admins, id, adm, l.prov.name)
    <3>1. l.sub \in Subjects /\ l.type \in Types /\ l.prov.id \in ProvIDs /\ id \in AdminIDs
      BY <1>2, <2>1, ProvRecIs, WorkIs DEF StoreAdmin, At, Typed, Locs, LocOK
    <3>2. adm \in Admin /\ adminRows[id] = None
      BY <1>2, <2>1, <3>1 DEF Admin, StoreAdmin
    <3>3. Counted(admins', adminRows') /\ Supers(admins) \subseteq Supers(admins')
          /\ Super(adminRows) \subseteq Super(adminRows')
      <4>1. AdminsRecord(admins) /\ adminRows \in AdminTable /\ Counted(admins, adminRows)
        BY DEF Typed, Tables, Remaining
      <4>2. admins' = StoreInAdmins(admins, id, adm, l.prov.name) /\ adminRows' = Write(adminRows, id, adm)
        BY <2>3 DEF Write
      <4> QED
        BY <3>1, <3>2, <4>1, <4>2, StoreCounted
    <3> QED
      BY <3>3 DEF Remaining
  <2> QED
    BY <1>2, <2>1, <2>2, <2>3 DEF StoreAdmin
<1>3. ASSUME NEW id, NEW type, UpdateAdmin(p, id, type) PROVE FALSE
  BY <1>3 DEF UpdateAdmin, Sent, RolesKept
<1>4. ASSUME NEW id, RemoveAdmin(p, id) PROVE Remaining'
  <2>1. CASE Refuse(p)
    BY <2>1, RemainingSame DEF Refuse
  <2>2. CASE CanRemoveAdmin(admins, provs, id) /\ removeAdmin(id, UNCHANGED loc, UNCHANGED loc)
    BY <2>2, RemainingRemoval DEF Typed
  <2> QED BY <1>4, <2>1, <2>2 DEF RemoveAdmin
<1> QED
  BY <1>1, <1>2, <1>3, <1>4 DEF AdminRequest

LEMMA SuperProvisionerRequest ==
  ASSUME Typed, Remaining, NEW p \in Procs, ProvisionerRequest(p)
  PROVE  Remaining'
<1>1. CASE UNCHANGED <<admins, adminRows>>
  BY <1>1, RemainingSame
<1>2. ASSUME NEW cp, ReloadAdminResources(cp, admins), UNCHANGED adminRows PROVE Remaining'
  BY <1>2, RemainingReload DEF Remaining
<1>3. CASE \/ \E id \in ProvIDs, c \in work.configs : StoreProvisioner(p, id, c)
           \/ \E name \in Names, c \in work.configs : UpdateProvisionerRequest(p, name, c)
           \/ \E name \in Names : DeleteProvisioner(p, name)
           \/ RemoveProvisioner(p)
  BY <1>1, <1>3 DEF StoreProvisioner, UpdateProvisionerRequest, DeleteProvisioner, RemoveProvisioner, Refuse
<1>4. CASE UpdateProvisioner(p)
  BY <1>1, <1>2, <1>4 DEF UpdateProvisioner, Refuse
<1>5. CASE DeleteProvisionerRow(p)
  BY <1>1, <1>2, <1>5 DEF DeleteProvisionerRow
<1>6. CASE RemoveAdminOfProvisioner(p)
  <2>1. PICK adm : adm = admins.byProv[provs.byID[loc[p].id].name].arr[loc[p].i]
    OBVIOUS
  <2>2. CASE CanRemoveAdmin(admins, provs, adm)
    BY <1>6, <2>1, <2>2, RemainingRemoval DEF RemoveAdminOfProvisioner, Typed
  <2>3. CASE ~ CanRemoveAdmin(admins, provs, adm)
    BY <1>1, <1>6, <2>1, <2>3 DEF RemoveAdminOfProvisioner, Refuse
  <2> QED BY <2>2, <2>3
<1> QED
  BY <1>3, <1>4, <1>5, <1>6 DEF ProvisionerRequest

LEMMA NewCounted == ASSUME NEW ar PROVE Counted(NewAdmins, ar)
<1>1. DOMAIN NewAdmins.byID = {} /\ NewAdmins.superCount = 0
  BY SMTT(60) DEF NewAdmins
<1>2. Supers(NewAdmins) = {}
  BY <1>1 DEF Supers
<1> QED
  BY <1>1, <1>2, FS_EmptySet DEF Counted

LEMMA SuperInit == ASSUME Init PROVE SuperInv
<1>1. Counted(NewAdmins, adminRows)
  BY NewCounted
<1>2. Active(provRows) = {}
  BY DEF Init, Active
<1> QED
  BY <1>1, <1>2 DEF Init, SuperInv

LEMMA SuperNext == ASSUME Typed, SuperInv, Next PROVE SuperInv'
<1> SUFFICES ASSUME RolesKept, "crash at first start" \notin work.faults, work' = work PROVE SuperInv'
  BY DEF SuperInv, Next, RolesKept
<1>1. /\ Counted(admins, adminRows)
      /\ boot = "up" => Remaining
      /\ boot \in {"ReloadAdminResources", "up", "failed"} \/ (boot = "start" /\ Active(provRows) # {})
           => Super(adminRows) # {}
  BY DEF SuperInv, Remaining
<1>2. ASSUME boot' = "up", Remaining' PROVE SuperInv'
  BY <1>2 DEF SuperInv, Remaining
<1>3. ASSUME NEW id \in ProvIDs, CreateFirstProvisioner(id) PROVE SuperInv'
  BY <1>1, <1>3 DEF CreateFirstProvisioner, SuperInv
<1>4. ASSUME NEW id \in 1 .. work.rows, NEW prov \in ProvIDs, CreateFirstAdmin(id, prov) PROVE SuperInv'
  <2>0. id \in AdminIDs /\ FirstSubject \in Subjects
    BY WorkIs, StoreAssumption DEF Typed
  <2>1. PICK adm : adm = [sub |-> FirstSubject, prov |-> prov, type |-> "SUPER_ADMIN"]
    OBVIOUS
  <2>2. adm \in Admin /\ adm.type = "SUPER_ADMIN" /\ adminRows' = [adminRows EXCEPT ![id] = adm]
        /\ adminRows[id] = None /\ adminRows \in AdminTable /\ boot' = "ReloadAdminResources" /\ admins' = admins
    BY <1>4, <2>0, <2>1 DEF Admin, Types, CreateFirstAdmin, Typed, Tables
  <2>3. /\ Active(adminRows') = Active(adminRows) \cup {id} /\ adminRows'[id] = adm
        /\ \A x \in Active(adminRows) : x # id => adminRows'[x] = adminRows[x]
        /\ id \notin Active(adminRows)
    BY <2>0, <2>2, RowsDiffer DEF Active, AdminTable
  <2>4. id \in Super(adminRows')
    BY <2>2, <2>3 DEF Super
  <2>5. Counted(admins', adminRows')
    BY <1>1, <2>2, <2>3 DEF Counted
  <2> QED
    BY <2>2, <2>4, <2>5 DEF SuperInv
<1>5. ASSUME Load PROVE SuperInv'
  <2>1. Super(adminRows) # {} /\ adminRows' = adminRows
    BY <1>1, <1>5 DEF Load
  <2>2. CASE Loadable(provRows, adminRows)
    <3>1. admins' = LoadAdmins(provRows, adminRows) /\ boot' = "up"
      BY <1>5, <2>2 DEF Load
    <3> QED
      BY <1>2, <2>1, <3>1, LoadCounted DEF Remaining
  <2>3. CASE ~ Loadable(provRows, adminRows)
    BY <1>1, <1>5, <2>1, <2>3 DEF Load, SuperInv
  <2> QED BY <2>2, <2>3
<1>6. ASSUME Crash PROVE SuperInv'
  <2>1. boot # "CreateAdmin" /\ boot' = "start" /\ admins' = NewAdmins
        /\ adminRows' = adminRows /\ provRows' = provRows
    BY <1>6 DEF Crash
  <2>2. boot = "start" \/ boot \in {"ReloadAdminResources", "up", "failed"}
    BY <2>1 DEF Typed
  <2>3. Active(provRows) # {} => Super(adminRows) # {}
    BY <1>1, <2>2
  <2>4. Counted(NewAdmins, adminRows)
    BY NewCounted
  <2> QED
    BY <2>1, <2>3, <2>4 DEF SuperInv
<1>7. ASSUME NEW p \in work.procs, AdminRequest(p) \/ ProvisionerRequest(p) PROVE SuperInv'
  <2>1. p \in Procs
    BY WorkIs DEF Typed
  <2>2. boot = "up" /\ boot' = "up"
    <3>1. CASE AdminRequest(p)
      BY <3>1 DEF AdminRequest, CreateAdmin, StoreAdmin, UpdateAdmin, RemoveAdmin, Sent, At
    <3>2. CASE ProvisionerRequest(p)
      <4>1. lock = p => boot = "up"
        BY <2>1, RowsDiffer DEF Typed, Locs
      <4> QED
        BY <3>2, <4>1 DEF ProvisionerRequest, StoreProvisioner, UpdateProvisionerRequest, DeleteProvisioner,
           UpdateProvisioner, RemoveProvisioner, RemoveAdminOfProvisioner, DeleteProvisionerRow, Sent, At
    <3> QED BY <1>7, <3>1, <3>2
  <2> QED
    BY <1>1, <1>2, <1>7, <2>1, <2>2, SuperAdminRequest, SuperProvisionerRequest
<1> QED
  BY <1>3, <1>4, <1>5, <1>6, <1>7 DEF Next

\* SuperAdminRemains: while no role is changed the database of an authority that is
\* up has a super administrator, between any two deletions of RemoveProvisioner,
\* after a crash and with collections that lag behind the tables (RemoveAdmin,
\* RemoveProvisioner, Collection.Remove).
THEOREM SuperAdminAlwaysRemains == Spec => []SuperAdminRemains
<1>1. Init => Typed /\ SuperInv
  BY TypedInit, SuperInit
<1>2. Typed /\ SuperInv /\ [Next]_vars => Typed' /\ SuperInv'
  <2>1. ASSUME SuperInv, UNCHANGED vars PROVE SuperInv'
    BY <2>1 DEF SuperInv, vars, RolesKept
  <2> QED
    BY <2>1, TypedNext, TypedStutter, SuperNext
<1>3. SuperInv => SuperAdminRemains
  BY DEF SuperInv, SuperAdminRemains, LastSuperAdminKept, Super
<1> QED
  BY <1>1, <1>2, <1>3, PTL DEF Spec

-----------------------------------------------------------------------------
(* The collections are the tables.                                          *)

LEMMA SliceLoaded ==
  ASSUME NEW S, S \subseteq AdminIDs, NEW l,
         l = [arr |-> CHOOSE a \in Bijection(1 .. Cardinality(S), S) : TRUE, len |-> Cardinality(S)]
  PROVE  Slice(l, S)
<1>1. PICK n : n = Cardinality(S)
  OBVIOUS
<1>2. IsFiniteSet(S)
  BY FiniteAdmins
<1>3. n \in Nat
  BY <1>1, <1>2, FS_CardinalityType
<1>4. \E a : a \in Bijection(1 .. n, S)
  <2>1. ExistsBijection(1 .. n, S)
    BY <1>1, <1>2, FS_NatBijection, FS_CountingElements
  <2> QED
    BY <2>1 DEF ExistsBijection
<1>5. PICK a : a = CHOOSE x \in Bijection(1 .. n, S) : TRUE
  OBVIOUS
<1>6. a \in Bijection(1 .. n, S)
  BY <1>4, <1>5
<1>7. /\ a \in [1 .. n -> S]
      /\ \A j, k \in 1 .. n : a[j] = a[k] => j = k
      /\ \A s \in S : \E k \in 1 .. n : a[k] = s
  BY <1>6 DEF Bijection, Injection, Surjection, IsInjective
<1>8. a \in Seq(AdminIDs) /\ Len(a) = n
  BY <1>3, <1>7, SMTT(60)
<1>9. {a[k] : k \in 1 .. n} = S
  BY <1>7, SMTT(60)
<1>10. Lists(a, n, S)
  BY <1>3, <1>7, <1>8, <1>9, SMTT(60) DEF Lists
<1>11. l = [arr |-> a, len |-> n]
  BY <1>1, <1>5
<1>12. l.arr = a /\ l.len = n
  BY <1>11, SMTT(60)
<1> QED
  BY <1>10, <1>12 DEF Slice

\* Collection.Store of an administrator.
LEMMA AdminsStored ==
  ASSUME NEW c, AdminsRecord(c), NEW ar \in AdminTable, NEW N \in [Active(ar) -> Names],
         AdminsOf(c, ar, N), NEW id \in AdminIDs, ar[id] = None, NEW adm \in Admin,
         NEW name \in Names, <<adm.sub, name>> \notin DOMAIN c.bySubProv,
         NEW d, d = StoreInAdmins(c, id, adm, name), NEW br, br = Write(ar, id, adm),
         NEW M, M = Add(N, id, name)
  PROVE  AdminsOf(d, br, M) /\ (CountsOf(c, ar, N) => CountsOf(d, br, M))
<1>1. PICK l, sp, v : /\ l = LoadByProvisioner(c, name) /\ sp = <<adm.sub, name>>
                      /\ v = [arr |-> Append(SubSeq(l.arr, 1, l.len), id), len |-> l.len + 1]
  OBVIOUS
<1>2. /\ d.byID = Add(c.byID, id, adm) /\ d.bySubProv = Add(c.bySubProv, sp, id)
      /\ d.byProv = Add(c.byProv, name, v)
      /\ adm.type = "SUPER_ADMIN" =>
           /\ d.superCount = c.superCount + 1
           /\ d.superCountByProvisioner =
                Add(c.superCountByProvisioner, name, SuperCountByProvisioner(c, name) + 1)
      /\ adm.type # "SUPER_ADMIN" =>
           /\ d.superCount = c.superCount
           /\ d.superCountByProvisioner = c.superCountByProvisioner
  <2>1. StoredAs(c, id, adm, name, d)
    BY StoreInAdminsIs
  <2> QED
    BY <1>1, <2>1 DEF StoredAs
<1>0. /\ DOMAIN d.bySubProv = DOMAIN c.bySubProv \cup {sp} /\ d.bySubProv[sp] = id
      /\ \A x \in DOMAIN c.bySubProv : x # sp => d.bySubProv[x] = c.bySubProv[x]
      /\ DOMAIN d.byProv = DOMAIN c.byProv \cup {name} /\ d.byProv[name] = v
      /\ \A x \in DOMAIN c.byProv : x # name => d.byProv[x] = c.byProv[x]
  BY <1>2 DEF Add
<1>3. /\ Active(br) = Active(ar) \cup {id} /\ br[id] = adm
      /\ \A x \in Active(ar) : x # id => br[x] = ar[x]
      /\ id \notin Active(ar)
  <2>1. id \notin Active(ar)
    BY DEF Active
  <2> QED
    BY <2>1, RowWritten, SMTT(60)
<1>4. DOMAIN M = Active(br) /\ M[id] = name /\ \A x \in Active(ar) : M[x] = N[x]
  BY <1>3 DEF Add
<1>5. d.byID = [i \in Active(br) |-> br[i]]
  BY <1>2, <1>3, SMTT(60) DEF AdminsOf, Add
<1>6. /\ d.bySubProv \in [{<<br[i].sub, M[i]>> : i \in Active(br)} -> AdminIDs]
      /\ \A i \in Active(br) : d.bySubProv[<<br[i].sub, M[i]>>] = i
  <2>1. PICK S : S = {<<ar[i].sub, N[i]>> : i \in Active(ar)}
    OBVIOUS
  <2>2. {<<br[i].sub, M[i]>> : i \in Active(br)} = S \cup {sp}
    <3> DEFINE P(i) == <<br[i].sub, M[i]>>
               Q(i) == <<ar[i].sub, N[i]>>
    <3>1. P(id) = sp /\ \A i \in Active(ar) : P(i) = Q(i)
      BY <1>1, <1>3, <1>4
    <3>2. S = {Q(i) : i \in Active(ar)}
      BY <2>1
    <3> HIDE DEF P, Q
    <3>3. {P(i) : i \in Active(br)} = S \cup {sp}
      BY <1>3, <3>1, <3>2, SMTT(60)
    <3> QED
      BY <3>3 DEF P
  <2>3. c.bySubProv \in [S -> AdminIDs]
    BY <2>1 DEF AdminsOf
  <2>4. d.bySubProv \in [S \cup {sp} -> AdminIDs]
    BY <1>2, <2>3 DEF Add
  <2>5. ASSUME NEW i \in Active(br) PROVE d.bySubProv[<<br[i].sub, M[i]>>] = i
    <3>1. CASE i = id
      BY <1>0, <1>1, <1>3, <1>4, <3>1
    <3>2. CASE i # id
      <4>1. i \in Active(ar) /\ <<br[i].sub, M[i]>> = <<ar[i].sub, N[i]>>
        BY <1>3, <1>4, <3>2
      <4>2. PICK x : x = <<ar[i].sub, N[i]>>
        OBVIOUS
      <4>3. x \in S /\ c.bySubProv[x] = i /\ x # sp
        BY <1>1, <2>1, <2>3, <4>1, <4>2, SMTT(60) DEF AdminsOf
      <4>4. d.bySubProv[x] = c.bySubProv[x]
        BY <1>0, <2>3, <4>3
      <4> QED BY <4>1, <4>2, <4>3, <4>4
    <3> QED BY <3>1, <3>2
  <2> QED
    BY <2>2, <2>4, <2>5
<1>7. /\ Of(M, name) = Of(N, name) \cup {id} /\ id \notin Of(N, name)
      /\ \A n \in Names : n # name => Of(M, n) = Of(N, n)
  BY <1>3, <1>4 DEF Of
<1>8. ASSUME NEW n \in Names PROVE Slice(LoadByProvisioner(d, n), Of(M, n))
  <2>1. CASE n = name
    <3>1. LoadByProvisioner(d, name) = v
      BY <1>0 DEF LoadByProvisioner
    <3>2. Slice(v, Of(N, name) \cup {id})
      BY <1>1, <1>7, SliceAppend DEF AdminsOf
    <3> QED BY <1>7, <2>1, <3>1, <3>2
  <2>2. CASE n # name
    <3>1. LoadByProvisioner(d, n) = LoadByProvisioner(c, n)
      BY <1>0, <2>2 DEF LoadByProvisioner
    <3> QED BY <1>7, <2>2, <3>1 DEF AdminsOf
  <2> QED BY <2>1, <2>2
<1>9. AdminsOf(d, br, M)
  BY <1>5, <1>6, <1>8 DEF AdminsOf
<1>10. ASSUME CountsOf(c, ar, N) PROVE CountsOf(d, br, M)
  <2>0. \A T : T \subseteq Super(ar) => IsFiniteSet(T) /\ Cardinality(T) \in Nat
    BY ActiveIs, FiniteAdmins, FS_CardinalityType DEF Super
  <2>1. CASE adm.type = "SUPER_ADMIN"
    <3>1. Super(br) = Super(ar) \cup {id} /\ id \notin Super(ar)
      BY <1>3, <2>1 DEF Super
    <3>2. Cardinality(Super(br)) = Cardinality(Super(ar)) + 1
      BY <2>0, <3>1, FS_AddElement
    <3>4. /\ d.superCountByProvisioner[name] = SuperCountByProvisioner(c, name) + 1
          /\ DOMAIN d.superCountByProvisioner = DOMAIN c.superCountByProvisioner \cup {name}
          /\ \A x \in DOMAIN c.superCountByProvisioner :
               x # name => d.superCountByProvisioner[x] = c.superCountByProvisioner[x]
      BY <1>2, <2>1 DEF Add
    <3>3. ASSUME NEW n \in Names PROVE SuperCountByProvisioner(d, n) = Cardinality(Super(br) \cap Of(M, n))
      <4>1. CASE n = name
        <5>1. Super(br) \cap Of(M, n) = (Super(ar) \cap Of(N, n)) \cup {id}
          BY <1>7, <3>1, <4>1
        <5>2. Cardinality(Super(br) \cap Of(M, n)) = Cardinality(Super(ar) \cap Of(N, n)) + 1
          BY <2>0, <3>1, <5>1, FS_AddElement
        <5>3. SuperCountByProvisioner(d, n) = SuperCountByProvisioner(c, n) + 1
          BY <3>4, <4>1 DEF SuperCountByProvisioner
        <5> QED BY <1>10, <5>2, <5>3 DEF CountsOf
      <4>2. CASE n # name
        <5>1. Super(br) \cap Of(M, n) = Super(ar) \cap Of(N, n)
          BY <1>3, <1>7, <3>1, <4>2, SMTT(60) DEF Of
        <5>2. SuperCountByProvisioner(d, n) = SuperCountByProvisioner(c, n)
          BY <3>4, <4>2 DEF SuperCountByProvisioner
        <5> QED BY <1>10, <5>1, <5>2 DEF CountsOf
      <4> QED BY <4>1, <4>2
    <3> QED
      BY <1>2, <1>10, <2>1, <3>2, <3>3 DEF CountsOf
  <2>2. CASE adm.type # "SUPER_ADMIN"
    <3>1. Super(br) = Super(ar) /\ id \notin Super(ar)
      BY <1>3, <2>2 DEF Super
    <3>2. \A n \in Names : SuperCountByProvisioner(d, n) = SuperCountByProvisioner(c, n)
      BY <1>2, <2>2 DEF SuperCountByProvisioner
    <3>3. \A n \in Names : Super(ar) \cap Of(M, n) = Super(ar) \cap Of(N, n)
      BY <1>7, <3>1
    <3> QED
      BY <1>2, <1>10, <2>2, <3>1, <3>2, <3>3 DEF CountsOf
  <2> QED BY <2>1, <2>2, SMTT(60)
<1> QED
  BY <1>9, <1>10

\* Collection.Remove of an administrator whose provisioner has the name name.
LEMMA AdminsRemoved ==
  ASSUME NEW c, AdminsRecord(c), NEW ar \in AdminTable, NEW N \in [Active(ar) -> Names],
         AdminsOf(c, ar, N), NEW id \in Active(ar), NEW pc, ProvName(c, pc, id) = N[id], Alone(ar, N, id),
         NEW d, d = RemoveFromAdmins(c, pc, id)
  PROVE  /\ AdminsOf(d, Write(ar, id, Deleted), Drop(N, id))
         /\ CountsOf(c, ar, N) => CountsOf(d, Write(ar, id, Deleted), Drop(N, id))
         /\ Shrunk(LoadByProvisioner(c, N[id]), id, LoadByProvisioner(d, N[id]))
<1>0. PICK br, M, name, l : /\ br = Write(ar, id, Deleted) /\ M = Drop(N, id) /\ name = N[id]
                            /\ l = LoadByProvisioner(c, name)
  OBVIOUS
<1>1. PICK adm, sp : adm = ar[id] /\ sp = <<adm.sub, name>>
  OBVIOUS
<1>2. c.byID[id] = adm /\ id \in AdminIDs /\ name \in Names
  BY <1>0, <1>1, ActiveIs DEF AdminsOf
<1>3. Slice(l, Of(N, name)) /\ id \in Of(N, name)
  <2>1. Slice(l, Of(N, name))
    BY <1>0, <1>2 DEF AdminsOf
  <2> QED
    BY <1>0, <2>1 DEF Of
<1>4. \E i \in 1 .. l.len : l.arr[i] = id
  BY <1>3 DEF Slice, Lists
<1>5. name \in DOMAIN c.byProv /\ l = c.byProv[name]
  <2>1. CASE name \notin DOMAIN c.byProv
    <3>1. l = [arr |-> <<>>, len |-> 0]
      BY <1>0, <2>1 DEF LoadByProvisioner
    <3>2. l.len = 0
      BY <3>1
    <3>3. 1 .. l.len = {}
      BY <3>2, SMTT(60)
    <3> QED BY <1>4, <3>3
  <2> QED BY <1>0, <2>1 DEF LoadByProvisioner
<1> DEFINE nm == pc.byID[c.byID[id].prov].name
           ll == c.byProv[nm]
           k == CHOOSE i \in 1 .. ll.len : ll.arr[i] = id
           v == [arr |-> [ll.arr EXCEPT ![k] = ll.arr[ll.len]], len |-> ll.len - 1]
<1>6. nm = name /\ ll = l
  BY <1>0, <1>5 DEF ProvName
<1>7. k \in 1 .. l.len /\ l.arr[k] = id
  <2>1. \E i \in 1 .. ll.len : ll.arr[i] = id
    BY <1>4, <1>6
  <2>2. k \in 1 .. ll.len /\ ll.arr[k] = id
    BY <2>1
  <2> QED
    BY <1>6, <2>2
<1>9. /\ d.byID = Drop(c.byID, id) /\ d.bySubProv = Drop(c.bySubProv, sp)
      /\ d.byProv = [c.byProv EXCEPT ![name] = v]
      /\ adm.type = "SUPER_ADMIN" =>
           /\ d.superCount = c.superCount + (-1)
           /\ d.superCountByProvisioner =
                Add(c.superCountByProvisioner, name, SuperCountByProvisioner(c, name) + (-1))
      /\ adm.type # "SUPER_ADMIN" =>
           /\ d.superCount = c.superCount
           /\ d.superCountByProvisioner = c.superCountByProvisioner
  <2>1. RemovedAs(c, pc, id, d)
    BY RemoveFromAdminsIs
  <2>2. /\ d.byID = Drop(c.byID, id) /\ d.bySubProv = Drop(c.bySubProv, <<c.byID[id].sub, nm>>)
        /\ d.byProv = [c.byProv EXCEPT ![nm] = v]
        /\ c.byID[id].type = "SUPER_ADMIN" =>
             /\ d.superCount = c.superCount + (-1)
             /\ d.superCountByProvisioner =
                  Add(c.superCountByProvisioner, nm, SuperCountByProvisioner(c, nm) + (-1))
        /\ c.byID[id].type # "SUPER_ADMIN" =>
             /\ d.superCount = c.superCount
             /\ d.superCountByProvisioner = c.superCountByProvisioner
    BY <2>1 DEF RemovedAs
  <2> HIDE DEF nm, v
  <2> QED
    BY <1>1, <1>2, <1>6, <2>2
<1>8. v = [arr |-> [l.arr EXCEPT ![k] = l.arr[l.len]], len |-> l.len - 1]
  <2> HIDE DEF k, ll
  <2> QED BY <1>6
<1> HIDE DEF nm, ll, k, v
<1>10. Active(br) = Active(ar) \ {id} /\ \A x \in Active(br) : br[x] = ar[x]
  BY <1>0, <1>2, RowDeleted, SMTT(60)
<1>11. DOMAIN M = Active(br) /\ \A x \in Active(br) : M[x] = N[x]
  BY <1>0, <1>10 DEF Drop
<1>12. d.byID = [i \in Active(br) |-> br[i]]
  BY <1>9, <1>10, SMTT(60) DEF AdminsOf, Drop
<1>13. /\ d.bySubProv \in [{<<br[i].sub, M[i]>> : i \in Active(br)} -> AdminIDs]
       /\ \A i \in Active(br) : d.bySubProv[<<br[i].sub, M[i]>>] = i
  <2> DEFINE P(i) == <<br[i].sub, M[i]>>
             Q(i) == <<ar[i].sub, N[i]>>
  <2>1. Q(id) = sp /\ \A i \in Active(br) : P(i) = Q(i) /\ Q(i) # sp
    BY <1>0, <1>1, <1>10, <1>11 DEF Alone
  <2>2. /\ c.bySubProv \in [{Q(i) : i \in Active(ar)} -> AdminIDs]
        /\ \A i \in Active(ar) : c.bySubProv[Q(i)] = i
    BY DEF AdminsOf
  <2> HIDE DEF P, Q
  <2>3. {P(i) : i \in Active(br)} = {Q(i) : i \in Active(ar)} \ {sp}
    BY <1>10, <2>1
  <2>6. \A i \in Active(br) : P(i) = Q(i) /\ Q(i) # sp /\ i \in Active(ar)
    BY <1>10, <2>1
  <2>4. d.bySubProv \in [{P(i) : i \in Active(br)} -> AdminIDs]
    <3>1. PICK S : S = {Q(i) : i \in Active(ar)}
      OBVIOUS
    <3>2. d.bySubProv \in [S \ {sp} -> AdminIDs]
      BY <1>9, <2>2, <3>1 DEF Drop
    <3> QED BY <2>3, <3>1, <3>2
  <2>5. \A i \in Active(br) : d.bySubProv[P(i)] = i
    BY <1>9, <2>2, <2>6, SMTT(60) DEF Drop
  <2> QED
    BY <2>4, <2>5 DEF P
<1>14. /\ Of(M, name) = Of(N, name) \ {id}
       /\ \A n \in Names : n # name => Of(M, n) = Of(N, n)
  BY <1>0, <1>10, <1>11 DEF Of
<1>15. LoadByProvisioner(d, name) = v /\ \A n \in Names : n # name => LoadByProvisioner(d, n) = LoadByProvisioner(c, n)
  <2>1. /\ DOMAIN d.byProv = DOMAIN c.byProv /\ d.byProv[name] = v
        /\ \A n \in DOMAIN c.byProv : n # name => d.byProv[n] = c.byProv[n]
    BY <1>5, <1>9
  <2> QED
    BY <1>5, <2>1 DEF LoadByProvisioner
<1>16. ASSUME NEW n \in Names PROVE Slice(LoadByProvisioner(d, n), Of(M, n))
  <2>1. CASE n = name
    <3>1. Slice(v, Of(N, name) \ {l.arr[k]})
      BY <1>3, <1>7, <1>8, SliceRemove
    <3> QED BY <1>7, <1>14, <1>15, <2>1, <3>1
  <2>2. CASE n # name
    BY <1>14, <1>15, <2>2 DEF AdminsOf
  <2> QED BY <2>1, <2>2
<1>17. AdminsOf(d, br, M)
  BY <1>12, <1>13, <1>16 DEF AdminsOf
<1>18. ASSUME CountsOf(c, ar, N) PROVE CountsOf(d, br, M)
  <2>0. \A T : T \subseteq Super(ar) => IsFiniteSet(T) /\ Cardinality(T) \in Nat
    BY ActiveIs, FiniteAdmins, FS_CardinalityType DEF Super
  <2>1. CASE adm.type = "SUPER_ADMIN"
    <3>1. Super(br) = Super(ar) \ {id} /\ id \in Super(ar)
      BY <1>1, <1>10, <2>1 DEF Super
    <3>2. Cardinality(Super(br)) = Cardinality(Super(ar)) - 1 /\ Cardinality(Super(ar)) \in Nat
      BY <2>0, <3>1, FS_RemoveElement, SMTT(60)
    <3>3. /\ d.superCountByProvisioner[name] = SuperCountByProvisioner(c, name) + (-1)
          /\ DOMAIN d.superCountByProvisioner = DOMAIN c.superCountByProvisioner \cup {name}
          /\ \A x \in DOMAIN c.superCountByProvisioner :
               x # name => d.superCountByProvisioner[x] = c.superCountByProvisioner[x]
      BY <1>9, <2>1 DEF Add
    <3>4. ASSUME NEW n \in Names PROVE SuperCountByProvisioner(d, n) = Cardinality(Super(br) \cap Of(M, n))
      <4>1. CASE n = name
        <5>1. PICK T : T = Super(ar) \cap Of(N, n)
          OBVIOUS
        <5>2. Super(br) \cap Of(M, n) = T \ {id} /\ id \in T
          BY <1>3, <1>14, <3>1, <4>1, <5>1, SMTT(60)
        <5>3. Cardinality(T \ {id}) = Cardinality(T) - 1 /\ Cardinality(T) \in Nat
          <6>1. IsFiniteSet(T) /\ Cardinality(T) \in Nat
            BY <2>0, <5>1
          <6> QED BY <5>2, <6>1, FS_RemoveElement
        <5>4. SuperCountByProvisioner(d, n) = SuperCountByProvisioner(c, n) + (-1)
          BY <3>3, <4>1 DEF SuperCountByProvisioner
        <5>5. SuperCountByProvisioner(c, n) = Cardinality(T)
          BY <1>18, <5>1 DEF CountsOf
        <5> QED BY <5>2, <5>3, <5>4, <5>5
      <4>2. CASE n # name
        <5>1. Super(br) \cap Of(M, n) = Super(ar) \cap Of(N, n)
          BY <1>0, <1>14, <3>1, <4>2 DEF Of
        <5>2. SuperCountByProvisioner(d, n) = SuperCountByProvisioner(c, n)
          BY <3>3, <4>2 DEF SuperCountByProvisioner
        <5> QED BY <1>18, <5>1, <5>2 DEF CountsOf
      <4> QED BY <4>1, <4>2
    <3>5. d.superCount = Cardinality(Super(br))
      BY <1>9, <1>18, <2>1, <3>2 DEF CountsOf
    <3> QED
      BY <3>4, <3>5 DEF CountsOf
  <2>2. CASE adm.type # "SUPER_ADMIN"
    <3>1. Super(br) = Super(ar) /\ id \notin Super(ar)
      BY <1>1, <1>10, <2>2 DEF Super
    <3>2. \A n \in Names : SuperCountByProvisioner(d, n) = SuperCountByProvisioner(c, n)
      BY <1>9, <2>2 DEF SuperCountByProvisioner
    <3>3. \A n \in Names : Super(ar) \cap Of(M, n) = Super(ar) \cap Of(N, n)
      BY <1>14, <3>1
    <3> QED
      BY <1>9, <1>18, <2>2, <3>1, <3>2, <3>3 DEF CountsOf
  <2> QED BY <2>1, <2>2
<1>19. Shrunk(l, id, LoadByProvisioner(d, name))
  BY <1>7, <1>8, <1>15 DEF Shrunk
<1> QED
  BY <1>0, <1>17, <1>18, <1>19

\* ReloadAdminResources builds collections of the rows.
LEMMA AdminsLoaded ==
  ASSUME NEW pr \in ProvTable, NEW ar \in AdminTable, Loadable(pr, ar), NEW N, N = NamesOf(pr, ar),
         NEW d, d = LoadAdmins(pr, ar)
  PROVE  AdminsOf(d, ar, N) /\ CountsOf(d, ar, N)
<1>0. N \in [Active(ar) -> Names] /\ \A i \in Active(ar) : N[i] = pr[ar[i].prov].name
  BY NamesOfIs DEF NamesOf
<1> DEFINE Len1(n) == Cardinality(Of(N, n))
           List(n) == [arr |-> CHOOSE a \in Bijection(1 .. Len1(n), Of(N, n)) : TRUE, len |-> Len1(n)]
<1>1. \A n : {i \in Active(ar) : pr[ar[i].prov].name = n} = Of(N, n)
  BY <1>0 DEF Of
<1>2. /\ d.byID = [i \in Active(ar) |-> ar[i]]
      /\ d.bySubProv = [sp \in {<<ar[i].sub, pr[ar[i].prov].name>> : i \in Active(ar)} |->
                          CHOOSE i \in Active(ar) : <<ar[i].sub, pr[ar[i].prov].name>> = sp]
      /\ d.superCount = Cardinality(Super(ar))
      /\ d.superCountByProvisioner =
           [n \in {pr[ar[i].prov].name : i \in Super(ar)} |->
              Cardinality(Super(ar) \cap {i \in Active(ar) : pr[ar[i].prov].name = n})]
      /\ d.byProv = [n \in {pr[ar[i].prov].name : i \in Active(ar)} |->
           [arr |-> CHOOSE a \in Bijection(1 .. Cardinality({i \in Active(ar) : pr[ar[i].prov].name = n}),
                                           {i \in Active(ar) : pr[ar[i].prov].name = n}) : TRUE,
            len |-> Cardinality({i \in Active(ar) : pr[ar[i].prov].name = n})]]
  BY DEF LoadAdmins, Super
<1>3. /\ d.bySubProv \in [{<<ar[i].sub, N[i]>> : i \in Active(ar)} -> AdminIDs]
      /\ \A i \in Active(ar) : d.bySubProv[<<ar[i].sub, N[i]>>] = i
  <2> DEFINE P(i) == <<ar[i].sub, pr[ar[i].prov].name>>
  <2>1. \A i \in Active(ar) : P(i) = <<ar[i].sub, N[i]>>
    BY <1>0
  <2>2. \A i, j \in Active(ar) : P(i) = P(j) => i = j
    BY DEF Loadable
  <2>3. d.bySubProv = [sp \in {P(i) : i \in Active(ar)} |-> CHOOSE i \in Active(ar) : P(i) = sp]
    BY <1>2
  <2>4. {P(i) : i \in Active(ar)} = {<<ar[i].sub, N[i]>> : i \in Active(ar)}
    BY <2>1
  <2> HIDE DEF P
  <2>5. \A i \in Active(ar) : d.bySubProv[P(i)] = i
    <3> TAKE i \in Active(ar)
    <3> DEFINE k == CHOOSE j \in Active(ar) : P(j) = P(i)
    <3>1. k \in Active(ar) /\ P(k) = P(i)
      OBVIOUS
    <3>2. d.bySubProv[P(i)] = k
      BY <2>3
    <3> HIDE DEF k
    <3> QED BY <2>2, <3>1, <3>2
  <2>6. d.bySubProv \in [{P(i) : i \in Active(ar)} -> AdminIDs]
    <3>1. DOMAIN d.bySubProv = {P(i) : i \in Active(ar)}
      BY <2>3
    <3>2. \A sp \in {P(i) : i \in Active(ar)} : d.bySubProv[sp] \in AdminIDs
      BY <2>5, ActiveIs
    <3>3. d.bySubProv = [sp \in DOMAIN d.bySubProv |-> d.bySubProv[sp]]
      BY <2>3
    <3> QED BY <3>1, <3>2, <3>3
  <2> QED
    BY <2>1, <2>4, <2>5, <2>6
<1>4. ASSUME NEW n \in Names PROVE Slice(LoadByProvisioner(d, n), Of(N, n))
  <2>1. CASE n \in {pr[ar[i].prov].name : i \in Active(ar)}
    <3>1. LoadByProvisioner(d, n) = List(n)
      <4>1. n \in DOMAIN d.byProv
        BY <1>2, <2>1
      <4>2. LoadByProvisioner(d, n) = d.byProv[n]
        BY <4>1 DEF LoadByProvisioner
      <4> DEFINE X == {i \in Active(ar) : pr[ar[i].prov].name = n}
      <4>3. d.byProv[n] = [arr |-> CHOOSE a \in Bijection(1 .. Cardinality(X), X) : TRUE, len |-> Cardinality(X)]
        BY <1>2, <2>1
      <4>4. X = Of(N, n)
        BY <1>1
      <4> HIDE DEF X
      <4> QED
        BY <4>2, <4>3, <4>4
    <3>2. Of(N, n) \subseteq AdminIDs
      BY <1>0, ActiveIs DEF Of
    <3> QED BY <3>1, <3>2, SliceLoaded
  <2>2. CASE n \notin {pr[ar[i].prov].name : i \in Active(ar)}
    <3>1. n \notin DOMAIN d.byProv
      BY <1>2, <2>2
    <3>2. Of(N, n) = {}
      BY <1>0, <2>2 DEF Of
    <3> QED BY <3>1, <3>2, SliceEmpty DEF LoadByProvisioner
  <2> QED BY <2>1, <2>2
<1>5. ASSUME NEW n \in Names PROVE SuperCountByProvisioner(d, n) = Cardinality(Super(ar) \cap Of(N, n))
  <2>1. CASE n \in {pr[ar[i].prov].name : i \in Super(ar)}
    <3>1. n \in DOMAIN d.superCountByProvisioner
      BY <1>2, <2>1
    <3>2. SuperCountByProvisioner(d, n) = d.superCountByProvisioner[n]
      BY <3>1 DEF SuperCountByProvisioner
    <3> DEFINE X == {i \in Active(ar) : pr[ar[i].prov].name = n}
    <3>3. d.superCountByProvisioner[n] = Cardinality(Super(ar) \cap X)
      BY <1>2, <2>1
    <3>4. X = Of(N, n)
      BY <1>1
    <3> HIDE DEF X
    <3> QED BY <3>2, <3>3, <3>4
  <2>2. CASE n \notin {pr[ar[i].prov].name : i \in Super(ar)}
    <3>1. n \notin DOMAIN d.superCountByProvisioner
      BY <1>2, <2>2
    <3>2. Super(ar) \cap Of(N, n) = {}
      BY <1>0, <2>2 DEF Of, Super
    <3>3. SuperCountByProvisioner(d, n) = 0
      BY <3>1 DEF SuperCountByProvisioner
    <3> QED BY <3>2, <3>3, FS_EmptySet
  <2> QED BY <2>1, <2>2
<1> QED
  BY <1>2, <1>3, <1>4, <1>5 DEF AdminsOf, CountsOf

LEMMA MatchLoaded ==
  ASSUME NEW pr \in ProvTable, NEW ar \in AdminTable, Loadable(pr, ar), Configured(pr)
  PROVE  Match(LoadProvisioners(pr), LoadAdmins(pr, ar), pr, ar)
<1>1. Unlike(pr) /\ (OwnKeys => UnlikeKeys(pr))
  BY LoadableUnlike, KeysUnlike
<1>2. ProvsOf(LoadProvisioners(pr), pr) /\ (OwnKeys => KeysOf(LoadProvisioners(pr), pr))
  BY <1>1, ProvsLoaded
<1>3. /\ AdminsOf(LoadAdmins(pr, ar), ar, NamesOf(pr, ar))
      /\ CountsOf(LoadAdmins(pr, ar), ar, NamesOf(pr, ar))
  BY AdminsLoaded
<1> QED
  BY <1>2, <1>3 DEF Match

\* Changes of the collections that follow changes of the tables.
LEMMA MatchStoredAdmin ==
  ASSUME NEW pc, NEW ac, NEW pr \in ProvTable, NEW ar \in AdminTable, Match(pc, ac, pr, ar),
         AdminsRecord(ac), NEW id \in AdminIDs, ar[id] = None, NEW adm \in Admin,
         adm.prov \in Active(pr), NEW name, pr[adm.prov].name = name,
         <<adm.sub, name>> \notin DOMAIN ac.bySubProv
  PROVE  Match(pc, StoreInAdmins(ac, id, adm, name), pr, Write(ar, id, adm))
<1>1. PICK br, N, M, d : /\ br = Write(ar, id, adm) /\ N = NamesOf(pr, ar) /\ M = NamesOf(pr, br)
                         /\ d = StoreInAdmins(ac, id, adm, name)
  OBVIOUS
<1>2. /\ Active(br) = Active(ar) \cup {id} /\ br[id] = adm /\ id \notin Active(ar)
      /\ \A x \in Active(ar) : x # id => br[x] = ar[x]
  <2>1. id \notin Active(ar)
    BY DEF Active
  <2> QED
    BY <1>1, <2>1, RowWritten, SMTT(60)
<1>3. Loadable(pr, ar) /\ AdminsOf(ac, ar, N) /\ N \in [Active(ar) -> Names]
  BY <1>1, NamesOfIs DEF Match
<1>4. name \in Names
  BY ActiveIs DEF Names
<1>5. M = Add(N, id, name)
  BY <1>1, <1>2 DEF NamesOf, Add
<1>6. AdminsOf(d, br, M) /\ (CountsOf(ac, ar, N) => CountsOf(d, br, M))
  BY <1>1, <1>3, <1>4, <1>5, AdminsStored, SMTT(60)
<1>7. Loadable(pr, br)
  <2>1. ASSUME NEW i \in Active(ar) PROVE <<ar[i].sub, ar[i].prov>> # <<adm.sub, adm.prov>>
    <3>1. SUFFICES ASSUME ar[i].sub = adm.sub, ar[i].prov = adm.prov PROVE FALSE
      OBVIOUS
    <3>2. N[i] = name
      BY <1>1, <3>1 DEF NamesOf
    <3>3. DOMAIN ac.bySubProv = {<<ar[j].sub, N[j]>> : j \in Active(ar)}
      BY <1>3 DEF AdminsOf
    <3> QED BY <3>1, <3>2, <3>3
  <2>2. \A i \in Active(br) : i # id => i \in Active(ar) /\ br[i] = ar[i]
    BY <1>2
  <2>3. \A i \in Active(br) : br[i].prov \in Active(pr)
    BY <1>2, <1>3, <2>2 DEF Loadable
  <2>4. \A i, j \in Active(br) : i # j => <<br[i].sub, br[i].prov>> # <<br[j].sub, br[j].prov>>
    BY <1>2, <1>3, <2>1, <2>2, SMTT(60) DEF Loadable
  <2> QED BY <1>3, <2>3, <2>4 DEF Loadable
<1> QED
  BY <1>1, <1>6, <1>7 DEF Match

LEMMA MatchRemovedAdmin ==
  ASSUME NEW pc, NEW ac, NEW pr \in ProvTable, NEW ar \in AdminTable, Match(pc, ac, pr, ar),
         AdminsRecord(ac), NEW id, CanRemoveAdmin(ac, pc, id), NEW d, d = RemoveFromAdmins(ac, pc, id)
  PROVE  /\ id \in Active(ar) /\ Match(pc, d, pr, Write(ar, id, Deleted))
         /\ Shrunk(LoadByProvisioner(ac, pr[ar[id].prov].name), id,
                   LoadByProvisioner(d, pr[ar[id].prov].name))
<1>1. PICK br, N, M : br = Write(ar, id, Deleted) /\ N = NamesOf(pr, ar) /\ M = NamesOf(pr, br)
  OBVIOUS
<1>2. Loadable(pr, ar) /\ ProvsOf(pc, pr) /\ AdminsOf(ac, ar, N) /\ N \in [Active(ar) -> Names]
  BY <1>1, NamesOfIs DEF Match
<1>3. ac.byID = [i \in Active(ar) |-> ar[i]]
  BY <1>2 DEF AdminsOf
<1>4. id \in Active(ar) /\ ac.byID[id] = ar[id] /\ id \in AdminIDs
  <2>1. id \in DOMAIN ac.byID
    BY DEF CanRemoveAdmin
  <2> QED BY <1>3, <2>1, ActiveIs
<1>5. Active(br) = Active(ar) \ {id} /\ \A x \in Active(br) : br[x] = ar[x]
  BY <1>1, <1>4, RowDeleted
<1>6. N[id] = pr[ar[id].prov].name /\ \A i \in Active(ar) : N[i] = pr[ar[i].prov].name
  BY <1>1, <1>4 DEF NamesOf
<1>7. ProvName(ac, pc, id) = N[id]
  <2>1. PICK j : j = ar[id].prov
    OBVIOUS
  <2>2. j \in DOMAIN pc.byID
    BY <1>4, <2>1 DEF CanRemoveAdmin
  <2>3. pc.byID[j].name = pr[j].name
    BY <1>2, <2>2, FoundProvs DEF Found
  <2> QED BY <1>4, <1>6, <2>1, <2>3 DEF ProvName
<1>8. Alone(ar, N, id)
  <2>1. SUFFICES ASSUME NEW i \in Active(ar), i # id, ar[i].sub = ar[id].sub, N[i] = N[id] PROVE FALSE
    BY DEF Alone
  <2>2. ar[i].prov \in Active(pr) /\ ar[id].prov \in Active(pr)
    BY <1>2, <1>4 DEF Loadable
  <2>3. ar[i].prov = ar[id].prov
    BY <1>2, <1>6, <2>1, <2>2 DEF Loadable
  <2> QED BY <1>2, <1>4, <2>1, <2>3 DEF Loadable
<1>9. M = Drop(N, id)
  BY <1>1, <1>5 DEF NamesOf, Drop
<1>10. /\ AdminsOf(d, br, M) /\ (CountsOf(ac, ar, N) => CountsOf(d, br, M))
       /\ Shrunk(LoadByProvisioner(ac, N[id]), id, LoadByProvisioner(d, N[id]))
  BY <1>1, <1>2, <1>4, <1>7, <1>8, <1>9, AdminsRemoved
<1>11. Loadable(pr, br)
  BY <1>2, <1>5 DEF Loadable
<1>12. Match(pc, d, pr, br)
  BY <1>1, <1>10, <1>11 DEF Match
<1> QED
  BY <1>1, <1>4, <1>6, <1>10, <1>12

LEMMA GoodBoot ==
  ASSUME Typed, Good, UNCHANGED work,
         \/ \E id \in ProvIDs : CreateFirstProvisioner(id)
         \/ \E id \in 1 .. work.rows, prov \in ProvIDs : CreateFirstAdmin(id, prov)
         \/ Load \/ Crash
  PROVE  Good'
<1>0. provRows \in ProvTable /\ adminRows \in AdminTable
  BY DEF Typed, Tables
<1>1. ASSUME NEW id \in ProvIDs, CreateFirstProvisioner(id) PROVE Good'
  <2>1. /\ boot = "start" /\ Active(provRows) = {} /\ provRows' = Write(provRows, id, FirstConfig)
        /\ boot' = "CreateAdmin" /\ adminRows' = adminRows /\ provs' = provs /\ stale' = stale /\ loc' = loc
    BY <1>1 DEF CreateFirstProvisioner, Write
  <2>2. FirstConfig \in Configs
    BY StoreAssumption
  <2>3. /\ Active(provRows') = {id} /\ provRows'[id] = FirstConfig
    BY <1>0, <2>1, <2>2, ProvWritten, SMTT(60)
  <2>4. Grown(provRows, provRows')
    BY <2>1 DEF Grown
  <2>5. Found(provs', provRows')
    BY <2>1, <2>4, FoundGrown DEF Good
  <2>6. \A p \in Procs : LocFound(loc'[p], provs', provRows')
    <3>1. \A p \in Procs : loc[p].pc = "idle"
      BY <2>1 DEF Typed, Locs
    <3> QED BY <2>1, <3>1, IdleFound
  <2>7. Configured(provRows')
    BY <2>3 DEF Configured
  <2>8. "reload" \notin work.faults => ~ stale' /\ Loadable(provRows', adminRows') /\ Active(adminRows') = {}
    <3>1. Loadable(provRows, adminRows) => Active(adminRows) = {}
      BY <2>1 DEF Loadable
    <3>2. Active(adminRows) = {} => Loadable(provRows', adminRows')
      BY <2>1, <2>3 DEF Loadable
    <3> QED BY <2>1, <3>1, <3>2 DEF Good
  <2> QED
    BY <2>1, <2>5, <2>6, <2>7, <2>8, GoodStep
<1>2. ASSUME NEW id \in 1 .. work.rows, NEW prov \in ProvIDs, CreateFirstAdmin(id, prov) PROVE Good'
  <2>0. id \in AdminIDs /\ FirstSubject \in Subjects
    BY WorkIs, StoreAssumption DEF Typed
  <2>1. PICK adm : adm = [sub |-> FirstSubject, prov |-> prov, type |-> "SUPER_ADMIN"]
    OBVIOUS
  <2>2. adm \in Admin /\ adm.prov = prov
    BY <2>0, <2>1 DEF Admin, Types
  <2>3. /\ boot = "CreateAdmin" /\ prov \in Active(provRows) /\ adminRows' = Write(adminRows, id, adm)
        /\ boot' = "ReloadAdminResources" /\ provRows' = provRows /\ provs' = provs /\ stale' = stale /\ loc' = loc
    BY <1>2, <2>1 DEF CreateFirstAdmin, Write
  <2>4. Active(adminRows') = Active(adminRows) \cup {id} /\ adminRows'[id] = adm
    BY <1>0, <2>0, <2>2, <2>3, RowWritten, SMTT(60)
  <2>5. "reload" \notin work.faults => ~ stale' /\ Loadable(provRows', adminRows')
    <3>1. Active(adminRows) = {} /\ Loadable(provRows, adminRows) => Loadable(provRows', adminRows')
      BY <2>2, <2>3, <2>4 DEF Loadable
    <3> QED BY <2>3, <3>1 DEF Good
  <2> QED
    BY <2>3, <2>5, GoodStep DEF Good
<1>3. ASSUME Load PROVE Good'
  <2>1. provRows' = provRows /\ adminRows' = adminRows /\ stale' = FALSE /\ loc' = loc /\ boot # "up"
    BY <1>3 DEF Load
  <2>2. \A p \in Procs : loc[p].pc = "idle"
    BY <2>1 DEF Typed, Locs
  <2>3. \A p \in Procs : LocFound(loc'[p], provs', provRows') /\ Looping(loc'[p], admins', provRows')
    BY <2>1, <2>2, IdleFound
  <2>4. CASE Loadable(provRows, adminRows)
    <3>1. provs' = LoadProvisioners(provRows) /\ admins' = LoadAdmins(provRows, adminRows) /\ boot' = "up"
      BY <1>3, <2>4 DEF Load
    <3>2. Match(provs', admins', provRows', adminRows')
      BY <1>0, <2>1, <2>4, <3>1, MatchLoaded DEF Good
    <3>3. Found(provs', provRows')
      BY <1>0, <2>1, <3>2, FoundProvs DEF Match
    <3>4. Configured(provRows')
      BY <2>1 DEF Good
    <3> QED
      BY <2>1, <2>3, <2>4, <3>1, <3>2, <3>3, <3>4, GoodStep
  <2>5. CASE ~ Loadable(provRows, adminRows)
    <3>1. provs' = provs /\ boot' = "failed"
      BY <1>3, <2>5 DEF Load
    <3>2. Found(provs', provRows') /\ Configured(provRows')
          /\ ("reload" \notin work.faults => Loadable(provRows', adminRows'))
      BY <2>1, <3>1 DEF Good
    <3> QED
      BY <2>1, <2>3, <3>1, <3>2, GoodStep
  <2> QED BY <2>4, <2>5
<1>4. ASSUME Crash PROVE Good'
  <2>1. /\ provRows' = provRows /\ adminRows' = adminRows /\ stale' = FALSE /\ boot' = "start"
        /\ provs' = NewProvisioners /\ \A p \in Procs : loc'[p] = Idle
    BY <1>4 DEF Crash
  <2>2. DOMAIN provs'.byName = {} /\ DOMAIN provs'.byID = {}
    BY <2>1, SMTT(60) DEF NewProvisioners
  <2>3. Found(provs', provRows')
    BY <2>2 DEF Found
  <2>4. \A p \in Procs : LocFound(loc'[p], provs', provRows')
    BY <2>1, IdleOK, IdleFound
  <2>5. Configured(provRows') /\ ("reload" \notin work.faults => Loadable(provRows', adminRows'))
    BY <2>1 DEF Good
  <2> QED
    BY <2>1, <2>3, <2>4, <2>5, GoodStep
<1> QED
  BY <1>1, <1>2, <1>3, <1>4

\* ReloadAdminResources after a failed write.
LEMMA GoodReload ==
  ASSUME Typed, Good, UNCHANGED <<work, provRows, adminRows, boot>>, boot = "up",
         NEW cp, NEW ca, ReloadAdminResources(cp, ca), Found(cp, provRows),
         \A q \in Procs : \A c, d : LocFound(loc'[q], c, provRows) /\ Looping(loc'[q], d, provRows)
  PROVE  Good'
<1>1. Configured(provRows) /\ provRows \in ProvTable /\ adminRows \in AdminTable
  BY DEF Good, Typed, Tables
<1>2. PICK ok \in Outcomes("reload") :
        IF ok /\ Loadable(provRows, adminRows)
        THEN /\ provs' = LoadProvisioners(provRows)
             /\ admins' = LoadAdmins(provRows, adminRows)
             /\ stale' = FALSE
        ELSE /\ provs' = cp
             /\ admins' = ca
             /\ stale' = TRUE
  BY DEF ReloadAdminResources
<1>3. "reload" \notin work.faults => ok /\ Loadable(provRows, adminRows)
  BY DEF Outcomes, Good
<1>4. CASE ok /\ Loadable(provRows, adminRows)
  <2>1. Match(provs', admins', provRows', adminRows')
    BY <1>1, <1>2, <1>4, MatchLoaded
  <2>2. Found(provs', provRows')
    BY <1>1, <2>1, FoundProvs DEF Match
  <2> QED
    BY <1>1, <1>2, <1>4, <2>1, <2>2, GoodStep
<1>5. CASE ~ (ok /\ Loadable(provRows, adminRows))
  <2>1. Found(provs', provRows') /\ stale'
    BY <1>2, <1>5
  <2> QED
    BY <1>1, <1>3, <1>5, <2>1, GoodStep
<1> QED
  BY <1>4, <1>5

LEMMA GoodStoreAdmin ==
  ASSUME Typed, Good, UNCHANGED work, NEW p \in Procs, NEW id \in 1 .. work.rows, StoreAdmin(p, id)
  PROVE  Good'
<1>1. boot = "up" /\ lock = None /\ loc[p].pc = "StoreAdmin" /\ adminRows[id] = None /\ boot' = boot
  BY DEF StoreAdmin, At
<1>2. PICK l, adm : l = loc[p] /\ adm = [sub |-> l.sub, prov |-> l.prov.id, type |-> l.type]
  OBVIOUS
<1>3. PICK ok \in Outcomes("db") :
        IF ok /\ <<l.sub, l.prov.name>> \notin DOMAIN admins.bySubProv
        THEN /\ adminRows' = [adminRows EXCEPT ![id] = adm]
             /\ admins' = StoreInAdmins(admins, id, adm, l.prov.name)
             /\ Goto(p, Idle)
             /\ UNCHANGED <<provRows, provs, stale>>
        ELSE Refuse(p)
  BY <1>2 DEF StoreAdmin
<1>4. CASE ok /\ <<l.sub, l.prov.name>> \notin DOMAIN admins.bySubProv
  <2>1. /\ adminRows' = Write(adminRows, id, adm)
        /\ admins' = StoreInAdmins(admins, id, adm, l.prov.name)
        /\ Goto(p, Idle) /\ provRows' = provRows /\ provs' = provs /\ stale' = stale
    BY <1>3, <1>4 DEF Write
  <2>2. /\ provRows \in ProvTable /\ adminRows \in AdminTable /\ AdminsRecord(admins) /\ id \in AdminIDs
        /\ LocOK(l)
    BY <1>2, WorkIs DEF Typed, Tables, Locs
  <2>3. l.sub \in Subjects /\ l.type \in Types /\ l.prov \in ProvRecs
    BY <1>1, <1>2, <2>2 DEF LocOK
  <2>4. adm \in Admin /\ adm.prov = l.prov.id /\ adm.sub = l.sub
    BY <1>2, <2>3, ProvRecIs DEF Admin
  <2>5. l.prov.id \in Active(provRows) /\ provRows[l.prov.id].name = l.prov.name
    BY <1>1, <1>2 DEF Good, LocFound
  <2>6. \A q \in Procs : LocFound(loc'[q], provs', provRows') /\ Looping(loc'[q], admins', provRows')
    BY <1>1, <2>1, GrownSame, IdleOK, NoLoop, OthersFound
  <2>7. Match(provs, admins, provRows, adminRows) => Match(provs', admins', provRows', adminRows')
    <3>1. SUFFICES ASSUME Match(provs, admins, provRows, adminRows)
                   PROVE  Match(provs', admins', provRows', adminRows')
      OBVIOUS
    <3> QED
      BY <1>1, <1>4, <2>1, <2>2, <2>4, <2>5, <3>1, MatchStoredAdmin
  <2>8. ~ stale => Match(provs', admins', provRows', adminRows')
    BY <1>1, <2>7 DEF Good
  <2>9. "reload" \notin work.faults => ~ stale' /\ Loadable(provRows', adminRows')
    BY <2>1, <2>8 DEF Good, Match
  <2>10. Found(provs', provRows') /\ Configured(provRows')
    BY <2>1 DEF Good
  <2> QED
    BY <1>1, <2>1, <2>6, <2>8, <2>9, <2>10, GoodStep
<1>5. CASE ~ (ok /\ <<l.sub, l.prov.name>> \notin DOMAIN admins.bySubProv)
  BY <1>1, <1>3, <1>5, GoodRefuse
<1> QED
  BY <1>4, <1>5

LEMMA GoodUpdateAdmin ==
  ASSUME Typed, Good, UNCHANGED work, NEW p \in Procs, NEW id, NEW type \in Types, UpdateAdmin(p, id, type)
  PROVE  Good'
<1>1. boot = "up" /\ lock = None /\ boot' = boot /\ ~ RolesKept
  BY DEF UpdateAdmin, Sent, At, RolesKept
<1>2. CASE ~ CanUpdateAdmin(admins, id, type)
  BY <1>1, <1>2, GoodRefuse DEF UpdateAdmin
<1>3. CASE CanUpdateAdmin(admins, id, type)
  <2>1. PICK nu : nu = UpdateInAdmins(admins, id, type)
    OBVIOUS
  <2>2. provRows' = provRows /\ loc' = loc
    BY <1>3 DEF UpdateAdmin
  <2>3. PICK ok \in Outcomes("db") :
          IF ok /\ id \in Active(adminRows)
          THEN /\ adminRows' = [adminRows EXCEPT ![id].type = type]
               /\ admins' = nu
               /\ UNCHANGED <<provs, stale>>
          ELSE ReloadAdminResources(provs, nu) /\ UNCHANGED adminRows
    BY <1>3, <2>1 DEF UpdateAdmin
  <2>4. \A q \in Procs : \A c, d : LocFound(loc'[q], c, provRows) /\ Looping(loc'[q], d, provRows)
    BY <1>1, <2>2, GrownSame, AllFound
  <2>5. CASE ok /\ id \in Active(adminRows)
    <3>1. /\ adminRows' = Retyped(adminRows, id, type) /\ admins' = nu /\ provs' = provs /\ stale' = stale
      BY <2>3, <2>5 DEF Retyped
    <3>2. provRows \in ProvTable /\ adminRows \in AdminTable /\ AdminsRecord(admins)
      BY DEF Typed, Tables
    <3>3. Match(provs, admins, provRows, adminRows) => Match(provs', admins', provRows', adminRows')
      <4>1. SUFFICES ASSUME Match(provs, admins, provRows, adminRows)
                     PROVE  Match(provs', admins', provRows', adminRows')
        OBVIOUS
      <4>2. Match(provs, nu, provRows, Retyped(adminRows, id, type))
        BY <1>1, <2>1, <2>5, <3>2, <4>1, MatchUpdatedAdmin, SMTT(60)
      <4> QED BY <2>2, <3>1, <4>2
    <3>4. ~ stale => Match(provs', admins', provRows', adminRows')
      BY <1>1, <3>3 DEF Good
    <3>5. "reload" \notin work.faults => ~ stale' /\ Loadable(provRows', adminRows')
      BY <3>1, <3>4 DEF Good, Match
    <3>6. Found(provs', provRows') /\ Configured(provRows')
      BY <2>2, <3>1 DEF Good
    <3> QED
      BY <1>1, <2>2, <2>4, <3>1, <3>4, <3>5, <3>6, GoodStep
  <2>6. CASE ~ (ok /\ id \in Active(adminRows))
    <3>1. ReloadAdminResources(provs, nu) /\ adminRows' = adminRows
      BY <2>3, <2>6
    <3>2. Found(provs, provRows)
      BY DEF Good
    <3> QED
      BY <1>1, <2>2, <2>4, <3>1, <3>2, GoodReload
  <2> QED BY <2>5, <2>6
<1> QED
  BY <1>2, <1>3

\* removeAdmin, of the request and of the loop.
LEMMA GoodRemoveAdmin ==
  ASSUME Typed, Good, UNCHANGED work, NEW p \in Procs, NEW id, RemoveAdmin(p, id)
  PROVE  Good'
<1>1. boot = "up" /\ lock = None /\ boot' = boot
  BY DEF RemoveAdmin, Sent, At
<1>2. CASE ~ CanRemoveAdmin(admins, provs, id)
  BY <1>1, <1>2, GoodRefuse DEF RemoveAdmin
<1>3. CASE CanRemoveAdmin(admins, provs, id)
  <2>1. PICK nu : nu = RemoveFromAdmins(admins, provs, id)
    OBVIOUS
  <2>2. removeAdmin(id, UNCHANGED loc, UNCHANGED loc)
    BY <1>3 DEF RemoveAdmin
  <2>3. PICK ok \in Outcomes("db") :
          IF ok /\ id \in Active(adminRows)
          THEN /\ adminRows' = [adminRows EXCEPT ![id] = Deleted]
               /\ admins' = nu
               /\ UNCHANGED loc
               /\ UNCHANGED <<provs, stale>>
          ELSE /\ ReloadAdminResources(provs, nu)
               /\ UNCHANGED loc
               /\ UNCHANGED adminRows
    BY <2>1, <2>2 DEF removeAdmin
  <2>4. provRows' = provRows /\ loc' = loc
    BY <2>2, <2>3 DEF removeAdmin
  <2>5. \A q \in Procs : \A c, d : LocFound(loc'[q], c, provRows) /\ Looping(loc'[q], d, provRows)
    BY <1>1, <2>4, GrownSame, AllFound, SMTT(60)
  <2>6. CASE ok /\ id \in Active(adminRows)
    <3>1. adminRows' = Write(adminRows, id, Deleted) /\ admins' = nu /\ provs' = provs /\ stale' = stale
      BY <2>3, <2>6 DEF Write
    <3>2. provRows \in ProvTable /\ adminRows \in AdminTable /\ AdminsRecord(admins)
      BY DEF Typed, Tables
    <3>3. Match(provs, admins, provRows, adminRows) => Match(provs', admins', provRows', adminRows')
      <4>1. SUFFICES ASSUME Match(provs, admins, provRows, adminRows)
                     PROVE  Match(provs', admins', provRows', adminRows')
        OBVIOUS
      <4>2. Match(provs, nu, provRows, Write(adminRows, id, Deleted))
        BY <1>3, <2>1, <3>2, <4>1, MatchRemovedAdmin
      <4> QED BY <2>4, <3>1, <4>2
    <3>4. ~ stale => Match(provs', admins', provRows', adminRows')
      BY <1>1, <3>3 DEF Good
    <3>5. "reload" \notin work.faults => ~ stale' /\ Loadable(provRows', adminRows')
      BY <3>1, <3>4 DEF Good, Match
    <3>6. Found(provs', provRows') /\ Configured(provRows')
      BY <2>4, <3>1 DEF Good
    <3> QED
      BY <1>1, <2>4, <2>5, <3>1, <3>4, <3>5, <3>6, GoodStep
  <2>7. CASE ~ (ok /\ id \in Active(adminRows))
    <3>1. ReloadAdminResources(provs, nu) /\ adminRows' = adminRows
      BY <2>3, <2>7
    <3>2. Found(provs, provRows)
      BY DEF Good
    <3> QED
      BY <1>1, <2>4, <2>5, <3>1, <3>2, GoodReload
  <2> QED BY <2>6, <2>7
<1> QED
  BY <1>2, <1>3

LEMMA GoodUpdateProvisioner ==
  ASSUME Typed, Good, UNCHANGED work, NEW p \in Procs, UpdateProvisioner(p)
  PROVE  Good'
<1>1. boot = "up" /\ lock = None /\ boot' = boot /\ loc[p].pc = "UpdateProvisioner"
  BY DEF UpdateProvisioner, At
<1>2. PICK nu, c : nu = loc[p].nu /\ c = [name |-> nu.name, kid |-> nu.kid, client |-> nu.client]
  OBVIOUS
<1>3. nu \in ProvRecs
  BY <1>1, <1>2 DEF Typed, Locs, LocOK
<1>4. CASE ~ CanUpdateProvisioner(provs, nu)
  BY <1>1, <1>2, <1>4, GoodRefuse DEF UpdateProvisioner
<1>5. CASE CanUpdateProvisioner(provs, nu)
  <2>1. PICK ok \in Outcomes("db") :
          IF ok /\ nu.id \in Active(provRows)
          THEN /\ provRows' = [provRows EXCEPT ![nu.id] = c]
               /\ provs' = UpdateInProvisioners(provs, nu)
               /\ UNCHANGED <<admins, stale>>
          ELSE /\ ReloadAdminResources(UpdateInProvisioners(provs, nu), admins)
               /\ UNCHANGED provRows
    BY <1>2, <1>5 DEF UpdateProvisioner
  <2>2. Goto(p, Idle) /\ adminRows' = adminRows
    BY <1>2, <1>5 DEF UpdateProvisioner
  <2>3. nu.id \in Active(provRows) /\ provRows[nu.id].name = nu.name /\ c \in work.configs
    BY <1>1, <1>2 DEF Good, LocFound
  <2>4. c \in Configs /\ nu = Provisioner(nu.id, c) /\ nu.id \in ProvIDs /\ c.name = nu.name
    BY <1>2, <1>3, ProvRecIs
  <2>5. provRows \in ProvTable /\ adminRows \in AdminTable
    BY DEF Typed, Tables
  <2>6. \A pr : Found(provs, pr) /\ nu.id \in Active(pr) /\ pr[nu.id].name = nu.name
                  => Found(UpdateInProvisioners(provs, nu), pr)
    BY <1>3, FoundRemoved, FoundStored DEF UpdateInProvisioners
  <2>7. CASE ok /\ nu.id \in Active(provRows)
    <3>1. /\ provRows' = Write(provRows, nu.id, c) /\ provs' = UpdateInProvisioners(provs, nu)
          /\ admins' = admins /\ stale' = stale
      BY <2>1, <2>7 DEF Write
    <3>2. /\ Active(provRows') = Active(provRows) \cup {nu.id} /\ provRows'[nu.id] = c
          /\ \A x \in Active(provRows) : x # nu.id => provRows'[x] = provRows[x]
      <4>1. c \in Configs /\ nu.id \in ProvIDs /\ provRows' = Write(provRows, nu.id, c)
        BY <2>4, <3>1
      <4>2. PICK id : id = nu.id
        OBVIOUS
      <4>3. /\ Active(Write(provRows, id, c)) = Active(provRows) \cup {id} /\ Write(provRows, id, c)[id] = c
            /\ \A x \in Active(provRows) : x # id => Write(provRows, id, c)[x] = provRows[x]
        BY <2>5, <4>1, <4>2, ProvWritten, SMTT(60)
      <4> QED BY <4>1, <4>2, <4>3
    <3>3. Grown(provRows, provRows')
      BY <2>3, <2>4, <3>2 DEF Grown
    <3>4. Configured(provRows) /\ Found(provs, provRows)
      BY DEF Good
    <3>5. Configured(provRows')
      BY <2>3, <3>2, <3>4 DEF Configured
    <3>6. Found(provs', provRows')
      <4>1. Found(provs, provRows')
        BY <3>3, <3>4, FoundGrown
      <4>2. nu.id \in Active(provRows') /\ provRows'[nu.id].name = nu.name
        BY <2>3, <2>4, <3>2
      <4> QED BY <2>6, <3>1, <4>1, <4>2
    <3>7. \A q \in Procs : LocFound(loc'[q], provs', provRows') /\ Looping(loc'[q], admins', provRows')
      BY <1>1, <2>2, <3>3, IdleOK, NoLoop, OthersFound, SMTT(60)
    <3>8. Match(provs, admins, provRows, adminRows) => Match(provs', admins', provRows', adminRows')
      <4>1. SUFFICES ASSUME Match(provs, admins, provRows, adminRows)
                     PROVE  Match(provs', admins', provRows', adminRows')
        OBVIOUS
      <4>2. PICK id : id = nu.id
        OBVIOUS
      <4>3. CanUpdateProvisioner(provs, Provisioner(id, c)) /\ provRows[id].name = c.name
        BY <1>5, <2>3, <2>4, <4>2
      <4>4. Match(UpdateInProvisioners(provs, Provisioner(id, c)), admins, provRows', adminRows)
        BY <2>3, <2>4, <2>5, <3>1, <3>4, <3>5, <4>1, <4>2, <4>3, MatchUpdatedProvisioner
      <4> QED
        BY <2>2, <2>4, <3>1, <4>2, <4>4
    <3>9. ~ stale => Match(provs', admins', provRows', adminRows')
      BY <1>1, <3>8 DEF Good
    <3>10. "reload" \notin work.faults => ~ stale' /\ Loadable(provRows', adminRows')
      BY <3>1, <3>9 DEF Good, Match
    <3> QED
      BY <1>1, <2>2, <3>1, <3>5, <3>6, <3>7, <3>9, <3>10, GoodStep
  <2>8. CASE ~ (ok /\ nu.id \in Active(provRows))
    <3>1. ReloadAdminResources(UpdateInProvisioners(provs, nu), admins) /\ provRows' = provRows
      BY <2>1, <2>8
    <3>2. Found(UpdateInProvisioners(provs, nu), provRows)
      BY <2>3, <2>6 DEF Good
    <3>3. \A q \in Procs : \A e, d : LocFound(loc'[q], e, provRows) /\ Looping(loc'[q], d, provRows)
      BY <1>1, <2>2, <3>1, GrownSame, IdleOK, NoLoop, OthersFound
    <3> QED
      BY <1>1, <2>2, <3>1, <3>2, <3>3, GoodReload
  <2> QED BY <2>7, <2>8
<1> QED
  BY <1>4, <1>5

LEMMA GoodLoop ==
  ASSUME Typed, Orderly, Good, UNCHANGED work, NEW p \in Procs, RemoveAdminOfProvisioner(p)
  PROVE  Good'
<1>1. PICK l, n, adm, m :
        /\ l = loc[p] /\ n = provs.byID[l.id].name /\ adm = admins.byProv[n].arr[l.i]
        /\ m = [l EXCEPT !.i = @ + 1]
  OBVIOUS
<1>2. /\ lock = p /\ l.pc = "removeAdmin" /\ l.i <= l.n /\ boot' = boot
      /\ IF CanRemoveAdmin(admins, provs, adm)
         THEN removeAdmin(adm, Goto(p, m) /\ UNCHANGED lock, Goto(p, Idle) /\ lock' = None)
         ELSE Refuse(p) /\ lock' = None
  BY <1>1 DEF RemoveAdminOfProvisioner
<1>3. boot = "up" /\ LocOK(l)
  BY <1>1, <1>2, RowsDiffer DEF Typed, Locs
<1>4. \A q \in Procs : q # p => loc[q].pc = "idle"
  BY <1>1, <1>2, Quiet
<1>5. CASE ~ CanRemoveAdmin(admins, provs, adm)
  BY <1>2, <1>3, <1>5, GoodRefuse
<1>6. CASE CanRemoveAdmin(admins, provs, adm)
  <2>1. PICK nu : nu = RemoveFromAdmins(admins, provs, adm)
    OBVIOUS
  <2>2. removeAdmin(adm, Goto(p, m) /\ UNCHANGED lock, Goto(p, Idle) /\ lock' = None)
    BY <1>2, <1>6
  <2>3. PICK ok \in Outcomes("db") :
          IF ok /\ adm \in Active(adminRows)
          THEN /\ adminRows' = [adminRows EXCEPT ![adm] = Deleted]
               /\ admins' = nu
               /\ Goto(p, m) /\ UNCHANGED lock
               /\ UNCHANGED <<provs, stale>>
          ELSE /\ ReloadAdminResources(provs, nu)
               /\ Goto(p, Idle) /\ lock' = None
               /\ UNCHANGED adminRows
    BY <2>1, <2>2 DEF removeAdmin
  <2>4. provRows' = provRows
    BY <2>2 DEF removeAdmin
  <2>5. /\ provRows \in ProvTable /\ adminRows \in AdminTable /\ AdminsRecord(admins)
        /\ Found(provs, provRows) /\ Configured(provRows)
        /\ \A q \in Procs : LocFound(loc[q], provs, provRows)
    BY DEF Typed, Tables, Good
  <2>6. CASE ok /\ adm \in Active(adminRows)
    <3>1. /\ adminRows' = Write(adminRows, adm, Deleted) /\ admins' = nu /\ Goto(p, m)
          /\ provs' = provs /\ stale' = stale
      BY <2>3, <2>6 DEF Write
    <3>2. loc'[p] = m /\ \A q \in Procs : q # p => loc'[q] = loc[q]
      BY <3>1, GotoIs
    <3>3. PICK i, e : l = [pc |-> "removeAdmin", id |-> l.id, i |-> i, n |-> e]
      BY <1>2, <1>3 DEF LocOK
    <3>4. /\ m.pc = "removeAdmin" /\ m.id = l.id /\ m.i = l.i + 1 /\ m.n = l.n
      <4>1. PICK x : x = l.id
        OBVIOUS
      <4>2. l = [pc |-> "removeAdmin", id |-> x, i |-> i, n |-> e]
        BY <3>3, <4>1
      <4>3. m = [pc |-> "removeAdmin", id |-> x, i |-> i + 1, n |-> e]
        BY <1>1, <4>2, SMTT(60)
      <4> QED BY <4>2, <4>3
    <3>5. l.id \in DOMAIN provs.byID
      BY <1>1, <1>2, <2>5 DEF LocFound
    <3>6. l.id \in Active(provRows) /\ n = provRows[l.id].name
      BY <1>1, <2>5, <3>5 DEF Found
    <3>7. \A q \in Procs : LocFound(loc'[q], provs', provRows')
      <4>1. LocFound(m, provs', provRows')
        BY <2>4, <3>1, <3>4, <3>5 DEF LocFound
      <4> QED BY <1>4, <3>2, <4>1, IdleFound
    <3>8. ASSUME ~ stale
          PROVE  /\ Match(provs', admins', provRows', adminRows')
                 /\ \A q \in Procs : Looping(loc'[q], admins', provRows')
      <4>1. Match(provs, admins, provRows, adminRows) /\ Looping(l, admins, provRows)
        BY <1>1, <1>3, <3>8 DEF Good
      <4>2. PICK s, N : s = LoadByProvisioner(admins, n) /\ N = NamesOf(provRows, adminRows)
        OBVIOUS
      <4>3. Slice(s, Of(N, n)) /\ Left(l.i, l.n, s)
        BY <1>2, <2>5, <3>6, <4>1, <4>2, SliceOf DEF Looping
      <4>4. s.len # 0 /\ l.i \in l.i .. l.n
        <5>1. l.i \in Nat /\ l.n \in Nat /\ s.len = l.n + 1 - l.i
          BY <4>3 DEF Left
        <5> QED BY <1>2, <5>1, SMTT(60)
      <4>5. s = admins.byProv[n]
        BY <4>2, <4>4 DEF LoadByProvisioner
      <4>6. adm = s.arr[l.i]
        BY <1>1, <4>5
      <4>7. adm \in Of(N, n)
        <5>1. {s.arr[k] : k \in l.i .. l.n} = Of(N, n)
          BY <4>3 DEF Left, Slice, Lists
        <5> QED BY <4>4, <4>6, <5>1
      <4>8. provRows[adminRows[adm].prov].name = n
        BY <2>6, <4>2, <4>7 DEF Of, NamesOf
      <4>9. /\ Match(provs, nu, provRows, Write(adminRows, adm, Deleted))
            /\ Shrunk(LoadByProvisioner(admins, provRows[adminRows[adm].prov].name), adm,
                      LoadByProvisioner(nu, provRows[adminRows[adm].prov].name))
        BY <1>6, <2>1, <2>5, <4>1, MatchRemovedAdmin
      <4>10. PICK t : t = LoadByProvisioner(nu, n)
        OBVIOUS
      <4>11. Shrunk(s, s.arr[l.i], t)
        BY <4>2, <4>6, <4>8, <4>9, <4>10
      <4>12. Left(l.i + 1, l.n, t)
        BY <1>2, <4>3, <4>11, LeftNext
      <4>13. Looping(m, admins', provRows')
        BY <2>4, <3>1, <3>4, <3>6, <4>10, <4>12 DEF Looping
      <4>14. \A q \in Procs : Looping(loc'[q], admins', provRows')
        BY <1>4, <3>2, <4>13, IdleFound, SMTT(60)
      <4> QED BY <2>4, <3>1, <4>9, <4>14
    <3>9. "reload" \notin work.faults => ~ stale' /\ Loadable(provRows', adminRows')
      BY <3>1, <3>8 DEF Good, Match
    <3> QED
      BY <1>2, <1>3, <2>4, <2>5, <3>1, <3>7, <3>8, <3>9, GoodStep
  <2>7. CASE ~ (ok /\ adm \in Active(adminRows))
    <3>1. ReloadAdminResources(provs, nu) /\ adminRows' = adminRows /\ Goto(p, Idle)
      BY <2>3, <2>7
    <3>2. \A q \in Procs : \A c, d : LocFound(loc'[q], c, provRows) /\ Looping(loc'[q], d, provRows)
      BY <1>4, <2>4, <3>1, GrownSame, IdleOK, OthersFound
    <3> QED
      BY <1>2, <1>3, <2>4, <2>5, <3>1, <3>2, GoodReload
  <2> QED BY <2>6, <2>7
<1> QED
  BY <1>5, <1>6

LEMMA GoodDeleteRow ==
  ASSUME Typed, Orderly, Good, UNCHANGED work, NEW p \in Procs, DeleteProvisionerRow(p)
  PROVE  Good'
<1>1. PICK l, id, nu : l = loc[p] /\ id = l.id /\ nu = RemoveFromProvisioners(provs, id)
  OBVIOUS
<1>2. /\ lock = p /\ l.pc = "removeAdmin" /\ l.i > l.n /\ boot' = boot /\ adminRows' = adminRows /\ Goto(p, Idle)
  BY <1>1 DEF DeleteProvisionerRow
<1>3. PICK ok \in Outcomes("db") :
        IF ok /\ id \in Active(provRows)
        THEN /\ provRows' = [provRows EXCEPT ![id] = Deleted]
             /\ provs' = nu
             /\ UNCHANGED <<admins, stale>>
        ELSE ReloadAdminResources(nu, admins) /\ UNCHANGED provRows
  BY <1>1 DEF DeleteProvisionerRow
<1>4. boot = "up" /\ LocOK(l)
  BY <1>1, <1>2, RowsDiffer DEF Typed, Locs
<1>5. \A q \in Procs : loc'[q].pc = "idle"
  <2>1. loc'[p] = Idle /\ \A q \in Procs : q # p => loc'[q] = loc[q] /\ loc[q].pc = "idle"
    BY <1>1, <1>2, GotoIs, Quiet
  <2> QED BY <2>1, IdleOK
<1>6. /\ provRows \in ProvTable /\ adminRows \in AdminTable /\ id \in ProvIDs
      /\ Found(provs, provRows) /\ Configured(provRows) /\ LocFound(l, provs, provRows)
  BY <1>1, <1>2, <1>4 DEF Typed, Tables, Good, LocOK
<1>7. id \in DOMAIN provs.byID
  BY <1>1, <1>2, <1>6 DEF LocFound
<1>8. CASE ok /\ id \in Active(provRows)
  <2>1. provRows' = Write(provRows, id, Deleted) /\ provs' = nu /\ admins' = admins /\ stale' = stale
    BY <1>3, <1>8 DEF Write
  <2>2. Found(provs', provRows')
    BY <1>1, <1>6, <1>7, <2>1, FoundDeleted
  <2>3. Configured(provRows')
    <3>1. Active(provRows') = Active(provRows) \ {id} /\ \A x \in Active(provRows) : x # id => provRows'[x] = provRows[x]
      BY <1>6, <2>1, ProvDeleted
    <3> QED BY <1>6, <3>1 DEF Configured
  <2>4. ASSUME ~ stale PROVE Match(provs', admins', provRows', adminRows')
    <3>1. Match(provs, admins, provRows, adminRows) /\ Looping(l, admins, provRows)
      BY <1>1, <1>4, <2>4 DEF Good
    <3>2. PICK s, n, N : /\ n = provRows[id].name /\ s = LoadByProvisioner(admins, n)
                         /\ N = NamesOf(provRows, adminRows)
      OBVIOUS
    <3>3. Slice(s, Of(N, n)) /\ Left(l.i, l.n, s)
      BY <1>1, <1>2, <1>6, <1>8, <3>1, <3>2, SliceOf DEF Looping
    <3>4. ~ (l.i <= l.n)
      <4>1. l.i \in Nat /\ l.n \in Nat
        BY <3>3 DEF Left
      <4> QED BY <1>2, <4>1, SMTT(60)
    <3>5. Of(N, n) = {}
      BY <3>3, <3>4, LeftNone
    <3>6. Match(nu, admins, provRows', adminRows)
      BY <1>1, <1>6, <1>8, <2>1, <3>1, <3>2, <3>5, MatchDeletedProvisioner
    <3> QED BY <1>2, <2>1, <3>6
  <2>5. "reload" \notin work.faults => ~ stale' /\ Loadable(provRows', adminRows')
    BY <2>1, <2>4 DEF Good, Match
  <2>6. \A q \in Procs : LocFound(loc'[q], provs', provRows') /\ Looping(loc'[q], admins', provRows')
    BY <1>5, IdleFound
  <2> QED
    BY <1>2, <1>4, <2>1, <2>2, <2>3, <2>4, <2>5, <2>6, GoodStep
<1>9. CASE ~ (ok /\ id \in Active(provRows))
  <2>1. ReloadAdminResources(nu, admins) /\ provRows' = provRows
    BY <1>3, <1>9
  <2>2. Found(nu, provRows)
    BY <1>1, <1>6, FoundRemoved
  <2>3. \A q \in Procs : \A c, d : LocFound(loc'[q], c, provRows) /\ Looping(loc'[q], d, provRows)
    BY <1>5, IdleFound
  <2> QED
    BY <1>2, <1>4, <2>1, <2>2, <2>3, GoodReload
<1> QED
  BY <1>8, <1>9

LEMMA GoodRequest ==
  ASSUME Typed, Orderly, Good, UNCHANGED work, NEW p \in work.procs, AdminRequest(p) \/ ProvisionerRequest(p)
  PROVE  Good'
<1>1. p \in Procs
  BY WorkIs DEF Typed
<1>2. CASE AdminRequest(p)
  BY <1>1, <1>2, GoodCreateAdmin, GoodStoreAdmin, GoodUpdateAdmin, GoodRemoveAdmin DEF AdminRequest
<1>3. CASE ProvisionerRequest(p)
  BY <1>1, <1>3, GoodStoreProvisioner, GoodUpdateRequest, GoodUpdateProvisioner, GoodDelete,
     GoodRemoveProvisioner, GoodLoop, GoodDeleteRow DEF ProvisionerRequest
<1> QED
  BY <1>2, <1>3

LEMMA CoherenceNext ==
  ASSUME Typed, CoherenceInv, Next
  PROVE  CoherenceInv'
<1>1. UNCHANGED work
  BY DEF Next
<1>2. SUFFICES ASSUME Orderly, Good PROVE Good'
  BY <1>1 DEF CoherenceInv, Orderly
<1>3. CASE \E p \in work.procs : AdminRequest(p) \/ ProvisionerRequest(p)
  BY <1>1, <1>2, <1>3, GoodRequest
<1>4. CASE ~ \E p \in work.procs : AdminRequest(p) \/ ProvisionerRequest(p)
  BY <1>1, <1>2, <1>4, GoodBoot DEF Next
<1> QED
  BY <1>3, <1>4

\* CoherenceInv: with orderly requests the collections hold exactly the rows of the
\* tables unless the last ReloadAdminResources failed, what a request has looked up
\* is still there when it stores, and the turns that are left of the loop of
\* RemoveProvisioner read the administrators that are left.
THEOREM CollectionsCoherent == Spec => []CoherenceInv
<1>1. Init => Typed /\ CoherenceInv
  BY TypedInit, GoodInit DEF CoherenceInv
<1>2. Typed /\ CoherenceInv /\ [Next]_vars => Typed' /\ CoherenceInv'
  BY TypedNext, TypedStutter, CoherenceNext, CoherenceStutter
<1> QED
  BY <1>1, <1>2, PTL DEF Spec

\* DatabaseLoadable: with orderly requests and reloads that do not fail,
\* Authority.init can load the tables at every moment, also between two writes of
\* RemoveProvisioner.
THEOREM DatabaseAlwaysLoadable == Spec => []DatabaseLoadable
<1>1. CoherenceInv => DatabaseLoadable
  BY DEF CoherenceInv, Good, DatabaseLoadable
<1> QED
  BY <1>1, CollectionsCoherent, PTL

LEMMA MatchAnswers ==
  ASSUME Tables, Configured(provRows), Match(provs, admins, provRows, adminRows), RolesKept, OwnKeys
  PROVE  /\ provs = LoadProvisioners(provRows)
         /\ View(admins) = View(LoadAdmins(provRows, adminRows))
<1>1. provRows \in ProvTable /\ adminRows \in AdminTable /\ ProvsTyped(provs)
  BY DEF Tables
<1>2. PICK c, d, N : /\ c = LoadProvisioners(provRows) /\ d = LoadAdmins(provRows, adminRows)
                     /\ N = NamesOf(provRows, adminRows)
  OBVIOUS
<1>3. /\ Loadable(provRows, adminRows) /\ ProvsOf(provs, provRows) /\ KeysOf(provs, provRows)
      /\ AdminsOf(admins, adminRows, N) /\ CountsOf(admins, adminRows, N)
  BY <1>2 DEF Match
<1>4. Match(c, d, provRows, adminRows)
  BY <1>1, <1>2, <1>3, MatchLoaded
<1>5. /\ ProvsOf(c, provRows) /\ KeysOf(c, provRows)
      /\ AdminsOf(d, adminRows, N) /\ CountsOf(d, adminRows, N)
  BY <1>2, <1>4 DEF Match
<1>6. ProvsTyped(c)
  BY <1>1, <1>2, LoadProvisionersTyped
<1>7. provs = c
  BY <1>1, <1>3, <1>5, <1>6, ProvsAgree
<1>8. View(admins) = View(d)
  BY <1>3, <1>5, ViewsAgree
<1> QED
  BY <1>2, <1>7, <1>8

\* CacheMatchesDatabase: with orderly requests that change no role, between two
\* requests the collections answer what ReloadAdminResources would load from the
\* tables (Authority.StoreAdmin to Authority.RemoveProvisioner).
THEOREM CacheAlwaysMatches == Spec => []CacheMatchesDatabase
<1>1. Typed /\ CoherenceInv => CacheMatchesDatabase
  <2>1. SUFFICES ASSUME Typed, CoherenceInv, Orderly, RolesKept, OwnKeys, boot = "up", ~ stale
                 PROVE  /\ provs = LoadProvisioners(provRows)
                        /\ View(admins) = View(LoadAdmins(provRows, adminRows))
    BY DEF CacheMatchesDatabase
  <2>2. Tables /\ Configured(provRows) /\ Match(provs, admins, provRows, adminRows)
    BY <2>1 DEF Typed, CoherenceInv, Good
  <2> QED
    BY <2>1, <2>2, MatchAnswers
<1> QED
  BY <1>1, AdminStoreTyped, CollectionsCoherent, PTL

=============================================================================
