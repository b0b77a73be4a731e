------------------------------ MODULE MCAdmin ------------------------------
(* The administration of the authority: its policy, the tables of           *)
(* provisioners and administrators, and the listing of the two.  A          *)
(* behaviour exercises one part, chosen at the start: requests about the    *)
(* policy, one of the workloads below for the tables, or a listing.         *)
EXTENDS AuthorityPolicy, AdminStore, SequencesExt

CONSTANTS s1, s2, s3, n1, n2, k1, k2, c1, p1, p2

VARIABLES part, sorted, kind, cursor, listed, done, changes, stayed, rekeyed

Policy(x, ssh, ok) == [x509 |-> x, ssh |-> ssh, parses |-> ok]

\* Policies that allow all or one of the subjects of administrators, one with
\* SSH names only, and one that does not parse.
MCPolicies ==
  { Policy({s1, s2}, FALSE, TRUE), Policy({s1}, FALSE, TRUE),
    Policy(Nil, TRUE, TRUE), Policy({s1}, FALSE, FALSE) }

JWK(name, kid) == [name |-> name, kid |-> kid, client |-> None]
OIDC(name, client) == [name |-> name, kid |-> None, client |-> client]

\* The first provisioner, one with another name and key, and one that is found
\* by its client ID.
First == JWK(n1, k1)
TwoNames == {First, JWK(n2, k2)}
MCConfigs == TwoNames \cup {OIDC(n2, c1)}

\* All requests that change neither a role nor a name, one at a time.
Alone ==
  [procs |-> {p1}, rows |-> 3, subjects |-> {s1, s2}, configs |-> MCConfigs,
   faults |-> {"db", "reload", "crash"},
   requests |-> {"CreateAdmin", "RemoveAdmin", "StoreProvisioner", "UpdateProvisioner",
                 "RemoveProvisioner"}]

\* The removal of a provisioner with up to three administrators.
Removal ==
  [procs |-> {p1}, rows |-> 4, subjects |-> {s1, s2, s3}, configs |-> TwoNames,
   faults |-> {"db", "crash"},
   requests |-> {"CreateAdmin", "StoreProvisioner", "RemoveProvisioner"}]

\* Two requests at a time, changes of roles included.
Concurrent ==
  [procs |-> {p1, p2}, rows |-> 2, subjects |-> {s1, s2}, configs |-> MCConfigs,
   faults |-> {"db"},
   requests |-> {"CreateAdmin", "UpdateAdmin", "RemoveAdmin", "StoreProvisioner",
                 "UpdateProvisioner"}]

\* Changes of roles, one at a time.
Roles ==
  [procs |-> {p1}, rows |-> 3, subjects |-> {s1, s2}, configs |-> {},
   faults |-> {}, requests |-> {"CreateAdmin", "UpdateAdmin"}]

MCWorkloads == {Alone, Removal, Concurrent, Roles}

\* LoadProvisioners and LoadAdmins are what the loops of ReloadAdminResources
\* build, one Store after the other, for every table of two provisioners and
\* two administrators.
InOrder(ids) == SetToSortSeq(ids, <)
StoredProvisioners(pr) ==
  FoldLeft(LAMBDA c, i : StoreInProvisioners(c, Provisioner(i, pr[i])),
           NewProvisioners, InOrder(Active(pr)))
StoredAdmins(pr, ar) ==
  FoldLeft(LAMBDA c, i : StoreInAdmins(c, i, ar[i], pr[ar[i].prov].name),
           NewAdmins, InOrder(Active(ar)))
ASSUME LoadIsLoop ==
  \A pr \in [1 .. 2 -> MCConfigs \cup {None, Deleted}] :
    \A ar \in [1 .. 2 -> [sub: {s1, s2}, prov: 1 .. 2, type: Types] \cup {None, Deleted}] :
      Loadable(pr, ar) =>
        /\ LoadProvisioners(pr) = StoredProvisioners(pr)
        /\ View(LoadAdmins(pr, ar)) = View(StoredAdmins(pr, ar))

\* Five entries whose hashes are in another order, two to a page, three or
\* four of which the listing finds at the start.
MCHash == <<3, 1, 4, 2, 5>>
Paged ==
  INSTANCE Listing WITH
    Ids <- 1 .. 5, Hash <- MCHash, Limit <- 2, MaxChanges <- 3,
    Start <- {{1, 2, 3}, {2, 3, 4}, {1, 3, 4, 5}}

listVars == <<sorted, kind, cursor, listed, done, changes, stayed, rekeyed>>

\* No listing.
Unlisted ==
  /\ sorted = <<>> /\ kind = None /\ cursor = 0 /\ listed = <<>> /\ done = TRUE
  /\ changes = 0 /\ stayed = {} /\ rekeyed = FALSE

MCInit ==
  /\ part \in {"policy", "store", "list"}
  /\ Init /\ (IF part = "store" THEN work # Roles ELSE work = Alone)
  /\ PolicyInit /\ (part # "policy" => adminSubjects = {s1})
  /\ IF part = "list" THEN Paged!Init ELSE Unlisted

MCNext ==
  \/ part = "policy" /\ PolicyNext /\ UNCHANGED <<part, vars, listVars>>
  \/ part = "store" /\ Next /\ UNCHANGED <<part, policyVars, listVars>>
  \/ part = "list" /\ Paged!Next /\ UNCHANGED <<part, policyVars, vars>>

all == <<part, policyVars, vars, listVars>>

MCSpec == MCInit /\ [][MCNext]_all

RolesSpec ==
  /\ part = "roles" /\ PolicyInit /\ Init /\ work = Roles /\ Unlisted
  /\ [][Next /\ UNCHANGED <<part, policyVars, listVars>>]_all

-----------------------------------------------------------------------------
\* "GetAdmins returns all admins": an administrator that is there during the
\* whole listing is returned, and none is returned twice, whatever is added,
\* removed, updated or reloaded between two pages (AdminClient.GetAdmins,
\* administrator.Collection.Find).  For provisioners, whose keys depend on how
\* many there are, this holds while they are only added.
ListingComplete == part = "list" => Paged!ListingComplete

=============================================================================
