------------------------------ MODULE Listing ------------------------------
(***************************************************************************)
(* Listing the administrators and the provisioners page by page while they  *)
(* change: the loops of AdminClient.GetAdmins and GetProvisioners            *)
(* (ca/adminClient.go), the handlers they call (authority/admin/api, api) and *)
(* Find, Store, Remove and Update of the sorted lists of the two collections *)
(* (authority/administrator/collection.go,                                   *)
(* authority/provisioner/collection.go).  A page is read under the read lock *)
(* and a change made under the write lock of adminMutex, so each is a step.  *)
(***************************************************************************)
EXTENDS Naturals, Sequences, SequencesExt, FiniteSets, FiniteSetsExt

CONSTANTS
  Ids,         \* identifiers, a set of positive numbers in their order
  Hash,        \* what provisionerSum makes of an identifier, injective
  Limit,       \* the entries of a page: what the client asks for, 100
  MaxChanges,  \* bounds the changes during a listing
  Start        \* the sets of entries a listing may start from

VARIABLES
  sorted,   \* Collection.sorted: entries in the order of their keys
  kind,     \* which collection is listed
  cursor,   \* the cursor of the loop; 0 is the empty string
  listed,   \* the entries the loop has appended
  done,     \* the loop has returned
  changes,  \* the changes made since the loop began
  stayed,   \* history: the entries present since the loop began
  rekeyed   \* history: a provisioner was removed, updated or reloaded since

vars == << sorted, kind, cursor, listed, done, changes, stayed, rekeyed >>

\* The hash of a provisioner below its index; large enough for every Hash.
Base == 1 + Max({Hash[i] : i \in Ids})

Entry(id, key) == [id |-> id, key |-> key]

\* The entry appended to a sorted list, and the list sorted again.
Sorted(s, e) ==
  SelectSeq(s, LAMBDA x : x.key < e.key) \o << e >> \o SelectSeq(s, LAMBDA x : x.key > e.key)

Entries(s) == {e.id : e \in Range(s)}

\* administrator.Collection.Store: sorted by the identifier.
StoreAdmin(s, id) == Sorted(s, Entry(id, id))

\* provisioner.Collection.Store: sorted by the number of entries at the time,
\* in the first four bytes of the key, and then by the hash.
StoreProvisioner(s, id) == Sorted(s, Entry(id, Len(s) * Base + Hash[id]))

Store(s, id) == IF kind = "admins" THEN StoreAdmin(s, id) ELSE StoreProvisioner(s, id)

Without(s, id) == SelectSeq(s, LAMBDA e : e.id # id)

\* provisioner.Collection.Update; an administrator is updated in place.
Update(s, id) == IF kind = "admins" THEN s ELSE StoreProvisioner(Without(s, id), id)

\* The list of entries stored in the given order.
Build(order) == FoldLeft(Store, <<>>, order)

\* ReloadAdminResources stores the rows in the order of their keys in the table.
Reload(S) == Build(SetToSortSeq(S, <))

\* Mutant: the cursor is the last entry of the page.
FindRepeats(s, from) ==
  LET after == SelectSeq(s, LAMBDA e : e.key >= from)
  IN [page |-> SubSeq(after, 1, Min({Len(after), Limit})),
      next |-> IF Len(after) > Limit THEN after[Limit].key ELSE 0]

\* administrator.Collection.Find: the entries from the cursor on, and the key of
\* the next one.
Find(s, from) ==
  LET after == SelectSeq(s, LAMBDA e : e.key >= from)
  IN [page |-> SubSeq(after, 1, Min({Len(after), Limit})),
      next |-> IF Len(after) > Limit THEN after[Limit + 1].key ELSE 0]

\* provisioner.Collection.Find trims the zeros that lead the key of the next
\* entry and puts them back, so the cursor stands for the same number.
FindProvisioners(s, from) == Find(s, from)

-----------------------------------------------------------------------------
Init ==
  /\ kind \in {"admins", "provisioners"}
  /\ \E ids \in Start : \E order \in SetToSeqs(ids) : sorted = Build(order)
  /\ cursor = 0 /\ listed = <<>> /\ done = FALSE /\ changes = 0
  /\ stayed = Entries(sorted) /\ rekeyed = FALSE

\* One turn of the loop: GetAdminsPaginate or GetProvisionersPaginate, with the
\* handler GetAdmins or GetProvisioners and its Find.
GetPage ==
  LET found == IF kind = "admins" THEN Find(sorted, cursor)
               ELSE FindProvisioners(sorted, cursor)
  IN /\ ~done
     /\ listed' = listed \o [i \in DOMAIN found.page |-> found.page[i].id]
     /\ cursor' = found.next
     /\ done' = (found.next = 0)
     /\ UNCHANGED << sorted, kind, changes, stayed, rekeyed >>

\* The loop gives up when a page cannot be had.
GetPageFails ==
  /\ ~done /\ done' = TRUE
  /\ stayed' = {} /\ listed' = <<>> /\ cursor' = 0
  /\ UNCHANGED << sorted, kind, changes, rekeyed >>

Change(nu) ==
  /\ ~done /\ changes < MaxChanges
  /\ changes' = changes + 1
  /\ sorted' = nu
  /\ stayed' = stayed \cap Entries(nu)
  /\ UNCHANGED << kind, cursor, listed, done >>

Add == \E id \in Ids \ Entries(sorted) : Change(Store(sorted, id)) /\ UNCHANGED rekeyed

Drop == \E id \in Entries(sorted) : Change(Without(sorted, id)) /\ rekeyed' = TRUE

Modify == \E id \in Entries(sorted) : Change(Update(sorted, id)) /\ rekeyed' = TRUE

\* A change that fails reloads both collections.
ReloadAdminResources ==
  Change(Reload(Entries(sorted))) /\ rekeyed' = TRUE

\* The caller has the list, or the error.
Returned == done /\ UNCHANGED vars

Next == GetPage \/ GetPageFails \/ Add \/ Drop \/ Modify \/ ReloadAdminResources \/ Returned

Spec == Init /\ [][Next]_vars

-----------------------------------------------------------------------------
\* "GetAdmins returns all admins": an administrator that is there during the
\* whole listing is returned, and none is returned twice, whatever is added,
\* removed, updated or reloaded between two pages.  For provisioners, whose keys
\* depend on how many there are, this holds while they are only added.
ListingComplete ==
  kind = "admins" \/ ~rekeyed =>
    /\ done => stayed \subseteq Range(listed)
    /\ IsInjective(listed)

\* The same for provisioners without that restriction.
\* Does not hold, see the README.
ProvisionersListed == done => stayed \subseteq Range(listed)

=============================================================================
