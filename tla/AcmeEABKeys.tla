---------------------------- MODULE AcmeEABKeys ----------------------------
(***************************************************************************)
(* The store of external account keys, acme/db/nosql/eab.go: the key        *)
(* table, the reference table and the list of key IDs per provisioner.      *)
(*                                                                         *)
(* externalAccountKeyMutex makes each operation exclude the others, so one  *)
(* operation runs at a time; each of its writes is a step, and after any of *)
(* them a database error, or a stop of the server, may end it.              *)
(***************************************************************************)
EXTENDS FiniteSets

CONSTANTS
  Provs,     \* provisioner IDs
  KeyIDs,    \* key IDs randID can return: bounds the keys ever created
  Refs,      \* references an administrator may give a key
  Accounts,  \* accounts a key may be bound to
  None

VARIABLES
  key,       \* table acme_external_account_keys
  refIndex,  \* table acme_external_account_keyID_reference_index
  list,      \* table acme_external_account_keyID_provisionerID_index ...
  rows,      \* ... and the provisioners that have a row in it
  op,        \* the operation that holds the mutex
  created,   \* history: keys whose creation was answered without an error
  used,      \* history: key IDs randID has returned
  conflict   \* the last operation failed on its compare-and-swap of the list

index == <<list, rows>>
vars == <<key, refIndex, index, op, created, used, conflict>>

Key == [prov: Provs, ref: Refs \cup {None}, acc: Accounts \cup {None}]

Labels == {"idle", "addEAKID", "saveReference", "deleteKey", "deleteEAKID"}

Idle == [pc |-> "idle", id |-> None, prov |-> None, ref |-> None]

\* A row of the list table may hold no IDs ("[]"), unlike a missing row.
TypeOK ==
  /\ key \in [KeyIDs -> Key \cup {None}]
  /\ refIndex \in [Provs \X Refs -> KeyIDs \cup {None}]
  /\ list \in [Provs -> SUBSET KeyIDs] /\ rows \subseteq Provs
  /\ op \in [pc: Labels, id: KeyIDs \cup {None}, prov: Provs \cup {None},
             ref: Refs \cup {None}]
  /\ created \subseteq KeyIDs /\ used \subseteq KeyIDs
  /\ conflict \in BOOLEAN

Init ==
  /\ key = [k \in KeyIDs |-> None]
  /\ refIndex = [r \in Provs \X Refs |-> None]
  /\ list = [v \in Provs |-> {}]
  /\ rows = {}
  /\ op = Idle
  /\ created = {}
  /\ used = {}
  /\ conflict = FALSE

At(label) == op.pc = label

Goto(label) == op' = [op EXCEPT !.pc = label]

\* The operation returns and releases the mutex.
Return == op' = Idle

-----------------------------------------------------------------------------
(* The list of a provisioner.                                               *)

\* addEAKID and deleteEAKID take a missing row for no IDs, and compare-and-swap
\* the list from what they read, where no IDs are compared as a missing row.
saveList(v, new) ==
  /\ v \in rows <=> list[v] # {}
  /\ list' = [list EXCEPT ![v] = new]
  /\ rows' = rows \cup {v}

saveListFails(v) ==
  /\ v \in rows /\ list[v] = {}
  /\ UNCHANGED index

-----------------------------------------------------------------------------
(* CreateExternalAccountKey.                                                *)

\* The key row is saved first
CreateExternalAccountKey(k, v, r) ==
  /\ At("idle")
  /\ k \notin used
  /\ used' = used \cup {k}
  /\ key' = [key EXCEPT ![k] = [prov |-> v, ref |-> r, acc |-> None]]
  /\ op' = [pc |-> "addEAKID", id |-> k, prov |-> v, ref |-> r]
  /\ conflict' = FALSE
  /\ UNCHANGED <<refIndex, index, created>>

\* (unless there is no ID or the save fails) ...
CreateFails ==
  /\ At("idle")
  /\ conflict' = FALSE
  /\ UNCHANGED <<key, refIndex, index, op, created, used>>

\* ... then its ID is added to the provisioner's list ...
addEAKID ==
  /\ At("addEAKID")
  /\ \/ /\ saveList(op.prov, list[op.prov] \cup {op.id})
        /\ IF op.ref = None
             THEN Return /\ created' = created \cup {op.id}
             ELSE Goto("saveReference") /\ UNCHANGED created
        /\ UNCHANGED conflict
     \/ /\ saveListFails(op.prov)
        /\ conflict' = TRUE
        /\ Return
        /\ UNCHANGED created
  /\ UNCHANGED <<key, refIndex, used>>

\* ... and the reference is saved last, unless the provisioner has it already.
saveReference ==
  /\ At("saveReference")
  /\ LET r == <<op.prov, op.ref>> IN
     \/ /\ refIndex[r] = None
        /\ refIndex' = [refIndex EXCEPT ![r] = op.id]
        /\ created' = created \cup {op.id}
     \/ /\ refIndex[r] # None
        /\ UNCHANGED <<refIndex, created>>
  /\ Return
  /\ UNCHANGED <<key, index, used, conflict>>

-----------------------------------------------------------------------------
(* DeleteExternalAccountKey.                                                *)

\* Mutant: the reference is left behind.
DeleteKeepsReference(k, v) ==
  /\ At("idle")
  /\ key[k] # None /\ key[k].prov = v
  /\ op' = [pc |-> "deleteKey", id |-> k, prov |-> v, ref |-> None]
  /\ conflict' = FALSE
  /\ UNCHANGED <<key, refIndex, index, created, used>>

\* The reference of a stored key of the provisioner is deleted first, whichever
\* key it leads to ...
DeleteExternalAccountKey(k, v) ==
  /\ At("idle")
  /\ key[k] # None /\ key[k].prov = v
  /\ refIndex' = IF key[k].ref = None
                   THEN refIndex
                   ELSE [refIndex EXCEPT ![<<v, key[k].ref>>] = None]
  /\ op' = [pc |-> "deleteKey", id |-> k, prov |-> v, ref |-> None]
  /\ conflict' = FALSE
  /\ UNCHANGED <<key, index, created, used>>

\* ... then the key ...
deleteKey ==
  /\ At("deleteKey")
  /\ key' = [key EXCEPT ![op.id] = None]
  /\ Goto("deleteEAKID")
  /\ UNCHANGED <<refIndex, index, created, used, conflict>>

\* Mutant: the list is emptied with its first element.
deleteEAKIDAll ==
  /\ At("deleteEAKID")
  /\ list' = [list EXCEPT ![op.prov] = {}]
  /\ UNCHANGED rows
  /\ Return
  /\ UNCHANGED <<key, refIndex, created, used, conflict>>

\* ... and its ID is removed from the list (removeElement) last.
deleteEAKID ==
  /\ At("deleteEAKID")
  /\ \/ /\ saveList(op.prov, list[op.prov] \ {op.id})
        /\ UNCHANGED conflict
     \/ /\ saveListFails(op.prov)
        /\ conflict' = TRUE
  /\ Return
  /\ UNCHANGED <<key, refIndex, created, used>>

-----------------------------------------------------------------------------
\* UpdateExternalAccountKey saves the caller's copy of a stored key, here to
\* bind it; it refuses to change the provisioner or the reference.
UpdateExternalAccountKey(k, v, a) ==
  /\ At("idle")
  /\ key[k] # None /\ key[k].prov = v
  /\ key' = [key EXCEPT ![k].acc = a]
  /\ conflict' = FALSE
  /\ UNCHANGED <<refIndex, index, op, created, used>>

\* A database call fails or the server stops: what was written stays.
Fail ==
  /\ ~At("idle")
  /\ Return
  /\ UNCHANGED <<key, refIndex, index, created, used, conflict>>

Next ==
  \/ \E k \in KeyIDs, v \in Provs :
       \/ \E r \in Refs \cup {None} : CreateExternalAccountKey(k, v, r)
       \/ DeleteExternalAccountKey(k, v)
       \/ \E a \in Accounts : UpdateExternalAccountKey(k, v, a)
  \/ CreateFails
  \/ addEAKID
  \/ saveReference
  \/ deleteKey
  \/ deleteEAKID
  \/ Fail

Spec == Init /\ [][Next]_vars

-----------------------------------------------------------------------------
(* Properties.                                                              *)

\* GetExternalAccountKeyByReference never follows a reference to a key that is
\* gone, or to a key of another provisioner or reference, wherever an operation
\* stopped: CreateExternalAccountKey writes the key before the reference,
\* DeleteExternalAccountKey deletes the reference before the key.
ReferenceLeadsToKey ==
  \A v \in Provs, r \in Refs :
    LET k == refIndex[<<v, r>>]
    IN  k # None => key[k] # None /\ key[k].prov = v /\ key[k].ref = r

\* A key whose creation was reported as a success stays in its provisioner's
\* list as long as it is stored, whatever is added to the list and deleted from
\* it meanwhile (addEAKID, deleteEAKID).  GetExternalAccountKeys reads the keys
\* of that list, and fails while it names one that a failed delete has removed.
CreatedKeyListed ==
  \A k \in created : key[k] # None => k \in list[key[k].prov]

\* The list that addEAKID and deleteEAKID read is the list the database compares
\* ("ensure that the DB gets the expected value when the slice is empty"), so an
\* operation never fails for having read something else.
\* Does not hold, see the README.
ListComparesEqual == ~conflict

=============================================================================
