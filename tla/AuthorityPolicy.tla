-------------------------- MODULE AuthorityPolicy --------------------------
(***************************************************************************)
(* The authority policy: the row of the admin database that holds it, the  *)
(* policy engine the running authority evaluates, and the four handlers of *)
(* the admin API that read and change it.                                  *)
(*                                                                         *)
(*   authority/policy.go                the authority's operations         *)
(*   authority/admin/api/policy.go      the handlers                       *)
(*   authority/admin/db/nosql/policy.go the row                            *)
(*                                                                         *)
(* A handler first reads the policy in a critical section of its own and   *)
(* then creates, updates or removes it in a second one, so two requests    *)
(* interleave between the two.  Both sections hold adminMutex, which the   *)
(* operations on admins hold as well.  Issuing certificates reads the      *)
(* engine without a lock.                                                  *)
(***************************************************************************)
EXTENDS Naturals, FiniteSets

CONSTANTS
    Requests,       \* the admin API requests in flight
    AdminSubjects,  \* the subjects of admins
    Policies,       \* the policies a request may carry, records of PolicySet
    Faults,         \* database calls that may fail: "read", "write"
    Nil             \* no policy, no engine, no holder

(* What the properties tell apart in a linkedca.Policy: the subjects its   *)
(* X.509 part allows (Nil: it has no X.509 part), whether it has an SSH    *)
(* part, and whether its names parse.                                      *)
PolicySet == [x509 : SUBSET AdminSubjects \cup {Nil}, ssh : BOOLEAN, parses : BOOLEAN]

ASSUME PolicyAssumption ==
    /\ Policies \subseteq PolicySet
    /\ Faults \subseteq {"read", "write"}
    /\ Nil \notin Policies \cup Requests

VARIABLES
    row,            \* the authority_policies row: "absent", "empty" or a stored value
    engine,         \* Authority.policyEngine: Nil or the policy it was built from
    adminSubjects,  \* the subjects of the admins in the database
    mutex,          \* holder of Authority.adminMutex, or Nil
    request,        \* [Requests -> the progress of a request]
    staleEngine     \* history: the last reload of the engine failed

policyVars == <<row, engine, adminSubjects, mutex, request, staleEngine>>

(***************************************************************************)
(* The row and its conversions                                             *)
(***************************************************************************)

(* linkedToDB: a policy with neither an X.509 nor an SSH part is stored as *)
(* a row without a policy.                                                 *)
linkedToDB(p) ==
    IF p.x509 = Nil /\ ~p.ssh THEN Nil
    ELSE [x509 |-> p.x509, ssh |-> p.ssh, parses |-> p.parses]

dbToLinked(d) ==
    IF d = Nil THEN Nil
    ELSE [x509 |-> d.x509, ssh |-> d.ssh, parses |-> d.parses]

Stored(p) == [policy |-> linkedToDB(p)]

Rows == [kind : {"absent", "empty"}] \cup [policy : Policies \cup {Nil}]

Absent == [kind |-> "absent"]
Empty  == [kind |-> "empty"]

HasValue(r) == "policy" \in DOMAIN r

(* DB.GetAuthorityPolicy: the policy, or nil; a row that is absent is an   *)
(* error of type not found, which every caller treats as nil.              *)
GetAuthorityPolicy(r) ==
    IF HasValue(r) THEN dbToLinked(r.policy) ELSE Nil

(* DB.save compares the row with the marshalled old value: nil equals a    *)
(* row that is absent or empty, a nil *dbAuthorityPolicy (the value read   *)
(* from an empty row) is marshalled as "null" and equals nothing stored.   *)
SwapsNil(r) == ~HasValue(r)

(***************************************************************************)
(* The policy engine                                                       *)
(***************************************************************************)

(* The options of a policy: none for no policy and for one without parts.  *)
LinkedToCertificates(p) ==
    IF p = Nil THEN Nil
    ELSE IF p.x509 = Nil /\ ~p.ssh THEN Nil
    ELSE [x509 |-> p.x509, ssh |-> p.ssh, parses |-> p.parses]

(* policy.New: without options there is no engine.                         *)
EngineOf(p) == LinkedToCertificates(p)

(* checkPolicy: nobody is locked out by a policy without X.509 engine.     *)
checkPolicy(currentAdmin, otherAdmins, p) ==
    \/ LinkedToCertificates(p) = Nil
    \/ p.x509 = Nil
    \/ {currentAdmin} \cup otherAdmins \subseteq p.x509

(* What the engine lets the authority issue to a subject.                  *)
Allows(e, s) == e = Nil \/ e.x509 = Nil \/ s \in e.x509

(***************************************************************************)
(* Requests                                                                *)
(***************************************************************************)

Ops == {"get", "create", "update", "delete"}

Replies == {"ok", "not found", "conflict", "bad request", "internal", "panic"}

NoRequest == [pc |-> "idle"]

ReqStates ==
    {NoRequest}
    \cup [pc : {"lock", "store", "reload"}, op : Ops, policy : Policies \cup {Nil},
          admin : AdminSubjects]
    \cup [pc : {"done"}, op : Ops, reply : Replies, misread : BOOLEAN]

(* Every variable has its type; the row is absent, empty or a stored value. *)
PolicyTypeOK ==
    /\ row \in Rows
    /\ engine \in Policies \cup {Nil}
    /\ adminSubjects \subseteq AdminSubjects
    /\ mutex \in Requests \cup {Nil}
    /\ request \in [Requests -> ReqStates]
    /\ staleEngine \in BOOLEAN

PolicyInit ==
    /\ row = Absent
    /\ engine = Nil
    /\ \E s \in AdminSubjects : adminSubjects = {s}
    /\ mutex = Nil
    /\ request = [r \in Requests |-> NoRequest]
    /\ staleEngine = FALSE

Reply(r, op, reply) ==
    request' = [request EXCEPT ![r] = [pc |-> "done", op |-> op, reply |-> reply,
                               misread |-> FALSE]]

(* A handler's decision on the policy it read.  authorityPolicy is nil     *)
(* when there is none and also when the read failed: the authority wraps   *)
(* the error in a PolicyError, which errors.As does not unwrap, so the     *)
(* branch that answers "error retrieving authority policy" is never taken. *)
validatePolicy(p) == p.parses

GetHandler(authorityPolicy) ==
    IF authorityPolicy = Nil THEN "not found" ELSE "ok"

CreateHandler(authorityPolicy, p) ==
    IF authorityPolicy # Nil THEN "conflict"
    ELSE IF ~validatePolicy(p) THEN "bad request" ELSE "continue"

UpdateHandler(authorityPolicy, p) ==
    IF authorityPolicy = Nil THEN "not found"
    ELSE IF ~validatePolicy(p) THEN "bad request" ELSE "continue"

DeleteHandler(authorityPolicy) ==
    IF authorityPolicy = Nil THEN "not found" ELSE "continue"

Decide(op, authorityPolicy, p) ==
    CASE op = "get"    -> GetHandler(authorityPolicy)
      [] op = "create" -> CreateHandler(authorityPolicy, p)
      [] op = "update" -> UpdateHandler(authorityPolicy, p)
      [] op = "delete" -> DeleteHandler(authorityPolicy)

Carries(op) == IF op \in {"create", "update"} THEN Policies ELSE {Nil}

(* GetAuthorityPolicy in its own critical section, then the checks of the  *)
(* handler, which use nothing that others change.                          *)
Read(r, op, p, adm, failed) ==
    /\ request[r].pc = "idle"
    /\ mutex = Nil
    /\ adm \in adminSubjects
    /\ failed => "read" \in Faults
    /\ LET d == Decide(op, IF failed THEN Nil ELSE GetAuthorityPolicy(row), p)
       IN  request' = [request EXCEPT ![r] =
                     IF d = "continue"
                     THEN [pc |-> "lock", op |-> op, policy |-> p, admin |-> adm]
                     ELSE [pc |-> "done", op |-> op, reply |-> d, misread |-> failed]]
    /\ UNCHANGED <<row, engine, adminSubjects, mutex, staleEngine>>

(* Mutant: the policy is checked before the mutex is taken.                *)
CheckUnlocked(r, failed) ==
    /\ request[r].pc = "lock"
    /\ IF request[r].op = "delete" \/ checkPolicy(request[r].admin, adminSubjects, request[r].policy)
       THEN request' = [request EXCEPT ![r].pc = "store"]
       ELSE Reply(r, request[r].op, "bad request")
    /\ UNCHANGED <<row, engine, adminSubjects, staleEngine, mutex>>

(* Create-, Update- and RemoveAuthorityPolicy take the mutex; the first    *)
(* two then check that the policy locks no admin out, which begins with a  *)
(* read of the admins.                                                     *)
Check(r, failed) ==
    /\ request[r].pc = "lock"
    /\ mutex = Nil
    /\ failed => "read" \in Faults /\ request[r].op # "delete"
    /\ IF failed
       THEN Reply(r, request[r].op, "internal") /\ UNCHANGED mutex
       ELSE IF request[r].op = "delete" \/ checkPolicy(request[r].admin, adminSubjects, request[r].policy)
       THEN mutex' = r /\ request' = [request EXCEPT ![r].pc = "store"]
       ELSE Reply(r, request[r].op, "bad request") /\ UNCHANGED mutex
    /\ UNCHANGED <<row, engine, adminSubjects, staleEngine>>

(* What the database does with the row: the result and the row it leaves.  *)
(* Deleting what another request deleted since the handler read it         *)
(* dereferences the nil old value.                                         *)
CreateRow(r, p) ==
    IF SwapsNil(r) THEN <<"ok", Stored(p)>> ELSE <<"internal", r>>

UpdateRow(r, p) ==
    IF HasValue(r) THEN <<"ok", Stored(p)>> ELSE <<"internal", r>>

DeleteRow(r) ==
    IF HasValue(r) THEN <<"ok", Empty>>
    ELSE IF r = Empty THEN <<"panic", r>> ELSE <<"internal", r>>

Write(op, r, p) ==
    CASE op = "create" -> CreateRow(r, p)
      [] op = "update" -> UpdateRow(r, p)
      [] op = "delete" -> DeleteRow(r)

Store(r, failed) ==
    /\ request[r].pc = "store"
    /\ failed => "write" \in Faults
    /\ LET w == IF failed THEN <<"internal", row>>
                ELSE Write(request[r].op, row, request[r].policy)
       IN  IF w[1] = "ok"
           THEN /\ row' = w[2]
                /\ request' = [request EXCEPT ![r].pc = "reload"]
                /\ UNCHANGED mutex
           ELSE /\ Reply(r, request[r].op, w[1])
                /\ mutex' = Nil
                /\ UNCHANGED row
    /\ UNCHANGED <<engine, adminSubjects, staleEngine>>

(* Mutant: the engine is left alone when there is no policy to load.       *)
ReloadSkipsRemoved(r, failed) ==
    /\ request[r].pc = "reload"
    /\ failed => "read" \in Faults
    /\ engine' = IF failed \/ GetAuthorityPolicy(row) = Nil THEN engine
                 ELSE EngineOf(GetAuthorityPolicy(row))
    /\ staleEngine' = failed
    /\ Reply(r, request[r].op, IF failed THEN "internal" ELSE "ok")
    /\ mutex' = Nil
    /\ UNCHANGED <<row, adminSubjects>>

(* reloadPolicyEngines; the engine is left alone when the row cannot be    *)
(* read.  The mutex is released when the operation returns.                *)
Reload(r, failed) ==
    /\ request[r].pc = "reload"
    /\ failed => "read" \in Faults
    /\ engine' = IF failed THEN engine ELSE EngineOf(GetAuthorityPolicy(row))
    /\ staleEngine' = failed
    /\ Reply(r, request[r].op, IF failed THEN "internal" ELSE "ok")
    /\ mutex' = Nil
    /\ UNCHANGED <<row, adminSubjects>>

(* A later request of the same client.                                     *)
Return(r) ==
    /\ request[r].pc = "done"
    /\ request' = [request EXCEPT ![r] = NoRequest]
    /\ UNCHANGED <<row, engine, adminSubjects, mutex, staleEngine>>

(* StoreAdmin and RemoveAdmin hold the mutex throughout; the last admin    *)
(* is not removed.                                                         *)
AdminStored(s) ==
    /\ mutex = Nil
    /\ s \notin adminSubjects
    /\ adminSubjects' = adminSubjects \cup {s}
    /\ UNCHANGED <<row, engine, mutex, request, staleEngine>>

AdminRemoved(s) ==
    /\ mutex = Nil
    /\ s \in adminSubjects
    /\ adminSubjects # {s}
    /\ adminSubjects' = adminSubjects \ {s}
    /\ UNCHANGED <<row, engine, mutex, request, staleEngine>>

(* The process dies and starts again: init loads the engine from the row.  *)
Restart ==
    /\ request' = [r \in Requests |-> NoRequest]
    /\ mutex' = Nil
    /\ engine' = EngineOf(GetAuthorityPolicy(row))
    /\ staleEngine' = FALSE
    /\ UNCHANGED <<row, adminSubjects>>

PolicyNext ==
    \/ \E r \in Requests, op \in Ops, s \in AdminSubjects, f \in BOOLEAN :
         \E p \in Carries(op) : Read(r, op, p, s, f)
    \/ \E r \in Requests, f \in BOOLEAN : Check(r, f)
    \/ \E r \in Requests, f \in BOOLEAN : Store(r, f)
    \/ \E r \in Requests, f \in BOOLEAN : Reload(r, f)
    \/ \E r \in Requests : Return(r)
    \/ \E s \in AdminSubjects : AdminStored(s)
    \/ \E s \in AdminSubjects : AdminRemoved(s)
    \/ Restart

PolicySpec == PolicyInit /\ [][PolicyNext]_policyVars

(***************************************************************************)
(* Properties                                                              *)
(***************************************************************************)

(* The engine that decides what is issued is the one of the stored policy  *)
(* whenever no operation on the policy is in its critical section, unless  *)
(* the last reload failed: also after a crash between the write of the row *)
(* and the reload.                                                         *)
EngineCurrent ==
    mutex = Nil /\ ~staleEngine => engine = EngineOf(GetAuthorityPolicy(row))

(* No request that writes a policy locks an admin out: every admin there   *)
(* is at the moment the policy is stored is allowed by it, also when       *)
(* admins are added while the request is in flight (checkAuthorityPolicy). *)
NobodyLockedOut ==
    [][ row' # row /\ HasValue(row')
          => \A s \in adminSubjects' : Allows(EngineOf(row'.policy), s) ]_policyVars

(* A request that could not read the policy is answered with an internal   *)
(* error, as the handlers intend with "error retrieving authority policy". *)
(* Does not hold, see the README.                                          *)
ReadErrorReported ==
    \A r \in Requests :
        request[r].pc = "done" /\ request[r].misread => request[r].reply = "internal"

(* A request to delete the policy is answered also when the policy was     *)
(* deleted in the meantime: no handler dereferences a nil policy.          *)
(* Does not hold, see the README.                                          *)
DeleteAnswered ==
    \A r \in Requests : request[r].pc = "done" => request[r].reply # "panic"

=============================================================================
