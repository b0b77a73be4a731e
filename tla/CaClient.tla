------------------------------ MODULE CaClient ------------------------------
(***************************************************************************)
(* The HTTP clients of the CA (ca/client.go, ca/adminClient.go): how the    *)
(* options become a transport, and how a call is sent, answered and retried *)
(* once.  Paths, payloads and messages are left out: methods that differ in *)
(* nothing else have one and the same description.                          *)
(*                                                                         *)
(* Every call is made by a goroutine of its own over the transport that all *)
(* calls of a client share.  Of the CA it shows what UseToken makes of the  *)
(* token of a request: it is recorded, and refused when it comes again,     *)
(* only if the provisioner has an identifier for it.  The CA may fail       *)
(* before or after it has done what is asked, and its answer may get lost.  *)
(***************************************************************************)
EXTENDS Naturals, Sequences, SequencesExt, FiniteSets

CONSTANTS
  Calls,        \* the calls a behaviour makes, at most once each
  OptionLists,  \* the options the client may be created with
  RetryFunc,    \* the error statuses the RetryFunc accepts; {} when it is nil
  None

VARIABLES
  opts,       \* Client.opts
  given,      \* the transport of WithTransport: getTransport changes it
  transport,  \* Client.client.Client.Transport, None before NewClient
  call,       \* the local variables of every call
  usedTokens, \* the calls whose token the CA has recorded
  performed   \* history: how often the CA did what a call asks for

vars == << opts, given, transport, call, usedTokens, performed >>

Status == {"ok", "unauthorized", "failed"}

-----------------------------------------------------------------------------
(* Options.  A failed option ends apply with an error.                      *)

\* Every option that sets a root checks that nothing else is set, so at most one
\* of rootFilename, rootSHA256 and rootBundle is: root names it.
clientOptions ==
  [transport |-> None, root |-> None, certificate |-> None, getClientCertificate |-> None,
   err |-> FALSE]

\* A transport: whom it trusts, and the client certificate of its TLS config.
Transport(source) ==
  [source |-> source, certificate |-> None, getClientCertificate |-> None]

\* The default identity, unless loading it fails in any way.
applyDefaultIdentity(loaded) ==
  IF loaded
  THEN [clientOptions EXCEPT !.certificate = "identity", !.getClientCertificate = "identity"]
  ELSE clientOptions

checkTransport(o, nu) ==
  IF o.transport = None /\ o.root = None THEN nu ELSE [o EXCEPT !.err = TRUE]

WithTransport(o) == checkTransport(o, [o EXCEPT !.transport = given])

WithInsecure(o) == [o EXCEPT !.transport = Transport("insecure")]

WithRootFile(o) == checkTransport(o, [o EXCEPT !.root = "rootFilename"])

WithRootSHA256(o) == checkTransport(o, [o EXCEPT !.root = "rootSHA256"])

WithCABundle(o) == checkTransport(o, [o EXCEPT !.root = "rootBundle"])

WithCertificate(o) == [o EXCEPT !.certificate = "certificate"]

RootOptions == {"WithRootFile", "WithRootSHA256", "WithCABundle"}

apply(list, loaded) ==
  LET Option(o, name) ==
        CASE o.err -> o
          [] name = "WithTransport" -> WithTransport(o)
          [] name = "WithInsecure" -> WithInsecure(o)
          [] name = "WithRootFile" -> WithRootFile(o)
          [] name = "WithRootSHA256" -> WithRootSHA256(o)
          [] name = "WithCABundle" -> WithCABundle(o)
          [] name = "WithCertificate" -> WithCertificate(o)
  IN FoldLeft(Option, applyDefaultIdentity(loaded), list)

\* A root can be taken when its file or bundle, or the default root file, can be
\* read and holds a certificate.
getTransportFromFile(good) == IF good THEN Transport("rootFilename") ELSE None

getTransportFromCABundle(good) == IF good THEN Transport("rootBundle") ELSE None

\* Root, on a client without RetryFunc, has fetched a root with the fingerprint.
getTransportFromSHA256(good) == IF good THEN Transport("rootSHA256") ELSE None

baseTransport(o, good) ==
  CASE o.root = "rootFilename" -> getTransportFromFile(good)
    [] o.root = "rootSHA256" -> getTransportFromSHA256(good)
    [] o.root = "rootBundle" -> getTransportFromCABundle(good)
    [] OTHER ->
         IF o.transport # None THEN o.transport
         ELSE IF good THEN Transport("default") ELSE None

\* None stands for an error, here and in NewTransport.
getTransport(o, good) ==
  LET tr == baseTransport(o, good)
      bare == tr.certificate = None /\ tr.getClientCertificate = None
  IN CASE tr = None -> None
       [] tr # None /\ o.certificate # None /\ tr.source = "other" -> None
       [] tr # None /\ o.certificate # None /\ tr.source # "other" /\ bare ->
            [tr EXCEPT !.certificate = o.certificate,
                       !.getClientCertificate = o.getClientCertificate]
       [] OTHER -> tr

NewTransport(list, loaded, good) ==
  LET o == apply(list, loaded) IN IF o.err THEN None ELSE getTransport(o, good)

\* The certificate a handshake presents: crypto/tls ignores Certificates when
\* GetClientCertificate is set.
Presented(tr) ==
  IF tr.getClientCertificate # None THEN tr.getClientCertificate ELSE tr.certificate

-----------------------------------------------------------------------------
(* Methods.  via is the HTTP client that sends the request, token whether    *)
(* it carries one where the CA requires one, body whether its reader is made *)
(* for every attempt or once for both, and asks whether the CA is to change  *)
(* or issue something.                                                       *)

Fetch ==
  [via |-> "own", token |-> "none", body |-> "none", asks |-> FALSE, retries |-> TRUE]

Submit == [Fetch EXCEPT !.body = "fresh"]

WithToken(m) == [m EXCEPT !.token = "sent", !.asks = TRUE]

Version == Fetch

Health == Fetch

Root == [Fetch EXCEPT !.via = "insecure"]

Sign == WithToken(Submit)

Renew == [Fetch EXCEPT !.via = "given", !.asks = TRUE]

RenewWithToken == WithToken(Fetch)

Rekey == [Submit EXCEPT !.via = "given", !.asks = TRUE]

Revoke(tr) == IF tr THEN [Submit EXCEPT !.via = "given", !.asks = TRUE] ELSE WithToken(Submit)

Provisioners == Fetch

ProvisionerKey == Fetch

Roots == Fetch

Federation == Fetch

SSHSign == WithToken(Submit)

SSHRenew == WithToken(Submit)

SSHRekey == WithToken(Submit)

SSHRevoke == WithToken(Submit)

SSHRoots == Fetch

SSHFederation == Fetch

SSHConfig == Submit

SSHCheckHost == Submit

SSHGetHosts == Fetch

SSHBastion == Submit

RootFingerprint == [Fetch EXCEPT !.retries = FALSE]

ClientMethods ==
  {Version, Health, Root, Sign, Renew, RenewWithToken, Rekey, Revoke(TRUE), Revoke(FALSE),
   Provisioners, ProvisionerKey, Roots, Federation, SSHSign, SSHRenew, SSHRekey, SSHRevoke,
   SSHRoots, SSHFederation, SSHConfig, SSHCheckHost, SSHGetHosts, SSHBastion, RootFingerprint}

\* The methods of AdminClient make their request, with the token of
\* generateAdminToken and the reader of the body, before the label retry.
Read == [Fetch EXCEPT !.token = "sent"]

Write == [WithToken(Fetch) EXCEPT !.body = "once"]

Delete == WithToken(Fetch)

\* The one method that sends no token.
GetAdmin == [Fetch EXCEPT !.token = "missing"]

GetAdminsPaginate == Read

CreateAdmin == Write

RemoveAdmin == Delete

UpdateAdmin == Write

GetProvisioner == Read

GetProvisionersPaginate == Read

RemoveProvisioner == Delete

CreateProvisioner == Write

UpdateProvisioner == Write

GetExternalAccountKeysPaginate == Read

CreateExternalAccountKey == Write

RemoveExternalAccountKey == Delete

GetAuthorityPolicy == Read

CreateAuthorityPolicy == Write

UpdateAuthorityPolicy == Write

RemoveAuthorityPolicy == Delete

GetProvisionerPolicy == Read

CreateProvisionerPolicy == Write

UpdateProvisionerPolicy == Write

RemoveProvisionerPolicy == Delete

GetACMEPolicy == Read

CreateACMEPolicy == Write

UpdateACMEPolicy == Write

RemoveACMEPolicy == Delete

AdminMethods ==
  {GetAdmin, GetAdminsPaginate, CreateAdmin, RemoveAdmin, UpdateAdmin,
   GetProvisioner, GetProvisionersPaginate, RemoveProvisioner, CreateProvisioner,
   UpdateProvisioner, GetExternalAccountKeysPaginate, CreateExternalAccountKey,
   RemoveExternalAccountKey, GetAuthorityPolicy, CreateAuthorityPolicy,
   UpdateAuthorityPolicy, RemoveAuthorityPolicy, GetProvisionerPolicy,
   CreateProvisionerPolicy, UpdateProvisionerPolicy, RemoveProvisionerPolicy,
   GetACMEPolicy, CreateACMEPolicy, UpdateACMEPolicy, RemoveACMEPolicy}

-----------------------------------------------------------------------------
(* Calls.                                                                    *)

Idle ==
  [pc |-> "idle", method |-> None, identified |-> FALSE, retried |-> FALSE, over |-> None,
   status |-> None, result |-> None]

Init ==
  /\ opts \in OptionLists
  /\ given \in {Transport("given"), [Transport("given") EXCEPT !.certificate = "own"],
                Transport("other")}
  /\ "WithTransport" \notin Range(opts) => given = Transport("given")
  /\ transport = None
  /\ call = [q \in Calls |-> Idle]
  /\ usedTokens = {}
  /\ performed = [q \in Calls |-> 0]

\* The transport the caller passed in is the one the client now has.
Adopt(tr) ==
  /\ transport' = tr
  /\ given' = IF tr.source \in {"given", "other"} THEN tr ELSE given

\* NewClient and NewAdminClient; an error leaves no client.
NewClient ==
  /\ transport = None
  /\ \E loaded, good \in BOOLEAN :
       LET tr == NewTransport(opts, loaded, good)
       IN tr # None /\ Adopt(tr)
  /\ UNCHANGED << opts, call, usedTokens, performed >>

\* identified: GetTokenID of the provisioner of the token does not fail.  It does
\* for some provisioners, and for Azure without trust on first use.
Call(q, m) ==
  /\ transport # None
  /\ call[q].pc = "idle"
  /\ \E identified \in {FALSE, m.token = "sent"} :
       call' = [call EXCEPT ![q].pc = "do", ![q].method = m, ![q].identified = identified]
  /\ UNCHANGED << opts, given, transport, usedTokens, performed >>

Over(m) == IF m.via = "own" THEN transport.source ELSE m.via

\* What the CA makes of the request of q: << recorded, done, status >>.  It may
\* fail before UseToken; an empty body is only noticed after that.
Handle(q, empty) ==
  LET m == call[q].method
      refused == m.token = "missing" \/ q \in usedTokens
      records == call[q].identified
      doable == IF m.asks THEN {TRUE} ELSE {FALSE}
  IN IF refused THEN {<< FALSE, FALSE, "unauthorized" >>}
     ELSE {FALSE, records} \X {FALSE} \X {"unauthorized", "failed"}
          \cup IF empty THEN {} ELSE {records} \X doable \X {"ok", "failed"}

\* http.Client.Do: the request gets to the CA or not, and the answer back or
\* not.  The reader of a body made once has been read by the first attempt; the
\* second is an error, or reaches the CA with an empty body.
Do(q) ==
  LET m == call[q].method
      empty == m.body = "once" /\ call[q].retried
      sent == [call EXCEPT ![q].over = Over(m)]
  IN /\ call[q].pc = "do"
     /\ \/ /\ call' = [sent EXCEPT ![q].pc = "done", ![q].result = "error"]
           /\ UNCHANGED << usedTokens, performed >>
        \/ \E h \in Handle(q, empty) :
             /\ usedTokens' = IF h[1] THEN usedTokens \cup {q} ELSE usedTokens
             /\ performed' = [performed EXCEPT ![q] = IF h[2] THEN @ + 1 ELSE @]
             /\ \/ call' = [sent EXCEPT ![q].pc = "answered", ![q].status = h[3]]
                \/ call' = [sent EXCEPT ![q].pc = "done", ![q].result = "error"]
     /\ UNCHANGED << opts, given, transport >>

\* The answer is an error, or its body may not be readable.  RootFingerprint
\* looks at the connection only.
Return(q) ==
  /\ call[q].pc = "answered"
  /\ \E result \in IF call[q].status # "ok" /\ call[q].method.retries
                   THEN {"error"} ELSE {"ok", "error"} :
       call' = [call EXCEPT ![q].pc = "done", ![q].result = result]
  /\ UNCHANGED << opts, given, transport, usedTokens, performed >>

\* Whether the client can set a new transport, made of the same options.
retryOnError(q) ==
  /\ call[q].status \in RetryFunc
  /\ \E loaded, good \in BOOLEAN :
       LET tr == NewTransport(opts, loaded, good)
       IN tr # None /\ Adopt(tr)

\* Mutant: the second attempt carries a token of its own.
RetryNewToken(q) ==
  /\ call[q].pc = "answered"
  /\ call[q].method.retries /\ call[q].status # "ok" /\ ~call[q].retried
  /\ retryOnError(q)
  /\ call' = [call EXCEPT ![q].pc = "do", ![q].retried = TRUE, ![q].status = None]
  /\ usedTokens' = usedTokens \ {q}
  /\ UNCHANGED << opts, performed >>

Retry(q) ==
  /\ call[q].pc = "answered"
  /\ call[q].method.retries /\ call[q].status # "ok" /\ ~call[q].retried
  /\ retryOnError(q)
  /\ call' = [call EXCEPT ![q].pc = "do", ![q].retried = TRUE, ![q].status = None]
  /\ UNCHANGED << opts, usedTokens, performed >>

Next ==
  \/ NewClient
  \/ \E q \in Calls :
       \/ \E m \in ClientMethods \cup AdminMethods : Call(q, m)
       \/ Do(q) \/ Return(q) \/ Retry(q)

Spec == Init /\ [][Next]_vars

-----------------------------------------------------------------------------
(* What a retry can do is bounded.  The CA does what a call asks for at most *)
(* once when UseToken records the token of the call, or when the call has a  *)
(* body that is made once for both attempts, also when it answers with an    *)
(* error afterwards and the request is sent again; without either, as with a *)
(* client certificate or a token that its provisioner lets be reused, once   *)
(* per attempt and so at most twice.  A call that returns without error was  *)
(* carried out, and a client that was given a root sends nothing over a      *)
(* transport that trusts anything else (retryOnError and the methods of      *)
(* Client and AdminClient).                                                  *)
RetryBounded ==
  /\ \A q \in Calls :
       LET m == call[q].method
       IN m # None =>
            /\ performed[q] <= IF call[q].retried THEN 2 ELSE 1
            /\ call[q].identified \/ m.body = "once" => performed[q] <= 1
            /\ m.asks /\ call[q].result = "ok" => performed[q] > 0
            /\ m.via = "own" /\ call[q].over # None /\ Range(opts) \cap RootOptions # {} =>
                 call[q].over \in {"rootFilename", "rootSHA256", "rootBundle"}
  /\ transport # None /\ Range(opts) \cap RootOptions # {} =>
       transport.source \in {"rootFilename", "rootSHA256", "rootBundle"}

(* "WithCertificate will set the given certificate as the TLS client         *)
(* certificate in the client."  Does not hold, see the README.               *)
CertificateAsConfigured ==
  transport # None /\ "WithCertificate" \in Range(opts) /\ given.certificate # "own" =>
    Presented(transport) = "certificate"

=============================================================================
