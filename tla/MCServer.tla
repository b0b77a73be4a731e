----------------------------- MODULE MCServer -----------------------------
(* The running CA and its clients: its servers through reloads and a stop,  *)
(* the renewal of the certificate that its HTTPS server, or a client,       *)
(* presents, the files of a client's identity, and the calls of a client.   *)
(* A behaviour exercises one part, chosen at the start.                     *)
EXTENDS CaPackage

CONSTANTS a1, a2, b1, b2, db1, db2, q1, q2

VARIABLES opts, given, transport, call, usedTokens, performed

(* Two addresses for each server and two databases; the second              *)
(* configuration moves both servers, the third only the HTTPS one.          *)
MCFirst == [secure |-> a1, insecure |-> b1, db |-> db1]
MCConfigs ==
  {MCFirst, [secure |-> a2, insecure |-> b2, db |-> db1],
   [secure |-> a2, insecure |-> b1, db |-> db1], [secure |-> a1, insecure |-> b1, db |-> db2]}

(* One call of a client made with any two options, and two calls of one     *)
(* that was given a root.                                                   *)
MCOptions ==
  {"WithTransport", "WithInsecure", "WithCertificate", "WithRootFile", "WithRootSHA256",
   "WithCABundle"}
Retried == {"unauthorized", "failed"}
Options ==
  INSTANCE CaClient WITH
    Calls <- {q1}, RetryFunc <- Retried,
    OptionLists <- {<<>>} \cup [1 .. 1 -> MCOptions] \cup [1 .. 2 -> MCOptions]
Pair ==
  INSTANCE CaClient WITH
    Calls <- {q1, q2}, RetryFunc <- Retried, OptionLists <- {<< "WithRootFile" >>}

callVars == << opts, given, transport, call, usedTokens, performed >>
all == << part, vars, renewVars, identityVars, callVars >>

(* What is proved for every instance holds of this one.                     *)
ASSUME Environment ==
  Prompt /\ SeparateAddresses /\ Durations /\ FilesDistinct /\ EnoughTime

(* What a part does not exercise does not change.                           *)
NoCalls ==
  /\ opts = None /\ given = None /\ transport = None /\ call = None /\ usedTokens = {}
  /\ performed = None

Rests ==
  /\ now = 0 /\ cert = 0 /\ certNotAfter = 0 /\ renewBefore = 0 /\ renewJitter = 0
  /\ timer = None /\ thread = None /\ stopped = FALSE /\ failures = 0
  /\ served = [valid |-> TRUE, renewal |-> "none"]
  /\ rotation = None /\ mutRootCerts = {} /\ rootCAs = {}

MCInit ==
  /\ part \in {"reload", "local", "client", "identity", "options", "pair"}
  /\ Init /\ (part # "reload" => faults = Faults)
  /\ Identity!Init
  /\ CASE part = "local" -> Local!Init
       [] part = "client" -> Client!Init
       [] OTHER -> Rests
  /\ CASE part = "options" -> Options!Init
       [] part = "pair" -> Pair!Init
       [] OTHER -> NoCalls

(* The second call of a pair is one of each kind that changes something.    *)
Second == {None, Pair!Sign, Pair!Renew, Pair!CreateAdmin, Pair!RemoveAdmin}

MCNext ==
  \/ part = "reload" /\ Next /\ UNCHANGED << part, renewVars, identityVars, callVars >>
  \/ part = "local" /\ Local!Next /\ UNCHANGED << part, vars, identityVars, callVars >>
  \/ part = "client" /\ Client!Next /\ UNCHANGED << part, vars, identityVars, callVars >>
  \/ part = "identity" /\ Identity!Next /\ UNCHANGED << part, vars, renewVars, callVars >>
  \/ /\ \/ part = "options" /\ Options!Next
        \/ part = "pair" /\ Pair!Next /\ call'[q2].method \in Second
     /\ UNCHANGED << part, vars, renewVars, identityVars >>

(* The fairness of CaServer, where its liveness is checked: reloads that    *)
(* can only fail before they touch a server.                                *)
Reloads(step) ==
  part = "reload" /\ faults \subseteq EarlyFaults /\ step
    /\ UNCHANGED << part, renewVars, identityVars, callVars >>
MCFairness ==
  /\ WF_all(Reloads(HandlerStep))
  /\ WF_all(Reloads(RunReturns))
  /\ \A s \in Servers : WF_all(Reloads(ServerStep(s)))
  /\ \A r \in Servers \X Gens : WF_all(Reloads(EndRequest(r)))

MCSpec == MCInit /\ [][MCNext]_all /\ MCFairness

-----------------------------------------------------------------------------
(* A SIGTERM that StopReloaderHandler has received ends the process, even   *)
(* when it arrives during a Reload.                                         *)
TermEnds ==
  part = "reload" /\ faults \subseteq EarlyFaults /\ termed ~> process # "running"

(* What a retry can do is bounded.  The CA does what a call asks for at     *)
(* most once when UseToken records the token of the call, or when the call  *)
(* has a body that is made once for both attempts, also when it answers     *)
(* with an error afterwards and the request is sent again; without either,  *)
(* as with a client certificate or a token that its provisioner lets be     *)
(* reused, once per attempt and so at most twice.  A call that returns      *)
(* without error was carried out, and a client that was given a root sends  *)
(* nothing over a transport that trusts anything else (retryOnError and the *)
(* methods of Client and AdminClient).                                      *)
RetryBounded ==
  /\ part = "options" => Options!RetryBounded
  /\ part = "pair" => Pair!RetryBounded

=============================================================================
