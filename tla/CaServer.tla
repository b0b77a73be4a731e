------------------------------ MODULE CaServer ------------------------------
(***************************************************************************)
(* The life of the step-ca process: CA.Run starts an HTTPS server and,     *)
(* when SCEP and an insecure address are configured, an HTTP server        *)
(* (ca/ca.go, server/server.go); StopReloaderHandler (ca/signal.go) turns  *)
(* SIGHUP into CA.Reload and SIGTERM into CA.Stop.                          *)
(*                                                                         *)
(* Every successful ca.New builds a new GENERATION: a configuration, an    *)
(* Authority with its key manager, a started TLSRenewer and one            *)
(* http.Server per configured address.  A server.Server outlives the       *)
(* http.Server it wraps: Reload shuts the wrapped one down, swaps it and   *)
(* hands the Serve goroutine a listener over the unbuffered reloadCh.      *)
(*                                                                         *)
(* net/http and the Go runtime are modelled from how this code uses them:  *)
(* Shutdown closes the listener at once, then waits for active requests or *)
(* for the 60 s ServerShutdownTimeout; Serve on a server already shut down *)
(* closes the listener and returns; an abandoned listener stays open until *)
(* the garbage collector finalizes it.                                     *)
(***************************************************************************)
EXTENDS Naturals, Sequences, FiniteSets

CONSTANTS
  Configs,     \* contents of the configuration file: [secure, insecure, db]
  FirstConfig, \* the configuration the process is started with
  MaxReloads,  \* bound on the number of SIGHUPs
  Faults,      \* the failures the environment can produce, see below
  Prompt,      \* TRUE: a goroutine reaches its Serve call before a New ends
  None

(* Faults is a subset of {"load", "auth", "init", "listen", "accept",      *)
(* "timeout"}: the configuration file does not load; the new authority or  *)
(* its certificate cannot be made; a later step of Init fails; net.Listen  *)
(* fails; Accept fails; Shutdown outlasts its timeout.  The first three    *)
(* happen before a server is touched.                                      *)
EarlyFaults == {"load", "auth", "init"}

(* A configuration without an address is not valid (Config.Validate).      *)
ASSUME ConfigsAssumption ==
  /\ FirstConfig \in Configs /\ MaxReloads \in Nat
  /\ \A c \in Configs : c["secure"] # None
  /\ None \notin Configs \cup Nat \cup {"insecure", "secure"}

VARIABLES
  faults,   \* the failures of this behaviour: all of Faults, or the early ones
  signals,  \* the channel of StopReloaderHandler, of capacity 1
  sent,     \* SIGHUPs sent so far
  termed,   \* a SIGTERM is in the channel or was taken from it
  handler,  \* the goroutine of StopReloaderHandler
  srv,      \* ca.insecureSrv and ca.srv with their Serve goroutines
  conf,     \* conf[g]: the configuration of generation g
  current,  \* the generation of ca.auth, ca.config and ca.renewer
  renewers, \* generations whose TLSRenewer has not been stopped
  closed,   \* generations whose key manager has been closed
  down,     \* http.Servers, <<server, generation>>, that were shut down
  active,   \* requests in progress, <<server, generation>>
  leaked,   \* addresses of listeners nobody will serve or close
  process   \* "running", "exited" or "panicked"

envVars == << faults, signals, sent, termed >>
caVars == << conf, current, renewers, closed >>
httpVars == << down, active >>
vars == << envVars, handler, srv, caVars, httpVars, leaked, process >>

Servers == {"insecure", "secure"}
Gens == 1 .. MaxReloads + 1
Addresses == {c[s] : c \in Configs, s \in Servers} \ {None}

(* The two servers never use each other's address.                          *)
SeparateAddresses == \A c, d \in Configs : c["secure"] # d["insecure"]

(* ca.insecureSrv is nil when no insecure address is configured; it is set *)
(* by the first Init only.                                                  *)
Present == {s \in Servers : conf[1][s] # None}

(* srv.Addr is promoted from the wrapped http.Server.                       *)
AddrOf(s) == conf[srv[s].http][s]

(* Addresses some listener of the process is bound to.                      *)
Bound ==
  {srv[s].ln : s \in {t \in Servers : srv[t].open}} \cup leaked \cup
  (IF handler.ln # None THEN {handler.ln} ELSE {})

IdleHandler == [pc |-> "wait", gen |-> None, server |-> None, ln |-> None, result |-> "none"]

(* New and Init: both servers exist, the renewer of generation 1 runs, no   *)
(* goroutine has listened yet.                                              *)
Init ==
  /\ faults \in {Faults, Faults \cap EarlyFaults}
  /\ signals = << >>
  /\ sent = 0
  /\ termed = FALSE
  /\ handler = IdleHandler
  /\ srv = [s \in Servers |-> [pc |-> IF FirstConfig[s] = None THEN "absent" ELSE "start",
                               http |-> 1, serving |-> None,
                               ln |-> None, open |-> FALSE, shutdownCh |-> FALSE]]
  /\ conf = [g \in Gens |-> IF g = 1 THEN FirstConfig ELSE None]
  /\ current = 1
  /\ renewers = {1}
  /\ closed = {}
  /\ down = {}
  /\ active = {}
  /\ leaked = {}
  /\ process = "running"

Running == process = "running"

-----------------------------------------------------------------------------
(* The operator's signals.  signal.Notify never blocks: a signal that finds *)
(* the channel full is dropped, a dropped SIGTERM leaves no trace at all.   *)

SendHup ==
  /\ Running /\ sent < MaxReloads
  /\ sent' = sent + 1
  /\ signals' = IF Len(signals) = 0 THEN << "HUP" >> ELSE signals
  /\ UNCHANGED << faults, termed, handler, srv, caVars, httpVars, leaked, process >>

SendTerm ==
  /\ Running /\ ~termed /\ Len(signals) = 0
  /\ signals' = << "TERM" >>
  /\ termed' = TRUE
  /\ UNCHANGED << faults, sent, handler, srv, caVars, httpVars, leaked, process >>

-----------------------------------------------------------------------------
(* The Serve goroutines.                                                    *)

(* ListenAndServe: net.Listen on srv.Addr; Serve stores the listener.  On   *)
(* failure the goroutine ends with an error that Run receives.              *)
ListenAndServe(s) ==
  /\ Running /\ srv[s].pc = "start"
  /\ \E ok \in {TRUE} \cup (IF "listen" \in faults THEN {FALSE} ELSE {}) :
       srv' = IF ok /\ AddrOf(s) \notin Bound
              THEN [srv EXCEPT ![s].pc = "loop", ![s].ln = AddrOf(s), ![s].open = TRUE]
              ELSE [srv EXCEPT ![s].pc = "returned"]
  /\ UNCHANGED << envVars, handler, caVars, httpVars, leaked, process >>

(* The head of the loop in Serve: run the wrapped http.Server on ln.        *)
Serve(s) ==
  /\ Running /\ srv[s].pc = "loop"
  /\ srv' = IF << s, srv[s].http >> \in down
            THEN [srv EXCEPT ![s].pc = "select", ![s].open = FALSE]
            ELSE [srv EXCEPT ![s].pc = "serving", ![s].serving = srv[s].http]
  /\ UNCHANGED << envVars, handler, caVars, httpVars, leaked, process >>

(* http.Server.Serve returns, because the server was shut down or because   *)
(* Accept failed; either way the loop goes on to its select.                *)
ServeReturns(s, failed) ==
  /\ Running /\ srv[s].pc = "serving"
  /\ IF failed THEN "accept" \in faults ELSE << s, srv[s].serving >> \in down
  /\ srv' = [srv EXCEPT ![s].pc = "select", ![s].serving = None, ![s].open = FALSE]
  /\ UNCHANGED << envVars, handler, caVars, httpVars, leaked, process >>

(* case <-srv.shutdownCh.                                                   *)
ServeEnds(s) ==
  /\ Running /\ srv[s].pc = "select" /\ srv[s].shutdownCh
  /\ srv' = [srv EXCEPT ![s].pc = "returned"]
  /\ UNCHANGED << envVars, handler, caVars, httpVars, leaked, process >>

(* Requests are served by the http.Server the goroutine runs.               *)
BeginRequest(s) ==
  /\ Running /\ srv[s].pc = "serving" /\ srv[s].open
  /\ active' = active \cup {<< s, srv[s].serving >>}
  /\ UNCHANGED << envVars, handler, srv, caVars, down, leaked, process >>

EndRequest(r) ==
  /\ Running /\ r \in active
  /\ active' = active \ {r}
  /\ UNCHANGED << envVars, handler, srv, caVars, down, leaked, process >>

(* Run: wait for a first error, then for every goroutine, then return; the  *)
(* command exits.                                                           *)
RunReturns ==
  /\ Running
  /\ \A s \in Present : srv[s].pc = "returned"
  /\ process' = "exited"
  /\ UNCHANGED << envVars, handler, srv, caVars, httpVars, leaked >>

(* The finalizer of an abandoned listener closes it.                        *)
Finalize ==
  /\ Running /\ leaked # {}
  /\ leaked' = {}
  /\ UNCHANGED << envVars, handler, srv, caVars, httpVars, process >>

-----------------------------------------------------------------------------
(* The signal handler.                                                      *)

(* A Reload that fails after New leaves everything as it is, the listener   *)
(* it opened included.                                                      *)
GiveUp ==
  /\ handler' = [IdleHandler EXCEPT !.result = "failed"]
  /\ leaked' = IF handler.ln = None THEN leaked ELSE leaked \cup {handler.ln}

NextGen == Cardinality({g \in Gens : conf[g] # None}) + 1

(* The server that Reload replaces first.                                   *)
FirstServer == IF "insecure" \in Present THEN "insecure" ELSE "secure"

(* New and Init: authority.New, then getTLSConfig, which starts a renewer,  *)
(* then the routers, SCEP, monitoring and logging, then the servers.  An    *)
(* Init that fails after getTLSConfig leaves its renewer running.           *)
NewCA(c, outcome) ==
  IF outcome = "auth" THEN UNCHANGED << conf, renewers >>
  ELSE /\ conf' = [conf EXCEPT ![NextGen] = c]
       /\ renewers' = renewers \cup {NextGen}

(* Reload, up to and including New: load the file, refuse a different       *)
(* database, build the new CA.  A nil newCA.insecureSrv is dereferenced by  *)
(* the Reload of the old one.                                               *)
TakeHup ==
  /\ Running /\ handler.pc = "wait" /\ signals = << "HUP" >>
  /\ Prompt => \A s \in Servers : srv[s].pc \notin {"start", "loop"}
  /\ signals' = << >>
  /\ \E c \in Configs, outcome \in {"ok"} \cup (faults \cap EarlyFaults) :
       IF outcome = "load" \/ c.db # conf[current].db
       THEN /\ handler' = [IdleHandler EXCEPT !.result = "failed"]
            /\ UNCHANGED << conf, renewers, process >>
       ELSE /\ NewCA(c, outcome)
            /\ IF outcome # "ok"
               THEN /\ handler' = [IdleHandler EXCEPT !.result = "failed"]
                    /\ UNCHANGED process
               ELSE /\ handler' = [IdleHandler EXCEPT !.pc = "listen", !.gen = NextGen,
                                                      !.server = FirstServer]
                    /\ process' = IF c[FirstServer] = None THEN "panicked" ELSE process
  /\ UNCHANGED << faults, sent, termed, srv, current, closed, httpVars, leaked >>

(* http.Server.Shutdown, first part: mark the server and close the listener *)
(* it is serving.                                                           *)
ShutdownBegins(s) ==
  /\ down' = down \cup {<< s, srv[s].http >>}
  /\ srv' = IF srv[s].serving = srv[s].http THEN [srv EXCEPT ![s].open = FALSE] ELSE srv

Drained(s) == << s, srv[s].http >> \notin active

(* Mutant of ShutdownEnds: Close, which does not wait.                      *)
ShutdownEndsAtOnce(s, ok) == ok

(* ... second part: its requests have ended, or the timeout has passed.     *)
ShutdownEnds(s, ok) == IF ok THEN Drained(s) ELSE "timeout" \in faults /\ ~Drained(s)

(* Mutant of ReloadListen: shut the old server down before copying its      *)
(* listener.                                                                *)
ReloadListenLate ==
  LET s == handler.server
      addr == conf[handler.gen][s]
  IN /\ Running /\ handler.pc = "listen"
     /\ ShutdownBegins(s)
     /\ IF IF addr = AddrOf(s) THEN srv'[s].open ELSE addr \notin Bound
        THEN /\ handler' = [handler EXCEPT !.pc = "drained", !.ln = addr]
             /\ UNCHANGED leaked
        ELSE GiveUp
     /\ UNCHANGED << envVars, caVars, active, process >>

(* Server.Reload: open the new address, or copy the listener in use.        *)
ReloadListen ==
  LET s == handler.server
      addr == conf[handler.gen][s]
  IN /\ Running /\ handler.pc = "listen"
     /\ \E ok \in {TRUE} \cup (IF "listen" \in faults THEN {FALSE} ELSE {}) :
          IF ok /\ (IF addr = AddrOf(s) THEN srv[s].open ELSE addr \notin Bound)
          THEN /\ handler' = [handler EXCEPT !.pc = "drain", !.ln = addr]
               /\ UNCHANGED leaked
          ELSE GiveUp
     /\ UNCHANGED << envVars, srv, caVars, httpVars, process >>

(* reloadShutdown.                                                          *)
ReloadShutdown ==
  /\ Running /\ handler.pc = "drain"
  /\ ShutdownBegins(handler.server)
  /\ handler' = [handler EXCEPT !.pc = "drained"]
  /\ UNCHANGED << envVars, caVars, active, leaked, process >>

(* srv.Server = ns.Server, once the old one is drained.                     *)
ReloadSwap ==
  LET s == handler.server
  IN /\ Running /\ handler.pc = "drained"
     /\ \E ok \in BOOLEAN :
          /\ ShutdownEnds(s, ok)
          /\ IF ok
             THEN /\ handler' = [handler EXCEPT !.pc = "send"]
                  /\ srv' = [srv EXCEPT ![s].http = handler.gen]
                  /\ UNCHANGED leaked
             ELSE GiveUp /\ UNCHANGED srv
     /\ UNCHANGED << envVars, caVars, httpVars, process >>

(* srv.reloadCh <- ln meets case ln = <-srv.reloadCh: the channel has no    *)
(* buffer.  Then the secure server is next, or the CA itself.               *)
ReloadSend ==
  LET s == handler.server
  IN /\ Running /\ handler.pc = "send" /\ srv[s].pc = "select"
     /\ srv' = [srv EXCEPT ![s].pc = "loop", ![s].ln = handler.ln, ![s].open = TRUE]
     /\ handler' = IF s = "insecure"
                   THEN [handler EXCEPT !.pc = "listen", !.server = "secure", !.ln = None]
                   ELSE [handler EXCEPT !.pc = "replace", !.ln = None]
     /\ UNCHANGED << envVars, caVars, httpVars, leaked, process >>

(* The tail of CA.Reload: stop the previous renewer, close the previous     *)
(* authority, replace the properties of the CA.                             *)
ReloadReplace ==
  /\ Running /\ handler.pc = "replace"
  /\ renewers' = renewers \ {current}
  /\ closed' = closed \cup {current}
  /\ current' = handler.gen
  /\ handler' = [IdleHandler EXCEPT !.result = "applied"]
  /\ UNCHANGED << envVars, srv, conf, httpVars, leaked, process >>

(* CA.Stop: stop the renewer and shut the authority down before the servers.*)
TakeTerm ==
  /\ Running /\ handler.pc = "wait" /\ signals = << "TERM" >>
  /\ signals' = << >>
  /\ renewers' = renewers \ {current}
  /\ closed' = closed \cup {current}
  /\ handler' = [IdleHandler EXCEPT !.pc = "stop", !.server = FirstServer]
  /\ UNCHANGED << faults, sent, termed, srv, conf, current, httpVars, leaked, process >>

(* Server.Shutdown of the insecure server, then of the secure one.          *)
StopShutdown ==
  /\ Running /\ handler.pc = "stop"
  /\ ShutdownBegins(handler.server)
  /\ handler' = [handler EXCEPT !.pc = "stopped"]
  /\ UNCHANGED << envVars, caVars, active, leaked, process >>

(* Mutant of StopClose: only the secure server's channel is closed.         *)
StopCloseSecure ==
  LET s == handler.server
  IN /\ Running /\ handler.pc = "stopped"
     /\ \E ok \in BOOLEAN : ShutdownEnds(s, ok)
     /\ srv' = [srv EXCEPT !["secure"].shutdownCh = (s = "secure")]
     /\ handler' = IF s = "insecure" THEN [handler EXCEPT !.pc = "stop", !.server = "secure"]
                   ELSE [handler EXCEPT !.pc = "end"]
     /\ UNCHANGED << envVars, caVars, httpVars, leaked, process >>

(* Its deferred close of shutdownCh happens on a timeout too.               *)
StopClose ==
  LET s == handler.server
  IN /\ Running /\ handler.pc = "stopped"
     /\ \E ok \in BOOLEAN : ShutdownEnds(s, ok)
     /\ srv' = [srv EXCEPT ![s].shutdownCh = TRUE]
     /\ handler' = IF s = "insecure" THEN [handler EXCEPT !.pc = "stop", !.server = "secure"]
                   ELSE [handler EXCEPT !.pc = "end"]
     /\ UNCHANGED << envVars, caVars, httpVars, leaked, process >>

-----------------------------------------------------------------------------
ServerStep(s) ==
  \/ ListenAndServe(s) \/ Serve(s) \/ ServeReturns(s, FALSE) \/ ServeEnds(s)

HandlerStep ==
  \/ TakeHup \/ ReloadListen \/ ReloadShutdown \/ ReloadSwap \/ ReloadSend \/ ReloadReplace
  \/ TakeTerm \/ StopShutdown \/ StopClose

Next ==
  \/ SendHup \/ SendTerm \/ HandlerStep \/ RunReturns \/ Finalize
  \/ \E s \in Servers : ServerStep(s) \/ ServeReturns(s, TRUE) \/ BeginRequest(s)
  \/ \E r \in Servers \X Gens : EndRequest(r)

Spec == Init /\ [][Next]_vars

(* Goroutines are scheduled, and a request handler returns.  Nothing makes  *)
(* the operator send signals, Accept fail or the collector run.             *)
Fairness ==
  /\ WF_vars(HandlerStep) /\ WF_vars(RunReturns)
  /\ \A s \in Servers : WF_vars(ServerStep(s))
  /\ \A r \in Servers \X Gens : WF_vars(EndRequest(r))

FairSpec == Spec /\ Fairness

-----------------------------------------------------------------------------
(* Properties.                                                              *)

(* The state of the process: what its goroutines hold and which generations *)
(* exist.                                                                   *)
TypeOK ==
  /\ faults \subseteq Faults /\ signals \in {<< >>, << "HUP" >>, << "TERM" >>}
  /\ sent \in 0 .. MaxReloads /\ termed \in BOOLEAN
  /\ handler \in [pc : {"wait", "listen", "drain", "drained", "send", "replace",
                        "stop", "stopped", "end"},
                  gen : Gens \cup {None}, server : Servers \cup {None},
                  ln : Addresses \cup {None}, result : {"none", "failed", "applied"}]
  /\ srv \in [Servers -> [pc : {"absent", "start", "loop", "serving", "select", "returned"},
                          http : Gens, serving : Gens \cup {None},
                          ln : Addresses \cup {None}, open : BOOLEAN, shutdownCh : BOOLEAN]]
  /\ conf \in [Gens -> Configs \cup {None}] /\ current \in Gens
  /\ renewers \subseteq Gens /\ closed \subseteq Gens
  /\ down \subseteq Servers \X Gens /\ active \subseteq Servers \X Gens
  /\ leaked \subseteq Addresses
  /\ process \in {"running", "exited", "panicked"}

Stopping == handler.pc \in {"stop", "stopped", "end"}

(* What a server uses outlives its use.  CloseForReload closes a key manager *)
(* only after both servers have drained the requests that run on it; Reload *)
(* stops a renewer only once the HTTPS server that presents its certificate *)
(* has been replaced.  (CA.Stop closes them first: the exception.)          *)
ServedOnLiveResources ==
  ~Stopping =>
    /\ \A r \in active : r[2] \notin closed
    /\ LET s == srv["secure"] IN
       s.pc = "serving" /\ << "secure", s.serving >> \notin down => s.serving \in renewers

\* Reload has returned without error.
ReloadApplied ==
  handler.pc = "wait" /\ handler.result = "applied"
    => /\ \A s \in Present : srv[s].http = current
       /\ current \in renewers \ closed

\* Reload has returned an error.
FailedReloadContinues ==
  Running /\ handler.pc = "wait" /\ handler.result = "failed"
    => \A s \in Present : srv[s].http = current /\ srv[s].pc \in {"start", "loop", "serving"}

(* Reload is all or nothing.  When it has returned without error, every     *)
(* server wraps the http.Server of the generation the CA has taken over,    *)
(* its keys are open and its renewer runs.  When it has returned an error   *)
(* before it touched a server, every server still wraps and serves that of  *)
(* the generation of the CA ("Continuing to run with the original           *)
(* configuration", CA.Reload).                                              *)
ReloadAllOrNothing ==
  ReloadApplied /\ (faults \subseteq EarlyFaults => FailedReloadContinues)

(* A configuration whose insecure server cannot replace the running one is  *)
(* a failed Reload, not the end of the process.                             *)
(* Does not hold, see the README.                                           *)
ReloadNeverPanics == process # "panicked"

(* A SIGTERM that StopReloaderHandler has received ends the process, even   *)
(* when it arrives during a Reload.  Holds when the servers have started    *)
(* serving (Prompt), see the README.                                        *)
TermStops == termed ~> process # "running"

=============================================================================
