----------------------------- MODULE TlsRenewer -----------------------------
(***************************************************************************)
(* TLSRenewer (ca/renew.go): the certificate of a TLS server or client is  *)
(* renewed by a timer, and in the CA's own server also by a handshake that *)
(* finds it about to expire.  A client's renewal (ca/tls.go,               *)
(* ca/tls_options.go, ca/mutable_tls_config.go) first refreshes the pool   *)
(* of root certificates it trusts, then asks the CA over that connection.  *)
(*                                                                         *)
(* Time is a number of units.  Local steps take none; a call of            *)
(* RenewCertificate takes up to MaxCall.  Durations are divided as the     *)
(* code divides them.                                                      *)
(***************************************************************************)
EXTENDS Naturals, FiniteSets

CONSTANTS
  ForCA,       \* TRUE: GetCertificateForCA, renewal is local to the process
  Timers,      \* goroutines that run the timer's function
  Handshakes,  \* concurrent TLS handshakes of the CA's server
  Minute,      \* minCertDuration, and the delta of certNotAfter
  Lifetime,    \* lifetime of a renewed certificate
  Periods,     \* remaining lifetimes of the certificate given to the renewer
  MaxTime,     \* bound on the clock
  MaxCall,     \* longest call of RenewCertificate
  MaxFailures, \* bound on the calls that fail for no reason of their own
  Sleeps,      \* how long the machine sleeps when it sleeps, {} for never
  Roots,       \* root certificates of the CA, in the order of their use
  RotationWait,\* the operator's pause between two steps of a root rotation
  CanStop,     \* TRUE: Stop is called at some time
  None

VARIABLES
  now,          \* the clock
  cert,         \* NotAfter of r.cert
  certNotAfter, \* r.certNotAfter
  renewBefore, renewJitter,
  timer,        \* when the timer fires, None when it is not active
  thread,       \* the renewals in progress
  stopped,      \* Stop has returned
  failures,
  served,       \* what the last handshake got
  rotation,     \* [listed, used, at]: the CA's roots and the one it uses
  mutRootCerts, rootCAs  \* of the client's mutableTLSConfig

timeVars == << now, renewBefore, renewJitter >>
poolVars == << rotation, mutRootCerts, rootCAs >>
vars == << timeVars, cert, certNotAfter, timer, thread, stopped, failures, served, poolVars >>

Threads == Timers \cup Handshakes
Idle == [pc |-> "idle", since |-> 0, new |-> None]

(* Mutant of nextRenewDuration: renew when the certificate expires.         *)
renewAtExpiry(notAfter, n) == IF notAfter < now + n THEN 0 ELSE notAfter - now - n

nextRenewDuration(notAfter, n) ==
  LET d == notAfter - now IN IF d < renewBefore + n THEN 0 ELSE d - renewBefore - n

(* TLSOptionCtx.apply: the pool holds the roots the options have fetched,   *)
(* which replace the root of the first certificate.                         *)
apply ==
  /\ mutRootCerts = {}
  /\ rootCAs = rotation.listed

(* NewTLSRenewer, then Run: the first period is measured from now; the      *)
(* defaults are a third and a twentieth of it.                              *)
Init ==
  /\ now = 0
  /\ \E period \in Periods :
       /\ cert = period
       /\ certNotAfter = period - Minute
       /\ renewBefore = period \div 3
       /\ renewJitter = period \div 20
  /\ \E n \in 0 .. renewJitter - 1 : timer = nextRenewDuration(cert, n)
  /\ thread = [t \in Threads |-> Idle]
  /\ stopped = FALSE
  /\ failures = 0
  /\ served = [valid |-> TRUE, renewal |-> "none"]
  /\ rotation = [listed |-> {1}, used |-> 1, at |-> 0]
  /\ apply

-----------------------------------------------------------------------------
(* The timer's function and renewCertificate.                               *)

Go(t, pc) == thread' = [thread EXCEPT ![t].pc = pc]
FirstCall == IF ForCA THEN "renew" ELSE "roots"

(* The call fails by itself, or has to: an expired client certificate or a  *)
(* server certificate under an unknown root end the TLS handshake.          *)
Connects == ForCA \/ (now <= cert /\ rotation.used \in rootCAs)
Failing == ~Connects \/ failures < MaxFailures
Fail(t) ==
  /\ failures' = IF Connects THEN failures + 1 ELSE failures
  /\ thread' = [thread EXCEPT ![t].pc = "reset", ![t].new = None]

TimerFires(t) ==
  /\ timer # None /\ now >= timer /\ thread[t].pc = "idle"
  /\ timer' = None
  /\ thread' = [thread EXCEPT ![t] = [pc |-> FirstCall, since |-> now, new |-> None]]
  /\ UNCHANGED << timeVars, cert, certNotAfter, stopped, failures, served, poolVars >>

(* applyRenew, first option: AddRootsToRootCAs.                             *)
AddRoots(t) ==
  /\ thread[t].pc = "roots" /\ Connects
  /\ mutRootCerts' = mutRootCerts \cup rotation.listed
  /\ Go(t, "federation")
  /\ UNCHANGED << timeVars, cert, certNotAfter, timer, stopped, failures, served, rotation, rootCAs >>

(* Mutant of Reload: applyRenew does not reload the pools.                  *)
NoReload(t) ==
  /\ thread[t].pc = "federation" /\ Connects
  /\ mutRootCerts' = mutRootCerts \cup rotation.listed
  /\ Go(t, "renew")
  /\ UNCHANGED << timeVars, cert, certNotAfter, timer, stopped, failures, served, rotation, rootCAs >>

(* applyRenew, second option: AddFederationToRootCAs, whose answer holds    *)
(* the roots; then Reload of the mutable pools.                             *)
Reload(t) ==
  /\ thread[t].pc = "federation" /\ Connects
  /\ rootCAs' = mutRootCerts \cup rotation.listed
  /\ mutRootCerts' = {}
  /\ Go(t, "renew")
  /\ UNCHANGED << timeVars, cert, certNotAfter, timer, stopped, failures, served, rotation >>

(* Authority.GetTLSCertificate, or Client.Renew: the certificate is signed  *)
(* during the call.                                                         *)
Renew(t) ==
  /\ thread[t].pc = "renew" /\ Connects
  /\ thread' = [thread EXCEPT ![t].pc = "issued", ![t].new = now + Lifetime]
  /\ UNCHANGED << timeVars, cert, certNotAfter, timer, stopped, failures, served, poolVars >>

CallFails(t) ==
  /\ thread[t].pc \in {"roots", "federation", "renew"} /\ Failing
  /\ Fail(t)
  /\ UNCHANGED << timeVars, cert, certNotAfter, timer, stopped, served, poolVars >>

setCertificate(t) ==
  /\ thread[t].pc = "issued"
  /\ cert' = thread[t].new
  /\ certNotAfter' = thread[t].new - Minute
  /\ Go(t, "reset")
  /\ UNCHANGED << timeVars, timer, stopped, failures, served, poolVars >>

(* The tail of renewCertificate: half the jitter and a random part of it    *)
(* after a failure.                                                         *)
RetryAfter == renewJitter \div 2
ResetTimer(t) ==
  /\ thread[t].pc = "reset"
  /\ IF thread[t].new = None
     THEN \E n \in 0 .. RetryAfter - 1 : timer' = now + RetryAfter + n
     ELSE \E n \in 0 .. renewJitter - 1 : timer' = now + nextRenewDuration(thread[t].new, n)
  /\ thread' = [thread EXCEPT ![t] = IF t \in Handshakes THEN [@ EXCEPT !.pc = "read"] ELSE Idle]
  /\ UNCHANGED << timeVars, cert, certNotAfter, stopped, failures, served, poolVars >>

-----------------------------------------------------------------------------
(* getCertificateForCA: the check of the clock and the read of the          *)
(* certificate share a lock, unless a renewal is forced between them.       *)

Serve(renewal) == served' = [valid |-> now <= cert, renewal |-> renewal]

(* Mutant of getCertificateForCA: no forced renewal.                        *)
getCertificateOnly(h) ==
  /\ thread[h].pc = "idle"
  /\ Serve("none")
  /\ UNCHANGED << timeVars, cert, certNotAfter, timer, thread, stopped, failures, poolVars >>

getCertificateForCA(h) ==
  /\ thread[h].pc = "idle"
  /\ IF now > certNotAfter
     THEN /\ thread' = [thread EXCEPT ![h] = [pc |-> FirstCall, since |-> now, new |-> None]]
          /\ UNCHANGED served
     ELSE /\ Serve("none")
          /\ UNCHANGED thread
  /\ UNCHANGED << timeVars, cert, certNotAfter, timer, stopped, failures, poolVars >>

ReadRenewed(h) ==
  /\ thread[h].pc = "read"
  /\ Serve(IF thread[h].new = None THEN "failed" ELSE "done")
  /\ thread' = [thread EXCEPT ![h] = Idle]
  /\ UNCHANGED << timeVars, cert, certNotAfter, timer, stopped, failures, poolVars >>

Stop ==
  /\ CanStop /\ ~stopped
  /\ stopped' = TRUE
  /\ timer' = None
  /\ UNCHANGED << timeVars, cert, certNotAfter, thread, failures, served, poolVars >>

-----------------------------------------------------------------------------
(* The environment.                                                         *)

InCall(t) == thread[t].pc \in {"roots", "federation", "renew", "issued"}

(* Time passes between local steps, never past a due timer or a due answer. *)
Tick ==
  /\ now < MaxTime
  /\ timer # None => now < timer
  /\ \A t \in Threads : thread[t].pc # "idle" => InCall(t) /\ now < thread[t].since + MaxCall
  /\ now' = now + 1
  /\ UNCHANGED << renewBefore, renewJitter, cert, certNotAfter, timer, thread, stopped, failures, served, poolVars >>

(* The machine sleeps: the timer's monotonic clock stands still.            *)
Sleep ==
  \E d \in Sleeps :
    /\ now + d <= MaxTime /\ timer # None
    /\ \A t \in Threads : thread[t].pc = "idle"
    /\ now' = now + d
    /\ timer' = timer + d
    /\ UNCHANGED << renewBefore, renewJitter, cert, certNotAfter, thread, stopped, failures, served, poolVars >>

(* The operator rotates the root: publish the next one, use it, withdraw    *)
(* the old one, with a pause after each step.                               *)
Rotate ==
  /\ ~ForCA /\ now >= rotation.at + RotationWait
  /\ rotation' =
       IF rotation.listed = {rotation.used}
       THEN [rotation EXCEPT !.listed = @ \cup {rotation.used + 1}, !.at = now]
       ELSE IF rotation.used + 1 \in rotation.listed
       THEN [rotation EXCEPT !.used = @ + 1, !.at = now]
       ELSE [rotation EXCEPT !.listed = {rotation.used}, !.at = now]
  /\ rotation'.listed \subseteq 1 .. Roots
  /\ UNCHANGED << timeVars, cert, certNotAfter, timer, thread, stopped, failures, served, mutRootCerts, rootCAs >>

Done == now = MaxTime /\ UNCHANGED vars

Next ==
  \/ Tick \/ Sleep \/ Stop \/ Rotate \/ Done
  \/ \E t \in Timers : TimerFires(t)
  \/ \E h \in Handshakes : getCertificateForCA(h) \/ ReadRenewed(h)
  \/ \E t \in Threads : AddRoots(t) \/ Reload(t) \/ Renew(t) \/ CallFails(t)
                        \/ setCertificate(t) \/ ResetTimer(t)

Spec == Init /\ [][Next]_vars

-----------------------------------------------------------------------------
(* The clock, the timer and the goroutines.                                 *)
TypeOK ==
  /\ now \in 0 .. MaxTime
  /\ cert \in Nat /\ certNotAfter = cert - Minute
  /\ timer \in Nat \cup {None}
  /\ thread \in [Threads -> [pc : {"idle", "roots", "federation", "renew", "issued", "reset", "read"},
                             since : Nat, new : Nat \cup {None}]]
  /\ failures \in 0 .. MaxFailures
  /\ mutRootCerts \subseteq 1 .. Roots /\ rootCAs \subseteq 1 .. Roots

(* The timer fires, fails and retries often enough that the certificate in  *)
(* use never expires, as long as the machine does not sleep.                *)
RenewedInTime == now <= cert

(* "It will automatically renew the certificate if it has expired": a       *)
(* handshake of the CA's server gets an unexpired certificate unless the    *)
(* renewal it forced has failed, also after the machine slept and with      *)
(* several renewals at once.                                                *)
ServedValid == served.valid \/ served.renewal = "failed"

(* A client that renews through a rotation of the root, whose steps are a   *)
(* lifetime apart, always trusts the root the CA uses.                      *)
TrustKept == rotation.used \in rootCAs

(* "Stop prevents the renew timer from firing."                             *)
(* Does not hold, see the README.                                           *)
StopHolds == stopped => timer = None
=============================================================================
