----------------------------- MODULE CaPackage ------------------------------
(***************************************************************************)
(* The package ca: the process of a running CA (CaServer), the renewer of    *)
(* the certificate its HTTPS server presents, the renewer of a client's      *)
(* certificate and the files of a client's default identity.  They share no  *)
(* state; a behaviour exercises one of them.                                 *)
(***************************************************************************)
EXTENDS CaServer

CONSTANTS
  Timers, Handshakes, Sleeps, LocalTime, LocalFailures,  \* of the CA's own renewer
  ClientTimers, ClientTime, ClientFailures, RootCount, RotationWait, \* of a client's
  Minute, Lifetime, Periods, MaxCall, \* of both
  Keys, Torn  \* of the identity

VARIABLES
  part, \* what the behaviour exercises
  now, cert, certNotAfter, renewBefore, renewJitter, timer, thread, stopped, failures,
  served, rotation, mutRootCerts, rootCAs,
  crt, key, json, pc, own, made

(* The CA's own renewer, on a machine that sleeps.                          *)
Local ==
  INSTANCE TlsRenewer WITH
    ForCA <- TRUE, MaxTime <- LocalTime, MaxFailures <- LocalFailures,
    Roots <- 1, RotationWait <- 0, CanStop <- TRUE

(* A client that renews through a rotation of the CA's root.                *)
Client ==
  INSTANCE TlsRenewer WITH
    ForCA <- FALSE, Timers <- ClientTimers, Handshakes <- {}, MaxTime <- ClientTime,
    MaxFailures <- ClientFailures, Sleeps <- {}, Roots <- RootCount, CanStop <- FALSE

(* The default identity of a client.                                        *)
Identity == INSTANCE ClientIdentity

renewVars ==
  << now, cert, certNotAfter, renewBefore, renewJitter, timer, thread, stopped, failures,
     served, rotation, mutRootCerts, rootCAs >>
identityVars == << crt, key, json, pc, own, made >>

-----------------------------------------------------------------------------
(* What the properties need of the environment.                             *)

(* Durations are numbers; a call does not take longer than a certificate    *)
(* lives.                                                                   *)
Durations ==
  /\ Minute \in Nat /\ Lifetime \in Nat /\ MaxCall \in Nat /\ MaxCall <= Lifetime
  /\ Periods \subseteq Nat /\ Sleeps \subseteq Nat
  /\ ClientFailures \in Nat /\ RotationWait \in Nat
  /\ None \notin Nat

(* A missing or truncated file is neither a key, a certificate nor a        *)
(* descriptor.                                                              *)
FilesDistinct ==
  /\ {None, Torn} \cap Keys = {} /\ {None, Torn} \cap Identity!Cert = {}
  /\ "mTLS" \notin {None, Torn}

(* The longest time from the firing of the timer to the end of the call     *)
(* that succeeds, when the certificate was first valid for period.          *)
Delay(period) == MaxCall + ClientFailures * (MaxCall + 2 * ((period \div 20) \div 2))

(* The calls of a client are short and fail seldom enough for what the      *)
(* timer leaves, a third of the first period; a step of a root rotation     *)
(* waits for a certificate's life.                                          *)
EnoughTime ==
  \A period \in Periods :
    /\ MaxCall + Delay(period) < period \div 3
    /\ MaxCall + Delay(period) < Lifetime
    /\ period <= RotationWait /\ Lifetime <= RotationWait

-----------------------------------------------------------------------------
(* "It will automatically renew the certificate if it has expired": a       *)
(* handshake of the CA's server gets an unexpired certificate unless the    *)
(* renewal it forced has failed, also after the machine slept and with      *)
(* several renewals at once (getCertificateForCA).                          *)
ServedValid == Local!ServedValid

(* The timer fires, fails and retries often enough that the certificate of  *)
(* a client never expires (nextRenewDuration, renewCertificate).            *)
RenewedInTime == part = "client" => Client!RenewedInTime

(* A client that renews through a rotation of the root, whose steps are a   *)
(* lifetime apart, always trusts the root the CA uses (mutableTLSConfig).   *)
TrustKept == part = "client" => Client!TrustKept

(* Wherever a command stopped, the certificate and the key an existing      *)
(* descriptor points to belong together when both can be read               *)
(* (CreateIdentityRequest, WriteDefaultIdentity, Identity.Renew).           *)
IdentityPairAgrees == Identity!IdentityPairAgrees

=============================================================================
