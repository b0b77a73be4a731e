------------------------- MODULE ProvisionerPackage -------------------------
(***************************************************************************)
(* The package authority/provisioner at run time: the tokens presented to  *)
(* the provisioners (ProvisionerTokens); the cached keys of an identity    *)
(* provider (KeyStore), which the goroutines that handle the requests read *)
(* to verify them; and the certificates the provisioners let the authority *)
(* sign once a token is accepted (ProvisionerSign).                        *)
(***************************************************************************)
EXTENDS ProvisionerTokens, ProvisionerSign

CONSTANTS
  Timers,      \* goroutines of the timer of the key store
  Ages, Hour, FetchTime, Sleeps, MaxFailures,  \* of the key store
  StoreTime,   \* bounds the clock of the key store
  None

VARIABLES clock, age, keys, expiry, jitter, timer, thread, failures, slept

keyVars == << clock, age, keys, expiry, jitter, timer, thread, failures, slept >>

Store == INSTANCE KeyStore WITH Readers <- Requests, MaxTime <- StoreTime, now <- clock

(* Durations are whole seconds, and the jitter has a positive bound.        *)
Durations ==
  /\ Ages \subseteq Nat /\ Hour \in Nat \ {0} /\ FetchTime \in Nat /\ Sleeps \subseteq Nat
  /\ None \notin Int

(* The keys a token is verified with are no older than the provider allows, *)
(* up to the time of a fetch, unless the reload that Get forced has failed; *)
(* and while no fetch fails the timer renews them in time (keystore.go: Get *)
(* and reload, whose fetches overlap).                                      *)
KeysFresh == Store!KeysFresh

=============================================================================
