--------------------------- MODULE ClientIdentity ---------------------------
(***************************************************************************)
(* The default identity of a client on disk (ca/identity/identity.go and the *)
(* helpers of ca/client.go around it): a certificate, its key and a          *)
(* descriptor in three files that are rewritten one after the other, on a    *)
(* machine that may stop at any moment.  os.WriteFile truncates a file       *)
(* before it writes it.  One command at a time works on the files.           *)
(***************************************************************************)
EXTENDS Naturals

CONSTANTS
  Keys,   \* private keys GenerateDefaultKey may return
  None,   \* a file that does not exist, or no value
  Torn    \* a file that was truncated and not written

VARIABLES
  crt,      \* identity.crt: None, Torn or the certificate
  key,      \* identity_key: None, Torn or a key
  json,     \* identity.json: None, Torn or its type
  pc,       \* what the command does next
  own,      \* the key the command works with
  made      \* history: the keys that have been generated

vars == << crt, key, json, pc, own, made >>

\* A certificate is told apart by the key it is for and whether it is within its
\* validity, DefaultLeeway included.
Cert == [for: Keys, live: BOOLEAN]

\* LoadIdentity and Validate, of a descriptor WriteDefaultIdentity wrote.
LoadDefaultIdentity == json = "mTLS"

fileExists(file) == file # None

Validate == fileExists(crt) /\ fileExists(key)

LoadX509KeyPair == crt \in Cert /\ key \in Keys /\ crt.for = key

TLSCertificate == LoadX509KeyPair /\ crt.live

\* Whether a client presents the identity (applyDefaultIdentity).
Usable == LoadDefaultIdentity /\ Validate /\ TLSCertificate

Init ==
  /\ crt = None /\ key = None /\ json = None
  /\ pc = "idle" /\ own = None /\ made = {}

\* Mutant: every identity gets a key of its own.
IdentityKeysNew == Keys \ made

\* CreateIdentityRequest: the key of the identity when there is one that can be
\* read, a new one otherwise.  The CA has signed the request in the next state.
IdentityKeys == IF LoadDefaultIdentity /\ key \in Keys THEN {key} ELSE Keys \ made

CreateIdentityRequest ==
  /\ pc = "idle"
  /\ \E k \in IdentityKeys : own' = k /\ made' = made \cup {k}
  /\ pc' = "crt"
  /\ UNCHANGED << crt, key, json >>

Fresh == [for |-> own, live |-> TRUE]

\* WriteDefaultIdentity: the certificate, the key and then the descriptor, each
\* truncated and then written.
writeCertificate ==
  /\ \/ pc = "crt" /\ crt' = Torn /\ pc' = "crt2"
     \/ pc = "crt2" /\ crt' = Fresh /\ pc' = "key"
  /\ UNCHANGED << key, json, own, made >>

WriteDefaultIdentity ==
  \/ writeCertificate
  \/ /\ \/ pc = "key" /\ key' = Torn /\ pc' = "key2"
        \/ pc = "key2" /\ key' = own /\ pc' = "json"
     /\ UNCHANGED << crt, json, own, made >>
  \/ /\ \/ pc = "json" /\ json' = Torn /\ pc' = "json2"
        \/ pc = "json2" /\ json' = "mTLS" /\ pc' = "idle"
     /\ UNCHANGED << crt, key, own, made >>

\* Identity.Renew: the CA renews the certificate, for the key it has, and the
\* file is written anew.
Renew ==
  \/ /\ pc = "idle" /\ LoadDefaultIdentity /\ TLSCertificate
     /\ own' = key /\ pc' = "renew"
     /\ UNCHANGED << crt, key, json, made >>
  \/ /\ \/ pc = "renew" /\ crt' = Torn /\ pc' = "renew2"
        \/ pc = "renew2" /\ crt' = Fresh /\ pc' = "idle"
     /\ UNCHANGED << key, json, own, made >>

Expire ==
  /\ crt \in Cert /\ crt' = [crt EXCEPT !.live = FALSE]
  /\ UNCHANGED << key, json, pc, own, made >>

\* The command, or the machine, stops; a request the CA refuses also ends it.
Crash == pc # "idle" /\ pc' = "idle" /\ UNCHANGED << crt, key, json, own, made >>

Next ==
  CreateIdentityRequest \/ WriteDefaultIdentity \/ Renew \/ Expire \/ Crash

Spec == Init /\ [][Next]_vars

-----------------------------------------------------------------------------
\* Wherever a command stopped, the certificate and the key an existing descriptor
\* points to belong together when both can be read: a write that was cut short
\* costs the identity at most until the next one and never leaves a pair that
\* cannot be used.
IdentityPairAgrees ==
  json = "mTLS" /\ crt \in Cert /\ key \in Keys => crt.for = key

=============================================================================
