------------------------------ MODULE KeyStore ------------------------------
(***************************************************************************)
(* The cached keys of an identity provider (authority/provisioner/           *)
(* keystore.go), which OIDC, Azure and GCP tokens are verified with: a timer *)
(* reloads them before they expire, and Get reloads them itself when they    *)
(* have expired.  A reload fetches outside the lock and stores under it, so  *)
(* reloads of the timer and of several Gets overlap.                         *)
(*                                                                         *)
(* A set of keys is told apart by when its fetch began.  That every fetch    *)
(* ends within FetchTime is assumed of the network: http.Get sets no limit.  *)
(***************************************************************************)
EXTENDS Integers, FiniteSets

CONSTANTS
  Readers,     \* goroutines that call Get
  Timers,      \* goroutines of the timer, which may overlap
  Ages,        \* the max-age the provider may announce, one per behaviour
  Hour,        \* bounds the jitter
  FetchTime,   \* the longest fetch
  Sleeps,      \* how long the machine may sleep
  MaxFailures, \* bounds the failed fetches
  MaxTime,     \* bounds the clock
  None

VARIABLES
  now,      \* the wall clock, in whole seconds
  age,      \* the max-age the provider announces
  keys,     \* keySet: when its fetch began
  expiry, jitter,
  timer,    \* when the timer fires; None when it has fired
  thread,   \* [Readers \cup Timers -> the local variables of a goroutine]
  failures, \* failed fetches so far
  slept     \* history: the machine has slept

vars == << now, age, keys, expiry, jitter, timer, thread, failures, slept >>

Threads == Readers \cup Timers

Idle == [pc |-> "idle", since |-> 0, next |-> 0, failed |-> FALSE, got |-> None]

getCacheJitter(a) == IF a > Hour \/ a = 0 THEN Hour ELSE a \div 3

getExpirationTime(a) == now + a

Abs(n) == IF n < 0 THEN -n ELSE n

\* All the durations the random jitter can lead to.
nextReloadDuration(a, j) == {Abs(a - n) : n \in 0 .. j - 1}

\* newKeyStore: the provisioner is only there once it has keys.
newKeyStore ==
  /\ now = 0 /\ age \in Ages
  /\ keys = 0 /\ expiry = age /\ jitter = getCacheJitter(age)
  /\ timer \in nextReloadDuration(age, jitter)

Init ==
  /\ newKeyStore
  /\ thread = [t \in Threads |-> Idle]
  /\ failures = 0 /\ slept = FALSE

At(t, pc) == thread[t].pc = pc

-----------------------------------------------------------------------------
\* Mutant: the keys are read without a look at their expiry.
GetUnchecked(r) ==
  /\ At(r, "idle")
  /\ thread' = [thread EXCEPT ![r] = [Idle EXCEPT !.pc = "read", !.since = now]]
  /\ UNCHANGED << now, age, keys, expiry, jitter, timer, failures, slept >>

Get(r) ==
  /\ At(r, "idle")
  /\ thread' = [thread EXCEPT ![r] = [Idle EXCEPT !.pc = IF now > expiry THEN "fetch" ELSE "read",
                                                  !.since = now]]
  /\ UNCHANGED << now, age, keys, expiry, jitter, timer, failures, slept >>

\* The timer calls reload.
Fire(t) ==
  /\ At(t, "idle") /\ timer # None /\ now >= timer
  /\ timer' = None
  /\ thread' = [thread EXCEPT ![t] = [Idle EXCEPT !.pc = "fetch", !.since = now]]
  /\ UNCHANGED << now, age, keys, expiry, jitter, failures, slept >>

\* reload: a set of keys has come and is stored under the lock.
ReloadStore(t) ==
  /\ At(t, "fetch")
  /\ keys' = thread[t].since
  /\ expiry' = getExpirationTime(age)
  /\ jitter' = getCacheJitter(age)
  /\ \E next \in nextReloadDuration(age, jitter') :
       thread' = [thread EXCEPT ![t].pc = "reset", ![t].next = next]
  /\ UNCHANGED << now, age, timer, failures, slept >>

\* reload: the fetch fails, and the old keys stay.
ReloadFails(t) ==
  /\ At(t, "fetch") /\ failures < MaxFailures
  /\ failures' = failures + 1
  /\ \E next \in nextReloadDuration(jitter \div 2, jitter) :
       thread' = [thread EXCEPT ![t].pc = "reset", ![t].next = next, ![t].failed = TRUE]
  /\ UNCHANGED << now, age, keys, expiry, jitter, timer, slept >>

\* reload sets the timer again, and Get goes on.
Reset(t) ==
  /\ At(t, "reset")
  /\ timer' = now + thread[t].next
  /\ thread' = [thread EXCEPT ![t] = IF t \in Readers THEN [@ EXCEPT !.pc = "read"] ELSE Idle]
  /\ UNCHANGED << now, age, keys, expiry, jitter, failures, slept >>

Read(r) ==
  /\ At(r, "read")
  /\ thread' = [thread EXCEPT ![r].pc = "done", ![r].got = keys]
  /\ UNCHANGED << now, age, keys, expiry, jitter, timer, failures, slept >>

Return(r) ==
  /\ At(r, "done")
  /\ thread' = [thread EXCEPT ![r] = Idle]
  /\ UNCHANGED << now, age, keys, expiry, jitter, timer, failures, slept >>

\* The assumption on fetches; and the timer fires when it is due.
Tick ==
  /\ now < MaxTime
  /\ \A t \in Threads : At(t, "idle") \/ now - thread[t].since < FetchTime
  /\ timer # None => now < timer
  /\ now' = now + 1
  /\ UNCHANGED << age, keys, expiry, jitter, timer, thread, failures, slept >>

\* The timer is monotonic and stands still meanwhile; the wall clock does not.
Sleep(d) ==
  /\ now + d <= MaxTime /\ timer # None
  /\ \A t \in Threads : At(t, "idle")
  /\ now' = now + d /\ timer' = timer + d /\ slept' = TRUE
  /\ UNCHANGED << age, keys, expiry, jitter, thread, failures >>

Next ==
  \/ \E r \in Readers : Get(r) \/ Read(r) \/ Return(r)
  \/ \E t \in Timers : Fire(t)
  \/ \E t \in Threads : ReloadStore(t) \/ ReloadFails(t) \/ Reset(t)
  \/ Tick
  \/ \E d \in Sleeps : Sleep(d)

Spec == Init /\ [][Next]_vars

-----------------------------------------------------------------------------
\* The keys a token is verified with are no older than the provider allows, up
\* to the time of a fetch, unless the reload that Get forced has failed, also
\* when a slow reload stores over a faster one or the machine has slept; and
\* while no fetch fails the timer renews the keys before they expire, up to two
\* fetches, whether or not anybody asks for them (Get, reload).
KeysFresh ==
  /\ \A r \in Readers : At(r, "done") /\ ~thread[r].failed =>
       thread[r].got + age + FetchTime >= thread[r].since
  /\ failures = 0 /\ ~slept /\ age > 0 => now <= expiry + 2 * FetchTime

=============================================================================
