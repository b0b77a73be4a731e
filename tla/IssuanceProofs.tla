--------------------------- MODULE IssuanceProofs ---------------------------
(***************************************************************************)
(* What the authority decides about a certificate: the period it is valid  *)
(* for (CertValidity) and the policy its names are held against            *)
(* (AuthorityPolicy).                                                      *)
(*                                                                         *)
(* Periods: for any claims, credentials, requests, backdate, units of time *)
(* and number of renewals.  The invariant says at each step what is known  *)
(* of the period so far: the modifiers leave one within the credential,    *)
(* and for SSH one whose seconds and nanoseconds do not wrap; a signed one *)
(* has whole seconds, so that rounding the clock anew keeps its length.    *)
(*                                                                         *)
(* Policies: for any number of requests, admins and policies.  The holder  *)
(* of adminMutex is the one request between its check and the end of its   *)
(* reload.  Until that request writes the row, the engine is still the one *)
(* of the row and the policy it checked still allows every admin, because  *)
(* nobody else changes the row, the engine or the admins meanwhile.        *)
(***************************************************************************)
EXTENDS AuthorityPolicy, CertValidity, TLAPS

(* A leaf is Zenon's unless it names another prover.                        *)
USE ZenonT(60)


(***************************************************************************)
(* A requested time that the code can hold as a number of nanoseconds.     *)
(***************************************************************************)
Fits(td) ==
  IF td.form = "duration"
  THEN Start + td.v >= 0 /\ MaxClock + td.v < Half
  ELSE 0 <= td.v /\ td.v < Half

(* No time or duration of an SSH request reaches 2^63 nanoseconds, the year *)
(* 2262, and none lies before 1970: the code turns the seconds of an SSH    *)
(* certificate into a time.Duration.  X.509 certificates have no such limit. *)
InRange ==
  ~IsTLS =>
    /\ Backdate <= Start /\ MaxClock < Half
    /\ MyDefault + Backdate < Half
    /\ conf.limit # None => 0 <= conf.limit.before /\ conf.limit.before < Half
    /\ Fits(req.after) /\ Fits(req.before) /\ Fits(req.tokAfter) /\ Fits(req.tokBefore)

-----------------------------------------------------------------------------
(* Whole seconds and integers of a fixed width.                             *)

LEMMA UnixIs ==
  ASSUME NEW t \in Int
  PROVE  /\ Unix(t) \in Int
         /\ Unix(t) * Sec <= t
         /\ t < Unix(t) * Sec + Sec
         /\ t >= 0 => Unix(t) >= 0 /\ Unix(t) <= t
<1>1. Unix(t) \in Int
  BY UnitsAssumption, SMTT(60) DEF Unix
<1>2. Unix(t) * Sec <= t
  BY UnitsAssumption, SMTT(60) DEF Unix
<1>3. t < Unix(t) * Sec + Sec
  BY UnitsAssumption, SMTT(60) DEF Unix
<1>. QED
  BY <1>1, <1>2, <1>3, UnitsAssumption, SMTT(60)

LEMMA UnixMonotone ==
  ASSUME NEW s \in Int, NEW t \in Int, s <= t
  PROVE  Unix(s) <= Unix(t)
  BY UnitsAssumption, SMTT(60) DEF Unix

LEMMA UnixShift ==
  ASSUME NEW t \in Int, NEW k \in Int
  PROVE  Unix(t + k * Sec) = Unix(t) + k
  BY UnitsAssumption, SMTT(60) DEF Unix

LEMMA TruncateIs ==
  ASSUME NEW t \in Int
  PROVE  /\ Truncate(t) = Unix(t) * Sec
         /\ Truncate(t) \in Int /\ Truncate(t) <= t /\ t < Truncate(t) + Sec
<1>1. t % Sec = t - Unix(t) * Sec
  BY UnitsAssumption, SMTT(60) DEF Unix
<1>2. Unix(t) * Sec \in Int
  BY UnixIs, UnitsAssumption, SMTT(60)
<1>3. \A w \in Int : t - (t - w) = w
  BY SMTT(60)
<1>4. Truncate(t) = Unix(t) * Sec
  BY <1>1, <1>2, <1>3 DEF Truncate
<1>. QED
  BY <1>2, <1>4, UnixIs, UnitsAssumption, SMTT(60)

LEMMA UintIs ==
  ASSUME NEW n \in Nat, n < 2 * Half
  PROVE  Uint(n) = n
  BY UnitsAssumption, SMTT(60) DEF Uint

LEMMA SignedIs ==
  ASSUME NEW n \in Nat, n < Half
  PROVE  Signed(n) = n
  BY UintIs, UnitsAssumption, SMTT(60) DEF Signed

LEMMA Times ==
  ASSUME NEW a \in Int, NEW b \in Int, a <= b
  PROVE  a * Sec \in Int /\ a * Sec <= b * Sec /\ (a + 1) * Sec = a * Sec + Sec
  BY UnitsAssumption, SMTT(60)

LEMMA TimesNat ==
  ASSUME NEW a \in Nat
  PROVE  a <= a * Sec /\ a * Sec \in Nat
  BY UnitsAssumption, SMTT(60)

-----------------------------------------------------------------------------
(* The inductive invariant.                                                 *)

Periods == [after: Int, before: Int]

(* Length, and what PeriodBounded says of a certificate, as functions of    *)
(* the kind, the claims, the credential and the time of the signature.      *)
Len(k, c) == (c.before - c.after) * (IF k = "tls" THEN 1 ELSE Sec)

Met(k, claims, c) ==
  /\ Len(k, c) >= MinDuration(k, claims)
  /\ Len(k, c) <= MaxDuration(k, claims) + Backdate

Covered(k, limit, c) ==
  limit # None =>
    IF k = "tls" THEN c.before <= limit.before /\ c.after > limit.after - Backdate - Sec
    ELSE c.before * Sec <= limit.before

Live(k, c, t) == c.before >= IF k = "tls" THEN Truncate(t) ELSE Unix(t)

(* A signed period: whole seconds, and for SSH a duration that fits.        *)
Whole(c) == \E a, b \in Int : c.after = a * Sec /\ c.before = b * Sec
Holds(c) ==
  /\ 0 <= c.after /\ c.after < 2 * Half /\ 0 <= c.before /\ c.before < 2 * Half
  /\ (c.before - c.after) * Sec < Half
Shape(k, c) == IF k = "tls" THEN Whole(c) ELSE Holds(c) /\ c.after <= c.before

(* What the modifiers leave to the validators.                              *)
Ready(k, limit, c) ==
  IF k = "tls"
  THEN limit # None => c.before <= limit.before /\ c.after >= limit.after - Backdate
  ELSE Holds(c) /\ (limit # None => c.before * Sec <= limit.before)

(* A number of seconds that fits as a time.                                 *)
Secs(n) == 0 <= n /\ n * Sec < Half

(* What is known of a signed certificate, and of the one it renews.         *)
Settled(k, claims, limit, c, o, g, t) ==
  /\ Shape(k, c)
  /\ g = 0 => Met(k, claims, c) /\ Covered(k, limit, c)
  /\ g = 0 \/ Len(k, c) >= Backdate => Live(k, c, t)
  /\ g # 0 => Len(k, o) = Len(k, c)

Typed ==
  /\ clock \in Start .. MaxClock /\ at \in Int /\ gen \in Nat
  /\ conf \in [kind: Kinds, claims: ClaimSet, limit: Limits, pop: PopClaims]
  /\ req \in [after: TimeDuration, before: TimeDuration,
              tokAfter: TimeDuration, tokBefore: TimeDuration]
  /\ cert \in Periods /\ old \in Periods

Stages ==
  /\ pc \in {"modify", "renew"} => IsTLS
  /\ pc \in {"authorize", "validity", "duration", "renewSSH", "rekeySSH"} => ~IsTLS
  /\ pc \in {"modify", "authorize", "validity", "duration", "validate"} => gen = 0
  /\ pc = "duration" => Secs(cert.after) /\ Secs(cert.before)
  /\ pc = "validate" => Ready(conf.kind, conf.limit, cert)
  /\ pc \in {"issued", "renew", "renewSSH", "rekeySSH"} =>
       Settled(conf.kind, conf.claims, conf.limit, cert, old, gen, at)
  /\ pc \in {"renew", "renewSSH", "rekeySSH"} => old = cert

Inv == Typed /\ InRange /\ Stages

LEMMA InvInit == Init /\ InRange => Inv
<1>. SUFFICES ASSUME Init, InRange PROVE Inv
  OBVIOUS
<1>1. Typed
  BY UnitsAssumption, SMTT(60) DEF Init, Typed, Periods, TimeDuration
<1>2. (IsTLS => pc = "modify") /\ (~IsTLS => pc = "authorize")
  <2>1. pc = IF conf.kind = "tls" THEN "modify" ELSE "authorize"
    BY DEF Init
  <2>. QED
    BY <2>1 DEF IsTLS
<1>3. gen = 0
  BY DEF Init
<1>4. Stages
  BY <1>2, <1>3, SMTT(60) DEF Stages
<1>. QED
  BY <1>1, <1>4 DEF Inv

LEMMA DefaultNat ==
  ASSUME Typed
  PROVE  MyDefault \in Nat
<1>1. conf.kind \in Kinds /\ conf.claims \in ClaimSet
  BY SMTT(60) DEF Typed
<1>. QED
  BY <1>1, UnitsAssumption DEF MyDefault, DefaultDuration

LEMMA RelativeTimeInt ==
  ASSUME NEW td \in TimeDuration, NEW base \in Int
  PROVE  RelativeTime(td, base) \in Int
  BY SMTT(60) DEF TimeDuration, RelativeTime

\* A time that fits is one that the clock can reach in a number of seconds.
LEMMA FitsIs ==
  ASSUME Typed, ~IsTLS, InRange, NEW td \in TimeDuration, Fits(td)
  PROVE  /\ RelativeTime(td, clock) \in Int
         /\ 0 <= RelativeTime(td, clock) /\ RelativeTime(td, clock) < Half
<1>1. clock \in Int /\ Start <= clock /\ clock <= MaxClock /\ Start \in Int /\ MaxClock \in Int
  BY UnitsAssumption, SMTT(60) DEF Typed
<1>2. td.v \in Int
  BY DEF TimeDuration
<1>. QED
  BY <1>1, <1>2, UnitsAssumption, SMTT(60) DEF Fits, RelativeTime

\* The seconds of a time that fits.
LEMMA SecsUnix ==
  ASSUME NEW t \in Int, 0 <= t, t < Half
  PROVE  Uint(Unix(t)) = Unix(t) /\ Secs(Unix(t)) /\ Unix(t) \in Nat
<1>1. Unix(t) \in Nat /\ Unix(t) <= t /\ Unix(t) * Sec <= t /\ Unix(t) * Sec \in Int
  BY UnixIs, UnitsAssumption, SMTT(60)
<1>2. Unix(t) < 2 * Half
  BY <1>1, UnitsAssumption, SMTT(60)
<1>. QED
  BY <1>1, <1>2, UintIs, UnitsAssumption, SMTT(60) DEF Secs

-----------------------------------------------------------------------------
(* X.509.                                                                   *)

\* The period that the modifiers give a certificate starts no more than the
\* backdate before the requested time.
LEMMA StartsAtIs ==
  ASSUME Typed
  PROVE  NotBefore \in Int /\ StartsAt \in Int /\ StartsAt >= NotBefore - Backdate
<1>1. clock \in Int /\ req.after \in TimeDuration
  BY UnitsAssumption, SMTT(60) DEF Typed
<1>2. RelativeTime(req.after, clock) \in Int
  BY <1>1, RelativeTimeInt
<1>. QED
  BY <1>1, <1>2, UnitsAssumption, SMTT(60) DEF NotBefore, StartsAt

\* A step that only moves to another stage.
LEMMA Kept ==
  ASSUME Inv, UNCHANGED << clock, conf, req >>, cert' \in Periods, old' \in Periods,
         gen' \in Nat, at' \in Int
  PROVE  Typed' /\ InRange' /\ (IsTLS' <=> IsTLS)
<1>1. Typed /\ InRange
  BY DEF Inv
<1>2. Typed'
  BY <1>1, SMTT(60) DEF Typed
<1>3. InRange'
  BY <1>1 DEF InRange, IsTLS, MyDefault
<1>. QED
  BY <1>2, <1>3 DEF IsTLS

LEMMA KeepRefused ==
  ASSUME Inv, UNCHANGED << clock, conf, req >>, Refuse
  PROVE  Inv'
<1>1. cert' \in Periods /\ old' \in Periods /\ gen' \in Nat /\ at' \in Int /\ pc' = "refused"
  BY DEF Refuse, Inv, Typed
<1>2. Stages'
  BY <1>1, SMTT(60) DEF Stages
<1>. QED
  BY <1>1, <1>2, Kept DEF Inv

\* What the modifiers of X.509 certificates leave.
LEMMA KeepReady ==
  ASSUME Inv, pc \in {"modify", "duration"}, UNCHANGED << clock, conf, req >>,
         NEW c \in Periods, Ready(conf.kind, conf.limit, c), Goto(c, "validate")
  PROVE  Inv'
<1>1. cert' = c /\ pc' = "validate" /\ old' = old /\ gen' = gen /\ at' = at
  BY DEF Goto
<1>2. Typed /\ gen = 0
  BY SMTT(60) DEF Inv, Stages
<1>3. cert' \in Periods /\ old' \in Periods /\ gen' \in Nat /\ at' \in Int
  BY <1>1, <1>2 DEF Typed
<1>4. Ready(conf.kind, conf.limit, cert)'
  BY <1>1 DEF Ready, Holds
<1>5. Stages'
  BY <1>1, <1>2, <1>4, SMTT(60) DEF Stages
<1>. QED
  BY <1>3, <1>5, Kept DEF Inv

LEMMA KeepModify == ASSUME Inv, Modify PROVE Inv'
<1>1. Typed /\ IsTLS /\ pc = "modify" /\ UNCHANGED << clock, conf, req >>
  BY SMTT(60) DEF Modify, Inv, Stages
<1>2. NotBefore \in Int /\ StartsAt \in Int /\ StartsAt >= NotBefore - Backdate /\ MyDefault \in Nat
  BY <1>1, StartsAtIs, DefaultNat
<1>3. req.before \in TimeDuration /\ conf.limit \in Limits
  BY <1>1, SMTT(60) DEF Typed
<1>4. RelativeTime(req.before, NotBefore) \in Int
  BY <1>2, <1>3, RelativeTimeInt
<1>5. conf.kind = "tls"
  BY <1>1 DEF IsTLS
<1>6. CASE conf.limit = None
  <2>1. PICK na \in Int : Goto(Window(StartsAt, na), "validate")
    <3>1. profileDefaultDuration
      BY <1>6 DEF Modify
    <3>2. NotBefore + MyDefault \in Int
      BY <1>2, SMTT(60)
    <3>. QED
      BY <1>4, <3>1, <3>2 DEF profileDefaultDuration
  <2>2. Window(StartsAt, na) \in Periods
    BY <1>2 DEF Window, Periods
  <2>3. Ready(conf.kind, conf.limit, Window(StartsAt, na))
    BY <1>5, <1>6 DEF Ready
  <2>. QED
    BY <1>1, <2>1, <2>2, <2>3, KeepReady
<1>7. CASE conf.limit # None
  <2>1. conf.limit.before \in Int /\ conf.limit.after \in Int
    BY <1>3, <1>7, UnitsAssumption
  <2>2. \/ Refuse
        \/ \E na \in Int : /\ na <= conf.limit.before /\ NotBefore >= conf.limit.after
                           /\ Goto(Window(StartsAt, na), "validate")
    <3>1. profileLimitDuration
      BY <1>7 DEF Modify
    <3>2. NotBefore + MyDefault \in Int
      BY <1>2, SMTT(60)
    <3>3. \/ Refuse
          \/ /\ ~ (NotBefore < conf.limit.after)
             /\ ~ (req.before # Unset /\ RelativeTime(req.before, NotBefore) > conf.limit.before)
             /\ \/ /\ req.before # Unset
                   /\ Goto(Window(StartsAt, RelativeTime(req.before, NotBefore)), "validate")
                \/ /\ NotBefore + MyDefault > conf.limit.before
                   /\ Goto(Window(StartsAt, conf.limit.before), "validate")
                \/ /\ ~ (NotBefore + MyDefault > conf.limit.before)
                   /\ Goto(Window(StartsAt, NotBefore + MyDefault), "validate")
      BY <3>1 DEF profileLimitDuration
    <3>4. \A x, y \in Int : (~ (x < y) => x >= y) /\ (~ (x > y) => x <= y) /\ x <= x
      BY SMTT(60)
    <3>. QED
      BY <1>2, <1>4, <2>1, <3>2, <3>3, <3>4
  <2>3. CASE Refuse
    BY <1>1, <2>3, KeepRefused
  <2>4. CASE \E na \in Int : /\ na <= conf.limit.before /\ NotBefore >= conf.limit.after
                             /\ Goto(Window(StartsAt, na), "validate")
    <3>1. PICK na \in Int : /\ na <= conf.limit.before /\ NotBefore >= conf.limit.after
                            /\ Goto(Window(StartsAt, na), "validate")
      BY <2>4
    <3>2. Window(StartsAt, na) \in Periods
      BY <1>2 DEF Window, Periods
    <3>3. Window(StartsAt, na).before = na /\ Window(StartsAt, na).after = StartsAt
      BY DEF Window
    <3>4. StartsAt >= conf.limit.after - Backdate
      BY <1>2, <2>1, <3>1, UnitsAssumption, SMTT(60)
    <3>5. Ready(conf.kind, conf.limit, Window(StartsAt, na))
      BY <1>5, <3>1, <3>3, <3>4 DEF Ready
    <3>. QED
      BY <1>1, <3>1, <3>2, <3>5, KeepReady
  <2>. QED
    BY <2>2, <2>3, <2>4
<1>. QED
  BY <1>6, <1>7

LEMMA KeepCreateCertificate == ASSUME Inv, CreateCertificate PROVE Inv'
<1>1. Typed /\ IsTLS /\ pc = "validate" /\ UNCHANGED << clock, conf, req >> /\ gen = 0
  BY SMTT(60) DEF CreateCertificate, Inv, Stages
<1>2. Ready(conf.kind, conf.limit, cert) /\ conf.kind = "tls"
  BY <1>1, SMTT(60) DEF Inv, Stages, IsTLS
<1>3. clock \in Int /\ cert.after \in Int /\ cert.before \in Int
  BY <1>1, UnitsAssumption, SMTT(60) DEF Typed, Periods
<1>4. CASE Refuse
  BY <1>1, <1>4, KeepRefused
<1>5. CASE validityValidator(cert) /\ Sign(Window(Truncate(cert.after), Truncate(cert.before)))
  <2>. DEFINE c == Window(Truncate(cert.after), Truncate(cert.before))
  <2>1. c.after = Truncate(cert.after) /\ c.before = Truncate(cert.before)
    BY DEF Window
  <2>2. /\ Truncate(cert.after) \in Int /\ Truncate(cert.before) \in Int
        /\ Truncate(cert.after) = Unix(cert.after) * Sec
        /\ Truncate(cert.before) = Unix(cert.before) * Sec
        /\ Truncate(cert.before) <= cert.before
        /\ cert.after < Truncate(cert.after) + Sec
        /\ Unix(cert.after) \in Int /\ Unix(cert.before) \in Int
    BY <1>3, TruncateIs, UnixIs
  <2>3. c \in Periods
    BY <2>2 DEF Window, Periods
  <2>4. Len("tls", c) = c.before - c.after
    BY <2>1, <2>2, SMTT(60) DEF Len
  <2>5. Met("tls", conf.claims, c) /\ Live("tls", c, clock)
    BY <1>5, <2>1, <2>4 DEF Met, Live, validityValidator
  <2>6. Covered("tls", conf.limit, c)
    <3>1. CASE conf.limit = None
      BY <3>1 DEF Covered
    <3>2. CASE conf.limit # None
      <4>1. conf.limit.before \in Int /\ conf.limit.after \in Int
        BY <1>1, <3>2, UnitsAssumption DEF Typed
      <4>2. cert.before <= conf.limit.before /\ cert.after >= conf.limit.after - Backdate
        BY <1>2, <3>2 DEF Ready
      <4>3. c.before <= conf.limit.before /\ c.after > conf.limit.after - Backdate - Sec
        BY <1>3, <2>1, <2>2, <4>1, <4>2, UnitsAssumption, SMTT(60)
      <4>. QED
        BY <4>3 DEF Covered
    <3>. QED
      BY <3>1, <3>2
  <2>7. Shape("tls", c)
    BY <2>1, <2>2 DEF Shape, Whole
  <2>8. cert' = c /\ pc' = "issued" /\ at' = clock /\ old' = old /\ gen' = gen
    BY <1>5 DEF Sign
  <2>. HIDE DEF c
  <2>9. Settled(conf.kind, conf.claims, conf.limit, cert, old, gen, at)'
    <3>1. Settled("tls", conf.claims, conf.limit, c, old, 0, clock)
      BY <2>5, <2>6, <2>7 DEF Settled
    <3>. QED
      BY <1>1, <1>2, <2>8, <3>1
  <2>10. Stages'
    BY <2>8, <2>9, SMTT(60) DEF Stages
  <2>11. cert' \in Periods /\ old' \in Periods /\ gen' \in Nat /\ at' \in Int
    BY <1>1, <1>3, <2>3, <2>8 DEF Typed
  <2>. QED
    BY <1>1, <2>10, <2>11, Kept DEF Inv
<1>. QED
  BY <1>4, <1>5 DEF CreateCertificate

-----------------------------------------------------------------------------
(* SSH: the request.                                                        *)

\* What a time of the token is resolved to fits as well.
LEMMA ResolveFits ==
  ASSUME Typed, ~IsTLS, InRange, NEW td \in TimeDuration, Fits(td)
  PROVE  Resolve(td) \in TimeDuration /\ Fits(Resolve(td))
<1>1. CASE td = Unset
  BY <1>1 DEF Resolve
<1>2. CASE td # Unset
  <2>1. PICK t \in Int : Resolve(td) = Time(t) /\ 0 <= t /\ t < Half
    BY <1>2, FitsIs DEF Resolve
  <2>2. Time(t) \in TimeDuration /\ Time(t).form = "time" /\ Time(t).v = t
    BY DEF Time, TimeDuration
  <2>. QED
    BY <2>1, <2>2, SMTT(60) DEF Fits
<1>. QED
  BY <1>1, <1>2

LEMMA KeepAuthorizeSSHSign == ASSUME Inv, AuthorizeSSHSign PROVE Inv'
<1>1. Typed /\ InRange /\ ~IsTLS /\ pc = "authorize" /\ UNCHANGED << clock, conf >> /\ gen = 0
  BY SMTT(60) DEF AuthorizeSSHSign, Inv, Stages
<1>2. CASE Refuse /\ UNCHANGED req
  BY <1>1, <1>2, KeepRefused
<1>3. CASE /\ req' = [req EXCEPT !.tokAfter = Resolve(@), !.tokBefore = Resolve(@)]
           /\ Goto(cert, "validity")
  <2>1. /\ req.after \in TimeDuration /\ req.before \in TimeDuration
        /\ req.tokAfter \in TimeDuration /\ req.tokBefore \in TimeDuration
    BY <1>1, SMTT(60) DEF Typed
  <2>2. Fits(req.after) /\ Fits(req.before) /\ Fits(req.tokAfter) /\ Fits(req.tokBefore)
    BY <1>1 DEF InRange
  <2>3. /\ Resolve(req.tokAfter) \in TimeDuration /\ Fits(Resolve(req.tokAfter))
        /\ Resolve(req.tokBefore) \in TimeDuration /\ Fits(Resolve(req.tokBefore))
    BY <1>1, <2>1, <2>2, ResolveFits
  <2>4. /\ req'.after = req.after /\ req'.before = req.before
        /\ req'.tokAfter = Resolve(req.tokAfter) /\ req'.tokBefore = Resolve(req.tokBefore)
        /\ req' \in [after: TimeDuration, before: TimeDuration,
                     tokAfter: TimeDuration, tokBefore: TimeDuration]
    BY <1>1, <1>3, <2>3 DEF Typed
  <2>5. cert' = cert /\ pc' = "validity" /\ old' = old /\ gen' = gen /\ at' = at
    BY <1>3 DEF Goto
  <2>6. Typed'
    BY <1>1, <2>4, <2>5 DEF Typed
  <2>7. InRange'
    BY <1>1, <2>2, <2>3, <2>4 DEF InRange, IsTLS, MyDefault, Fits
  <2>8. Stages'
    BY <1>1, <2>5, SMTT(60) DEF Stages, IsTLS
  <2>. QED
    BY <2>6, <2>7, <2>8 DEF Inv
<1>. QED
  BY <1>2, <1>3 DEF AuthorizeSSHSign

\* The seconds of a requested time, 0 for none.
LEMMA SecondsFit ==
  ASSUME Typed, ~IsTLS, InRange, NEW td \in TimeDuration, Fits(td)
  PROVE  Seconds(td) \in Nat /\ Secs(Seconds(td))
<1>1. CASE td = Unset
  <2>1. Secs(0)
    BY UnitsAssumption, SMTT(60) DEF Secs
  <2>. QED
    BY <1>1, <2>1, SMTT(60) DEF Seconds
<1>2. CASE td # Unset
  <2>1. PICK t \in Int : Seconds(td) = Uint(Unix(t)) /\ 0 <= t /\ t < Half
    BY <1>2, FitsIs DEF Seconds
  <2>. QED
    BY <2>1, SecsUnix
<1>. QED
  BY <1>1, <1>2

LEMMA KeepModifyValidity == ASSUME Inv, ModifyValidity PROVE Inv'
<1>1. Typed /\ InRange /\ ~IsTLS /\ pc = "validity" /\ UNCHANGED << clock, conf, req >> /\ gen = 0
  BY SMTT(60) DEF ModifyValidity, Inv, Stages
<1>2. CASE Refuse
  BY <1>1, <1>2, KeepRefused
<1>3. CASE \E a, b : /\ a \in Nat /\ Secs(a) /\ b \in Nat /\ Secs(b)
                     /\ Goto(Window(a, b), "duration")
  <2>1. PICK a, b : /\ a \in Nat /\ Secs(a) /\ b \in Nat /\ Secs(b)
                    /\ Goto(Window(a, b), "duration")
    BY <1>3
  <2>2. cert' = Window(a, b) /\ pc' = "duration" /\ old' = old /\ gen' = gen /\ at' = at
    BY <2>1 DEF Goto
  <2>3. Window(a, b).after = a /\ Window(a, b).before = b /\ Window(a, b) \in Periods
    BY <2>1, SMTT(60) DEF Window, Periods
  <2>4. cert' \in Periods /\ old' \in Periods /\ gen' \in Nat /\ at' \in Int
    BY <1>1, <2>2, <2>3 DEF Typed
  <2>5. Stages'
    BY <1>1, <2>1, <2>2, <2>3, SMTT(60) DEF Stages, IsTLS
  <2>. QED
    BY <1>1, <2>4, <2>5, Kept DEF Inv
<1>4. Refuse \/ \E a, b : /\ a \in Nat /\ Secs(a) /\ b \in Nat /\ Secs(b)
                          /\ Goto(Window(a, b), "duration")
  <2>1. /\ req.after \in TimeDuration /\ req.before \in TimeDuration
        /\ req.tokAfter \in TimeDuration /\ req.tokBefore \in TimeDuration
    BY <1>1, SMTT(60) DEF Typed
  <2>2. Fits(req.after) /\ Fits(req.before) /\ Fits(req.tokAfter) /\ Fits(req.tokBefore)
    BY <1>1 DEF InRange
  <2>3. /\ Seconds(req.after) \in Nat /\ Secs(Seconds(req.after))
        /\ Seconds(req.before) \in Nat /\ Secs(Seconds(req.before))
        /\ Seconds(req.tokAfter) \in Nat /\ Secs(Seconds(req.tokAfter))
        /\ Seconds(req.tokBefore) \in Nat /\ Secs(Seconds(req.tokBefore))
    BY <1>1, <2>1, <2>2, SecondsFit
  <2>. DEFINE a == IF req.tokAfter = Unset THEN Seconds(req.after) ELSE Seconds(req.tokAfter)
              b == IF req.tokBefore = Unset THEN Seconds(req.before) ELSE Seconds(req.tokBefore)
  <2>4. Refuse \/ Goto(Window(a, b), "duration")
    BY DEF ModifyValidity
  <2>5. a \in Nat /\ Secs(a) /\ b \in Nat /\ Secs(b)
    BY <2>3
  <2>. QED
    BY <2>4, <2>5
<1>. QED
  BY <1>2, <1>3, <1>4

\* Where an SSH certificate starts: at the time asked for, or now less the
\* backdate, rounded down to seconds.
LEMMA ValidAfterIs ==
  ASSUME Inv, pc = "duration"
  PROVE  /\ ValidAfter \in Nat /\ Secs(ValidAfter) /\ Signed(ValidAfter) = ValidAfter
         /\ Backdated \in Nat /\ Backdated <= ValidAfter
         /\ (ValidAfter - Backdated) * Sec <= Backdate
<1>1. Typed /\ InRange /\ ~IsTLS /\ Secs(cert.after)
  BY SMTT(60) DEF Inv, Stages
<1>2. clock \in Int /\ 0 <= clock /\ clock < Half /\ cert.after \in Int
  <2>1. MaxClock < Half
    BY <1>1 DEF InRange
  <2>. QED
    BY <1>1, <2>1, UnitsAssumption, SMTT(60) DEF Typed, Periods
<1>3. ValidAfter \in Nat /\ Secs(ValidAfter)
  <2>1. CASE cert.after = 0
    BY <1>2, <2>1, SecsUnix DEF ValidAfter
  <2>2. CASE cert.after # 0
    BY <1>1, <1>2, <2>2, SMTT(60) DEF ValidAfter, Secs
  <2>. QED
    BY <2>1, <2>2
<1>4. ValidAfter < Half
  BY <1>3, TimesNat, UnitsAssumption, SMTT(60) DEF Secs
<1>5. PICK d \in Nat : d * Sec <= Backdate
                       /\ Backdated = IF ValidAfter > d THEN ValidAfter - d ELSE ValidAfter
  <2>1. Backdate \div Sec \in Nat /\ (Backdate \div Sec) * Sec <= Backdate
    BY UnixIs, UnitsAssumption, SMTT(60) DEF Unix
  <2>2. 0 \in Nat /\ 0 * Sec <= Backdate
    BY UnitsAssumption, SMTT(60)
  <2>. QED
    BY <2>1, <2>2 DEF Backdated
<1>6. Backdated \in Nat /\ Backdated <= ValidAfter
  BY <1>3, <1>5, SMTT(60)
<1>7. (ValidAfter - Backdated) * Sec <= Backdate
  <2>1. CASE ValidAfter > d
    <3>1. ValidAfter - Backdated = d
      BY <1>3, <1>5, <2>1, SMTT(60)
    <3>. QED
      BY <1>5, <3>1, SMTT(60)
  <2>2. CASE ~ (ValidAfter > d)
    <3>1. ValidAfter - Backdated = 0
      BY <1>3, <1>5, <2>2, SMTT(60)
    <3>. QED
      BY <3>1, UnitsAssumption, SMTT(60)
  <2>. QED
    BY <2>1, <2>2
<1>. QED
  BY <1>3, <1>4, <1>6, <1>7, SignedIs

LEMMA Distribute ==
  ASSUME NEW a \in Int, NEW b \in Int
  PROVE  (a + b) * Sec = a * Sec + b * Sec /\ (a - b) * Sec = a * Sec - b * Sec
         /\ a * Sec \in Int /\ b * Sec \in Int
  BY UnitsAssumption, SMTT(60)

\* A certificate that ends at a number of seconds that fits.
LEMMA HoldsUntil ==
  ASSUME NEW a \in Nat, NEW b \in Nat, Secs(a), Secs(b)
  PROVE  Holds(Window(a, b)) /\ Window(a, b) \in Periods
<1>1. Window(a, b).after = a /\ Window(a, b).before = b /\ Window(a, b) \in Periods
  BY SMTT(60) DEF Window, Periods
<1>2. a <= a * Sec /\ a * Sec \in Nat /\ b <= b * Sec /\ b * Sec \in Nat
  BY TimesNat
<1>3. (b - a) * Sec = b * Sec - a * Sec
  BY Distribute, SMTT(60)
<1>4. a < 2 * Half /\ b < 2 * Half /\ b * Sec - a * Sec < Half
  BY <1>2, UnitsAssumption, SMTT(60) DEF Secs
<1>. QED
  BY <1>1, <1>3, <1>4, SMTT(60) DEF Holds

\* One that lasts for the default from where it starts.
LEMMA HoldsFor ==
  ASSUME NEW a \in Nat, NEW va \in Nat, a <= va, Secs(va), NEW k \in Nat, NEW d \in Nat,
         (va - a) * Sec <= Backdate, k * Sec <= d, d + Backdate < Half
  PROVE  Uint(va + k) = va + k /\ Holds(Window(a, va + k)) /\ Window(a, va + k) \in Periods
<1>1. Window(a, va + k).after = a /\ Window(a, va + k).before = va + k /\ Window(a, va + k) \in Periods
  BY SMTT(60) DEF Window, Periods
<1>2. va <= va * Sec /\ k <= k * Sec /\ va * Sec \in Nat /\ k * Sec \in Nat
  BY TimesNat
<1>3. va + k \in Nat /\ va + k < 2 * Half /\ a < 2 * Half
  BY <1>2, UnitsAssumption, SMTT(60) DEF Secs
<1>4. ((va + k) - a) * Sec = (va - a) * Sec + k * Sec /\ (va - a) * Sec \in Int
  <2>1. PICK w \in Int : w = va - a
    BY SMTT(60)
  <2>2. (va + k) - a = w + k
    BY <2>1, SMTT(60)
  <2>3. k \in Int
    BY SMTT(60)
  <2>4. (w + k) * Sec = w * Sec + k * Sec /\ w * Sec \in Int
    BY <2>3, Distribute
  <2>. QED
    BY <2>1, <2>2, <2>4
<1>5. ((va + k) - a) * Sec < Half
  BY <1>2, <1>4, UnitsAssumption, SMTT(60)
<1>. QED
  BY <1>1, <1>3, <1>5, UintIs, SMTT(60) DEF Holds

LEMMA SecsBelow ==
  ASSUME NEW a \in Nat, NEW b \in Nat, a <= b, Secs(b)
  PROVE  Secs(a)
  BY Times, UnitsAssumption, SMTT(60) DEF Secs

LEMMA KeepDuration == ASSUME Inv, Duration PROVE Inv'
<1>1. Typed /\ InRange /\ ~IsTLS /\ pc = "duration" /\ UNCHANGED << clock, conf, req >> /\ gen = 0
  BY SMTT(60) DEF Duration, Inv, Stages
<1>2. /\ ValidAfter \in Nat /\ Secs(ValidAfter) /\ Signed(ValidAfter) = ValidAfter
      /\ Backdated \in Nat /\ Backdated <= ValidAfter
      /\ (ValidAfter - Backdated) * Sec <= Backdate
  BY <1>1, ValidAfterIs
<1>3. cert.before \in Nat /\ Secs(cert.before) /\ Secs(Backdated)
  <2>1. cert.before \in Int /\ Secs(cert.before)
    BY <1>1, SMTT(60) DEF Inv, Stages, Typed, Periods
  <2>2. Secs(Backdated)
    BY <1>2, SecsBelow
  <2>. QED
    BY <2>1, <2>2, SMTT(60) DEF Secs
<1>4. MyDefault \in Nat /\ MyDefault + Backdate < Half
  BY <1>1, DefaultNat DEF InRange
<1>5. conf.kind # "tls"
  BY <1>1 DEF IsTLS
<1>6. SUFFICES \/ Refuse
               \/ \E b : /\ Goto(Window(Backdated, b), "validate")
                         /\ Holds(Window(Backdated, b)) /\ Window(Backdated, b) \in Periods
                         /\ conf.limit # None => b * Sec <= conf.limit.before
  <2>1. CASE Refuse
    BY <1>1, <2>1, KeepRefused
  <2>2. ASSUME NEW b, Goto(Window(Backdated, b), "validate"),
               Holds(Window(Backdated, b)), Window(Backdated, b) \in Periods,
               conf.limit # None => b * Sec <= conf.limit.before
        PROVE  Inv'
    <3>1. Window(Backdated, b).before = b
      BY DEF Window
    <3>2. Ready(conf.kind, conf.limit, Window(Backdated, b))
      BY <1>5, <2>2, <3>1 DEF Ready
    <3>. QED
      BY <1>1, <2>2, <3>2, KeepReady
  <2>. QED
    BY <1>6, <2>1, <2>2
<1>7. Holds(Window(Backdated, cert.before)) /\ Window(Backdated, cert.before) \in Periods
  BY <1>2, <1>3, HoldsUntil
<1>8. CASE conf.limit = None
  <2>1. sshDefaultDuration
    BY <1>8 DEF Duration
  <2>2. CASE cert.before # 0
    BY <1>7, <1>8, <2>1, <2>2 DEF sshDefaultDuration
  <2>3. CASE cert.before = 0
    <3>1. MyDefault \div Sec \in Nat /\ (MyDefault \div Sec) * Sec <= MyDefault
      BY <1>4, UnixIs, UnitsAssumption, SMTT(60) DEF Unix
    <3>2. PICK k \in Nat : k = MyDefault \div Sec /\ k * Sec <= MyDefault
      BY <3>1
    <3>3. /\ Uint(ValidAfter + k) = ValidAfter + k /\ Holds(Window(Backdated, ValidAfter + k))
          /\ Window(Backdated, ValidAfter + k) \in Periods
      BY <1>2, <1>4, <3>2, HoldsFor
    <3>4. Goto(Window(Backdated, ValidAfter + k), "validate")
      BY <2>1, <2>3, <3>2, <3>3 DEF sshDefaultDuration
    <3>. QED
      BY <1>8, <3>3, <3>4
  <2>. QED
    BY <2>2, <2>3
<1>9. CASE conf.limit # None
  <2>1. sshLimitDuration
    BY <1>9 DEF Duration
  <2>2. conf.limit.before \in Int /\ 0 <= conf.limit.before /\ conf.limit.before < Half
    BY <1>1, <1>9, UnitsAssumption DEF Typed, InRange
  <2>. DEFINE va == Signed(ValidAfter) * Sec
              cut == IF conf.limit.before < va + MyDefault THEN conf.limit.before ELSE va + MyDefault
  <2>3. \/ Refuse
        \/ cert.before # 0 /\ ~ (conf.limit.before < Signed(cert.before) * Sec)
             /\ Goto(Window(Backdated, cert.before), "validate")
        \/ cert.before = 0 /\ Goto(Window(Backdated, Uint(Unix(cut))), "validate")
    BY <2>1 DEF sshLimitDuration
  <2>4. Signed(cert.before) = cert.before /\ cert.before * Sec \in Int
    BY <1>3, TimesNat, SignedIs, UnitsAssumption, SMTT(60) DEF Secs
  <2>5. cut \in Int /\ 0 <= cut /\ cut <= conf.limit.before /\ cut < Half
    BY <1>2, <1>4, <2>2, TimesNat, UnitsAssumption, SMTT(60)
  <2>. HIDE DEF cut, va
  <2>6. Uint(Unix(cut)) = Unix(cut) /\ Secs(Unix(cut)) /\ Unix(cut) \in Nat /\ Unix(cut) * Sec <= cut
    BY <2>5, SecsUnix, UnixIs
  <2>7. Holds(Window(Backdated, Unix(cut))) /\ Window(Backdated, Unix(cut)) \in Periods
    BY <1>2, <1>3, <2>6, HoldsUntil
  <2>8. Unix(cut) * Sec <= conf.limit.before
    BY <2>2, <2>5, <2>6, UnitsAssumption, SMTT(60)
  <2>9. ~ (conf.limit.before < Signed(cert.before) * Sec) => cert.before * Sec <= conf.limit.before
    BY <2>2, <2>4, SMTT(60)
  <2>. QED
    BY <1>7, <2>3, <2>6, <2>7, <2>8, <2>9
<1>. QED
  BY <1>8, <1>9

-----------------------------------------------------------------------------
(* SSH: the signature.                                                      *)

\* The duration the code computes of a period that fits is its length.
LEMMA DurationIs ==
  ASSUME NEW c \in Periods, Holds(c), c.after <= c.before
  PROVE  SSHDuration(c.after, c.before) = (c.before - c.after) * Sec
<1>1. c.after \in Int /\ c.before \in Int
  BY DEF Periods
<1>2. PICK n \in Nat : n = c.before - c.after
  BY <1>1, SMTT(60)
<1>3. n < 2 * Half /\ n * Sec < Half /\ n * Sec \in Nat
  <2>1. n < 2 * Half
    BY <1>1, <1>2, UnitsAssumption, SMTT(60) DEF Holds
  <2>2. n * Sec < Half
    BY <1>2 DEF Holds
  <2>. QED
    BY <2>1, <2>2, TimesNat
<1>4. Uint(n) = n /\ Signed(n * Sec) = n * Sec
  BY <1>3, UintIs, SignedIs
<1>. QED
  BY <1>2, <1>4 DEF SSHDuration

LEMMA KeepSignSSH == ASSUME Inv, SignSSH PROVE Inv'
<1>1. Typed /\ InRange /\ ~IsTLS /\ pc = "validate" /\ UNCHANGED << clock, conf, req >> /\ gen = 0
  BY SMTT(60) DEF SignSSH, Inv, Stages
<1>2. Ready(conf.kind, conf.limit, cert) /\ conf.kind # "tls"
  BY <1>1, SMTT(60) DEF Inv, Stages, IsTLS
<1>3. clock \in Int /\ 0 <= clock /\ clock < Half /\ cert \in Periods
  <2>1. MaxClock < Half
    BY <1>1 DEF InRange
  <2>. QED
    BY <1>1, <2>1, UnitsAssumption, SMTT(60) DEF Typed
<1>4. CASE Refuse
  BY <1>1, <1>4, KeepRefused
<1>5. CASE sshCertValidityValidator(cert, conf.claims) /\ Sign(cert)
  <2>1. /\ cert.before >= Uint(Unix(clock)) /\ cert.before >= cert.after
        /\ SSHDuration(cert.after, cert.before) >= MinDuration(conf.kind, conf.claims)
        /\ SSHDuration(cert.after, cert.before) <= MaxDuration(conf.kind, conf.claims) + Backdate
    BY <1>5 DEF sshCertValidityValidator
  <2>2. Holds(cert) /\ (conf.limit # None => cert.before * Sec <= conf.limit.before)
    BY <1>2 DEF Ready
  <2>3. cert.after <= cert.before
    BY <1>3, <2>1, SMTT(60) DEF Periods
  <2>4. Len(conf.kind, cert) = SSHDuration(cert.after, cert.before)
    BY <1>2, <1>3, <2>2, <2>3, DurationIs DEF Len
  <2>5. Met(conf.kind, conf.claims, cert)
    BY <2>1, <2>4 DEF Met
  <2>6. Covered(conf.kind, conf.limit, cert) /\ Shape(conf.kind, cert)
    BY <1>2, <2>2, <2>3 DEF Covered, Shape
  <2>7. Live(conf.kind, cert, clock)
    BY <1>2, <1>3, <2>1, SecsUnix DEF Live
  <2>8. cert' = cert /\ pc' = "issued" /\ at' = clock /\ old' = old /\ gen' = gen
    BY <1>5 DEF Sign
  <2>9. Settled(conf.kind, conf.claims, conf.limit, cert, old, gen, at)'
    <3>1. Settled(conf.kind, conf.claims, conf.limit, cert, old, 0, clock)
      BY <2>5, <2>6, <2>7 DEF Settled
    <3>. QED
      BY <1>1, <2>8, <3>1
  <2>10. Stages'
    BY <2>8, <2>9, SMTT(60) DEF Stages
  <2>11. cert' \in Periods /\ old' \in Periods /\ gen' \in Nat /\ at' \in Int
    BY <1>1, <1>3, <2>8 DEF Typed
  <2>. QED
    BY <1>1, <2>10, <2>11, Kept DEF Inv
<1>. QED
  BY <1>4, <1>5 DEF SignSSH

-----------------------------------------------------------------------------
(* Renewals.                                                                *)

\* A renewal that is authorized, and one that is refused or fails.
LEMMA KeepAuthorizeAs ==
  ASSUME Inv, NEW label \in {"renew", "renewSSH", "rekeySSH"}, IsTLS <=> label = "renew",
         AuthorizeAs(label)
  PROVE  Inv'
<1>1. /\ pc = "issued" /\ pc' = label /\ old' = cert /\ cert' = cert /\ gen' = gen /\ at' = at
      /\ UNCHANGED << clock, conf, req >>
  BY DEF AuthorizeAs
<1>2. Typed /\ Settled(conf.kind, conf.claims, conf.limit, cert, old, gen, at)
  BY <1>1, SMTT(60) DEF Inv, Stages
<1>3. cert' \in Periods /\ old' \in Periods /\ gen' \in Nat /\ at' \in Int
  BY <1>1, <1>2 DEF Typed
<1>4. Settled(conf.kind, conf.claims, conf.limit, cert, cert, gen, at)
  BY <1>2 DEF Settled
<1>5. Settled(conf.kind, conf.claims, conf.limit, cert, old, gen, at)'
  BY <1>1, <1>4
<1>6. IsTLS' <=> IsTLS
  BY <1>1 DEF IsTLS
<1>7. Stages'
  BY <1>1, <1>5, <1>6, SMTT(60) DEF Stages
<1>. QED
  BY <1>1, <1>3, <1>7, Kept DEF Inv

LEMMA KeepNotRenewed ==
  ASSUME Inv, pc \in {"renew", "renewSSH", "rekeySSH"}, UNCHANGED << clock, conf, req >>, NotRenewed
  PROVE  Inv'
<1>1. pc' = "issued" /\ old' = old /\ cert' = cert /\ gen' = gen /\ at' = at
  BY DEF NotRenewed
<1>2. Typed /\ Settled(conf.kind, conf.claims, conf.limit, cert, old, gen, at)
  BY SMTT(60) DEF Inv, Stages
<1>3. cert' \in Periods /\ old' \in Periods /\ gen' \in Nat /\ at' \in Int
  BY <1>1, <1>2 DEF Typed
<1>4. Settled(conf.kind, conf.claims, conf.limit, cert, old, gen, at)'
  BY <1>1, <1>2
<1>5. Stages'
  BY <1>1, <1>4, SMTT(60) DEF Stages
<1>. QED
  BY <1>3, <1>5, Kept DEF Inv

\* A renewal that signs a certificate of the same length.
LEMMA KeepRenewed ==
  ASSUME Inv, pc \in {"renew", "renewSSH", "rekeySSH"}, UNCHANGED << clock, conf, req >>,
         NEW c \in Periods, Renewed(c), Shape(conf.kind, c),
         Len(conf.kind, old) = Len(conf.kind, c),
         Len(conf.kind, c) >= Backdate => Live(conf.kind, c, clock)
  PROVE  Inv'
<1>1. pc' = "issued" /\ old' = old /\ cert' = c /\ gen' = gen + 1 /\ at' = clock
  BY DEF Renewed
<1>2. Typed
  BY DEF Inv
<1>3. gen + 1 \in Nat /\ gen + 1 # 0 /\ clock \in Int
  BY <1>2, UnitsAssumption, SMTT(60) DEF Typed
<1>4. cert' \in Periods /\ old' \in Periods /\ gen' \in Nat /\ at' \in Int
  BY <1>1, <1>2, <1>3 DEF Typed
<1>5. Settled(conf.kind, conf.claims, conf.limit, c, old, gen + 1, clock)
  BY <1>3 DEF Settled
<1>6. Settled(conf.kind, conf.claims, conf.limit, cert, old, gen, at)'
  BY <1>1, <1>5
<1>7. Stages'
  BY <1>1, <1>6, SMTT(60) DEF Stages
<1>. QED
  BY <1>4, <1>7, Kept DEF Inv

\* The period of a renewed X.509 certificate: the lifetime is added to a
\* clock that was not rounded, and the lengths still agree.
LEMMA RekeyPeriod ==
  ASSUME Inv, pc = "renew",
         NEW lifetime, lifetime = old.before - old.after - Backdate,
         NEW c, c = Window(Truncate(clock - Backdate), Truncate(clock + lifetime))
  PROVE  /\ c \in Periods /\ Shape("tls", c) /\ Len("tls", old) = Len("tls", c)
         /\ Len("tls", c) >= Backdate => Live("tls", c, clock)
<1>1. Typed /\ IsTLS /\ old = cert /\ Settled(conf.kind, conf.claims, conf.limit, cert, old, gen, at)
  BY SMTT(60) DEF Inv, Stages
<1>2. Whole(old)
  BY <1>1 DEF Settled, Shape, IsTLS
<1>3. PICK a, b \in Int : old.after = a * Sec /\ old.before = b * Sec
  BY <1>2 DEF Whole
<1>4. clock \in Int /\ Backdate \in Int /\ Sec \in Int
  BY <1>1, UnitsAssumption, SMTT(60) DEF Typed
<1>5. PICK k \in Int : k = b - a
  BY SMTT(60)
<1>6. k * Sec \in Int /\ old.before - old.after = k * Sec
  <2>1. (b - a) * Sec = b * Sec - a * Sec
    BY Distribute
  <2>2. k * Sec \in Int
    BY Distribute
  <2>. QED
    BY <1>3, <1>5, <2>1, <2>2
<1>7. PICK u \in Int : u = clock - Backdate
  BY <1>4, SMTT(60)
<1>8. clock + lifetime = u + k * Sec
  BY <1>4, <1>6, <1>7, SMTT(60)
<1>9. Unix(u + k * Sec) = Unix(u) + k /\ Unix(u) \in Int /\ Unix(u) + k \in Int
  <2>1. Unix(u + k * Sec) = Unix(u) + k /\ Unix(u) \in Int
    BY UnixShift, UnixIs
  <2>. QED
    BY <2>1, SMTT(60)
<1>10. u + k * Sec \in Int
  BY <1>6, SMTT(60)
<1>11. Truncate(clock - Backdate) = Unix(u) * Sec /\ Truncate(clock + lifetime) = (Unix(u) + k) * Sec
  BY <1>7, <1>8, <1>9, <1>10, TruncateIs
<1>12. c.after = Unix(u) * Sec /\ c.before = (Unix(u) + k) * Sec
  BY <1>11 DEF Window
<1>13. Unix(u) * Sec \in Int /\ (Unix(u) + k) * Sec = Unix(u) * Sec + k * Sec
  BY <1>9, Distribute
<1>14. c \in Periods
  BY <1>6, <1>11, <1>13, SMTT(60) DEF Window, Periods
<1>15. Shape("tls", c)
  BY <1>9, <1>12 DEF Shape, Whole
<1>16. Len("tls", old) = k * Sec /\ Len("tls", c) = k * Sec
  BY <1>6, <1>12, <1>13, SMTT(60) DEF Len
<1>17. ASSUME k * Sec >= Backdate PROVE Live("tls", c, clock)
  <2>1. clock <= u + k * Sec
    BY <1>4, <1>6, <1>7, <1>17, SMTT(60)
  <2>2. Unix(clock) <= Unix(u) + k /\ Unix(clock) \in Int
    BY <1>4, <1>9, <1>10, <2>1, UnixMonotone, UnixIs
  <2>3. Unix(clock) * Sec \in Int /\ Unix(clock) * Sec <= (Unix(u) + k) * Sec
    BY <1>9, <2>2, Times
  <2>4. c.before >= Truncate(clock)
    BY <1>4, <1>6, <1>12, <1>13, <2>3, TruncateIs, SMTT(60)
  <2>. QED
    BY <2>4 DEF Live
<1>. QED
  BY <1>14, <1>15, <1>16, <1>17

LEMMA KeepRekey == ASSUME Inv, Rekey PROVE Inv'
<1>1. pc = "renew" /\ IsTLS /\ UNCHANGED << clock, conf, req >> /\ conf.kind = "tls"
  BY SMTT(60) DEF Rekey, Inv, Stages, IsTLS
<1>. DEFINE lifetime == old.before - old.after - Backdate
            c == Window(Truncate(clock - Backdate), Truncate(clock + lifetime))
<1>2. NotRenewed \/ Renewed(c)
  BY DEF Rekey
<1>3. pc \in {"renew", "renewSSH", "rekeySSH"}
  BY <1>1
<1>4. CASE NotRenewed
  BY <1>1, <1>3, <1>4, KeepNotRenewed
<1>5. CASE Renewed(c)
  <2>1. /\ c \in Periods /\ Shape("tls", c) /\ Len("tls", old) = Len("tls", c)
        /\ Len("tls", c) >= Backdate => Live("tls", c, clock)
    BY <1>1, RekeyPeriod
  <2>. HIDE DEF c
  <2>. QED
    BY <1>1, <1>3, <1>5, <2>1, KeepRenewed
<1>. QED
  BY <1>2, <1>4, <1>5

\* The period of a renewed SSH certificate: no number wraps.
LEMMA NewPeriodIs ==
  ASSUME Inv, pc \in {"renewSSH", "rekeySSH"}
  PROVE  /\ NewPeriod \in Periods /\ Shape(conf.kind, NewPeriod)
         /\ Len(conf.kind, old) = Len(conf.kind, NewPeriod)
         /\ Len(conf.kind, NewPeriod) >= Backdate => Live(conf.kind, NewPeriod, clock)
<1>1. /\ Typed /\ InRange /\ ~IsTLS /\ old = cert
      /\ Settled(conf.kind, conf.claims, conf.limit, cert, old, gen, at)
  BY SMTT(60) DEF Inv, Stages
<1>2. conf.kind # "tls" /\ Holds(old) /\ old.after <= old.before /\ old \in Periods
  BY <1>1 DEF Settled, Shape, IsTLS, Typed
<1>3. /\ clock \in Int /\ Backdate \in Nat /\ Sec \in Int /\ Half \in Nat
      /\ Backdate <= clock /\ clock < Half
  <2>1. Backdate <= Start /\ MaxClock < Half
    BY <1>1 DEF InRange
  <2>. QED
    BY <1>1, <2>1, UnitsAssumption, SMTT(60) DEF Typed
<1>4. PICK n \in Nat : n = old.before - old.after
  BY <1>2, SMTT(60) DEF Periods
<1>5. n * Sec \in Nat /\ n <= n * Sec /\ n * Sec < Half
  <2>1. n * Sec < Half
    BY <1>2, <1>4 DEF Holds
  <2>. QED
    BY <2>1, TimesNat
<1>6. SSHDuration(old.after, old.before) = n * Sec
  BY <1>2, <1>4, DurationIs
<1>7. PICK u \in Int : u = clock - Backdate /\ 0 <= u /\ u < Half
  BY <1>3, SMTT(60)
<1>8. clock + n * Sec - Backdate = u + n * Sec /\ u + n * Sec \in Int /\ n \in Int
  BY <1>3, <1>5, <1>7, SMTT(60)
<1>9. Uint(Unix(u)) = Unix(u) /\ Unix(u) \in Nat /\ Unix(u) <= u
  BY <1>7, SecsUnix, UnixIs
<1>10. Unix(u + n * Sec) = Unix(u) + n
  BY <1>8, UnixShift
<1>11. Unix(u) + n \in Nat /\ Unix(u) + n < 2 * Half /\ Unix(u) < 2 * Half
  BY <1>3, <1>5, <1>7, <1>9, SMTT(60)
<1>12. NewPeriod = Window(Unix(u), Unix(u) + n)
  BY <1>6, <1>7, <1>8, <1>9, <1>10, <1>11, UintIs DEF NewPeriod
<1>. DEFINE c == Window(Unix(u), Unix(u) + n)
<1>13. c.after = Unix(u) /\ c.before = Unix(u) + n /\ c \in Periods
  BY <1>9, <1>11, SMTT(60) DEF Window, Periods
<1>. HIDE DEF c
<1>14. c.before - c.after = n /\ c.after <= c.before
  BY <1>9, <1>13, SMTT(60)
<1>15. Shape(conf.kind, c)
  <2>1. 0 <= c.after /\ c.after < 2 * Half /\ 0 <= c.before /\ c.before < 2 * Half
    BY <1>9, <1>11, <1>13, SMTT(60)
  <2>2. (c.before - c.after) * Sec < Half
    BY <1>5, <1>14
  <2>. QED
    BY <1>2, <1>14, <2>1, <2>2 DEF Shape, Holds
<1>16. Len(conf.kind, old) = n * Sec /\ Len(conf.kind, c) = n * Sec
  BY <1>2, <1>4, <1>14 DEF Len
<1>17. ASSUME n * Sec >= Backdate PROVE Live(conf.kind, c, clock)
  <2>1. clock <= u + n * Sec
    BY <1>3, <1>5, <1>7, <1>17, SMTT(60)
  <2>2. Unix(clock) <= Unix(u + n * Sec) /\ Unix(clock) \in Int
    BY <1>3, <1>8, <2>1, UnixMonotone, UnixIs
  <2>3. c.before >= Unix(clock)
    BY <1>9, <1>10, <1>13, <2>2, SMTT(60)
  <2>. QED
    BY <1>2, <2>3 DEF Live
<1>. QED
  BY <1>12, <1>13, <1>15, <1>16, <1>17 DEF c

LEMMA KeepRenewSSH == ASSUME Inv, RenewSSH \/ RekeySSH PROVE Inv'
<1>1. pc \in {"renewSSH", "rekeySSH"} /\ UNCHANGED << clock, conf, req >>
  BY DEF RenewSSH, RekeySSH
<1>2. NotRenewed \/ Renewed(NewPeriod)
  BY DEF RenewSSH, RekeySSH
<1>3. pc \in {"renew", "renewSSH", "rekeySSH"}
  BY <1>1
<1>4. CASE NotRenewed
  BY <1>1, <1>3, <1>4, KeepNotRenewed
<1>5. CASE Renewed(NewPeriod)
  BY <1>1, <1>3, <1>5, NewPeriodIs, KeepRenewed
<1>. QED
  BY <1>2, <1>4, <1>5

\* The clock moves between any two steps.
LEMMA KeepTick == ASSUME Inv, Tick PROVE Inv'
<1>1. UNCHANGED << conf, req, cert, pc, old, gen, at >> /\ clock < MaxClock /\ clock' = clock + 1
  BY DEF Tick
<1>2. Typed /\ InRange /\ Stages
  BY DEF Inv
<1>3. clock' \in Start .. MaxClock
  BY <1>1, <1>2, UnitsAssumption, SMTT(60) DEF Typed
<1>4. Typed'
  BY <1>1, <1>2, <1>3 DEF Typed
<1>5. InRange'
  BY <1>1, <1>2 DEF InRange, IsTLS, MyDefault
<1>6. Stages'
  BY <1>1, <1>2, SMTT(60) DEF Stages, IsTLS
<1>. QED
  BY <1>4, <1>5, <1>6 DEF Inv

LEMMA KeepAuthorizeRenew ==
  ASSUME Inv, AuthorizeRenew \/ AuthorizeSSHRenew \/ AuthorizeSSHRekey
  PROVE  Inv'
<1>1. CASE AuthorizeRenew
  BY <1>1, KeepAuthorizeAs DEF AuthorizeRenew
<1>2. CASE AuthorizeSSHRenew \/ AuthorizeSSHRekey
  <2>1. ~IsTLS
    BY <1>2, SMTT(60) DEF AuthorizeSSHRenew, AuthorizeSSHRekey, IsTLS
  <2>2. AuthorizeAs("renewSSH") \/ AuthorizeAs("rekeySSH")
    BY <1>2 DEF AuthorizeSSHRenew, AuthorizeSSHRekey
  <2>. QED
    BY <2>1, <2>2, KeepAuthorizeAs, SMTT(60)
<1>. QED
  BY <1>1, <1>2

LEMMA InvNext == Inv /\ [Next]_vars => Inv'
<1>. SUFFICES ASSUME Inv, [Next]_vars PROVE Inv'
  OBVIOUS
<1>1. CASE UNCHANGED vars
  <2>1. UNCHANGED << clock, conf, req, cert, pc, old, gen, at >>
    BY <1>1 DEF vars
  <2>2. Typed' /\ InRange'
    BY <2>1, Kept DEF Inv, Typed
  <2>3. Stages'
    BY <2>1, SMTT(60) DEF Inv, Stages, IsTLS
  <2>. QED
    BY <2>2, <2>3 DEF Inv
<1>2. CASE Next
  BY <1>2, KeepTick, KeepModify, KeepCreateCertificate, KeepAuthorizeSSHSign, KeepModifyValidity,
     KeepDuration, KeepSignSSH, KeepAuthorizeRenew, KeepRekey, KeepRenewSSH DEF Next
<1>. QED
  BY <1>1, <1>2

LEMMA LenIs == \A c : Len(conf.kind, c) = Length(c)
  BY DEF Len, Length, IsTLS

\* What the invariant says of the time of a signed certificate.
LEMMA InvBounded == Inv => PeriodBounded
<1>. SUFFICES ASSUME Inv PROVE PeriodBounded
  OBVIOUS
<1>1. Typed /\ (Issued => Settled(conf.kind, conf.claims, conf.limit, cert, old, gen, at))
  BY SMTT(60) DEF Inv, Stages, Issued
<1>2. WithinClaims
  BY <1>1, LenIs DEF WithinClaims, First, Settled, Met
<1>3. CredentialBound
  <2>. SUFFICES ASSUME First, conf.limit # None, NEW t \in 0 .. 2 * MaxClock, ValidAt(t)
                PROVE  /\ t <= conf.limit.before
                       /\ IsTLS => t > conf.limit.after - Backdate - Sec
    BY DEF CredentialBound
  <2>1. conf.limit.before \in Int /\ conf.limit.after \in Int
    BY <1>1, UnitsAssumption DEF Typed
  <2>2. cert.after \in Int /\ cert.before \in Int /\ t \in Int
    BY <1>1, UnitsAssumption, SMTT(60) DEF Typed, Periods
  <2>3. Covered(conf.kind, conf.limit, cert)
    BY <1>1 DEF First, Settled
  <2>4. CASE IsTLS
    <3>1. cert.before <= conf.limit.before /\ cert.after > conf.limit.after - Backdate - Sec
      BY <2>3, <2>4 DEF Covered, IsTLS
    <3>2. cert.after <= t /\ t <= cert.before
      BY <2>4 DEF ValidAt
    <3>. QED
      BY <2>1, <2>2, <3>1, <3>2, UnitsAssumption, SMTT(60)
  <2>5. CASE ~IsTLS
    <3>1. cert.before * Sec <= conf.limit.before
      BY <2>3, <2>5 DEF Covered, IsTLS
    <3>2. Unix(t) < cert.before
      BY <2>5 DEF ValidAt
    <3>3. Unix(t) \in Int /\ t < Unix(t) * Sec + Sec /\ Unix(t) + 1 \in Int /\ Unix(t) + 1 <= cert.before
      BY <2>2, <3>2, UnixIs, SMTT(60)
    <3>4. (Unix(t) + 1) * Sec = Unix(t) * Sec + Sec /\ Unix(t) * Sec \in Int
      BY <2>2, <3>3, Distribute, UnitsAssumption, SMTT(60)
    <3>5. (Unix(t) + 1) * Sec <= cert.before * Sec /\ cert.before * Sec \in Int
      BY <2>2, <3>3, Times, Distribute
    <3>. QED
      BY <2>1, <2>2, <2>5, <3>1, <3>3, <3>4, <3>5, UnitsAssumption, SMTT(60)
  <2>. QED
    BY <2>4, <2>5
<1>4. LiveUnlessShort
  <2>. SUFFICES ASSUME gen = 0 \/ Length(old) >= Backdate, Issued
                PROVE  Live(conf.kind, cert, at)
    BY DEF LiveUnlessShort, IssuedLive, Live, IsTLS
  <2>. QED
    BY <1>1, LenIs DEF Settled
<1>. QED
  BY <1>2, <1>3, <1>4 DEF PeriodBounded

(* For any claims, credential, request, backdate, units and number of       *)
(* renewals, the period of a signed certificate is within the minimum and   *)
(* the maximum of its provisioner and within the period of the credential   *)
(* it was requested with, and it has not ended at the signature unless it   *)
(* renews one shorter than the backdate (validityValidator,                 *)
(* sshCertValidityValidator, profileLimitDuration, sshLimitDuration, Rekey, *)
(* RenewSSH, RekeySSH).  Of X.509 this holds without a condition, of SSH    *)
(* while the times are InRange: beyond, seconds turned into nanoseconds     *)
(* wrap, and the check of the maximum with them.                            *)
THEOREM PeriodAlwaysBounded == Spec /\ InRange => []PeriodBounded
<1>1. Spec /\ InRange => []Inv
  BY InvInit, InvNext, PTL DEF Spec
<1>. QED
  BY <1>1, InvBounded, PTL

\* A step that renews signs a period of the same length.
LEMMA StepKeepsLength == Inv /\ [Next]_vars => (gen' = gen + 1 => Length(cert') = Length(old))
<1>. SUFFICES ASSUME Inv, [Next]_vars, gen' = gen + 1 PROVE Length(cert') = Length(old)
  OBVIOUS
<1>1. gen' # gen
  BY SMTT(60) DEF Inv, Typed
<1>2. Rekey \/ RenewSSH \/ RekeySSH
  BY <1>1 DEF Next, vars, Tick, Modify, profileDefaultDuration, profileLimitDuration,
     CreateCertificate, AuthorizeSSHSign, ModifyValidity, Duration, sshDefaultDuration,
     sshLimitDuration, SignSSH, AuthorizeRenew, AuthorizeSSHRenew, AuthorizeSSHRekey, AuthorizeAs,
     Goto, Refuse, Sign
<1>3. CASE Rekey
  <2>. DEFINE lifetime == old.before - old.after - Backdate
              c == Window(Truncate(clock - Backdate), Truncate(clock + lifetime))
  <2>1. cert' = c /\ pc = "renew"
    BY <1>1, <1>3 DEF Rekey, NotRenewed, Renewed
  <2>2. Len("tls", old) = Len("tls", c)
    BY <2>1, RekeyPeriod
  <2>3. conf.kind = "tls"
    BY <2>1, SMTT(60) DEF Inv, Stages, IsTLS
  <2>. QED
    BY <2>1, <2>2, <2>3, LenIs
<1>4. CASE RenewSSH \/ RekeySSH
  <2>1. cert' = NewPeriod /\ pc \in {"renewSSH", "rekeySSH"}
    BY <1>1, <1>4 DEF RenewSSH, RekeySSH, NotRenewed, Renewed
  <2>2. Len(conf.kind, old) = Len(conf.kind, NewPeriod)
    BY <2>1, NewPeriodIs
  <2>. QED
    BY <2>1, <2>2, LenIs
<1>. QED
  BY <1>2, <1>3, <1>4

(* However long the chain of renewals, each has the length of the           *)
(* certificate it renews, although the clock is read again and rounded      *)
(* (Rekey, RenewSSH, RekeySSH).                                             *)
THEOREM RenewalAlwaysKeepsLength == Spec /\ InRange => RenewalKeepsLength
<1>1. Inv /\ [Next]_vars => [gen' = gen + 1 => Length(cert') = Length(old)]_vars
  BY StepKeepsLength
<1>. QED
  BY <1>1, InvInit, InvNext, PTL DEF Spec, RenewalKeepsLength

-----------------------------------------------------------------------------
(* The authority policy.                                                    *)

(* What a request has decided: an operation that writes carries a policy   *)
(* unless it deletes.                                                      *)
Decided ==
    \A r \in Requests : request[r].pc \in {"lock", "store", "reload"} =>
        /\ request[r].op \in {"create", "update", "delete"}
        /\ request[r].op # "delete" => request[r].policy \in Policies
        /\ request[r].admin \in AdminSubjects

(* The holder of the mutex is the request in its critical section.         *)
Holder ==
    \A r \in Requests : request[r].pc \in {"store", "reload"} <=> mutex = r

(* The policy to be stored still allows the admins there are.              *)
Checked ==
    \A r \in Requests : request[r].pc = "store" /\ request[r].op # "delete" =>
        checkPolicy(request[r].admin, adminSubjects, request[r].policy)

(* The engine is that of the row until a request has written the row.      *)
EngineOfRow ==
    \/ \E r \in Requests : mutex = r /\ request[r].pc = "reload"
    \/ staleEngine
    \/ engine = EngineOf(GetAuthorityPolicy(row))

IInv == PolicyTypeOK /\ Decided /\ Holder /\ Checked /\ EngineOfRow

(* A policy is stored as itself, or as no policy when it has no part.      *)
LEMMA PolicyKept ==
    ASSUME NEW p \in Policies
    PROVE  /\ linkedToDB(p) \in {p, Nil} /\ EngineOf(p) \in {p, Nil}
           /\ EngineOf(linkedToDB(p)) = EngineOf(p)
<1>1. p \in PolicySet /\ p # Nil
  BY PolicyAssumption
<1>2. p = [x509 |-> p.x509, ssh |-> p.ssh, parses |-> p.parses]
  BY <1>1 DEF PolicySet
<1>3. linkedToDB(p) = IF p.x509 = Nil /\ ~p.ssh THEN Nil ELSE p
  BY <1>2 DEF linkedToDB
<1>4. EngineOf(p) = IF p.x509 = Nil /\ ~p.ssh THEN Nil ELSE p
  BY <1>1, <1>2 DEF EngineOf, LinkedToCertificates
<1>5. EngineOf(Nil) = Nil
  BY DEF EngineOf, LinkedToCertificates
<1> QED
  BY <1>3, <1>4, <1>5

(* The row holds no value, or a policy or none.                            *)
LEMMA RowCases ==
    ASSUME NEW d \in Rows
    PROVE  /\ HasValue(d) => d.policy \in Policies \cup {Nil}
           /\ GetAuthorityPolicy(d) \in Policies \cup {Nil}
           /\ EngineOf(GetAuthorityPolicy(d)) \in Policies \cup {Nil}
<1>1. HasValue(d) => d.policy \in Policies \cup {Nil}
  BY SMTT(60) DEF Rows, HasValue
<1>2. ASSUME NEW p \in Policies
      PROVE  dbToLinked(p) = p
  <2>1. p \in PolicySet /\ p # Nil
    BY PolicyAssumption
  <2>2. p = [x509 |-> p.x509, ssh |-> p.ssh, parses |-> p.parses]
    BY <2>1 DEF PolicySet
  <2> QED
    BY <2>1, <2>2 DEF dbToLinked
<1>3. dbToLinked(Nil) = Nil
  BY DEF dbToLinked
<1>4. GetAuthorityPolicy(d) \in Policies \cup {Nil}
  BY <1>1, <1>2, <1>3 DEF GetAuthorityPolicy
<1>5. EngineOf(Nil) = Nil
  BY DEF EngineOf, LinkedToCertificates
<1> QED
  BY <1>1, <1>4, <1>5, PolicyKept

(* Storing a policy leaves a row with its value.                           *)
LEMMA StoredRow ==
    ASSUME NEW p \in Policies
    PROVE  Stored(p) \in Rows /\ HasValue(Stored(p)) /\ Stored(p).policy = linkedToDB(p)
BY PolicyKept DEF Stored, Rows, HasValue

(* Neither an absent row nor an empty one holds a policy.                   *)
LEMMA NoValueRows ==
    Absent \in Rows /\ ~HasValue(Absent) /\ Empty \in Rows /\ ~HasValue(Empty)
BY DEF Absent, Empty, Rows, HasValue

(* What Decide lets pass is an operation that writes, with its policy.     *)
LEMMA DecideContinues ==
    ASSUME NEW op \in Ops, NEW q, NEW p \in Carries(op)
    PROVE  /\ p \in Policies \cup {Nil}
           /\ Decide(op, q, p) = "continue" =>
                op \in {"create", "update", "delete"} /\ (op # "delete" => p \in Policies)
           /\ Decide(op, q, p) # "continue" => Decide(op, q, p) \in Replies
<1>1. CASE op \in {"create", "update"}
  <2>1. p \in Policies
    BY <1>1 DEF Carries
  <2>2. op # "get" /\ op # "delete"
    BY <1>1
  <2> QED
    BY <1>1, <2>1, <2>2 DEF Decide, CreateHandler, UpdateHandler, Replies
<1>2. CASE op \in {"get", "delete"}
  <2>1. p = Nil
    BY <1>2 DEF Carries
  <2> QED
    BY <1>2, <2>1 DEF Decide, GetHandler, DeleteHandler, Replies
<1> QED
  BY <1>1, <1>2 DEF Ops

(* The progress of a request, and that of the others.                      *)
LEMMA Answered ==
    ASSUME PolicyTypeOK, NEW r \in Requests, NEW op \in Ops, NEW reply \in Replies,
           NEW misread \in BOOLEAN,
           request' = [request EXCEPT ![r] = [pc |-> "done", op |-> op, reply |-> reply,
                                      misread |-> misread]]
    PROVE  /\ request' \in [Requests -> ReqStates] /\ request'[r].pc = "done"
           /\ \A s \in Requests \ {r} : request'[s] = request[s]
<1>1. [pc |-> "done", op |-> op, reply |-> reply, misread |-> misread] \in ReqStates
  BY DEF ReqStates
<1> QED
  BY <1>1 DEF PolicyTypeOK

(* A request that moves on to another step keeps what it was asked.         *)
LEMMA Advanced ==
    ASSUME PolicyTypeOK, NEW r \in Requests, NEW stage \in {"store", "reload"},
           request[r].pc \in {"lock", "store"}, request' = [request EXCEPT ![r].pc = stage]
    PROVE  /\ request' \in [Requests -> ReqStates]
           /\ request'[r].pc = stage /\ request'[r].op = request[r].op
           /\ request'[r].policy = request[r].policy /\ request'[r].admin = request[r].admin
           /\ \A s \in Requests \ {r} : request'[s] = request[s]
<1> DEFINE was == request[r]
           new == [was EXCEPT !.pc = stage]
<1>1. was \in [pc : {"lock", "store", "reload"}, op : Ops, policy : Policies \cup {Nil},
               admin : AdminSubjects]
  <2>1. was \in ReqStates
    BY DEF PolicyTypeOK
  <2>2. was # NoRequest /\ was \notin [pc : {"done"}, op : Ops, reply : Replies, misread : BOOLEAN]
    BY SMTT(60) DEF NoRequest
  <2> QED
    BY <2>1, <2>2 DEF ReqStates
<1>2. /\ new \in [pc : {"lock", "store", "reload"}, op : Ops, policy : Policies \cup {Nil},
                  admin : AdminSubjects]
      /\ new.pc = stage /\ new.op = was.op /\ new.policy = was.policy /\ new.admin = was.admin
  BY <1>1
<1>3. new \in ReqStates
  BY <1>2 DEF ReqStates
<1>4. request' = [request EXCEPT ![r] = new]
  OBVIOUS
<1> HIDE DEF new
<1> QED
  BY <1>2, <1>3, <1>4 DEF PolicyTypeOK

(* At the start no policy is stored and none is loaded.                     *)
LEMMA InitIInv ==
    ASSUME PolicyInit
    PROVE  IInv
<1>1. PolicyTypeOK
  BY NoValueRows DEF PolicyInit, PolicyTypeOK, ReqStates
<1>2. \A r \in Requests : request[r].pc = "idle"
  BY DEF PolicyInit, NoRequest
<1>3. Decided /\ Checked
  BY <1>2 DEF Decided, Checked
<1>4. Holder
  BY <1>2, PolicyAssumption DEF Holder, PolicyInit
<1>5. EngineOfRow
  BY NoValueRows DEF EngineOfRow, PolicyInit, GetAuthorityPolicy, EngineOf, LinkedToCertificates
<1> QED
  BY <1>1, <1>3, <1>4, <1>5 DEF IInv

(* A handler reads the policy while nobody is in the critical section.     *)
LEMMA ReadKeeps ==
    ASSUME IInv, NEW r \in Requests, NEW op \in Ops, NEW adm \in AdminSubjects,
           NEW failed \in BOOLEAN, NEW p \in Carries(op), Read(r, op, p, adm, failed)
    PROVE  IInv'
<1> DEFINE q == IF failed THEN Nil ELSE GetAuthorityPolicy(row)
           d == Decide(op, q, p)
           new == IF d = "continue"
                  THEN [pc |-> "lock", op |-> op, policy |-> p, admin |-> adm]
                  ELSE [pc |-> "done", op |-> op, reply |-> d, misread |-> failed]
<1>1. /\ request' = [request EXCEPT ![r] = new] /\ request[r].pc = "idle" /\ mutex = Nil
      /\ UNCHANGED <<row, engine, adminSubjects, mutex, staleEngine>>
  BY DEF Read
<1>2. /\ p \in Policies \cup {Nil}
      /\ d = "continue" =>
           op \in {"create", "update", "delete"} /\ (op # "delete" => p \in Policies)
      /\ d # "continue" => d \in Replies
  BY DecideContinues
<1> HIDE DEF d
<1>3. /\ new \in ReqStates /\ new.pc \notin {"store", "reload"}
      /\ new.pc = "lock" =>
           /\ new.op \in {"create", "update", "delete"}
           /\ new.op # "delete" => new.policy \in Policies
           /\ new.admin \in AdminSubjects
  <2>1. CASE d = "continue"
    <3>1. new = [pc |-> "lock", op |-> op, policy |-> p, admin |-> adm]
      BY <2>1
    <3> HIDE DEF new
    <3> QED
      BY <1>2, <2>1, <3>1 DEF ReqStates
  <2>2. CASE d # "continue"
    <3>1. new = [pc |-> "done", op |-> op, reply |-> d, misread |-> failed]
      BY <2>2
    <3> HIDE DEF new
    <3> QED
      BY <1>2, <2>2, <3>1 DEF ReqStates
  <2> QED
    BY <2>1, <2>2
<1> HIDE DEF new
<1>4. /\ request' \in [Requests -> ReqStates] /\ request'[r] = new
      /\ \A s \in Requests \ {r} : request'[s] = request[s]
  BY <1>1, <1>3 DEF IInv, PolicyTypeOK
<1>5. PolicyTypeOK'
  BY <1>1, <1>4 DEF IInv, PolicyTypeOK
<1>6. Decided' /\ Holder' /\ Checked'
  BY <1>1, <1>3, <1>4, PolicyAssumption DEF IInv, Decided, Holder, Checked
<1>7. EngineOfRow'
  BY <1>1, PolicyAssumption DEF IInv, EngineOfRow
<1> QED
  BY <1>5, <1>6, <1>7 DEF IInv

(* The check is made with the mutex, under which the admins stay.          *)
LEMMA CheckKeeps ==
    ASSUME IInv, NEW r \in Requests, NEW f \in BOOLEAN, Check(r, f)
    PROVE  IInv'
<1>1. /\ request[r].pc = "lock" /\ mutex = Nil /\ UNCHANGED <<row, engine, adminSubjects, staleEngine>>
      /\ request[r].op \in {"create", "update", "delete"} /\ request[r].op \in Ops
  BY DEF Check, IInv, Decided, Ops
<1>2. EngineOfRow' \/ ~(staleEngine \/ engine = EngineOf(GetAuthorityPolicy(row)))
  BY <1>1 DEF EngineOfRow
<1>3. EngineOfRow'
  BY <1>1, <1>2, PolicyAssumption DEF IInv, EngineOfRow
<1>4. CASE /\ request[r].op = "delete" \/ checkPolicy(request[r].admin, adminSubjects, request[r].policy)
           /\ mutex' = r /\ request' = [request EXCEPT ![r].pc = "store"]
  <2>1. /\ request' \in [Requests -> ReqStates]
        /\ request'[r].pc = "store" /\ request'[r].op = request[r].op
        /\ request'[r].policy = request[r].policy /\ request'[r].admin = request[r].admin
        /\ \A s \in Requests \ {r} : request'[s] = request[s]
    BY <1>1, <1>4, Advanced DEF IInv
  <2>2. PolicyTypeOK'
    BY <1>1, <1>4, <2>1 DEF IInv, PolicyTypeOK
  <2>3. Decided' /\ Holder'
    BY <1>1, <1>4, <2>1, PolicyAssumption DEF IInv, Decided, Holder
  <2>4. Checked'
    <3> SUFFICES ASSUME NEW s \in Requests, request'[s].pc = "store", request'[s].op # "delete"
                 PROVE  checkPolicy(request'[s].admin, adminSubjects, request'[s].policy)
      BY <1>1 DEF Checked, checkPolicy
    <3>1. s = r
      BY <1>1, <2>1, PolicyAssumption DEF IInv, Holder
    <3> QED
      BY <1>4, <2>1, <3>1
  <2> QED
    BY <1>3, <2>2, <2>3, <2>4 DEF IInv
<1>5. ASSUME NEW reply \in {"bad request", "internal"}, Reply(r, request[r].op, reply), UNCHANGED mutex
      PROVE  IInv'
  <2>1. /\ request' \in [Requests -> ReqStates] /\ request'[r].pc = "done"
        /\ \A s \in Requests \ {r} : request'[s] = request[s]
    <3>1. request' = [request EXCEPT ![r] = [pc |-> "done", op |-> request[r].op, reply |-> reply,
                                     misread |-> FALSE]]
      BY <1>5 DEF Reply
    <3>2. reply \in Replies
      BY DEF Replies
    <3> QED
      BY <1>1, <3>1, <3>2, Answered DEF IInv
  <2>2. PolicyTypeOK'
    BY <1>1, <1>5, <2>1 DEF IInv, PolicyTypeOK
  <2>3. Decided' /\ Holder'
    BY <1>1, <1>5, <2>1, PolicyAssumption DEF IInv, Decided, Holder
  <2>4. Checked'
    BY <1>1, <2>1 DEF IInv, Checked, checkPolicy
  <2> QED
    BY <1>3, <2>2, <2>3, <2>4 DEF IInv
<1> QED
  BY <1>4, <1>5 DEF Check

(* What the write leaves: the row as it was, or one that the checked       *)
(* policy, or its absence, stands in.                                      *)
LEMMA WriteRow ==
    ASSUME NEW d \in Rows, NEW op \in {"create", "update", "delete"}, NEW p,
           op # "delete" => p \in Policies
    PROVE  \E res \in Replies, new \in Rows :
             /\ Write(op, d, p) = <<res, new>>
             /\ new \in {d, Empty} \/ (op # "delete" /\ new = Stored(p))
<1>0. {"ok", "internal", "panic"} \subseteq Replies
  BY DEF Replies
<1>1. CASE op = "create"
  <2>1. Write(op, d, p) = CreateRow(d, p)
    BY <1>1 DEF Write
  <2>2. CreateRow(d, p) \in {<<"ok", Stored(p)>>, <<"internal", d>>}
    BY DEF CreateRow
  <2> QED
    BY <1>1, <2>1, <2>2, <1>0, StoredRow
<1>2. CASE op = "update"
  <2>1. Write(op, d, p) = UpdateRow(d, p)
    BY <1>2 DEF Write
  <2>2. UpdateRow(d, p) \in {<<"ok", Stored(p)>>, <<"internal", d>>}
    BY DEF UpdateRow
  <2> QED
    BY <1>2, <2>1, <2>2, <1>0, StoredRow
<1>3. CASE op = "delete"
  <2>1. Write(op, d, p) = DeleteRow(d)
    BY <1>3 DEF Write
  <2>2. DeleteRow(d) \in {<<"ok", Empty>>, <<"panic", d>>, <<"internal", d>>}
    BY DEF DeleteRow
  <2> QED
    BY <1>3, <2>1, <2>2, <1>0, NoValueRows
<1> QED
  BY <1>1, <1>2, <1>3

(* Only the holder of the mutex writes the row.                            *)
LEMMA StoreStep ==
    ASSUME IInv, NEW r \in Requests, NEW failed \in BOOLEAN, Store(r, failed)
    PROVE  /\ request[r].pc = "store" /\ UNCHANGED <<engine, adminSubjects, staleEngine>>
           /\ row' \in Rows
           /\ \/ /\ request' = [request EXCEPT ![r].pc = "reload"] /\ UNCHANGED mutex
                 /\ \/ row' \in {row, Empty}
                    \/ request[r].op # "delete" /\ row' = Stored(request[r].policy)
              \/ /\ \E reply \in Replies : Reply(r, request[r].op, reply)
                 /\ mutex' = Nil /\ row' = row
<1> DEFINE w == IF failed THEN <<"internal", row>> ELSE Write(request[r].op, row, request[r].policy)
<1>1. /\ request[r].pc = "store" /\ UNCHANGED <<engine, adminSubjects, staleEngine>>
      /\ \/ w[1] = "ok" /\ row' = w[2] /\ request' = [request EXCEPT ![r].pc = "reload"] /\ UNCHANGED mutex
         \/ w[1] # "ok" /\ Reply(r, request[r].op, w[1]) /\ mutex' = Nil /\ UNCHANGED row
  BY DEF Store
<1>2. /\ request[r].op \in {"create", "update", "delete"}
      /\ request[r].op # "delete" => request[r].policy \in Policies
      /\ row \in Rows
  BY <1>1 DEF IInv, Decided, PolicyTypeOK
<1>3. \E res \in Replies, new \in Rows :
        /\ w = <<res, new>>
        /\ new \in {row, Empty} \/ (request[r].op # "delete" /\ new = Stored(request[r].policy))
  <2>1. "internal" \in Replies
    BY DEF Replies
  <2>2. CASE failed
    BY <1>2, <2>1, <2>2
  <2>3. CASE ~failed
    <3>1. w = Write(request[r].op, row, request[r].policy)
      BY <2>3
    <3> HIDE DEF w
    <3>2. PICK op \in {"create", "update", "delete"} : op = request[r].op
      BY <1>2
    <3>p. PICK p : p = request[r].policy
      OBVIOUS
    <3>3. (op # "delete" => p \in Policies) /\ row \in Rows
      BY <1>2, <3>2, <3>p
    <3>4. \E res \in Replies, new \in Rows :
            /\ Write(op, row, p) = <<res, new>>
            /\ new \in {row, Empty} \/ (op # "delete" /\ new = Stored(p))
      BY <3>3, WriteRow, SMTT(60)
    <3> QED
      BY <3>1, <3>2, <3>p, <3>4
  <2> QED
    BY <2>2, <2>3
<1> HIDE DEF w
<1>4. /\ w[1] \in Replies /\ w[2] \in Rows
      /\ w[2] \in {row, Empty} \/ (request[r].op # "delete" /\ w[2] = Stored(request[r].policy))
  BY <1>3, SMTT(60)
<1> QED
  BY <1>1, <1>2, <1>4

(* The write of the row, whether it fails or not, keeps the invariant: the  *)
(* request still holds adminMutex.                                          *)
LEMMA StoreKeeps ==
    ASSUME IInv, NEW r \in Requests, NEW failed \in BOOLEAN, Store(r, failed)
    PROVE  IInv'
<1>1. /\ request[r].pc = "store" /\ UNCHANGED <<engine, adminSubjects, staleEngine>> /\ row' \in Rows
      /\ mutex = r /\ r # Nil
  BY StoreStep, PolicyAssumption DEF IInv, Holder
<1>2. CASE request' = [request EXCEPT ![r].pc = "reload"] /\ UNCHANGED mutex
  <2>1. /\ request' \in [Requests -> ReqStates]
        /\ request'[r].pc = "reload" /\ request'[r].op = request[r].op
        /\ request'[r].policy = request[r].policy /\ request'[r].admin = request[r].admin
        /\ \A s \in Requests \ {r} : request'[s] = request[s]
    BY <1>1, <1>2, Advanced DEF IInv
  <2>2. PolicyTypeOK'
    BY <1>1, <1>2, <2>1 DEF IInv, PolicyTypeOK
  <2>3. Decided' /\ Holder'
    BY <1>1, <1>2, <2>1, SMTT(60) DEF IInv, Decided, Holder
  <2>4. Checked'
    BY <1>1, <2>1 DEF IInv, Checked, checkPolicy
  <2>5. EngineOfRow'
    BY <1>1, <1>2, <2>1 DEF EngineOfRow
  <2> QED
    BY <2>2, <2>3, <2>4, <2>5 DEF IInv
<1>3. CASE /\ \E reply \in Replies : Reply(r, request[r].op, reply)
           /\ mutex' = Nil /\ row' = row
  <2>1. /\ request' \in [Requests -> ReqStates] /\ request'[r].pc = "done"
        /\ \A s \in Requests \ {r} : request'[s] = request[s]
    <3>1. request[r].op \in Ops
      BY <1>1 DEF IInv, Decided, Ops
    <3> QED
      BY <1>3, <3>1, Answered DEF IInv, Reply
  <2>2. PolicyTypeOK'
    BY <1>1, <1>3, <2>1 DEF IInv, PolicyTypeOK
  <2>3. Decided' /\ Holder'
    BY <1>1, <1>3, <2>1, PolicyAssumption, SMTT(60) DEF IInv, Decided, Holder
  <2>4. Checked'
    BY <1>1, <2>1 DEF IInv, Checked, checkPolicy
  <2>5. EngineOfRow'
    <3>1. ~\E s \in Requests : mutex = s /\ request[s].pc = "reload"
      BY <1>1
    <3>2. staleEngine \/ engine = EngineOf(GetAuthorityPolicy(row))
      BY <3>1 DEF IInv, EngineOfRow
    <3>3. EngineOf(GetAuthorityPolicy(row))' = EngineOf(GetAuthorityPolicy(row))
      BY <1>3
    <3> QED
      BY <1>1, <3>2, <3>3 DEF EngineOfRow
  <2> QED
    BY <2>2, <2>3, <2>4, <2>5 DEF IInv
<1> QED
  BY <1>2, <1>3, StoreStep

(* The reload makes the engine that of the row before the mutex is free.   *)
LEMMA ReloadKeeps ==
    ASSUME IInv, NEW r \in Requests, NEW failed \in BOOLEAN, Reload(r, failed)
    PROVE  IInv'
<1>1. /\ request[r].pc = "reload" /\ row' = row /\ adminSubjects' = adminSubjects /\ staleEngine' = failed
      /\ engine' = IF failed THEN engine ELSE EngineOf(GetAuthorityPolicy(row))
      /\ mutex' = Nil /\ mutex = r /\ r # Nil
  BY PolicyAssumption DEF Reload, IInv, Holder
<1>2. /\ request' \in [Requests -> ReqStates] /\ request'[r].pc = "done"
      /\ \A s \in Requests \ {r} : request'[s] = request[s]
  <2>1. PICK reply \in Replies : Reply(r, request[r].op, reply)
    BY DEF Reload, Replies
  <2>2. request[r].op \in Ops
    BY <1>1 DEF IInv, Decided, Ops
  <2> QED
    BY <2>1, <2>2, Answered DEF IInv, Reply
<1>3. PolicyTypeOK'
  BY <1>1, <1>2, RowCases DEF IInv, PolicyTypeOK
<1>4. Decided' /\ Holder'
  BY <1>1, <1>2, PolicyAssumption, SMTT(60) DEF IInv, Decided, Holder
<1>5. Checked'
  BY <1>1, <1>2 DEF IInv, Checked, checkPolicy
<1>6. EngineOfRow'
  <2>1. EngineOf(GetAuthorityPolicy(row))' = EngineOf(GetAuthorityPolicy(row))
    BY <1>1
  <2> QED
    BY <1>1, <2>1 DEF EngineOfRow
<1> QED
  BY <1>3, <1>4, <1>5, <1>6 DEF IInv

(* A request that answers keeps the invariant.                              *)
LEMMA ReturnKeeps ==
    ASSUME IInv, NEW r \in Requests, Return(r)
    PROVE  IInv'
<1>1. /\ request[r].pc = "done" /\ UNCHANGED <<row, engine, adminSubjects, mutex, staleEngine>>
      /\ request' \in [Requests -> ReqStates] /\ request'[r].pc = "idle"
      /\ \A s \in Requests \ {r} : request'[s] = request[s]
  <2>1. NoRequest \in ReqStates /\ NoRequest.pc = "idle"
    BY DEF ReqStates, NoRequest
  <2> QED
    BY <2>1 DEF Return, IInv, PolicyTypeOK
<1>2. PolicyTypeOK'
  BY <1>1 DEF IInv, PolicyTypeOK
<1>3. Decided' /\ Holder'
  BY <1>1, SMTT(60) DEF IInv, Decided, Holder
<1>4. Checked'
  BY <1>1 DEF IInv, Checked, checkPolicy
<1>5. EngineOfRow'
  <2>1. EngineOf(GetAuthorityPolicy(row))' = EngineOf(GetAuthorityPolicy(row))
    BY <1>1
  <2>2. ASSUME NEW s \in Requests, mutex = s, request[s].pc = "reload"
        PROVE  mutex' = s /\ request'[s].pc = "reload"
    BY <1>1, <2>2
  <2> QED
    BY <1>1, <2>1, <2>2 DEF IInv, EngineOfRow
<1> QED
  BY <1>2, <1>3, <1>4, <1>5 DEF IInv

(* Admins come and go only while no policy waits to be stored.             *)
LEMMA AdminsKeep ==
    ASSUME IInv, NEW s \in AdminSubjects, AdminStored(s) \/ AdminRemoved(s)
    PROVE  IInv'
<1>1. /\ mutex = Nil /\ UNCHANGED <<row, engine, mutex, request, staleEngine>>
      /\ adminSubjects' \subseteq AdminSubjects
  BY DEF AdminStored, AdminRemoved, IInv, PolicyTypeOK
<1>2. PolicyTypeOK' /\ Decided' /\ Holder'
  BY <1>1 DEF IInv, PolicyTypeOK, Decided, Holder
<1>3. Checked'
  <2>1. \A r \in Requests : request[r].pc # "store"
    BY <1>1, PolicyAssumption DEF IInv, Holder
  <2> QED
    BY <1>1, <2>1 DEF Checked
<1>4. EngineOfRow'
  <2>1. EngineOf(GetAuthorityPolicy(row))' = EngineOf(GetAuthorityPolicy(row))
    BY <1>1
  <2> QED
    BY <1>1, <2>1 DEF IInv, EngineOfRow
<1> QED
  BY <1>2, <1>3, <1>4 DEF IInv

(* A restart loads the engine from the row, wherever requests stopped.     *)
LEMMA RestartKeeps ==
    ASSUME IInv, Restart
    PROVE  IInv'
<1>1. /\ mutex' = Nil /\ row' = row /\ adminSubjects' = adminSubjects /\ staleEngine' = FALSE
      /\ engine' = EngineOf(GetAuthorityPolicy(row))
      /\ request' = [r \in Requests |-> NoRequest]
  BY DEF Restart
<1>2. request' \in [Requests -> ReqStates] /\ \A r \in Requests : request'[r].pc = "idle"
  BY <1>1 DEF ReqStates, NoRequest
<1>3. PolicyTypeOK'
  BY <1>1, <1>2, RowCases DEF IInv, PolicyTypeOK
<1>4. Decided' /\ Holder' /\ Checked'
  BY <1>1, <1>2, PolicyAssumption DEF Decided, Holder, Checked
<1>5. EngineOfRow'
  <2>1. EngineOf(GetAuthorityPolicy(row))' = EngineOf(GetAuthorityPolicy(row))
    BY <1>1
  <2> QED
    BY <1>1, <2>1 DEF EngineOfRow
<1> QED
  BY <1>3, <1>4, <1>5 DEF IInv

(* Nothing changes in a stuttering step.                                    *)
LEMMA StutterKeeps ==
    ASSUME IInv, UNCHANGED policyVars
    PROVE  IInv'
<1>1. UNCHANGED <<row, engine, adminSubjects, mutex, request, staleEngine>>
  BY DEF policyVars
<1>2. PolicyTypeOK' /\ Decided' /\ Holder'
  BY <1>1 DEF IInv, PolicyTypeOK, Decided, Holder
<1>3. Checked'
  BY <1>1 DEF IInv, Checked, checkPolicy
<1>4. EngineOfRow'
  <2>1. EngineOf(GetAuthorityPolicy(row))' = EngineOf(GetAuthorityPolicy(row))
    BY <1>1
  <2> QED
    BY <1>1, <2>1 DEF IInv, EngineOfRow
<1> QED
  BY <1>2, <1>3, <1>4 DEF IInv

(* Every step keeps the invariant.                                          *)
LEMMA NextKeeps ==
    ASSUME IInv, [PolicyNext]_policyVars
    PROVE  IInv'
BY ReadKeeps, CheckKeeps, StoreKeeps, ReloadKeeps, ReturnKeeps, AdminsKeep, RestartKeeps,
   StutterKeeps DEF PolicyNext

(* IInv holds in every state, with any number of requests in flight.       *)
THEOREM Invariance == PolicySpec => []IInv
<1>1. PolicyInit => IInv
  BY InitIInv
<1>2. IInv /\ [PolicyNext]_policyVars => IInv'
  BY NextKeeps
<1> QED
  BY <1>1, <1>2, PTL DEF PolicySpec

(* The engine that decides what is issued is that of the stored policy     *)
(* whenever adminMutex is free and the last reload did not fail, for any   *)
(* number of requests, faults and restarts.                                *)
THEOREM EngineFollowsRow == PolicySpec => []EngineCurrent
<1>1. IInv => EngineCurrent
  BY PolicyAssumption DEF IInv, EngineOfRow, EngineCurrent
<1> QED
  BY <1>1, Invariance, PTL

(* A step that changes the row to one with a policy stores a policy that   *)
(* allows every admin.                                                     *)
LEMMA WriteAllowsAdmins ==
    ASSUME IInv, [PolicyNext]_policyVars, row' # row, HasValue(row')
    PROVE  \A s \in adminSubjects' : Allows(EngineOf(row'.policy), s)
<1>1. PICK r \in Requests, f \in BOOLEAN : Store(r, f)
  BY DEF PolicyNext, policyVars, Read, Check, Reload, Return, AdminStored, AdminRemoved, Restart
<1>2. /\ request[r].pc = "store" /\ adminSubjects' = adminSubjects
      /\ request[r].op # "delete" /\ row' = Stored(request[r].policy)
  BY <1>1, StoreStep, NoValueRows
<1> DEFINE p == request[r].policy
<1>3. p \in Policies /\ checkPolicy(request[r].admin, adminSubjects, p)
  BY <1>2 DEF IInv, Decided, Checked
<1>4. EngineOf(row'.policy) = EngineOf(p) /\ EngineOf(p) \in {p, Nil}
  BY <1>2, <1>3, StoredRow, PolicyKept
<1>5. EngineOf(p) = Nil \/ p.x509 = Nil \/ adminSubjects \subseteq p.x509
  BY <1>3 DEF checkPolicy, EngineOf
<1> QED
  BY <1>2, <1>4, <1>5 DEF Allows

(* No request that stores a policy locks out an admin there is at that     *)
(* moment, for any number of requests and admins.                          *)
THEOREM AdminsKeepAccess == PolicySpec => NobodyLockedOut
<1>1. IInv /\ [PolicyNext]_policyVars =>
        (row' # row /\ HasValue(row') => \A s \in adminSubjects' : Allows(EngineOf(row'.policy), s))
  BY WriteAllowsAdmins
<1> QED
  BY <1>1, Invariance, PTL DEF PolicySpec, NobodyLockedOut

=============================================================================
