---------------------------- MODULE CertValidity ----------------------------
(***************************************************************************)
(* The validity period of an X.509 or SSH certificate, from the request    *)
(* and the token over the claims of the provisioner to the signed          *)
(* certificate and its renewals.  The clock is read several times on the   *)
(* way and moves between the readings.                                     *)
(*                                                                         *)
(* Times are numbers of ticks, Sec to a second; X.509 certificates hold    *)
(* ticks of whole seconds.  SSH certificates hold unsigned seconds of Bits *)
(* bits, and the code turns them into signed durations of Bits bits.       *)
(***************************************************************************)
EXTENDS Integers

CONSTANTS
  Kinds,      \* of certificates: "tls", "user" and "host"
  Global,     \* GlobalProvisionerClaims, [Kinds -> [min, max, def]]
  ClaimSet,   \* claims of provisioners, with None for what they leave out
  PopClaims,  \* claims of SSHPOP provisioners
  Limits,     \* validity periods of provisioning credentials, and None
  ReqTimes,   \* values of notBefore, notAfter, validAfter, validBefore in requests
  TokTimes,   \* values of validAfter and validBefore in SSH tokens
  Backdate,   \* authority.backdate
  Start, MaxClock, \* the clock runs from Start to MaxClock
  Sec, Bits,
  MaxRenewals,
  None

(* 2^63 for the integers of the code.                                       *)
Half == 2^(Bits - 1)

TimeDuration == [form: {"unset", "time", "duration"}, v: Int]

ASSUME UnitsAssumption ==
  /\ Sec \in Nat \ {0} /\ Half \in Nat \ {0} /\ Backdate \in Nat
  /\ MaxClock \in Nat /\ Start \in 0 .. MaxClock /\ MaxRenewals \in Nat
  /\ \A k \in Kinds : {Global[k].min, Global[k].max, Global[k].def} \subseteq Nat
  /\ \A c \in ClaimSet \cup PopClaims : {c.min, c.max, c.def} \subseteq Nat \cup {None}
  /\ \A l \in Limits \ {None} : {l.after, l.before} \subseteq Int
  /\ ReqTimes \cup TokTimes \subseteq TimeDuration

VARIABLES
  clock,
  conf,  \* [kind, claims, limit, pop]: the provisioner, its credential, the SSHPOP provisioner
  req,   \* [after, before, tokAfter, tokBefore]
  cert,  \* [after, before]
  pc,
  old,   \* the certificate being renewed
  gen,   \* number of renewals
  at     \* when the certificate was signed

vars == << clock, conf, req, cert, pc, old, gen, at >>

(***************************************************************************)
(* TimeDuration: unset, a time, or a duration.                             *)
(***************************************************************************)
Unset == [form |-> "unset", v |-> 0]
Time(t) == [form |-> "time", v |-> t]
Dur(d) == [form |-> "duration", v |-> d]

RelativeTime(td, base) == IF td.form = "duration" THEN base + td.v ELSE td.v

(***************************************************************************)
(* Go's fixed-width arithmetic.                                            *)
(***************************************************************************)
Unix(t) == t \div Sec
Uint(n) == n % (2 * Half)
Signed(n) == LET u == Uint(n) IN IF u < Half THEN u ELSE u - 2 * Half
Truncate(t) == t - (t % Sec)

(* time.Duration(before - after) * time.Second of two unsigned times.       *)
SSHDuration(after, before) == Signed(Uint(before - after) * Sec)

(***************************************************************************)
(* The claims of a provisioner over the global ones.                       *)
(***************************************************************************)
DefaultDuration(k, c) == IF c.def = None THEN Global[k].def ELSE c.def

MinDuration(k, c) ==
  CASE c.min # None -> c.min
    [] c.min = None /\ c.def # None /\ c.def < Global[k].min -> c.def
    [] OTHER -> Global[k].min

MaxDuration(k, c) ==
  CASE c.max # None -> c.max
    [] c.max = None /\ c.def # None /\ c.def > Global[k].max -> c.def
    [] OTHER -> Global[k].max

(* Claimer.Validate looks at the TLS durations only.                        *)
Validate(c) ==
  LET min == MinDuration("tls", c)
      max == MaxDuration("tls", c)
      def == DefaultDuration("tls", c)
  IN min > 0 /\ max > 0 /\ def > 0 /\ min <= max /\ min <= def /\ def <= max

NoClaims == [min |-> None, max |-> None, def |-> None, disableRenewal |-> FALSE, allowAfterExpiry |-> FALSE]

Init ==
  /\ clock = Start
  /\ \E k \in Kinds, c \in ClaimSet, l \in Limits, p \in PopClaims :
       /\ k = "tls" => Validate(c)
       /\ k # "host" => p = NoClaims
       /\ conf = [kind |-> k, claims |-> c, limit |-> l, pop |-> p]
       /\ \E a, b \in ReqTimes, ta, tb \in TokTimes :
            /\ k = "tls" => ta = Unset /\ tb = Unset
            /\ req = [after |-> a, before |-> b, tokAfter |-> ta, tokBefore |-> tb]
  /\ cert = [after |-> 0, before |-> 0]
  /\ pc = IF conf.kind = "tls" THEN "modify" ELSE "authorize"
  /\ old = cert /\ gen = 0 /\ at = 0

Tick ==
  /\ clock < MaxClock
  /\ pc # "refused" /\ ~(pc = "issued" /\ gen = MaxRenewals)
  /\ clock' = clock + 1
  /\ UNCHANGED << conf, req, cert, pc, old, gen, at >>

IsTLS == conf.kind = "tls"
MyDefault == DefaultDuration(conf.kind, conf.claims)

Refuse == pc' = "refused" /\ UNCHANGED << cert, old, gen, at >>
Goto(c, label) == cert' = c /\ pc' = label /\ UNCHANGED << old, gen, at >>
Window(a, b) == [after |-> a, before |-> b]

(***************************************************************************)
(* X.509: profileDefaultDuration, or profileLimitDuration for a            *)
(* provisioner whose credential expires, then validityValidator.           *)
(***************************************************************************)
NotBefore == IF req.after = Unset THEN clock ELSE RelativeTime(req.after, clock)
StartsAt == IF req.after = Unset THEN clock - Backdate ELSE NotBefore

profileDefaultDuration ==
  LET na == IF req.before = Unset THEN NotBefore + MyDefault ELSE RelativeTime(req.before, NotBefore)
  IN Goto(Window(StartsAt, na), "validate")

profileLimitDuration ==
  LET asked == RelativeTime(req.before, NotBefore)
      cut == IF NotBefore + MyDefault > conf.limit.before THEN conf.limit.before ELSE NotBefore + MyDefault
      na == IF req.before = Unset THEN cut ELSE asked
  IN IF NotBefore < conf.limit.after \/ (req.before # Unset /\ asked > conf.limit.before)
     THEN Refuse
     ELSE Goto(Window(StartsAt, na), "validate")

Modify ==
  /\ pc = "modify"
  /\ IF conf.limit = None THEN profileDefaultDuration ELSE profileLimitDuration
  /\ UNCHANGED << clock, conf, req >>

Sign(c) == cert' = c /\ pc' = "issued" /\ at' = clock /\ UNCHANGED << old, gen >>

validityValidator(c) ==
  LET na == Truncate(c.before)
      nb == Truncate(c.after)
  IN /\ na >= Truncate(clock) /\ na >= nb
     /\ na - nb >= MinDuration("tls", conf.claims)
     /\ na - nb <= MaxDuration("tls", conf.claims) + Backdate

(* SoftCAS keeps the period of the template; DER holds whole seconds.       *)
CreateCertificate ==
  /\ pc = "validate" /\ IsTLS
  /\ IF validityValidator(cert)
     THEN Sign(Window(Truncate(cert.after), Truncate(cert.before)))
     ELSE Refuse
  /\ UNCHANGED << clock, conf, req >>

(***************************************************************************)
(* SSH: the options of the token are compared with those of the request    *)
(* and become modifiers that run after ModifyValidity.                     *)
(***************************************************************************)
Match(want, got) == want = Unset \/ got = Unset \/ want = got

Resolve(td) == IF td = Unset THEN Unset ELSE Time(RelativeTime(td, clock))

AuthorizeSSHSign ==
  /\ pc = "authorize"
  /\ IF Match(req.tokAfter, req.after) /\ Match(req.tokBefore, req.before)
     THEN /\ req' = [req EXCEPT !.tokAfter = Resolve(@), !.tokBefore = Resolve(@)]
          /\ Goto(cert, "validity")
     ELSE Refuse /\ UNCHANGED req
  /\ UNCHANGED << clock, conf >>

Seconds(td) == IF td = Unset THEN 0 ELSE Uint(Unix(RelativeTime(td, clock)))

ModifyValidity ==
  /\ pc = "validity"
  /\ LET a == Seconds(req.after)
         b == Seconds(req.before)
     IN IF a > 0 /\ b > 0 /\ a > b
        THEN Refuse
        ELSE Goto(Window(IF req.tokAfter = Unset THEN a ELSE Seconds(req.tokAfter),
                         IF req.tokBefore = Unset THEN b ELSE Seconds(req.tokBefore)), "duration")
  /\ UNCHANGED << clock, conf, req >>

ValidAfter == IF cert.after = 0 THEN Uint(Unix(clock)) ELSE cert.after

Backdated ==
  LET b == IF cert.after = 0 THEN Backdate \div Sec ELSE 0
  IN IF ValidAfter > b THEN ValidAfter - b ELSE ValidAfter

sshDefaultDuration ==
  Goto(Window(Backdated,
              IF cert.before = 0 THEN Uint(ValidAfter + MyDefault \div Sec) ELSE cert.before), "validate")

sshLimitDuration ==
  LET va == Signed(ValidAfter) * Sec
      vb == Signed(cert.before) * Sec
      cut == IF conf.limit.before < va + MyDefault THEN conf.limit.before ELSE va + MyDefault
  IN IF va > conf.limit.before \/ (cert.before # 0 /\ conf.limit.before < vb)
     THEN Refuse
     ELSE Goto(Window(Backdated, IF cert.before = 0 THEN Uint(Unix(cut)) ELSE cert.before), "validate")

Duration ==
  /\ pc = "duration"
  /\ IF conf.limit = None THEN sshDefaultDuration ELSE sshLimitDuration
  /\ UNCHANGED << clock, conf, req >>

(* Mutants of sshCertValidityValidator: a maximum alone, and no look at the *)
(* clock.                                                                   *)
sshCertValidityMax(c, claims) ==
  /\ c.after # 0
  /\ c.before >= Uint(Unix(clock)) /\ c.before >= c.after
  /\ SSHDuration(c.after, c.before) <= MaxDuration(conf.kind, claims) + Backdate

(* sshCertValidityValidator, and the times of sshCertDefaultValidator.      *)
sshCertValidityValidator(c, claims) ==
  /\ c.after # 0
  /\ c.before >= Uint(Unix(clock)) /\ c.before >= c.after
  /\ SSHDuration(c.after, c.before) >= MinDuration(conf.kind, claims)
  /\ SSHDuration(c.after, c.before) <= MaxDuration(conf.kind, claims) + Backdate

SignSSH ==
  /\ pc = "validate" /\ ~IsTLS
  /\ IF sshCertValidityValidator(cert, conf.claims) THEN Sign(cert) ELSE Refuse
  /\ UNCHANGED << clock, conf, req >>

(***************************************************************************)
(* Renewals: X.509 by the provisioner of the certificate, SSH host         *)
(* certificates by an SSHPOP provisioner with claims of its own.  The      *)
(* clock is read once to authorize and once to sign.                       *)
(***************************************************************************)
AuthorizeAs(label) ==
  /\ pc = "issued" /\ gen < MaxRenewals
  /\ pc' = label /\ old' = cert
  /\ UNCHANGED << clock, conf, req, cert, gen, at >>

DefaultAuthorizeRenew ==
  /\ ~conf.claims.disableRenewal
  /\ Truncate(clock) >= cert.after
  /\ Truncate(clock) <= cert.before \/ conf.claims.allowAfterExpiry

AuthorizeRenew == IsTLS /\ DefaultAuthorizeRenew /\ AuthorizeAs("renew")

Renewed(c) == cert' = c /\ pc' = "issued" /\ gen' = gen + 1 /\ at' = clock /\ UNCHANGED old
NotRenewed == pc' = "issued" /\ UNCHANGED << cert, old, gen, at >>

(* Rekey computes the lifetime, SoftCAS.RenewCertificate the new period.    *)
Rekey ==
  /\ pc = "renew"
  /\ LET lifetime == old.before - old.after - Backdate
     IN IF lifetime = 0 THEN NotRenewed
        ELSE Renewed(Window(Truncate(clock - Backdate), Truncate(clock + lifetime)))
  /\ UNCHANGED << clock, conf, req >>

Infinity == 2 * Half - 1

Started == Signed(cert.after) >= 0 /\ Unix(clock) >= Signed(cert.after)
Unexpired == cert.before = Infinity \/ (Signed(cert.before) >= 0 /\ Unix(clock) < Signed(cert.before))

DefaultAuthorizeSSHRenew ==
  ~conf.pop.disableRenewal /\ Started /\ (Unexpired \/ conf.pop.allowAfterExpiry)

AuthorizeSSHRenew == conf.kind = "host" /\ DefaultAuthorizeSSHRenew /\ AuthorizeAs("renewSSH")
AuthorizeSSHRekey == conf.kind = "host" /\ Started /\ Unexpired /\ AuthorizeAs("rekeySSH")

HasPeriod == old.after # 0 /\ old.before # 0

(* Mutant of NewPeriod: the backdate moves only the start.                  *)
NewPeriodLonger ==
  Window(Uint(Unix(clock - Backdate)), Uint(Unix(clock + SSHDuration(old.after, old.before))))

NewPeriod ==
  LET duration == SSHDuration(old.after, old.before)
  IN Window(Uint(Unix(clock - Backdate)), Uint(Unix(clock + duration - Backdate)))

RenewSSH ==
  /\ pc = "renewSSH"
  /\ IF HasPeriod THEN Renewed(NewPeriod) ELSE NotRenewed
  /\ UNCHANGED << clock, conf, req >>

RekeySSH ==
  /\ pc = "rekeySSH"
  /\ IF HasPeriod /\ sshCertValidityValidator(NewPeriod, conf.pop) THEN Renewed(NewPeriod) ELSE NotRenewed
  /\ UNCHANGED << clock, conf, req >>

Next ==
  \/ Tick
  \/ Modify \/ CreateCertificate
  \/ AuthorizeSSHSign \/ ModifyValidity \/ Duration \/ SignSSH
  \/ AuthorizeRenew \/ Rekey
  \/ AuthorizeSSHRenew \/ AuthorizeSSHRekey \/ RenewSSH \/ RekeySSH

Spec == Init /\ [][Next]_vars

(***************************************************************************)
(* Properties                                                              *)
(***************************************************************************)
Issued == pc = "issued"
First == Issued /\ gen = 0

(* The length of a period in ticks, with no arithmetic that wraps.          *)
Length(c) == (c.before - c.after) * (IF IsTLS THEN 1 ELSE Sec)
ValidAt(t) ==
  IF IsTLS THEN cert.after <= t /\ t <= cert.before
  ELSE cert.after <= Unix(t) /\ Unix(t) < cert.before

(* SSH periods are unsigned numbers of Bits bits, signed certificates have  *)
(* the time of their signature.                                             *)
TypeOK ==
  /\ clock \in Start..MaxClock /\ at \in 0..clock /\ gen \in 0..MaxRenewals
  /\ pc \in {"modify", "authorize", "validity", "duration", "validate", "issued", "refused",
             "renew", "renewSSH", "rekeySSH"}
  /\ ~IsTLS => \A c \in {cert, old} : {c.after, c.before} \subseteq 0..Infinity
  /\ IsTLS /\ Issued => cert.after % Sec = 0 /\ cert.before % Sec = 0

(* The period of a signed certificate is within the minimum and the maximum *)
(* of its provisioner (validityValidator, sshCertValidityValidator), as a   *)
(* verifier measures it and not as the code computes it.                    *)
WithinClaims ==
  First => /\ Length(cert) >= MinDuration(conf.kind, conf.claims)
           /\ Length(cert) <= MaxDuration(conf.kind, conf.claims) + Backdate

(* There is no time at which a certificate of an X5C or Nebula provisioner  *)
(* is valid and the credential it was requested with has expired            *)
(* (profileLimitDuration, sshLimitDuration); an X.509 certificate starts at *)
(* most the backdate before the credential.                                 *)
CredentialBound ==
  First /\ conf.limit # None =>
    \A t \in 0..(2 * MaxClock) :
      ValidAt(t) => /\ t <= conf.limit.before
                    /\ IsTLS => t > conf.limit.after - Backdate - Sec

(* A certificate has not expired when it is signed, renewed ones included:  *)
(* Rekey says "equal to the old one, but starting 'now'".                   *)
(* Does not hold, see the README.                                           *)
IssuedLive ==
  Issued => IF IsTLS THEN cert.before >= Truncate(at) ELSE cert.before >= Unix(at)

(* A certificate has not expired when it is signed, unless it renews one    *)
(* that is shorter than the backdate (CreateCertificate, Rekey, RenewSSH).  *)
LiveUnlessShort == (gen = 0 \/ Length(old) >= Backdate) => IssuedLive

(* The period of a signed certificate is within the minimum and the maximum *)
(* of its provisioner, as a verifier measures it, and within the period of  *)
(* the credential it was requested with, and it has not ended when it is    *)
(* signed unless the certificate renews one shorter than the backdate       *)
(* (validityValidator, sshCertValidityValidator, profileLimitDuration,      *)
(* sshLimitDuration, Rekey, RenewSSH).                                      *)
PeriodBounded == WithinClaims /\ CredentialBound /\ LiveUnlessShort

(* Every renewal keeps the length of the period, whatever the backdate and  *)
(* however long the chain of renewals (Rekey, RenewSSH, RekeySSH).          *)
RenewalKeepsLength == [][gen' = gen + 1 => Length(cert') = Length(old)]_vars

(* The minimum of an SSH period leaves the backdate out                     *)
(* (sshCertValidityValidator).                                              *)
(* Does not hold, see the README.                                           *)
MinWithoutBackdate ==
  First /\ ~IsTLS =>
    LET from == IF cert.after < Unix(at) THEN Unix(at) ELSE cert.after
    IN (cert.before - from) * Sec >= MinDuration(conf.kind, conf.claims)

(* The backdate is always applied (sshDefaultDuration).                     *)
(* Does not hold, see the README.                                           *)
BackdateApplied ==
  [][Duration /\ pc' = "validate" /\ ValidAfter > Backdate \div Sec
       => cert'.after = ValidAfter - (Backdate \div Sec)]_vars

=============================================================================
