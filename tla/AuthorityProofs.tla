-------------------------- MODULE AuthorityProofs ---------------------------
(***************************************************************************)
(* Proofs about Authority, for any number of requests, certificates and     *)
(* tokens, and any number of reloads and restarts.                         *)
(*                                                                         *)
(* NoRenewalAfterRevocation needs the history of each request: what it      *)
(* remembers as reported when it arrived is in the table of revoked         *)
(* certificates, so a certificate that passes IsRevoked was not reported    *)
(* by then.  RevocationReportedOnce needs that the requests that have       *)
(* written a revocation and have not answered yet are about different       *)
(* serials, none of them reported.                                         *)
(***************************************************************************)
EXTENDS Authority, TLAPS

(* A leaf is Zenon's unless it names another prover.                        *)
USE ZenonT(60)

\* A part that works on a certificate names it, an SSH one an SSH certificate.
WF(q) ==
  /\ q \in Part
  /\ q.op # "Sign" => q.old \in Serials
  /\ q.op # "Sign" /\ q.ssh => q.old \in SSH

GoodParts(s) == s \in Seq(Part) /\ \A i \in DOMAIN s : WF(s[i])

\* A request that has written a revocation and has not reported it yet.
Reporting(l) == l.pc = "respond" /\ l.parts # <<>>

RevokeLabels == {"RevokeCertificate", "revoke"}

SignLabels == {"CreateCertificate", "store"}

Recorded(s) ==
  s \in Serials /\ revoked[s] # None /\ (s \in casRevoked \/ s \in SSH)

\* What the locals of a request say about the tables.
LocInv(l) ==
  /\ GoodParts(l.parts)
  /\ l.pc \notin {"idle", "respond"} => l.parts # <<>>
  /\ l.pc = "authorizeToken" => l.tok \in Tokens
  /\ Persistent => l.out \subseteq certs
  /\ \A s \in l.acked : revoked[s] # None
  /\ l.pc = "IsRevoked" => Head(l.parts).op # "Sign"
  /\ l.pc \in SignLabels => Head(l.parts).op # "Revoke"
  /\ l.pc \in SignLabels /\ Head(l.parts).op = "Renew" => Head(l.parts).old \notin l.acked
  /\ l.pc = "store" => l.new \in Serials
  /\ l.pc \in RevokeLabels => Head(l.parts).op = "Revoke"
  /\ l.pc = "revoke" /\ ~Head(l.parts).ssh => Head(l.parts).old \in casRevoked
  /\ Reporting(l) => Recorded(Head(l.parts).old)

TokenInv ==
  /\ \A t \in Tokens : token[t] # None => WF(token[t].part)
  /\ Persistent => \A k \in Keys : admitted[k] = IF k \in used THEN 1 ELSE 0

\* A revocation being reported was not reported before and by no other request.
ReportInv ==
  /\ \A p \in Procs : Reporting(loc[p]) => acks[Head(loc[p].parts).old] = 0
  /\ \A p, q \in Procs :
       p # q /\ Reporting(loc[p]) /\ Reporting(loc[q])
         => Head(loc[p].parts).old # Head(loc[q].parts).old

Inv ==
  /\ TypeOK
  /\ TokenInv
  /\ DeliveredStored
  /\ RevocationReportedOnce
  /\ NoRenewalAfterRevocation
  /\ \A p \in Procs : LocInv(loc[p])
  /\ ReportInv

USE DEF RevokeLabels, SignLabels
USE AuthorityAssumption

-----------------------------------------------------------------------------
(* Sequences of parts.                                                      *)

\* The first of some good parts is one, and so are the others.
LEMMA HeadTail ==
  ASSUME NEW s, GoodParts(s), s # <<>>
  PROVE  WF(Head(s)) /\ GoodParts(Tail(s))
<1>1. s \in Seq(Part) /\ Len(s) \in Nat /\ Len(s) # 0 /\ DOMAIN s = 1 .. Len(s)
  BY SMTT(60) DEF GoodParts
<1>2. Head(s) = s[1] /\ 1 \in DOMAIN s
  BY <1>1, SMTT(60)
<1>3. /\ Tail(s) \in Seq(Part) /\ DOMAIN Tail(s) = 1 .. Len(s) - 1
      /\ \A i \in 1 .. Len(s) - 1 : Tail(s)[i] = s[i + 1]
  BY <1>1, SMTT(60)
<1>4. QED
  BY <1>1, <1>2, <1>3, SMTT(60) DEF GoodParts

\* One good part, or good parts followed by good parts, are good parts.
LEMMA Concat ==
  /\ GoodParts(<<>>)
  /\ \A q : WF(q) => GoodParts(<<q>>) /\ <<q>> # <<>> /\ Head(<<q>>) = q
  /\ \A s, t : GoodParts(s) /\ GoodParts(t) => GoodParts(s \o t)
<1>1. GoodParts(<<>>)
  BY SMTT(60) DEF GoodParts
<1>2. \A q : WF(q) => GoodParts(<<q>>) /\ <<q>> # <<>> /\ Head(<<q>>) = q
  BY SMTT(60) DEF GoodParts, WF
<1>3. ASSUME NEW s, NEW t, GoodParts(s), GoodParts(t) PROVE GoodParts(s \o t)
  <2>1. s \in Seq(Part) /\ t \in Seq(Part)
    BY <1>3 DEF GoodParts
  <2>2. /\ s \o t \in Seq(Part)
        /\ DOMAIN (s \o t) = 1 .. Len(s) + Len(t)
        /\ \A i \in 1 .. Len(s) + Len(t) :
             (s \o t)[i] = IF i <= Len(s) THEN s[i] ELSE t[i - Len(s)]
    BY <2>1, SMTT(60)
  <2>3. ASSUME NEW i \in 1 .. Len(s) + Len(t) PROVE WF((s \o t)[i])
    <3>1. CASE i <= Len(s)
      BY <2>1, <2>2, <3>1, <1>3, SMTT(60) DEF GoodParts
    <3>2. CASE ~(i <= Len(s))
      <4>1. i - Len(s) \in 1 .. Len(t) /\ (s \o t)[i] = t[i - Len(s)]
        BY <2>1, <2>2, <3>2, SMTT(60)
      <4>2. QED
        BY <4>1, <2>1, <1>3, SMTT(60) DEF GoodParts
    <3>3. QED
      BY <3>1, <3>2
  <2>4. QED
    BY <2>2, <2>3 DEF GoodParts
<1>4. QED
  BY <1>1, <1>2, <1>3

\* The certificates that SSHSign, SSHRenew and SSHRekey add to a request.
LEMMA ExtraParts ==
  ASSUME TypeOK, NEW q, WF(q), NEW extra \in Extra(q)
  PROVE  GoodParts(<<q>> \o extra) /\ <<q>> \o extra # <<>>
<1> DEFINE u == [op |-> "Sign", ssh |-> TRUE, old |-> None]
           i == [op |-> "Sign", ssh |-> FALSE, old |-> None]
           r(s) == [op |-> "Renew", ssh |-> FALSE, old |-> s]
<1>1. WF(u) /\ WF(i)
  BY DEF WF, Part
<1>2. \A s \in delivered : WF(r(s))
  BY DEF WF, Part, TypeOK
<1>3. \/ extra = <<>>
      \/ extra = <<u>> \/ extra = <<i>> \/ extra = <<u, i>>
      \/ \E s \in delivered : extra = <<r(s)>>
  BY DEF Extra, SSHSign, renewIdentityCertificate, WF, Part
<1> HIDE DEF u, i, r
<1>4. GoodParts(<<u, i>>)
  BY <1>1, SMTT(60) DEF GoodParts, WF
<1>5. GoodParts(extra)
  BY <1>1, <1>2, <1>3, <1>4, Concat
<1>6. GoodParts(<<q>>)
  BY Concat
<1>7. <<q>> \o extra # <<>>
  BY <1>5, <1>6, SMTT(60) DEF GoodParts
<1>8. QED
  BY <1>5, <1>6, <1>7, Concat

-----------------------------------------------------------------------------
(* Steps in general.                                                        *)

\* Before the first request the tables are empty.
LEMMA InitInv == Init => Inv
<1> SUFFICES ASSUME Init PROVE Inv
  OBVIOUS
<1>1. /\ Idle \in Locals /\ Idle.pc = "idle" /\ Idle.out = {} /\ Idle.acked = {}
      /\ Idle.parts = <<>>
  BY SMTT(60) DEF Idle, Locals, Labels, By
<1>2. TypeOK
  BY <1>1, SMTT(60) DEF Init, TypeOK
<1>3. TokenInv
  BY DEF Init, TokenInv
<1>4. DeliveredStored /\ RevocationReportedOnce /\ NoRenewalAfterRevocation
  BY SMTT(60) DEF Init, DeliveredStored, RevocationReportedOnce, NoRenewalAfterRevocation
<1>5. \A p \in Procs : LocInv(loc[p])
  BY <1>1, Concat DEF Init, LocInv, Reporting
<1>6. ReportInv
  BY <1>1 DEF Init, ReportInv, Reporting
<1>7. QED
  BY <1>2, <1>3, <1>4, <1>5, <1>6 DEF Inv

\* The tables in which certificates are recorded only grow.
Grows ==
  /\ certs \subseteq certs' /\ casRevoked \subseteq casRevoked'
  /\ \A s \in Serials : revoked[s] # None => revoked'[s] # None

\* What the locals of a request say stays true while the tables grow.
LEMMA GrowsLocInv ==
  ASSUME TypeOK, Grows, NEW l \in Locals, LocInv(l)
  PROVE  LocInv(l)'
<1>1. l.acked \subseteq Serials
  BY DEF Locals
<1>2. \A s : Recorded(s) => Recorded(s)'
  BY DEF Recorded, Grows
<1>3. QED
  BY <1>1, <1>2 DEF LocInv, Grows, Reporting, GoodParts, WF

\* A step of one request that reports nothing new.
LEMMA LocalStep ==
  ASSUME Inv, NEW p \in Procs, NEW l \in Locals, LocInv(l)', ~Reporting(l),
         loc' = [loc EXCEPT ![p] = l], Grows, UNCHANGED acks,
         TypeOK', TokenInv', DeliveredStored', NoRenewalAfterRevocation'
  PROVE  Inv'
<1>1. \A q \in Procs : loc[q] \in Locals /\ loc'[q] = IF q = p THEN l ELSE loc[q]
  BY DEF Inv, TypeOK
<1>2. ASSUME NEW q \in Procs PROVE LocInv(loc[q])'
  <2>1. CASE q = p
    BY <1>1, <2>1 DEF LocInv
  <2>2. CASE q # p
    <3>1. PICK m \in Locals : m = loc[q]
      BY <1>1
    <3>2. LocInv(m)'
      BY <3>1, GrowsLocInv DEF Inv
    <3>3. QED
      BY <3>1, <3>2, <1>1, <2>2 DEF LocInv
  <2>3. QED
    BY <2>1, <2>2
<1>3. ReportInv'
  BY <1>1, SMTT(60) DEF Inv, ReportInv
<1>4. RevocationReportedOnce'
  BY DEF Inv, RevocationReportedOnce, Grows
<1>5. QED
  BY <1>2, <1>3, <1>4 DEF Inv

\* A step of no request.
LEMMA QuietStep ==
  ASSUME Inv, UNCHANGED <<loc, acks>>, Grows,
         TypeOK', TokenInv', DeliveredStored', NoRenewalAfterRevocation'
  PROVE  Inv'
<1>1. ASSUME NEW q \in Procs PROVE LocInv(loc[q])'
  <2>1. PICK m \in Locals : m = loc[q]
    BY DEF Inv, TypeOK
  <2>2. LocInv(m)'
    BY <2>1, GrowsLocInv DEF Inv
  <2>3. QED
    BY <2>1, <2>2 DEF LocInv
<1>2. ReportInv'
  BY DEF Inv, ReportInv
<1>3. RevocationReportedOnce'
  BY DEF Inv, RevocationReportedOnce, Grows
<1>4. QED
  BY <1>1, <1>2, <1>3 DEF Inv

\* The invariants of the tables do not depend on the requests.
LEMMA TablesKept ==
  ASSUME Inv, UNCHANGED <<token, used, admitted, certs, delivered, late>>
  PROVE  TokenInv' /\ DeliveredStored' /\ NoRenewalAfterRevocation'
BY DEF Inv, TokenInv, DeliveredStored, NoRenewalAfterRevocation

\* A step of a request that writes to no table.
LEMMA TypeKept ==
  ASSUME TypeOK, loc' \in [Procs -> Locals], 
         UNCHANGED <<now, startTime, token, tables, signed, delivered, admitted,
                     acks, late>>
  PROVE  TypeOK' /\ Grows
BY DEF TypeOK, Grows, tables

\* The request's own locals, typed and consistent.
LEMMA OwnLocals ==
  ASSUME Inv, NEW p \in Procs
  PROVE  loc[p] \in Locals /\ LocInv(loc[p])
BY DEF Inv, TypeOK

\* Idle locals say nothing about the tables.
LEMMA IdleLocals == Idle \in Locals /\ LocInv(Idle)' /\ ~Reporting(Idle)
<1>1. Idle \in Locals /\ Idle.pc = "idle" /\ Idle.parts = <<>>
  BY SMTT(60) DEF Idle, Locals, Labels, By
<1>2. Idle.out = {} /\ Idle.acked = {}
  BY DEF Idle
<1>3. QED
  BY <1>1, <1>2, Concat DEF LocInv, Reporting

\* The label at which the work on a part begins.
LEMMA StartLabel ==
  ASSUME NEW q, WF(q)
  PROVE  /\ Start(q) \in {"CreateCertificate", "IsRevoked", "revoke", "RevokeCertificate"}
         /\ Start(q) = "CreateCertificate" => q.op = "Sign"
         /\ Start(q) = "IsRevoked" => q.op = "Renew"
         /\ Start(q) \in RevokeLabels => q.op = "Revoke"
         /\ Start(q) = "revoke" => q.ssh
BY DEF Start, WF, Part

-----------------------------------------------------------------------------
(* Clients.                                                                 *)

\* A token names the certificate it is about.
LEMMA IssueTokenStep ==
  ASSUME Inv, NEW t \in Tokens, NEW q \in Part, IssueToken(t, q)
  PROVE  Inv'
<1>1. WF(q)
  BY DEF WF, IssueToken, Inv, TypeOK
<1>2. PICK iat \in {now, None} : token' = [token EXCEPT ![t] = [part |-> q, iat |-> iat]]
  BY DEF IssueToken
<1>3. [part |-> q, iat |-> iat] \in Token
  BY DEF Token, Inv, TypeOK
<1>4. token' \in [Tokens -> Token \cup {None}]
  BY <1>2, <1>3 DEF Inv, TypeOK
<1>5. TypeOK' /\ Grows
  BY <1>4 DEF IssueToken, Inv, TypeOK, Grows, tables
<1>6. TokenInv'
  BY <1>1, <1>2 DEF IssueToken, Inv, TypeOK, TokenInv, tables
<1>7. DeliveredStored' /\ NoRenewalAfterRevocation' /\ UNCHANGED <<loc, acks>>
  BY DEF IssueToken, Inv, DeliveredStored, NoRenewalAfterRevocation, tables
<1>8. QED
  BY <1>5, <1>6, <1>7, QuietStep

\* A request arrives with good parts, at a label that fits the first of them.
LEMMA ArriveStep ==
  ASSUME Inv, NEW p \in Procs, NEW by \in By, NEW t \in Tokens \cup {None},
         NEW parts, GoodParts(parts), parts # <<>>, NEW label,
         \/ label = "authorizeToken" /\ t # None
         \/ label = Start(Head(parts))
         \/ label = "IsRevoked" /\ Head(parts).op # "Sign",
         Arrive(p, by, t, parts, label)
  PROVE  Inv'
<1> DEFINE start == IF t = None THEN 0 ELSE startTime
           acked == {s \in Serials : acks[s] > 0 /\ \E i \in DOMAIN parts :
                                                      parts[i].old = s}
<1>1. start \in 0 .. MaxTime
  BY SMTT(60) DEF Inv, TypeOK
<1>2. acked \subseteq Serials /\ \A s \in acked : revoked[s] # None
  BY SMTT(60) DEF Inv, TypeOK, RevocationReportedOnce
<1>3. WF(Head(parts)) /\ parts \in Seq(Part)
  BY HeadTail DEF GoodParts
<1>4. label \in Labels \ {"idle", "respond"}
  BY <1>3, StartLabel DEF Labels
<1>5. loc' = [loc EXCEPT ![p] =
       [Idle EXCEPT !.pc = label, !.by = by, !.tok = t, !.parts = parts,
                    !.start = start, !.acked = acked]]
  BY DEF Arrive
<1> HIDE DEF start, acked
<1>6. PICK l : l = [Idle EXCEPT !.pc = label, !.by = by, !.tok = t, !.parts = parts,
                    !.start = start, !.acked = acked]
  OBVIOUS
<1>7. /\ l \in Locals /\ l.pc = label /\ l.parts = parts /\ l.acked = acked
      /\ l.out = {} /\ l.tok = t
  BY <1>1, <1>2, <1>3, <1>4, <1>6 DEF Locals, Idle
<1>8. LocInv(l)' /\ ~Reporting(l)
  <2>1. revoked' = revoked
    BY DEF Arrive, tables
  <2>2. QED
    BY <1>2, <1>3, <1>4, <1>7, <2>1, StartLabel DEF LocInv, Reporting
<1>9. TypeOK' /\ Grows
  BY <1>5, <1>6, <1>7, TypeKept, SMTT(60) DEF Arrive, Inv, TypeOK
<1>10. TokenInv' /\ DeliveredStored' /\ NoRenewalAfterRevocation'
  BY TablesKept DEF Arrive, tables
<1>11. QED
  BY <1>5, <1>6, <1>7, <1>8, <1>9, <1>10, LocalStep DEF Arrive

\* Every way a request arrives, by token, by certificate or by ACME.
LEMMA RequestStep ==
  ASSUME Inv, NEW p \in Procs, Request(p)
  PROVE  Inv'
<1>1. ASSUME NEW t \in Tokens, RequestWithToken(p, t) PROVE Inv'
  <2>1. PICK extra \in Extra(token[t].part) :
          Arrive(p, "token", t, <<token[t].part>> \o extra, "authorizeToken")
    BY <1>1 DEF RequestWithToken
  <2>2. WF(token[t].part) /\ TypeOK
    BY <1>1 DEF RequestWithToken, Inv, TokenInv
  <2>3. PICK parts : parts = <<token[t].part>> \o extra
    OBVIOUS
  <2>4. GoodParts(parts) /\ parts # <<>>
    BY <2>2, <2>3, ExtraParts
  <2>5. "token" \in By
    BY DEF By
  <2>6. Arrive(p, "token", t, parts, "authorizeToken") /\ t \in Tokens \cup {None}
    BY <2>1, <2>3
  <2>7. QED
    BY <2>4, <2>5, <2>6, ArriveStep
<1>2. ASSUME NEW s \in Serials, NEW op \in {"Renew", "Revoke"},
             RequestWithCertificate(p, s, op)
      PROVE  Inv'
  <2>1. PICK q : q = [op |-> op, ssh |-> FALSE, old |-> s]
    OBVIOUS
  <2>2. WF(q) /\ "mTLS" \in By
    BY <2>1 DEF WF, Part, By
  <2>3. GoodParts(<<q>>) /\ <<q>> # <<>> /\ Head(<<q>>) = q
    BY <2>2, Concat
  <2>4. Arrive(p, "mTLS", None, <<q>>, Start(q))
    BY <1>2, <2>1 DEF RequestWithCertificate
  <2>5. QED
    BY <2>2, <2>3, <2>4, ArriveStep
<1>3. ASSUME NEW s \in Serials \cup {None}, NEW op \in {"Sign", "Revoke"},
             RequestByACME(p, s, op)
      PROVE  Inv'
  <2>1. PICK q : q = [op |-> op, ssh |-> FALSE, old |-> s]
    OBVIOUS
  <2>2. WF(q) /\ "ACME" \in By
    BY <1>3, <2>1 DEF WF, Part, By, RequestByACME, Inv, TypeOK
  <2>3. GoodParts(<<q>>) /\ <<q>> # <<>> /\ Head(<<q>>) = q
    BY <2>2, Concat
  <2>4. Arrive(p, "ACME", None, <<q>>, IF op = "Sign" THEN Start(q) ELSE "IsRevoked")
    BY <1>3, <2>1 DEF RequestByACME
  <2>5. CASE op = "Sign"
    BY <2>2, <2>3, <2>4, <2>5, ArriveStep
  <2>6. CASE op = "Revoke"
    <3>1. Arrive(p, "ACME", None, <<q>>, "IsRevoked") /\ q.op # "Sign"
      BY <2>1, <2>4, <2>6
    <3>2. QED
      BY <2>2, <2>3, <3>1, ArriveStep
  <2>7. QED
    BY <2>5, <2>6
<1>4. QED
  BY <1>1, <1>2, <1>3 DEF Request

-----------------------------------------------------------------------------
(* The authority.                                                           *)

\* Moving on changes nothing but the label.
LEMMA GotoLocals ==
  ASSUME NEW l \in Locals, NEW x \in Labels
  PROVE  /\ [l EXCEPT !.pc = x] \in Locals
         /\ [l EXCEPT !.pc = x].pc = x /\ [l EXCEPT !.pc = x].parts = l.parts
         /\ [l EXCEPT !.pc = x].out = l.out /\ [l EXCEPT !.pc = x].acked = l.acked
         /\ [l EXCEPT !.pc = x].new = l.new
BY DEF Locals

\* Locals with another label are locals.
LEMMA GotoTyped ==
  ASSUME TypeOK, NEW p \in Procs, NEW x \in Labels, loc' = [loc EXCEPT ![p].pc = x]
  PROVE  loc' \in [Procs -> Locals]
<1>1. [loc[p] EXCEPT !.pc = x] \in Locals
  BY GotoLocals DEF TypeOK
<1>2. QED
  BY <1>1 DEF TypeOK

\* A step that only moves one request to another label.
LEMMA GotoStep ==
  ASSUME Inv, NEW p \in Procs, NEW x \in Labels \ {"idle", "authorizeToken", "respond"},
         loc' = [loc EXCEPT ![p].pc = x], loc[p].parts # <<>>,
         x = "IsRevoked" => part(p).op # "Sign",
         x \in SignLabels => part(p).op # "Revoke",
         x \in SignLabels /\ part(p).op = "Renew" => part(p).old \notin loc[p].acked,
         x = "store" => loc[p].new \in Serials,
         x \in RevokeLabels => part(p).op = "Revoke",
         x = "revoke" /\ ~part(p).ssh => part(p).old \in casRevoked',
         Grows, UNCHANGED acks,
         TypeOK', TokenInv', DeliveredStored', NoRenewalAfterRevocation'
  PROVE  Inv'
<1>1. loc[p] \in Locals /\ LocInv(loc[p])
  BY OwnLocals
<1>2. PICK m \in Locals : m = loc[p]
  BY <1>1
<1>3. LocInv(m)'
  BY <1>1, <1>2, GrowsLocInv DEF Inv
<1>4. PICK l : l = [m EXCEPT !.pc = x]
  OBVIOUS
<1>5. /\ l \in Locals /\ l.pc = x /\ l.parts = m.parts /\ l.out = m.out
      /\ l.acked = m.acked /\ l.new = m.new
  BY <1>4, GotoLocals
<1>6. LocInv(l)' /\ ~Reporting(l)
  BY <1>2, <1>3, <1>5 DEF LocInv, Reporting, part
<1>7. loc' = [loc EXCEPT ![p] = l]
  BY <1>2, <1>4 DEF Inv, TypeOK
<1>8. QED
  BY <1>5, <1>6, <1>7, LocalStep

\* The request ends without a write.
LEMMA ErrorStep ==
  ASSUME Inv, NEW p \in Procs, Error(p),
         UNCHANGED <<now, startTime, token, tables, signed, delivered, admitted,
                     acks, late>>
  PROVE  Inv'
<1>1. TypeOK' /\ Grows
  BY IdleLocals, TypeKept DEF Error, Inv, TypeOK
<1>2. TokenInv' /\ DeliveredStored' /\ NoRenewalAfterRevocation'
  BY TablesKept DEF tables
<1>3. QED
  BY <1>1, <1>2, IdleLocals, LocalStep DEF Error

\* A reuse key that is accepted was not stored and is stored now.
LEMMA authorizeTokenStep ==
  ASSUME Inv, NEW p \in Procs, authorizeToken(p)
  PROVE  Inv'
<1>1. loc[p].parts # <<>> /\ WF(part(p)) /\ loc[p].tok \in Tokens
  BY OwnLocals, HeadTail DEF authorizeToken, At, LocInv, part
<1>2. loc' = [loc EXCEPT ![p].pc = Start(part(p))] /\ Start(part(p)) \in Labels
  BY <1>1, StartLabel DEF authorizeToken, UseToken, Labels
<1>3. \/ UNCHANGED <<used, admitted>>
      \/ \E key : key # None /\ key = KeyOf[loc[p].tok] /\ UseToken(p, key)
  BY DEF authorizeToken
<1>4. used' \subseteq Keys /\ admitted' \in [Keys -> Nat] /\ TokenInv'
  <2>1. CASE UNCHANGED <<used, admitted>>
    BY <2>1 DEF Inv, TypeOK, TokenInv, authorizeToken
  <2>2. ASSUME NEW key \in Keys, UseToken(p, key)
        PROVE  used' \subseteq Keys /\ admitted' \in [Keys -> Nat] /\ TokenInv'
    <3>1. /\ key \notin used /\ used' = used \cup {key}
          /\ admitted' = [admitted EXCEPT ![key] = @ + 1]
      BY <2>2 DEF UseToken
    <3>2. used' \subseteq Keys /\ admitted' \in [Keys -> Nat]
      BY <3>1, SMTT(60) DEF Inv, TypeOK
    <3>3. ASSUME Persistent, NEW k \in Keys
          PROVE  admitted'[k] = IF k \in used' THEN 1 ELSE 0
      BY <3>1, <3>3, SMTT(60) DEF Inv, TypeOK, TokenInv
    <3>4. token' = token
      BY DEF authorizeToken
    <3>5. TokenInv'
      BY <3>3, <3>4 DEF Inv, TokenInv
    <3>6. QED
      BY <3>2, <3>5
  <2>3. QED
    BY <1>1, <1>3, <2>1, <2>2
<1>5. loc' \in [Procs -> Locals]
  BY <1>2, GotoTyped DEF Inv
<1>6. TypeOK' /\ Grows
  BY <1>4, <1>5 DEF authorizeToken, Inv, TypeOK, Grows
<1>7. DeliveredStored' /\ NoRenewalAfterRevocation' /\ UNCHANGED acks
  BY DEF authorizeToken, Inv, DeliveredStored, NoRenewalAfterRevocation
<1>8. QED
  BY <1>1, <1>2, <1>4, <1>6, <1>7, StartLabel, GotoStep

\* What passes IsRevoked had not been reported when the request arrived.
LEMMA IsRevokedStep ==
  ASSUME Inv, NEW p \in Procs, IsRevoked(p)
  PROVE  Inv'
<1>1. CASE revoked[part(p).old] # None
  BY <1>1, ErrorStep DEF IsRevoked
<1>2. CASE revoked[part(p).old] = None
  <2>1. /\ loc[p].parts # <<>> /\ WF(part(p)) /\ part(p).op # "Sign"
        /\ part(p).old \notin loc[p].acked
    BY <1>2, OwnLocals, HeadTail DEF IsRevoked, At, LocInv, part
  <2>2. PICK x : x = IF part(p).op = "Renew" THEN "CreateCertificate"
                                             ELSE "RevokeCertificate"
    OBVIOUS
  <2>3. x \in Labels \ {"idle", "authorizeToken", "respond"}
    BY <2>2 DEF Labels
  <2>4. loc' = [loc EXCEPT ![p].pc = x]
    BY <1>2, <2>2 DEF IsRevoked
  <2>5. TokenInv' /\ DeliveredStored' /\ NoRenewalAfterRevocation' /\ UNCHANGED acks
    BY TablesKept DEF IsRevoked, tables
  <2>6. part(p).op = "Renew" \/ part(p).op = "Revoke"
    BY <2>1 DEF WF, Part
  <2>7. TypeOK' /\ Grows
    BY <2>3, <2>4, GotoTyped, TypeKept DEF IsRevoked, Inv
  <2>8. QED
    BY <2>1, <2>2, <2>3, <2>4, <2>5, <2>6, <2>7, GotoStep
<1>3. QED
  BY <1>1, <1>2

\* Signing writes to no table.
LEMMA CreateCertificateStep ==
  ASSUME Inv, NEW p \in Procs, NEW s \in Serials, CreateCertificate(p, s)
  PROVE  Inv'
<1>1. loc[p] \in Locals /\ LocInv(loc[p]) /\ loc[p].pc = "CreateCertificate"
  BY OwnLocals DEF CreateCertificate, At
<1>2. PICK l : l = [loc[p] EXCEPT !.new = s, !.pc = "store"]
  OBVIOUS
<1>3. /\ l \in Locals /\ l.pc = "store" /\ l.new = s /\ l.parts = loc[p].parts
      /\ l.out = loc[p].out /\ l.acked = loc[p].acked
  BY <1>1, <1>2 DEF Locals, Labels
<1>4. loc' = [loc EXCEPT ![p] = l]
  BY <1>2 DEF CreateCertificate, Inv, TypeOK
<1>5. LocInv(l) /\ ~Reporting(l)
  BY <1>1, <1>3 DEF LocInv, Reporting
<1>6. TypeOK' /\ Grows /\ UNCHANGED acks
  <2>1. loc' \in [Procs -> Locals]
    BY <1>3, <1>4 DEF Inv, TypeOK
  <2>2. signed' \subseteq Serials
    BY DEF CreateCertificate, Inv, TypeOK
  <2>3. UNCHANGED <<now, startTime, token, used, certs, casRevoked, revoked,
                    delivered, admitted, acks, late>>
    BY DEF CreateCertificate, tables
  <2>4. QED
    BY <2>1, <2>2, <2>3 DEF Inv, TypeOK, Grows
<1>7. TokenInv' /\ DeliveredStored' /\ NoRenewalAfterRevocation'
  BY TablesKept DEF CreateCertificate, tables
<1>8. LocInv(l)'
  BY <1>3, <1>5, <1>6, GrowsLocInv DEF Inv
<1>9. QED
  BY <1>3, <1>4, <1>5, <1>6, <1>7, <1>8, LocalStep

\* A certificate is stored, and then the next part of the request begins or the
\* request is answered.
LEMMA storeStep ==
  ASSUME Inv, NEW p \in Procs, store(p)
  PROVE  Inv'
<1>1. loc[p] \in Locals /\ LocInv(loc[p]) /\ loc[p].pc = "store"
  BY OwnLocals DEF store, At
<1>2. PICK s : s = loc[p].new
  OBVIOUS
<1>3. PICK rest : rest = Tail(loc[p].parts)
  OBVIOUS
<1>4. s \in Serials /\ GoodParts(rest) /\ rest \in Seq(Part) /\ part(p).op # "Revoke"
  BY <1>1, <1>2, <1>3, HeadTail DEF LocInv, part, GoodParts
<1>5. PICK x : x = IF rest = <<>> THEN "respond" ELSE Start(Head(rest))
  OBVIOUS
<1>6. rest # <<>> => /\ WF(Head(rest)) /\ x = Start(Head(rest))
  BY <1>4, <1>5, HeadTail
<1>7. x \in Labels \ {"idle", "authorizeToken", "store"} /\ (x = "respond" <=> rest = <<>>)
  BY <1>5, <1>6, StartLabel DEF Labels
<1>8. PICK l : l = [loc[p] EXCEPT !.parts = rest, !.out = @ \cup {s}, !.new = None,
                                  !.pc = x]
  OBVIOUS
<1>9. /\ l \in Locals /\ l.pc = x /\ l.parts = rest /\ l.out = loc[p].out \cup {s}
      /\ l.acked = loc[p].acked
  BY <1>1, <1>4, <1>7, <1>8 DEF Locals
<1>10. loc' = [loc EXCEPT ![p] = l]
  BY <1>2, <1>3, <1>5, <1>8 DEF store, Inv, TypeOK
<1>11. certs' = IF Persistent THEN certs \cup {s} ELSE certs
  BY <1>2 DEF store, Stored
<1>12. UNCHANGED <<now, startTime, token, used, casRevoked, revoked, signed, delivered,
                   admitted, acks>>
  BY DEF store
<1>13. late' = late
  BY <1>1, <1>4 DEF store, LocInv, part
<1>14. Grows /\ certs' \subseteq Serials
  BY <1>4, <1>11, <1>12 DEF Grows, Inv, TypeOK
<1>15. TypeOK'
  <2>1. loc' \in [Procs -> Locals]
    BY <1>9, <1>10 DEF Inv, TypeOK
  <2>2. QED
    BY <2>1, <1>12, <1>13, <1>14 DEF Inv, TypeOK
<1>16. LocInv(l)' /\ ~Reporting(l)
  <2>1. Persistent => l.out \subseteq certs'
    BY <1>1, <1>9, <1>11 DEF LocInv
  <2>2. \A u \in l.acked : revoked'[u] # None
    BY <1>1, <1>9, <1>12 DEF LocInv
  <2>3. QED
    BY <1>4, <1>6, <1>7, <1>9, <2>1, <2>2, StartLabel DEF LocInv, Reporting
<1>17. TokenInv' /\ DeliveredStored' /\ NoRenewalAfterRevocation'
  BY <1>12, <1>13, <1>14 DEF Inv, TokenInv, DeliveredStored, NoRenewalAfterRevocation,
                             Grows
<1>18. QED
  BY <1>9, <1>10, <1>12, <1>14, <1>15, <1>16, <1>17, LocalStep

\* The CAS knows the revocation before the database does.
LEMMA RevokeCertificateStep ==
  ASSUME Inv, NEW p \in Procs, RevokeCertificate(p)
  PROVE  Inv'
<1>1. loc[p].parts # <<>> /\ WF(part(p)) /\ part(p).op = "Revoke"
  BY OwnLocals, HeadTail DEF RevokeCertificate, At, LocInv, part
<1>2. part(p).old \in Serials /\ "revoke" \in Labels
  BY <1>1 DEF WF, Labels
<1>3. /\ casRevoked' = casRevoked \cup {part(p).old}
      /\ loc' = [loc EXCEPT ![p].pc = "revoke"]
      /\ UNCHANGED <<now, startTime, token, used, certs, revoked, signed, delivered,
                     admitted, acks, late>>
  BY DEF RevokeCertificate
<1>4. TypeOK' /\ Grows
  <2>1. loc' \in [Procs -> Locals]
    BY <1>2, <1>3, GotoTyped DEF Inv
  <2>2. QED
    BY <1>2, <1>3, <2>1 DEF Inv, TypeOK, Grows
<1>5. TokenInv' /\ DeliveredStored' /\ NoRenewalAfterRevocation'
  BY <1>3, TablesKept
<1>6. "revoke" \in Labels \ {"idle", "authorizeToken", "respond"}
  BY <1>2
<1>7. part(p).old \in casRevoked' /\ acks' = acks
  BY <1>3
<1>8. QED
  BY <1>1, <1>3, <1>4, <1>5, <1>6, <1>7, GotoStep

\* The row of a revocation is written once: a second request about the same
\* certificate finds it.
LEMMA revokeStep ==
  ASSUME Inv, NEW p \in Procs, revoke(p)
  PROVE  Inv'
<1>1. /\ loc[p] \in Locals /\ LocInv(loc[p]) /\ loc[p].pc = "revoke"
      /\ loc[p].parts # <<>> /\ WF(part(p)) /\ part(p).op = "Revoke"
  BY OwnLocals, HeadTail DEF revoke, At, LocInv, part
<1>2. PICK s : s = part(p).old
  OBVIOUS
<1>3. s \in Serials /\ (s \in casRevoked \/ s \in SSH)
  BY <1>1, <1>2 DEF WF, LocInv, part
<1>4. /\ revoked[s] = None /\ revoked' = [revoked EXCEPT ![s] = loc[p].by]
      /\ loc' = [loc EXCEPT ![p].pc = "respond"]
      /\ UNCHANGED <<now, startTime, token, used, certs, casRevoked, signed,
                     delivered, admitted, acks, late>>
  BY <1>2 DEF revoke, Revoke
<1>5. loc[p].by \in By /\ None \notin By
  BY <1>1 DEF Locals
<1>6. PICK l : l = [loc[p] EXCEPT !.pc = "respond"]
  OBVIOUS
<1>7. /\ l \in Locals /\ l.pc = "respond" /\ l.parts = loc[p].parts
      /\ l.out = loc[p].out /\ l.acked = loc[p].acked
  BY <1>1, <1>6, GotoLocals DEF Labels
<1>8. loc' = [loc EXCEPT ![p] = l]
  BY <1>4, <1>6 DEF Inv, TypeOK
<1>9. TypeOK' /\ Grows
  <2>1. loc' \in [Procs -> Locals]
    BY <1>7, <1>8 DEF Inv, TypeOK
  <2>2. revoked' \in [Serials -> By \cup {None}]
    BY <1>4, <1>5 DEF Inv, TypeOK
  <2>3. QED
    BY <1>3, <1>4, <1>5, <2>1, <2>2 DEF Inv, TypeOK, Grows
<1>10. LocInv(l)'
  <2>1. Recorded(s)'
    BY <1>3, <1>4, <1>5 DEF Recorded, Inv, TypeOK
  <2>2. LocInv(loc[p]) /\ loc[p].acked \subseteq Serials
    BY <1>1 DEF Locals
  <2>3. \A u \in l.acked : revoked'[u] # None
    BY <1>7, <1>9, <2>2 DEF LocInv, Grows
  <2>4. Persistent => l.out \subseteq certs'
    BY <1>4, <1>7, <2>2 DEF LocInv
  <2>5. GoodParts(l.parts) /\ Head(l.parts).old = s
    BY <1>2, <1>7, <2>2 DEF LocInv, part
  <2>6. QED
    BY <1>7, <2>1, <2>3, <2>4, <2>5 DEF LocInv
<1>11. \A q \in Procs : loc[q] \in Locals /\ loc'[q] = IF q = p THEN l ELSE loc[q]
  BY <1>8 DEF Inv, TypeOK
<1>12. ASSUME NEW q \in Procs PROVE LocInv(loc[q])'
  <2>1. CASE q = p
    BY <1>10, <1>11, <2>1, SMTT(60) DEF LocInv
  <2>2. CASE q # p
    <3>1. PICK m \in Locals : m = loc[q]
      BY <1>11
    <3>2. LocInv(m)'
      BY <3>1, <1>9, GrowsLocInv DEF Inv
    <3>3. QED
      BY <3>1, <3>2, <1>11, <2>2 DEF LocInv
  <2>3. QED
    BY <2>1, <2>2
<1>13. ReportInv'
  <2>1. Head(l.parts).old = s /\ acks[s] = 0
    BY <1>2, <1>3, <1>4, <1>7, SMTT(60) DEF Inv, RevocationReportedOnce, part, TypeOK
  <2>2. \A q \in Procs : Reporting(loc[q]) => Head(loc[q].parts).old # s
    BY <1>4 DEF Inv, LocInv, Recorded
  <2>3. \A q \in Procs : Reporting(loc'[q]) => acks'[Head(loc'[q].parts).old] = 0
    BY <1>4, <1>11, <2>1 DEF Inv, ReportInv
  <2>4. \A q, r \in Procs :
          q # r /\ Reporting(loc'[q]) /\ Reporting(loc'[r])
            => Head(loc'[q].parts).old # Head(loc'[r].parts).old
    BY <1>11, <2>1, <2>2, SMTT(60) DEF Inv, ReportInv
  <2>5. QED
    BY <2>3, <2>4 DEF ReportInv, Reporting
<1>14. TokenInv' /\ DeliveredStored' /\ NoRenewalAfterRevocation'
  BY <1>4, TablesKept
<1>15. RevocationReportedOnce'
  BY <1>4, <1>9 DEF Inv, RevocationReportedOnce, Grows
<1>16. QED
  BY <1>9, <1>12, <1>13, <1>14, <1>15 DEF Inv

\* Of the requests that have written a revocation, the one that answers is the
\* only one about its certificate.
LEMMA respondStep ==
  ASSUME Inv, NEW p \in Procs, respond(p)
  PROVE  Inv'
<1>1. loc[p] \in Locals /\ LocInv(loc[p]) /\ loc[p].pc = "respond"
  BY OwnLocals DEF respond, At
<1>2. /\ delivered' = delivered \cup loc[p].out
      /\ loc' = [loc EXCEPT ![p] = Idle]
      /\ UNCHANGED <<now, startTime, token, used, certs, casRevoked, revoked, signed,
                     admitted, late>>
  BY DEF respond, tables
<1>3. acks' = [s \in Serials |->
        IF Reporting(loc[p]) /\ s = part(p).old THEN acks[s] + 1 ELSE acks[s]]
  BY <1>1 DEF respond, Reporting
<1>4. \A q \in Procs : loc[q] \in Locals /\ loc'[q] = IF q = p THEN Idle ELSE loc[q]
  BY <1>2 DEF Inv, TypeOK
<1>5. Grows
  BY <1>2 DEF Grows
<1>6. TypeOK'
  <2>1. loc' \in [Procs -> Locals]
    BY <1>2, IdleLocals DEF Inv, TypeOK
  <2>2. delivered' \subseteq Serials
    BY <1>1, <1>2 DEF Inv, TypeOK, Locals
  <2>3. acks' \in [Serials -> Nat]
    BY <1>3, SMTT(60) DEF Inv, TypeOK
  <2>4. QED
    BY <1>2, <2>1, <2>2, <2>3 DEF Inv, TypeOK
<1>7. ASSUME NEW q \in Procs PROVE LocInv(loc[q])'
  <2>1. CASE q = p
    BY <1>4, <2>1, IdleLocals DEF LocInv
  <2>2. CASE q # p
    <3>1. PICK m \in Locals : m = loc[q]
      BY <1>4
    <3>2. LocInv(m)'
      BY <3>1, <1>5, GrowsLocInv DEF Inv
    <3>3. QED
      BY <3>1, <3>2, <1>4, <2>2, SMTT(60) DEF LocInv
  <2>3. QED
    BY <2>1, <2>2
<1>8. RevocationReportedOnce'
  <2>1. Reporting(loc[p]) => Recorded(part(p).old) /\ acks[part(p).old] = 0
    BY <1>1 DEF LocInv, Inv, ReportInv, part
  <2>2. ASSUME NEW s \in Serials, Reporting(loc[p]), s = part(p).old
        PROVE  acks'[s] = 1 /\ Recorded(s)
    BY <1>3, <2>1, <2>2, SMTT(60)
  <2>3. ASSUME NEW s \in Serials, ~(Reporting(loc[p]) /\ s = part(p).old)
        PROVE  acks'[s] = acks[s]
    BY <1>3, <2>3
  <2>4. ASSUME NEW s \in Serials
        PROVE  /\ acks'[s] <= 1
               /\ acks'[s] = 1 => revoked[s] # None /\ (s \in casRevoked \/ s \in SSH)
    <3>1. CASE Reporting(loc[p]) /\ s = part(p).old
      BY <2>2, <3>1, SMTT(60) DEF Recorded
    <3>2. CASE ~(Reporting(loc[p]) /\ s = part(p).old)
      BY <2>3, <3>2 DEF Inv, RevocationReportedOnce
    <3>3. QED
      BY <3>1, <3>2
  <2>5. QED
    BY <1>2, <2>4 DEF RevocationReportedOnce
<1>9. ReportInv'
  <2>1. ASSUME NEW q \in Procs, Reporting(loc'[q])
        PROVE  q # p /\ Reporting(loc[q]) /\ loc'[q] = loc[q]
    BY <1>4, <2>1, IdleLocals
  <2>2. ASSUME NEW q \in Procs, Reporting(loc'[q])
        PROVE  acks'[Head(loc'[q].parts).old] = 0
    <3>1. q # p /\ Reporting(loc[q]) /\ loc'[q] = loc[q]
      BY <2>1, <2>2
    <3>2. /\ Head(loc[q].parts).old \in Serials
          /\ acks[Head(loc[q].parts).old] = 0
      BY <3>1 DEF Inv, LocInv, Recorded, ReportInv
    <3>3. Reporting(loc[p]) => Head(loc[q].parts).old # part(p).old
      BY <3>1 DEF Inv, ReportInv, part
    <3>4. QED
      BY <1>3, <3>1, <3>2, <3>3
  <2>3. QED
    BY <2>1, <2>2 DEF Inv, ReportInv
<1>10. TokenInv' /\ DeliveredStored' /\ NoRenewalAfterRevocation'
  BY <1>1, <1>2 DEF Inv, LocInv, TokenInv, DeliveredStored, NoRenewalAfterRevocation
<1>11. QED
  BY <1>6, <1>7, <1>8, <1>9, <1>10 DEF Inv

-----------------------------------------------------------------------------
(* The CA process, and the theorems.                                        *)

\* A restart ends every request; the tables of a db.DB stay.
LEMMA RestartStep ==
  ASSUME Inv, Restart
  PROVE  Inv'
<1>1. \A q \in Procs : loc'[q] = Idle
  BY DEF Restart
<1>2. /\ UNCHANGED <<now, token, certs, casRevoked, revoked, signed, delivered,
                     admitted, acks, late>>
      /\ startTime' = now /\ used' \subseteq used /\ (Persistent => used' = used)
  BY DEF Restart
<1>3. TypeOK'
  <2>1. loc' \in [Procs -> Locals]
    BY IdleLocals DEF Restart
  <2>2. QED
    BY <1>2, <2>1 DEF Inv, TypeOK
<1>4. TokenInv' /\ DeliveredStored' /\ NoRenewalAfterRevocation'
  BY <1>2 DEF Inv, TokenInv, DeliveredStored, NoRenewalAfterRevocation
<1>5. RevocationReportedOnce'
  BY <1>2 DEF Inv, RevocationReportedOnce
<1>6. \A q \in Procs : LocInv(loc[q])'
  BY <1>1, IdleLocals, SMTT(60) DEF LocInv
<1>7. ReportInv'
  BY <1>1, IdleLocals DEF ReportInv
<1>8. QED
  BY <1>3, <1>4, <1>5, <1>6, <1>7 DEF Inv

\* A reload changes the start time, a tick the clock.
LEMMA ClockStep ==
  ASSUME Inv, Reload \/ Tick
  PROVE  Inv'
<1>1. UNCHANGED <<token, used, certs, casRevoked, revoked, signed, delivered, admitted,
                  acks, late, loc>>
  BY DEF Reload, Tick, tables
<1>2. now' \in 0 .. MaxTime /\ startTime' \in 0 .. MaxTime
  BY SMTT(60) DEF Reload, Tick, Inv, TypeOK
<1>3. TypeOK' /\ Grows
  BY <1>1, <1>2 DEF Inv, TypeOK, Grows
<1>4. TokenInv' /\ DeliveredStored' /\ NoRenewalAfterRevocation'
  BY <1>1, TablesKept
<1>5. QED
  BY <1>1, <1>3, <1>4, QuietStep

\* Every step of the system keeps the invariant.
LEMMA NextInv == Inv /\ [Next]_vars => Inv'
<1> SUFFICES ASSUME Inv, [Next]_vars PROVE Inv'
  OBVIOUS
<1>1. ASSUME NEW t \in Tokens, NEW q \in Part, IssueToken(t, q) PROVE Inv'
  BY <1>1, IssueTokenStep
<1>2. ASSUME NEW p \in Procs, Request(p) PROVE Inv'
  BY <1>2, RequestStep
<1>3. ASSUME NEW p \in Procs, Step(p) PROVE Inv'
  <2>1. CASE authorizeToken(p)
    BY <2>1, authorizeTokenStep
  <2>2. CASE IsRevoked(p)
    BY <2>2, IsRevokedStep
  <2>3. ASSUME NEW s \in Serials,
               Sign(p, s) \/ Rekey(p, s) \/ SignSSH(p, s) \/ RenewSSH(p, s)
        PROVE  Inv'
    <3>1. CreateCertificate(p, s)
      BY <2>3 DEF Sign, Rekey, SignSSH, RenewSSH
    <3>2. QED
      BY <3>1, CreateCertificateStep
  <2>4. CASE store(p)
    BY <2>4, storeStep
  <2>5. CASE RevokeCertificate(p)
    BY <2>5, RevokeCertificateStep
  <2>6. CASE revoke(p)
    BY <2>6, revokeStep
  <2>7. CASE respond(p)
    BY <2>7, respondStep
  <2>8. CASE Fail(p)
    BY <2>8, ErrorStep DEF Fail
  <2>9. QED
    BY <1>3, <2>1, <2>2, <2>3, <2>4, <2>5, <2>6, <2>7, <2>8 DEF Step
<1>4. CASE Reload \/ Tick
  BY <1>4, ClockStep
<1>5. CASE Restart
  BY <1>5, RestartStep
<1>6. CASE UNCHANGED vars
  <2>1. /\ UNCHANGED <<now, startTime, token, used, certs, casRevoked, revoked, signed,
                       delivered, admitted, acks, late, loc>>
    BY <1>6 DEF vars
  <2>2. TypeOK' /\ Grows
    BY <2>1 DEF Inv, TypeOK, Grows
  <2>3. TokenInv' /\ DeliveredStored' /\ NoRenewalAfterRevocation'
    BY <2>1, TablesKept
  <2>4. QED
    BY <2>1, <2>2, <2>3, QuietStep
<1>7. QED
  BY <1>1, <1>2, <1>3, <1>4, <1>5, <1>6 DEF Next

\* Inv is an invariant of the authority.
THEOREM Invariance == Spec => []Inv
  BY InitInv, NextInv, PTL DEF Spec

\* Tables, histories and locals keep their types.
THEOREM TypeCorrect == Spec => []TypeOK
<1>1. Inv => TypeOK
  BY DEF Inv
<1>2. QED
  BY <1>1, Invariance, PTL

\* With a database, a token (or all tokens of one cloud instance) authorizes one
\* request at most, whatever races, reloads and restarts happen.
THEOREM OneTimeTokens ==
  ASSUME Persistent
  PROVE  Spec => []TokenUsedOnce
<1>1. Inv => TokenUsedOnce
  BY SMTT(60) DEF Inv, TokenInv, TokenUsedOnce, TypeOK
<1>2. QED
  BY <1>1, Invariance, PTL

\* Every certificate a client holds is in the database.
THEOREM DeliveredIsStored == Spec => []DeliveredStored
<1>1. Inv => DeliveredStored
  BY DEF Inv
<1>2. QED
  BY <1>1, Invariance, PTL

\* A revocation is reported to one request at most, and what is reported is
\* recorded.
THEOREM ReportedOnce == Spec => []RevocationReportedOnce
<1>1. Inv => RevocationReportedOnce
  BY DEF Inv
<1>2. QED
  BY <1>1, Invariance, PTL

\* A certificate whose revocation was reported is not renewed by a request that
\* arrives later.
THEOREM NotRenewed == Spec => []NoRenewalAfterRevocation
<1>1. Inv => NoRenewalAfterRevocation
  BY DEF Inv
<1>2. QED
  BY <1>1, Invariance, PTL

\* The record of a revocation is never replaced or removed.
THEOREM RevocationIsKept == Spec => RevocationKept
<1>1. ASSUME TypeOK, [Next]_vars, NEW s \in Serials, revoked[s] # None
      PROVE  revoked'[s] = revoked[s]
  <2>1. CASE UNCHANGED revoked
    BY <2>1
  <2>2. ASSUME NEW p \in Procs, revoke(p) PROVE revoked'[s] = revoked[s]
    BY <1>1, <2>2 DEF revoke, Revoke, TypeOK
  <2>3. \/ UNCHANGED revoked
        \/ \E p \in Procs : revoke(p)
    <3>1. ASSUME NEW p \in Procs, Request(p) PROVE UNCHANGED revoked
      BY <3>1 DEF Request, RequestWithToken, RequestWithCertificate,
        RequestByACME, Arrive, tables
    <3>2. ASSUME NEW p \in Procs, Step(p), ~revoke(p) PROVE UNCHANGED revoked
      BY <3>2 DEF Step, authorizeToken, IsRevoked, Sign, Rekey, SignSSH,
        RenewSSH, CreateCertificate, store, RevokeCertificate, respond, Fail, tables
    <3>3. ASSUME UNCHANGED vars \/ Reload \/ Restart \/ Tick PROVE UNCHANGED revoked
      BY <3>3 DEF vars, Reload, Restart, Tick, tables
    <3>4. ASSUME NEW t \in Tokens, NEW q \in Part, IssueToken(t, q)
          PROVE  UNCHANGED revoked
      BY <3>4 DEF IssueToken, tables
    <3>5. QED
      BY <1>1, <3>1, <3>2, <3>3, <3>4 DEF Next
  <2>4. QED
    BY <2>1, <2>2, <2>3
<1>2. TypeOK /\ [Next]_vars
        => [\A s \in Serials : revoked[s] # None => revoked'[s] = revoked[s]]_vars
  BY <1>1
<1>3. QED
  BY <1>2, TypeCorrect, PTL DEF Spec, RevocationKept

=============================================================================
