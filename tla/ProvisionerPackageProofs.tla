---------------------- MODULE ProvisionerPackageProofs ----------------------
(***************************************************************************)
(* That tokens are granted as they are meant and whoever is entitled is    *)
(* granted, for every collection of provisioners, every set of tokens and  *)
(* any number of requests; and that the keys of an identity provider are    *)
(* fresh when tokens are verified with them, for any number of goroutines,  *)
(* any max-age and any length of a fetch; and that a certificate is what    *)
(* the credential vouches for, for every provisioner, credential, request   *)
(* and classification of names.                                             *)
(***************************************************************************)
EXTENDS ProvisionerPackage, TLAPS

(* A leaf is Zenon's unless it names another prover.                        *)
USE ZenonT(60)

\* The provisioners that a request finds for its token, and the identifiers it
\* computes for it at time n.
Found(op, tok) == IF op = "Renew" THEN {Tokens[tok].prov} ELSE Loaded[tok]
IDsOf(op, tok, n) == UNION {GetTokenID(p, Tokens[tok], n) : p \in Found(op, tok)}

TokenIDs ==
  {HashOf(Tokens[i]) : i \in DOMAIN Tokens}
    \cup {<<"id", Tokens[i].jti>> : i \in DOMAIN Tokens}
    \cup {<<"id", Tokens[i].nonce>> : i \in DOMAIN Tokens}
    \cup {<<"xms_mirid", Tokens[i].instance>> : i \in DOMAIN Tokens}
    \cup {<<"instance", GetIDForToken(p), Tokens[i].instance>> : p \in Provisioners, i \in DOMAIN Tokens}

Names == {p.name : p \in Provisioners}

RequestType ==
  [st : {"none", "recorded", "granted", "refused", "lost"}, op : Ops \cup {""},
   tok : DOMAIN Tokens \cup {""}, provs : SUBSET Names,
   keys : SUBSET TokenIDs,
   why : {"", "not enabled", "not found", "issued before start", "used", "invalid"},
   live : BOOLEAN, early : BOOLEAN]

Typed ==
  /\ now \in Nat /\ startTime \in Nat /\ startTime <= now /\ sshCA \in BOOLEAN
  /\ req \in [Requests -> RequestType]

\* The token of q was recorded: UseToken did not refuse it.
Took(q) == q.st \in {"recorded", "granted", "lost"} \/ (q.st = "refused" /\ q.why = "invalid")

\* What q holds was computed when it arrived, at time m.
ArrivedAt(q, m) ==
  /\ q.op \in Ops /\ q.tok \in DOMAIN Tokens
  /\ q.op = "Renew" <=> Tokens[q.tok].op = "Renew"
  /\ q.provs = {p.name : p \in Found(q.op, q.tok)}
  /\ q.keys = IDsOf(q.op, q.tok, m)
  /\ q.early <=> Tokens[q.tok].nbf > m + Leeway
  /\ q.live => Live(Tokens[q.tok], m)

Passes(q, n) == \A p \in Found(q.op, q.tok) : Authorize(p, Tokens[q.tok], q.op, n)

\* What it was answered was decided at time n.
AnsweredAt(q, n) ==
  /\ q.st = "granted" => Passes(q, n)
  /\ q.st = "refused" /\ q.why = "invalid" => ~ Passes(q, n) /\ (q.live => Live(Tokens[q.tok], n))

History(q, x) ==
  q.st # "none" => \E m, n \in Nat : m <= n /\ n <= x /\ ArrivedAt(q, m) /\ AnsweredAt(q, n)

\* Why it was refused before its token was recorded.
Reason(q) ==
  q.st = "refused" /\ q.why # "invalid" =>
    \/ q.why = "not enabled" /\ q.op \in {"SSHSign", "SSHRenew", "SSHRekey"} /\ ~ sshCA
    \/ q.why = "not found" /\ Found(q.op, q.tok) = {}
    \/ q.why = "issued before start" /\ Tokens[q.tok].iat < startTime
    \/ q.why = "used" /\ \E s \in Requests : Took(req[s]) /\ req[s].keys \cap q.keys # {}

\* The table holds the identifiers that requests have recorded, each once.
Table ==
  /\ \A r \in Requests : Took(req[r]) => req[r].keys \subseteq used
  /\ \A k \in used : \E s \in Requests : Took(req[s]) /\ k \in req[s].keys
  /\ \A r, s \in Requests : r # s /\ Took(req[r]) /\ Took(req[s]) => req[r].keys \cap req[s].keys = {}

IInv ==
  /\ Typed /\ Table
  /\ \A r \in Requests : History(req[r], now) /\ Reason(req[r])

-----------------------------------------------------------------------------
\* A token finds provisioners of the collection.
LEMMA FoundTyped ==
  ASSUME NEW op, NEW tok \in DOMAIN Tokens
  PROVE  Found(op, tok) \subseteq Provisioners
<1>1. \A id : LoadByTokenID(id) \subseteq Provisioners
  BY DEF LoadByTokenID
<1>2. LoadByToken(Tokens[tok]) \subseteq Provisioners
  BY <1>1 DEF LoadByToken, First
<1>3. Loaded[tok] = LoadByToken(Tokens[tok])
  BY DEF Loaded
<1> QED
  BY <1>2, <1>3, TokensAssumption DEF Found

\* The identifiers of a token.
LEMMA IDsTyped ==
  ASSUME NEW op, NEW tok \in DOMAIN Tokens, NEW n
  PROVE  IDsOf(op, tok, n) \subseteq TokenIDs
<1> DEFINE t == Tokens[tok]
<1>1. ASSUME NEW p \in Provisioners
      PROVE  GetTokenID(p, t, n) \subseteq TokenIDs
  <2>1. /\ HashOf(t) \in TokenIDs /\ <<"id", t.jti>> \in TokenIDs /\ <<"id", t.nonce>> \in TokenIDs
        /\ <<"xms_mirid", t.instance>> \in TokenIDs
    BY Z3 DEF TokenIDs
  <2>2. <<"instance", GetIDForToken(p), t.instance>> \in TokenIDs
    BY <1>1, Z3 DEF TokenIDs
  <2> HIDE DEF t
  <2>3. Claimed(t.jti, t) \in TokenIDs /\ Claimed(t.nonce, t) \in TokenIDs
    BY <2>1 DEF Claimed
  <2>4. AwsTokenID(p, t, n) \subseteq TokenIDs /\ GcpTokenID(p, t) \subseteq TokenIDs
        /\ AzureTokenID(p, t) \subseteq TokenIDs
    BY <2>1, <2>2 DEF AwsTokenID, GcpTokenID, AzureTokenID
  <2>5. p.type \in Types
    BY <1>1, CollectionAssumption
  <2> QED
    BY <2>3, <2>4, <2>5, Z3 DEF GetTokenID, JwkTypes, ProtocolTypes, Types
<1>2. \A p \in Found(op, tok) : GetTokenID(p, t, n) \subseteq TokenIDs
  BY <1>1, FoundTyped
<1> QED
  BY <1>2 DEF IDsOf

\* What happened does not change as time passes.
LEMMA HistoryStays ==
  ASSUME NEW q, NEW x \in Nat, NEW y \in Nat, x <= y, History(q, x)
  PROVE  History(q, y)
BY SMTT(60) DEF History

\* A step that records no token leaves the table and the requests that took theirs.
LEMMA TableStays ==
  ASSUME Table, used' = used,
         \A r \in Requests : (Took(req'[r]) <=> Took(req[r])) /\ req'[r].keys = req[r].keys
  PROVE  Table'
BY DEF Table

\* A reason stays a reason.
LEMMA ReasonStays ==
  ASSUME NEW q, Reason(q), sshCA' = sshCA, startTime \in Nat, startTime' \in Nat, startTime <= startTime',
         q.tok \in DOMAIN Tokens,
         \A r \in Requests : Took(req[r]) => Took(req'[r]) /\ req'[r].keys = req[r].keys
  PROVE  Reason(q)'
<1> SUFFICES ASSUME q.st = "refused", q.why # "invalid"
             PROVE  Reason(q)'
  BY DEF Reason
<1>1. CASE q.why = "issued before start" /\ Tokens[q.tok].iat < startTime
  <2>1. PICK i \in Nat : i = Tokens[q.tok].iat
    BY TokensAssumption
  <2>2. \A a, b \in Nat : i < a /\ a <= b => i < b
    BY <2>1, SMTT(60)
  <2>3. Tokens[q.tok].iat < startTime'
    BY <1>1, <2>1, <2>2
  <2> QED
    BY <1>1, <2>3 DEF Reason
<1>2. CASE q.why = "used" /\ \E s \in Requests : Took(req[s]) /\ req[s].keys \cap q.keys # {}
  <2>1. \E s \in Requests : Took(req'[s]) /\ req'[s].keys \cap q.keys # {}
    BY <1>2
  <2> QED
    BY <1>2, <2>1 DEF Reason
<1> QED
  BY <1>1, <1>2 DEF Reason

\* No request has been made.
LEMMA InitIInv ==
  ASSUME Init
  PROVE  IInv
<1>1. NoRequest \in RequestType
  BY DEF RequestType, NoRequest
<1>0. Typed
  BY <1>1, SMTT(60) DEF Init, Typed
<1>2. \A r \in Requests : req[r].st = "none"
  BY DEF Init, NoRequest
<1> QED
  BY <1>0, <1>2 DEF IInv, Table, Took, History, Reason, Init

\* A request arrives.
LEMMA ArriveKeeps ==
  ASSUME IInv, NEW r \in Requests, NEW op \in Ops, NEW tok \in DOMAIN Tokens, Arrive(r, op, tok)
  PROVE  IInv'
<1>1. PICK t : t = Tokens[tok]
  OBVIOUS
<1>2. PICK F : F = Found(op, tok)
  OBVIOUS
<1>3. PICK K : K = IDsOf(op, tok, now)
  OBVIOUS
<1>4. PICK why : why = Refusal(op, t, F, K)
  OBVIOUS
<1>0. PICK L \in BOOLEAN, E \in BOOLEAN : L = Live(t, now) /\ E = (t.nbf > now + Leeway)
  <2>1. Live(t, now) \in BOOLEAN
    BY DEF Live
  <2>2. (t.nbf > now + Leeway) \in BOOLEAN
    BY Z3
  <2> QED
    BY <2>1, <2>2
<1>N. PICK N, S : N = {p.name : p \in F} /\ S = IF why = "" THEN "recorded" ELSE "refused"
  OBVIOUS
<1>5. PICK new : new = [st |-> S, op |-> op, tok |-> tok,
                        provs |-> N, keys |-> K, why |-> why,
                        live |-> L, early |-> E]
  OBVIOUS
<1>6. /\ req[r] = NoRequest /\ (op = "Renew") = (t.op = "Renew")
      /\ used' = IF why = "" THEN used \cup K ELSE used
      /\ req' = [req EXCEPT ![r] = new]
      /\ now' = now /\ startTime' = startTime /\ sshCA' = sshCA
  BY <1>0, <1>1, <1>2, <1>3, <1>4, <1>5, <1>N DEF Arrive, Found, IDsOf
<1>7. /\ \/ why = "not enabled" /\ op \in {"SSHSign", "SSHRenew", "SSHRekey"} /\ ~ sshCA
         \/ why = "not found" /\ F = {}
         \/ why = "issued before start" /\ t.iat < startTime
         \/ why = "used" /\ K \cap used # {}
         \/ why = "" /\ K \cap used = {}
      /\ why \in {"", "not enabled", "not found", "issued before start", "used"}
  BY <1>4 DEF Refusal
<1>8. /\ new.st = S
      /\ new.op = op /\ new.tok = tok /\ new.provs = N /\ new.keys = K
      /\ new.why = why /\ new.live = L /\ new.early = E
  BY <1>5, Z3
<1>9. new \in RequestType
  <2>1. K \subseteq TokenIDs
    BY <1>3, IDsTyped
  <2>2. N \subseteq Names
    BY <1>2, <1>N, FoundTyped DEF Names
  <2>4. S \in {"none", "recorded", "granted", "refused", "lost"}
    BY <1>N
  <2>5. why \in {"", "not enabled", "not found", "issued before start", "used", "invalid"}
    BY <1>7
  <2>6. op \in Ops \cup {""} /\ tok \in DOMAIN Tokens \cup {""}
    OBVIOUS
  <2> QED
    BY <1>0, <1>5, <2>1, <2>2, <2>4, <2>5, <2>6 DEF RequestType
<1>10. Typed'
  BY <1>6, <1>9 DEF IInv, Typed
<1>11. /\ Took(new) <=> why = ""
       /\ ~ Took(req[r])
  <2>1. NoRequest.st = "none"
    BY Z3 DEF NoRequest
  <2> QED
    BY <1>6, <1>7, <1>8, <1>N, <2>1 DEF Took
<1>12. req'[r] = new /\ \A s \in Requests : s # r => req'[s] = req[s]
  BY <1>6 DEF IInv, Typed
<1>13. \A s \in Requests : Took(req[s]) => Took(req'[s]) /\ req'[s].keys = req[s].keys
  BY <1>11, <1>12
<1>14. Table'
  <2>1. CASE why = ""
    <3>1. used' = used \cup K /\ K \cap used = {} /\ Took(new) /\ new.keys = K
      BY <1>6, <1>7, <1>8, <1>11, <2>1
    <3>2. \A s \in Requests : Took(req'[s]) => req'[s].keys \subseteq used'
      BY <1>12, <3>1 DEF IInv, Table
    <3>3. \A k \in used' : \E s \in Requests : Took(req'[s]) /\ k \in req'[s].keys
      BY <1>12, <1>13, <3>1 DEF IInv, Table
    <3>4. \A s, u \in Requests : s # u /\ Took(req'[s]) /\ Took(req'[u]) =>
            req'[s].keys \cap req'[u].keys = {}
      BY <1>12, <3>1 DEF IInv, Table
    <3> QED
      BY <3>2, <3>3, <3>4 DEF Table
  <2>2. CASE why # ""
    <3>1. used' = used /\ ~ Took(new)
      BY <1>6, <1>11, <2>2
    <3> QED
      BY <1>11, <1>12, <3>1 DEF IInv, Table
  <2> QED
    BY <2>1, <2>2
<1>15. ASSUME NEW s \in Requests
       PROVE  (History(req[s], now) /\ Reason(req[s]))'
  <2>1. CASE s # r
    <3>1. req'[s] = req[s] /\ History(req[s], now) /\ Reason(req[s])
      BY <1>12, <2>1 DEF IInv
    <3>2. PICK q : q = req[s]
      OBVIOUS
    <3>3. q.st = "refused" => q.tok \in DOMAIN Tokens
      BY <3>1, <3>2 DEF History, ArrivedAt
    <3>4. CASE q.st = "refused"
      <4>0. startTime \in Nat /\ startTime' = startTime
        BY <1>6 DEF IInv, Typed
      <4>1. startTime \in Nat /\ startTime' \in Nat /\ startTime <= startTime'
        BY <4>0, SMTT(60)
      <4>2. Reason(q)'
        BY <1>6, <1>13, <3>1, <3>2, <3>3, <3>4, <4>1, ReasonStays
      <4> QED
        BY <1>6, <3>1, <3>2, <4>2 DEF Reason, History
    <3> QED
      BY <1>6, <3>1, <3>2, <3>4 DEF Reason, History
  <2>2. CASE s = r
    <3>1. ArrivedAt(new, now)
      BY <1>0, <1>1, <1>2, <1>3, <1>6, <1>8, <1>N DEF ArrivedAt
    <3>2. AnsweredAt(new, now)
      BY <1>7, <1>8, <1>N DEF AnsweredAt
    <3>3. now \in Nat /\ now <= now
      BY SMTT(60) DEF IInv, Typed
    <3>4. History(new, now)
      BY <3>1, <3>2, <3>3 DEF History
    <3>7. why = "used" => \E u \in Requests : Took(req[u]) /\ req[u].keys \cap K # {}
      BY <1>7 DEF IInv, Table
    <3>5. why = "used" => \E u \in Requests : Took(req'[u]) /\ req'[u].keys \cap new.keys # {}
      BY <1>8, <1>13, <3>7
    <3>6. Reason(new)'
      BY <1>1, <1>2, <1>6, <1>7, <1>8, <1>N, <3>5 DEF Reason
    <3> QED
      BY <1>6, <1>12, <2>2, <3>4, <3>6 DEF Reason, History
  <2> QED
    BY <2>1, <2>2
<1> QED
  BY <1>10, <1>14, <1>15 DEF IInv

\* Names identify provisioners, so the ones a request found are those of its names.
LEMMA PassesIs ==
  ASSUME NEW q, NEW n, q.tok \in DOMAIN Tokens, q.provs = {p.name : p \in Found(q.op, q.tok)}
  PROVE  Passes(q, n) <=>
           \A p \in Provisioners : p.name \in q.provs => Authorize(p, Tokens[q.tok], q.op, n)
<1>1. \A p \in Provisioners : p.name \in q.provs <=> p \in Found(q.op, q.tok)
  BY FoundTyped, CollectionAssumption
<1> QED
  BY <1>1, FoundTyped DEF Passes

\* The provisioner answers a request.
LEMMA ValidateKeeps ==
  ASSUME IInv, NEW r \in Requests, Validate(r)
  PROVE  IInv'
<1>1. PICK q : q = req[r]
  OBVIOUS
<1>2. q.st = "recorded" /\ q \in RequestType /\ History(q, now)
  BY <1>1 DEF Validate, IInv, Typed
<1>3. PICK m \in Nat, n \in Nat : m <= n /\ n <= now /\ ArrivedAt(q, m)
  BY <1>2 DEF History
<1>4. now \in Nat /\ m <= now
  BY <1>3, SMTT(60) DEF IInv, Typed
<1>5. PICK ok \in BOOLEAN : ok <=> Passes(q, now)
  <2>1. Passes(q, now) \in BOOLEAN
    BY DEF Passes
  <2> QED
    BY <2>1
<1>6. PICK L \in BOOLEAN : L <=> q.live /\ Live(Tokens[q.tok], now)
  <2>1. (q.live /\ Live(Tokens[q.tok], now)) \in BOOLEAN
    OBVIOUS
  <2> QED
    BY <2>1
<1>7. PICK S, W : S = (IF ok THEN "granted" ELSE "refused") /\ W = (IF ok THEN "" ELSE "invalid")
  OBVIOUS
<1>8. PICK new : new = [q EXCEPT !.st = S, !.why = W, !.live = L]
  OBVIOUS
<1>9. /\ req' = [req EXCEPT ![r] = new]
      /\ now' = now /\ startTime' = startTime /\ sshCA' = sshCA /\ used' = used
  <2>1. ok = (\A p \in Provisioners : p.name \in q.provs => Authorize(p, Tokens[q.tok], q.op, now))
    <3>1. ok <=> (\A p \in Provisioners : p.name \in q.provs => Authorize(p, Tokens[q.tok], q.op, now))
      BY <1>3, <1>5, PassesIs DEF ArrivedAt
    <3> QED
      BY <1>5, <3>1
  <2>2. L = (q.live /\ Live(Tokens[q.tok], now))
    BY <1>6
  <2> QED
    BY <1>1, <1>7, <1>8, <2>1, <2>2 DEF Validate
<1>10. /\ new \in RequestType
       /\ new.st = S /\ new.why = W /\ new.live = L
       /\ new.op = q.op /\ new.tok = q.tok /\ new.provs = q.provs /\ new.keys = q.keys
       /\ new.early = q.early
  <2>1. /\ S \in {"none", "recorded", "granted", "refused", "lost"}
        /\ W \in {"", "not enabled", "not found", "issued before start", "used", "invalid"}
    BY <1>7
  <2>2. new \in RequestType
    BY <1>2, <1>6, <1>8, <2>1 DEF RequestType
  <2>3. new.st = S /\ new.why = W /\ new.live = L
    BY <1>2, <1>8 DEF RequestType
  <2>4. new.op = q.op /\ new.tok = q.tok
    BY <1>2, <1>8 DEF RequestType
  <2>5. new.provs = q.provs /\ new.keys = q.keys /\ new.early = q.early
    BY <1>2, <1>8 DEF RequestType
  <2> QED
    BY <2>2, <2>3, <2>4, <2>5
<1>11. Typed'
  BY <1>9, <1>10 DEF IInv, Typed
<1>12. req'[r] = new /\ \A s \in Requests : s # r => req'[s] = req[s]
  BY <1>9 DEF IInv, Typed
<1>13. Took(q) /\ Took(new)
  BY <1>2, <1>7, <1>10 DEF Took
<1>14. \A s \in Requests : (Took(req'[s]) <=> Took(req[s])) /\ req'[s].keys = req[s].keys
  BY <1>1, <1>10, <1>12, <1>13
<1>15. Table'
  BY <1>9, <1>14, TableStays DEF IInv
<1>16. History(new, now)
  <2>1. ArrivedAt(new, m)
    BY <1>3, <1>6, <1>10 DEF ArrivedAt
  <2>2. Passes(new, now) <=> Passes(q, now)
    BY <1>10 DEF Passes
  <2>3. AnsweredAt(new, now)
    BY <1>5, <1>6, <1>7, <1>10, <2>2 DEF AnsweredAt
  <2>4. now <= now
    BY <1>4, SMTT(60)
  <2> QED
    BY <1>4, <2>1, <2>3, <2>4 DEF History
<1>17. Reason(new)'
  BY <1>7, <1>10 DEF Reason
<1>18. ASSUME NEW s \in Requests
       PROVE  (History(req[s], now) /\ Reason(req[s]))'
  <2>1. CASE s # r
    <3>1. req'[s] = req[s] /\ History(req[s], now) /\ Reason(req[s])
      BY <1>12, <2>1 DEF IInv
    <3>2. PICK o : o = req[s]
      OBVIOUS
    <3>3. CASE o.st = "refused"
      <4>1. o.tok \in DOMAIN Tokens
        BY <3>1, <3>2, <3>3 DEF History, ArrivedAt
      <4>2. startTime \in Nat /\ startTime' = startTime
        BY <1>9 DEF IInv, Typed
      <4>3. startTime \in Nat /\ startTime' \in Nat /\ startTime <= startTime'
        BY <4>2, SMTT(60)
      <4>4. Reason(o)'
        BY <1>9, <1>14, <3>1, <3>2, <4>1, <4>3, ReasonStays
      <4> QED
        BY <1>9, <3>1, <3>2, <4>4 DEF Reason, History
    <3> QED
      BY <1>9, <3>1, <3>2, <3>3 DEF Reason, History
  <2>2. CASE s = r
    BY <1>9, <1>12, <1>16, <1>17, <2>2 DEF Reason, History
  <2> QED
    BY <2>1, <2>2
<1> QED
  BY <1>11, <1>15, <1>18 DEF IInv

\* The CA starts again: the requests that wait for their answer are lost, their
\* tokens stay recorded.
LEMMA RestartKeeps ==
  ASSUME IInv, Restart
  PROVE  IInv'
<1>1. /\ startTime' = now /\ now' = now /\ sshCA' = sshCA /\ used' = used
      /\ req' = [r \in Requests |-> IF req[r].st = "recorded" THEN [req[r] EXCEPT !.st = "lost"] ELSE req[r]]
  BY DEF Restart
<1>2. now \in Nat /\ startTime \in Nat /\ startTime <= startTime' /\ startTime' <= now'
  BY <1>1, SMTT(60) DEF IInv, Typed
<1>3. ASSUME NEW r \in Requests
      PROVE  \/ req'[r] = req[r]
             \/ /\ req[r].st = "recorded" /\ req'[r].st = "lost" /\ req'[r] \in RequestType
                /\ req'[r].op = req[r].op /\ req'[r].tok = req[r].tok /\ req'[r].provs = req[r].provs
                /\ req'[r].keys = req[r].keys /\ req'[r].live = req[r].live /\ req'[r].early = req[r].early
  <2>1. PICK q \in RequestType : q = req[r]
    BY DEF IInv, Typed
  <2>2. PICK new : new = [q EXCEPT !.st = "lost"]
    OBVIOUS
  <2>3. /\ new \in RequestType /\ new.st = "lost" /\ new.op = q.op /\ new.tok = q.tok
        /\ new.provs = q.provs /\ new.keys = q.keys /\ new.live = q.live /\ new.early = q.early
    BY <2>1, <2>2 DEF RequestType
  <2>4. req'[r] = IF q.st = "recorded" THEN new ELSE q
    BY <1>1, <1>3, <2>1, <2>2
  <2> QED
    BY <2>1, <2>3, <2>4
<1>4. Typed'
  <2>1. req' \in [Requests -> RequestType]
    BY <1>1, <1>3 DEF IInv, Typed
  <2> QED
    BY <1>1, <1>2, <2>1 DEF IInv, Typed
<1>5. \A s \in Requests : (Took(req'[s]) <=> Took(req[s])) /\ req'[s].keys = req[s].keys
  BY <1>3 DEF Took
<1>6. Table'
  BY <1>1, <1>5, TableStays DEF IInv
<1>7. ASSUME NEW s \in Requests
      PROVE  (History(req[s], now) /\ Reason(req[s]))'
  <2>1. PICK o, e : o = req[s] /\ e = req'[s]
    OBVIOUS
  <2>2. History(o, now) /\ Reason(o)
    BY <2>1 DEF IInv
  <2>3. CASE e = o
    <3>1. CASE o.st = "refused"
      <4>1. o.tok \in DOMAIN Tokens
        BY <2>2, <3>1 DEF History, ArrivedAt
      <4>2. startTime' \in Nat
        BY <1>1, <1>2
      <4>3. Reason(o)'
        BY <1>1, <1>2, <1>5, <2>2, <4>1, <4>2, ReasonStays
      <4> QED
        BY <1>1, <2>1, <2>2, <2>3, <4>3 DEF Reason, History
    <3> QED
      BY <1>1, <2>1, <2>2, <2>3, <3>1 DEF Reason, History
  <2>4. CASE e # o
    <3>1. /\ o.st = "recorded" /\ e.st = "lost" /\ e.op = o.op /\ e.tok = o.tok /\ e.provs = o.provs
          /\ e.keys = o.keys /\ e.live = o.live /\ e.early = o.early
      BY <1>3, <2>1, <2>4
    <3>2. \A m : ArrivedAt(o, m) => ArrivedAt(e, m)
      BY <3>1 DEF ArrivedAt
    <3>3. History(e, now)
      BY <2>2, <3>1, <3>2 DEF History, AnsweredAt
    <3> QED
      BY <1>1, <2>1, <3>1, <3>3 DEF Reason, History
  <2> QED
    BY <2>3, <2>4
<1> QED
  BY <1>4, <1>6, <1>7 DEF IInv

\* Time passes.
LEMMA TickKeeps ==
  ASSUME IInv, Tick
  PROVE  IInv'
<1>1. UNCHANGED << startTime, sshCA, used, req >> /\ now' = now + 1
  BY DEF Tick
<1>2. /\ now \in Nat /\ now' \in Nat /\ now <= now' /\ startTime \in Nat /\ startTime <= now'
  BY <1>1, SMTT(60) DEF IInv, Typed
<1>3. Typed' /\ Table'
  BY <1>1, <1>2 DEF IInv, Typed, Table
<1>4. ASSUME NEW s \in Requests
      PROVE  (History(req[s], now) /\ Reason(req[s]))'
  <2>1. History(req[s], now')
    BY <1>2, HistoryStays DEF IInv
  <2> QED
    BY <1>1, <2>1 DEF IInv, Reason, History
<1> QED
  BY <1>3, <1>4 DEF IInv

\* The invariant is inductive.
LEMMA NextKeeps ==
  ASSUME IInv, [Next]_vars
  PROVE  IInv'
<1>1. CASE UNCHANGED vars
  BY <1>1 DEF vars, IInv, Typed, Table, History, Reason
<1> QED
  BY <1>1, ArriveKeeps, ValidateKeeps, RestartKeeps, TickKeeps DEF Next

-----------------------------------------------------------------------------
\* An identifier belongs to one provisioner.
LEMMA LoadOwn ==
  ASSUME NEW p \in Provisioners
  PROVE  LoadByTokenID(GetIDForToken(p)) = {p}
BY CollectionAssumption DEF LoadByTokenID

\* The audience of a token that is not for a renewal, by the type of its provisioner.
LEMMA AudienceOf ==
  ASSUME NEW t, NEW p, p = t.prov, t.op # "Renew"
  PROVE  /\ p.type = "JWK" => TokenAudience(t) = Audience(t.op, NoFragment)
         /\ p.type \in {"X5C", "SSHPOP", "Nebula", "ACME", "SCEP"} => TokenAudience(t) = Audience(t.op, GetIDForToken(p))
         /\ p.type \in {"AWS", "GCP"} => TokenAudience(t) = Audience("Sign", GetIDForToken(p))
         /\ p.type = "OIDC" => TokenAudience(t) = Other(p.client)
         /\ p.type = "Azure" => TokenAudience(t) = Other(p.aud)
         /\ p.type = "K8sSA" => TokenAudience(t) = Other("")
<1>1. PICK A, B, C, D, E, F :
        /\ A = Audience(t.op, NoFragment) /\ B = Audience(t.op, GetIDForToken(p))
        /\ C = Audience("Sign", GetIDForToken(p)) /\ D = Other(p.client) /\ E = Other(p.aud) /\ F = Other("")
  OBVIOUS
<1> QED
  BY <1>1 DEF TokenAudience, ProtocolTypes

(* The parts of the audience of an operation.                               *)
LEMMA AudienceFields ==
  ASSUME NEW aud, NEW o, NEW i, aud = Audience(o, i)
  PROVE  aud.op = o /\ aud.id = i
BY DEF Audience

(* The parts of an audience that is not one of the CA.                      *)
LEMMA OtherFields ==
  ASSUME NEW aud, NEW i
  PROVE  aud = Other(i) => aud.op = "" /\ aud.id = <<"", i>>
<1>1. ASSUME NEW x, aud = [op |-> "", id |-> x]
      PROVE  aud.op = "" /\ aud.id = x
  BY <1>1
<1> QED
  BY <1>1 DEF Other

(* The operations tokens are issued for, per type of provisioner.           *)
LEMMA IssuedOps ==
  ASSUME NEW tok \in DOMAIN Tokens, NEW t, t = Tokens[tok]
  PROVE  /\ t.prov \in Provisioners /\ t.prov.type \in Types
         /\ t.op \in Ops /\ t.op # ""
         /\ t.prov.type \in CloudTypes \cup {"OIDC", "K8sSA"} => t.op \in {"Sign", "Renew"}
         /\ t.prov.type \in {"JWK", "Nebula"} => t.op \in {"Renew", "Sign", "Revoke", "SSHSign", "SSHRevoke"}
         /\ t.prov.type = "X5C" => t.op \in {"Renew", "Sign", "Revoke", "SSHSign"}
         /\ t.prov.type = "SSHPOP" => t.op \in {"Renew", "SSHRevoke", "SSHRenew", "SSHRekey"}
         /\ t.prov.type \in ProtocolTypes => t.op \in {"Renew", "Sign", "Revoke"}
<1>1. t.prov \in Provisioners /\ t.op \in IssuedFor(t.prov.type)
  BY TokensAssumption
<1>2. t.prov.type \in Types
  BY <1>1, CollectionAssumption
<1> QED
  BY <1>1, <1>2 DEF IssuedFor, Types, Ops, CloudTypes, ProtocolTypes

\* The identifier of a provisioner, by its type.
LEMMA Identifier ==
  ASSUME NEW p
  PROVE  /\ p.type = "JWK" => GetIDForToken(p) = <<p.name, p.kid>>
         /\ p.type = "OIDC" => GetIDForToken(p) = <<"", p.client>>
         /\ p.type = "Azure" => GetIDForToken(p) = <<"", p.tenant>>
         /\ p.type = "K8sSA" => GetIDForToken(p) = <<"k8ssa", "k8sSA-default">>
         /\ p.type \in {"X5C", "SSHPOP", "Nebula", "AWS", "GCP", "ACME", "SCEP"} =>
              GetIDForToken(p) = <<p.type, p.name>> /\ GetIDForToken(p) # NoFragment
BY DEF GetIDForToken, NoFragment

\* A token finds its own provisioner, except an OIDC token that is taken for one of
\* the provisioner registered under its tenant.
LEMMA FoundOwn ==
  ASSUME NEW op, NEW tok \in DOMAIN Tokens, NEW t, t = Tokens[tok], op = "Renew" <=> t.op = "Renew"
  PROVE  \/ Found(op, tok) = {t.prov}
         \/ /\ op # "Renew" /\ Shadowed(t)
            /\ \E q \in Provisioners :
                 q # t.prov /\ Found(op, tok) = {q} /\ GetIDForToken(q) = <<"", t.tid>>
<1>1. CASE op = "Renew"
  BY <1>1 DEF Found
<1>2. CASE op # "Renew"
  <2>1. Found(op, tok) = LoadByToken(t)
    BY <1>2 DEF Found, Loaded
  <2>2. PICK p \in Provisioners : p = t.prov /\ p.type \in Types
    BY IssuedOps
  <2>3. t.op # "Renew" /\ t.op # "" /\ t.op \in Ops
    BY <1>2, IssuedOps
  <2>4. LoadByTokenID(GetIDForToken(p)) = {p}
    BY LoadOwn
  <2>5. CASE p.type = "JWK"
    <3>0. TokenAudience(t) = Audience(t.op, NoFragment)
      BY <2>2, <2>3, <2>5, AudienceOf
    <3>1. TokenAudience(t).op = t.op /\ TokenAudience(t).id = NoFragment
      BY <3>0, AudienceFields
    <3>2. Issuer(p) = p.name
      BY <2>5 DEF Issuer, JwkTypes
    <3>3. LoadByToken(t) = LoadByTokenID(<<p.name, p.kid>>)
      BY <2>2, <2>3, <3>1, <3>2 DEF LoadByToken
    <3> QED
      BY <2>1, <2>2, <2>4, <2>5, <3>3, Identifier
  <2>6. CASE p.type \in {"X5C", "SSHPOP", "Nebula", "AWS", "GCP", "ACME", "SCEP"}
    <3>0. PICK o \in Ops : TokenAudience(t) = Audience(o, GetIDForToken(p)) /\ o # ""
      <4>1. "Sign" \in Ops
        BY DEF Ops
      <4> QED
        BY <2>2, <2>3, <2>6, <4>1, AudienceOf
    <3>4. TokenAudience(t).op = o /\ TokenAudience(t).id = GetIDForToken(p)
      BY <3>0, AudienceFields
    <3>1. TokenAudience(t).op # "" /\ TokenAudience(t).id = GetIDForToken(p)
      BY <3>0, <3>4
    <3>2. GetIDForToken(p) # NoFragment
      BY <2>6, Identifier
    <3>3. LoadByToken(t) = LoadByTokenID(GetIDForToken(p))
      BY <3>1, <3>2 DEF LoadByToken
    <3> QED
      BY <2>1, <2>2, <2>4, <3>3
  <2>7. CASE p.type = "K8sSA"
    <3>0. TokenAudience(t) = Other("")
      BY <2>2, <2>3, <2>7, AudienceOf
    <3>1. TokenAudience(t).op = ""
      BY <3>0, OtherFields
    <3>2. Issuer(p) = "kubernetes/serviceaccount"
      BY <2>7 DEF Issuer, JwkTypes
    <3>3. LoadByToken(t) = LoadByTokenID(<<"k8ssa", "k8sSA-default">>)
      BY <2>2, <3>1, <3>2 DEF LoadByToken
    <3> QED
      BY <2>1, <2>2, <2>4, <2>7, <3>3, Identifier
  <2>8. CASE p.type \in {"OIDC", "Azure"}
    <3>1. PICK a : TokenAudience(t).op = "" /\ TokenAudience(t).id = a
                   /\ (p.type = "OIDC" => a = GetIDForToken(p))
      <4>1. /\ p.type = "OIDC" => TokenAudience(t) = Other(p.client) /\ GetIDForToken(p) = <<"", p.client>>
            /\ p.type = "Azure" => TokenAudience(t) = Other(p.aud)
        BY <2>2, <2>3, <2>8, AudienceOf, Identifier
      <4>2. CASE p.type = "OIDC"
        <5>1. TokenAudience(t).op = "" /\ TokenAudience(t).id = <<"", p.client>>
          BY <4>1, <4>2, OtherFields
        <5> QED
          BY <4>1, <4>2, <5>1
      <4>3. CASE p.type = "Azure"
        <5>1. TokenAudience(t).op = ""
          BY <4>1, <4>3, OtherFields
        <5> QED
          BY <4>3, <5>1
      <4> QED
        BY <2>8, <4>2, <4>3
    <3>2. Issuer(p) # "kubernetes/serviceaccount"
      <4>1. Issuer(p) = p.keys
        BY <2>8 DEF Issuer, JwkTypes
      <4> QED
        BY <2>2, <2>8, <4>1, CollectionAssumption
    <3>3. PICK byAud, byAzp, byTenant, byTid :
            /\ byAud = LoadByTokenID(a)
            /\ byAzp = IF t.azp THEN LoadByTokenID(<<"", p.client>>) ELSE {}
            /\ byTenant = LoadByTokenID(<<"", t.tid>>)
            /\ byTid = IF t.tid = "" THEN {} ELSE First(IF t.email THEN byAud ELSE {}, byTenant)
      OBVIOUS
    <3>4. LoadByToken(t) = First(byAzp, First(byTid, byAud))
      BY <2>2, <3>1, <3>2, <3>3 DEF LoadByToken
    <3>5. CASE p.type = "Azure"
      <4>1. t.tid = p.tenant /\ ~ t.azp /\ ~ t.email /\ p.tenant # ""
        BY <2>2, <2>3, <3>5, TokensAssumption, CollectionAssumption
      <4>2. byTenant = {p}
        BY <2>4, <3>3, <3>5, <4>1, Identifier
      <4> QED
        BY <2>1, <2>2, <3>3, <3>4, <4>1, <4>2 DEF First
    <3>6. CASE p.type = "OIDC"
      <4>1. byAud = {p} /\ (t.azp => byAzp = {p}) /\ (~ t.azp => byAzp = {})
        BY <2>4, <3>1, <3>3, <3>6, Identifier
      <4>2. CASE LoadByToken(t) = {p}
        BY <2>1, <2>2, <4>2
      <4>3. CASE LoadByToken(t) # {p}
        <5>1. /\ ~ t.azp /\ ~ t.email /\ t.tid # ""
              /\ LoadByToken(t) = byTenant /\ byTenant # {}
          BY <3>3, <3>4, <4>1, <4>3 DEF First
        <5>2. PICK q \in Provisioners : q \in byTenant /\ GetIDForToken(q) = <<"", t.tid>>
          BY <3>3, <5>1 DEF LoadByTokenID
        <5>3. byTenant = {q}
          BY <3>3, <5>2, LoadOwn
        <5>4. q # p
          BY <4>3, <5>1, <5>3
        <5>5. Shadowed(t)
          BY <2>2, <3>6, <5>1, <5>2, <5>4 DEF Shadowed
        <5> QED
          BY <1>2, <2>1, <2>2, <5>1, <5>2, <5>3, <5>4, <5>5
      <4> QED
        BY <4>2, <4>3
    <3> QED
      BY <2>8, <3>5, <3>6
  <2> QED
    BY <2>2, <2>5, <2>6, <2>7, <2>8 DEF Types
<1> QED
  BY <1>1, <1>2

\* What a provisioner that authorizes an operation has checked.
LEMMA Checked ==
  ASSUME NEW p \in Provisioners, NEW t, NEW op \in Ops, op # "Renew", NEW n, Authorize(p, t, op, n)
  PROVE  /\ p.type \in JwkTypes => TokenAudience(t) = Audiences(p, op)
         /\ p.type = "OIDC" => TokenAudience(t) = Other(p.client)
         /\ p.type = "Azure" => TokenAudience(t) = Other(p.aud)
         /\ p.type = "AWS" => AwsAuthorizeToken(p, t, n)
<1>1. CASE p.type = "JWK"
  BY <1>1 DEF Authorize, JwkTypes, JwkAuthorizeToken
<1>2. CASE p.type = "X5C"
  BY <1>2 DEF Authorize, JwkTypes, X5cAuthorizeToken
<1>3. CASE p.type = "Nebula"
  BY <1>3 DEF Authorize, JwkTypes, NebulaAuthorizeToken
<1>4. CASE p.type = "SSHPOP"
  BY <1>4 DEF Authorize, JwkTypes, SshpopAuthorizeToken
<1>5. CASE p.type = "OIDC"
  BY <1>5 DEF Authorize, JwkTypes, OidcAuthorizeToken
<1>6. CASE p.type = "Azure"
  BY <1>6 DEF Authorize, JwkTypes, AzureAuthorizeToken
<1>7. CASE p.type = "AWS"
  BY <1>7 DEF Authorize, JwkTypes
<1> QED
  BY <1>1, <1>2, <1>3, <1>4, <1>5, <1>6, <1>7 DEF JwkTypes

(* LoadByToken finds the provisioner that issued the token, or the OIDC     *)
(* provisioner that shadows it.                                             *)
LEMMA FoundBy ==
  ASSUME NEW q, NEW m, ArrivedAt(q, m), NEW t, t = Tokens[q.tok]
  PROVE  \/ Found(q.op, q.tok) = {t.prov}
         \/ /\ q.op # "Renew" /\ Shadowed(t)
            /\ \E o \in Provisioners :
                 o # t.prov /\ Found(q.op, q.tok) = {o} /\ GetIDForToken(o) = <<"", t.tid>>
<1>1. PICK op, tok : op = q.op /\ tok = q.tok
  OBVIOUS
<1>2. tok \in DOMAIN Tokens /\ t = Tokens[tok] /\ (op = "Renew" <=> t.op = "Renew")
  BY <1>1 DEF ArrivedAt
<1>3. \/ Found(op, tok) = {t.prov}
      \/ /\ op # "Renew" /\ Shadowed(t)
         /\ \E o \in Provisioners :
              o # t.prov /\ Found(op, tok) = {o} /\ GetIDForToken(o) = <<"", t.tid>>
  BY <1>2, FoundOwn
<1> QED
  BY <1>1, <1>3

\* A token that is granted was granted by the provisioner it was issued for: one that
\* took it for its own would have found another audience.
LEMMA GrantedByOwn ==
  ASSUME DistinctAudiences, NEW q, NEW m, NEW n, ArrivedAt(q, m), Passes(q, n)
  PROVE  Found(q.op, q.tok) = {Tokens[q.tok].prov}
<1>1. PICK t, p : t = Tokens[q.tok] /\ p = t.prov
  OBVIOUS
<1>2. /\ q.tok \in DOMAIN Tokens /\ q.op \in Ops /\ (q.op = "Renew" <=> t.op = "Renew")
      /\ p \in Provisioners
  BY <1>1, IssuedOps DEF ArrivedAt
<1>3. ASSUME q.op # "Renew", Shadowed(t), NEW o \in Provisioners, o # p, Found(q.op, q.tok) = {o},
             GetIDForToken(o) = <<"", t.tid>>
      PROVE  FALSE
  <2>1. Authorize(o, t, q.op, n)
    BY <1>1, <1>3 DEF Passes
  <2>2. p.type = "OIDC" /\ t.op # "Renew" /\ q.op # ""
    BY <1>1, <1>2, <1>3 DEF Shadowed, Ops
  <2>3. TokenAudience(t) = Other(p.client)
    BY <1>1, <2>2, AudienceOf
  <2>4. TokenAudience(t).op = "" /\ TokenAudience(t).id = <<"", p.client>>
    BY <2>3, OtherFields
  <2>5. /\ o.type \in JwkTypes => TokenAudience(t) = Audiences(o, q.op)
        /\ o.type = "OIDC" => TokenAudience(t) = Other(o.client)
        /\ o.type = "Azure" => TokenAudience(t) = Other(o.aud)
    BY <1>2, <1>3, <2>1, Checked
  <2>6. o.type \notin {"X5C", "SSHPOP", "Nebula", "AWS", "GCP", "ACME", "SCEP"} /\ o.type # "K8sSA"
    <3>1. \A a, b, c, d : << a, b >> = << c, d >> => a = c
      OBVIOUS
    <3>2. /\ o.type \in {"X5C", "SSHPOP", "Nebula", "AWS", "GCP", "ACME", "SCEP"} => GetIDForToken(o) = << o.type, o.name >>
          /\ o.type = "K8sSA" => GetIDForToken(o) = << "k8ssa", "k8sSA-default" >>
      BY Identifier
    <3>3. CASE o.type \in {"X5C", "SSHPOP", "Nebula", "AWS", "GCP", "ACME", "SCEP"}
      <4>1. << o.type, o.name >> = << "", t.tid >>
        BY <1>3, <3>2, <3>3
      <4>2. o.type = ""
        BY <3>1, <4>1
      <4> QED
        BY <3>3, <4>2
    <3>4. CASE o.type = "K8sSA"
      <4>1. << "k8ssa", "k8sSA-default" >> = << "", t.tid >>
        BY <1>3, <3>2, <3>4
      <4>2. "k8ssa" = ""
        BY <3>1, <4>1
      <4> QED
        BY <4>2
    <3> QED
      BY <3>3, <3>4
  <2>7. CASE o.type = "JWK"
    <3>1. TokenAudience(t) = Audience(q.op, NoFragment)
      BY <2>5, <2>7 DEF Audiences, JwkTypes, FragmentTypes
    <3>2. TokenAudience(t).op = q.op
      BY <3>1, AudienceFields
    <3> QED
      BY <2>2, <2>4, <3>2
  <2>8. CASE o.type = "OIDC"
    <3>1. TokenAudience(t).id = <<"", o.client>>
      BY <2>5, <2>8, OtherFields
    <3>2. GetIDForToken(o) = GetIDForToken(p)
      BY <2>2, <2>4, <2>8, <3>1, Identifier
    <3> QED
      BY <1>2, <1>3, <3>2, CollectionAssumption
  <2>9. CASE o.type = "Azure"
    <3>1. TokenAudience(t).id = <<"", o.aud>>
      BY <2>5, <2>9, OtherFields
    <3>3. \A a, b, c : << a, b >> = << a, c >> => b = c
      OBVIOUS
    <3>2. o.aud = p.client
      BY <2>4, <3>1, <3>3
    <3> QED
      BY <1>2, <2>2, <2>9, <3>2 DEF DistinctAudiences
  <2>10. o.type \in Types
    BY CollectionAssumption
  <2> QED
    BY <2>6, <2>7, <2>8, <2>9, <2>10 DEF Types
<1>4. \/ Found(q.op, q.tok) = {p}
      \/ /\ q.op # "Renew" /\ Shadowed(t)
         /\ \E o \in Provisioners :
              o # p /\ Found(q.op, q.tok) = {o} /\ GetIDForToken(o) = <<"", t.tid>>
  BY <1>1, FoundBy
<1> QED
  BY <1>1, <1>3, <1>4

\* The identifiers of a token that finds its own provisioner.
LEMMA OwnIDs ==
  ASSUME NEW q, NEW m, ArrivedAt(q, m), NEW p, Found(q.op, q.tok) = {p}
  PROVE  q.keys = GetTokenID(p, Tokens[q.tok], m)
<1>1. PICK K : K = GetTokenID(p, Tokens[q.tok], m)
  OBVIOUS
<1>2. {GetTokenID(x, Tokens[q.tok], m) : x \in {p}} = {K}
  BY <1>1
<1>3. q.keys = UNION {K}
  BY <1>2 DEF ArrivedAt, IDsOf
<1>4. UNION {K} = K
  OBVIOUS
<1> QED
  BY <1>1, <1>3, <1>4

(* GetTokenID, per type of provisioner.                                     *)
LEMMA TokenIDIs ==
  ASSUME NEW p, NEW t, NEW n
  PROVE  /\ p.type \in JwkTypes => GetTokenID(p, t, n) = {Claimed(t.jti, t)}
         /\ p.type = "OIDC" => GetTokenID(p, t, n) = {Claimed(t.nonce, t)}
         /\ p.type = "AWS" => GetTokenID(p, t, n) = AwsTokenID(p, t, n)
         /\ p.type = "GCP" => GetTokenID(p, t, n) = GcpTokenID(p, t)
         /\ p.type = "Azure" => GetTokenID(p, t, n) = AzureTokenID(p, t)
         /\ p.type \in {"K8sSA", "ACME", "SCEP"} => GetTokenID(p, t, n) = {}
BY DEF GetTokenID, JwkTypes, ProtocolTypes

\* A token of AWS that is valid when it is answered was valid when it arrived, unless
\* it arrived too early.
LEMMA AwsEarlier ==
  ASSUME NEW tok \in DOMAIN Tokens, NEW t, t = Tokens[tok], NEW p \in Provisioners,
         NEW m \in Nat, NEW n \in Nat, m <= n, AwsAuthorizeToken(p, t, n), ~ (t.nbf > m + Leeway)
  PROVE  AwsAuthorizeToken(p, t, m)
<1>1. PICK iat \in Nat, nbf \in Nat, exp \in Nat, born \in Nat, limit \in Nat :
        /\ iat = t.iat /\ nbf = t.nbf /\ exp = t.exp /\ born = t.born /\ limit = p.age /\ iat <= nbf
  BY TokensAssumption, CollectionAssumption
<1>2. ValidateWithLeeway(t, n) /\ ~ TooOld(p, t, n)
  BY DEF AwsAuthorizeToken, VerifiedBy
<1>3. ValidateWithLeeway(t, m)
  BY <1>1, <1>2, SMTT(60) DEF ValidateWithLeeway, Leeway
<1>4. ~ TooOld(p, t, m)
  BY <1>1, <1>2, SMTT(60) DEF TooOld
<1> QED
  BY <1>3, <1>4 DEF AwsAuthorizeToken, VerifiedBy

\* A granted request, when it arrived (m) and when it was answered (n).
GrantedThen(q, m, n) ==
  /\ m \in Nat /\ n \in Nat /\ m <= n /\ ArrivedAt(q, m) /\ Passes(q, n)
  /\ Found(q.op, q.tok) = {Tokens[q.tok].prov}

(* The token of a granted request was recorded when the request arrived,    *)
(* and validated later for its operation.                                   *)
LEMMA GrantedFacts ==
  ASSUME DistinctAudiences, IInv, NEW r \in Requests, Granted(r)
  PROVE  Took(req[r]) /\ \E m, n \in Nat : GrantedThen(req[r], m, n)
<1>1. req[r].st = "granted" /\ History(req[r], now)
  BY DEF Granted, IInv
<1>2. PICK m \in Nat, n \in Nat : m <= n /\ ArrivedAt(req[r], m) /\ Passes(req[r], n)
  BY <1>1 DEF History, AnsweredAt
<1>3. Found(req[r].op, req[r].tok) = {Tokens[req[r].tok].prov}
  BY <1>2, GrantedByOwn
<1>4. Took(req[r])
  BY <1>1 DEF Took
<1> QED
  BY <1>2, <1>3, <1>4 DEF GrantedThen

\* What identifies a token, or its instance, to a provisioner that does so.
KeyOf(p, t) ==
  CASE p.type \in JwkTypes -> Claimed(t.jti, t)
    [] p.type = "OIDC"     -> Claimed(t.nonce, t)
    [] p.type = "Azure"    -> <<"xms_mirid", t.instance>>
    [] OTHER               -> IF p.tofu THEN <<"instance", GetIDForToken(p), t.instance>> ELSE HashOf(t)

(* The one identifier a granted request recorded for its token.             *)
LEMMA GrantedID ==
  ASSUME NEW q, NEW m, NEW n, GrantedThen(q, m, n), NEW t, t = Tokens[q.tok], NEW p, p = t.prov,
         p.type \notin {"K8sSA", "ACME", "SCEP"}, p.type = "AWS" => q.op # "Renew" /\ ~ q.early, p.type = "Azure" => p.tofu
  PROVE  q.keys = {KeyOf(p, t)}
<1>1. q.keys = GetTokenID(p, t, m)
  BY OwnIDs DEF GrantedThen
<1>2. q.tok \in DOMAIN Tokens /\ p \in Provisioners /\ p.type \in Types /\ q.op \in Ops
  BY IssuedOps DEF GrantedThen, ArrivedAt
<1>3. ASSUME p.type = "AWS"
      PROVE  AwsAuthorizeToken(p, t, m)
  <2>1. Authorize(p, t, q.op, n)
    BY DEF GrantedThen, Passes
  <2>2. AwsAuthorizeToken(p, t, n)
    BY <1>2, <1>3, <2>1, Checked
  <2>3. m \in Nat /\ n \in Nat /\ m <= n /\ ~ (t.nbf > m + Leeway)
    BY <1>3 DEF GrantedThen, ArrivedAt
  <2> QED
    BY <1>2, <2>2, <2>3, AwsEarlier
<1>4. GetTokenID(p, t, m) = {KeyOf(p, t)}
  <2>1. CASE p.type \in JwkTypes
    BY <2>1 DEF GetTokenID, KeyOf, JwkTypes, ProtocolTypes
  <2>2. CASE p.type = "OIDC"
    BY <2>2 DEF GetTokenID, KeyOf, JwkTypes, ProtocolTypes
  <2>3. CASE p.type = "AWS"
    BY <1>3, <2>3 DEF GetTokenID, KeyOf, JwkTypes, ProtocolTypes, AwsTokenID
  <2>4. CASE p.type = "GCP"
    BY <2>4 DEF GetTokenID, KeyOf, JwkTypes, ProtocolTypes, GcpTokenID
  <2>5. CASE p.type = "Azure"
    BY <2>5 DEF GetTokenID, KeyOf, JwkTypes, ProtocolTypes, AzureTokenID
  <2> QED
    BY <1>2, <2>1, <2>2, <2>3, <2>4, <2>5 DEF Types, JwkTypes
<1> QED
  BY <1>1, <1>4

\* No identifier is recorded twice, so what identifies a token, or an instance, is
\* granted once.
LEMMA MeantOf ==
  ASSUME DistinctAudiences, IInv
  PROVE  GrantedAsMeant
<1>1. GrantedAsIssued
  <2> SUFFICES ASSUME NEW r \in Requests, Granted(r)
               PROVE  /\ req[r].provs = {ProvOf(r).name}
                      /\ ProvOf(r).type \in JwkTypes => req[r].op = TokenOf(r).op
    BY DEF GrantedAsIssued
  <2>1. PICK q, t, p : q = req[r] /\ t = Tokens[q.tok] /\ p = t.prov
    OBVIOUS
  <2>2. PICK m \in Nat, n \in Nat : GrantedThen(q, m, n)
    BY <2>1, GrantedFacts
  <2>3. q.provs = {p.name}
    BY <2>1, <2>2 DEF GrantedThen, ArrivedAt
  <2>4. ASSUME p.type \in JwkTypes, q.op # "Renew"
        PROVE  q.op = t.op
    <3>1. p \in Provisioners /\ q.op \in Ops /\ t.op # "Renew"
      BY <2>1, <2>2, <2>4, IssuedOps DEF GrantedThen, ArrivedAt
    <3>2. Authorize(p, t, q.op, n)
      BY <2>1, <2>2 DEF GrantedThen, Passes
    <3>3. TokenAudience(t) = Audiences(p, q.op)
      BY <2>4, <3>1, <3>2, Checked
    <3>4. TokenAudience(t).op = q.op
      BY <3>3, AudienceFields DEF Audiences
    <3>5. \E i : TokenAudience(t) = Audience(t.op, i)
      BY <2>1, <2>4, <3>1, AudienceOf DEF JwkTypes
    <3>6. TokenAudience(t).op = t.op
      BY <3>5, AudienceFields
    <3> QED
      BY <3>4, <3>6
  <2>5. q.op = "Renew" => t.op = "Renew"
    BY <2>1, <2>2 DEF GrantedThen, ArrivedAt
  <2> QED
    BY <2>1, <2>3, <2>4, <2>5 DEF ProvOf, TokenOf
<1>2. ASSUME NEW r \in Requests, NEW s \in Requests, r # s, Granted(r), Granted(s)
      PROVE  req[r].keys \cap req[s].keys = {}
  BY <1>2, GrantedFacts DEF IInv, Table
<1>3. TokenGrantedOnce
  <2> SUFFICES ASSUME NEW r \in Requests, NEW s \in Requests, r # s, Granted(r), Granted(s),
                      req[r].tok = req[s].tok,
                      ProvOf(r).type \notin {"K8sSA"} \cup ProtocolTypes, ~ (ProvOf(r).type = "Azure" /\ ~ ProvOf(r).tofu),
                      ~ (ProvOf(r).type = "AWS" /\ (req[r].op = "Renew" \/ TooEarly(r) \/ TooEarly(s)))
               PROVE  FALSE
    BY DEF TokenGrantedOnce
  <2>1. PICK q, o, t, p : q = req[r] /\ o = req[s] /\ t = Tokens[q.tok] /\ p = t.prov
    OBVIOUS
  <2>2. PICK m \in Nat, n \in Nat : GrantedThen(q, m, n)
    BY <2>1, GrantedFacts
  <2>3. PICK k \in Nat, l \in Nat : GrantedThen(o, k, l)
    BY <2>1, GrantedFacts
  <2>4. t = Tokens[o.tok] /\ ProvOf(r) = p /\ ProvOf(s) = p
    BY <2>1 DEF ProvOf, TokenOf
  <2>5. /\ p.type \notin {"K8sSA", "ACME", "SCEP"} /\ (p.type = "Azure" => p.tofu)
        /\ p.type = "AWS" => q.op # "Renew" /\ o.op # "Renew" /\ ~ q.early /\ ~ o.early
    BY <2>1, <2>2, <2>3, <2>4 DEF TooEarly, GrantedThen, ArrivedAt, ProtocolTypes
  <2>6. p.type \in Types
    BY <2>1, <2>2, IssuedOps DEF GrantedThen, ArrivedAt
  <2>7. q.keys = {KeyOf(p, t)} /\ o.keys = {KeyOf(p, t)}
    <3>1. q.keys = {KeyOf(p, t)}
      BY <2>1, <2>2, <2>5, GrantedID
    <3>2. o.keys = {KeyOf(p, t)}
      BY <2>1, <2>3, <2>4, <2>5, GrantedID
    <3> QED
      BY <3>1, <3>2
  <2> QED
    BY <1>2, <2>1, <2>7
<1>4. OnePerInstance
  <2> SUFFICES ASSUME NEW r \in Requests, NEW s \in Requests, r # s, Enrolled(r), Enrolled(s),
                      ProvOf(r).name = ProvOf(s).name, TokenOf(r).instance = TokenOf(s).instance,
                      ProvOf(r).type \in CloudTypes, ProvOf(r).tofu, ~ TooEarly(r), ~ TooEarly(s)
               PROVE  FALSE
    BY DEF OnePerInstance
  <2>1. PICK q, o, t, u : q = req[r] /\ o = req[s] /\ t = Tokens[q.tok] /\ u = Tokens[o.tok]
    OBVIOUS
  <2>2. Granted(r) /\ Granted(s) /\ q.op # "Renew" /\ o.op # "Renew"
    BY <2>1 DEF Enrolled
  <2>3. PICK m \in Nat, n \in Nat : GrantedThen(q, m, n)
    BY <2>1, <2>2, GrantedFacts
  <2>4. PICK k \in Nat, l \in Nat : GrantedThen(o, k, l)
    BY <2>1, <2>2, GrantedFacts
  <2>5. t.prov \in Provisioners /\ u.prov \in Provisioners
    BY <2>1, <2>3, <2>4, IssuedOps DEF GrantedThen, ArrivedAt
  <2>6. PICK p \in Provisioners : p = t.prov /\ p = u.prov
    BY <2>1, <2>5, CollectionAssumption DEF ProvOf, TokenOf
  <2>7. /\ p.type \in CloudTypes /\ p.tofu /\ t.instance = u.instance
        /\ p.type = "AWS" => ~ q.early /\ ~ o.early
    BY <2>1, <2>6 DEF TooEarly, ProvOf, TokenOf
  <2>8. q.keys = {KeyOf(p, t)} /\ o.keys = {KeyOf(p, u)}
    <3>1. /\ p.type \notin {"K8sSA", "ACME", "SCEP"} /\ (p.type = "Azure" => p.tofu)
          /\ p.type = "AWS" => q.op # "Renew" /\ ~ q.early
          /\ p.type = "AWS" => o.op # "Renew" /\ ~ o.early
      BY <2>2, <2>7 DEF CloudTypes
    <3>2. q.keys = {KeyOf(p, t)}
      BY <2>1, <2>3, <2>6, <3>1, GrantedID
    <3>3. o.keys = {KeyOf(p, u)}
      BY <2>1, <2>4, <2>6, <3>1, GrantedID
    <3> QED
      BY <3>2, <3>3
  <2>9. KeyOf(p, t) = KeyOf(p, u)
    BY <2>7 DEF KeyOf, CloudTypes, JwkTypes
  <2> QED
    BY <1>2, <2>1, <2>2, <2>8, <2>9
<1> QED
  BY <1>1, <1>3, <1>4 DEF GrantedAsMeant

\* The times of a token.
LEMMA TokenTimes ==
  ASSUME NEW tok \in DOMAIN Tokens, NEW t, t = Tokens[tok]
  PROVE  t.iat \in Nat /\ t.nbf \in Nat /\ t.exp \in Nat /\ t.iat <= t.nbf
BY TokensAssumption

\* Whoever may do what a request asks is authorized by the provisioner of the token,
\* while the token is live.
LEMMA EntitledPasses ==
  ASSUME IInv, NEW r \in Requests, NEW q, q = req[r], NEW m, ArrivedAt(q, m), NEW t, t = Tokens[q.tok],
         Entitled(r), NEW n \in Nat, Live(t, n)
  PROVE  Authorize(t.prov, t, q.op, n)
<1>1. PICK p : p = t.prov
  OBVIOUS
<1>2. /\ q.tok \in DOMAIN Tokens /\ q.op \in Ops /\ (q.op = "Renew" <=> t.op = "Renew")
      /\ p \in Provisioners /\ p.type \in Types
      /\ p.type \in CloudTypes \cup {"OIDC", "K8sSA"} => t.op \in {"Sign", "Renew"}
      /\ p.type \in {"JWK", "Nebula"} => t.op \in {"Renew", "Sign", "Revoke", "SSHSign", "SSHRevoke"}
      /\ p.type = "X5C" => t.op \in {"Renew", "Sign", "Revoke", "SSHSign"}
      /\ p.type = "SSHPOP" => t.op \in {"Renew", "SSHRevoke", "SSHRenew", "SSHRekey"}
  BY <1>1, IssuedOps DEF ArrivedAt
<1>3. /\ MeantFor(t, q.op) /\ t.listed /\ t.ownSerial
      /\ q.op = "SSHSign" \/ (p.type = "Nebula" /\ q.op = "SSHRevoke") => p.ssh
      /\ q.op \in {"SSHRenew", "SSHRekey"} => t.host /\ p.renew
  BY <1>1 DEF Entitled, TokenOf
<1>4. ValidateWithLeeway(t, n) /\ ~ TooOld(p, t, n) /\ t.certAfter <= n /\ n < t.certBefore
  <2>1. PICK iat \in Nat, nbf \in Nat, exp \in Nat : iat = t.iat /\ nbf = t.nbf /\ exp = t.exp /\ iat <= nbf
    BY <1>2, TokenTimes
  <2>2. nbf <= n /\ n <= exp /\ ~ TooOld(p, t, n) /\ t.certAfter <= n /\ n < t.certBefore
    BY <1>1, <2>1 DEF Live
  <2>3. n - 1 <= exp /\ nbf <= n + 1 /\ iat <= n + 1
    BY <2>1, <2>2, SMTT(60)
  <2> QED
    BY <2>1, <2>2, <2>3 DEF ValidateWithLeeway, Leeway
<1>5. VerifiedBy(p, t, n)
  BY <1>1, <1>4 DEF VerifiedBy
<1>6. CASE q.op = "Renew"
  BY <1>4, <1>6 DEF Authorize, AuthorizeRenewToken
<1>7. CASE q.op # "Renew"
  <2>1. t.op # "Renew"
    BY <1>2, <1>7
  <2>2. p.type \in JwkTypes => q.op = t.op
    BY <1>1, <1>3 DEF MeantFor, JwkTypes, CloudTypes
  <2>3. p.type \in JwkTypes => TokenAudience(t) = Audiences(p, q.op)
    <3>2. CASE p.type = "JWK"
      BY <1>1, <2>1, <2>2, <3>2, AudienceOf DEF Audiences, JwkTypes, FragmentTypes
    <3>3. CASE p.type \in {"X5C", "SSHPOP", "Nebula"}
      <4>1. Audiences(p, q.op) = Audience(q.op, GetIDForToken(p))
        BY <3>3 DEF Audiences, FragmentTypes
      <4>2. TokenAudience(t) = Audience(t.op, GetIDForToken(p))
        BY <1>1, <2>1, <3>3, AudienceOf
      <4>3. q.op = t.op
        BY <2>2, <3>3 DEF JwkTypes
      <4> QED
        BY <4>1, <4>2, <4>3
    <3> QED
      BY <3>2, <3>3 DEF JwkTypes
  <2>4. CASE p.type = "JWK"
    BY <1>1, <1>2, <1>3, <1>5, <1>7, <2>1, <2>2, <2>3, <2>4 DEF Authorize, JwkAuthorizeToken, JwkTypes
  <2>5. CASE p.type = "Nebula"
    BY <1>1, <1>2, <1>3, <1>5, <1>7, <2>1, <2>2, <2>3, <2>5 DEF Authorize, NebulaAuthorizeToken, JwkTypes
  <2>6. CASE p.type = "X5C"
    BY <1>1, <1>2, <1>3, <1>5, <1>7, <2>1, <2>2, <2>3, <2>6 DEF Authorize, X5cAuthorizeToken, JwkTypes
  <2>7. CASE p.type = "SSHPOP"
    BY <1>1, <1>2, <1>3, <1>4, <1>5, <1>7, <2>1, <2>2, <2>3, <2>7
       DEF Authorize, SshpopAuthorizeToken, DefaultAuthorizeSSHRenew, JwkTypes
  <2>8. p.type \in CloudTypes \cup {"OIDC", "K8sSA"} => q.op \in {"Sign", "SSHSign"}
    BY <1>1, <1>2, <1>3, <2>1 DEF MeantFor
  <2>9. CASE p.type = "OIDC"
    <3>1. TokenAudience(t) = Other(p.client)
      BY <1>1, <2>1, <2>9, AudienceOf
    <3> QED
      BY <1>1, <1>3, <1>5, <1>7, <2>8, <2>9, <3>1 DEF Authorize, OidcAuthorizeToken
  <2>10. CASE p.type = "AWS"
    <3>1. TokenAudience(t) = Audiences(p, "Sign")
      BY <1>1, <2>1, <2>10, AudienceOf DEF Audiences, FragmentTypes
    <3> QED
      BY <1>1, <1>3, <1>4, <1>5, <1>7, <2>8, <2>10, <3>1 DEF Authorize, AwsAuthorizeToken, CloudTypes
  <2>11. CASE p.type = "GCP"
    <3>1. TokenAudience(t) = Audiences(p, "Sign")
      BY <1>1, <2>1, <2>11, AudienceOf DEF Audiences, FragmentTypes
    <3> QED
      BY <1>1, <1>3, <1>4, <1>5, <1>7, <2>8, <2>11, <3>1 DEF Authorize, GcpAuthorizeToken, CloudTypes
  <2>12. CASE p.type = "Azure"
    <3>1. TokenAudience(t) = Other(p.aud)
      BY <1>1, <2>1, <2>12, AudienceOf
    <3>2. t.tid = p.tenant
      BY <1>1, <1>2, <2>1, <2>12, TokensAssumption
    <3> QED
      BY <1>1, <1>3, <1>5, <1>7, <2>8, <2>12, <3>1, <3>2 DEF Authorize, AzureAuthorizeToken, CloudTypes
  <2>13. CASE p.type = "K8sSA"
    BY <1>1, <1>3, <1>7, <2>8, <2>13 DEF Authorize, K8sAuthorizeToken
  <2>14. p.type \notin ProtocolTypes
    BY <1>1, <1>3, <1>7 DEF MeantFor, CloudTypes, ProtocolTypes
  <2> QED
    BY <1>2, <2>4, <2>5, <2>6, <2>7, <2>9, <2>10, <2>11, <2>12, <2>13, <2>14 DEF Types, ProtocolTypes
<1> QED
  BY <1>6, <1>7

\* What a token can be identified by, whoever finds it.
IDOf(k, p, t) ==
  \/ k = <<"token", t.id>>
  \/ k = <<"id", t.jti>> /\ t.jti # ""
  \/ k = <<"id", t.nonce>> /\ t.nonce # ""
  \/ k = <<"instance", GetIDForToken(p), t.instance>> /\ p.type \in {"AWS", "GCP"} /\ p.tofu
  \/ k = <<"xms_mirid", t.instance>> /\ p.type = "Azure" /\ p.tofu

(* The identifier of a token with a claim: the claim, or the digest of the  *)
(* token.                                                                   *)
LEMMA ClaimedIs ==
  ASSUME NEW x, NEW t
  PROVE  Claimed(x, t) = <<"token", t.id>> \/ (Claimed(x, t) = <<"id", x>> /\ x # "")
BY DEF Claimed, HashOf

(* The identifier of an AWS token: the instance with trust on first use,    *)
(* else the digest of the token.                                            *)
LEMMA AwsIs ==
  ASSUME NEW p, NEW t, NEW m, NEW k, k \in AwsTokenID(p, t, m)
  PROVE  k = <<"token", t.id>> \/ (k = <<"instance", GetIDForToken(p), t.instance>> /\ p.tofu)
<1>1. AwsAuthorizeToken(p, t, m)
  BY DEF AwsTokenID
<1>2. k = IF p.tofu THEN <<"instance", GetIDForToken(p), t.instance>> ELSE HashOf(t)
  BY <1>1 DEF AwsTokenID
<1> QED
  BY <1>2 DEF HashOf

(* The identifier of a GCP token: the instance with trust on first use,     *)
(* else the digest of the token.                                            *)
LEMMA GcpIs ==
  ASSUME NEW p, NEW t, NEW k, k \in GcpTokenID(p, t)
  PROVE  k = <<"token", t.id>> \/ (k = <<"instance", GetIDForToken(p), t.instance>> /\ p.tofu)
<1>1. k = IF p.tofu THEN <<"instance", GetIDForToken(p), t.instance>> ELSE HashOf(t)
  BY DEF GcpTokenID
<1> QED
  BY <1>1 DEF HashOf

(* The identifier of an Azure token: its resource, with trust on first use. *)
LEMMA AzureIs ==
  ASSUME NEW p, NEW t, NEW k, k \in AzureTokenID(p, t)
  PROVE  k = <<"xms_mirid", t.instance>> /\ p.tofu
<1>1. p.tofu
  BY DEF AzureTokenID
<1> QED
  BY <1>1 DEF AzureTokenID

(* Every identifier GetTokenID returns tells which token, or which          *)
(* instance, it is of.                                                      *)
LEMMA CollisionID ==
  ASSUME NEW p \in Provisioners, NEW t, NEW m, NEW k, k \in GetTokenID(p, t, m)
  PROVE  IDOf(k, p, t)
<1>1. p.type \in Types
  BY CollectionAssumption
<1>2. CASE p.type \in JwkTypes
  <2>1. k \in {Claimed(t.jti, t)}
    <3>1. GetTokenID(p, t, m) = {Claimed(t.jti, t)}
      BY <1>2, TokenIDIs
    <3> QED
      BY <3>1
  <2> QED
    BY <2>1, ClaimedIs DEF IDOf
<1>3. CASE p.type = "OIDC"
  <2>1. k \in {Claimed(t.nonce, t)}
    <3>1. GetTokenID(p, t, m) = {Claimed(t.nonce, t)}
      BY <1>3, TokenIDIs
    <3> QED
      BY <3>1
  <2> QED
    BY <2>1, ClaimedIs DEF IDOf
<1>4. CASE p.type = "AWS"
  <2>1. k \in AwsTokenID(p, t, m)
    BY <1>4, TokenIDIs
  <2> QED
    BY <1>4, <2>1, AwsIs DEF IDOf
<1>5. CASE p.type = "GCP"
  <2>1. k \in GcpTokenID(p, t)
    BY <1>5, TokenIDIs
  <2> QED
    BY <1>5, <2>1, GcpIs DEF IDOf
<1>6. CASE p.type = "Azure"
  <2>1. k \in AzureTokenID(p, t)
    BY <1>6, TokenIDIs
  <2> QED
    BY <1>6, <2>1, AzureIs DEF IDOf
<1>7. CASE p.type \in {"K8sSA", "ACME", "SCEP"}
  BY <1>7, TokenIDIs
<1> QED
  BY <1>1, <1>2, <1>3, <1>4, <1>5, <1>6, <1>7 DEF Types, JwkTypes

\* Requests with a common identifier: one token, or one instance trusted on first use.
Shares(q, t, o, u) ==
  \/ q.tok = o.tok
  \/ /\ t.prov.type \in {"AWS", "GCP"} /\ t.prov.tofu /\ t.prov.name = u.prov.name
     /\ t.instance = u.instance
  \/ /\ t.prov.type = "Azure" /\ t.prov.tofu
     /\ (u.prov.type = "Azure" /\ u.prov.tofu) \/ Shadowed(u)
     /\ t.instance = u.instance

\* Two requests compute a common identifier only for one token, or for one instance
\* that both provisioners trust on first use.
LEMMA Collision ==
  ASSUME DistinctClaims,
         NEW q, NEW m, ArrivedAt(q, m), NEW t, t = Tokens[q.tok], Found(q.op, q.tok) = {t.prov},
         NEW o, NEW l, ArrivedAt(o, l), NEW u, u = Tokens[o.tok],
         NEW k, k \in q.keys, k \in o.keys
  PROVE  Shares(q, t, o, u)
<1>1. /\ q.tok \in DOMAIN Tokens /\ o.tok \in DOMAIN Tokens
      /\ t.prov \in Provisioners /\ u.prov \in Provisioners /\ t.id = q.tok /\ u.id = o.tok
  BY TokensAssumption DEF ArrivedAt
<1>2. k \in GetTokenID(t.prov, t, m)
  BY OwnIDs
<1>3. PICK p \in Provisioners :
        /\ k \in GetTokenID(p, u, l)
        /\ p = u.prov \/ (Shadowed(u) /\ GetIDForToken(p) = <<"", u.tid>>)
  <2>1. \/ Found(o.op, o.tok) = {u.prov}
        \/ /\ Shadowed(u)
           /\ \E x \in Provisioners : Found(o.op, o.tok) = {x} /\ GetIDForToken(x) = <<"", u.tid>>
    BY FoundBy
  <2>2. \A x : Found(o.op, o.tok) = {x} => k \in GetTokenID(x, u, l)
    BY OwnIDs
  <2> QED
    BY <1>1, <2>1, <2>2
<1>4. \A a, b, c, d : << a, b >> = << c, d >> => a = c /\ b = d
  OBVIOUS
<1>5. \A a, b, c, d, e, f : << a, b, c >> = << d, e, f >> => a = d /\ b = e /\ c = f
  OBVIOUS
<1>6. \A a, b, c, d, e : << a, b >> # << c, d, e >>
  OBVIOUS
<1>7. IDOf(k, t.prov, t)
  BY <1>1, <1>2, CollisionID
<1>8. IDOf(k, p, u)
  BY <1>3, CollisionID
<1>9. CASE k = <<"token", t.id>>
  <2>1. k = <<"token", u.id>>
    BY <1>4, <1>6, <1>8, <1>9 DEF IDOf
  <2>2. t.id = u.id
    <3>1. <<"token", t.id>> = <<"token", u.id>>
      BY <1>9, <2>1
    <3> QED
      BY <3>1, SMTT(60)
  <2> QED
    BY <1>1, <2>2 DEF Shares
<1>10. ASSUME NEW x, x \in {t.jti, t.nonce}, x # "", k = <<"id", x>>
       PROVE  q.tok = o.tok
  <2>1. x \in {u.jti, u.nonce}
    BY <1>4, <1>6, <1>8, <1>10 DEF IDOf
  <2>2. x \in {t.jti, t.nonce} \cap {u.jti, u.nonce} /\ x \notin {""}
    BY <1>10, <2>1
  <2>3. q.tok # o.tok => {t.jti, t.nonce} \cap {u.jti, u.nonce} = {""}
    BY <1>1, <2>2 DEF DistinctClaims
  <2> QED
    BY <2>2, <2>3
<1>11. CASE /\ k = <<"instance", GetIDForToken(t.prov), t.instance>>
            /\ t.prov.type \in {"AWS", "GCP"} /\ t.prov.tofu
  <2>1. k = <<"instance", GetIDForToken(p), u.instance>> /\ p.type \in {"AWS", "GCP"}
    BY <1>6, <1>8, <1>11 DEF IDOf
  <2>2. GetIDForToken(p) = GetIDForToken(t.prov) /\ t.instance = u.instance
    <3>1. <<"instance", GetIDForToken(t.prov), t.instance>> = <<"instance", GetIDForToken(p), u.instance>>
      BY <1>11, <2>1
    <3> QED
      BY <1>5, <3>1, SMTT(60)
  <2>3. GetIDForToken(p) = << p.type, p.name >>
    BY <2>1, Identifier
  <2>4. GetIDForToken(p) # <<"", u.tid>>
    <3>1. p.type # ""
      BY <2>1
    <3> QED
      BY <1>4, <2>3, <3>1
  <2>5. u.prov = t.prov
    BY <1>1, <1>3, <2>2, <2>4, CollectionAssumption
  <2> QED
    BY <1>11, <2>2, <2>5 DEF Shares
<1>12. CASE k = <<"xms_mirid", t.instance>> /\ t.prov.type = "Azure" /\ t.prov.tofu
  <2>1. k = <<"xms_mirid", u.instance>> /\ p.type = "Azure" /\ p.tofu
    BY <1>4, <1>6, <1>8, <1>12 DEF IDOf
  <2>2. t.instance = u.instance
    <3>1. <<"xms_mirid", t.instance>> = <<"xms_mirid", u.instance>>
      BY <1>12, <2>1
    <3> QED
      BY <3>1, SMTT(60)
  <2> QED
    BY <1>3, <1>12, <2>1, <2>2 DEF Shares
<1> QED
  BY <1>7, <1>9, <1>10, <1>11, <1>12 DEF IDOf, Shares

\* Nothing else refuses whoever is entitled.
LEMMA EntitledOf ==
  ASSUME DistinctClaims, IInv
  PROVE  EntitledGranted
<1> SUFFICES ASSUME NEW r \in Requests, req[r].st = "refused", Entitled(r), ~ Shadowed(TokenOf(r))
             PROVE  \/ req[r].why = "issued before start" /\ TokenOf(r).iat < startTime
                    \/ req[r].why = "used" /\ \E s \in Requests \ {r} : SameUse(r, s)
  BY DEF EntitledGranted
<1>1. PICK q, t : q = req[r] /\ t = Tokens[q.tok]
  OBVIOUS
<1>2. PICK m \in Nat, n \in Nat : ArrivedAt(q, m) /\ AnsweredAt(q, n)
  BY <1>1 DEF IInv, History
<1>3. Found(q.op, q.tok) = {t.prov}
  BY <1>1, <1>2, FoundBy DEF TokenOf
<1>4. q.why # "invalid"
  <2> SUFFICES ASSUME q.why = "invalid"
               PROVE  FALSE
    OBVIOUS
  <2>1. ~ Passes(q, n) /\ Live(t, n)
    BY <1>1, <1>2 DEF AnsweredAt, Entitled
  <2>2. Authorize(t.prov, t, q.op, n)
    BY <1>1, <1>2, <2>1, EntitledPasses
  <2> QED
    BY <1>1, <1>3, <2>1, <2>2 DEF Passes
<1>5. ~ (q.op \in {"SSHSign", "SSHRenew", "SSHRekey"} /\ ~ sshCA)
  BY <1>1 DEF Entitled
<1>6. \/ q.why = "issued before start" /\ t.iat < startTime
      \/ q.why = "used" /\ \E s \in Requests : Took(req[s]) /\ req[s].keys \cap q.keys # {}
  BY <1>1, <1>3, <1>4, <1>5 DEF IInv, Reason
<1>7. ASSUME q.why = "used", NEW s \in Requests, Took(req[s]), req[s].keys \cap q.keys # {}
      PROVE  s # r /\ SameUse(r, s)
  <2>1. s # r
    BY <1>1, <1>7 DEF Took
  <2>2. PICK o, u : o = req[s] /\ u = Tokens[o.tok]
    OBVIOUS
  <2>3. o.st # "none"
    BY <1>7, <2>2 DEF Took
  <2>4. PICK l \in Nat : ArrivedAt(o, l)
    BY <2>2, <2>3 DEF IInv, History
  <2>5. PICK k : k \in q.keys /\ k \in o.keys
    BY <1>7, <2>2
  <2>6. Shares(q, t, o, u)
    BY <1>1, <1>2, <1>3, <2>2, <2>4, <2>5, Collision
  <2> QED
    BY <1>1, <2>1, <2>2, <2>3, <2>6 DEF Shares, SameUse, ProvOf, TokenOf
<1> QED
  BY <1>1, <1>6, <1>7 DEF TokenOf

\* The tokens in use, as the two results below need them.
THEOREM TokensInvariance == Spec => []IInv
<1>1. Init => IInv
  BY InitIInv
<1>2. IInv /\ [Next]_vars => IInv'
  BY NextKeeps
<1> QED
  BY <1>1, <1>2, PTL DEF Spec

\* A token is good for what it was issued for, once: granted by its own provisioner,
\* for its own operation where its audience names one, one operation for a token that
\* is recorded and one certificate for an instance trusted on first use (LoadByToken,
\* UseToken, GetTokenID, authorizeToken).
THEOREM TokensMeant ==
  ASSUME DistinctAudiences
  PROVE  Spec => []GrantedAsMeant
<1>1. IInv => GrantedAsMeant
  BY MeantOf
<1> QED
  BY <1>1, TokensInvariance, PTL

\* Whoever is entitled to an operation is granted it, whatever other requests,
\* restarts and delays there are, unless the token is older than the CA, was used, or
\* falls to the provisioner of its tenant.
THEOREM EntitledServed ==
  ASSUME DistinctClaims
  PROVE  Spec => []EntitledGranted
<1>1. IInv => EntitledGranted
  BY EntitledOf
<1> QED
  BY <1>1, TokensInvariance, PTL

-----------------------------------------------------------------------------
\* The key store.

KeyPCs == {"idle", "fetch", "reset", "read", "done"}

KeyTypeOK ==
  /\ clock \in Nat /\ age \in Nat /\ keys \in Nat /\ expiry \in Nat /\ jitter \in Nat
  /\ timer \in Nat \cup {None}
  /\ thread \in [Store!Threads -> [pc: KeyPCs, since: Nat, next: Nat, failed: BOOLEAN, got: Nat \cup {None}]]
  /\ failures \in Nat /\ slept \in BOOLEAN

\* A reload stored the keys within FetchTime of the start of its fetch, at the
\* latest now.
KeyStored == expiry <= clock + age /\ expiry <= keys + age + FetchTime

\* What a goroutine on its way may rely on: a fetch is not older than FetchTime;
\* a Get that saw or forced a reload found keys that were valid when it began; and
\* what it got were such keys.
KeyUnderway(t) ==
  LET l == thread[t] IN
  /\ l.pc # "idle" => l.since <= clock /\ clock <= l.since + FetchTime
  /\ l.pc = "reset" /\ ~l.failed => l.since + age <= expiry
  /\ l.pc = "read" /\ ~l.failed => l.since <= expiry
  /\ l.pc = "done" /\ ~l.failed => l.got \in Nat /\ l.since <= l.got + age + FetchTime
  /\ l.failed => failures > 0

\* The premise of the timer: every fetch succeeds and the machine does not sleep.
KeyUndisturbed == failures = 0 /\ ~slept /\ age > 0

\* The timer is set to fire while the keys are valid, up to one fetch, or has fired
\* then and its goroutine is on its way.
KeyTimerSet ==
  KeyUndisturbed =>
    /\ \A t \in Store!Threads : thread[t].pc = "reset" => thread[t].next <= age
    /\ timer # None => clock <= timer /\ timer <= expiry + FetchTime
    /\ timer = None => \E t \in Store!Threads : /\ thread[t].pc \in {"fetch", "reset"}
                                          /\ thread[t].since <= expiry + FetchTime

KeyIInv == KeyTypeOK /\ KeyStored /\ (\A t \in Store!Threads : KeyUnderway(t)) /\ KeyTimerSet

\* getCacheJitter is positive only below the age it is computed from, or one hour.
LEMMA KeyJitterType ==
  ASSUME Durations, NEW a \in Nat
  PROVE  Store!getCacheJitter(a) \in Nat /\ (a > 0 => Store!getCacheJitter(a) <= a)
BY SMTT(60) DEF Durations, Store!getCacheJitter

\* nextReloadDuration is never negative, and not longer than the age when the
\* jitter is not.
LEMMA KeyNextType ==
  ASSUME NEW a \in Nat, NEW j \in Nat, NEW d \in Store!nextReloadDuration(a, j)
  PROVE  d \in Nat /\ (j <= a => d <= a)
BY SMTT(60) DEF Store!nextReloadDuration, Store!Abs

\* newKeyStore sets the timer before the keys expire.
LEMMA KeyInitIInv ==
  ASSUME Durations, Store!Init
  PROVE  KeyIInv
<1>1. /\ clock = 0 /\ age \in Nat /\ keys = 0 /\ expiry = age /\ jitter \in Nat
      /\ thread = [t \in Store!Threads |-> Store!Idle] /\ failures = 0 /\ slept = FALSE
  BY KeyJitterType DEF Store!Init, Store!newKeyStore, Durations
<1>2. timer \in Nat /\ (age > 0 => timer <= age)
  <2>1. age > 0 => jitter <= age
    BY <1>1, KeyJitterType DEF Store!Init, Store!newKeyStore
  <2> QED
    BY <1>1, <2>1, KeyNextType DEF Store!Init, Store!newKeyStore
<1>3. KeyTypeOK
  BY <1>1, <1>2 DEF KeyTypeOK, Store!Idle, KeyPCs
<1>4. KeyStored /\ \A t \in Store!Threads : KeyUnderway(t)
  BY <1>1, SMTT(60) DEF KeyStored, KeyUnderway, Store!Idle, Durations
<1>5. KeyTimerSet
  BY <1>1, <1>2, SMTT(60) DEF KeyTimerSet, KeyUndisturbed, Store!Idle, Durations
<1> QED
  BY <1>3, <1>4, <1>5 DEF KeyIInv

\* Get reads keys that have not expired, or fetches new ones.
LEMMA KeyGetKeeps ==
  ASSUME Durations, KeyIInv, NEW r \in Requests, Store!Get(r)
  PROVE  KeyIInv'
<1> DEFINE l == [Store!Idle EXCEPT !.pc = IF clock > expiry THEN "fetch" ELSE "read", !.since = clock]
<1>1. /\ r \in Store!Threads /\ thread' = [thread EXCEPT ![r] = l] /\ thread[r].pc = "idle"
      /\ UNCHANGED << clock, age, keys, expiry, jitter, timer, failures, slept >>
  BY DEF Store!Get, Store!At, Store!Threads
<1>2. /\ l \in [pc: KeyPCs, since: Nat, next: Nat, failed: BOOLEAN, got: Nat \cup {None}]
      /\ l.pc \in {"fetch", "read"} /\ l.since = clock /\ l.failed = FALSE
      /\ l.pc = "read" => clock <= expiry
  <2>1. clock \in Nat /\ expiry \in Nat
    BY DEF KeyIInv, KeyTypeOK
  <2>2. CASE clock > expiry
    <3>1. l = [Store!Idle EXCEPT !.pc = "fetch", !.since = clock]
      BY <2>2
    <3> HIDE DEF l
    <3> QED
      BY <2>1, <3>1 DEF Store!Idle, KeyPCs
  <2>3. CASE ~(clock > expiry)
    <3>1. l = [Store!Idle EXCEPT !.pc = "read", !.since = clock]
      BY <2>3
    <3>2. clock <= expiry
      BY <2>1, <2>3, SMTT(60)
    <3> HIDE DEF l
    <3> QED
      BY <2>1, <3>1, <3>2 DEF Store!Idle, KeyPCs
  <2> QED
    BY <2>2, <2>3
<1>3. KeyTypeOK' /\ KeyStored'
  BY <1>1, <1>2 DEF KeyIInv, KeyTypeOK, KeyStored
<1>4. thread'[r] = l /\ \A t \in Store!Threads \ {r} : thread'[t] = thread[t]
  BY <1>1 DEF KeyIInv, KeyTypeOK
<1> HIDE DEF l
<1>5. \A t \in Store!Threads : KeyUnderway(t)'
  BY <1>1, <1>2, <1>4, SMTT(60) DEF KeyIInv, KeyTypeOK, KeyUnderway, Durations
<1>6. KeyTimerSet'
  BY <1>1, <1>2, <1>4 DEF KeyIInv, KeyTimerSet, KeyUndisturbed
<1> QED
  BY <1>3, <1>5, <1>6 DEF KeyIInv

\* The timer fires when it is due, not later.
LEMMA KeyFireKeeps ==
  ASSUME Durations, KeyIInv, NEW r \in Timers, Store!Fire(r)
  PROVE  KeyIInv'
<1> DEFINE l == [Store!Idle EXCEPT !.pc = "fetch", !.since = clock]
<1>1. /\ r \in Store!Threads /\ thread' = [thread EXCEPT ![r] = l] /\ thread[r].pc = "idle"
      /\ timer # None /\ timer' = None
      /\ UNCHANGED << clock, age, keys, expiry, jitter, failures, slept >>
  BY DEF Store!Fire, Store!At, Store!Threads
<1>2. /\ l \in [pc: KeyPCs, since: Nat, next: Nat, failed: BOOLEAN, got: Nat \cup {None}]
      /\ l.pc = "fetch" /\ l.since = clock /\ l.failed = FALSE
  BY DEF KeyIInv, KeyTypeOK, Store!Idle, KeyPCs
<1>3. KeyTypeOK' /\ KeyStored'
  BY <1>1, <1>2 DEF KeyIInv, KeyTypeOK, KeyStored
<1>4. thread'[r] = l /\ \A t \in Store!Threads \ {r} : thread'[t] = thread[t]
  BY <1>1 DEF KeyIInv, KeyTypeOK
<1> HIDE DEF l
<1>5. \A t \in Store!Threads : KeyUnderway(t)'
  BY <1>1, <1>2, <1>4, SMTT(60) DEF KeyIInv, KeyTypeOK, KeyUnderway, Durations
<1>6. KeyTimerSet'
  BY <1>1, <1>2, <1>4, SMTT(60) DEF KeyIInv, KeyTypeOK, KeyTimerSet, KeyUndisturbed, Durations
<1> QED
  BY <1>3, <1>5, <1>6 DEF KeyIInv

\* A reload stores keys and moves their expiry forward, also when it stores them
\* over those of a reload that began later.
LEMMA KeyStoreKeeps ==
  ASSUME Durations, KeyIInv, NEW r \in Store!Threads, Store!ReloadStore(r)
  PROVE  KeyIInv'
<1>1. PICK d \in Store!nextReloadDuration(age, jitter') :
        thread' = [thread EXCEPT ![r].pc = "reset", ![r].next = d]
  BY DEF Store!ReloadStore
<1>2. /\ thread[r].pc = "fetch" /\ keys' = thread[r].since /\ expiry' = clock + age
      /\ jitter' = Store!getCacheJitter(age)
      /\ UNCHANGED << clock, age, timer, failures, slept >>
  BY DEF Store!ReloadStore, Store!At, Store!getExpirationTime
<1>3. jitter' \in Nat /\ d \in Nat /\ (age > 0 => d <= age)
  BY <1>1, <1>2, KeyJitterType, KeyNextType DEF KeyIInv, KeyTypeOK
<1>4. /\ thread'[r].pc = "reset" /\ thread'[r].next = d /\ thread'[r].since = thread[r].since
      /\ thread'[r].failed = thread[r].failed
      /\ \A t \in Store!Threads \ {r} : thread'[t] = thread[t]
  BY <1>1 DEF KeyIInv, KeyTypeOK
<1>5. KeyTypeOK'
  <2>1. thread' \in [Store!Threads -> [pc: KeyPCs, since: Nat, next: Nat, failed: BOOLEAN, got: Nat \cup {None}]]
    BY <1>1, <1>3 DEF KeyIInv, KeyTypeOK, KeyPCs
  <2>2. keys' \in Nat /\ expiry' \in Nat
    BY <1>2, SMTT(60) DEF KeyIInv, KeyTypeOK
  <2> QED
    BY <1>2, <1>3, <2>1, <2>2 DEF KeyIInv, KeyTypeOK
<1>6. /\ thread[r].since \in Nat /\ thread[r].since <= clock /\ clock <= thread[r].since + FetchTime
      /\ expiry \in Nat /\ expiry <= expiry'
  BY <1>2 DEF KeyIInv, KeyTypeOK, KeyUnderway, KeyStored
<1>7. KeyStored'
  BY <1>2, <1>6, SMTT(60) DEF KeyIInv, KeyTypeOK, KeyStored, Durations
<1>8. \A t \in Store!Threads : KeyUnderway(t)'
  <2> SUFFICES ASSUME NEW t \in Store!Threads
               PROVE  KeyUnderway(t)'
    OBVIOUS
  <2>1. CASE t = r
    BY <2>1, <1>2, <1>4, <1>6, SMTT(60) DEF KeyIInv, KeyTypeOK, KeyUnderway, Durations
  <2>2. CASE t # r
    <3>1. thread'[t] = thread[t] /\ KeyUnderway(t) /\ thread[t].since \in Nat
      BY <2>2, <1>4 DEF KeyIInv, KeyTypeOK
    <3> QED
      BY <3>1, <1>2, <1>6, SMTT(60) DEF KeyIInv, KeyTypeOK, KeyUnderway, Durations
  <2> QED
    BY <2>1, <2>2
<1>9. KeyTimerSet'
  BY <1>2, <1>3, <1>4, <1>6, SMTT(60) DEF KeyIInv, KeyTypeOK, KeyTimerSet, KeyUndisturbed, Durations
<1> QED
  BY <1>5, <1>7, <1>8, <1>9 DEF KeyIInv

\* A failed fetch leaves the keys and is remembered by the goroutine.
LEMMA KeyFailKeeps ==
  ASSUME Durations, KeyIInv, NEW r \in Store!Threads, Store!ReloadFails(r)
  PROVE  KeyIInv'
<1>1. PICK d \in Store!nextReloadDuration(jitter \div 2, jitter) :
        thread' = [thread EXCEPT ![r].pc = "reset", ![r].next = d, ![r].failed = TRUE]
  BY DEF Store!ReloadFails
<1>2. /\ thread[r].pc = "fetch" /\ failures' = failures + 1
      /\ UNCHANGED << clock, age, keys, expiry, jitter, timer, slept >>
  BY DEF Store!ReloadFails, Store!At
<1>3. d \in Nat /\ failures' \in Nat /\ failures' > 0
  BY <1>1, <1>2, KeyNextType, SMTT(60) DEF KeyIInv, KeyTypeOK
<1>4. /\ thread'[r].pc = "reset" /\ thread'[r].since = thread[r].since
      /\ thread'[r].failed = TRUE
      /\ \A t \in Store!Threads \ {r} : thread'[t] = thread[t]
  BY <1>1 DEF KeyIInv, KeyTypeOK
<1>5. KeyTypeOK' /\ KeyStored'
  BY <1>1, <1>2, <1>3 DEF KeyIInv, KeyTypeOK, KeyPCs, KeyStored
<1>6. \A t \in Store!Threads : KeyUnderway(t)'
  BY <1>2, <1>3, <1>4 DEF KeyIInv, KeyUnderway
<1>7. KeyTimerSet'
  BY <1>3, SMTT(60) DEF KeyTimerSet, KeyUndisturbed
<1> QED
  BY <1>5, <1>6, <1>7 DEF KeyIInv

\* reload sets the timer within a fetch of the store.
LEMMA KeyResetKeeps ==
  ASSUME Durations, KeyIInv, NEW r \in Store!Threads, Store!Reset(r)
  PROVE  KeyIInv'
<1>1. /\ thread[r].pc = "reset" /\ timer' = clock + thread[r].next
      /\ UNCHANGED << clock, age, keys, expiry, jitter, failures, slept >>
  BY DEF Store!Reset, Store!At
<1>2. /\ thread' \in [Store!Threads -> [pc: KeyPCs, since: Nat, next: Nat, failed: BOOLEAN, got: Nat \cup {None}]]
      /\ \A t \in Store!Threads \ {r} : thread'[t] = thread[t]
      /\ thread'[r] = Store!Idle \/ thread'[r] = [thread[r] EXCEPT !.pc = "read"]
  BY SMTT(60) DEF Store!Reset, KeyIInv, KeyTypeOK, Store!Idle, KeyPCs
<1>3. /\ thread[r].since \in Nat /\ thread[r].next \in Nat
      /\ thread[r].since <= clock /\ clock <= thread[r].since + FetchTime
      /\ thread[r].failed = FALSE => thread[r].since + age <= expiry
      /\ thread[r].failed = TRUE => failures > 0
  BY <1>1 DEF KeyIInv, KeyTypeOK, KeyUnderway
<1>4. KeyTypeOK' /\ KeyStored'
  BY <1>1, <1>2, <1>3, SMTT(60) DEF KeyIInv, KeyTypeOK, KeyStored
<1>5. \A t \in Store!Threads : KeyUnderway(t)'
  <2> SUFFICES ASSUME NEW t \in Store!Threads
               PROVE  KeyUnderway(t)'
    OBVIOUS
  <2>1. CASE t # r
    BY <2>1, <1>1, <1>2 DEF KeyIInv, KeyUnderway
  <2>2. CASE t = r /\ thread'[r] = Store!Idle
    BY <2>2, SMTT(60) DEF KeyUnderway, Store!Idle
  <2>3. CASE t = r /\ thread'[r] = [thread[r] EXCEPT !.pc = "read"]
    <3>1. /\ thread'[t].pc = "read" /\ thread'[t].since = thread[r].since
          /\ thread'[t].failed = thread[r].failed /\ thread[r].failed \in BOOLEAN
      BY <2>3 DEF KeyIInv, KeyTypeOK
    <3> QED
      BY <3>1, <1>1, <1>3, SMTT(60) DEF KeyIInv, KeyTypeOK, KeyUnderway, Durations
  <2> QED
    BY <1>2, <2>1, <2>2, <2>3
<1>6. KeyTimerSet'
  <2> SUFFICES ASSUME KeyUndisturbed
               PROVE  /\ \A t \in Store!Threads : thread'[t].pc = "reset" => thread'[t].next <= age
                      /\ timer' # None /\ clock <= timer' /\ timer' <= expiry + FetchTime
    BY <1>1 DEF KeyTimerSet, KeyUndisturbed
  <2>1. thread[r].failed = FALSE /\ thread[r].next <= age
    BY <1>1, <1>3, SMTT(60) DEF KeyIInv, KeyTypeOK, KeyTimerSet, KeyUndisturbed
  <2>2. timer' # None /\ clock <= timer' /\ timer' <= expiry + FetchTime
    BY <1>1, <1>3, <2>1, SMTT(60) DEF KeyIInv, KeyTypeOK, Durations
  <2>3. thread'[r].pc # "reset"
    BY <1>2, SMTT(60) DEF KeyIInv, KeyTypeOK, Store!Idle
  <2> QED
    BY <1>2, <2>2, <2>3 DEF KeyIInv, KeyTimerSet
<1> QED
  BY <1>4, <1>5, <1>6 DEF KeyIInv

\* A Get takes the keys that are stored now.
LEMMA KeyReadKeeps ==
  ASSUME Durations, KeyIInv, NEW r \in Requests, Store!Read(r) \/ Store!Return(r)
  PROVE  KeyIInv'
<1>1. /\ r \in Store!Threads /\ thread[r].pc \in {"read", "done"}
      /\ UNCHANGED << clock, age, keys, expiry, jitter, timer, failures, slept >>
  BY DEF Store!Read, Store!Return, Store!At, Store!Threads
<1>2. /\ thread' \in [Store!Threads -> [pc: KeyPCs, since: Nat, next: Nat, failed: BOOLEAN, got: Nat \cup {None}]]
      /\ \A t \in Store!Threads \ {r} : thread'[t] = thread[t]
      /\ \/ thread'[r] = Store!Idle
         \/ (thread[r].pc = "read" /\ thread'[r] = [thread[r] EXCEPT !.pc = "done", !.got = keys])
  <2>1. CASE Store!Return(r)
    BY <1>1, <2>1 DEF Store!Return, KeyIInv, KeyTypeOK, Store!Idle, KeyPCs
  <2>2. CASE Store!Read(r)
    <3>1. /\ thread[r].pc = "read"
          /\ thread' = [thread EXCEPT ![r] = [thread[r] EXCEPT !.pc = "done", !.got = keys]]
      BY <1>1, <2>2 DEF Store!Read, Store!At, KeyIInv, KeyTypeOK
    <3>2. /\ thread[r] \in [pc: KeyPCs, since: Nat, next: Nat, failed: BOOLEAN, got: Nat \cup {None}]
          /\ keys \in Nat
      BY <1>1 DEF KeyIInv, KeyTypeOK
    <3>3. [thread[r] EXCEPT !.pc = "done", !.got = keys]
            \in [pc: KeyPCs, since: Nat, next: Nat, failed: BOOLEAN, got: Nat \cup {None}]
      BY <3>2 DEF KeyPCs
    <3> QED
      BY <1>1, <3>1, <3>3 DEF KeyIInv, KeyTypeOK
  <2> QED
    BY <2>1, <2>2
<1>3. KeyTypeOK' /\ KeyStored'
  BY <1>1, <1>2 DEF KeyIInv, KeyTypeOK, KeyStored
<1>4. \A t \in Store!Threads : KeyUnderway(t)'
  <2> SUFFICES ASSUME NEW t \in Store!Threads
               PROVE  KeyUnderway(t)'
    OBVIOUS
  <2>1. CASE t # r
    BY <2>1, <1>1, <1>2 DEF KeyIInv, KeyUnderway
  <2>2. CASE t = r /\ thread'[r] = Store!Idle
    BY <2>2, SMTT(60) DEF KeyUnderway, Store!Idle
  <2>3. CASE t = r /\ thread[r].pc = "read" /\ thread'[r] = [thread[r] EXCEPT !.pc = "done", !.got = keys]
    <3>1. /\ thread'[t].pc = "done" /\ thread'[t].since = thread[r].since /\ thread'[t].got = keys
          /\ thread'[t].failed = thread[r].failed /\ thread[r].since \in Nat
      BY <2>3, SMTT(60) DEF KeyIInv, KeyTypeOK
    <3>2. KeyUnderway(r)
      BY <1>1 DEF KeyIInv
    <3> QED
      BY <2>3, <3>1, <3>2, <1>1, SMTT(60) DEF KeyIInv, KeyTypeOK, KeyStored, KeyUnderway, Durations
  <2> QED
    BY <1>2, <2>1, <2>2, <2>3
<1>5. KeyTimerSet'
  <2>1. thread'[r].pc \in {"idle", "done"}
    <3>1. thread[r] \in [pc: KeyPCs, since: Nat, next: Nat, failed: BOOLEAN, got: Nat \cup {None}]
      BY <1>1 DEF KeyIInv, KeyTypeOK
    <3>2. CASE thread'[r] = Store!Idle
      BY <3>2, SMTT(60) DEF Store!Idle
    <3>3. CASE thread'[r] = [thread[r] EXCEPT !.pc = "done", !.got = keys]
      BY <3>1, <3>3
    <3> QED
      BY <1>2, <3>2, <3>3
  <2> QED
    BY <1>1, <1>2, <2>1 DEF KeyIInv, KeyTimerSet, KeyUndisturbed
<1> QED
  BY <1>3, <1>4, <1>5 DEF KeyIInv

\* Time passes no further than the timer and the fetches allow.
LEMMA KeyTickKeeps ==
  ASSUME Durations, KeyIInv, Store!Tick
  PROVE  KeyIInv'
<1>1. /\ clock' = clock + 1 /\ (timer # None => clock < timer)
      /\ UNCHANGED << age, keys, expiry, jitter, timer, thread, failures, slept >>
      /\ \A t \in Store!Threads : thread[t].pc = "idle" \/ clock - thread[t].since < FetchTime
  BY DEF Store!Tick, Store!At
<1>2. KeyTypeOK' /\ KeyStored'
  BY <1>1, SMTT(60) DEF KeyIInv, KeyTypeOK, KeyStored, Durations
<1>3. \A t \in Store!Threads : KeyUnderway(t)'
  BY <1>1, SMTT(60) DEF KeyIInv, KeyTypeOK, KeyUnderway, Durations
<1>4. KeyTimerSet'
  BY <1>1, SMTT(60) DEF KeyIInv, KeyTypeOK, KeyTimerSet, KeyUndisturbed, Durations
<1> QED
  BY <1>2, <1>3, <1>4 DEF KeyIInv

\* While the machine sleeps no goroutine is on its way.
LEMMA KeySleepKeeps ==
  ASSUME Durations, KeyIInv, NEW d \in Sleeps, Store!Sleep(d)
  PROVE  KeyIInv'
<1>1. /\ clock' = clock + d /\ d \in Nat /\ timer \in Nat /\ timer' = timer + d /\ slept' = TRUE
      /\ UNCHANGED << age, keys, expiry, jitter, thread, failures >>
      /\ \A t \in Store!Threads : thread[t].pc = "idle"
  BY DEF Store!Sleep, Store!At, KeyIInv, KeyTypeOK, Durations
<1>2. KeyTypeOK' /\ KeyStored' /\ KeyTimerSet'
  BY <1>1, SMTT(60) DEF KeyIInv, KeyTypeOK, KeyStored, KeyTimerSet, KeyUndisturbed, Durations
<1>3. \A t \in Store!Threads : KeyUnderway(t)'
  BY <1>1 DEF KeyIInv, KeyUnderway
<1> QED
  BY <1>2, <1>3 DEF KeyIInv

\* The invariant is inductive.
LEMMA KeyNextKeeps ==
  ASSUME Durations, KeyIInv, [Store!Next]_Store!vars
  PROVE  KeyIInv'
<1>1. CASE Store!Next
  BY <1>1, KeyGetKeeps, KeyFireKeeps, KeyStoreKeeps, KeyFailKeeps, KeyResetKeeps,
     KeyReadKeeps, KeyTickKeeps, KeySleepKeeps
     DEF Store!Next
<1>2. CASE UNCHANGED Store!vars
  <2>1. KeyTypeOK' /\ KeyStored' /\ KeyTimerSet'
    BY <1>2 DEF Store!vars, KeyIInv, KeyTypeOK, KeyStored, KeyTimerSet,
       KeyUndisturbed
  <2>2. \A t \in Store!Threads : KeyUnderway(t)'
    BY <1>2 DEF Store!vars, KeyIInv, KeyUnderway
  <2> QED
    BY <2>1, <2>2 DEF KeyIInv
<1> QED
  BY <1>1, <1>2

\* The keys a token is verified with (keyStore.Get) are fresh, and the timer renews them before
\* they expire, up to two fetches.
THEOREM KeyFresh ==
  ASSUME Durations
  PROVE  Store!Spec => []KeysFresh
<1>1. Store!Init => KeyIInv
  BY KeyInitIInv
<1>2. KeyIInv /\ [Store!Next]_Store!vars => KeyIInv'
  BY KeyNextKeeps
<1>3. KeyIInv => KeysFresh
  <2> SUFFICES ASSUME KeyIInv
               PROVE  KeysFresh
    OBVIOUS
  <2>1. ASSUME NEW r \in Requests, Store!At(r, "done"), ~thread[r].failed
        PROVE  thread[r].got + age + FetchTime >= thread[r].since
    <3>1. r \in Store!Threads /\ KeyUnderway(r) /\ thread[r].since \in Nat
      BY DEF KeyIInv, KeyTypeOK, Store!Threads
    <3> QED
      BY <2>1, <3>1 DEF KeyIInv, KeyTypeOK, KeyUnderway, Store!At, Durations
  <2>2. ASSUME KeyUndisturbed
        PROVE  clock <= expiry + 2 * FetchTime
    <3>1. CASE timer # None
      BY <2>2, <3>1, SMTT(60) DEF KeyIInv, KeyTypeOK, KeyTimerSet, Durations
    <3>2. CASE timer = None
      <4>1. PICK t \in Store!Threads : /\ thread[t].pc \in {"fetch", "reset"}
                                 /\ thread[t].since <= expiry + FetchTime
        BY <2>2, <3>2 DEF KeyIInv, KeyTimerSet
      <4> QED
        BY <4>1, SMTT(60) DEF KeyIInv, KeyTypeOK, KeyUnderway, Durations
    <3> QED
      BY <3>1, <3>2
  <2> QED
    BY <2>1, <2>2 DEF KeysFresh, Store!KeysFresh, KeyUndisturbed
<1> QED
  BY <1>1, <1>2, <1>3, PTL DEF Store!Spec

-----------------------------------------------------------------------------
\* The signing of one certificate.

(* What the validator of one part of a request accepts.                     *)
LEMMA ValidIs ==
  ASSUME NEW S, NEW csr
  PROVE  /\ Valid([v |-> "cn", want |-> S], csr) <=> csr.cn \in S \cup {""}
         /\ Valid([v |-> "ips", want |-> S], csr) <=> OfKind("ip", csr.sans) \subseteq S
         /\ Valid([v |-> "order", want |-> S], csr) <=> csr.sans = S
         /\ Valid([v |-> "key", want |-> S], csr) <=> KeyAllowed(csr.key, S)
         /\ Valid([v |-> "dns", want |-> S], csr) <=> OfKind("dns", csr.sans) \in {{}, S}
         /\ Valid([v |-> "ip", want |-> S], csr) <=> OfKind("ip", csr.sans) \in {{}, S}
         /\ Valid([v |-> "email", want |-> S], csr) <=> OfKind("email", csr.sans) \in {{}, S}
         /\ Valid([v |-> "uri", want |-> S], csr) <=> OfKind("uri", csr.sans) \in {{}, S}
BY DEF Valid

(* What the four validators of names accept.                                *)
LEMMA ValidNames ==
  ASSUME NEW S, NEW csr
  PROVE  /\ Valid(dnsNamesValidator(S), csr) <=> OfKind("dns", csr.sans) \in {{}, OfKind("dns", S)}
         /\ Valid(ipAddressesValidator(S), csr) <=> OfKind("ip", csr.sans) \in {{}, OfKind("ip", S)}
         /\ Valid(emailAddressesValidator(S), csr) <=> OfKind("email", csr.sans) \in {{}, OfKind("email", S)}
         /\ Valid(urisValidator(S), csr) <=> OfKind("uri", csr.sans) \in {{}, OfKind("uri", S)}
<1>1. Valid(dnsNamesValidator(S), csr) <=> OfKind("dns", csr.sans) \in {{}, OfKind("dns", S)}
  BY ValidIs DEF dnsNamesValidator
<1>2. Valid(ipAddressesValidator(S), csr) <=> OfKind("ip", csr.sans) \in {{}, OfKind("ip", S)}
  BY DEF Valid, ipAddressesValidator
<1>3. Valid(emailAddressesValidator(S), csr) <=> OfKind("email", csr.sans) \in {{}, OfKind("email", S)}
  BY ValidIs DEF emailAddressesValidator
<1>4. Valid(urisValidator(S), csr) <=> OfKind("uri", csr.sans) \in {{}, OfKind("uri", S)}
  BY ValidIs DEF urisValidator
<1> QED  BY <1>1, <1>2, <1>3, <1>4

(* Validators of all four kinds of names accept only requests whose names   *)
(* are the wanted ones, where the request lists the kind.                   *)
LEMMA DefaultSANs ==
  ASSUME NEW S, NEW csr, \A n \in csr.sans : Kind[n] \in Kinds,
         \A v \in defaultSANsValidator(S) : Valid(v, csr)
  PROVE  /\ \A k \in Kinds : OfKind(k, csr.sans) \in {{}, OfKind(k, S)}
         /\ csr.sans \subseteq S
<1>1. \A k \in Kinds : OfKind(k, csr.sans) \in {{}, OfKind(k, S)}
  <2>1. /\ Valid(dnsNamesValidator(S), csr) /\ Valid(emailAddressesValidator(S), csr)
        /\ Valid(ipAddressesValidator(S), csr) /\ Valid(urisValidator(S), csr)
    BY DEF defaultSANsValidator
  <2>2. /\ OfKind("dns", csr.sans) \in {{}, OfKind("dns", S)} /\ OfKind("ip", csr.sans) \in {{}, OfKind("ip", S)}
        /\ OfKind("email", csr.sans) \in {{}, OfKind("email", S)} /\ OfKind("uri", csr.sans) \in {{}, OfKind("uri", S)}
    BY <2>1, ValidNames
  <2> QED  BY <2>2 DEF Kinds
<1>2. ASSUME NEW n \in csr.sans PROVE n \in S
  <2>1. n \in OfKind(Kind[n], csr.sans)
    BY DEF OfKind
  <2>2. OfKind(Kind[n], csr.sans) = OfKind(Kind[n], S)
    BY <1>1, <2>1
  <2> QED  BY <2>1, <2>2 DEF OfKind
<1> QED  BY <1>1, <1>2

(* The validator of a Nebula certificate's names accepts only those.        *)
LEMMA NebulaSANs ==
  ASSUME NEW name, NEW ips, NEW csr, \A n \in csr.sans : Kind[n] \in Kinds,
         \A v \in nebulaSANsValidator(name, ips) : Valid(v, csr)
  PROVE  csr.sans \subseteq {name} \cup ips
<1>1. /\ Valid(dnsNamesValidator({name}), csr) /\ Valid(emailAddressesValidator({name}), csr)
      /\ Valid([v |-> "ips", want |-> OfKind("ip", {name} \cup ips)], csr) /\ Valid(urisValidator({name}), csr)
  BY DEF nebulaSANsValidator
<1>2. /\ OfKind("dns", csr.sans) \in {{}, OfKind("dns", {name})}
      /\ OfKind("ip", csr.sans) \subseteq OfKind("ip", {name} \cup ips)
      /\ OfKind("email", csr.sans) \in {{}, OfKind("email", {name})}
      /\ OfKind("uri", csr.sans) \in {{}, OfKind("uri", {name})}
  BY <1>1, ValidNames, ValidIs
<1>3. \A k \in Kinds : OfKind(k, csr.sans) \subseteq {name} \cup ips
  BY <1>2 DEF Kinds, OfKind
<1> QED  BY <1>3 DEF OfKind

(* AuthorizeSign dispatches on the type.                                    *)
LEMMA AuthorizeSignIs ==
  ASSUME NEW p, NEW c, NEW csr
  PROVE  /\ p.type \in {"JWK", "X5C"} => AuthorizeSign(p, c, csr) = JwkAuthorizeSign(c)
         /\ p.type = "Nebula" => AuthorizeSign(p, c, csr) = NebulaAuthorizeSign(c)
         /\ p.type = "AWS" => AuthorizeSign(p, c, csr) = AwsAuthorizeSign(p, c)
         /\ p.type = "GCP" => AuthorizeSign(p, c, csr) = GcpAuthorizeSign(p, c)
         /\ p.type = "Azure" => AuthorizeSign(p, c, csr) = AzureAuthorizeSign(p, c)
         /\ p.type = "OIDC" => AuthorizeSign(p, c, csr) = OidcAuthorizeSign(p, c)
         /\ p.type = "K8sSA" => AuthorizeSign(p, c, csr) = K8sAuthorizeSign(c)
         /\ p.type = "ACME" => AuthorizeSign(p, c, csr) = AcmeSign(c, csr)
         /\ p.type = "SCEP" => AuthorizeSign(p, c, csr) = ScepSign(p, c, csr)
<1>1. p.type = "JWK" => AuthorizeSign(p, c, csr) = JwkAuthorizeSign(c)
  BY DEF AuthorizeSign
<1>2. p.type = "X5C" => AuthorizeSign(p, c, csr) = JwkAuthorizeSign(c)
  BY DEF AuthorizeSign, X5cAuthorizeSign
<1>3. p.type = "Nebula" => AuthorizeSign(p, c, csr) = NebulaAuthorizeSign(c)
  BY DEF AuthorizeSign
<1>4. p.type = "AWS" => AuthorizeSign(p, c, csr) = AwsAuthorizeSign(p, c)
  BY DEF AuthorizeSign
<1>5. p.type = "GCP" => AuthorizeSign(p, c, csr) = GcpAuthorizeSign(p, c)
  BY DEF AuthorizeSign
<1>6. p.type = "Azure" => AuthorizeSign(p, c, csr) = AzureAuthorizeSign(p, c)
  BY DEF AuthorizeSign
<1>7. p.type = "OIDC" => AuthorizeSign(p, c, csr) = OidcAuthorizeSign(p, c)
  BY DEF AuthorizeSign
<1>8. p.type = "K8sSA" => AuthorizeSign(p, c, csr) = K8sAuthorizeSign(c)
  BY DEF AuthorizeSign
<1>9. p.type = "ACME" => AuthorizeSign(p, c, csr) = AcmeSign(c, csr)
  BY DEF AuthorizeSign
<1>10. p.type = "SCEP" => AuthorizeSign(p, c, csr) = ScepSign(p, c, csr)
  BY DEF AuthorizeSign
<1> QED  BY <1>1, <1>2, <1>3, <1>4, <1>5, <1>6, <1>7, <1>8, <1>9, <1>10

(* The templates.                                                           *)
LEMMA NewCertificateIs ==
  ASSUME NEW p, NEW opts, NEW csr
  PROVE  /\ p.template \/ opts.template = "admin" => NewCertificate(p, opts, csr) = [cn |-> csr.cn, sans |-> csr.sans]
         /\ ~ p.template /\ opts.template = "leaf" => NewCertificate(p, opts, csr) = [cn |-> opts.cn, sans |-> opts.sans]
         /\ ~ p.template /\ opts.template = "iid" =>
              NewCertificate(p, opts, csr) = [cn |-> csr.cn, sans |-> IF opts.sans # {} THEN opts.sans ELSE csr.sans]
<1>1. p.template \/ opts.template = "admin" => NewCertificate(p, opts, csr) = [cn |-> csr.cn, sans |-> csr.sans]
  BY DEF NewCertificate
<1>2. ~ p.template /\ opts.template = "leaf" => NewCertificate(p, opts, csr) = [cn |-> opts.cn, sans |-> opts.sans]
  BY DEF NewCertificate
<1>3. ~ p.template /\ opts.template = "iid" =>
        NewCertificate(p, opts, csr) = [cn |-> csr.cn, sans |-> IF opts.sans # {} THEN opts.sans ELSE csr.sans]
  BY DEF NewCertificate
<1> QED  BY <1>1, <1>2, <1>3

(* The request passes the validators its provisioner returns, and the       *)
(* certificate the template makes of it.                                    *)
Options(p, c, csr) == AuthorizeSign(p, c, Presented(p, c, csr))
Accepted(p, c, csr) == \A v \in Options(p, c, csr).validators : Valid(v, Presented(p, c, csr))
Leaf(p, c, csr) == NewCertificate(p, Options(p, c, csr), Presented(p, c, csr))

Attesting(p, c) == p.type = "ACME" /\ c.pid # ""
Trusting(p, c) ==
  \/ p.type \in InstanceTypes /\ ~ p.disableCustomSANs
  \/ p.type \in {"K8sSA", "SCEP"}
  \/ p.type = "OIDC" /\ (c.admin \/ p.template)
  \/ p.type = "ACME" /\ c.viaToken
  \/ Attesting(p, c) /\ p.template
Vouching(c) == {c.subject, c.pid} \cup c.sans \cup Elements(c.names) \cup c.cns

(* What the leaf says of the credential and of the request.                 *)
LeafVouched(p, c, csr) ==
  ~ Trusting(p, c) => /\ Leaf(p, c, csr).sans \subseteq Vouching(c)
                      /\ ~ Attesting(p, c) => Leaf(p, c, csr).cn \in Vouching(c) \cup {""}
LeafAsked(p, c, csr) ==
  ~ ((p.type \in {"OIDC", "Nebula"} \/ Attesting(p, c)) /\ ~ Trusting(p, c))
  => /\ \A k \in Kinds : OfKind(k, Presented(p, c, csr).sans) \in {{}, OfKind(k, Leaf(p, c, csr).sans)}
     /\ csr.cn \in {"", Leaf(p, c, csr).cn}

(* The template data, the template and the validators of SignOptions.       *)
LEMMA SignOptionsIs ==
  ASSUME NEW vs, NEW cn, NEW sans, NEW template
  PROVE  /\ SignOptions(vs, cn, sans, template).validators = vs \cup {defaultPublicKeyValidator}
         /\ SignOptions(vs, cn, sans, template).cn = cn
         /\ SignOptions(vs, cn, sans, template).sans = sans
         /\ SignOptions(vs, cn, sans, template).template = template
BY DEF SignOptions

(* Acceptance, when the options are known.                                  *)
LEMMA AcceptedIs ==
  ASSUME NEW p, NEW c, NEW csr, NEW vs, NEW cn, NEW sans, NEW template,
         Options(p, c, csr) = SignOptions(vs, cn, sans, template)
  PROVE  /\ Options(p, c, csr).cn = cn /\ Options(p, c, csr).sans = sans /\ Options(p, c, csr).template = template
         /\ Accepted(p, c, csr) <=> \A v \in vs \cup {defaultPublicKeyValidator} : Valid(v, Presented(p, c, csr))
<1>1. Options(p, c, csr).validators = vs \cup {defaultPublicKeyValidator}
  BY SignOptionsIs, SMTT(60)
<1>2. Accepted(p, c, csr) <=> \A v \in vs \cup {defaultPublicKeyValidator} : Valid(v, Presented(p, c, csr))
  BY <1>1 DEF Accepted
<1> QED  BY <1>2, SignOptionsIs, SMTT(60)

(* What the validators of the common name accept.                           *)
LEMMA ValidCN ==
  ASSUME NEW cns, NEW cn, NEW csr
  PROVE  /\ Valid(commonNameSliceValidator(cns), csr) <=> csr.cn \in cns \cup {""}
         /\ Valid(commonNameValidator(cn), csr) <=> csr.cn \in {cn, ""}
<1>1. \A S : Valid(commonNameSliceValidator(S), csr) <=> csr.cn \in S \cup {""}
  BY DEF Valid, commonNameSliceValidator
<1>2. Valid(commonNameSliceValidator({cn}), csr) <=> csr.cn \in {cn} \cup {""}
  BY <1>1
<1> QED  BY <1>1, <1>2 DEF commonNameValidator

(* Only ACME presents another request to Authority.Sign than it was sent.   *)
LEMMA NotAcme ==
  ASSUME NEW p, NEW c, NEW csr, p.type # "ACME"
  PROVE  Presented(p, c, csr) = csr /\ ~ Attesting(p, c)
BY DEF Presented, Attesting

(* The leaf, by template.                                                   *)
LEMMA LeafIs ==
  ASSUME NEW p, NEW c, NEW csr
  PROVE  /\ (p.template \/ Options(p, c, csr).template = "admin") =>
              Leaf(p, c, csr).cn = Presented(p, c, csr).cn /\ Leaf(p, c, csr).sans = Presented(p, c, csr).sans
         /\ ~ p.template /\ Options(p, c, csr).template = "leaf" =>
              Leaf(p, c, csr).cn = Options(p, c, csr).cn /\ Leaf(p, c, csr).sans = Options(p, c, csr).sans
         /\ ~ p.template /\ Options(p, c, csr).template = "iid" =>
              /\ Leaf(p, c, csr).cn = Presented(p, c, csr).cn
              /\ Leaf(p, c, csr).sans =
                   IF Options(p, c, csr).sans # {} THEN Options(p, c, csr).sans ELSE Presented(p, c, csr).sans
<1> DEFINE o == Options(p, c, csr)
           got == Presented(p, c, csr)
<1>1. Leaf(p, c, csr) = NewCertificate(p, o, got)
  BY DEF Leaf
<1> HIDE DEF o, got
<1>2. /\ (p.template \/ o.template = "admin") => Leaf(p, c, csr) = [cn |-> got.cn, sans |-> got.sans]
      /\ ~ p.template /\ o.template = "leaf" => Leaf(p, c, csr) = [cn |-> o.cn, sans |-> o.sans]
      /\ ~ p.template /\ o.template = "iid" =>
           Leaf(p, c, csr) = [cn |-> got.cn, sans |-> IF o.sans # {} THEN o.sans ELSE got.sans]
  BY <1>1, NewCertificateIs, SMTT(60)
<1>3. (p.template \/ o.template = "admin") => Leaf(p, c, csr).cn = got.cn /\ Leaf(p, c, csr).sans = got.sans
  BY <1>2, SMTT(60)
<1>4. ~ p.template /\ o.template = "leaf" => Leaf(p, c, csr).cn = o.cn /\ Leaf(p, c, csr).sans = o.sans
  BY <1>2, SMTT(60)
<1>5. ~ p.template /\ o.template = "iid" =>
        /\ Leaf(p, c, csr).cn = got.cn
        /\ Leaf(p, c, csr).sans = IF o.sans # {} THEN o.sans ELSE got.sans
  BY <1>2, SMTT(60)
<1> QED  BY <1>3, <1>4, <1>5 DEF o, got

(* The options of JWK, X5C and Nebula.                                      *)
JwkNames(c) == IF c.sans = {} THEN {c.subject} ELSE c.sans
NebulaNames(c) == IF c.sans = {} THEN Elements(c.names) ELSE c.sans

(* The sign options of JWK and X5C.                                         *)
LEMMA JwkOptions ==
  ASSUME NEW p, NEW c, NEW csr
  PROVE  /\ p.type \in {"JWK", "X5C"} => Options(p, c, csr) = JwkAuthorizeSign(c)
         /\ JwkAuthorizeSign(c) =
              SignOptions({commonNameValidator(c.subject)} \cup defaultSANsValidator(JwkNames(c)),
                          c.subject, JwkNames(c), "leaf")
<1>1. p.type \in {"JWK", "X5C"} => Options(p, c, csr) = JwkAuthorizeSign(c)
  BY AuthorizeSignIs DEF Options
<1> QED  BY <1>1 DEF JwkAuthorizeSign, JwkNames

(* The sign options of Nebula.                                              *)
LEMMA NebulaOptions ==
  ASSUME NEW p, NEW c, NEW csr, p.type = "Nebula"
  PROVE  Options(p, c, csr) =
           SignOptions({commonNameValidator(c.subject)} \cup nebulaSANsValidator(Head(c.names), Elements(c.names)),
                       c.subject, NebulaNames(c), "leaf")
BY AuthorizeSignIs DEF Options, NebulaAuthorizeSign, NebulaNames

(* JWK and X5C: the token's subject and names.                              *)
LEMMA JwkLeaf ==
  ASSUME WellFormed, NEW p \in SignProvisioners, NEW c \in Credentials[p.name], NEW csr \in CSRs,
         p.type \in {"JWK", "X5C"}, Accepted(p, c, csr)
  PROVE  LeafVouched(p, c, csr) /\ LeafAsked(p, c, csr)
<1> DEFINE S == JwkNames(c)
<1>0. p.type # "ACME" /\ Presented(p, c, csr) = csr
  <2>1. p.type # "ACME"
    OBVIOUS
  <2> QED  BY <2>1, NotAcme
<1>1. Options(p, c, csr) =
        SignOptions({commonNameValidator(c.subject)} \cup defaultSANsValidator(S), c.subject, S, "leaf")
  <2>1. Options(p, c, csr) = JwkAuthorizeSign(c)
    BY JwkOptions
  <2> QED  BY <2>1, JwkOptions
<1> HIDE DEF S
<1>2. /\ Options(p, c, csr).cn = c.subject /\ Options(p, c, csr).sans = S /\ Options(p, c, csr).template = "leaf"
      /\ \A v \in defaultSANsValidator(S) : Valid(v, csr)
      /\ Valid(commonNameValidator(c.subject), csr)
  BY <1>0, <1>1, AcceptedIs, SMTT(60)
<1>3. csr.cn \in {c.subject, ""}
  BY <1>2, ValidCN
<1>4. /\ \A k \in Kinds : OfKind(k, csr.sans) \in {{}, OfKind(k, S)}
      /\ csr.sans \subseteq S
  <2>1. \A n \in csr.sans : Kind[n] \in Kinds
    BY DEF WellFormed
  <2> QED  BY <1>2, <2>1, DefaultSANs
<1>5. S \subseteq Vouching(c) /\ c.subject \in Vouching(c)
  BY DEF S, Vouching, JwkNames
<1>6. CASE p.template
  <2>2. Leaf(p, c, csr).cn = csr.cn /\ Leaf(p, c, csr).sans = csr.sans
    BY <1>0, <1>6, LeafIs, SMTT(60)
  <2> QED  BY <1>0, <1>3, <1>4, <1>5, <2>2 DEF LeafVouched, LeafAsked
<1>7. CASE ~ p.template
  <2>2. Leaf(p, c, csr).cn = c.subject /\ Leaf(p, c, csr).sans = S
    BY <1>0, <1>2, <1>7, LeafIs, SMTT(60)
  <2> QED  BY <1>0, <1>3, <1>4, <1>5, <2>2 DEF LeafVouched, LeafAsked
<1> QED  BY <1>6, <1>7

(* Nebula: the names of the Nebula certificate.                             *)
LEMMA NebulaLeaf ==
  ASSUME WellFormed, NEW p \in SignProvisioners, NEW c \in Credentials[p.name], NEW csr \in CSRs,
         p.type = "Nebula", Accepted(p, c, csr)
  PROVE  LeafVouched(p, c, csr) /\ LeafAsked(p, c, csr)
<1> DEFINE S == NebulaNames(c)
           W == nebulaSANsValidator(Head(c.names), Elements(c.names))
<1>0. p.type # "ACME" /\ Presented(p, c, csr) = csr
  <2>1. p.type # "ACME"
    OBVIOUS
  <2> QED  BY <2>1, NotAcme
<1>1. Options(p, c, csr) = SignOptions({commonNameValidator(c.subject)} \cup W, c.subject, S, "leaf")
  BY NebulaOptions
<1> HIDE DEF S
<1>2. /\ Options(p, c, csr).cn = c.subject /\ Options(p, c, csr).sans = S /\ Options(p, c, csr).template = "leaf"
      /\ \A v \in W : Valid(v, csr)
      /\ Valid(commonNameValidator(c.subject), csr)
  <2> HIDE DEF W
  <2> QED  BY <1>0, <1>1, AcceptedIs, SMTT(60)
<1>3. csr.cn \in {c.subject, ""}
  BY <1>2, ValidCN
<1>4. csr.sans \subseteq Elements(c.names)
  <2>1. \A n \in csr.sans : Kind[n] \in Kinds
    BY DEF WellFormed
  <2>2. csr.sans \subseteq {Head(c.names)} \cup Elements(c.names)
    BY <1>2, <2>1, NebulaSANs
  <2>3. c.names \in Seq(DOMAIN Kind) \ {<<>>}
    BY DEF WellFormed
  <2>4. 1 \in DOMAIN c.names /\ Head(c.names) = c.names[1]
    BY <2>3, SMTT(60)
  <2>5. Head(c.names) \in Elements(c.names)
    BY <2>4 DEF Elements
  <2> QED  BY <2>2, <2>5
<1>5. S \subseteq Vouching(c) /\ c.subject \in Vouching(c) /\ Elements(c.names) \subseteq Vouching(c)
  BY DEF S, Vouching, NebulaNames
<1>6. Leaf(p, c, csr).sans \subseteq Vouching(c) /\ Leaf(p, c, csr).cn \in Vouching(c) \cup {""}
  <2>1. CASE p.template
    <3>2. Leaf(p, c, csr).cn = csr.cn /\ Leaf(p, c, csr).sans = csr.sans
      BY <1>0, <2>1, LeafIs, SMTT(60)
    <3> QED  BY <1>3, <1>4, <1>5, <3>2
  <2>2. CASE ~ p.template
    <3>2. Leaf(p, c, csr).cn = c.subject /\ Leaf(p, c, csr).sans = S
      BY <1>0, <1>2, <2>2, LeafIs, SMTT(60)
    <3> QED  BY <1>5, <3>2
  <2> QED  BY <2>1, <2>2
<1>7. ~ Trusting(p, c)
  BY DEF Trusting, Attesting, InstanceTypes
<1> QED  BY <1>6, <1>7 DEF LeafVouched, LeafAsked

(* The clouds: the names of the instance, or the ones of the request.       *)
LEMMA CloudLeaf ==
  ASSUME WellFormed, NEW p \in SignProvisioners, NEW c \in Credentials[p.name], NEW csr \in CSRs,
         p.type \in InstanceTypes, Accepted(p, c, csr)
  PROVE  LeafVouched(p, c, csr) /\ LeafAsked(p, c, csr)
<1> DEFINE S == Elements(c.names)
<1>0. p.type # "ACME" /\ p.type \notin {"OIDC", "K8sSA", "SCEP"} /\ Presented(p, c, csr) = csr
  <2>1. p.type # "ACME" /\ p.type \notin {"OIDC", "K8sSA", "SCEP"}
    BY DEF InstanceTypes
  <2> QED  BY <2>1, NotAcme
<1>1. PICK V, cns :
        /\ Options(p, c, csr) = SignOptions(V, c.subject, InstanceSANs(p, c), "iid")
        /\ InstanceValidators(p, c) \subseteq V
        /\ cns \subseteq Vouching(c)
        /\ p.disableCustomSANs => commonNameSliceValidator(cns) \in V
  <2>1. CASE p.type = "AWS"
    <3> DEFINE W == InstanceValidators(p, c) \cup {commonNameSliceValidator({c.subject})}
    <3>1. Options(p, c, csr) = SignOptions(W, c.subject, InstanceSANs(p, c), "iid")
      BY <1>0, <2>1, AuthorizeSignIs DEF Options, AwsAuthorizeSign, commonNameValidator
    <3>2. {c.subject} \subseteq Vouching(c)
      BY DEF Vouching
    <3>3. InstanceValidators(p, c) \subseteq W /\ (p.disableCustomSANs => commonNameSliceValidator({c.subject}) \in W)
      OBVIOUS
    <3> HIDE DEF W
    <3> QED  BY <3>1, <3>2, <3>3
  <2>2. CASE p.type = "GCP"
    <3> DEFINE W == InstanceValidators(p, c)
                    \cup (IF p.disableCustomSANs THEN {commonNameSliceValidator(c.cns)} ELSE {})
    <3>1. Options(p, c, csr) = SignOptions(W, c.subject, InstanceSANs(p, c), "iid")
      BY <1>0, <2>2, AuthorizeSignIs DEF Options, GcpAuthorizeSign
    <3>2. c.cns \subseteq Vouching(c)
      BY DEF Vouching
    <3>3. InstanceValidators(p, c) \subseteq W /\ (p.disableCustomSANs => commonNameSliceValidator(c.cns) \in W)
      OBVIOUS
    <3> HIDE DEF W
    <3> QED  BY <3>1, <3>2, <3>3
  <2>3. CASE p.type = "Azure"
    <3> DEFINE W == InstanceValidators(p, c)
                    \cup (IF p.disableCustomSANs THEN {commonNameSliceValidator({c.subject})} ELSE {})
    <3>1. Options(p, c, csr) = SignOptions(W, c.subject, InstanceSANs(p, c), "iid")
      BY <1>0, <2>3, AuthorizeSignIs DEF Options, AzureAuthorizeSign, commonNameValidator
    <3>2. {c.subject} \subseteq Vouching(c)
      BY DEF Vouching
    <3>3. InstanceValidators(p, c) \subseteq W /\ (p.disableCustomSANs => commonNameSliceValidator({c.subject}) \in W)
      OBVIOUS
    <3> HIDE DEF W
    <3> QED  BY <3>1, <3>2, <3>3
  <2> QED  BY <2>1, <2>2, <2>3 DEF InstanceTypes
<1>2. /\ Options(p, c, csr).sans = InstanceSANs(p, c) /\ Options(p, c, csr).template = "iid"
      /\ \A v \in V : Valid(v, csr)
  BY <1>0, <1>1, AcceptedIs, SMTT(60)
<1>3. Leaf(p, c, csr).cn = csr.cn
  BY <1>0, <1>2, LeafIs, SMTT(60)
<1>4. Leaf(p, c, csr).sans = csr.sans \/ (Leaf(p, c, csr).sans = InstanceSANs(p, c) /\ InstanceSANs(p, c) # {})
  BY <1>0, <1>2, LeafIs, SMTT(60)
<1>5. CASE ~ p.disableCustomSANs
  <2>1. InstanceSANs(p, c) = {}
    BY <1>5 DEF InstanceSANs
  <2>2. Leaf(p, c, csr).sans = csr.sans
    BY <1>4, <2>1
  <2>3. Trusting(p, c)
    BY <1>5 DEF Trusting
  <2> QED  BY <1>0, <1>3, <2>2, <2>3 DEF LeafVouched, LeafAsked
<1>6. CASE p.disableCustomSANs
  <2>1. InstanceSANs(p, c) = S /\ InstanceValidators(p, c) = defaultSANsValidator(S)
    BY <1>6 DEF InstanceSANs, InstanceValidators
  <2>2. \A n \in csr.sans : Kind[n] \in Kinds
    BY DEF WellFormed
  <2>3. \A v \in defaultSANsValidator(S) : Valid(v, csr)
    BY <1>1, <1>2, <2>1
  <2>4. (\A k \in Kinds : OfKind(k, csr.sans) \in {{}, OfKind(k, S)}) /\ csr.sans \subseteq S
    BY <2>2, <2>3, DefaultSANs
  <2>5. csr.cn \in cns \cup {""}
    <3>1. Valid(commonNameSliceValidator(cns), csr)
      BY <1>1, <1>2, <1>6
    <3> QED  BY <3>1, ValidCN
  <2>6. S \subseteq Vouching(c)
    BY DEF Vouching
  <2>7. LeafVouched(p, c, csr)
    BY <1>1, <1>3, <1>4, <2>1, <2>4, <2>5, <2>6 DEF LeafVouched
  <2>8. LeafAsked(p, c, csr)
    <3>1. \A k \in Kinds : OfKind(k, csr.sans) \in {{}, OfKind(k, Leaf(p, c, csr).sans)}
      BY <1>4, <2>1, <2>4
    <3> QED  BY <1>0, <1>3, <3>1 DEF LeafAsked
  <2> QED  BY <2>7, <2>8
<1> QED  BY <1>5, <1>6

(* OIDC: the names of the identity, or the ones of the request.             *)
LEMMA OidcLeaf ==
  ASSUME NEW p, NEW c, NEW csr, p.type = "OIDC"
  PROVE  LeafVouched(p, c, csr) /\ LeafAsked(p, c, csr)
<1>0. p.type # "ACME" /\ Presented(p, c, csr) = csr
  <2>1. p.type # "ACME"
    OBVIOUS
  <2> QED  BY <2>1, NotAcme
<1>1. Options(p, c, csr) = SignOptions({}, c.subject, Elements(c.names), IF ~ p.template /\ c.admin THEN "admin" ELSE "leaf")
  BY <1>0, AuthorizeSignIs DEF Options, OidcAuthorizeSign
<1>2. /\ Options(p, c, csr).cn = c.subject /\ Options(p, c, csr).sans = Elements(c.names)
      /\ Options(p, c, csr).template = IF ~ p.template /\ c.admin THEN "admin" ELSE "leaf"
  BY <1>1, AcceptedIs, SMTT(60)
<1>3. CASE p.template \/ c.admin
  <2>1. Leaf(p, c, csr).cn = csr.cn /\ Leaf(p, c, csr).sans = csr.sans
    BY <1>0, <1>2, <1>3, LeafIs, SMTT(60)
  <2>2. Trusting(p, c)
    BY <1>3 DEF Trusting
  <2> QED  BY <1>0, <2>1, <2>2 DEF LeafVouched, LeafAsked
<1>4. CASE ~ p.template /\ ~ c.admin
  <2>1. Leaf(p, c, csr).cn = c.subject /\ Leaf(p, c, csr).sans = Elements(c.names)
    BY <1>0, <1>2, <1>4, LeafIs
  <2>2. ~ Trusting(p, c)
    BY <1>4 DEF Trusting, Attesting, InstanceTypes
  <2>3. c.subject \in Vouching(c) /\ Elements(c.names) \subseteq Vouching(c)
    BY DEF Vouching
  <2> QED  BY <2>1, <2>2, <2>3 DEF LeafVouched, LeafAsked
<1> QED  BY <1>3, <1>4

(* Kubernetes and SCEP: the names of the request.                           *)
LEMMA RequestLeaf ==
  ASSUME NEW p, NEW c, NEW csr, p.type \in {"K8sSA", "SCEP"}
  PROVE  LeafVouched(p, c, csr) /\ LeafAsked(p, c, csr)
<1>0. p.type # "ACME" /\ Presented(p, c, csr) = csr
  <2>1. p.type # "ACME"
    OBVIOUS
  <2> QED  BY <2>1, NotAcme
<1>1. Trusting(p, c)
  BY DEF Trusting
<1>2. Leaf(p, c, csr).cn = csr.cn /\ (Leaf(p, c, csr).sans = csr.sans \/ csr.sans = {})
  <2>1. CASE p.type = "K8sSA"
    <3>1. Options(p, c, csr) = SignOptions({}, c.subject, {}, "admin")
      BY <1>0, <2>1, AuthorizeSignIs, SMTT(60) DEF Options, K8sAuthorizeSign
    <3>2. Options(p, c, csr).template = "admin"
      BY <3>1, AcceptedIs, SMTT(60)
    <3> QED  BY <1>0, <3>2, LeafIs, SMTT(60)
  <2>2. CASE p.type = "SCEP"
    <3> DEFINE S == IF csr.sans = {} THEN {csr.cn} ELSE csr.sans
    <3>1. Options(p, c, csr) = ScepSign(p, c, csr)
      BY <1>0, <2>2, AuthorizeSignIs, SMTT(60) DEF Options
    <3>2. Options(p, c, csr).cn = csr.cn /\ Options(p, c, csr).sans = S
          /\ Options(p, c, csr).template = IF c.viaToken THEN "admin" ELSE "leaf"
      BY <3>1 DEF ScepSign, SignOptions
    <3> HIDE DEF S
    <3>3. Leaf(p, c, csr).cn = csr.cn /\ (Leaf(p, c, csr).sans = csr.sans \/ Leaf(p, c, csr).sans = S)
      <4>1. CASE p.template \/ c.viaToken
        BY <1>0, <3>2, <4>1, LeafIs, SMTT(60)
      <4>2. CASE ~ p.template /\ ~ c.viaToken
        BY <1>0, <3>2, <4>2, LeafIs, SMTT(60)
      <4> QED  BY <4>1, <4>2
    <3> QED  BY <3>3 DEF S
  <2> QED  BY <2>1, <2>2
<1>3. \A k : OfKind(k, csr.sans) \in {{}, OfKind(k, Leaf(p, c, csr).sans)}
  <2>1. csr.sans = {} => \A k : OfKind(k, csr.sans) = {}
    BY DEF OfKind
  <2> QED  BY <1>2, <2>1
<1> QED  BY <1>0, <1>1, <1>2, <1>3 DEF LeafVouched, LeafAsked

(* An OIDC token with a subject.                                            *)
HasSubject(c) == c.subject # ""

(* A credential that is an order for names, or for a permanent identifier.  *)
NamesOrder(c) == ~ c.viaToken /\ c.pid = ""
AttestedOrder(c) == ~ c.viaToken /\ c.pid # ""

(* The common name of a request counts among its names.                     *)
LEMMA CanonicalIs ==
  ASSUME NEW csr
  PROVE  canonicalize(csr).sans = csr.sans \cup ({csr.cn} \ {""}) /\ canonicalize(csr).cn = csr.cn
BY SMTT(60) DEF canonicalize

(* ACME: the names of the order, which the request repeats.                 *)
LEMMA OrderLeaf ==
  ASSUME NEW p, NEW c, NEW csr, p.type = "ACME", NamesOrder(c), Accepted(p, c, csr)
  PROVE  LeafVouched(p, c, csr) /\ LeafAsked(p, c, csr)
<1> DEFINE got == Presented(p, c, csr)
           order == [v |-> "order", want |-> Elements(c.names)]
<1>0. got.sans = csr.sans \cup ({csr.cn} \ {""}) /\ got.cn = csr.cn
  <2>1. got = canonicalize(csr)
    BY DEF Presented, NamesOrder
  <2> QED  BY <2>1, CanonicalIs
<1>1. Options(p, c, csr) = SignOptions({order}, got.cn, Elements(c.names), "leaf")
  <2>1. Options(p, c, csr) = AcmeSign(c, got)
    BY AuthorizeSignIs DEF Options
  <2> HIDE DEF got
  <2> QED  BY <2>1 DEF AcmeSign, NamesOrder
<1>2. Valid(order, got) => got.sans = Elements(c.names)
  BY ValidIs
<1> HIDE DEF order
<1>3. /\ Options(p, c, csr).cn = csr.cn /\ Options(p, c, csr).sans = Elements(c.names)
      /\ Options(p, c, csr).template = "leaf" /\ Valid(order, got)
  <2>1. /\ Options(p, c, csr).cn = got.cn /\ Options(p, c, csr).sans = Elements(c.names)
        /\ Options(p, c, csr).template = "leaf"
        /\ Accepted(p, c, csr) <=> \A v \in {order} \cup {defaultPublicKeyValidator} : Valid(v, got)
    BY <1>1, AcceptedIs, SMTT(60)
  <2> QED  BY <1>0, <2>1
<1>4. got.sans = Elements(c.names) /\ Leaf(p, c, csr).cn = csr.cn /\ Leaf(p, c, csr).sans = Elements(c.names)
  <2>1. got.sans = Elements(c.names)
    BY <1>2, <1>3
  <2>2. \/ Leaf(p, c, csr).cn = got.cn /\ Leaf(p, c, csr).sans = got.sans
        \/ Leaf(p, c, csr).cn = Options(p, c, csr).cn /\ Leaf(p, c, csr).sans = Options(p, c, csr).sans
    BY <1>3, LeafIs
  <2> QED  BY <1>0, <1>3, <2>1, <2>2
<1> HIDE DEF got
<1>5. Elements(c.names) \subseteq Vouching(c) /\ csr.cn \in Vouching(c) \cup {""}
  BY <1>0, <1>4 DEF Vouching
<1> QED  BY <1>4, <1>5 DEF LeafVouched, LeafAsked, got

(* ACME: an order for a permanent identifier names that identifier, or with *)
(* a custom template what the request does.                                 *)
LEMMA AttestedLeaf ==
  ASSUME NEW p, NEW c, NEW csr, p.type = "ACME", AttestedOrder(c)
  PROVE  LeafVouched(p, c, csr) /\ LeafAsked(p, c, csr)
<1> DEFINE got == Presented(p, c, csr)
<1>0. got.cn = csr.cn
  <2>1. got = canonicalize(csr)
    BY DEF Presented, AttestedOrder
  <2> QED  BY <2>1, CanonicalIs
<1>1. Options(p, c, csr) = SignOptions({}, got.cn, {c.pid}, "leaf")
  <2>1. Options(p, c, csr) = AcmeSign(c, got)
    BY AuthorizeSignIs DEF Options
  <2> HIDE DEF got
  <2> QED  BY <2>1 DEF AcmeSign, AttestedOrder
<1> HIDE DEF got
<1>2. Options(p, c, csr).sans = {c.pid} /\ Options(p, c, csr).template = "leaf"
  BY <1>1, AcceptedIs, SMTT(60)
<1>3. Attesting(p, c)
  BY DEF Attesting, AttestedOrder
<1>4. CASE p.template
  <2>1. Leaf(p, c, csr).cn = got.cn /\ Leaf(p, c, csr).sans = got.sans
    BY <1>4, LeafIs DEF got
  <2>2. Trusting(p, c)
    BY <1>3, <1>4 DEF Trusting
  <2> QED  BY <1>0, <2>1, <2>2 DEF LeafVouched, LeafAsked, got
<1>5. CASE ~ p.template
  <2>1. Leaf(p, c, csr).sans = {c.pid}
    BY <1>2, <1>5, LeafIs
  <2>2. ~ Trusting(p, c)
    BY <1>5 DEF Trusting, AttestedOrder, InstanceTypes
  <2>3. {c.pid} \subseteq Vouching(c)
    BY DEF Vouching
  <2> QED  BY <1>3, <2>1, <2>2, <2>3 DEF LeafVouched, LeafAsked
<1> QED  BY <1>4, <1>5

(* ACME, reached by a token at the sign endpoint: the request.              *)
LEMMA AddressedLeaf ==
  ASSUME NEW p, NEW c, NEW csr, p.type = "ACME", c.viaToken
  PROVE  LeafVouched(p, c, csr) /\ LeafAsked(p, c, csr)
<1>0. Presented(p, c, csr) = csr
  BY DEF Presented
<1>1. Options(p, c, csr) = SignOptions({}, csr.cn, csr.sans, "admin")
  BY <1>0, AuthorizeSignIs DEF Options, AcmeSign
<1>2. Options(p, c, csr).template = "admin"
  BY <1>1, AcceptedIs, SMTT(60)
<1>3. Leaf(p, c, csr).cn = csr.cn /\ Leaf(p, c, csr).sans = csr.sans
  BY <1>0, <1>2, LeafIs, SMTT(60)
<1>4. Trusting(p, c)
  BY DEF Trusting
<1> QED  BY <1>0, <1>3, <1>4 DEF LeafVouched, LeafAsked

(* Of every type.                                                           *)
LEMMA LeafOK ==
  ASSUME WellFormed, NEW p \in SignProvisioners, NEW c \in Credentials[p.name], NEW csr \in CSRs, Accepted(p, c, csr)
  PROVE  LeafVouched(p, c, csr) /\ LeafAsked(p, c, csr)
<1>1. p.type \in SignTypes
  BY DEF WellFormed
<1>2. CASE p.type \in {"JWK", "X5C"}
  BY <1>2, JwkLeaf
<1>3. CASE p.type = "Nebula"
  BY <1>3, NebulaLeaf
<1>4. CASE p.type \in InstanceTypes
  BY <1>4, CloudLeaf
<1>5. CASE p.type = "OIDC"
  BY <1>5, OidcLeaf
<1>6. CASE p.type \in {"K8sSA", "SCEP"}
  BY <1>6, RequestLeaf, SMTT(60)
<1>7. CASE p.type = "ACME"
  <2>1. NamesOrder(c) \/ AttestedOrder(c) \/ c.viaToken
    BY DEF NamesOrder, AttestedOrder
  <2> QED  BY <1>7, <2>1, OrderLeaf, AttestedLeaf, AddressedLeaf
<1> QED  BY <1>1, <1>2, <1>3, <1>4, <1>5, <1>6, <1>7 DEF SignTypes, InstanceTypes

(* A request that asks for nothing passes every validator of names and key. *)
LEMMA EmptyValid ==
  ASSUME NEW csr, csr.cn = "", csr.sans = {}, csr.key.alg = "ec"
  PROVE  /\ \A S : \A v \in defaultSANsValidator(S) : Valid(v, csr)
         /\ \A n, S : \A v \in nebulaSANsValidator(n, S) : Valid(v, csr)
         /\ \A S : Valid(commonNameSliceValidator(S), csr)
         /\ \A cn : Valid(commonNameValidator(cn), csr)
         /\ Valid(defaultPublicKeyValidator, csr)
<1>1. \A k : OfKind(k, csr.sans) = {}
  BY DEF OfKind
<1>2. \A S : /\ Valid(dnsNamesValidator(S), csr) /\ Valid(emailAddressesValidator(S), csr)
             /\ Valid(ipAddressesValidator(S), csr) /\ Valid(urisValidator(S), csr)
  BY <1>1, ValidNames
<1>3. \A S : Valid([v |-> "ips", want |-> S], csr)
  BY <1>1, ValidIs
<1>4. \A S : \A v \in defaultSANsValidator(S) : Valid(v, csr)
  BY <1>2 DEF defaultSANsValidator
<1>5. \A n, S : \A v \in nebulaSANsValidator(n, S) : Valid(v, csr)
  BY <1>2, <1>3 DEF nebulaSANsValidator
<1>6. \A S : Valid(commonNameSliceValidator(S), csr)
  BY ValidCN
<1>7. \A cn : Valid(commonNameValidator(cn), csr)
  BY <1>6 DEF commonNameValidator
<1>8. Valid(defaultPublicKeyValidator, csr)
  <2>1. defaultPublicKeyValidator.v = "key"
    BY DEF defaultPublicKeyValidator
  <2> QED  BY <2>1 DEF Valid, KeyAllowed
<1> QED  BY <1>4, <1>5, <1>6, <1>7, <1>8

(* Acceptance of a request, and a leaf that names somebody.                 *)
LEMMA PlainAccepted ==
  ASSUME NEW p, NEW c, NEW csr, NEW vs, NEW S, NEW t, t \in {"leaf", "iid"}, S # {}, ~ p.template,
         Presented(p, c, csr) = csr, Options(p, c, csr) = SignOptions(vs, c.subject, S, t),
         \A v \in vs : Valid(v, csr), \A v : v = defaultPublicKeyValidator => Valid(v, csr)
  PROVE  Accepted(p, c, csr) /\ Leaf(p, c, csr).sans # {}
<1>1. /\ Accepted(p, c, csr) <=> \A v \in vs \cup {defaultPublicKeyValidator} : Valid(v, Presented(p, c, csr))
      /\ Options(p, c, csr).sans = S /\ Options(p, c, csr).template = t
  BY AcceptedIs, SMTT(60)
<1>2. Accepted(p, c, csr)
  BY <1>1
<1>3. Leaf(p, c, csr).sans = S
  BY <1>1, LeafIs
<1> QED  BY <1>2, <1>3

(* It gets a leaf that names somebody.                                      *)
LEMMA PlainLeaf ==
  ASSUME NEW p, NEW c, NEW csr, csr.cn = "", csr.sans = {}, csr.key.alg = "ec",
         p.type \in SignTypes, p.type # "ACME", ~ Trusting(p, c), ~ p.template,
         p.type \notin {"JWK", "X5C"} => Elements(c.names) # {}
  PROVE  Accepted(p, c, csr) /\ Leaf(p, c, csr).sans # {}
<1>0. Presented(p, c, csr) = csr
  BY NotAcme
<1>1. \A v : v = defaultPublicKeyValidator => Valid(v, csr)
  BY EmptyValid
<1>2. CASE p.type \in {"JWK", "X5C"}
  <2> DEFINE S == JwkNames(c)
             vs == {commonNameValidator(c.subject)} \cup defaultSANsValidator(S)
  <2>1. Options(p, c, csr) = SignOptions(vs, c.subject, S, "leaf")
    <3>1. Options(p, c, csr) = JwkAuthorizeSign(c)
      BY <1>2, JwkOptions
    <3> QED  BY <3>1, JwkOptions
  <2>2. S # {}
    BY DEF JwkNames
  <2>3. \A v \in vs : Valid(v, csr)
    <3> HIDE DEF S
    <3> QED  BY EmptyValid
  <2> HIDE DEF S, vs
  <2> QED  BY <1>0, <1>1, PlainAccepted, <2>1, <2>2, <2>3
<1>3. CASE p.type = "Nebula"
  <2> DEFINE S == NebulaNames(c)
             vs == {commonNameValidator(c.subject)} \cup nebulaSANsValidator(Head(c.names), Elements(c.names))
  <2>1. Options(p, c, csr) = SignOptions(vs, c.subject, S, "leaf")
    BY <1>3, NebulaOptions
  <2>2. S # {}
    BY <1>3 DEF NebulaNames
  <2>3. \A v \in vs : Valid(v, csr)
    BY EmptyValid
  <2> HIDE DEF S, vs
  <2> QED  BY <1>0, <1>1, PlainAccepted, <2>1, <2>2, <2>3
<1>4. CASE p.type \in InstanceTypes
  <2>1. p.disableCustomSANs /\ p.type \notin {"JWK", "X5C"}
    BY <1>4 DEF Trusting, InstanceTypes
  <2>2. InstanceSANs(p, c) = Elements(c.names) /\ InstanceValidators(p, c) = defaultSANsValidator(Elements(c.names))
    BY <2>1 DEF InstanceSANs, InstanceValidators
  <2>3. PICK n : /\ Options(p, c, csr) = SignOptions(InstanceValidators(p, c) \cup {n}, c.subject, InstanceSANs(p, c), "iid")
                 /\ Valid(n, csr)
    <3>1. CASE p.type = "AWS"
      <4>1. Options(p, c, csr) = SignOptions(InstanceValidators(p, c) \cup {commonNameValidator(c.subject)},
                                            c.subject, InstanceSANs(p, c), "iid")
        BY <1>0, <3>1, AuthorizeSignIs DEF Options, AwsAuthorizeSign
      <4> QED  BY <4>1, EmptyValid
    <3>2. CASE p.type = "GCP"
      <4>1. Options(p, c, csr) = SignOptions(InstanceValidators(p, c) \cup {commonNameSliceValidator(c.cns)},
                                            c.subject, InstanceSANs(p, c), "iid")
        BY <1>0, <2>1, <3>2, AuthorizeSignIs DEF Options, GcpAuthorizeSign
      <4> QED  BY <4>1, EmptyValid
    <3>3. CASE p.type = "Azure"
      <4>1. Options(p, c, csr) = SignOptions(InstanceValidators(p, c) \cup {commonNameValidator(c.subject)},
                                            c.subject, InstanceSANs(p, c), "iid")
        BY <1>0, <2>1, <3>3, AuthorizeSignIs DEF Options, AzureAuthorizeSign
      <4> QED  BY <4>1, EmptyValid
    <3> QED  BY <1>4, <3>1, <3>2, <3>3 DEF InstanceTypes
  <2> DEFINE vs == InstanceValidators(p, c) \cup {n}
  <2>4. \A v \in vs : Valid(v, csr)
    BY <2>2, <2>3, EmptyValid
  <2>5. Options(p, c, csr) = SignOptions(vs, c.subject, Elements(c.names), "iid")
    BY <2>2, <2>3
  <2> HIDE DEF vs
  <2> QED  BY <1>0, <1>1, PlainAccepted, <2>1, <2>4, <2>5
<1>5. CASE p.type = "OIDC"
  <2>1. ~ c.admin /\ p.type \notin {"JWK", "X5C"}
    BY <1>5 DEF Trusting
  <2>2. Options(p, c, csr) = SignOptions({}, c.subject, Elements(c.names), "leaf")
    BY <1>0, <1>5, <2>1, AuthorizeSignIs DEF Options, OidcAuthorizeSign
  <2> QED  BY <1>0, <1>1, PlainAccepted, <2>1, <2>2
<1>6. p.type \notin {"K8sSA", "SCEP"}
  BY DEF Trusting
<1> QED  BY <1>2, <1>3, <1>4, <1>5, <1>6 DEF SignTypes, InstanceTypes

(* The default common name is for a leaf without one.                       *)
LEMMA DefaultedIs ==
  ASSUME NEW p, NEW c, NEW csr
  PROVE  /\ withDefaultASN1DN(Leaf(p, c, csr)).sans = Leaf(p, c, csr).sans
         /\ withDefaultASN1DN(Leaf(p, c, csr)).cn = IF Leaf(p, c, csr).cn = "" THEN defaultCN ELSE Leaf(p, c, csr).cn
BY SMTT(60) DEF withDefaultASN1DN

(* Authority.Sign: the leaf is issued, with a common name that may be the   *)
(* default or come from its names, or the request is refused.               *)
LEMMA SignIs ==
  ASSUME NEW p, NEW c, NEW csr, Sign(p, c, csr)
  PROVE  /\ ask' = [op |-> "Sign", prov |-> p, cred |-> c, csr |-> csr] /\ UNCHANGED << signers, defaultCN >>
         /\ \/ cert' = Refused
            \/ /\ Accepted(p, c, csr)
               /\ \E cn \in forceCNOption(p, withDefaultASN1DN(Leaf(p, c, csr))) :
                    cert' = [st |-> "x509", cn |-> cn, sans |-> Leaf(p, c, csr).sans]
         /\ Accepted(p, c, csr) /\ ~ p.forceCN /\ p.x509 = NoPolicy => cert' # Refused
<1> DEFINE tpl == withDefaultASN1DN(Leaf(p, c, csr))
           cns == forceCNOption(p, tpl)
           ok == Accepted(p, c, csr) /\ cns # {}
           Answer(cn) == IF x509NamePolicyValidator(p, [tpl EXCEPT !.cn = cn])
                         THEN [st |-> "x509", cn |-> cn, sans |-> Leaf(p, c, csr).sans] ELSE Refused
<1>0. tpl.sans = Leaf(p, c, csr).sans
  BY DefaultedIs
<1>1. /\ ask' = [op |-> "Sign", prov |-> p, cred |-> c, csr |-> csr] /\ UNCHANGED << signers, defaultCN >>
      /\ cert' \in IF ~ ok THEN {Refused} ELSE {Answer(cn) : cn \in cns}
  <2> DEFINE Issued(cn) == IF x509NamePolicyValidator(p, [tpl EXCEPT !.cn = cn])
                           THEN [st |-> "x509", cn |-> cn, sans |-> tpl.sans] ELSE Refused
  <2>1. /\ ask' = [op |-> "Sign", prov |-> p, cred |-> c, csr |-> csr] /\ UNCHANGED << signers, defaultCN >>
        /\ cert' \in IF ~ ok THEN {Refused} ELSE {Issued(cn) : cn \in cns}
    BY DEF Sign, Accepted, Options, Leaf
  <2> QED  BY <1>0, <2>1
<1>2. cert' = Refused \/ (ok /\ \E cn \in cns : cert' = [st |-> "x509", cn |-> cn, sans |-> Leaf(p, c, csr).sans])
  <2> HIDE DEF cns, ok
  <2>1. CASE ~ ok
    BY <1>1, <2>1
  <2>2. CASE ok
    BY <1>1, <2>2
  <2> QED  BY <2>1, <2>2
<1>3. ASSUME Accepted(p, c, csr), ~ p.forceCN, p.x509 = NoPolicy
      PROVE  cert' # Refused
  <2>1. cns = {tpl.cn}
    BY <1>3 DEF forceCNOption
  <2>2. ok
    BY <1>3, <2>1
  <2> HIDE DEF ok
  <2>3. \A leaf : x509NamePolicyValidator(p, leaf)
    BY <1>3 DEF x509NamePolicyValidator
  <2>4. \A cn : Answer(cn) = [st |-> "x509", cn |-> cn, sans |-> Leaf(p, c, csr).sans]
    BY <2>3
  <2> HIDE DEF Answer
  <2>5. PICK cn \in cns : cert' = [st |-> "x509", cn |-> cn, sans |-> Leaf(p, c, csr).sans]
    BY <1>1, <2>2, <2>4
  <2>6. cert'.st = "x509"
    BY <2>5
  <2>7. Refused.st = "refused"
    BY DEF Refused
  <2> QED  BY <2>6, <2>7
<1> QED  BY <1>1, <1>2, <1>3

(* The SSH certificate the template makes, and what SignSSH asks of it.     *)
SSHCert(p, c, got) == NewSSHCertificate(p, AuthorizeSSHSign(p, c), got)
OptionsMatch(p, c, got) ==
  /\ AuthorizeSSHSign(p, c).ok
  /\ \A want \in AuthorizeSSHSign(p, c).wants : match(want, got)
  /\ Required(AuthorizeSSHSign(p, c).fields, got)
CertAllowed(p, c, got) ==
  LET crt == SSHCert(p, c, got)
  IN SignerFor(crt.type) /\ crt.keyID # "" /\ SSHKeyAllowed(got.key) /\ sshNamePolicyValidator(AuthorizeSSHSign(p, c), crt)
Sound(got) == got.type \in {"", "user", "host"} /\ "" \notin Elements(got.principals)

SSHTrusting(p, c) ==
  \/ p.type \in InstanceTypes /\ ~ p.disableCustomSANs
  \/ p.type = "K8sSA"
  \/ p.type = "OIDC" /\ (c.admin \/ (p.template /\ (~ c.email \/ c.users = <<>>)))
  \/ p.type \in {"JWK", "X5C", "Nebula"} /\ p.template /\ c.ssh.principals = <<>>

SSHVouching(p, c) ==
  Members(CASE p.type \in {"JWK", "X5C"} -> OrElse(c.ssh.principals, <<>>, <<c.subject>>)
            [] p.type = "Nebula" -> OrElse(c.ssh.principals, <<>>, c.names)
            [] p.type = "OIDC" -> IF c.email THEN c.users ELSE <<>>
            [] OTHER -> c.names)

TypeAs(p, c, type) ==
  /\ p.type \in InstanceTypes => type = "host"
  /\ p.type = "Nebula" /\ ~ (p.template /\ c.ssh = NoSSH) => type = "host"
  /\ p.type = "OIDC" /\ ~ c.admin => type = "user"
  /\ p.type \in {"JWK", "X5C"} => c.ssh.type \in {"", type}

UserPolicy(p) == IF p.type \in InstanceTypes \cup {"Nebula"} THEN NoPolicy ELSE p.user
PolicyHolds(p, crt) ==
  LET policy == IF crt.type = "host" THEN p.host ELSE UserPolicy(p)
      other  == IF crt.type = "host" THEN UserPolicy(p) ELSE p.host
  IN IF policy = NoPolicy THEN other = NoPolicy ELSE Elements(crt.principals) \subseteq policy

(* What an SSH certificate says of the credential.                          *)
CertVouched(p, c, got) ==
  /\ ~ SSHTrusting(p, c) => Members(SSHCert(p, c, got).principals) \subseteq SSHVouching(p, c)
  /\ TypeAs(p, c, SSHCert(p, c, got).type)
  /\ AuthorizeSSHSign(p, c).host = p.host /\ AuthorizeSSHSign(p, c).user = UserPolicy(p)

(* AuthorizeSSHSign dispatches on the type.                                 *)
LEMMA AuthorizeSSHSignIs ==
  ASSUME NEW p, NEW c
  PROVE  /\ p.type \in {"JWK", "X5C"} => AuthorizeSSHSign(p, c) = JwkAuthorizeSSHSign(p, c)
         /\ p.type = "Nebula" => AuthorizeSSHSign(p, c) = NebulaAuthorizeSSHSign(p, c)
         /\ p.type \in InstanceTypes => AuthorizeSSHSign(p, c) = AwsAuthorizeSSHSign(p, c)
         /\ p.type = "OIDC" => AuthorizeSSHSign(p, c) = OidcAuthorizeSSHSign(p, c)
         /\ p.type = "K8sSA" => AuthorizeSSHSign(p, c) = K8sAuthorizeSSHSign(p, c)
         /\ p.type \in {"ACME", "SCEP"} => AuthorizeSSHSign(p, c) = NotAuthorized
<1>1. p.type = "JWK" => AuthorizeSSHSign(p, c) = JwkAuthorizeSSHSign(p, c)
  BY DEF AuthorizeSSHSign
<1>2. p.type = "X5C" => AuthorizeSSHSign(p, c) = JwkAuthorizeSSHSign(p, c)
  BY DEF AuthorizeSSHSign, X5cAuthorizeSSHSign
<1>3. p.type = "Nebula" => AuthorizeSSHSign(p, c) = NebulaAuthorizeSSHSign(p, c)
  BY DEF AuthorizeSSHSign
<1>4. p.type = "AWS" => AuthorizeSSHSign(p, c) = AwsAuthorizeSSHSign(p, c)
  BY DEF AuthorizeSSHSign
<1>5. p.type = "GCP" => AuthorizeSSHSign(p, c) = AwsAuthorizeSSHSign(p, c)
  BY DEF AuthorizeSSHSign, GcpAuthorizeSSHSign
<1>6. p.type = "Azure" => AuthorizeSSHSign(p, c) = AwsAuthorizeSSHSign(p, c)
  BY DEF AuthorizeSSHSign, AzureAuthorizeSSHSign
<1>7. p.type = "OIDC" => AuthorizeSSHSign(p, c) = OidcAuthorizeSSHSign(p, c)
  BY DEF AuthorizeSSHSign
<1>8. p.type = "K8sSA" => AuthorizeSSHSign(p, c) = K8sAuthorizeSSHSign(p, c)
  BY DEF AuthorizeSSHSign
<1>9. p.type = "ACME" => AuthorizeSSHSign(p, c) = NotAuthorized
  BY DEF AuthorizeSSHSign
<1>10. p.type = "SCEP" => AuthorizeSSHSign(p, c) = NotAuthorized
  BY DEF AuthorizeSSHSign
<1> QED  BY <1>1, <1>2, <1>3, <1>4, <1>5, <1>6, <1>7, <1>8, <1>9, <1>10 DEF InstanceTypes

(* The options, when AuthorizeSSHSign does not refuse.                      *)
LEMMA SSHOptionsIs ==
  ASSUME NEW wants, NEW fields, NEW data, NEW template, NEW host, NEW user
  PROVE  LET o == SSHOptions(wants, fields, data, template, host, user)
         IN  o.ok /\ o.wants = wants /\ o.fields = fields /\ o.data = data
             /\ o.template = template /\ o.host = host /\ o.user = user
BY DEF SSHOptions

(* The templates for SSH.                                                   *)
LEMMA SSHCertIs ==
  ASSUME NEW p, NEW c, NEW got
  PROVE  LET o == AuthorizeSSHSign(p, c)
             crt == SSHCert(p, c, got)
         IN  /\ (p.template \/ o.template = "request") =>
                  crt.type = got.type /\ crt.keyID = got.keyID /\ crt.principals = got.principals
             /\ ~ p.template /\ o.template = "default" => crt = o.data
             /\ ~ p.template /\ o.template = "iid" => crt = [o.data EXCEPT !.principals = OrElse(got.principals, <<>>, @)]
<1> DEFINE o == AuthorizeSSHSign(p, c)
<1>0. SSHCert(p, c, got) = NewSSHCertificate(p, o, got)
  BY DEF SSHCert
<1> HIDE DEF o
<1>1. (p.template \/ o.template = "request") =>
        SSHCert(p, c, got) = [type |-> got.type, keyID |-> got.keyID, principals |-> got.principals]
  BY <1>0 DEF NewSSHCertificate
<1>2. ~ p.template /\ o.template = "default" => SSHCert(p, c, got) = o.data
  BY <1>0 DEF NewSSHCertificate
<1>3. ~ p.template /\ o.template = "iid"
      => SSHCert(p, c, got) = [o.data EXCEPT !.principals = OrElse(got.principals, <<>>, @)]
  BY <1>0 DEF NewSSHCertificate
<1>4. (p.template \/ o.template = "request") =>
        /\ SSHCert(p, c, got).type = got.type /\ SSHCert(p, c, got).keyID = got.keyID
        /\ SSHCert(p, c, got).principals = got.principals
  BY <1>1, SMTT(60)
<1> QED  BY <1>2, <1>3, <1>4 DEF o

(* An empty list has no members.                                            *)
LEMMA EmptyMembers ==
  Members(<<>>) = {} /\ Elements(<<>>) = {}
BY SMTT(60) DEF Members, Elements

(* Principals that match the wanted ones are among them.                    *)
LEMMA MatchIs ==
  ASSUME NEW want, NEW got, match(want, got)
  PROVE  /\ want.principals # <<>> => Members(got.principals) \subseteq Members(want.principals)
         /\ got.type # "" => want.type \in {"", got.type}
<1>1. CASE got.principals = <<>>
  BY <1>1, EmptyMembers DEF match
<1>2. CASE got.principals # <<>>
  BY <1>2 DEF match, containsAllMembers
<1> QED  BY <1>1, <1>2

(* JWK and X5C: the SSH options of the token.                               *)
JwkData(c) ==
  [type |-> OrElse(c.ssh.type, "", "user"), keyID |-> OrElse(c.ssh.keyID, "", c.subject),
   principals |-> OrElse(c.ssh.principals, <<>>, <<c.subject>>)]

(* The parts of a token without SSH options.                                *)
LEMMA NoSSHIs ==
  NoSSH.type = "none" /\ NoSSH.keyID = "" /\ NoSSH.principals = <<>>
BY DEF NoSSH

(* The parts of the options that only want a type and principals.           *)
LEMMA WantIs ==
  ASSUME NEW type, NEW principals
  PROVE  /\ Want(type, principals).type = type /\ Want(type, principals).keyID = ""
         /\ Want(type, principals).principals = principals
BY DEF Want

(* The template data of JWK and X5C: the options of the token, with         *)
(* defaults.                                                                *)
LEMMA JwkDataIs ==
  ASSUME NEW c
  PROVE  /\ JwkData(c).type = OrElse(c.ssh.type, "", "user") /\ JwkData(c).keyID = OrElse(c.ssh.keyID, "", c.subject)
         /\ JwkData(c).principals = OrElse(c.ssh.principals, <<>>, <<c.subject>>)
BY DEF JwkData

(* JWK and X5C: an SSH certificate that passes the options is what the      *)
(* token vouches for.                                                       *)
LEMMA JwkSSH ==
  ASSUME NEW p, NEW c, NEW got, p.type \in {"JWK", "X5C"},
         OptionsMatch(p, c, got), SSHCert(p, c, got).type \in {"user", "host"}
  PROVE  CertVouched(p, c, got)
<1> DEFINE o == AuthorizeSSHSign(p, c)
           crt == SSHCert(p, c, got)
<1>1. c.ssh # NoSSH /\ o = SSHOptions({c.ssh}, {}, JwkData(c), "default", p.host, p.user)
  <2>1. o = JwkAuthorizeSSHSign(p, c)
    BY AuthorizeSSHSignIs
  <2>2. CASE c.ssh = NoSSH
    <3>1. o = NotAuthorized
      BY <2>1, <2>2 DEF JwkAuthorizeSSHSign
    <3>2. ~ o.ok
      BY <3>1, SMTT(60) DEF NotAuthorized
    <3> QED  BY <3>2 DEF OptionsMatch
  <2>3. CASE c.ssh # NoSSH
    BY <2>1, <2>3 DEF JwkAuthorizeSSHSign, JwkData
  <2> QED  BY <2>2, <2>3
<1>2. /\ o.wants = {c.ssh} /\ o.data = JwkData(c) /\ o.template = "default" /\ o.host = p.host /\ o.user = p.user
  BY <1>1, SSHOptionsIs, SMTT(60)
<1>3. match(c.ssh, got)
  BY <1>2 DEF OptionsMatch
<1>4. SSHVouching(p, c) = Members(OrElse(c.ssh.principals, <<>>, <<c.subject>>))
  BY DEF SSHVouching
<1>5. UserPolicy(p) = p.user
  BY DEF UserPolicy, InstanceTypes
<1>6. /\ ~ SSHTrusting(p, c) => Members(crt.principals) \subseteq SSHVouching(p, c)
      /\ c.ssh.type \in {"", crt.type}
  <2>1. CASE p.template
    <3>1. crt.type = got.type /\ crt.principals = got.principals
      BY <2>1, SSHCertIs, SMTT(60)
    <3>2. ~ SSHTrusting(p, c) => c.ssh.principals # <<>>
      BY <2>1 DEF SSHTrusting
    <3>3. c.ssh.principals # <<>> => Members(OrElse(c.ssh.principals, <<>>, <<c.subject>>)) = Members(c.ssh.principals)
      BY DEF OrElse
    <3>4. crt.type # ""
      OBVIOUS
    <3>5. /\ c.ssh.principals # <<>> => Members(got.principals) \subseteq Members(c.ssh.principals)
          /\ got.type # "" => c.ssh.type \in {"", got.type}
      BY <1>3, MatchIs
    <3>6. c.ssh.type \in {"", crt.type}
      BY <3>1, <3>4, <3>5
    <3> QED  BY <1>4, <3>1, <3>2, <3>3, <3>5, <3>6
  <2>2. CASE ~ p.template
    <3>1. crt = JwkData(c)
      BY <1>2, <2>2, SSHCertIs, SMTT(60)
    <3>2. crt.principals = OrElse(c.ssh.principals, <<>>, <<c.subject>>) /\ crt.type = OrElse(c.ssh.type, "", "user")
      BY <3>1, JwkDataIs
    <3>3. c.ssh.type \in {"", crt.type}
      BY <3>2 DEF OrElse
    <3> QED  BY <1>4, <3>2, <3>3
  <2> QED  BY <2>1, <2>2
<1>7. TypeAs(p, c, crt.type)
  BY <1>6 DEF TypeAs, InstanceTypes
<1> QED  BY <1>2, <1>5, <1>6, <1>7 DEF CertVouched

(* Nebula: the names of the Nebula certificate.                             *)
NebulaSSH(c) == IF c.ssh = NoSSH THEN Want("", <<>>) ELSE c.ssh
NebulaData(c) ==
  [type |-> "host", keyID |-> OrElse(NebulaSSH(c).keyID, "", c.subject),
   principals |-> OrElse(NebulaSSH(c).principals, <<>>, c.names)]
NebulaWants(c) == IF c.ssh = NoSSH THEN {} ELSE {Want("host", <<>>), NebulaSSH(c)}
NebulaAccepts(c) == Elements(NebulaSSH(c).principals) \subseteq Elements(c.names) /\ NebulaSSH(c).type \in {"", "host"}

(* The template data of Nebula: the options of the token, with the names of *)
(* its certificate as defaults.                                             *)
LEMMA NebulaDataIs ==
  ASSUME NEW c
  PROVE  /\ NebulaData(c).type = "host" /\ NebulaData(c).keyID = OrElse(NebulaSSH(c).keyID, "", c.subject)
         /\ NebulaData(c).principals = OrElse(NebulaSSH(c).principals, <<>>, c.names)
BY DEF NebulaData

(* The SSH options of Nebula: refused, or for hosts with the names of the   *)
(* certificate.                                                             *)
LEMMA NebulaSSHIs ==
  ASSUME NEW p, NEW c, p.type = "Nebula"
  PROVE  /\ ~ NebulaAccepts(c) => ~ AuthorizeSSHSign(p, c).ok
         /\ NebulaAccepts(c) =>
              AuthorizeSSHSign(p, c) = SSHOptions(NebulaWants(c), {}, NebulaData(c), "default", p.host, NoPolicy)
         /\ NebulaSSH(c).principals = c.ssh.principals
<1>1. AuthorizeSSHSign(p, c) = NebulaAuthorizeSSHSign(p, c)
  BY AuthorizeSSHSignIs
<1>2. ~ NebulaAccepts(c) => AuthorizeSSHSign(p, c) = NotAuthorized
  BY <1>1 DEF NebulaAuthorizeSSHSign, NebulaAccepts, NebulaSSH
<1>3. ~ NotAuthorized.ok
  BY DEF NotAuthorized
<1>4. NebulaAccepts(c) =>
        AuthorizeSSHSign(p, c) = SSHOptions(NebulaWants(c), {}, NebulaData(c), "default", p.host, NoPolicy)
  BY <1>1 DEF NebulaAuthorizeSSHSign, NebulaAccepts, NebulaSSH, NebulaData, NebulaWants
<1>5. NebulaSSH(c).principals = c.ssh.principals
  <2>1. CASE c.ssh = NoSSH
    <3>1. NebulaSSH(c) = Want("", <<>>)
      BY <2>1 DEF NebulaSSH
    <3>2. Want("", <<>>).principals = <<>>
      BY DEF Want
    <3>3. c.ssh.principals = <<>>
      BY <2>1, NoSSHIs
    <3> QED  BY <3>1, <3>2, <3>3
  <2>2. CASE c.ssh # NoSSH
    BY <2>2 DEF NebulaSSH
  <2> QED  BY <2>1, <2>2
<1> QED  BY <1>2, <1>3, <1>4, <1>5

(* Nebula: an SSH certificate that passes the options is what the token     *)
(* vouches for.                                                             *)
LEMMA NebulaSSHOK ==
  ASSUME NEW p, NEW c, NEW got, p.type = "Nebula",
         OptionsMatch(p, c, got), SSHCert(p, c, got).type \in {"user", "host"}
  PROVE  CertVouched(p, c, got)
<1> DEFINE o == AuthorizeSSHSign(p, c)
           crt == SSHCert(p, c, got)
<1>1. o = SSHOptions(NebulaWants(c), {}, NebulaData(c), "default", p.host, NoPolicy)
  BY NebulaSSHIs DEF OptionsMatch
<1>2. /\ o.wants = NebulaWants(c) /\ o.data = NebulaData(c) /\ o.template = "default" /\ o.host = p.host /\ o.user = NoPolicy
  BY <1>1, SSHOptionsIs, SMTT(60)
<1>3. SSHVouching(p, c) = Members(OrElse(c.ssh.principals, <<>>, c.names))
  BY DEF SSHVouching
<1>4. UserPolicy(p) = NoPolicy
  BY DEF UserPolicy
<1>5. CASE p.template
  <2>1. crt.type = got.type /\ crt.principals = got.principals
    BY <1>5, SSHCertIs, SMTT(60)
  <2>2. crt.type # ""
    OBVIOUS
  <2>3. ASSUME c.ssh # NoSSH
        PROVE  crt.type = "host" /\ (c.ssh.principals # <<>> => Members(crt.principals) \subseteq Members(c.ssh.principals))
    <3>1. NebulaWants(c) = {Want("host", <<>>), c.ssh}
      BY <2>3 DEF NebulaWants, NebulaSSH
    <3>2. match(Want("host", <<>>), got) /\ match(c.ssh, got)
      BY <1>2, <3>1 DEF OptionsMatch
    <3>3. Want("host", <<>>).type = "host"
      BY WantIs
    <3> QED  BY <2>1, <2>2, <3>2, <3>3, MatchIs
  <2>4. c.ssh = NoSSH => c.ssh.principals = <<>>
    BY NoSSHIs
  <2>5. ~ SSHTrusting(p, c) => c.ssh.principals # <<>>
    BY <1>5 DEF SSHTrusting
  <2>6. c.ssh.principals # <<>> => Members(OrElse(c.ssh.principals, <<>>, c.names)) = Members(c.ssh.principals)
    BY DEF OrElse
  <2>7. ~ SSHTrusting(p, c) => Members(crt.principals) \subseteq SSHVouching(p, c)
    BY <1>3, <2>3, <2>4, <2>5, <2>6
  <2>8. TypeAs(p, c, crt.type)
    BY <1>5, <2>3 DEF TypeAs, InstanceTypes
  <2> QED  BY <1>2, <1>4, <2>7, <2>8 DEF CertVouched
<1>6. CASE ~ p.template
  <2>1. crt = NebulaData(c)
    BY <1>2, <1>6, SSHCertIs, SMTT(60)
  <2>2. crt.type = "host" /\ crt.principals = OrElse(NebulaSSH(c).principals, <<>>, c.names)
    BY <2>1, NebulaDataIs
  <2>3. Members(crt.principals) \subseteq SSHVouching(p, c)
    BY <1>3, <2>2, NebulaSSHIs
  <2>4. TypeAs(p, c, crt.type)
    BY <2>2 DEF TypeAs, InstanceTypes
  <2> QED  BY <1>2, <1>4, <2>3, <2>4 DEF CertVouched
<1> QED  BY <1>5, <1>6

(* The clouds: host certificates, for the names of the instance unless the  *)
(* provisioner takes the request's.                                         *)
CloudData(c) == [type |-> "host", keyID |-> c.subject, principals |-> c.names]
CloudWant(p, c) == Want("host", IF p.disableCustomSANs THEN c.names ELSE <<>>)
CloudFields(p) == IF p.disableCustomSANs THEN {} ELSE {"principals"}

(* The template data of an instance.                                        *)
LEMMA CloudDataIs ==
  ASSUME NEW c
  PROVE  CloudData(c).type = "host" /\ CloudData(c).keyID = c.subject /\ CloudData(c).principals = c.names
BY DEF CloudData

(* The SSH options of the clouds.                                           *)
LEMMA CloudSSHIs ==
  ASSUME NEW p, NEW c, p.type \in InstanceTypes
  PROVE  LET o == AuthorizeSSHSign(p, c)
         IN  /\ o.ok /\ o.wants = {CloudWant(p, c)} /\ o.fields = CloudFields(p) /\ o.data = CloudData(c)
             /\ o.template = "iid" /\ o.host = p.host /\ o.user = NoPolicy
<1>1. AuthorizeSSHSign(p, c) = SSHOptions({CloudWant(p, c)}, CloudFields(p), CloudData(c), "iid", p.host, NoPolicy)
  <2>1. AuthorizeSSHSign(p, c) = AwsAuthorizeSSHSign(p, c)
    BY AuthorizeSSHSignIs
  <2> QED  BY <2>1 DEF AwsAuthorizeSSHSign, CloudWant, CloudFields, CloudData
<1> QED  BY <1>1, SSHOptionsIs, SMTT(60)

(* The certificate of an instance: of its data or of the request.           *)
LEMMA CloudCertIs ==
  ASSUME NEW p, NEW c, NEW got, p.type \in InstanceTypes
  PROVE  /\ p.template => /\ SSHCert(p, c, got).type = got.type /\ SSHCert(p, c, got).principals = got.principals
         /\ ~ p.template => /\ SSHCert(p, c, got).type = "host" /\ SSHCert(p, c, got).keyID = c.subject
                            /\ SSHCert(p, c, got).principals = OrElse(got.principals, <<>>, c.names)
<1> DEFINE d == CloudData(c)
           ps == OrElse(got.principals, <<>>, d.principals)
<1>1. p.template => SSHCert(p, c, got).type = got.type /\ SSHCert(p, c, got).principals = got.principals
  BY SSHCertIs, SMTT(60)
<1>2. ASSUME ~ p.template
      PROVE  SSHCert(p, c, got) = [d EXCEPT !.principals = OrElse(got.principals, <<>>, @)]
  BY <1>2, CloudSSHIs, SSHCertIs, SMTT(60)
<1>3. [d EXCEPT !.principals = OrElse(got.principals, <<>>, @)] = [type |-> "host", keyID |-> c.subject, principals |-> ps]
  <2>1. \A q : [CloudData(c) EXCEPT !.principals = q] = [type |-> "host", keyID |-> c.subject, principals |-> q]
    BY SMTT(60) DEF CloudData
  <2> QED  BY <2>1
<1>4. ps = OrElse(got.principals, <<>>, c.names)
  BY CloudDataIs
<1> HIDE DEF d, ps
<1>5. LET r == [type |-> "host", keyID |-> c.subject, principals |-> ps]
      IN  r.type = "host" /\ r.keyID = c.subject /\ r.principals = ps
  OBVIOUS
<1> QED  BY <1>1, <1>2, <1>3, <1>4, <1>5

(* Clouds: an SSH certificate that passes the options is what the instance  *)
(* vouches for.                                                             *)
LEMMA CloudSSHOK ==
  ASSUME WellFormed, NEW p \in SignProvisioners, NEW c \in Credentials[p.name], NEW got, p.type \in InstanceTypes,
         OptionsMatch(p, c, got), SSHCert(p, c, got).type \in {"user", "host"}
  PROVE  CertVouched(p, c, got)
<1> DEFINE crt == SSHCert(p, c, got)
<1>1. /\ CloudWant(p, c).type = "host"
      /\ p.disableCustomSANs => CloudWant(p, c).principals = c.names
  <2>1. CloudWant(p, c).type = "host"
    BY DEF CloudWant, Want
  <2>2. ASSUME p.disableCustomSANs
        PROVE  CloudWant(p, c).principals = c.names
    <3>1. CloudWant(p, c) = Want("host", c.names)
      BY <2>2 DEF CloudWant
    <3>2. Want("host", c.names).principals = c.names
      BY DEF Want
    <3> QED  BY <3>1, <3>2
  <2> QED  BY <2>1, <2>2
<1>2. match(CloudWant(p, c), got)
  BY CloudSSHIs DEF OptionsMatch
<1>3. /\ CloudWant(p, c).principals # <<>> => Members(got.principals) \subseteq Members(CloudWant(p, c).principals)
      /\ got.type # "" => CloudWant(p, c).type \in {"", got.type}
  BY <1>2, MatchIs
<1>4. crt.type = "host"
  <2>1. CASE p.template
    <3>1. crt.type = got.type
      BY <2>1, CloudCertIs
    <3>2. crt.type # ""
      OBVIOUS
    <3> QED  BY <1>1, <1>3, <3>1, <3>2
  <2>2. CASE ~ p.template
    BY <2>2, CloudCertIs
  <2> QED  BY <2>1, <2>2
<1>5. SSHVouching(p, c) = Members(c.names)
  BY DEF SSHVouching, InstanceTypes
<1>6. ASSUME ~ SSHTrusting(p, c)
      PROVE  Members(crt.principals) \subseteq SSHVouching(p, c)
  <2>1. p.disableCustomSANs
    BY <1>6 DEF SSHTrusting
  <2>2. Members(got.principals) \subseteq Members(c.names)
    <3>1. c.names # <<>>
      BY DEF WellFormed
    <3> QED  BY <1>1, <1>3, <2>1, <3>1
  <2>3. crt.principals = got.principals \/ crt.principals = OrElse(got.principals, <<>>, c.names)
    <3>1. CASE p.template
      BY <3>1, CloudCertIs
    <3>2. CASE ~ p.template
      BY <3>2, CloudCertIs
    <3> QED  BY <3>1, <3>2
  <2>4. crt.principals \in {got.principals, c.names}
    BY <2>3 DEF OrElse
  <2> QED  BY <1>5, <2>2, <2>4
<1>7. TypeAs(p, c, crt.type)
  BY <1>4 DEF TypeAs, InstanceTypes
<1>8. UserPolicy(p) = NoPolicy
  BY DEF UserPolicy
<1> QED  BY <1>6, <1>7, <1>8, CloudSSHIs DEF CertVouched

(* OIDC: user certificates for the users of the identity; administrators    *)
(* get what they ask for.                                                   *)
OidcUsers(c) == IF c.email THEN c.users ELSE <<>>
OidcData(c) == [type |-> "user", keyID |-> c.subject, principals |-> OidcUsers(c)]
OidcWants(c) == IF c.admin THEN {} ELSE {Want("user", OidcUsers(c))}
OidcFields(c) == IF c.admin THEN {"type", "keyID", "principals"} ELSE {}
OidcTemplate(p, c) == IF c.admin /\ ~ p.template THEN "request" ELSE "default"

(* The SSH options of OIDC.                                                 *)
LEMMA OidcSSHIs ==
  ASSUME NEW p, NEW c, p.type = "OIDC", HasSubject(c)
  PROVE  LET o == AuthorizeSSHSign(p, c)
         IN  /\ o.ok /\ o.wants = OidcWants(c) /\ o.fields = OidcFields(c) /\ o.data = OidcData(c)
             /\ o.template = OidcTemplate(p, c) /\ o.host = p.host /\ o.user = p.user
<1>1. AuthorizeSSHSign(p, c) = SSHOptions(OidcWants(c), OidcFields(c), OidcData(c), OidcTemplate(p, c), p.host, p.user)
  <2>1. AuthorizeSSHSign(p, c) = OidcAuthorizeSSHSign(p, c)
    BY AuthorizeSSHSignIs
  <2> QED  BY <2>1 DEF OidcAuthorizeSSHSign, OidcWants, OidcFields, OidcData, OidcTemplate, OidcUsers, HasSubject
<1> QED  BY <1>1, SSHOptionsIs, SMTT(60)

(* The certificate of a user who is no administrator.                       *)
LEMMA OidcCertIs ==
  ASSUME NEW p, NEW c, NEW got, p.type = "OIDC", HasSubject(c), ~ c.admin
  PROVE  /\ p.template => SSHCert(p, c, got).type = got.type /\ SSHCert(p, c, got).principals = got.principals
         /\ ~ p.template => /\ SSHCert(p, c, got).type = "user" /\ SSHCert(p, c, got).keyID = c.subject
                            /\ SSHCert(p, c, got).principals = OidcUsers(c)
<1>1. p.template => SSHCert(p, c, got).type = got.type /\ SSHCert(p, c, got).principals = got.principals
  BY SSHCertIs, SMTT(60)
<1>2. OidcTemplate(p, c) = "default"
  BY DEF OidcTemplate
<1>3. ~ p.template => SSHCert(p, c, got) = OidcData(c)
  BY <1>2, OidcSSHIs, SSHCertIs, SMTT(60)
<1>4. OidcData(c).type = "user" /\ OidcData(c).keyID = c.subject /\ OidcData(c).principals = OidcUsers(c)
  BY DEF OidcData
<1> QED  BY <1>1, <1>3, <1>4

(* OIDC: an SSH certificate that passes the options is what the identity    *)
(* vouches for.                                                             *)
LEMMA OidcSSHOK ==
  ASSUME NEW p, NEW c, NEW got, p.type = "OIDC",
         OptionsMatch(p, c, got), SSHCert(p, c, got).type \in {"user", "host"}
  PROVE  CertVouched(p, c, got)
<1> DEFINE crt == SSHCert(p, c, got)
<1>0. HasSubject(c)
  <2>1. AuthorizeSSHSign(p, c) = OidcAuthorizeSSHSign(p, c)
    BY AuthorizeSSHSignIs
  <2>2. ~ NotAuthorized.ok
    BY DEF NotAuthorized
  <2> QED  BY <2>1, <2>2 DEF OptionsMatch, OidcAuthorizeSSHSign, HasSubject
<1>1. UserPolicy(p) = p.user
  BY DEF UserPolicy, InstanceTypes
<1>2. SSHVouching(p, c) = Members(OidcUsers(c))
  BY DEF SSHVouching, OidcUsers
<1>3. ASSUME ~ c.admin
      PROVE  crt.type = "user" /\ (~ SSHTrusting(p, c) => Members(crt.principals) \subseteq SSHVouching(p, c))
  <2> DEFINE w == Want("user", OidcUsers(c))
  <2>1. match(w, got)
    <3>1. OidcWants(c) = {w}
      BY <1>3 DEF OidcWants
    <3> QED  BY <1>0, <3>1, OidcSSHIs DEF OptionsMatch
  <2>2. w.type = "user" /\ w.principals = OidcUsers(c)
    BY DEF Want
  <2> HIDE DEF w
  <2>3. /\ w.principals # <<>> => Members(got.principals) \subseteq Members(w.principals)
        /\ got.type # "" => w.type \in {"", got.type}
    BY <2>1, MatchIs
  <2>4. CASE p.template
    <3>1. crt.type = got.type /\ crt.principals = got.principals
      BY <1>0, <1>3, <2>4, OidcCertIs
    <3>2. crt.type # ""
      OBVIOUS
    <3>3. crt.type = "user"
      BY <2>2, <2>3, <3>1, <3>2
    <3>4. ~ SSHTrusting(p, c) => OidcUsers(c) # <<>>
      BY <2>4 DEF SSHTrusting, OidcUsers
    <3> QED  BY <1>2, <2>2, <2>3, <3>1, <3>3, <3>4
  <2>5. CASE ~ p.template
    <3>1. crt.type = "user" /\ crt.principals = OidcUsers(c)
      BY <1>0, <1>3, <2>5, OidcCertIs, SMTT(60)
    <3> QED  BY <1>2, <3>1
  <2> QED  BY <2>4, <2>5
<1>4. c.admin => SSHTrusting(p, c)
  BY DEF SSHTrusting
<1>5. TypeAs(p, c, crt.type)
  BY <1>3 DEF TypeAs, InstanceTypes
<1> QED  BY <1>0, <1>1, <1>3, <1>4, <1>5, OidcSSHIs DEF CertVouched

(* Kubernetes: what the request asks for.                                   *)
LEMMA K8sSSHOK ==
  ASSUME NEW p, NEW c, NEW got, p.type = "K8sSA"
  PROVE  CertVouched(p, c, got)
<1>1. SSHTrusting(p, c)
  BY DEF SSHTrusting
<1>2. TypeAs(p, c, SSHCert(p, c, got).type)
  BY DEF TypeAs, InstanceTypes
<1>3. AuthorizeSSHSign(p, c).host = p.host /\ AuthorizeSSHSign(p, c).user = p.user
  <2>1. AuthorizeSSHSign(p, c) = K8sAuthorizeSSHSign(p, c)
    BY AuthorizeSSHSignIs
  <2> QED  BY <2>1, SSHOptionsIs, SMTT(60) DEF K8sAuthorizeSSHSign
<1>4. UserPolicy(p) = p.user
  BY DEF UserPolicy, InstanceTypes
<1> QED  BY <1>1, <1>2, <1>3, <1>4 DEF CertVouched

(* Of every type.                                                           *)
LEMMA SSHCertOK ==
  ASSUME WellFormed, NEW p \in SignProvisioners, NEW c \in Credentials[p.name], NEW got,
         OptionsMatch(p, c, got), SSHCert(p, c, got).type \in {"user", "host"}
  PROVE  CertVouched(p, c, got)
<1>1. p.type \in SignTypes
  BY DEF WellFormed
<1>2. CASE p.type \in {"JWK", "X5C"}
  BY <1>2, JwkSSH, SMTT(60)
<1>3. CASE p.type = "Nebula"
  BY <1>3, NebulaSSHOK
<1>4. CASE p.type \in InstanceTypes
  BY <1>4, CloudSSHOK
<1>5. CASE p.type = "OIDC"
  BY <1>5, OidcSSHOK
<1>6. CASE p.type = "K8sSA"
  BY <1>6, K8sSSHOK
<1>7. CASE p.type \in {"ACME", "SCEP"}
  <2>1. AuthorizeSSHSign(p, c) = NotAuthorized
    BY <1>7, AuthorizeSSHSignIs
  <2>2. ~ NotAuthorized.ok
    BY DEF NotAuthorized
  <2> QED  BY <2>1, <2>2 DEF OptionsMatch
<1> QED  BY <1>1, <1>2, <1>3, <1>4, <1>5, <1>6, <1>7 DEF SignTypes, InstanceTypes

(* The policy of the provisioner that is handed to the validator.           *)
LEMMA PolicyOK ==
  ASSUME NEW p, NEW c, NEW got, CertVouched(p, c, got),
         sshNamePolicyValidator(AuthorizeSSHSign(p, c), SSHCert(p, c, got))
  PROVE  PolicyHolds(p, SSHCert(p, c, got))
BY DEF CertVouched, PolicyHolds, sshNamePolicyValidator

(* A request that asks for nothing matches any options.                     *)
AsksNoSSH(got) == got.type = "" /\ got.principals = <<>>

(* A request that asks for nothing matches any options.                     *)
LEMMA PlainMatches ==
  ASSUME NEW got, AsksNoSSH(got)
  PROVE  (\A want : match(want, got)) /\ Required({}, got)
BY DEF match, Required, AsksNoSSH

(* It gets the certificate the credential stands for.                       *)
SSHAccepted(p, c) ==
  /\ p.type \in {"JWK", "X5C"} => c.ssh.type \in {"", "user", "host"}
  /\ p.type = "Nebula" /\ c.ssh # NoSSH
     => c.ssh.type \in {"", "host"} /\ Elements(c.ssh.principals) \subseteq Elements(c.names)

OfType(p, types) == p.type \in types
PlainCert(p, c, got, data) == ~ p.template => SSHCert(p, c, got) = data

(* JWK and X5C without a custom template: the certificate is the template   *)
(* data.                                                                    *)
LEMMA JwkPlain ==
  ASSUME NEW p, NEW c, NEW got, OfType(p, {"JWK", "X5C"}), c.ssh # NoSSH
  PROVE  /\ AuthorizeSSHSign(p, c).ok /\ AuthorizeSSHSign(p, c).fields = {}
         /\ AuthorizeSSHSign(p, c).host = p.host /\ AuthorizeSSHSign(p, c).user = p.user
         /\ PlainCert(p, c, got, JwkData(c))
<1> DEFINE o == AuthorizeSSHSign(p, c)
<1>1. o = SSHOptions({c.ssh}, {}, JwkData(c), "default", p.host, p.user)
  <2>1. o = JwkAuthorizeSSHSign(p, c)
    BY AuthorizeSSHSignIs DEF OfType
  <2> QED  BY <2>1 DEF JwkAuthorizeSSHSign, JwkData
<1>2. o.ok /\ o.fields = {} /\ o.data = JwkData(c) /\ o.template = "default" /\ o.host = p.host /\ o.user = p.user
  BY <1>1, SSHOptionsIs, SMTT(60)
<1>3. PlainCert(p, c, got, JwkData(c))
  BY <1>2, SSHCertIs, SMTT(60) DEF PlainCert
<1> QED  BY <1>2, <1>3

(* Nebula without a custom template: the certificate is the template data.  *)
LEMMA NebulaPlain ==
  ASSUME NEW p, NEW c, NEW got, OfType(p, {"Nebula"}), NebulaAccepts(c)
  PROVE  /\ AuthorizeSSHSign(p, c).ok /\ AuthorizeSSHSign(p, c).fields = {}
         /\ AuthorizeSSHSign(p, c).host = p.host /\ AuthorizeSSHSign(p, c).user = NoPolicy
         /\ PlainCert(p, c, got, NebulaData(c))
<1> DEFINE o == AuthorizeSSHSign(p, c)
<1>1. o = SSHOptions(NebulaWants(c), {}, NebulaData(c), "default", p.host, NoPolicy)
  <2>1. p.type = "Nebula"
    BY DEF OfType
  <2> QED  BY <2>1, NebulaSSHIs
<1>2. o.ok /\ o.fields = {} /\ o.data = NebulaData(c) /\ o.template = "default" /\ o.host = p.host /\ o.user = NoPolicy
  BY <1>1, SSHOptionsIs, SMTT(60)
<1>3. PlainCert(p, c, got, NebulaData(c))
  BY <1>2, SSHCertIs DEF PlainCert
<1> QED  BY <1>2, <1>3

(* An SSH request that asks for nothing passes the options, and its         *)
(* certificate has all that is vouched for.                                 *)
LEMMA PlainSSH ==
  ASSUME NEW p, NEW c, NEW got, AsksNoSSH(got), ~ p.template,
         p.type \in SignTypes, p.type \notin {"ACME", "SCEP"}, ~ SSHTrusting(p, c), SSHAccepted(p, c), HasSubject(c)
  PROVE  /\ OptionsMatch(p, c, got) /\ SSHCert(p, c, got).keyID # "" /\ SSHCert(p, c, got).type \in {"user", "host"}
         /\ Members(SSHCert(p, c, got).principals) = SSHVouching(p, c)
         /\ AuthorizeSSHSign(p, c).host = p.host /\ AuthorizeSSHSign(p, c).user \in {p.user, NoPolicy}
<1> DEFINE o == AuthorizeSSHSign(p, c)
           crt == SSHCert(p, c, got)
<1>0. \A id : OrElse(id, "", c.subject) # ""
  BY DEF OrElse, HasSubject
<1>1. o.ok /\ o.fields = {} => OptionsMatch(p, c, got)
  BY PlainMatches DEF OptionsMatch
<1>2. CASE p.type \in {"JWK", "X5C"}
  <2>1. c.ssh.type # "none"
    BY <1>2 DEF SSHAccepted
  <2>2. c.ssh # NoSSH
    BY <2>1, NoSSHIs
  <2>4. o.ok /\ o.fields = {} /\ o.host = p.host /\ o.user = p.user /\ crt = JwkData(c)
    <3>1. OfType(p, {"JWK", "X5C"})
      BY <1>2 DEF OfType
    <3>2. o.ok /\ o.fields = {} /\ o.host = p.host /\ o.user = p.user /\ PlainCert(p, c, got, JwkData(c))
      BY <2>2, <3>1, JwkPlain
    <3> QED  BY <3>2 DEF PlainCert
  <2>6. /\ crt.keyID # "" /\ crt.principals = OrElse(c.ssh.principals, <<>>, <<c.subject>>)
        /\ crt.type = OrElse(c.ssh.type, "", "user")
    BY <1>0, <2>4, JwkDataIs
  <2>7. crt.type \in {"user", "host"}
    BY <1>2, <2>6 DEF OrElse, SSHAccepted
  <2>8. SSHVouching(p, c) = Members(OrElse(c.ssh.principals, <<>>, <<c.subject>>))
    BY <1>2 DEF SSHVouching
  <2> QED  BY <1>1, <2>4, <2>6, <2>7, <2>8
<1>3. CASE p.type = "Nebula"
  <2>1. NebulaAccepts(c)
    <3>1. CASE c.ssh = NoSSH
      <4>1. NebulaSSH(c) = Want("", <<>>)
        BY <3>1 DEF NebulaSSH
      <4>2. Want("", <<>>).type = "" /\ Want("", <<>>).principals = <<>>
        BY DEF Want
      <4> QED  BY <4>1, <4>2, EmptyMembers DEF NebulaAccepts
    <3>2. CASE c.ssh # NoSSH
      BY <1>3, <3>2 DEF NebulaAccepts, NebulaSSH, SSHAccepted
    <3> QED  BY <3>1, <3>2
  <2>3. o.ok /\ o.fields = {} /\ o.host = p.host /\ o.user = NoPolicy /\ crt = NebulaData(c)
    <3>1. OfType(p, {"Nebula"})
      BY <1>3 DEF OfType
    <3>2. o.ok /\ o.fields = {} /\ o.host = p.host /\ o.user = NoPolicy /\ PlainCert(p, c, got, NebulaData(c))
      BY <2>1, <3>1, NebulaPlain
    <3> QED  BY <3>2 DEF PlainCert
  <2>5. crt.keyID # "" /\ crt.type = "host" /\ crt.principals = OrElse(NebulaSSH(c).principals, <<>>, c.names)
    BY <1>0, <2>3, NebulaDataIs
  <2>6. SSHVouching(p, c) = Members(OrElse(c.ssh.principals, <<>>, c.names))
    BY <1>3 DEF SSHVouching
  <2>7. NebulaSSH(c).principals = c.ssh.principals
    BY <1>3, NebulaSSHIs
  <2> QED  BY <1>1, <2>3, <2>5, <2>6, <2>7
<1>4. CASE p.type \in InstanceTypes
  <2>1. p.disableCustomSANs
    BY <1>4 DEF SSHTrusting
  <2>2. o.ok /\ o.fields = {} /\ o.host = p.host /\ o.user = NoPolicy
    BY <1>4, <2>1, CloudSSHIs DEF CloudFields
  <2>3. crt.type = "host" /\ crt.keyID = c.subject /\ crt.principals = OrElse(got.principals, <<>>, c.names)
    BY <1>4, CloudCertIs, SMTT(60)
  <2>4. OrElse(got.principals, <<>>, c.names) = c.names
    BY DEF OrElse, AsksNoSSH
  <2>5. SSHVouching(p, c) = Members(c.names)
    BY <1>4 DEF SSHVouching, InstanceTypes
  <2> QED  BY <1>1, <2>2, <2>3, <2>4, <2>5 DEF HasSubject
<1>5. CASE p.type = "OIDC"
  <2>1. ~ c.admin
    BY <1>5 DEF SSHTrusting
  <2>2. o.ok /\ o.fields = {} /\ o.host = p.host /\ o.user = p.user
    BY <1>5, <2>1, OidcSSHIs DEF OidcFields
  <2>3. crt.type = "user" /\ crt.keyID = c.subject /\ crt.principals = OidcUsers(c)
    BY <1>5, <2>1, OidcCertIs, SMTT(60)
  <2>4. SSHVouching(p, c) = Members(OidcUsers(c))
    BY <1>5 DEF SSHVouching, OidcUsers
  <2> QED  BY <1>1, <2>2, <2>3, <2>4 DEF HasSubject
<1>6. p.type # "K8sSA"
  BY DEF SSHTrusting
<1> QED  BY <1>2, <1>3, <1>4, <1>5, <1>6 DEF SignTypes, InstanceTypes

(* A refusal is not a certificate.                                          *)
LEMMA RefusedIs ==
  Refused.st = "refused"
BY DEF Refused

(* Authority.Sign: what it issues is what the credential vouches for.       *)
LEMMA SignStep ==
  ASSUME WellFormed, NEW p \in SignProvisioners, NEW c \in Credentials[p.name], NEW csr \in CSRs, Sign(p, c, csr)
  PROVE  IssuedAsVouched'
<1>0. ask' = [op |-> "Sign", prov |-> p, cred |-> c, csr |-> csr] /\ UNCHANGED << signers, defaultCN >>
  BY SignIs
<1>1. /\ Prov' = p /\ Cred' = c /\ ask'.op = "Sign" /\ ask'.csr = csr
      /\ (TrustsRequest' <=> Trusting(p, c)) /\ (Attested' <=> Attesting(p, c)) /\ Vouched' = Vouching(c)
  <2>1. ask'.prov = p /\ ask'.cred = c /\ ask'.op = "Sign" /\ ask'.csr = csr
    BY <1>0
  <2>2. Prov' = p /\ Cred' = c
    BY <2>1 DEF Prov, Cred
  <2>5. Attested' <=> Attesting(p, c)
    BY <2>2 DEF Attested, Attesting
  <2>3. TrustsRequest' <=> Trusting(p, c)
    BY <2>2, <2>5 DEF TrustsRequest, Trusting
  <2>4. Vouched' = Vouching(c)
    BY <2>2 DEF Vouched, Vouching
  <2> QED  BY <2>1, <2>2, <2>3, <2>4, <2>5
<1>2. \/ cert' = Refused
      \/ /\ Accepted(p, c, csr)
         /\ \E cn \in forceCNOption(p, withDefaultASN1DN(Leaf(p, c, csr))) :
              cert' = [st |-> "x509", cn |-> cn, sans |-> Leaf(p, c, csr).sans]
  BY SignIs
<1>3. ASSUME Accepted(p, c, csr), NEW cn \in forceCNOption(p, withDefaultASN1DN(Leaf(p, c, csr))),
             cert' = [st |-> "x509", cn |-> cn, sans |-> Leaf(p, c, csr).sans]
      PROVE  NamesVouched' /\ AskedIsIssued' /\ cert'.st = "x509" /\ cert'.sans = Leaf(p, c, csr).sans
  <2>1. cert'.st = "x509" /\ cert'.cn = cn /\ cert'.sans = Leaf(p, c, csr).sans
    BY <1>3
  <2>2. LeafVouched(p, c, csr) /\ LeafAsked(p, c, csr)
    BY <1>3, LeafOK
  <2>3. \/ cn = Leaf(p, c, csr).cn
        \/ Leaf(p, c, csr).cn = "" /\ cn \in Leaf(p, c, csr).sans \cup {defaultCN}
    <3>1. PICK l : l = withDefaultASN1DN(Leaf(p, c, csr))
      OBVIOUS
    <3>2. cn = l.cn \/ (l.cn = "" /\ cn \in l.sans)
      BY <1>3, <3>1 DEF forceCNOption, OfKind
    <3>3. l.sans = Leaf(p, c, csr).sans /\ l.cn = IF Leaf(p, c, csr).cn = "" THEN defaultCN ELSE Leaf(p, c, csr).cn
      BY <3>1, DefaultedIs
    <3> QED  BY <3>2, <3>3
  <2>4. NamesVouched'
    BY <1>0, <1>1, <2>1, <2>2, <2>3 DEF NamesVouched, LeafVouched
  <2>5. AskedIsIssued'
    <3>1. csr.cn \in {"", Leaf(p, c, csr).cn} => csr.cn \in {"", cn}
      BY <2>3
    <3> QED  BY <1>1, <2>1, <2>2, <3>1 DEF AskedIsIssued, LeafAsked
  <2> QED  BY <2>1, <2>4, <2>5
<1>4. cert'.st \in {"refused", "x509"}
  BY <1>2, <1>3, RefusedIs
<1>5. cert'.st # "ssh"
  BY <1>4
<1>6. cert'.st = "x509" => NamesVouched' /\ AskedIsIssued' /\ cert'.sans = Leaf(p, c, csr).sans /\ Accepted(p, c, csr)
  BY <1>2, <1>3, RefusedIs
<1>7. NamesVouched' /\ AskedIsIssued' /\ PrincipalsVouched' /\ TypeVouched' /\ SSHPolicyHolds'
  BY <1>5, <1>6 DEF NamesVouched, AskedIsIssued, PrincipalsVouched, TypeVouched, SSHPolicyHolds
<1>8. PlainIssued'
  <2> DEFINE plain == /\ csr.key.alg = "ec" /\ ~ p.template /\ ~ p.forceCN
                      /\ csr.cn = "" /\ csr.sans = {} /\ p.x509 = NoPolicy
  <2>1. AsksNothing' => plain
    BY <1>1 DEF AsksNothing
  <2>2. ASSUME plain, ~ Trusting(p, c), p.type # "ACME", p.type \notin {"JWK", "X5C"} => Elements(c.names) # {}
        PROVE  cert'.st = "x509" /\ cert'.sans # {} /\ cert'.sans \subseteq Vouching(c)
    <3>1. p.type \in SignTypes
      BY DEF WellFormed
    <3>2. Accepted(p, c, csr) /\ Leaf(p, c, csr).sans # {}
      BY <2>2, <3>1, PlainLeaf
    <3>3. cert' # Refused
      BY <2>2, <3>2, SignIs
    <3>4. cert'.st = "x509"
      BY <1>2, <1>3, <3>3
    <3>5. LeafVouched(p, c, csr)
      BY <3>2, LeafOK
    <3> QED  BY <1>6, <2>2, <3>2, <3>4, <3>5 DEF LeafVouched
  <2> HIDE DEF plain
  <2>3. ask'.op # "SignSSH"
    BY <1>1
  <2> QED  BY <1>1, <2>1, <2>2, <2>3 DEF PlainIssued
<1> QED  BY <1>7, <1>8 DEF IssuedAsVouched

(* Authority.SignSSH: the certificate is issued when the options match and  *)
(* the certificate is allowed, and refused otherwise.                       *)
SSHAnswer(p, c, got) ==
  LET crt == SSHCert(p, c, got) IN [st |-> "ssh", type |-> crt.type, keyID |-> crt.keyID, principals |-> crt.principals]

(* Authority.SignSSH as one condition: the request is sound, it passes the  *)
(* options, the certificate is allowed.                                     *)
LEMMA SignSSHIs ==
  ASSUME NEW p, NEW c, NEW got, SignSSH(p, c, got)
  PROVE  /\ ask' = [op |-> "SignSSH", prov |-> p, cred |-> c, csr |-> got] /\ UNCHANGED << signers, defaultCN >>
         /\ (Sound(got) /\ OptionsMatch(p, c, got) /\ CertAllowed(p, c, got)) => cert' = SSHAnswer(p, c, got)
         /\ ~ (Sound(got) /\ OptionsMatch(p, c, got) /\ CertAllowed(p, c, got)) => cert' = Refused
<1> DEFINE ok == Sound(got) /\ OptionsMatch(p, c, got) /\ CertAllowed(p, c, got)
<1>1. /\ ask' = [op |-> "SignSSH", prov |-> p, cred |-> c, csr |-> got] /\ UNCHANGED << signers, defaultCN >>
      /\ cert' = IF ok THEN SSHAnswer(p, c, got) ELSE Refused
  BY DEF SignSSH, Sound, OptionsMatch, CertAllowed, SSHCert, SSHAnswer
<1> QED  BY <1>1

(* An EC key is allowed (sshDefaultPublicKeyValidator).                     *)
LEMMA EcKeyAllowed ==
  ASSUME NEW key, key.alg = "ec"
  PROVE  SSHKeyAllowed(key)
BY SMTT(60) DEF SSHKeyAllowed

(* Authority.SignSSH: what it issues is what the credential vouches for.    *)
LEMMA SSHStep ==
  ASSUME WellFormed, NEW p \in SignProvisioners, NEW c \in Credentials[p.name], NEW got \in SSHRequests,
         signers \subseteq {"user", "host"}, SignSSH(p, c, got)
  PROVE  IssuedAsVouched'
<1> DEFINE crt == SSHCert(p, c, got)
           ok == Sound(got) /\ OptionsMatch(p, c, got) /\ CertAllowed(p, c, got)
<1>0. ask' = [op |-> "SignSSH", prov |-> p, cred |-> c, csr |-> got] /\ signers' = signers
  BY SignSSHIs
<1>1. /\ Prov' = p /\ Cred' = c /\ ask'.op = "SignSSH" /\ ask'.csr = got
      /\ (TrustsSSHRequest' <=> SSHTrusting(p, c)) /\ SSHVouched' = SSHVouching(p, c)
      /\ (SSHOptionsAccepted' <=> SSHAccepted(p, c))
  <2>1. ask'.prov = p /\ ask'.cred = c /\ ask'.op = "SignSSH" /\ ask'.csr = got
    BY <1>0
  <2>2. Prov' = p /\ Cred' = c
    BY <2>1 DEF Prov, Cred
  <2>3. TrustsSSHRequest' <=> SSHTrusting(p, c)
    BY <2>2 DEF TrustsSSHRequest, SSHTrusting
  <2>4. SSHVouched' = SSHVouching(p, c)
    BY <2>2 DEF SSHVouched, SSHVouching
  <2>5. SSHOptionsAccepted' <=> SSHAccepted(p, c)
    BY <2>2 DEF SSHOptionsAccepted, SSHAccepted
  <2> QED  BY <2>1, <2>2, <2>3, <2>4, <2>5
<1>2. ASSUME ok
      PROVE  /\ cert'.st = "ssh" /\ cert'.type = crt.type /\ cert'.principals = crt.principals
             /\ CertVouched(p, c, got) /\ PolicyHolds(p, crt)
  <2>1. cert' = SSHAnswer(p, c, got)
    BY <1>2, SignSSHIs
  <2>2. cert'.st = "ssh" /\ cert'.type = crt.type /\ cert'.principals = crt.principals
    BY <2>1 DEF SSHAnswer
  <2>3. crt.type \in {"user", "host"}
    BY <1>2 DEF CertAllowed, SignerFor
  <2>4. CertVouched(p, c, got)
    BY <1>2, <2>3, SSHCertOK
  <2>5. sshNamePolicyValidator(AuthorizeSSHSign(p, c), crt)
    BY <1>2 DEF CertAllowed
  <2>6. PolicyHolds(p, crt)
    BY <2>4, <2>5, PolicyOK
  <2> QED  BY <2>2, <2>4, <2>6
<1>3. ~ ok => cert'.st = "refused"
  BY SignSSHIs, RefusedIs
<1> HIDE DEF ok
<1>4. cert'.st # "x509" /\ (cert'.st = "ssh" => ok)
  BY <1>2, <1>3
<1>5. NamesVouched' /\ AskedIsIssued'
  BY <1>4 DEF NamesVouched, AskedIsIssued
<1>6. PrincipalsVouched'
  <2>1. \A s : Members(s)' = Members(s)
    BY DEF Members
  <2> QED  BY <1>1, <1>2, <1>4 DEF PrincipalsVouched, CertVouched, Members
<1>7. TypeVouched'
  BY <1>1, <1>2, <1>4 DEF TypeVouched, CertVouched, TypeAs
<1>8. SSHPolicyHolds'
  BY <1>1, <1>2, <1>4 DEF SSHPolicyHolds, PolicyHolds, UserPolicy
<1>9. PlainIssued'
  <2> DEFINE plain == /\ got.key.alg = "ec" /\ ~ p.template /\ AsksNoSSH(got)
                      /\ p.host = NoPolicy /\ p.user = NoPolicy /\ signers = {"user", "host"}
  <2>1. AsksNothing' => plain
    BY <1>0, <1>1 DEF AsksNothing, AsksNoSSH
  <2>2. ASSUME plain, ~ SSHTrusting(p, c), p.type \notin {"ACME", "SCEP"}, SSHAccepted(p, c), c.subject # ""
        PROVE  cert'.st = "ssh" /\ Members(cert'.principals) = SSHVouching(p, c)
    <3>1. p.type \in SignTypes /\ HasSubject(c)
      BY <2>2 DEF WellFormed, HasSubject
    <3>2. /\ OptionsMatch(p, c, got) /\ crt.keyID # "" /\ crt.type \in {"user", "host"}
          /\ Members(crt.principals) = SSHVouching(p, c)
          /\ AuthorizeSSHSign(p, c).host = p.host /\ AuthorizeSSHSign(p, c).user \in {p.user, NoPolicy}
      BY <2>2, <3>1, PlainSSH
    <3>3. Sound(got)
      <4>1. Elements(got.principals) = {} /\ got.type = ""
        BY <2>2, EmptyMembers DEF AsksNoSSH
      <4> QED  BY <4>1 DEF Sound
    <3>4. SSHKeyAllowed(got.key)
      BY <2>2, EcKeyAllowed
    <3>5. sshNamePolicyValidator(AuthorizeSSHSign(p, c), crt)
      BY <2>2, <3>2 DEF sshNamePolicyValidator
    <3>6. SignerFor(crt.type)
      BY <2>2, <3>2 DEF SignerFor
    <3>7. ok
      BY <3>2, <3>3, <3>4, <3>5, <3>6 DEF ok, CertAllowed
    <3> QED  BY <1>2, <3>2, <3>7
  <2> HIDE DEF plain
  <2>3. ask'.op # "Sign"
    BY <1>1
  <2> QED  BY <1>1, <2>1, <2>2, <2>3 DEF PlainIssued
<1> QED  BY <1>5, <1>6, <1>7, <1>8, <1>9 DEF IssuedAsVouched

(* Every certificate of Authority.Sign and Authority.SignSSH is what its    *)
(* credential vouches for and its request asks for, for each of the ten     *)
(* types of provisioners that sign, with and without a custom template,     *)
(* policies, custom names, a permanent identifier and a default common      *)
(* name; where the provisioner takes the names from the request, what the   *)
(* request asks for.                                                        *)
THEOREM SignedAsVouched ==
  ASSUME WellFormed
  PROVE  SignSpec => []IssuedAsVouched
<1> DEFINE I == signers \subseteq {"user", "host"} /\ IssuedAsVouched
<1>1. SignInit => I
  <2>1. SUFFICES ASSUME SignInit PROVE I
    OBVIOUS
  <2>2. cert.st = "refused" /\ ask.op = "none" /\ signers \subseteq {"user", "host"}
    BY <2>1, RefusedIs DEF SignInit
  <2> QED  BY <2>2 DEF IssuedAsVouched, NamesVouched, PrincipalsVouched, TypeVouched, SSHPolicyHolds,
                            AskedIsIssued, PlainIssued
<1>2. I /\ [SignNext]_signVars => I'
  <2>1. ASSUME I, SignNext PROVE I'
    <3>1. PICK p \in SignProvisioners : \E c \in Credentials[p.name] :
             \/ \E csr \in CSRs : Sign(p, c, csr)
             \/ \E got \in SSHRequests : SignSSH(p, c, got)
      BY <2>1 DEF SignNext
    <3>2. PICK c \in Credentials[p.name] :
             \/ \E csr \in CSRs : Sign(p, c, csr)
             \/ \E got \in SSHRequests : SignSSH(p, c, got)
      BY <3>1
    <3>3. ASSUME NEW csr \in CSRs, Sign(p, c, csr) PROVE I'
      <4>1. signers' = signers
        BY <3>3, SignIs
      <4>2. IssuedAsVouched'
        BY <3>3, SignStep
      <4> QED  BY <2>1, <4>1, <4>2
    <3>4. ASSUME NEW got \in SSHRequests, SignSSH(p, c, got) PROVE I'
      <4>1. signers' = signers
        BY <3>4, SignSSHIs
      <4>2. IssuedAsVouched'
        BY <2>1, <3>4, SSHStep
      <4> QED  BY <2>1, <4>1, <4>2
    <3> QED  BY <3>2, <3>3, <3>4
  <2>2. ASSUME I, UNCHANGED signVars PROVE I'
    <3>1. signers' = signers /\ defaultCN' = defaultCN /\ ask' = ask /\ cert' = cert
      BY <2>2 DEF signVars
    <3>2. Prov' = Prov /\ Cred' = Cred
      BY <3>1 DEF Prov, Cred
    <3>3. (TrustsRequest' <=> TrustsRequest) /\ (Attested' <=> Attested) /\ Vouched' = Vouched
      BY <3>2 DEF TrustsRequest, Attested, Vouched
    <3>4. (TrustsSSHRequest' <=> TrustsSSHRequest) /\ SSHVouched' = SSHVouched
      BY <3>2 DEF TrustsSSHRequest, SSHVouched
    <3>5. (AsksNothing' <=> AsksNothing) /\ (SSHOptionsAccepted' <=> SSHOptionsAccepted)
      BY <3>1, <3>2 DEF AsksNothing, SSHOptionsAccepted
    <3>6. NamesVouched' /\ AskedIsIssued'
      BY <2>2, <3>1, <3>2, <3>3 DEF IssuedAsVouched, NamesVouched, AskedIsIssued
    <3>7. PrincipalsVouched' /\ TypeVouched'
      BY <2>2, <3>1, <3>2, <3>4 DEF IssuedAsVouched, PrincipalsVouched, TypeVouched
    <3>8. SSHPolicyHolds'
      BY <2>2, <3>1, <3>2 DEF IssuedAsVouched, SSHPolicyHolds
    <3>9. PlainIssued'
      BY <2>2, <3>1, <3>2, <3>3, <3>4, <3>5 DEF IssuedAsVouched, PlainIssued
    <3> QED  BY <2>2, <3>1, <3>6, <3>7, <3>8, <3>9 DEF IssuedAsVouched
  <2> QED  BY <2>1, <2>2
<1> QED  BY <1>1, <1>2, PTL DEF SignSpec

=============================================================================
