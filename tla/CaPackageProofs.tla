--------------------------- MODULE CaPackageProofs --------------------------
(***************************************************************************)
(* Proofs about the package ca, for every value of the constants: the        *)
(* renewal of the certificate that an HTTPS server of the CA presents and of *)
(* a client's, the files of a client's identity, and the process of a        *)
(* running CA: what a request is served with, and that a reload is applied   *)
(* to both servers or to none.                                               *)
(***************************************************************************)
EXTENDS CaPackage, TLAPS

(* A leaf is Zenon's unless it names another prover.                        *)
USE ZenonT(60)

-----------------------------------------------------------------------------
(* The process of a running CA, for every set of configurations and any     *)
(* number of reloads.                                                       *)

HandlerType ==
  [pc : {"wait", "listen", "drain", "drained", "send", "replace", "stop", "stopped", "end"},
   gen : Gens \cup {None}, server : Servers \cup {None},
   ln : Addresses \cup {None}, result : {"none", "failed", "applied"}]

ServerType ==
  [pc : {"absent", "start", "loop", "serving", "select", "returned"},
   http : Gens, serving : Gens \cup {None},
   ln : Addresses \cup {None}, open : BOOLEAN, shutdownCh : BOOLEAN]

\* The generations New has built so far, in the order of their numbers: a SIGHUP
\* was sent for each but the first.
Built == {g \in Gens : conf[g] # None}

Counted ==
  \E k \in Gens : Built = 1 .. k /\ k <= sent + 1 /\ (signals = << "HUP" >> => k <= sent)

Generations ==
  /\ Counted
  /\ conf[1] = FirstConfig
  /\ current \in Built /\ closed \subseteq Built /\ renewers \subseteq Built
  /\ down \subseteq Servers \X Built
  /\ \A s \in Servers : srv[s].http \in Built
  /\ handler.pc \notin {"wait", "end"} => handler.server \in Present

Reloading == handler.pc \in {"listen", "drain", "drained", "send", "replace"}

\* The servers that the reload in progress has replaced.
Replaced(s) ==
  \/ handler.pc = "replace"
  \/ handler.pc = "send" /\ handler.server = s
  \/ s = "insecure" /\ handler.server = "secure"

\* The new generation is used by what was replaced and by nothing else.
Replacing ==
  Reloading =>
    /\ handler.gen \in Built /\ handler.gen # current /\ handler.gen \in renewers \ closed
    /\ \A s \in Servers : << s, handler.gen >> \notin down
    /\ \A s \in Present : srv[s].http = handler.gen <=> Replaced(s)
    /\ handler.pc = "drained" => << handler.server, srv[handler.server].http >> \in down

\* A server that still accepts requests runs the http.Server it wraps.
Accepting ==
  \A s \in Servers :
    /\ srv[s].pc = "serving" =>
         srv[s].serving = srv[s].http \/ << s, srv[s].serving >> \in down
    /\ srv[s].pc = "serving" /\ srv[s].open =>
         srv[s].serving = srv[s].http /\ << s, srv[s].http >> \notin down
    /\ s \notin Present => srv[s].pc = "absent" /\ ~srv[s].open

\* Requests run on the http.Server their server wraps.
Requests ==
  \A s \in Servers, g \in Gens : << s, g >> \in active => s \in Present /\ g = srv[s].http

\* What the servers and the CA use is live until the process is stopped.
Live ==
  ~Stopping =>
    /\ \A s \in Present : srv[s].http \notin closed
    /\ srv["secure"].http \in renewers
    /\ current \in renewers \ closed
    /\ \A s \in Servers : ~srv[s].shutdownCh

\* Where a reload can fail only before it touches a server, every server that is
\* not being replaced keeps its listener and serves, or is about to.
Settled(s) ==
  /\ srv[s].pc \in {"start", "loop", "serving"}
  /\ << s, srv[s].http >> \notin down
  /\ srv[s].open <=> srv[s].pc # "start"
  /\ srv[s].open => srv[s].ln = AddrOf(s)

Draining(s) == handler.pc \in {"drained", "send"} /\ handler.server = s

Undisturbed ==
  /\ leaked = {}
  /\ \A s \in Present :
       IF Draining(s) THEN ~srv[s].open /\ srv[s].pc \in {"serving", "select"}
       ELSE Settled(s)
  /\ Reloading => \A s \in Present : ~Replaced(s) => srv[s].pc \in {"serving", "select"}
  /\ Reloading => \A s \in Present : srv[s].pc # "start"
  /\ handler.pc \in {"drain", "drained", "send"} =>
       handler.ln = conf[handler.gen][handler.server]
  /\ handler.pc \in {"wait", "listen", "replace"} => handler.ln = None
  /\ handler.pc = "wait" => \A s \in Present : srv[s].http = current

EarlyOnly == Running /\ ~Stopping /\ faults \subseteq EarlyFaults => Undisturbed
Early == Prompt /\ SeparateAddresses => EarlyOnly

IInv ==
  TypeOK /\ Generations /\ Replacing /\ Accepting /\ Requests /\ Live /\ ReloadApplied /\ Early

\* What is absent is neither a generation nor a server.
LEMMA Gen == Gens \subseteq Nat /\ 1 \in Gens /\ None \notin Gens /\ None \notin Servers
BY ConfigsAssumption, SMTT(60) DEF Gens, Servers

\* The records of the handler and of the servers.
LEMMA TypeParts == TypeOK => handler \in HandlerType /\ srv \in [Servers -> ServerType]
BY DEF TypeOK, HandlerType, ServerType

\* Every generation that was built has a configuration; the HTTPS server exists.
LEMMA SecurePresent == IInv => "secure" \in Present
BY ConfigsAssumption DEF IInv, Generations, Present, Servers

\* A generation that was built has a configuration.
LEMMA BuiltConfig == ASSUME IInv, NEW g \in Built PROVE conf[g] \in Configs
BY DEF IInv, TypeOK, Built

\* What a configuration gives a server is an address or nothing.
LEMMA AddressTyped == ASSUME NEW c \in Configs,
   NEW s \in Servers PROVE c[s] \in Addresses \cup {None}
BY SMTT(60) DEF Addresses

\* No listener of one server takes the address of the other.
LEMMA AddressesDiffer ==
  ASSUME SeparateAddresses, NEW c \in Configs, NEW d \in Configs,
         NEW s \in Servers, NEW t \in Servers, s # t
  PROVE c[s] # d[t]
<1>1. (s = "secure" /\ t = "insecure") \/ (s = "insecure" /\ t = "secure")
  BY DEF Servers
<1> QED BY <1>1 DEF SeparateAddresses

\* The invariant holds when the process starts.
LEMMA InitEstablishes == Init => IInv
<1> SUFFICES ASSUME Init PROVE IInv
  OBVIOUS
<1> USE Gen
<1>1. srv \in [Servers -> ServerType] /\ handler \in HandlerType
  <2>1. \A s \in Servers : srv[s] \in ServerType
    BY DEF Init, ServerType
  <2> QED BY <2>1 DEF Init, HandlerType, IdleHandler
<1>2. conf \in [Gens -> Configs \cup {None}] /\ conf[1] = FirstConfig
  BY ConfigsAssumption DEF Init
<1>3. Built = 1 .. 1
  BY ConfigsAssumption, SMTT(60) DEF Init, Built, Gens
<1>4. TypeOK
  <2>1. sent \in 0 .. MaxReloads /\ faults \subseteq Faults
    BY ConfigsAssumption, SMTT(60) DEF Init
  <2> QED BY <1>1, <1>2, <2>1 DEF Init, TypeOK, HandlerType, ServerType
<1>5. \A s \in Servers : /\ srv[s].http = 1 /\ ~srv[s].open /\ ~srv[s].shutdownCh /\ srv[s].ln = None
                        /\ srv[s].pc = IF FirstConfig[s] = None THEN "absent" ELSE "start"
  BY DEF Init
<1>7. handler.pc = "wait" /\ handler.result = "none" /\ handler.ln = None
  BY DEF Init, IdleHandler
<1>6. Generations
  <2>1. 1 \in Built /\ 1 <= sent + 1 /\ signals # << "HUP" >>
    BY <1>3, SMTT(60) DEF Init
  <2> QED BY <1>2, <1>3, <1>5, <1>7, <2>1 DEF Generations, Counted, Init
<1>8. Present \subseteq Servers /\ "secure" \in Present /\ \A s \in Servers : s \in Present <=> FirstConfig[s] # None
  BY <1>2, ConfigsAssumption DEF Present, Servers
<1>9. Replacing /\ Accepting /\ Requests /\ Live /\ ReloadApplied
  <2>1. ~Reloading /\ ReloadApplied
    BY <1>7 DEF Reloading, ReloadApplied
  <2>2. \A s \in Servers : srv[s].pc # "serving"
    BY <1>5
  <2>3. Accepting
    BY <2>2, <1>5, <1>8 DEF Accepting
  <2>4. Requests
    BY DEF Requests, Init
  <2>5. Live
    BY <1>5, <1>8 DEF Live, Init
  <2> QED BY <2>1, <2>3, <2>4, <2>5 DEF Replacing
<1>10. Early
  <2>1. ~Reloading /\ handler.pc \notin {"drain", "drained", "send"}
    BY <1>7 DEF Reloading
  <2>2. \A s \in Present : srv[s].pc = "start"
    BY <1>5, <1>8
  <2> QED BY <1>5, <1>7, <1>8, <2>1, <2>2
      DEF Early, EarlyOnly, Undisturbed, Draining, Settled, Init
<1> QED BY <1>4, <1>6, <1>9, <1>10 DEF IInv

-----------------------------------------------------------------------------
\* A step of a goroutine that serves changes neither what it wraps nor the rest.
LEMMA Goroutine ==
  ASSUME IInv, srv' \in [Servers -> ServerType],
         UNCHANGED << envVars, handler, caVars, httpVars, leaked, process >>,
         \A t \in Servers : srv'[t].http = srv[t].http /\ srv'[t].shutdownCh = srv[t].shutdownCh,
         Accepting', Early'
  PROVE IInv'
<1> USE DEF envVars, caVars, httpVars
<1>1. TypeOK'
  BY SMTT(60) DEF IInv, TypeOK, ServerType
<1>2. Built' = Built /\ Present' = Present
  BY DEF Built, Present
<1>3. Generations'
  BY <1>2 DEF IInv, Generations, Counted
<1>4. \A t \in Present : t \in Servers
  BY DEF Present
<1>5. \A t : Replaced(t)' <=> Replaced(t)
  BY DEF Replaced
<1>6. Replacing'
  <2>1. SUFFICES ASSUME Reloading PROVE Replacing'
    BY DEF Replacing, Reloading
  <2>4. handler.pc \notin {"wait", "end"}
    BY <2>1 DEF Reloading
  <2>2. PICK h : h = handler.server
    OBVIOUS
  <2>3. h \in Servers /\ srv'[h].http = srv[h].http
    BY <2>4, <2>2, <1>4 DEF IInv, Generations
  <2> QED BY <2>1, <2>2, <2>3, <1>2, <1>4, <1>5 DEF IInv, Replacing, Reloading
<1>7. Requests' /\ ReloadApplied'
  BY <1>2, <1>4 DEF IInv, Requests, ReloadApplied
<1>8. Live'
  BY <1>2, <1>4, "secure" \in Servers DEF IInv, Live, Stopping, Servers
<1> QED BY <1>1, <1>3, <1>6, <1>7, <1>8 DEF IInv

\* In the early case the address is free: the server starts to listen.
LEMMA ListenAndServeKeeps ==
  ASSUME IInv, NEW s \in Servers, ListenAndServe(s) PROVE IInv'
<1> USE DEF envVars, caVars, httpVars
<1>1. handler \in HandlerType /\ srv \in [Servers -> ServerType]
  BY TypeParts DEF IInv
<1>2. AddrOf(s) \in Addresses \cup {None}
  <2>1. conf[srv[s].http] \in Configs
    BY BuiltConfig DEF IInv, Generations
  <2> QED BY <2>1, AddressTyped DEF AddrOf
<1>3. /\ srv' \in [Servers -> ServerType]
      /\ \A t \in Servers : t # s => srv'[t] = srv[t]
      /\ srv'[s].http = srv[s].http /\ srv'[s].shutdownCh = srv[s].shutdownCh
      /\ \/ srv'[s].pc = "returned" /\ srv'[s].open = srv[s].open
         \/ srv'[s].pc = "loop" /\ srv'[s].ln = AddrOf(s) /\ srv'[s].open = TRUE
      /\ ("listen" \notin faults /\ AddrOf(s) \notin Bound) =>
           srv'[s].pc = "loop" /\ srv'[s].ln = AddrOf(s) /\ srv'[s].open = TRUE
  <2>1. PICK addr : addr = AddrOf(s)
    OBVIOUS
  <2>2. PICK ok \in BOOLEAN :
          /\ srv' = IF ok /\ addr \notin Bound
                     THEN [srv EXCEPT ![s].pc = "loop", ![s].ln = addr, ![s].open = TRUE]
                     ELSE [srv EXCEPT ![s].pc = "returned"]
          /\ "listen" \notin faults => ok
    BY <2>1 DEF ListenAndServe
  <2>5. addr \in Addresses \cup {None}
    BY <1>2, <2>1
  <2>3. CASE ok /\ addr \notin Bound
    <3>1. srv' = [srv EXCEPT ![s].pc = "loop", ![s].ln = addr, ![s].open = TRUE]
      BY <2>2, <2>3
    <3>3. srv' = [srv EXCEPT ![s] = [srv[s] EXCEPT !.pc = "loop", !.ln = addr, !.open = TRUE]]
      BY <1>1, <3>1
    <3>4. PICK new : new = [srv[s] EXCEPT !.pc = "loop", !.ln = addr, !.open = TRUE]
      OBVIOUS
    <3>5. /\ new \in ServerType /\ new.http = srv[s].http /\ new.shutdownCh = srv[s].shutdownCh
          /\ new.pc = "loop" /\ new.ln = addr /\ new.open = TRUE
      BY <1>1, <2>5, <3>4 DEF ServerType
    <3>6. srv' = [srv EXCEPT ![s] = new]
      BY <3>3, <3>4
    <3>2. /\ srv' \in [Servers -> ServerType]
          /\ \A t \in Servers : t # s => srv'[t] = srv[t]
          /\ srv'[s].http = srv[s].http /\ srv'[s].shutdownCh = srv[s].shutdownCh
          /\ srv'[s].pc = "loop" /\ srv'[s].ln = addr /\ srv'[s].open = TRUE
      BY <1>1, <3>5, <3>6
    <3> QED BY <2>1, <3>2
  <2>4. CASE ~(ok /\ addr \notin Bound)
    <3>1. srv' = [srv EXCEPT ![s].pc = "returned"]
      BY <2>2, <2>4
    <3>2. /\ srv' \in [Servers -> ServerType]
          /\ \A t \in Servers : t # s => srv'[t] = srv[t]
          /\ srv'[s].http = srv[s].http /\ srv'[s].shutdownCh = srv[s].shutdownCh
          /\ srv'[s].pc = "returned" /\ srv'[s].open = srv[s].open
      BY <1>1, <3>1, SMTT(60) DEF ServerType
    <3> QED BY <2>1, <2>2, <2>4, <3>2
  <2> QED BY <2>3, <2>4
<1>4. \A t \in Servers : srv'[t].http = srv[t].http /\ srv'[t].shutdownCh = srv[t].shutdownCh
  BY <1>3
<1>5. srv'[s].pc # "serving" /\ srv[s].pc = "start" /\ s \in Present
  BY <1>3 DEF ListenAndServe, IInv, Accepting
<1>6. Present' = Present
  BY DEF Present, ListenAndServe
<1>7. Accepting'
  BY <1>3, <1>5, <1>6 DEF IInv, Accepting, ListenAndServe
<1>8. Early'
  <2> SUFFICES ASSUME Prompt, SeparateAddresses, Running', ~Stopping', faults' \subseteq EarlyFaults
               PROVE Undisturbed'
    BY DEF Early, EarlyOnly
  <2>1. Undisturbed /\ handler.pc \notin {"stop", "stopped", "end"}
    BY DEF IInv, Early, EarlyOnly, Running, Stopping, ListenAndServe
  <2>2. ~Draining(s)
    BY <1>5, <2>1 DEF Undisturbed
  <2>3. Settled(s) /\ ~srv[s].open /\ ~Reloading
    BY <1>5, <2>1, <2>2 DEF Undisturbed, Settled
  <2>4. handler.pc = "wait" /\ handler.ln = None /\ leaked = {} /\ \A t \in Present : ~Draining(t)
    BY <1>1, <2>1, <2>3 DEF HandlerType, Reloading, Undisturbed, Draining
  <2>5. AddrOf(s) \notin Bound
    <3>1. SUFFICES ASSUME NEW t \in Servers, srv[t].open, srv[t].ln = AddrOf(s) PROVE FALSE
      BY <2>4 DEF Bound
    <3>2. t # s /\ t \in Present
      BY <3>1, <2>3 DEF IInv, Accepting
    <3>3. srv[t].ln = AddrOf(t)
      BY <3>1, <3>2, <2>1, <2>4 DEF Undisturbed, Settled
    <3>4. conf[srv[t].http] \in Configs /\ conf[srv[s].http] \in Configs
      BY BuiltConfig DEF IInv, Generations
    <3> QED BY <3>1, <3>2, <3>3, <3>4, AddressesDiffer DEF AddrOf
  <2>6. srv'[s].pc = "loop" /\ srv'[s].ln = AddrOf(s) /\ srv'[s].open = TRUE
    <3>1. "listen" \notin faults
      BY DEF EarlyFaults, ListenAndServe
    <3> QED BY <3>1, <2>5, <1>3
  <2>7. \A t \in Present : t \in Servers /\ AddrOf(t)' = AddrOf(t)
    BY <1>4 DEF AddrOf, ListenAndServe, Present
  <2>8. \A t \in Present : Settled(t)' /\ srv'[t].http = current
    <3>1. SUFFICES ASSUME NEW t \in Present PROVE Settled(t)' /\ srv'[t].http = current
      OBVIOUS
    <3>2. Settled(t) /\ srv[t].http = current
      BY <2>1, <2>4 DEF Undisturbed
    <3>3. CASE t = s
      BY <3>2, <3>3, <2>6, <2>7, <1>3 DEF Settled, ListenAndServe
    <3>4. CASE t # s
      BY <3>2, <3>4, <2>7, <1>3 DEF Settled, ListenAndServe
    <3> QED BY <3>3, <3>4
  <2>9. ~Reloading' /\ handler'.pc = "wait" /\ handler'.ln = None /\ \A t \in Present : ~Draining(t)'
    BY <2>3, <2>4 DEF Reloading, Draining, ListenAndServe
  <2> QED BY <1>6, <2>4, <2>8, <2>9, "wait" \notin {"drain", "drained", "send"}
      DEF Undisturbed, ListenAndServe
<1> QED BY <1>3, <1>4, <1>7, <1>8, Goroutine DEF ListenAndServe

\* A server that is not being replaced is not down, so it serves.
LEMMA ServeKeeps ==
  ASSUME IInv, NEW s \in Servers, Serve(s) PROVE IInv'
<1> USE DEF envVars, caVars, httpVars
<1>1. handler \in HandlerType /\ srv \in [Servers -> ServerType]
  BY TypeParts DEF IInv
<1>3. /\ srv' \in [Servers -> ServerType]
      /\ \A t \in Servers : t # s => srv'[t] = srv[t]
      /\ srv'[s].http = srv[s].http /\ srv'[s].shutdownCh = srv[s].shutdownCh
      /\ srv'[s].ln = srv[s].ln
      /\ IF << s, srv[s].http >> \in down
         THEN srv'[s].pc = "select" /\ srv'[s].open = FALSE
         ELSE srv'[s].pc = "serving" /\ srv'[s].open = srv[s].open /\ srv'[s].serving = srv[s].http
  BY <1>1 DEF Serve, ServerType
<1>4. \A t \in Servers : srv'[t].http = srv[t].http /\ srv'[t].shutdownCh = srv[t].shutdownCh
  BY <1>3
<1>5. srv[s].pc = "loop" /\ s \in Present
  BY <1>3 DEF Serve, IInv, Accepting
<1>6. Present' = Present
  BY DEF Present, Serve
<1>7. Accepting'
  <2>1. /\ srv'[s].pc = "serving" => srv'[s].serving = srv'[s].http
        /\ srv'[s].pc = "serving" => << s, srv'[s].http >> \notin down
    BY <1>3, "select" # "serving"
  <2>2. \A t \in Servers : t # s => srv'[t] = srv[t]
    BY <1>3
  <2>3. down' = down
    BY DEF Serve
  <2>4. SUFFICES ASSUME NEW t \in Servers
                 PROVE /\ srv'[t].pc = "serving" =>
                            srv'[t].serving = srv'[t].http \/ << t, srv'[t].serving >> \in down
                       /\ srv'[t].pc = "serving" /\ srv'[t].open =>
                            srv'[t].serving = srv'[t].http /\ << t, srv'[t].http >> \notin down
                       /\ t \notin Present => srv'[t].pc = "absent" /\ ~srv'[t].open
    BY <1>6, <2>3 DEF Accepting
  <2>5. CASE t = s
    BY <1>5, <2>1, <2>5
  <2>6. CASE t # s
    BY <2>2, <2>6 DEF IInv, Accepting
  <2> QED BY <2>5, <2>6
<1>8. Early'
  <2> SUFFICES ASSUME Prompt, SeparateAddresses, Running', ~Stopping', faults' \subseteq EarlyFaults
               PROVE Undisturbed'
    BY DEF Early, EarlyOnly
  <2>1. Undisturbed /\ handler.pc \notin {"stop", "stopped", "end"}
    BY DEF IInv, Early, EarlyOnly, Running, Stopping, Serve
  <2>2. ~Draining(s) /\ Settled(s) /\ (Reloading => Replaced(s))
    BY <1>5, <2>1 DEF Undisturbed
  <2>3. srv'[s].pc = "serving" /\ srv'[s].open = srv[s].open /\ srv[s].open = TRUE
    BY <1>1, <1>3, <1>5, <2>2 DEF Settled, ServerType
  <2>4. \A t \in Present : t \in Servers /\ AddrOf(t)' = AddrOf(t)
    BY <1>4 DEF AddrOf, Serve, Present
  <2>5. \A t \in Present : (Draining(t)' <=> Draining(t)) /\ (Replaced(t)' <=> Replaced(t))
    BY DEF Draining, Replaced, Serve
  <2>6. Settled(s)'
    BY <1>3, <2>2, <2>3, <2>4, <1>5, SMTT(60) DEF Settled, Serve
  <2>7. \A t \in Present : t # s /\ Settled(t) => Settled(t)'
    BY <1>3, <2>4 DEF Settled, Serve
  <2>8. srv'[s].pc # "start"
    BY <2>3
  <2> QED BY <1>3, <1>5, <1>6, <2>1, <2>2, <2>3, <2>4, <2>5, <2>6, <2>7, <2>8
      DEF Undisturbed, Reloading, Serve
<1> QED BY <1>3, <1>4, <1>7, <1>8, Goroutine DEF Serve

\* In the early case Serve returns only from the server being replaced.
LEMMA ServeReturnsKeeps ==
  ASSUME IInv, NEW s \in Servers, NEW failed \in BOOLEAN, ServeReturns(s,
     failed) PROVE IInv'
<1> USE DEF envVars, caVars, httpVars
<1>1. handler \in HandlerType /\ srv \in [Servers -> ServerType]
  BY TypeParts DEF IInv
<1>3. /\ srv' \in [Servers -> ServerType]
      /\ \A t \in Servers : t # s => srv'[t] = srv[t]
      /\ srv'[s].http = srv[s].http /\ srv'[s].shutdownCh = srv[s].shutdownCh
      /\ srv'[s].pc = "select" /\ srv'[s].open = FALSE
  <2> DEFINE new == [srv[s] EXCEPT !.pc = "select", !.serving = None, !.open = FALSE]
  <2>1. srv[s] \in ServerType
    BY <1>1
  <2>2. /\ new \in ServerType /\ new.http = srv[s].http /\ new.shutdownCh = srv[s].shutdownCh
        /\ new.pc = "select" /\ new.open = FALSE
    BY <2>1 DEF ServerType
  <2>3. srv' = [srv EXCEPT ![s] = new]
    BY <1>1, <2>1 DEF ServeReturns, ServerType
  <2> HIDE DEF new
  <2> QED BY <1>1, <2>2, <2>3
<1>4. \A t \in Servers : srv'[t].http = srv[t].http /\ srv'[t].shutdownCh = srv[t].shutdownCh
  BY <1>3
<1>5. srv[s].pc = "serving" /\ s \in Present
  BY <1>3 DEF ServeReturns, IInv, Accepting
<1>6. Present' = Present
  BY DEF Present, ServeReturns
<1>7. Accepting'
  BY <1>3, <1>5, <1>6 DEF IInv, Accepting, ServeReturns
<1>8. Early'
  <2> SUFFICES ASSUME Prompt, SeparateAddresses, Running', ~Stopping', faults' \subseteq EarlyFaults
               PROVE Undisturbed'
    BY DEF Early, EarlyOnly
  <2>1. Undisturbed /\ handler.pc \notin {"stop", "stopped", "end"}
    BY DEF IInv, Early, EarlyOnly, Running, Stopping, ServeReturns
  <2>2. ~failed /\ << s, srv[s].serving >> \in down
    BY DEF EarlyFaults, ServeReturns
  <2>3. ~srv[s].open
    BY <1>5, <2>2 DEF IInv, Accepting
  <2>4. \A t \in Present : t \in Servers /\ AddrOf(t)' = AddrOf(t)
    BY <1>4 DEF AddrOf, ServeReturns, Present
  <2>5. \A t \in Present : (Draining(t)' <=> Draining(t)) /\ (Replaced(t)' <=> Replaced(t))
    BY DEF Draining, Replaced, ServeReturns
  <2>6. Draining(s)
    BY <1>5, <2>1, <2>3 DEF Undisturbed, Settled
  <2>7. \A t \in Present : t # s /\ Settled(t) => Settled(t)'
    BY <1>3, <2>4 DEF Settled, ServeReturns
  <2>8. srv'[s].pc # "start" /\ srv'[s].pc \in {"serving", "select"}
    BY <1>3
  <2> QED BY <1>3, <1>5, <1>6, <2>1, <2>3, <2>4, <2>5, <2>6, <2>7, <2>8
      DEF Undisturbed, Reloading, ServeReturns
<1> QED BY <1>3, <1>4, <1>7, <1>8, Goroutine DEF ServeReturns

\* A Serve goroutine ends only after Stop has closed its channel.
LEMMA ServeEndsKeeps ==
  ASSUME IInv, NEW s \in Servers, ServeEnds(s) PROVE IInv'
<1> USE DEF envVars, caVars, httpVars
<1>1. handler \in HandlerType /\ srv \in [Servers -> ServerType]
  BY TypeParts DEF IInv
<1>3. /\ srv' \in [Servers -> ServerType]
      /\ \A t \in Servers : t # s => srv'[t] = srv[t]
      /\ srv'[s].http = srv[s].http /\ srv'[s].shutdownCh = srv[s].shutdownCh
      /\ srv'[s].pc = "returned"
  BY <1>1 DEF ServeEnds, ServerType
<1>4. \A t \in Servers : srv'[t].http = srv[t].http /\ srv'[t].shutdownCh = srv[t].shutdownCh
  BY <1>3
<1>5. srv[s].pc = "select" /\ s \in Present
  BY <1>3 DEF ServeEnds, IInv, Accepting
<1>6. Present' = Present
  BY DEF Present, ServeEnds
<1>7. Accepting'
  BY <1>3, <1>5, <1>6 DEF IInv, Accepting, ServeEnds
<1>8. Stopping /\ Stopping'
  BY DEF ServeEnds, IInv, Live, Stopping
<1>9. Early'
  BY <1>8 DEF Early, EarlyOnly
<1> QED BY <1>3, <1>4, <1>7, <1>9, Goroutine DEF ServeEnds

-----------------------------------------------------------------------------
\* A step that changes neither the handler nor the servers nor the CA.
LEMMA Outside ==
  ASSUME IInv, UNCHANGED << faults, handler, srv, conf, current, renewers, closed, down >>,
         TypeOK', Counted', Requests',
         Running' => Running, leaked' = leaked \/ leaked' = {}
  PROVE IInv'
<1>1. Built' = Built /\ Present' = Present /\ Stopping' = Stopping /\ Reloading' = Reloading
  BY DEF Built, Present, Stopping, Reloading
<1>2. Generations'
  BY <1>1 DEF IInv, Generations
<1>3. \A t : (Replaced(t)' <=> Replaced(t)) /\ (Draining(t)' <=> Draining(t)) /\ (Settled(t)' <=> Settled(t))
  BY DEF Replaced, Draining, Settled, AddrOf
<1>4. Replacing'
  BY <1>1, <1>3 DEF IInv, Replacing
<1>5. Accepting' /\ Live' /\ ReloadApplied'
  BY <1>1 DEF IInv, Accepting, Live, ReloadApplied
<1>6. Undisturbed => Undisturbed'
  BY <1>1, <1>3 DEF Undisturbed
<1>7. Early'
  BY <1>1, <1>6 DEF IInv, Early, EarlyOnly
<1> QED BY <1>2, <1>4, <1>5, <1>7 DEF IInv

\* A SIGHUP is counted when it is sent, also when it is dropped.
LEMMA SendHupKeeps == ASSUME IInv, SendHup PROVE IInv'
<1> USE DEF caVars, httpVars
<1>1. TypeOK'
  BY ConfigsAssumption, SMTT(60) DEF IInv, TypeOK, SendHup
<1>2. Built' = Built
  BY DEF Built, SendHup
<1>3. PICK k \in Gens : Built = 1 .. k /\ k <= sent + 1 /\ (signals = << "HUP" >> => k <= sent)
  BY DEF IInv, Generations, Counted
<1>4. k <= sent' /\ k <= sent' + 1
  BY <1>3, Gen, SMTT(60) DEF SendHup, IInv, TypeOK
<1>5. Counted'
  BY <1>2, <1>3, <1>4 DEF Counted
<1>6. Requests'
  BY DEF IInv, Requests, Present, SendHup
<1> QED BY <1>1, <1>5, <1>6, Outside DEF SendHup, Running

\* A SIGTERM in the channel leaves no room for a SIGHUP.
LEMMA SendTermKeeps == ASSUME IInv, SendTerm PROVE IInv'
<1> USE DEF caVars, httpVars
<1>1. TypeOK'
  BY SMTT(60) DEF IInv, TypeOK, SendTerm
<1>2. Built' = Built /\ signals' # << "HUP" >>
  BY DEF Built, SendTerm
<1>3. Counted'
  BY <1>2 DEF IInv, Generations, Counted, SendTerm
<1>4. Requests'
  BY DEF IInv, Requests, Present, SendTerm
<1> QED BY <1>1, <1>3, <1>4, Outside DEF SendTerm, Running

\* A request begins on the http.Server its server wraps.
LEMMA BeginRequestKeeps == ASSUME IInv, NEW s \in Servers, BeginRequest(s) PROVE IInv'
<1> USE DEF caVars, httpVars, envVars
<1>1. s \in Present /\ srv[s].serving = srv[s].http /\ srv[s].http \in Gens
  BY DEF IInv, Accepting, BeginRequest, TypeOK
<1>2. TypeOK'
  BY <1>1, SMTT(60) DEF IInv, TypeOK, BeginRequest
<1>3. Counted'
  BY DEF IInv, Generations, Counted, Built, BeginRequest
<1>4. Requests'
  BY <1>1 DEF IInv, Requests, Present, BeginRequest
<1> QED BY <1>2, <1>3, <1>4, Outside DEF BeginRequest, Running

\* The end of a request.
LEMMA EndRequestKeeps == ASSUME IInv, NEW r, EndRequest(r) PROVE IInv'
<1> USE DEF caVars, httpVars, envVars
<1>2. TypeOK'
  BY SMTT(60) DEF IInv, TypeOK, EndRequest
<1>3. Counted'
  BY DEF IInv, Generations, Counted, Built, EndRequest
<1>4. Requests'
  BY DEF IInv, Requests, Present, EndRequest
<1> QED BY <1>2, <1>3, <1>4, Outside DEF EndRequest, Running

\* The end of Run, and the finalizer of listeners.
LEMMA EndKeeps == ASSUME IInv, RunReturns \/ Finalize \/ UNCHANGED vars PROVE IInv'
<1> USE DEF caVars, httpVars, envVars, vars
<1>2. TypeOK'
  BY DEF IInv, TypeOK, RunReturns, Finalize
<1>1. UNCHANGED << signals, sent, conf, srv, active >>
  BY DEF RunReturns, Finalize
<1>3. Counted' /\ Requests'
  BY <1>1 DEF IInv, Generations, Counted, Built, Requests, Present
<1> QED BY <1>2, <1>3, Outside DEF RunReturns, Finalize, Running

-----------------------------------------------------------------------------
\* http.Server.Shutdown closes the listener of the server it is called on.
LEMMA ShutdownFacts ==
  ASSUME IInv, NEW s \in Servers, ShutdownBegins(s), conf' = conf
  PROVE /\ srv' \in [Servers -> ServerType]
        /\ \A t \in Servers : t # s => srv'[t] = srv[t]
        /\ \A t \in Servers : /\ srv'[t].http = srv[t].http /\ srv'[t].pc = srv[t].pc
                              /\ srv'[t].serving = srv[t].serving
                              /\ srv'[t].shutdownCh = srv[t].shutdownCh
        /\ srv[s].serving = srv[s].http => ~srv'[s].open
        /\ srv'[s].open => srv[s].open
        /\ down' = down \cup {<< s, srv[s].http >>} /\ down' \subseteq Servers \X Built
        /\ Built' = Built /\ Present' = Present
        /\ Accepting'
<1>1. srv \in [Servers -> ServerType]
  BY TypeParts DEF IInv
<1>2. /\ srv' \in [Servers -> ServerType]
      /\ \A t \in Servers : t # s => srv'[t] = srv[t]
      /\ srv[s].serving = srv[s].http => ~srv'[s].open
      /\ srv'[s].open => srv[s].open
  BY <1>1 DEF ShutdownBegins, ServerType
<1>3. srv'[s].http = srv[s].http /\ srv'[s].pc = srv[s].pc
      /\ srv'[s].serving = srv[s].serving /\ srv'[s].shutdownCh = srv[s].shutdownCh
  BY <1>1 DEF ShutdownBegins, ServerType
<1>4. \A t \in Servers : /\ srv'[t].http = srv[t].http /\ srv'[t].pc = srv[t].pc
                         /\ srv'[t].serving = srv[t].serving
                         /\ srv'[t].shutdownCh = srv[t].shutdownCh
  BY <1>2, <1>3
<1>5. down' = down \cup {<< s, srv[s].http >>} /\ srv[s].http \in Built /\ down \subseteq Servers \X Built
  BY DEF ShutdownBegins, IInv, Generations
<1>6. Built' = Built /\ Present' = Present
  BY DEF Built, Present
<1>7. down' \subseteq Servers \X Built
  BY <1>5, SMTT(60)
<1>8. \A t \in Servers : t # s => \A g : << t, g >> \in down' <=> << t, g >> \in down
  BY <1>5
<1>9. Accepting'
  <2>1. SUFFICES ASSUME NEW t \in Servers
                 PROVE /\ srv'[t].pc = "serving" =>
                            srv'[t].serving = srv'[t].http \/ << t, srv'[t].serving >> \in down'
                       /\ srv'[t].pc = "serving" /\ srv'[t].open =>
                            srv'[t].serving = srv'[t].http /\ << t, srv'[t].http >> \notin down'
                       /\ t \notin Present => srv'[t].pc = "absent" /\ ~srv'[t].open
    BY <1>6 DEF Accepting
  <2>2. CASE t = s
    BY <1>2, <1>3, <1>5, <2>2 DEF IInv, Accepting
  <2>3. CASE t # s
    BY <1>2, <1>8, <2>3 DEF IInv, Accepting
  <2> QED BY <2>2, <2>3
<1> QED BY <1>2, <1>4, <1>5, <1>6, <1>7, <1>9

\* The steps of Stop: only the types, the generations and the requests matter.
LEMMA StoppingKeeps ==
  ASSUME IInv, handler' \in HandlerType, srv' \in [Servers -> ServerType], Stopping',
         UNCHANGED << faults, sent, termed, conf, current, active, leaked, process >>,
         signals' \in {signals, << >>}, renewers' \subseteq renewers,
         closed' \subseteq Built, down' \subseteq Servers \X Built,
         \A t \in Servers : srv'[t].http = srv[t].http,
         handler'.pc # "end" => handler'.server \in Present,
         Accepting'
  PROVE IInv'
<1>1. Built' = Built /\ Present' = Present /\ Built \subseteq Gens
  BY DEF Built, Present
<1>2. TypeOK'
  BY <1>1 DEF IInv, TypeOK, HandlerType, ServerType, Generations
<1>3. signals' = << "HUP" >> => signals = << "HUP" >>
  BY SMTT(60)
<1>4. Generations'
  BY <1>1, <1>3 DEF IInv, Generations, Counted
<1>5. ~Reloading' /\ handler'.pc # "wait"
  BY DEF Stopping, Reloading
<1>6. Requests'
  BY <1>1 DEF IInv, Requests
<1> QED BY <1>2, <1>4, <1>5, <1>6 DEF IInv, Replacing, Live, ReloadApplied, Early,
   EarlyOnly

\* Stop begins.
LEMMA TakeTermKeeps == ASSUME IInv, TakeTerm PROVE IInv'
<1> USE DEF httpVars
<1>1. srv \in [Servers -> ServerType]
  BY TypeParts DEF IInv
<1>2. FirstServer \in Present /\ Present \subseteq Servers
  BY SecurePresent DEF FirstServer, Present
<1>3. handler' \in HandlerType /\ Stopping' /\ handler'.server \in Present
  BY <1>2 DEF TakeTerm, IdleHandler, HandlerType, Stopping
<1>4. closed' \subseteq Built
  BY DEF TakeTerm, IInv, Generations
<1>5. Accepting'
  BY DEF TakeTerm, IInv, Accepting, Present
<1>6. down \subseteq Servers \X Built
  BY DEF IInv, Generations
<1> QED BY <1>1, <1>3, <1>4, <1>5, <1>6, StoppingKeeps DEF TakeTerm

\* Stop shuts a server down.
LEMMA StopShutdownKeeps == ASSUME IInv, StopShutdown PROVE IInv'
<1> USE DEF envVars, caVars, httpVars
<1>1. handler \in HandlerType
  BY TypeParts DEF IInv
<1>2. handler.server \in Present /\ handler.server \in Servers
  BY DEF StopShutdown, IInv, Generations, Present
<1>3. handler' \in HandlerType /\ Stopping' /\ handler'.server \in Present
  BY <1>1, <1>2 DEF StopShutdown, HandlerType, Stopping
<1>4. /\ srv' \in [Servers -> ServerType] /\ \A t \in Servers : srv'[t].http = srv[t].http
      /\ down' \subseteq Servers \X Built /\ Accepting'
  BY <1>2, ShutdownFacts DEF StopShutdown
<1>5. closed \subseteq Built
  BY DEF IInv, Generations
<1> QED BY <1>3, <1>4, <1>5, StoppingKeeps DEF StopShutdown

\* Stop closes the channel of a server.
LEMMA StopCloseKeeps == ASSUME IInv, StopClose PROVE IInv'
<1> USE DEF envVars, caVars, httpVars
<1>1. handler \in HandlerType /\ srv \in [Servers -> ServerType]
  BY TypeParts DEF IInv
<1>2. handler.server \in Present /\ handler.server \in Servers /\ "secure" \in Present
  BY SecurePresent DEF StopClose, IInv, Generations, Present
<1>3. handler' \in HandlerType /\ Stopping' /\ (handler'.pc # "end" => handler'.server \in Present)
  BY <1>1, <1>2 DEF StopClose, HandlerType, Stopping, Present
<1>4. PICK s \in Servers : s = handler.server
  BY <1>2
<1>5. /\ srv' \in [Servers -> ServerType] /\ \A t \in Servers : t # s => srv'[t] = srv[t]
      /\ srv'[s].http = srv[s].http /\ srv'[s].pc = srv[s].pc
      /\ srv'[s].serving = srv[s].serving /\ srv'[s].open = srv[s].open
  <2> DEFINE new == [srv[s] EXCEPT !.shutdownCh = TRUE]
  <2>1. srv[s] \in ServerType
    BY <1>1
  <2>2. /\ new \in ServerType /\ new.http = srv[s].http /\ new.pc = srv[s].pc
        /\ new.serving = srv[s].serving /\ new.open = srv[s].open
    BY <2>1 DEF ServerType
  <2>3. srv' = [srv EXCEPT ![s] = new]
    BY <1>1, <1>4, <2>1 DEF StopClose, ServerType
  <2> HIDE DEF new
  <2> QED BY <1>1, <2>2, <2>3
<1>6. \A t \in Servers : /\ srv'[t].http = srv[t].http /\ srv'[t].pc = srv[t].pc
                         /\ srv'[t].serving = srv[t].serving /\ srv'[t].open = srv[t].open
  BY <1>5
<1>7. Accepting'
  <2>1. down' = down /\ Present' = Present
    BY DEF StopClose, Present
  <2> QED BY <1>6, <2>1 DEF IInv, Accepting
<1>8. closed \subseteq Built /\ down \subseteq Servers \X Built
  BY DEF IInv, Generations
<1> QED BY <1>3, <1>5, <1>6, <1>7, <1>8, StoppingKeeps DEF StopClose

-----------------------------------------------------------------------------
\* A Reload that gives up after New touches neither the servers nor the CA.
LEMMA GiveUpKeeps ==
  ASSUME IInv, GiveUp, ~Stopping, Early',
         UNCHANGED << envVars, srv, caVars, httpVars, process >>
  PROVE IInv'
<1> USE DEF envVars, caVars, httpVars
<1>1. handler \in HandlerType /\ leaked \subseteq Addresses
  BY TypeParts DEF IInv, TypeOK
<1>2. /\ handler' \in HandlerType /\ handler'.pc = "wait" /\ handler'.result = "failed"
      /\ leaked' \subseteq Addresses
  BY <1>1 DEF GiveUp, IdleHandler, HandlerType
<1>3. TypeOK'
  BY <1>2 DEF IInv, TypeOK, HandlerType
<1>4. Built' = Built /\ Present' = Present
  BY DEF Built, Present
<1>5. Generations'
  BY <1>2, <1>4 DEF IInv, Generations, Counted
<1>6. ~Reloading' /\ ReloadApplied'
  BY <1>2 DEF Reloading, ReloadApplied
<1>7. Accepting' /\ Requests' /\ Live'
  BY <1>4 DEF IInv, Accepting, Requests, Live
<1> QED BY <1>3, <1>5, <1>6, <1>7 DEF IInv, Replacing

\* The parts of the invariant that a step of Reload keeps, when it leaves the CA
\* alone and changes what no server wraps.
LEMMA ReloadStepKeeps ==
  ASSUME IInv, handler' \in HandlerType, srv' \in [Servers -> ServerType],
         Reloading, Reloading', handler'.gen = handler.gen, handler'.server \in Present,
         UNCHANGED << envVars, caVars, active, leaked, process >>,
         \A t \in Servers : srv'[t].http = srv[t].http /\ srv'[t].shutdownCh = srv[t].shutdownCh,
         down' \subseteq Servers \X Built, \A t \in Servers : << t, handler.gen >> \notin down',
         \A t \in Present : Replaced(t)' <=> Replaced(t),
         handler'.pc = "drained" => << handler'.server, srv[handler'.server].http >> \in down',
         Accepting', Early'
  PROVE IInv'
<1> USE DEF envVars, caVars
<1>1. Built' = Built /\ Present' = Present /\ Built \subseteq Gens /\ Present \subseteq Servers
  BY DEF Built, Present
<1>2. TypeOK'
  BY <1>1 DEF IInv, TypeOK, HandlerType, ServerType
<1>3. ~Stopping /\ ~Stopping' /\ handler'.pc # "wait"
  BY DEF Stopping, Reloading
<1>4. Generations'
  BY <1>1 DEF IInv, Generations, Counted
<1>5. Replacing'
  <2>1. srv'[handler'.server].http = srv[handler'.server].http
    BY <1>1
  <2>2. \A t \in Present : srv'[t].http = srv[t].http
    BY <1>1
  <2> QED BY <1>1, <2>1, <2>2 DEF IInv, Replacing
<1>6. Requests'
  BY <1>1 DEF IInv, Requests
<1>7. Live'
  BY <1>1, <1>3, SecurePresent DEF IInv, Live
<1> QED BY <1>2, <1>3, <1>4, <1>5, <1>6, <1>7 DEF IInv, ReloadApplied

\* In the early case, what a Reload reads before its listener is opened.
LEMMA EarlyListens ==
  ASSUME IInv, Undisturbed, SeparateAddresses, handler.pc = "listen"
  PROVE LET s == handler.server
            addr == conf[handler.gen][s]
        IN IF addr = AddrOf(s) THEN srv[s].open ELSE addr \notin Bound
<1> DEFINE s == handler.server
           addr == conf[handler.gen][s]
<1>1. s \in Present /\ Present \subseteq Servers /\ Reloading /\ ~Replaced("secure")
  BY DEF IInv, Generations, Present, Reloading, Replaced
<1>2. ~Replaced(s)
  BY <1>1 DEF Replaced, Present, Servers
<1>3. handler.ln = None /\ leaked = {} /\ \A t \in Present : ~Draining(t) /\ Settled(t)
  BY DEF Undisturbed, Draining
<1>4. srv[s].open /\ srv[s].ln = AddrOf(s)
  BY <1>1, <1>3 DEF Undisturbed, Settled
<1>5. ASSUME addr # AddrOf(s), addr \in Bound PROVE FALSE
  <2>1. PICK t \in Servers : srv[t].open /\ srv[t].ln = addr
    BY <1>3, <1>5 DEF Bound
  <2>2. t # s /\ t \in Present
    BY <1>4, <1>5, <2>1 DEF IInv, Accepting
  <2>3. addr = AddrOf(t)
    BY <1>3, <2>1, <2>2 DEF Settled
  <2>4. conf[handler.gen] \in Configs /\ conf[srv[t].http] \in Configs
    BY <1>1, BuiltConfig DEF IInv, Generations, Replacing
  <2> QED BY <1>1, <2>2, <2>3, <2>4, AddressesDiffer DEF AddrOf
<1> QED BY <1>4, <1>5

\* Reload gets its listener, which in the early case it always does.
LEMMA ReloadListenKeeps == ASSUME IInv, ReloadListen PROVE IInv'
<1> DEFINE s == handler.server
           addr == conf[handler.gen][s]
           can == IF addr = AddrOf(s) THEN srv[s].open ELSE addr \notin Bound
<1> USE DEF envVars, caVars, httpVars
<1>1. handler \in HandlerType /\ srv \in [Servers -> ServerType]
  BY TypeParts DEF IInv
<1>2. s \in Present /\ s \in Servers /\ Reloading /\ ~Stopping /\ handler.gen \in Built
  BY DEF IInv, Generations, Replacing, Present, Reloading, Stopping, ReloadListen
<1>3. addr \in Addresses \cup {None}
  BY <1>2, BuiltConfig, AddressTyped
<1>4. PICK ok \in BOOLEAN :
        /\ IF ok /\ can
           THEN handler' = [handler EXCEPT !.pc = "drain", !.ln = addr] /\ leaked' = leaked
           ELSE GiveUp
        /\ "listen" \notin faults => ok
  BY DEF ReloadListen
<1>5. UNCHANGED << envVars, srv, caVars, httpVars, process >>
  BY DEF ReloadListen
<1>6. ASSUME Prompt, SeparateAddresses, Running', faults' \subseteq EarlyFaults PROVE Undisturbed /\ ok /\ can
  <2>1. Undisturbed
    BY <1>2, <1>5, <1>6 DEF IInv, Early, EarlyOnly, Running
  <2>2. "listen" \notin faults
    BY <1>5, <1>6 DEF EarlyFaults
  <2> QED BY <1>4, <1>6, <2>1, <2>2, EarlyListens DEF ReloadListen
<1>7. CASE ~(ok /\ can)
  <2>1. Early' /\ GiveUp
    BY <1>4, <1>6, <1>7 DEF Early, EarlyOnly
  <2> QED BY <1>2, <1>5, <2>1, GiveUpKeeps
<1>8. CASE ok /\ can
  <2>1. handler' = [handler EXCEPT !.pc = "drain", !.ln = addr] /\ leaked' = leaked
    BY <1>4, <1>8
  <2>2. /\ handler' \in HandlerType /\ handler'.pc = "drain" /\ handler'.gen = handler.gen
        /\ handler'.server = handler.server /\ handler'.ln = addr
    BY <1>1, <1>3, <2>1 DEF HandlerType
  <2>3. Present' = Present /\ Accepting'
    BY <1>5 DEF Present, IInv, Accepting
  <2>4. Reloading' /\ \A t : Replaced(t)' <=> Replaced(t)
    BY <2>2 DEF ReloadListen, Reloading, Replaced
  <2>5. Early'
    <3>1. SUFFICES ASSUME Prompt, SeparateAddresses, Running', faults' \subseteq EarlyFaults
                   PROVE Undisturbed'
      BY DEF Early, EarlyOnly
    <3>2. Undisturbed
      BY <3>1, <1>6
    <3>3. \A t : ~Draining(t)' /\ ~Draining(t) /\ (Settled(t)' <=> Settled(t))
      BY <1>5, <2>2 DEF Draining, Settled, AddrOf, ReloadListen
    <3>4. handler'.pc \notin {"wait", "listen", "replace"}
      BY <2>2
    <3> QED BY <1>2, <1>5, <2>1, <2>2, <2>3, <2>4, <3>2, <3>3, <3>4 DEF Undisturbed
  <2>6. handler'.pc # "drained" /\ down \subseteq Servers \X Built /\ \A t \in Servers : << t, handler.gen >> \notin down
    BY <1>2, <2>2 DEF IInv, Generations, Replacing
  <2> QED BY <1>1, <1>2, <1>5, <2>1, <2>2, <2>3, <2>4, <2>5, <2>6, ReloadStepKeeps
<1> QED BY <1>7, <1>8

\* Reload shuts down the http.Server that it will replace.
LEMMA ReloadShutdownKeeps == ASSUME IInv, ReloadShutdown PROVE IInv'
<1> USE DEF envVars, caVars, httpVars
<1>1. handler \in HandlerType
  BY TypeParts DEF IInv
<1>2. PICK s \in Servers : s = handler.server /\ s \in Present
  BY DEF IInv, Generations, Present, ReloadShutdown
<1>3. Reloading /\ ~Replaced(s)
  BY <1>2 DEF Reloading, Replaced, ReloadShutdown, Servers
<1>4. /\ handler' \in HandlerType /\ handler'.pc = "drained" /\ handler'.gen = handler.gen
      /\ handler'.server = s /\ handler'.ln = handler.ln
  BY <1>1, <1>2 DEF HandlerType, ReloadShutdown
<1>5. Reloading' /\ \A t : Replaced(t)' <=> Replaced(t)
  BY <1>2, <1>4 DEF Reloading, Replaced, ReloadShutdown
<1>6. UNCHANGED << envVars, caVars, active, leaked, process >> /\ ShutdownBegins(s) /\ conf' = conf
  BY <1>2 DEF ReloadShutdown
<1>7. /\ srv' \in [Servers -> ServerType]
      /\ \A t \in Servers : t # s => srv'[t] = srv[t]
      /\ \A t \in Servers : /\ srv'[t].http = srv[t].http /\ srv'[t].pc = srv[t].pc
                            /\ srv'[t].serving = srv[t].serving
                            /\ srv'[t].shutdownCh = srv[t].shutdownCh
      /\ srv[s].serving = srv[s].http => ~srv'[s].open
      /\ srv'[s].open => srv[s].open
      /\ down' = down \cup {<< s, srv[s].http >>} /\ down' \subseteq Servers \X Built
      /\ Built' = Built /\ Present' = Present
      /\ Accepting'
  BY <1>6, ShutdownFacts
<1>8. srv[s].http # handler.gen /\ \A t \in Servers : << t, handler.gen >> \notin down
  BY <1>2, <1>3 DEF IInv, Replacing
<1>9. /\ \A t \in Servers : << t, handler.gen >> \notin down'
      /\ << s, srv[s].http >> \in down'
      /\ \A t \in Servers : t # s /\ << t, srv[t].http >> \notin down => << t, srv[t].http >> \notin down'
  BY <1>7, <1>8
<1>10. Early'
  <2> SUFFICES ASSUME Prompt, SeparateAddresses, Running', faults' \subseteq EarlyFaults PROVE Undisturbed'
    BY DEF Early, EarlyOnly
  <2>1. ~Stopping
    BY DEF Stopping, ReloadShutdown
  <2>2. Undisturbed
    BY <1>6, <2>1 DEF IInv, Early, EarlyOnly, Running
  <2>3. \A t : ~Draining(t)
    BY DEF Draining, ReloadShutdown
  <2>4. srv[s].pc = "serving" /\ srv[s].open
    BY <1>2, <1>3, <2>2, <2>3 DEF Undisturbed, Settled
  <2>5. ~srv'[s].open /\ srv'[s].pc \in {"serving", "select"}
    <3>1. srv[s].serving = srv[s].http
      BY <2>4 DEF IInv, Accepting
    <3> QED BY <3>1, <2>4, <1>7
  <2>6. \A t \in Present : t \in Servers /\ AddrOf(t)' = AddrOf(t)
    BY <1>6, <1>7 DEF AddrOf, Present
  <2>7. \A t \in Present : t # s => Settled(t)'
    <3>1. SUFFICES ASSUME NEW t \in Present, t # s PROVE Settled(t)'
      OBVIOUS
    <3>2. Settled(t) /\ srv'[t] = srv[t] /\ << t, srv[t].http >> \notin down'
      BY <3>1, <1>7, <1>9, <2>2, <2>3, <2>6 DEF Undisturbed, Settled
    <3> QED BY <3>2, <2>6 DEF Settled
  <2>8. \A t : Draining(t)' <=> t = s
    BY <1>4 DEF Draining
  <2>9. handler'.pc \notin {"wait", "listen", "replace"} /\ handler.ln = conf[handler.gen][s]
    BY <1>2, <1>4, <2>2 DEF Undisturbed, ReloadShutdown
  <2> QED BY <1>3, <1>4, <1>5, <1>6, <1>7, <2>2, <2>5, <2>6, <2>7, <2>8, <2>9 DEF Undisturbed
<1> QED BY <1>2, <1>3, <1>4, <1>5, <1>6, <1>7, <1>9, <1>10, ReloadStepKeeps

\* Reload hands the listener over and goes on to the next server.
LEMMA ReloadSendKeeps == ASSUME IInv, ReloadSend PROVE IInv'
<1> USE DEF envVars, caVars, httpVars
<1>1. handler \in HandlerType /\ srv \in [Servers -> ServerType]
  BY TypeParts DEF IInv
<1>2. PICK s \in Servers : s = handler.server /\ s \in Present
  BY DEF IInv, Generations, Present, ReloadSend
<1>3. Reloading /\ Replaced(s) /\ "secure" \in Present /\ Present \subseteq Servers
  BY <1>2, SecurePresent DEF Reloading, Replaced, ReloadSend, Present
<1>4. /\ handler' \in HandlerType /\ handler'.gen = handler.gen /\ handler'.ln = None
      /\ handler'.server = "secure"
      /\ handler'.pc = IF s = "insecure" THEN "listen" ELSE "replace"
  BY <1>1, <1>2 DEF HandlerType, ReloadSend, Servers
<1>5. Reloading' /\ \A t \in Present : Replaced(t)' <=> Replaced(t)
  BY <1>2, <1>3, <1>4, SMTT(60) DEF Reloading, Replaced, ReloadSend, Servers
<1>6. UNCHANGED << envVars, caVars, httpVars, leaked, process >> /\ srv[s].pc = "select"
  BY <1>2 DEF ReloadSend
<1>7. /\ srv' \in [Servers -> ServerType]
      /\ \A t \in Servers : t # s => srv'[t] = srv[t]
      /\ srv'[s].http = srv[s].http /\ srv'[s].shutdownCh = srv[s].shutdownCh
      /\ srv'[s].pc = "loop" /\ srv'[s].ln = handler.ln /\ srv'[s].open
  <2>1. PICK ln \in Addresses \cup {None} : ln = handler.ln
    BY <1>1 DEF HandlerType
  <2>2. PICK new : new = [srv[s] EXCEPT !.pc = "loop", !.ln = ln, !.open = TRUE]
    OBVIOUS
  <2>3. /\ new \in ServerType /\ new.http = srv[s].http /\ new.shutdownCh = srv[s].shutdownCh
        /\ new.pc = "loop" /\ new.ln = ln /\ new.open = TRUE
    BY <1>1, <2>2 DEF ServerType
  <2>4. srv' = [srv EXCEPT ![s].pc = "loop", ![s].ln = ln, ![s].open = TRUE]
    BY <1>2, <2>1 DEF ReloadSend
  <2>5. srv' = [srv EXCEPT ![s] = new]
    BY <1>1, <2>2, <2>4
  <2> QED BY <1>1, <2>1, <2>3, <2>5
<1>8. \A t \in Servers : srv'[t].http = srv[t].http /\ srv'[t].shutdownCh = srv[t].shutdownCh
  BY <1>7
<1>9. Present' = Present
  BY <1>6 DEF Present
<1>10. Accepting'
  <2>1. srv'[s].pc # "serving"
    BY <1>7
  <2> QED BY <1>2, <1>6, <1>7, <1>9, <2>1 DEF IInv, Accepting
<1>11. Early'
  <2> SUFFICES ASSUME Prompt, SeparateAddresses, Running', faults' \subseteq EarlyFaults PROVE Undisturbed'
    BY DEF Early, EarlyOnly
  <2>1. ~Stopping
    BY DEF Stopping, ReloadSend
  <2>2. Undisturbed
    BY <1>6, <2>1 DEF IInv, Early, EarlyOnly, Running
  <2>3. handler.ln = conf[handler.gen][s] /\ srv[s].http = handler.gen /\ << s, handler.gen >> \notin down
    <3>1. handler.ln = conf[handler.gen][s]
      BY <1>2, <2>2 DEF Undisturbed, ReloadSend
    <3> QED BY <1>2, <1>3, <3>1 DEF IInv, Replacing
  <2>4. \A t \in Present : AddrOf(t)' = AddrOf(t)
    BY <1>3, <1>6, <1>8 DEF AddrOf
  <2>5. Settled(s)' /\ srv'[s].pc # "start"
    <3>1. << s, srv'[s].http >> \notin down' /\ srv'[s].ln = AddrOf(s)'
      BY <1>2, <1>6, <1>7, <2>3, <2>4 DEF AddrOf
    <3> QED BY <1>7, <3>1 DEF Settled
  <2>6. \A t \in Present : t # s => ~Draining(t)
    BY <1>2 DEF Draining
  <2>7. \A t \in Present : t # s => Settled(t)'
    BY <1>3, <1>6, <1>7, <2>2, <2>4, <2>6 DEF Undisturbed, Settled
  <2>8. \A t : ~Draining(t)'
    BY <1>4 DEF Draining
  <2>9. handler'.pc # "wait" /\ handler'.pc \notin {"drain", "drained", "send"}
    BY <1>4
  <2> QED BY <1>3, <1>4, <1>5, <1>6, <1>7, <1>9, <2>2, <2>5, <2>7, <2>8, <2>9 DEF Undisturbed
<1>12. /\ handler'.pc # "drained" /\ down' \subseteq Servers \X Built
       /\ \A t \in Servers : << t, handler.gen >> \notin down'
  BY <1>3, <1>4, <1>6 DEF IInv, Generations, Replacing
<1> QED BY <1>3, <1>4, <1>5, <1>6, <1>7, <1>8, <1>10, <1>11, <1>12, ReloadStepKeeps

\* Both servers use the new generation when the old one is closed.
LEMMA ReloadReplaceKeeps == ASSUME IInv, ReloadReplace PROVE IInv'
<1> USE DEF envVars, caVars, httpVars
<1>1. /\ handler' \in HandlerType /\ handler'.pc = "wait" /\ handler'.result = "applied" /\ handler'.ln = None
  BY Gen DEF HandlerType, ReloadReplace, IdleHandler
<1>2. PICK g : g = handler.gen
  OBVIOUS
<1>3. Reloading /\ (\A t \in Present : Replaced(t)) /\ ~Stopping /\ ~Reloading' /\ ~Stopping'
  BY <1>1 DEF Reloading, Replaced, Stopping, ReloadReplace
<1>4. /\ g \in Built /\ g # current /\ g \in renewers \ closed
      /\ \A t \in Present : srv[t].http = g
  BY <1>2, <1>3 DEF IInv, Replacing
<1>5. /\ UNCHANGED << envVars, srv, conf, httpVars, leaked, process >> /\ current' = g
      /\ renewers' = renewers \ {current} /\ closed' = closed \cup {current}
  BY <1>2 DEF ReloadReplace
<1>6. Built' = Built /\ Present' = Present /\ Built \subseteq Gens
  BY <1>5 DEF Built, Present
<1>7. TypeOK'
  BY <1>1, <1>4, <1>5, <1>6 DEF IInv, TypeOK, HandlerType
<1>8. g \in renewers' \ closed' /\ closed' \subseteq Built /\ renewers' \subseteq Built
  BY <1>4, <1>5 DEF IInv, Generations
<1>9. Generations'
  BY <1>1, <1>4, <1>5, <1>6, <1>8 DEF IInv, Generations, Counted
<1>10. Accepting' /\ Requests'
  BY <1>5, <1>6 DEF IInv, Accepting, Requests
<1>11. Live' /\ ReloadApplied'
  BY <1>3, <1>4, <1>5, <1>6, <1>8, SecurePresent DEF IInv, Live, ReloadApplied
<1>12. Early'
  <2> SUFFICES ASSUME Prompt, SeparateAddresses, Running', faults' \subseteq EarlyFaults PROVE Undisturbed'
    BY DEF Early, EarlyOnly
  <2>1. Undisturbed
    BY <1>3, <1>5 DEF IInv, Early, EarlyOnly, Running
  <2>2. \A t : ~Draining(t) /\ ~Draining(t)' /\ (Settled(t)' <=> Settled(t))
    BY <1>1, <1>5 DEF Draining, Settled, AddrOf, ReloadReplace
  <2>3. handler'.pc \notin {"drain", "drained", "send"}
    BY <1>1
  <2> QED BY <1>1, <1>3, <1>4, <1>5, <1>6, <2>1, <2>2, <2>3 DEF Undisturbed
<1> QED BY <1>3, <1>7, <1>9, <1>10, <1>11, <1>12 DEF IInv, Replacing

\* The http.Server is swapped when no request runs on the old one.
LEMMA ReloadSwapKeeps == ASSUME IInv, ReloadSwap PROVE IInv'
<1> USE DEF envVars, caVars, httpVars
<1>1. handler \in HandlerType /\ srv \in [Servers -> ServerType]
  BY TypeParts DEF IInv
<1>2. PICK s \in Servers : s = handler.server /\ s \in Present
  BY DEF IInv, Generations, Present, ReloadSwap
<1>3. Reloading /\ ~Stopping /\ << s, srv[s].http >> \in down /\ Present \subseteq Servers
  BY <1>2 DEF IInv, Replacing, Reloading, Stopping, ReloadSwap, Present
<1>4. UNCHANGED << envVars, caVars, httpVars, process >>
  BY DEF ReloadSwap
<1>5. PICK ok \in BOOLEAN :
        /\ ShutdownEnds(s, ok)
        /\ IF ok
           THEN /\ handler' = [handler EXCEPT !.pc = "send"]
                /\ srv' = [srv EXCEPT ![s].http = handler.gen]
                /\ leaked' = leaked
           ELSE GiveUp /\ srv' = srv
  BY <1>2 DEF ReloadSwap
<1>6. ASSUME Prompt, SeparateAddresses, Running', faults' \subseteq EarlyFaults PROVE Undisturbed /\ ok
  <2>1. Undisturbed
    BY <1>3, <1>4, <1>6 DEF IInv, Early, EarlyOnly, Running
  <2>2. "timeout" \notin faults
    BY <1>4, <1>6 DEF EarlyFaults
  <2> QED BY <1>5, <2>1, <2>2 DEF ShutdownEnds
<1>7. CASE ~ok
  <2>1. Early' /\ GiveUp /\ srv' = srv
    BY <1>5, <1>6, <1>7 DEF Early, EarlyOnly
  <2> QED BY <1>3, <1>4, <2>1, GiveUpKeeps
<1>8. CASE ok
  <2>1. PICK g : g = handler.gen
    OBVIOUS
  <2>2. /\ g \in Built /\ g # current /\ g \in renewers \ closed
        /\ \A t \in Servers : << t, g >> \notin down
        /\ \A t \in Present : srv[t].http = g <=> Replaced(t)
    BY <1>3, <2>1 DEF IInv, Replacing
  <2>3. g \in Gens
    BY <2>2 DEF Built
  <2>4. handler' = [handler EXCEPT !.pc = "send"] /\ srv' = [srv EXCEPT ![s].http = g] /\ leaked' = leaked
    BY <1>5, <1>8, <2>1
  <2>5. /\ handler' \in HandlerType /\ handler'.pc = "send" /\ handler'.gen = g
        /\ handler'.server = s /\ handler'.ln = handler.ln
    BY <1>1, <1>2, <2>1, <2>4 DEF HandlerType
  <2>6. /\ srv' \in [Servers -> ServerType]
        /\ \A t \in Servers : t # s => srv'[t] = srv[t]
        /\ srv'[s].http = g /\ srv'[s].shutdownCh = srv[s].shutdownCh
        /\ srv'[s].pc = srv[s].pc /\ srv'[s].serving = srv[s].serving
        /\ srv'[s].open = srv[s].open
    BY <1>1, <2>3, <2>4 DEF ServerType
  <2>7. Built' = Built /\ Present' = Present
    BY <1>4 DEF Built, Present
  <2>8. TypeOK'
    BY <1>4, <2>4, <2>5, <2>6 DEF IInv, TypeOK, HandlerType, ServerType
  <2>9. \A t \in Servers : srv'[t].http \in Built
    BY <2>2, <2>6 DEF IInv, Generations
  <2>10. Generations'
    BY <1>2, <1>4, <2>5, <2>7, <2>9 DEF IInv, Generations, Counted
  <2>11. /\ Reloading' /\ Replaced(s)' /\ (\A t : t # s => (Replaced(t)' <=> Replaced(t)))
         /\ ~Stopping' /\ handler'.pc # "drained"
    BY <1>2, <2>5 DEF Reloading, Replaced, ReloadSwap, Stopping
  <2>12. Replacing'
    BY <1>2, <1>3, <1>4, <2>2, <2>5, <2>6, <2>7, <2>11 DEF Replacing
  <2>13. Accepting'
    <3>1. srv[s].pc = "serving" => ~srv[s].open /\ << s, srv[s].serving >> \in down
      BY <1>3 DEF IInv, Accepting
    <3> QED BY <1>2, <1>4, <2>6, <2>7, <3>1 DEF IInv, Accepting
  <2>14. Requests'
    <3>1. << s, srv[s].http >> \notin active
      BY <1>5, <1>8 DEF ShutdownEnds, Drained
    <3>2. \A h \in Gens : << s, h >> \notin active
      BY <3>1 DEF IInv, Requests
    <3> QED BY <1>4, <2>6, <2>7, <3>2 DEF IInv, Requests
  <2>15. Live'
    <3>1. srv'["secure"].http \in renewers
      BY <1>3, <2>2, <2>6, SecurePresent DEF IInv, Live
    <3>2. \A t \in Servers : ~srv'[t].shutdownCh
      BY <1>3, <2>6 DEF IInv, Live
    <3> QED BY <1>3, <1>4, <2>2, <2>6, <2>7, <3>1, <3>2 DEF IInv, Live
  <2>16. Early'
    <3> SUFFICES ASSUME Prompt, SeparateAddresses, Running', faults' \subseteq EarlyFaults PROVE Undisturbed'
      BY DEF Early, EarlyOnly
    <3>1. Undisturbed
      BY <1>6
    <3>2. Draining(s) /\ Draining(s)' /\ \A t : t # s => ~Draining(t) /\ ~Draining(t)'
      BY <1>2, <2>5 DEF Draining, ReloadSwap
    <3>3. \A t \in Present : t # s => Settled(t)' /\ t \in Servers
      <4>1. SUFFICES ASSUME NEW t \in Present, t # s PROVE Settled(t)'
        BY <1>3
      <4>2. Settled(t) /\ srv'[t] = srv[t] /\ AddrOf(t)' = AddrOf(t) /\ down' = down
        BY <1>3, <1>4, <2>6, <3>1, <3>2, <4>1 DEF Undisturbed, AddrOf
      <4> QED BY <4>2 DEF Settled
    <3>4. handler'.pc \notin {"wait", "listen", "replace"} /\ handler.ln = conf[g][s]
      BY <1>2, <2>1, <2>5, <3>1 DEF Undisturbed, ReloadSwap
    <3>5. handler'.pc # "wait"
      BY <2>5
    <3> QED BY <1>2, <1>3, <1>4, <2>4, <2>5, <2>6, <2>7, <2>11, <3>1, <3>2, <3>3, <3>4,
       <3>5, Zenon
        DEF Undisturbed
  <2>17. ReloadApplied'
    BY <2>5 DEF ReloadApplied
  <2> QED BY <2>8, <2>10, <2>12, <2>13, <2>14, <2>15, <2>16, <2>17 DEF IInv
<1> QED BY <1>7, <1>8

-----------------------------------------------------------------------------
INSTANCE FiniteSetTheorems

\* New gives the next number to the generation it builds; a SIGHUP is left for it.
LEMMA NextIsFresh ==
  ASSUME IInv, signals = << "HUP" >>
  PROVE \E k \in Gens : /\ Built = 1 .. k /\ k <= sent
                        /\ NextGen = k + 1 /\ k + 1 \in Gens /\ k + 1 \notin Built
<1>1. PICK k \in Gens : Built = 1 .. k /\ k <= sent
  BY DEF IInv, Generations, Counted
<1>2. k \in Nat /\ k >= 1
  BY ConfigsAssumption, SMTT(60) DEF Gens
<1>3. Cardinality(1 .. k) = k
  BY <1>2, FS_Interval, SMTT(60)
<1>4. NextGen = k + 1
  BY <1>1, <1>3 DEF NextGen, Built
<1>5. k + 1 \in Gens /\ k + 1 \notin 1 .. k
  BY <1>1, <1>2, ConfigsAssumption, SMTT(60) DEF IInv, TypeOK, Gens
<1> QED BY <1>1, <1>4, <1>5

\* What building a generation changes.
LEMMA NewCAFacts ==
  ASSUME IInv, signals = << "HUP" >>, NEW c \in Configs, NEW outcome, NewCA(c,
     outcome) PROVE
    /\ conf' \in [Gens -> Configs \cup {None}] /\ \A g \in Built : conf'[g] = conf[g]
    /\ Built \subseteq Built' /\ renewers \subseteq renewers' /\ renewers' \subseteq Built'
    /\ \E k \in Gens : Built' = 1 .. k /\ k <= sent + 1
    /\ outcome = "ok" => NextGen \in Built' \ Built /\ NextGen \in renewers' /\ NextGen \in Gens
                           /\ conf'[NextGen] = c
<1>1. PICK k \in Gens : /\ Built = 1 .. k /\ k <= sent
                        /\ NextGen = k + 1 /\ k + 1 \in Gens /\ k + 1 \notin Built
  BY NextIsFresh
<1>2. k \in Nat /\ sent \in Nat /\ conf \in [Gens -> Configs \cup {None}] /\ renewers \subseteq Built /\ k <= sent + 1
  BY <1>1, Gen, SMTT(60) DEF IInv, TypeOK, Generations
<1>3. CASE outcome = "auth"
  <2>1. conf' = conf /\ renewers' = renewers /\ outcome # "ok"
    BY <1>3 DEF NewCA
  <2>2. Built' = Built
    BY <2>1 DEF Built
  <2> QED BY <1>1, <1>2, <2>1, <2>2
<1>4. CASE outcome # "auth"
  <2>1. conf' = [conf EXCEPT ![k + 1] = c] /\ renewers' = renewers \cup {k + 1}
    BY <1>1, <1>4 DEF NewCA
  <2>2. PICK n \in Gens : n = k + 1
    BY <1>1
  <2>3. /\ conf' \in [Gens -> Configs \cup {None}] /\ conf'[n] = c
        /\ \A g \in Gens : g # n => conf'[g] = conf[g]
    BY <1>2, <2>1, <2>2
  <2>4. Built' = Built \cup {n}
    BY <2>2, <2>3, ConfigsAssumption DEF Built
  <2>5. Built' = 1 .. n /\ n <= sent + 1
    BY <1>1, <1>2, <2>2, <2>4, SMTT(60)
  <2>6. \A g \in Built : g \in Gens /\ g # n
    BY <1>1, <2>2 DEF Built
  <2>7. renewers' = renewers \cup {n} /\ NextGen = n
    BY <1>1, <2>1, <2>2
  <2> QED BY <1>1, <1>2, <2>2, <2>3, <2>4, <2>5, <2>6, <2>7
<1> QED BY <1>3, <1>4

\* What the start of a Reload keeps, whatever its outcome.
LEMMA HupCommon ==
  ASSUME IInv, ~Stopping, ~Stopping', handler' \in HandlerType,
         handler'.pc \notin {"wait", "end"} => handler'.server \in Present,
         UNCHANGED << faults, sent, termed, srv, current, closed, httpVars, leaked >>,
         signals' = << >>, process' \in {process, "panicked"},
         conf' \in [Gens -> Configs \cup {None}], \A g \in Built : conf'[g] = conf[g],
         Built \subseteq Built', renewers \subseteq renewers', renewers' \subseteq Built',
         \E k \in Gens : Built' = 1 .. k /\ k <= sent + 1
  PROVE /\ TypeOK' /\ Generations' /\ Accepting' /\ Requests' /\ Live'
        /\ Present' = Present /\ \A s \in Servers : Settled(s)' <=> Settled(s)
<1> USE DEF httpVars
<1>1. 1 \in Built
  BY ConfigsAssumption, Gen DEF IInv, Generations, Built
<1>2. Present' = Present
  BY <1>1 DEF Present
<1>3. Built' \subseteq Gens
  BY DEF Built
<1>4. TypeOK'
  <2>1. signals' \in {<< >>, << "HUP" >>, << "TERM" >>} /\ process' \in {"running", "exited", "panicked"}
        /\ renewers' \subseteq Gens
    BY <1>3 DEF IInv, TypeOK
  <2> QED BY <2>1 DEF IInv, TypeOK, HandlerType
<1>5. Counted' /\ conf'[1] = FirstConfig
  BY <1>1 DEF Counted, IInv, Generations
<1>6. down \subseteq Servers \X Built'
  BY DEF IInv, Generations
<1>7. Generations'
  BY <1>1, <1>2, <1>5, <1>6 DEF IInv, Generations
<1>8. Accepting' /\ Requests'
  BY <1>2 DEF IInv, Accepting, Requests
<1>9. Live'
  BY <1>2 DEF IInv, Live
<1>10. \A s \in Servers : Settled(s)' <=> Settled(s)
  BY DEF Settled, AddrOf, IInv, Generations
<1> QED BY <1>2, <1>4, <1>7, <1>8, <1>9, <1>10

\* Reload builds a generation that nothing uses yet, or fails.
LEMMA TakeHupKeeps == ASSUME IInv, TakeHup PROVE IInv'
<1>1. /\ handler.pc = "wait" /\ signals = << "HUP" >> /\ ~Stopping
      /\ Prompt => \A s \in Servers : srv[s].pc \notin {"start", "loop"}
  BY DEF TakeHup, Stopping
<1>2. FirstServer \in Present /\ Present \subseteq Servers
      /\ \A s \in Present : ~(s = "insecure" /\ FirstServer = "secure")
  BY SecurePresent DEF FirstServer, Present
<1>3. UNCHANGED << faults, sent, termed, srv, current, closed, httpVars, leaked >> /\ signals' = << >>
  BY DEF TakeHup
<1>4. PICK c \in Configs, outcome \in {"ok"} \cup (faults \cap EarlyFaults) :
        IF outcome = "load" \/ c.db # conf[current].db
        THEN /\ handler' = [IdleHandler EXCEPT !.result = "failed"]
             /\ UNCHANGED << conf, renewers, process >>
        ELSE /\ NewCA(c, outcome)
             /\ IF outcome # "ok"
                THEN /\ handler' = [IdleHandler EXCEPT !.result = "failed"]
                     /\ UNCHANGED process
                ELSE /\ handler' = [IdleHandler EXCEPT !.pc = "listen", !.gen = NextGen,
                                                       !.server = FirstServer]
                     /\ process' = IF c[FirstServer] = None THEN "panicked" ELSE process
  BY DEF TakeHup
<1>5. /\ conf' \in [Gens -> Configs \cup {None}] /\ \A g \in Built : conf'[g] = conf[g]
      /\ Built \subseteq Built' /\ renewers \subseteq renewers' /\ renewers' \subseteq Built'
      /\ \E k \in Gens : Built' = 1 .. k /\ k <= sent + 1
  <2>1. CASE conf' = conf /\ renewers' = renewers
    <3>1. Built' = Built
      BY <2>1 DEF Built
    <3> QED BY <2>1, <3>1 DEF IInv, TypeOK, Generations, Counted
  <2>2. CASE NewCA(c, outcome)
    BY <1>1, <2>2, NewCAFacts
  <2> QED BY <1>4, <2>1, <2>2
<1>6. process' \in {process, "panicked"}
  BY <1>4
<1>7. ASSUME Prompt, SeparateAddresses, Running', faults' \subseteq EarlyFaults
      PROVE Undisturbed /\ \A t \in Present : Settled(t)
  <2>1. Running
    BY <1>6, <1>7 DEF Running
  <2>2. Undisturbed
    BY <1>1, <1>3, <1>7, <2>1 DEF IInv, Early, EarlyOnly
  <2>3. \A t : ~Draining(t)
    BY <1>1 DEF Draining
  <2> QED BY <2>2, <2>3 DEF Undisturbed
<1>8. CASE handler' = [IdleHandler EXCEPT !.result = "failed"]
  <2>1. handler' \in HandlerType /\ handler'.pc = "wait" /\ handler'.ln = None /\ handler'.result = "failed"
    BY <1>8, Gen DEF IdleHandler, HandlerType
  <2>2. ~Stopping' /\ ~Reloading' /\ ReloadApplied' /\ \A t : ~Draining(t)'
    BY <2>1 DEF Stopping, Reloading, ReloadApplied, Draining
  <2>3. /\ TypeOK' /\ Generations' /\ Accepting' /\ Requests' /\ Live'
        /\ Present' = Present /\ \A s \in Servers : Settled(s)' <=> Settled(s)
    BY <1>1, <1>3, <1>5, <1>6, <2>1, <2>2, HupCommon
  <2>4. Early'
    <3> SUFFICES ASSUME Prompt, SeparateAddresses, Running', faults' \subseteq EarlyFaults PROVE Undisturbed'
      BY DEF Early, EarlyOnly
    <3>1. Undisturbed /\ \A t \in Present : Settled(t)
      BY <1>7
    <3>2. handler'.pc \notin {"drain", "drained", "send"}
      BY <2>1
    <3> QED BY <1>1, <1>2, <1>3, <2>1, <2>2, <2>3, <3>1, <3>2 DEF Undisturbed
  <2> QED BY <2>2, <2>3, <2>4 DEF IInv, Replacing
<1>9. CASE handler' # [IdleHandler EXCEPT !.result = "failed"]
  <2>1. PICK n : n = NextGen
    OBVIOUS
  <2>2. outcome = "ok" /\ NewCA(c, outcome)
        /\ handler' = [IdleHandler EXCEPT !.pc = "listen", !.gen = n, !.server = FirstServer]
    BY <1>4, <1>9, <2>1
  <2>3. n \in Built' /\ n \notin Built /\ n \in renewers' /\ n \in Gens
    BY <1>1, <2>1, <2>2, NewCAFacts
  <2>4. /\ handler' \in HandlerType /\ handler'.pc = "listen" /\ handler'.ln = None
        /\ handler'.gen = n /\ handler'.server = FirstServer
    BY <1>2, <2>2, <2>3, Gen DEF IdleHandler, HandlerType
  <2>5. ~Stopping' /\ Reloading' /\ ReloadApplied' /\ (\A t : ~Draining(t)') /\ handler'.pc # "drained"
    BY <2>4 DEF Stopping, Reloading, ReloadApplied, Draining
  <2>6. /\ TypeOK' /\ Generations' /\ Accepting' /\ Requests' /\ Live'
        /\ Present' = Present /\ \A s \in Servers : Settled(s)' <=> Settled(s)
    BY <1>1, <1>2, <1>3, <1>5, <1>6, <2>4, <2>5, HupCommon
  <2>7. \A t \in Present : ~Replaced(t)'
    BY <1>2, <2>4 DEF Replaced
  <2>8. /\ n # current /\ n \notin closed /\ (\A s \in Servers : << s, n >> \notin down)
        /\ \A s \in Servers : srv[s].http # n
    BY <2>3 DEF IInv, Generations
  <2>9. Replacing'
    BY <1>2, <1>3, <2>3, <2>4, <2>5, <2>6, <2>7, <2>8 DEF Replacing, httpVars
  <2>10. Early'
    <3> SUFFICES ASSUME Prompt, SeparateAddresses, Running', faults' \subseteq EarlyFaults PROVE Undisturbed'
      BY DEF Early, EarlyOnly
    <3>1. Undisturbed /\ \A t \in Present : Settled(t)
      BY <1>7
    <3>2. \A t \in Present : srv[t].pc \in {"serving", "select"} /\ srv[t].pc # "start"
      BY <1>1, <1>2, <3>1 DEF Settled
    <3>3. handler'.pc \notin {"drain", "drained", "send"} /\ handler'.pc # "wait"
      BY <2>4
    <3> QED BY <1>2, <1>3, <2>4, <2>5, <2>6, <3>1, <3>2, <3>3 DEF Undisturbed
  <2> QED BY <2>5, <2>6, <2>9, <2>10 DEF IInv
<1> QED BY <1>8, <1>9

-----------------------------------------------------------------------------
\* The invariant is inductive.
LEMMA NextKeeps == IInv /\ [Next]_vars => IInv'
<1> SUFFICES ASSUME IInv, [Next]_vars PROVE IInv'
  OBVIOUS
<1>1. CASE SendHup \/ SendTerm
  BY <1>1, SendHupKeeps, SendTermKeeps
<1>2. CASE RunReturns \/ Finalize \/ UNCHANGED vars
  BY <1>2, EndKeeps
<1>3. CASE HandlerStep
  BY <1>3, TakeHupKeeps, ReloadListenKeeps, ReloadShutdownKeeps, ReloadSwapKeeps,
     ReloadSendKeeps,
     ReloadReplaceKeeps, TakeTermKeeps, StopShutdownKeeps, StopCloseKeeps DEF HandlerStep
<1>4. ASSUME NEW s \in Servers, ServerStep(s) \/ ServeReturns(s, TRUE) \/ BeginRequest(s) PROVE IInv'
  <2>1. TRUE \in BOOLEAN /\ FALSE \in BOOLEAN
    OBVIOUS
  <2> QED BY <1>4, <2>1, ListenAndServeKeeps, ServeKeeps, ServeReturnsKeeps,
     ServeEndsKeeps, BeginRequestKeeps DEF ServerStep
<1>5. ASSUME NEW r \in Servers \X Gens, EndRequest(r) PROVE IInv'
  BY <1>5, EndRequestKeeps
<1> QED BY <1>1, <1>2, <1>3, <1>4, <1>5 DEF Next

\* The state of the process that the two results below rest on.
THEOREM Invariance == Spec => []IInv
BY InitEstablishes, NextKeeps, PTL DEF Spec

\* No request runs on a closed key manager and no HTTPS server presents the
\* certificate of a stopped renewer before the process is stopped, whatever the
\* configurations, the number of reloads and the failures.
THEOREM LiveResources == Spec => []ServedOnLiveResources
<1>1. IInv => ServedOnLiveResources
  <2> SUFFICES ASSUME IInv, ~Stopping PROVE ServedOnLiveResources!2
    BY DEF ServedOnLiveResources
  <2>1. ASSUME NEW r \in active PROVE r[2] \notin closed
    <3>1. PICK s \in Servers, g \in Gens : r = << s, g >>
      BY <2>1, SMTT(60) DEF IInv, TypeOK
    <3>2. s \in Present /\ g = srv[s].http
      BY <2>1, <3>1 DEF IInv, Requests
    <3>3. g \notin closed
      BY <3>2 DEF IInv, Live
    <3> QED BY <3>1, <3>3
  <2>2. srv["secure"].pc = "serving" /\ << "secure", srv["secure"].serving >> \notin down
          => srv["secure"].serving \in renewers
    BY "secure" \in Servers DEF IInv, Accepting, Live, Servers
  <2> QED BY <2>1, <2>2
<1> QED BY <1>1, Invariance, PTL

\* Reload is all or nothing, whatever the configurations and the number of
\* reloads, when servers do not take each other's address and their goroutines
\* reach Serve before a New ends.
THEOREM AllOrNothing ==
  ASSUME Prompt, SeparateAddresses
  PROVE Spec => []ReloadAllOrNothing
<1>1. IInv => ReloadAllOrNothing
  <2> SUFFICES ASSUME IInv, faults \subseteq EarlyFaults, Running, handler.pc = "wait"
               PROVE \A s \in Present : srv[s].http = current /\ srv[s].pc \in {"start",
                  "loop", "serving"}
    BY DEF ReloadAllOrNothing, FailedReloadContinues, IInv
  <2>1. ~Stopping /\ \A t : ~Draining(t)
    BY DEF Stopping, Draining
  <2> QED BY <2>1 DEF IInv, Early, EarlyOnly, Undisturbed, Settled
<1> QED BY <1>1, Invariance, PTL


-----------------------------------------------------------------------------
(* The renewer of the CA's own certificate.                                 *)

LocalPCs == {"idle", "roots", "federation", "renew", "issued", "reset", "read"}

LocalThread == [pc: LocalPCs, since: Nat, new: Nat \cup {None}]

LocalTyped ==
  /\ now \in Nat /\ cert \in Nat /\ certNotAfter = cert - Minute
  /\ thread \in [Local!Threads -> LocalThread]

\* A renewal in its call began at most MaxCall ago, so the certificate it brings
\* is still valid; and from the moment one is set until the handshake that
\* forced it has read it, no renewal replaces it by one that is not.
LocalFresh(t) ==
  LET l == thread[t] IN
  /\ l.pc # "idle" => l.since <= now /\ now <= l.since + MaxCall
  /\ l.pc = "issued" => l.new \in Nat /\ l.since + Lifetime <= l.new
  /\ l.pc \in {"reset", "read"} /\ l.new # None => now <= cert

LocalIInv == LocalTyped /\ (\A t \in Local!Threads : LocalFresh(t)) /\ Local!ServedValid

\* No renewal is in progress at first.
LEMMA LocalInitIInv ==
  ASSUME Durations, Local!Init
  PROVE  LocalIInv
<1>1. now = 0 /\ cert \in Nat /\ certNotAfter = cert - Minute
  BY DEF Local!Init, Durations
<1>2. thread = [t \in Local!Threads |-> Local!Idle] /\ served.valid
  BY DEF Local!Init
<1> QED
  BY <1>1, <1>2 DEF LocalIInv, LocalTyped, LocalThread, LocalPCs, LocalFresh,
     Local!Idle, Local!ServedValid

\* A step of one goroutine that sets neither the clock nor the certificate.
LEMMA LocalThreadKeeps ==
  ASSUME Durations, LocalIInv, NEW t \in Local!Threads, NEW l \in LocalThread,
         thread' = [thread EXCEPT ![t] = l],
         UNCHANGED << now, cert, certNotAfter, served >>,
         l.pc # "idle" => l.since <= now /\ now <= l.since + MaxCall,
         l.pc = "issued" => l.new \in Nat /\ l.since + Lifetime <= l.new,
         l.pc \in {"reset", "read"} /\ l.new # None => now <= cert
  PROVE  LocalIInv'
<1>1. LocalTyped' /\ Local!ServedValid'
  BY DEF LocalIInv, LocalTyped, Local!ServedValid
<1>2. thread'[t] = l /\ \A u \in Local!Threads \ {t} : thread'[u] = thread[u]
  BY DEF LocalIInv, LocalTyped
<1>3. LocalFresh(t)'
  BY <1>2 DEF LocalFresh
<1>4. \A u \in Local!Threads \ {t} : LocalFresh(u)'
  BY <1>2 DEF LocalIInv, LocalFresh
<1> QED
  BY <1>1, <1>3, <1>4 DEF LocalIInv

\* The timer fires, or a handshake forces a renewal: the call begins now.
LEMMA LocalBeginKeeps ==
  ASSUME Durations, LocalIInv, NEW t \in Local!Threads,
         thread' = [thread EXCEPT ![t] = [pc |-> Local!FirstCall, since |-> now, new |-> None]],
         UNCHANGED << now, cert, certNotAfter, served >>
  PROVE  LocalIInv'
<1> DEFINE l == [pc |-> Local!FirstCall, since |-> now, new |-> None]
<1>1. l \in LocalThread /\ l.since = now /\ l.new = None /\ l.pc \in {"renew", "roots"}
  BY DEF LocalIInv, LocalTyped, LocalThread, LocalPCs, Local!FirstCall
<1>2. now \in Nat /\ MaxCall \in Nat /\ now <= now + MaxCall
  BY SMTT(60) DEF LocalIInv, LocalTyped, Durations
<1> HIDE DEF l
<1>3. thread' = [thread EXCEPT ![t] = l]
  BY DEF l
<1>4. /\ l.pc # "idle" => l.since <= now /\ now <= l.since + MaxCall
      /\ l.pc # "issued" /\ l.pc \notin {"reset", "read"}
  BY <1>1, <1>2, SMTT(60)
<1> QED
  BY <1>1, <1>3, <1>4, LocalThreadKeeps

\* A call goes on, or fails.
LEMMA LocalCallKeeps ==
  ASSUME Durations, LocalIInv, NEW t \in Local!Threads,
     Local!AddRoots(t) \/ Local!Reload(t) \/ Local!CallFails(t)
  PROVE  LocalIInv'
<1>1. PICK step \in {"federation", "renew", "reset"}, new \in {None, thread[t].new} :
        /\ thread' = [thread EXCEPT ![t] = [thread[t] EXCEPT !.pc = step, !.new = new]]
        /\ step = "reset" => new = None
  <2>1. thread[t] \in LocalThread
    BY DEF LocalIInv, LocalTyped
  <2>2. CASE Local!AddRoots(t)
    BY <2>1, <2>2 DEF Local!AddRoots, Local!Go, LocalIInv, LocalTyped, LocalThread
  <2>3. CASE Local!Reload(t)
    BY <2>1, <2>3 DEF Local!Reload, Local!Go, LocalIInv, LocalTyped, LocalThread
  <2>4. CASE Local!CallFails(t)
    BY <2>1, <2>4 DEF Local!CallFails, Local!Fail, LocalIInv, LocalTyped,
       LocalThread
  <2> QED
    BY <2>2, <2>3, <2>4
<1>2. /\ UNCHANGED << now, cert, certNotAfter, served >>
      /\ thread[t].pc \in {"roots", "federation", "renew"}
  BY DEF Local!AddRoots, Local!Reload, Local!CallFails, Local!timeVars
<1> DEFINE l == [thread[t] EXCEPT !.pc = step, !.new = new]
<1>3. thread[t] \in LocalThread /\ LocalFresh(t)
  BY DEF LocalIInv, LocalTyped
<1>4. l \in LocalThread /\ l.pc = step /\ l.since = thread[t].since /\ l.new = new
  BY <1>3 DEF LocalThread, LocalPCs
<1>5. thread[t].since <= now /\ now <= thread[t].since + MaxCall
  BY <1>2, <1>3 DEF LocalFresh
<1> HIDE DEF l
<1>6. thread' = [thread EXCEPT ![t] = l]
  BY <1>1 DEF l
<1>7. /\ l.pc # "idle" => l.since <= now /\ now <= l.since + MaxCall
      /\ l.pc # "issued" /\ l.pc # "read"
      /\ l.pc = "reset" => l.new = None
  BY <1>1, <1>4, <1>5
<1> QED
  BY <1>2, <1>4, <1>6, <1>7, LocalThreadKeeps

\* The certificate is signed during the call and lives for Lifetime from then on.
LEMMA LocalRenewKeeps ==
  ASSUME Durations, LocalIInv, NEW t \in Local!Threads, Local!Renew(t)
  PROVE  LocalIInv'
<1> DEFINE l == [thread[t] EXCEPT !.pc = "issued", !.new = now + Lifetime]
<1>1. thread[t] \in LocalThread /\ LocalFresh(t) /\ now \in Nat
  BY DEF LocalIInv, LocalTyped
<1>2. l \in LocalThread /\ l.pc = "issued" /\ l.since = thread[t].since /\ l.new = now + Lifetime
  <2> DEFINE new == now + Lifetime
  <2>1. new \in Nat
    BY <1>1, SMTT(60) DEF Durations
  <2> HIDE DEF new
  <2>2. LET m == [thread[t] EXCEPT !.pc = "issued", !.new = new]
        IN  m \in LocalThread /\ m.pc = "issued" /\ m.since = thread[t].since /\ m.new = new
    BY <1>1, <2>1 DEF LocalThread, LocalPCs
  <2> QED
    BY <2>2 DEF new
<1>3. /\ UNCHANGED << now, cert, certNotAfter, served >> /\ thread[t].pc = "renew"
      /\ thread' = [thread EXCEPT ![t] = l]
  <2>1. thread' = [thread EXCEPT ![t].pc = "issued", ![t].new = now + Lifetime]
    BY DEF Local!Renew
  <2>2. thread' = [thread EXCEPT ![t] = l]
    BY <2>1 DEF LocalIInv, LocalTyped
  <2> QED
    BY <2>2 DEF Local!Renew, Local!timeVars
<1>4. thread[t].since \in Nat /\ thread[t].since <= now /\ now <= thread[t].since + MaxCall
  BY <1>1, <1>3 DEF LocalFresh, LocalThread
<1>5. thread[t].since + Lifetime <= now + Lifetime /\ now + Lifetime \in Nat
  BY <1>1, <1>4, SMTT(60) DEF Durations
<1> HIDE DEF l
<1> QED
  BY <1>2, <1>3, <1>4, <1>5, LocalThreadKeeps

\* setCertificate never sets a certificate that has expired.
LEMMA LocalSetKeeps ==
  ASSUME Durations, LocalIInv, NEW t \in Local!Threads, Local!setCertificate(t)
  PROVE  LocalIInv'
<1>1. /\ thread[t].pc = "issued" /\ cert' = thread[t].new
      /\ certNotAfter' = thread[t].new - Minute
      /\ thread' = [thread EXCEPT ![t] = [thread[t] EXCEPT !.pc = "reset"]]
      /\ UNCHANGED << now, served >>
  BY DEF Local!setCertificate, Local!Go, Local!timeVars, LocalIInv, LocalTyped
<1>2. thread[t] \in LocalThread /\ LocalFresh(t) /\ now \in Nat
  BY DEF LocalIInv, LocalTyped
<1>3. cert' \in Nat /\ now <= cert'
  BY <1>1, <1>2, SMTT(60) DEF LocalFresh, LocalThread, Durations
<1>4. [thread[t] EXCEPT !.pc = "reset"] \in LocalThread
  BY <1>2 DEF LocalThread, LocalPCs
<1>5. /\ thread'[t].pc = "reset" /\ thread'[t].since = thread[t].since
      /\ \A u \in Local!Threads \ {t} : thread'[u] = thread[u]
  BY <1>1, <1>2 DEF LocalIInv, LocalTyped, LocalThread
<1>6. LocalTyped' /\ Local!ServedValid'
  BY <1>1, <1>3, <1>4 DEF LocalIInv, LocalTyped, Local!ServedValid
<1>7. LocalFresh(t)'
  BY <1>1, <1>2, <1>3, <1>5 DEF LocalFresh
<1>8. \A u \in Local!Threads \ {t} : LocalFresh(u)'
  BY <1>1, <1>3, <1>5 DEF LocalIInv, LocalFresh
<1> QED
  BY <1>6, <1>7, <1>8 DEF LocalIInv

\* The timer is set, and the handshake goes on to read the certificate.
LEMMA LocalResetKeeps ==
  ASSUME Durations, LocalIInv, NEW t \in Local!Threads, Local!ResetTimer(t)
  PROVE  LocalIInv'
<1>1. /\ thread[t].pc = "reset" /\ UNCHANGED << now, cert, certNotAfter, served >>
      /\ \/ thread' = [thread EXCEPT ![t] = [thread[t] EXCEPT !.pc = "read"]]
         \/ thread' = [thread EXCEPT ![t] = Local!Idle]
  BY DEF Local!ResetTimer, Local!timeVars, LocalIInv, LocalTyped
<1>2. thread[t] \in LocalThread /\ LocalFresh(t)
  BY DEF LocalIInv, LocalTyped
<1>3. CASE thread' = [thread EXCEPT ![t] = Local!Idle]
  <2>1. Local!Idle \in LocalThread /\ Local!Idle.pc = "idle"
    BY DEF Local!Idle, LocalThread, LocalPCs
  <2> QED
    BY <1>1, <1>3, <2>1, LocalThreadKeeps
<1>4. CASE thread' = [thread EXCEPT ![t] = [thread[t] EXCEPT !.pc = "read"]]
  <2> DEFINE l == [thread[t] EXCEPT !.pc = "read"]
  <2>1. l \in LocalThread /\ l.pc = "read" /\ l.since = thread[t].since /\ l.new = thread[t].new
    BY <1>2 DEF LocalThread, LocalPCs
  <2>2. /\ thread[t].since <= now /\ now <= thread[t].since + MaxCall
        /\ thread[t].new # None => now <= cert
    BY <1>1, <1>2 DEF LocalFresh
  <2>3. thread' = [thread EXCEPT ![t] = l]
    BY <1>4
  <2> HIDE DEF l
  <2> QED
    BY <1>1, <2>1, <2>2, <2>3, LocalThreadKeeps
<1> QED
  BY <1>1, <1>3, <1>4

\* getCertificateForCA serves the certificate only while it is valid.
LEMMA LocalHandshakeKeeps ==
  ASSUME Durations, LocalIInv, NEW h \in Handshakes, Local!getCertificateForCA(h)
  PROVE  LocalIInv'
<1>1. h \in Local!Threads /\ UNCHANGED << now, cert, certNotAfter >>
  BY DEF Local!Threads, Local!getCertificateForCA, Local!timeVars
<1>2. CASE now > certNotAfter
  BY <1>1, <1>2, LocalBeginKeeps DEF Local!getCertificateForCA
<1>3. CASE ~(now > certNotAfter)
  <2>1. now <= cert
    BY <1>3, SMTT(60) DEF LocalIInv, LocalTyped, Durations
  <2>2. thread' = thread /\ served' = [valid |-> now <= cert, renewal |-> "none"]
    BY <1>3 DEF Local!getCertificateForCA, Local!Serve
  <2>3. served'.valid
    BY <2>1, <2>2
  <2>4. LocalTyped' /\ \A t \in Local!Threads : LocalFresh(t)'
    BY <1>1, <2>2 DEF LocalIInv, LocalTyped, LocalFresh
  <2> QED
    BY <2>3, <2>4 DEF LocalIInv, Local!ServedValid
<1> QED
  BY <1>2, <1>3

\* A handshake that forced a renewal reads the certificate that is set by then.
LEMMA LocalReadKeeps ==
  ASSUME Durations, LocalIInv, NEW h \in Handshakes, Local!ReadRenewed(h)
  PROVE  LocalIInv'
<1>1. /\ h \in Local!Threads /\ thread[h].pc = "read" /\ thread' = [thread EXCEPT ![h] = Local!Idle]
      /\ UNCHANGED << now, cert, certNotAfter >>
      /\ served' = [valid |-> now <= cert,
                    renewal |-> IF thread[h].new = None THEN "failed" ELSE "done"]
  BY DEF Local!ReadRenewed, Local!Serve, Local!Threads, Local!timeVars
<1>2. LocalFresh(h)
  BY <1>1 DEF LocalIInv
<1>3. Local!ServedValid'
  <2>1. CASE thread[h].new = None
    <3>1. served' = [valid |-> now <= cert, renewal |-> "failed"]
      BY <1>1, <2>1
    <3> QED
      BY <3>1 DEF Local!ServedValid
  <2>2. CASE thread[h].new # None
    <3>1. now <= cert
      BY <1>1, <1>2, <2>2 DEF LocalFresh
    <3>2. served' = [valid |-> now <= cert, renewal |-> "done"]
      BY <1>1, <2>2
    <3> QED
      BY <3>1, <3>2 DEF Local!ServedValid
  <2> QED
    BY <2>1, <2>2
<1>4. Local!Idle \in LocalThread /\ Local!Idle.pc = "idle"
  BY DEF Local!Idle, LocalThread, LocalPCs
<1>5. LocalTyped'
  BY <1>1, <1>4 DEF LocalIInv, LocalTyped
<1>6. \A t \in Local!Threads : LocalFresh(t)'
  BY <1>1, <1>4 DEF LocalIInv, LocalTyped, LocalFresh
<1> QED
  BY <1>3, <1>5, <1>6 DEF LocalIInv

\* Time passes only in calls and between renewals, and the machine sleeps only
\* between renewals.
LEMMA LocalTimeKeeps ==
  ASSUME Durations, LocalIInv, Local!Tick \/ Local!Sleep
  PROVE  LocalIInv'
<1>1. PICK d \in Nat : now' = now + d
  BY DEF Local!Tick, Local!Sleep, Durations
<1>2. UNCHANGED << cert, certNotAfter, thread, served >>
  BY DEF Local!Tick, Local!Sleep
<1>3. LocalTyped' /\ Local!ServedValid'
  BY <1>1, <1>2, SMTT(60) DEF LocalIInv, LocalTyped, Local!ServedValid
<1>4. \A t \in Local!Threads : LocalFresh(t)'
  <2>1. CASE Local!Tick
    <3>1. /\ now' = now + 1
          /\ \A t \in Local!Threads : thread[t].pc # "idle" =>
               thread[t].pc \in {"roots", "federation", "renew", "issued"}
               /\ now < thread[t].since + MaxCall
      BY <2>1 DEF Local!Tick, Local!InCall
    <3> QED
      BY <1>2, <3>1, SMTT(60) DEF LocalIInv, LocalTyped, LocalThread, LocalFresh,
         Durations
  <2>2. CASE Local!Sleep
    <3>1. \A t \in Local!Threads : thread[t].pc = "idle"
      BY <2>2 DEF Local!Sleep
    <3> QED
      BY <1>2, <3>1 DEF LocalFresh
  <2> QED
    BY <2>1, <2>2
<1> QED
  BY <1>3, <1>4 DEF LocalIInv

\* The other steps touch neither the certificate nor a renewal.
LEMMA LocalRestKeeps ==
  ASSUME Durations, LocalIInv, Local!Stop \/ Local!Rotate \/ UNCHANGED Local!vars
  PROVE  LocalIInv'
<1>1. UNCHANGED << now, cert, certNotAfter, thread, served >>
  BY DEF Local!Stop, Local!Rotate, Local!vars, Local!timeVars
<1> QED
  BY <1>1 DEF LocalIInv, LocalTyped, LocalFresh, Local!ServedValid

\* The invariant is inductive.
LEMMA LocalNextKeeps ==
  ASSUME Durations, LocalIInv, [Local!Next]_Local!vars
  PROVE  LocalIInv'
<1>1. ASSUME NEW t \in Timers, Local!TimerFires(t)
      PROVE  LocalIInv'
  BY <1>1, LocalBeginKeeps DEF Local!TimerFires, Local!Threads, Local!timeVars
<1>2. CASE Local!Done
  BY <1>2, LocalRestKeeps DEF Local!Done
<1> QED
  BY <1>1, <1>2, LocalCallKeeps, LocalRenewKeeps, LocalSetKeeps, LocalResetKeeps,
     LocalHandshakeKeeps, LocalReadKeeps, LocalTimeKeeps,
     LocalRestKeeps DEF Local!Next

\* A handshake of the CA's server gets an unexpired certificate unless the renewal
\* it forced has failed.
THEOREM ServesValid ==
  ASSUME Durations
  PROVE  Local!Spec => []ServedValid
<1>1. Local!Init => LocalIInv
  BY LocalInitIInv
<1>2. LocalIInv /\ [Local!Next]_Local!vars => LocalIInv'
  BY LocalNextKeeps
<1>3. LocalIInv => ServedValid
  BY DEF LocalIInv, ServedValid
<1> QED
  BY <1>1, <1>2, <1>3, PTL DEF Local!Spec

-----------------------------------------------------------------------------
(* The renewer of a client's certificate.                                   *)

\* The pause after a failure, and the time the failures that are left can take.
Retry(p) == (p \div 20) \div 2
Left(p, f) == MaxCall + (ClientFailures - f) * (MaxCall + 2 * Retry(p))

RenewalPCs == {"idle", "roots", "federation", "renew", "issued", "reset"}
Renewal == [pc : RenewalPCs, since : Nat, new : Nat \cup {None}]

ClientTyped ==
  /\ now \in Nat /\ cert \in Nat /\ failures \in 0 .. ClientFailures
  /\ thread \in [ClientTimers -> Renewal]
  /\ rotation \in [listed : SUBSET Nat, used : Nat, at : Nat]

\* A renewal that has got its certificate, or will do without another refresh of the pool.
Renewing(l) == l.pc \in {"renew", "issued"} \/ (l.pc = "reset" /\ l.new # None)
HasFailed(l) == l.pc = "reset" /\ l.new = None

\* One renewal is in progress and will end before the certificate does.
OnTime(p, l) ==
  /\ l.pc # "idle" /\ l.since <= now /\ now <= l.since + MaxCall
  /\ l.pc \in {"roots", "federation", "renew", "issued"} => l.since + Left(p, failures) <= cert
  /\ l.pc = "issued" \/ (l.pc = "reset" /\ l.new # None) =>
       l.new \in Nat /\ l.since + Lifetime <= l.new /\ l.new <= l.since + MaxCall + Lifetime
  /\ l.pc = "reset" /\ l.new # None => cert = l.new
  /\ HasFailed(l) => /\ now + 2 * Retry(p) + Left(p, failures) <= cert
                     /\ 2 * Retry(p) + Left(p, failures) <= Delay(p)

Waiting(p) ==
  /\ timer \in Nat /\ (\A t \in ClientTimers : thread[t].pc = "idle")
  /\ now <= timer /\ timer + Left(p, failures) <= cert

Busy(p, t) ==
  /\ timer = None /\ OnTime(p, thread[t])
  /\ \A u \in ClientTimers : u # t => thread[u].pc = "idle"

\* The pool of roots is refreshed before x.
RefreshedBy(p, l, x) ==
  /\ l.pc \in {"roots", "federation"} => l.since + Left(p, failures) < x
  /\ Renewing(l) => l.since + Lifetime <= x
  /\ HasFailed(l) => now + 2 * Retry(p) + Left(p, failures) < x
Within(p, x) ==
  /\ timer # None => timer + Left(p, failures) < x
  /\ \A t \in ClientTimers : RefreshedBy(p, thread[t], x)

\* A root is published in time for the pool to hold it before it is used.
Trusted(p) ==
  /\ rotation.used \in rotation.listed /\ rotation.used \in rootCAs
  /\ rotation.at <= now /\ \A r \in rotation.listed : r <= rotation.used + 1
  /\ rotation.used + 1 \in rotation.listed =>
       \/ rotation.used + 1 \in rootCAs
       \/ \A x \in Nat : rotation.at + RotationWait <= x => Within(p, x)

Timely(p) ==
  /\ ClientTyped /\ renewBefore = p \div 3 /\ renewJitter = p \div 20
  /\ Waiting(p) \/ \E t \in ClientTimers : Busy(p, t)
  /\ \A x \in Nat : now + RotationWait <= x => Within(p, x)
  /\ Trusted(p)

TimelyInv == \E p \in Periods : Timely(p)

-----------------------------------------------------------------------------
\* The arithmetic of what the failures that are left can take.
LEMMA LeftFacts ==
  ASSUME Durations, EnoughTime, NEW p \in Periods
  PROVE /\ Retry(p) \in Nat /\ Delay(p) \in Nat /\ p \in Nat /\ p \div 3 \in Nat /\ p \div 3 <= p
        /\ p \div 20 \in Nat
        /\ \A f \in 0 .. ClientFailures :
             /\ Left(p, f) \in Nat /\ MaxCall <= Left(p, f) /\ Left(p, f) <= Delay(p)
             /\ f < ClientFailures => Left(p, f) = Left(p, f + 1) + MaxCall + 2 * Retry(p)
        /\ MaxCall + Delay(p) < p \div 3 /\ MaxCall + Delay(p) < Lifetime
        /\ p <= RotationWait /\ Lifetime <= RotationWait
        /\ MaxCall \in Nat /\ Lifetime \in Nat /\ RotationWait \in Nat /\ ClientFailures \in Nat
        /\ Left(p, 0) = Delay(p)
<1>1. p \in Nat /\ MaxCall \in Nat /\ ClientFailures \in Nat /\ Lifetime \in Nat /\ RotationWait \in Nat
  BY DEF Durations
<1>2. p \div 3 \in Nat /\ p \div 3 <= p /\ p \div 20 \in Nat /\ Retry(p) \in Nat
  BY <1>1, SMTT(60) DEF Retry
<1>3. PICK r \in Nat : r = Retry(p)
  BY <1>2
<1>4. PICK k \in Nat : k = MaxCall + 2 * r
  BY <1>1, SMTT(60)
<1>5. Delay(p) = MaxCall + ClientFailures * k
  BY <1>3, <1>4 DEF Delay, Retry
<1>6. \A f : Left(p, f) = MaxCall + (ClientFailures - f) * k
  BY <1>3, <1>4 DEF Left
<1>7. \A m \in Nat : m * k \in Nat
  BY <1>4, SMTT(60)
<1>8. Delay(p) \in Nat
  BY <1>1, <1>5, <1>7, SMTT(60)
<1>9. ASSUME NEW f \in 0 .. ClientFailures
      PROVE /\ Left(p, f) \in Nat /\ MaxCall <= Left(p, f) /\ Left(p, f) <= Delay(p)
            /\ f < ClientFailures => Left(p, f) = Left(p, f + 1) + MaxCall + 2 * Retry(p)
  <2>1. PICK m \in Nat : m = ClientFailures - f
    BY <1>1, SMTT(60)
  <2>2. Left(p, f) = MaxCall + m * k /\ m * k \in Nat /\ f * k \in Nat
    BY <1>6, <1>7, <2>1, SMTT(60)
  <2>3. ClientFailures * k = m * k + f * k
    BY <1>1, <1>4, <2>1, SMTT(60)
  <2>4. Left(p, f) \in Nat /\ MaxCall <= Left(p, f) /\ Left(p, f) <= Delay(p)
    BY <1>1, <1>5, <2>2, <2>3, SMTT(60)
  <2>5. ASSUME f < ClientFailures PROVE Left(p, f) = Left(p, f + 1) + MaxCall + 2 * Retry(p)
    <3>1. PICK n \in Nat : m = n + 1
      BY <2>1, <2>5, <1>1, SMTT(60)
    <3>2. ClientFailures - (f + 1) = n
      BY <2>1, <3>1, <1>1, SMTT(60)
    <3>3. Left(p, f + 1) = MaxCall + n * k
      BY <1>6, <3>2
    <3>4. m * k = n * k + k
      BY <1>4, <3>1, SMTT(60)
    <3> QED BY <1>1, <1>3, <1>4, <1>7, <2>2, <3>3, <3>4, SMTT(60)
  <2> QED BY <2>4, <2>5
<1>10. Left(p, 0) = Delay(p)
  BY <1>1, <1>5, <1>6, SMTT(60)
<1> QED BY <1>1, <1>2, <1>8, <1>9, <1>10 DEF EnoughTime

\* Idle goroutines have nothing to refresh.
LEMMA IdleRefreshed ==
  ASSUME NEW p, NEW x, NEW l, l.pc = "idle" PROVE RefreshedBy(p, l, x)
BY DEF RefreshedBy, Renewing, HasFailed

\* The first timer leaves a third of the period.
LEMMA ClientInit == ASSUME Durations, EnoughTime, Client!Init PROVE TimelyInv
<1>1. PICK p \in Periods : cert = p /\ renewBefore = p \div 3 /\ renewJitter = p \div 20
  BY DEF Client!Init
<1>2. PICK n \in 0 .. renewJitter - 1 : timer = Client!nextRenewDuration(cert, n)
  BY DEF Client!Init
<1>3. now = 0 /\ failures = 0
  BY DEF Client!Init
<1>4. /\ rotation.listed = {1} /\ rotation.used = 1 /\ rotation.at = 0 /\ rootCAs = {1}
      /\ rotation \in [listed : SUBSET Nat, used : Nat, at : Nat]
  BY SMTT(60) DEF Client!Init, Client!apply
<1>5. thread \in [ClientTimers -> Renewal] /\ \A t \in ClientTimers : thread[t].pc = "idle"
  BY Durations DEF Client!Init, Client!Threads, Client!Idle, Renewal, RenewalPCs
<1>6. ClientTyped
  BY <1>1, <1>3, <1>4, <1>5, SMTT(60) DEF ClientTyped, Durations
<1>7. timer \in Nat /\ timer + Delay(p) <= p /\ timer + Delay(p) < RotationWait
  BY <1>1, <1>2, <1>3, LeftFacts, SMTT(60) DEF Client!nextRenewDuration
<1>8. Left(p, failures) = Delay(p)
  BY <1>3, LeftFacts
<1>9. Waiting(p)
  BY <1>1, <1>3, <1>5, <1>7, <1>8, SMTT(60) DEF Waiting
<1>10. ASSUME NEW x \in Nat, now + RotationWait <= x PROVE Within(p, x)
  <2>1. timer + Left(p, failures) < x
    BY <1>3, <1>7, <1>8, <1>10, LeftFacts, SMTT(60)
  <2> QED BY <1>5, <2>1, IdleRefreshed DEF Within
<1>11. Trusted(p)
  BY <1>3, <1>4, SMTT(60) DEF Trusted
<1> QED BY <1>1, <1>6, <1>9, <1>10, <1>11 DEF TimelyInv, Timely

\* A step of the renewal in progress.
LEMMA RenewalStep ==
  ASSUME Durations, NEW p \in Periods, Timely(p), NEW t \in ClientTimers, Busy(p, t),
         NEW l \in Renewal, thread' = [thread EXCEPT ![t] = l],
         UNCHANGED << now, renewBefore, renewJitter, timer, rotation >>,
         cert' \in Nat, failures' \in 0 .. ClientFailures, OnTime(p, l)',
         \A x \in Nat : now + RotationWait <= x => RefreshedBy(p, l, x)',
         rotation.used \in rootCAs',
         rotation.used + 1 \in rotation.listed =>
           \/ rotation.used + 1 \in rootCAs'
           \/ \A x \in Nat : rotation.at + RotationWait <= x => RefreshedBy(p, l, x)'
  PROVE Timely(p)'
<1>1. thread \in [ClientTimers -> Renewal] /\ \A u \in ClientTimers : u # t => thread[u].pc = "idle"
  BY DEF Timely, ClientTyped, Busy
<1>2. /\ thread' \in [ClientTimers -> Renewal] /\ thread'[t] = l
      /\ \A u \in ClientTimers : u # t => thread'[u].pc = "idle"
  BY <1>1
<1>3. Busy(p, t)'
  BY <1>2 DEF Busy
<1>4. \A x \in Nat : RefreshedBy(p, l, x)' => Within(p, x)'
  <2>1. SUFFICES ASSUME NEW x \in Nat, RefreshedBy(p, l, x)' PROVE Within(p, x)'
    OBVIOUS
  <2>2. \A u \in ClientTimers : RefreshedBy(p, thread[u], x)'
    <3>1. SUFFICES ASSUME NEW u \in ClientTimers, u # t PROVE RefreshedBy(p, thread[u], x)'
      BY <1>2, <2>1
    <3> QED BY <3>1, <1>2 DEF RefreshedBy, Renewing, HasFailed
  <2> QED BY <1>3, <2>2 DEF Within, Busy
<1>5. ClientTyped'
  BY <1>2 DEF Timely, ClientTyped
<1>6. Trusted(p)'
  BY <1>4 DEF Timely, Trusted
<1> QED BY <1>3, <1>4, <1>5, <1>6 DEF Timely

\* The first call of a renewal.
LEMMA AddRootsKeeps ==
  ASSUME Durations, EnoughTime, NEW p \in Periods, Timely(p), NEW t \in ClientTimers,
     Busy(p, t),
         Client!AddRoots(t)
  PROVE Timely(p)'
<1>1. PICK l \in Renewal : l = [thread[t] EXCEPT !.pc = "federation"]
  BY DEF Timely, ClientTyped, Renewal, RenewalPCs
<1>2. thread' = [thread EXCEPT ![t] = l] /\ thread[t].pc = "roots"
  BY <1>1 DEF Timely, ClientTyped, Client!AddRoots, Client!Go
<1>3. l.pc = "federation" /\ l.since = thread[t].since /\ l.new = thread[t].new
  BY <1>1 DEF Timely, ClientTyped, Renewal
<1>4. UNCHANGED << now, renewBefore, renewJitter, timer, rotation, cert, failures, rootCAs >>
  BY DEF Client!AddRoots, Client!timeVars
<1>5. OnTime(p, l)'
  BY <1>2, <1>3, <1>4 DEF Busy, OnTime, HasFailed
<1>6. \A x \in Nat : Within(p, x) => RefreshedBy(p, l, x)'
  BY <1>2, <1>3, <1>4 DEF Within, RefreshedBy, Renewing, HasFailed
<1>7. cert' \in Nat /\ failures' \in 0 .. ClientFailures
  BY <1>4 DEF Timely, ClientTyped
<1> QED BY <1>2, <1>4, <1>5, <1>6, <1>7, RenewalStep DEF Timely, Trusted

\* The pool then holds every root the CA has published.
LEMMA ReloadKeeps ==
  ASSUME Durations, EnoughTime, NEW p \in Periods, Timely(p), NEW t \in ClientTimers,
     Busy(p, t),
         Client!Reload(t)
  PROVE Timely(p)'
<1>1. PICK l \in Renewal : l = [thread[t] EXCEPT !.pc = "renew"]
  BY DEF Timely, ClientTyped, Renewal, RenewalPCs
<1>2. thread' = [thread EXCEPT ![t] = l] /\ thread[t].pc = "federation"
  BY <1>1 DEF Timely, ClientTyped, Client!Reload, Client!Go
<1>3. l.pc = "renew" /\ l.since = thread[t].since /\ l.new = thread[t].new /\ l.since \in Nat
  BY <1>1 DEF Timely, ClientTyped, Renewal
<1>4. /\ UNCHANGED << now, renewBefore, renewJitter, timer, rotation, cert, failures >>
      /\ rotation.listed \subseteq rootCAs'
  BY DEF Client!Reload, Client!timeVars
<1>5. OnTime(p, l)'
  BY <1>2, <1>3, <1>4 DEF Busy, OnTime, HasFailed
<1>6. \A x \in Nat : now + RotationWait <= x => RefreshedBy(p, l, x)'
  <2>1. \A x \in Nat : now + RotationWait <= x => l.since + Lifetime <= x
    BY <1>3, LeftFacts, SMTT(60) DEF Busy, OnTime, Timely, ClientTyped
  <2> QED BY <1>3, <2>1 DEF RefreshedBy, HasFailed
<1>7. cert' \in Nat /\ failures' \in 0 .. ClientFailures
  BY <1>4 DEF Timely, ClientTyped
<1> QED BY <1>2, <1>4, <1>5, <1>6, <1>7, RenewalStep DEF Timely, Trusted

\* The certificate is issued during the call.
LEMMA RenewKeeps ==
  ASSUME Durations, EnoughTime, NEW p \in Periods, Timely(p), NEW t \in ClientTimers,
     Busy(p, t),
         Client!Renew(t)
  PROVE Timely(p)'
<1>9. PICK new \in Nat : new = now + Lifetime
  BY SMTT(60) DEF Timely, ClientTyped, Durations
<1>1. PICK l \in Renewal : l = [thread[t] EXCEPT !.pc = "issued", !.new = now + Lifetime]
  BY <1>9 DEF Timely, ClientTyped, Renewal, RenewalPCs
<1>2. thread' = [thread EXCEPT ![t] = l] /\ thread[t].pc = "renew"
  BY <1>1 DEF Timely, ClientTyped, Client!Renew
<1>3. l.pc = "issued" /\ l.since = thread[t].since /\ l.new = now + Lifetime /\ l.since \in Nat
  BY <1>1 DEF Timely, ClientTyped, Renewal
<1>4. UNCHANGED << now, renewBefore, renewJitter, timer, rotation, cert, failures, rootCAs >>
  BY DEF Client!Renew, Client!timeVars, Client!poolVars
<1>5. l.new \in Nat /\ l.since + Lifetime <= l.new /\ l.new <= l.since + MaxCall + Lifetime
  BY <1>3, SMTT(60) DEF Busy, OnTime, Timely, ClientTyped, Durations
<1>6. OnTime(p, l)'
  BY <1>2, <1>3, <1>4, <1>5 DEF Busy, OnTime, HasFailed
<1>7. \A x \in Nat : Within(p, x) => RefreshedBy(p, l, x)'
  BY <1>2, <1>3, <1>4 DEF Within, RefreshedBy, Renewing, HasFailed
<1>8. cert' \in Nat /\ failures' \in 0 .. ClientFailures
  BY <1>4 DEF Timely, ClientTyped
<1> QED BY <1>2, <1>4, <1>6, <1>7, <1>8, RenewalStep DEF Timely, Trusted

\* The new certificate outlives the call that brought it.
LEMMA setCertificateKeeps ==
  ASSUME Durations, EnoughTime, NEW p \in Periods, Timely(p), NEW t \in ClientTimers,
     Busy(p, t),
         Client!setCertificate(t)
  PROVE Timely(p)'
<1>1. PICK l \in Renewal : l = [thread[t] EXCEPT !.pc = "reset"]
  BY DEF Timely, ClientTyped, Renewal, RenewalPCs
<1>2. thread' = [thread EXCEPT ![t] = l] /\ thread[t].pc = "issued"
  BY <1>1 DEF Timely, ClientTyped, Client!setCertificate, Client!Go
<1>3. l.pc = "reset" /\ l.since = thread[t].since /\ l.new = thread[t].new
  BY <1>1 DEF Timely, ClientTyped, Renewal
<1>4. UNCHANGED << now, renewBefore, renewJitter, timer, rotation, failures, rootCAs >> /\ cert' = l.new
  BY <1>3 DEF Client!setCertificate, Client!timeVars, Client!poolVars
<1>5. /\ l.new \in Nat /\ l.new # None
      /\ l.since + Lifetime <= l.new /\ l.new <= l.since + MaxCall + Lifetime
      /\ l.since <= now /\ now <= l.since + MaxCall
  BY <1>2, <1>3 DEF Busy, OnTime, Durations
<1>6. OnTime(p, l)'
  BY <1>3, <1>4, <1>5 DEF OnTime, HasFailed
<1>7. \A x \in Nat : Within(p, x) => RefreshedBy(p, l, x)'
  BY <1>2, <1>3, <1>4, <1>5 DEF Within, RefreshedBy, Renewing, HasFailed
<1>8. cert' \in Nat /\ failures' \in 0 .. ClientFailures
  BY <1>4, <1>5 DEF Timely, ClientTyped
<1> QED BY <1>2, <1>4, <1>6, <1>7, <1>8, RenewalStep DEF Timely, Trusted

\* A call that fails does so by itself: the client can connect.
LEMMA ClientConnects ==
  ASSUME Durations, EnoughTime, NEW p \in Periods,
     Timely(p) PROVE now <= cert /\ Client!Connects
<1>1. failures \in 0 .. ClientFailures /\ now \in Nat /\ cert \in Nat
  BY DEF Timely, ClientTyped
<1>2. CASE Waiting(p)
  BY <1>1, <1>2, LeftFacts, SMTT(60) DEF Waiting, Timely, Trusted, Client!Connects
<1>3. ASSUME NEW t \in ClientTimers, Busy(p, t) PROVE now <= cert
  <2>1. thread[t] \in Renewal
    BY DEF Timely, ClientTyped
  <2>2. PICK l \in Renewal : l = thread[t]
    BY <2>1
  <2>3. OnTime(p, l) /\ l.pc \in RenewalPCs /\ l.since \in Nat
    BY <1>3, <2>2 DEF Busy, Renewal
  <2>4. CASE l.pc \in {"roots", "federation", "renew", "issued"}
    BY <1>1, <2>3, <2>4, LeftFacts, SMTT(60) DEF OnTime
  <2>5. CASE HasFailed(l)
    BY <1>1, <2>3, <2>5, LeftFacts, SMTT(60) DEF OnTime
  <2>6. CASE l.pc = "reset" /\ l.new # None
    BY <1>1, <2>3, <2>6, LeftFacts, SMTT(60) DEF OnTime
  <2> QED BY <2>3, <2>4, <2>5, <2>6 DEF RenewalPCs, OnTime, HasFailed
<1>4. now <= cert
  BY <1>2, <1>3 DEF Timely
<1> QED BY <1>4 DEF Timely, Trusted, Client!Connects

\* A failure costs one of the failures that are left.
LEMMA CallFailsKeeps ==
  ASSUME Durations, EnoughTime, NEW p \in Periods, Timely(p), NEW t \in ClientTimers,
     Busy(p, t),
         Client!CallFails(t)
  PROVE Timely(p)'
<1>1. PICK l \in Renewal : l = [thread[t] EXCEPT !.pc = "reset", !.new = None]
  BY DEF Timely, ClientTyped, Renewal, RenewalPCs
<1>2. thread' = [thread EXCEPT ![t] = l] /\ thread[t].pc \in {"roots", "federation", "renew"}
  BY <1>1 DEF Timely, ClientTyped, Client!CallFails, Client!Fail
<1>3. l.pc = "reset" /\ l.since = thread[t].since /\ l.new = None /\ l.since \in Nat
  BY <1>1 DEF Timely, ClientTyped, Renewal
<1>4. /\ UNCHANGED << now, renewBefore, renewJitter, timer, rotation, cert, rootCAs >>
      /\ failures < ClientFailures /\ failures' = failures + 1
  BY ClientConnects DEF Client!CallFails, Client!Fail, Client!Failing,
     Client!timeVars, Client!poolVars
<1>5. PICK f \in 0 .. ClientFailures : f = failures
  BY DEF Timely, ClientTyped
<1>6. f + 1 \in 0 .. ClientFailures /\ now \in Nat /\ cert \in Nat
  BY <1>4, <1>5, SMTT(60) DEF Timely, ClientTyped, Durations
<1>7. PICK w \in Nat, v \in Nat, r \in Nat : /\ w = Left(p, f) /\ v = Left(p, f + 1) /\ r = Retry(p)
                                         /\ w = v + MaxCall + 2 * r
  BY <1>4, <1>5, <1>6, LeftFacts, SMTT(60)
<1>8. l.since <= now /\ now <= l.since + MaxCall /\ l.since + w <= cert
  BY <1>2, <1>3, <1>5, <1>7 DEF Busy, OnTime
<1>9. now + 2 * r + v <= cert /\ 2 * r + v <= Delay(p) /\ now + 2 * r + v <= l.since + w
  BY <1>3, <1>5, <1>6, <1>7, <1>8, LeftFacts, SMTT(60)
<1>10. v = Left(p, failures')
  BY <1>4, <1>5, <1>7
<1>11. OnTime(p, l)'
  BY <1>3, <1>4, <1>7, <1>8, <1>9, <1>10 DEF OnTime, HasFailed
<1>12. \A x \in Nat : Within(p, x) => RefreshedBy(p, l, x)'
  <2>1. SUFFICES ASSUME NEW x \in Nat, Within(p, x) PROVE RefreshedBy(p, l, x)'
    OBVIOUS
  <2>2. CASE thread[t].pc = "renew"
    <3>1. l.since + Lifetime <= x
      BY <1>3, <2>1, <2>2 DEF Within, RefreshedBy, Renewing
    <3>2. now + 2 * r + v < x
      BY <1>3, <1>5, <1>6, <1>7, <1>9, <3>1, LeftFacts, SMTT(60)
    <3> QED BY <1>3, <1>4, <1>7, <1>10, <3>2 DEF RefreshedBy, Renewing
  <2>3. CASE thread[t].pc \in {"roots", "federation"}
    <3>1. l.since + w < x
      BY <1>3, <1>5, <1>7, <2>1, <2>3 DEF Within, RefreshedBy
    <3>2. now + 2 * r + v < x
      BY <1>3, <1>6, <1>7, <1>9, <3>1, SMTT(60)
    <3> QED BY <1>3, <1>4, <1>7, <1>10, <3>2 DEF RefreshedBy, Renewing
  <2> QED BY <1>2, <2>2, <2>3
<1>13. cert' \in Nat /\ failures' \in 0 .. ClientFailures
  BY <1>4, <1>5, <1>6
<1> QED BY <1>2, <1>4, <1>11, <1>12, <1>13, RenewalStep DEF Timely, Trusted

\* Something is always about to refresh the pool.
LEMMA NotRefreshed ==
  ASSUME Durations, EnoughTime, NEW p \in Periods, Timely(p) PROVE ~Within(p, now)
<1>1. now \in Nat /\ failures \in 0 .. ClientFailures /\ Left(p, failures) \in Nat /\ MaxCall <= Left(p, failures)
  BY LeftFacts DEF Timely, ClientTyped
<1>2. CASE Waiting(p)
  BY <1>1, <1>2, SMTT(60) DEF Waiting, Within, Durations
<1>3. ASSUME NEW t \in ClientTimers, Busy(p, t) PROVE ~RefreshedBy(p, thread[t], now)
  <2>1. PICK l \in Renewal : l = thread[t]
    BY DEF Timely, ClientTyped
  <2>2. OnTime(p, l) /\ l.since \in Nat /\ MaxCall \in Nat /\ Retry(p) \in Nat /\ Lifetime \in Nat
        /\ MaxCall < Lifetime /\ l.pc \in RenewalPCs
    BY <1>3, <2>1, LeftFacts, SMTT(60) DEF Busy, Renewal
  <2>3. CASE l.pc \in {"roots", "federation"}
    BY <1>1, <2>1, <2>2, <2>3, SMTT(60) DEF RefreshedBy, OnTime
  <2>4. CASE Renewing(l)
    BY <1>1, <2>1, <2>2, <2>4, SMTT(60) DEF RefreshedBy, OnTime
  <2>5. CASE HasFailed(l)
    BY <1>1, <2>1, <2>2, <2>5, SMTT(60) DEF RefreshedBy, OnTime
  <2> QED BY <2>2, <2>3, <2>4, <2>5 DEF RenewalPCs, OnTime, Renewing, HasFailed
<1> QED BY <1>2, <1>3 DEF Timely, Within

\* The timer is set again: early enough, and for before the next use of a new root.
LEMMA ResetTimerKeeps ==
  ASSUME Durations, EnoughTime, NEW p \in Periods, Timely(p), NEW t \in ClientTimers,
     Busy(p, t),
         Client!ResetTimer(t)
  PROVE Timely(p)'
<1>1. /\ now \in Nat /\ cert \in Nat /\ failures \in 0 .. ClientFailures
      /\ renewBefore = p \div 3 /\ renewJitter = p \div 20
  BY DEF Timely, ClientTyped
<1>2. PICK l \in Renewal : l = thread[t]
  BY DEF Timely, ClientTyped
<1>3. l.pc = "reset" /\ OnTime(p, l) /\ l.since \in Nat
  BY <1>2 DEF Busy, Client!ResetTimer, Renewal
<1>4. UNCHANGED << now, renewBefore, renewJitter, rotation, cert, failures, rootCAs >>
  BY DEF Client!ResetTimer, Client!timeVars, Client!poolVars
<1>5. /\ thread' \in [ClientTimers -> Renewal]
      /\ \A u \in ClientTimers : thread'[u].pc = "idle"
  <2>1. thread' = [thread EXCEPT ![t] = Client!Idle] /\ Client!Idle \in Renewal /\ Client!Idle.pc = "idle"
    BY DEF Client!ResetTimer, Client!Idle, Renewal, RenewalPCs
  <2>2. thread \in [ClientTimers -> Renewal] /\ \A u \in ClientTimers : u # t => thread[u].pc = "idle"
    BY DEF Timely, ClientTyped, Busy
  <2> HIDE DEF Client!Idle
  <2> QED BY <2>1, <2>2
<1>6. PICK w \in Nat : w = Left(p, failures) /\ w <= Delay(p) /\ MaxCall <= w
  BY <1>1, LeftFacts
<1>7. /\ timer' \in Nat /\ now <= timer' /\ timer' + w <= cert
      /\ timer' + w < now + RotationWait
      /\ \A x \in Nat : RefreshedBy(p, l, x) => timer' + w < x
  <2>1. CASE l.new = None
    <3>1. PICK r \in Nat : r = Retry(p) /\ r = Client!RetryAfter
      BY <1>1, LeftFacts DEF Retry, Client!RetryAfter
    <3>2. PICK n \in 0 .. r - 1 : timer' = now + r + n
      BY <1>2, <2>1, <3>1 DEF Client!ResetTimer
    <3>3. now + 2 * r + w <= cert /\ 2 * r + w <= Delay(p)
      BY <1>3, <1>6, <2>1, <3>1 DEF OnTime, HasFailed
    <3>4. \A x \in Nat : RefreshedBy(p, l, x) => now + 2 * r + w < x
      BY <1>3, <1>6, <2>1, <3>1 DEF RefreshedBy, HasFailed
    <3>5. timer' \in Nat /\ now <= timer' /\ timer' <= now + 2 * r
      BY <1>1, <3>1, <3>2, SMTT(60)
    <3>6. Delay(p) \in Nat /\ Delay(p) < RotationWait /\ RotationWait \in Nat
      BY LeftFacts, SMTT(60)
    <3> QED BY <1>1, <1>6, <3>1, <3>3, <3>4, <3>5, <3>6, SMTT(60)
  <2>2. CASE l.new # None
    <3>1. PICK n \in 0 .. renewJitter - 1 : timer' = now + Client!nextRenewDuration(l.new, n)
      BY <1>2, <2>2 DEF Client!ResetTimer
    <3>2. PICK b \in Nat : b = renewBefore /\ MaxCall + Delay(p) < b
      BY <1>1, LeftFacts
    <3>3. /\ cert = l.new /\ l.since + Lifetime <= cert /\ cert <= l.since + MaxCall + Lifetime
          /\ l.since <= now /\ now <= l.since + MaxCall
      BY <1>3, <2>2 DEF OnTime
    <3>4. n \in Nat
      BY <1>1, <3>1, LeftFacts, SMTT(60)
    <3>5. timer' = IF cert - now < b + n THEN now + 0 ELSE now + (cert - now - b - n)
      BY <3>1, <3>2, <3>3 DEF Client!nextRenewDuration
    <3>6. Delay(p) \in Nat /\ MaxCall + Delay(p) < Lifetime /\ Lifetime \in Nat /\ MaxCall \in Nat
          /\ Lifetime <= RotationWait /\ RotationWait \in Nat
      BY LeftFacts
    <3>7. timer' \in Nat /\ now <= timer' /\ timer' + w <= cert /\ timer' + w < l.since + Lifetime
      BY <1>1, <1>3, <1>6, <3>2, <3>3, <3>4, <3>5, <3>6, SMTT(60)
    <3>8. \A x \in Nat : RefreshedBy(p, l, x) => l.since + Lifetime <= x
      BY <1>3, <2>2 DEF RefreshedBy, Renewing
    <3> QED BY <1>1, <1>3, <1>6, <3>3, <3>6, <3>7, <3>8, SMTT(60)
  <2> QED BY <2>1, <2>2
<1>8. timer' # None
  BY <1>7 DEF Durations
<1>9. Waiting(p)'
  BY <1>4, <1>5, <1>6, <1>7 DEF Waiting
<1>10. \A x \in Nat : timer' + w < x => Within(p, x)'
  <2>1. SUFFICES ASSUME NEW x \in Nat, timer' + w < x PROVE Within(p, x)'
    OBVIOUS
  <2>2. ASSUME NEW u \in ClientTimers PROVE RefreshedBy(p, thread[u], x)'
    BY <1>5 DEF RefreshedBy, Renewing, HasFailed
  <2> QED BY <1>4, <1>6, <2>1, <2>2 DEF Within
<1>11. \A x \in Nat : Within(p, x) => Within(p, x)'
  BY <1>2, <1>7, <1>10 DEF Within
<1>12. ASSUME NEW x \in Nat, now + RotationWait <= x PROVE timer' + w < x
  BY <1>1, <1>6, <1>7, <1>12, LeftFacts, SMTT(60)
<1>13. Trusted(p)'
  BY <1>4, <1>11 DEF Timely, Trusted
<1>14. ClientTyped'
  BY <1>4, <1>5 DEF Timely, ClientTyped
<1> QED BY <1>1, <1>4, <1>9, <1>10, <1>12, <1>13, <1>14 DEF Timely

\* The timer fires when it is due.
LEMMA TimerFiresKeeps ==
  ASSUME Durations, EnoughTime, NEW p \in Periods, Timely(p), NEW t \in ClientTimers,
         Client!TimerFires(t)
  PROVE Timely(p)'
<1>1. timer # None /\ Waiting(p)
  BY DEF Timely, Busy, Client!TimerFires
<1>2. now \in Nat /\ now = timer /\ failures \in 0 .. ClientFailures
  BY <1>1, SMTT(60) DEF Waiting, Client!TimerFires, Timely, ClientTyped
<1>3. PICK l \in Renewal : l = [pc |-> "roots", since |-> now, new |-> None]
  BY <1>2 DEF Renewal, RenewalPCs
<1>4. l.pc = "roots" /\ l.since = now /\ l.new = None
  BY <1>3
<1>5. thread' = [thread EXCEPT ![t] = l] /\ timer' = None
      /\ UNCHANGED << now, renewBefore, renewJitter, rotation, cert, failures, rootCAs >>
  BY <1>3 DEF Client!TimerFires, Client!FirstCall, Client!timeVars, Client!poolVars
<1>6. thread \in [ClientTimers -> Renewal] /\ \A u \in ClientTimers : thread[u].pc = "idle"
  BY <1>1 DEF Timely, ClientTyped, Waiting
<1>7. /\ thread' \in [ClientTimers -> Renewal] /\ thread'[t] = l
      /\ \A u \in ClientTimers : u # t => thread'[u].pc = "idle"
  BY <1>5, <1>6
<1>8. PICK w \in Nat : w = Left(p, failures) /\ MaxCall \in Nat /\ now <= now + MaxCall
  BY <1>2, LeftFacts, SMTT(60)
<1>9. OnTime(p, l)'
  BY <1>1, <1>2, <1>4, <1>5, <1>8 DEF OnTime, HasFailed, Waiting
<1>10. Busy(p, t)'
  BY <1>5, <1>7, <1>9 DEF Busy
<1>11. \A x \in Nat : Within(p, x) => Within(p, x)'
  <2>1. SUFFICES ASSUME NEW x \in Nat, Within(p, x) PROVE Within(p, x)'
    OBVIOUS
  <2>2. RefreshedBy(p, l, x)'
    BY <1>1, <1>2, <1>4, <1>5, <2>1 DEF RefreshedBy, Renewing, HasFailed, Within
  <2>3. ASSUME NEW u \in ClientTimers, u # t PROVE RefreshedBy(p, thread[u], x)'
    BY <1>7, <2>3 DEF RefreshedBy, Renewing, HasFailed
  <2> QED BY <1>5, <1>7, <2>2, <2>3 DEF Within
<1>12. Trusted(p)' /\ ClientTyped'
  BY <1>5, <1>7, <1>11 DEF Timely, Trusted, ClientTyped
<1> QED BY <1>5, <1>10, <1>11, <1>12 DEF Timely

\* Time passes no further than the timer and the calls allow.
LEMMA TickKeeps ==
  ASSUME Durations, EnoughTime, NEW p \in Periods, Timely(p), Client!Tick PROVE Timely(p)'
<1>1. /\ UNCHANGED << renewBefore, renewJitter, timer, thread, rotation, cert, failures, rootCAs >>
      /\ now' = now + 1 /\ now \in Nat /\ now' \in Nat /\ now <= now'
  BY SMTT(60) DEF Client!Tick, Client!poolVars, Timely, ClientTyped
<1>2. /\ timer # None => now < timer
      /\ \A t \in ClientTimers : thread[t].pc # "idle" =>
            /\ thread[t].pc \in {"roots", "federation", "renew", "issued"}
            /\ now < thread[t].since + MaxCall
  BY DEF Client!Tick, Client!Threads, Client!InCall
<1>3. ASSUME Waiting(p) PROVE Waiting(p)'
  <2>1. now' <= timer
    BY <1>1, <1>2, <1>3, SMTT(60) DEF Waiting, Durations
  <2> QED BY <1>1, <1>3, <2>1 DEF Waiting
<1>4. ASSUME NEW t \in ClientTimers, Busy(p, t) PROVE Busy(p, t)'
  <2>1. PICK l \in Renewal : l = thread[t]
    BY DEF Timely, ClientTyped
  <2>2. OnTime(p, l) /\ l.since \in Nat /\ MaxCall \in Nat
    BY <1>4, <2>1 DEF Busy, Renewal, Durations
  <2>3. l.pc \in {"roots", "federation", "renew", "issued"} /\ now < l.since + MaxCall
    BY <1>2, <2>1, <2>2 DEF OnTime
  <2>4. l.since <= now' /\ now' <= l.since + MaxCall /\ l.pc # "reset"
    BY <1>1, <2>2, <2>3, SMTT(60) DEF OnTime
  <2>5. OnTime(p, l)'
    BY <1>1, <2>2, <2>4 DEF OnTime, HasFailed
  <2>6. thread'[t] = l
    BY <1>1, <2>1
  <2> QED BY <1>1, <1>4, <2>5, <2>6 DEF Busy
<1>5. \A x \in Nat : Within(p, x) => Within(p, x)'
  <2>1. \A t \in ClientTimers : ~HasFailed(thread[t])
    BY <1>2 DEF HasFailed
  <2>2. \A t \in ClientTimers : thread'[t] = thread[t]
    BY <1>1
  <2>3. ASSUME NEW x \in Nat, NEW t \in ClientTimers, RefreshedBy(p, thread[t], x)
        PROVE RefreshedBy(p, thread[t], x)'
    BY <1>1, <2>1, <2>2, <2>3 DEF RefreshedBy, Renewing, HasFailed
  <2> QED BY <1>1, <2>3 DEF Within
<1>6. \A x \in Nat : now' + RotationWait <= x => now + RotationWait <= x
  BY <1>1, SMTT(60) DEF Durations
<1>7. rotation.at <= now'
  BY <1>1, SMTT(60) DEF Timely, Trusted, ClientTyped
<1>8. Trusted(p)' /\ ClientTyped'
  BY <1>1, <1>5, <1>7 DEF Timely, Trusted, ClientTyped
<1> QED BY <1>1, <1>3, <1>4, <1>5, <1>6, <1>8 DEF Timely

\* The operator waits long enough for the pool to hold the root that comes into use.
LEMMA RotateKeeps ==
  ASSUME Durations, EnoughTime, NEW p \in Periods, Timely(p), Client!Rotate PROVE Timely(p)'
<1>1. UNCHANGED << now, renewBefore, renewJitter, timer, thread, cert, failures, rootCAs >>
  BY DEF Client!Rotate, Client!timeVars
<1>2. PICK R \in [listed : SUBSET Nat, used : Nat, at : Nat] : R = rotation
  BY DEF Timely, ClientTyped
<1>3. R.used \in Nat /\ R.at \in Nat /\ R.listed \subseteq Nat /\ now \in Nat /\ RotationWait \in Nat
  BY <1>2 DEF Timely, ClientTyped, Durations
<1>4. /\ R.used \in R.listed /\ R.used \in rootCAs
      /\ \A r \in R.listed : r <= R.used + 1
      /\ R.used + 1 \in R.listed =>
           \/ R.used + 1 \in rootCAs
           \/ \A x \in Nat : R.at + RotationWait <= x => Within(p, x)
  BY <1>2 DEF Timely, Trusted
<1>5. /\ now >= R.at + RotationWait
      /\ rotation' =
           IF R.listed = {R.used} THEN [R EXCEPT !.listed = @ \cup {R.used + 1}, !.at = now]
           ELSE IF R.used + 1 \in R.listed THEN [R EXCEPT !.used = @ + 1, !.at = now]
           ELSE [R EXCEPT !.listed = {R.used}, !.at = now]
  BY <1>2 DEF Client!Rotate
<1>6. \A x \in Nat : Within(p, x) => Within(p, x)'
  BY <1>1 DEF Within, RefreshedBy, Renewing, HasFailed
<1>7. (Waiting(p) => Waiting(p)') /\ \A t \in ClientTimers : Busy(p, t) => Busy(p, t)'
  BY <1>1 DEF Waiting, Busy, OnTime, HasFailed
<1>8. ClientTyped' /\ Trusted(p)'
  <2>1. CASE R.listed = {R.used}
    <3>8. R.used + 1 \in Nat
      BY <1>3, SMTT(60)
    <3>7. PICK L \in SUBSET Nat : L = R.listed \cup {R.used + 1} /\ L = {R.used, R.used + 1}
      <4>1. R.listed \cup {R.used + 1} = {R.used, R.used + 1}
        BY <2>1
      <4>2. {R.used, R.used + 1} \in SUBSET Nat
        BY <1>3, <3>8
      <4> QED BY <4>1, <4>2
    <3>1. rotation' = [R EXCEPT !.listed = L, !.at = now]
      BY <1>5, <2>1, <3>7
    <3>2. /\ rotation' \in [listed : SUBSET Nat, used : Nat, at : Nat]
          /\ rotation'.listed = {R.used, R.used + 1} /\ rotation'.used = R.used /\ rotation'.at = now
      BY <1>2, <1>3, <3>1, <3>7
    <3>3. ClientTyped'
      BY <1>1, <3>2 DEF Timely, ClientTyped
    <3>4. \A r \in rotation'.listed : r <= rotation'.used + 1
      BY <1>3, <3>2, SMTT(60)
    <3>5. \A x \in Nat : now + RotationWait <= x => Within(p, x)'
      BY <1>6 DEF Timely
    <3>6. now <= now
      BY <1>3, SMTT(60)
    <3> QED BY <1>1, <1>4, <3>2, <3>3, <3>4, <3>5, <3>6 DEF Trusted
  <2>2. CASE R.listed # {R.used} /\ R.used + 1 \in R.listed
    <3>7. PICK v \in Nat : v = R.used + 1
      BY <1>3, SMTT(60)
    <3>1. rotation' = [R EXCEPT !.used = v, !.at = now]
      BY <1>5, <2>2, <3>7
    <3>2. /\ rotation' \in [listed : SUBSET Nat, used : Nat, at : Nat]
          /\ rotation'.listed = R.listed /\ rotation'.used = R.used + 1 /\ rotation'.at = now
      BY <1>2, <1>3, <3>1, <3>7
    <3>3. ClientTyped'
      BY <1>1, <3>2 DEF Timely, ClientTyped
    <3>4. R.used + 1 \in rootCAs
      <4>1. SUFFICES ASSUME Within(p, now) PROVE FALSE
        BY <1>3, <1>4, <1>5, <2>2
      <4> QED BY <4>1, NotRefreshed
    <3>5. (\A r \in rotation'.listed : r <= rotation'.used + 1) /\ rotation'.used + 1 \notin rotation'.listed
      BY <1>3, <1>4, <3>2, SMTT(60)
    <3>6. now <= now
      BY <1>3, SMTT(60)
    <3> QED BY <1>1, <2>2, <3>2, <3>3, <3>4, <3>5, <3>6 DEF Trusted
  <2>3. CASE R.listed # {R.used} /\ R.used + 1 \notin R.listed
    <3>1. rotation' = [R EXCEPT !.listed = {R.used}, !.at = now]
      BY <1>5, <2>3
    <3>2. /\ rotation' \in [listed : SUBSET Nat, used : Nat, at : Nat]
          /\ rotation'.listed = {R.used} /\ rotation'.used = R.used /\ rotation'.at = now
      BY <1>2, <1>3, <3>1
    <3>3. ClientTyped'
      BY <1>1, <3>2 DEF Timely, ClientTyped
    <3>4. (\A r \in rotation'.listed : r <= rotation'.used + 1) /\ rotation'.used + 1 \notin rotation'.listed
      BY <1>3, <3>2, SMTT(60)
    <3>5. now <= now
      BY <1>3, SMTT(60)
    <3> QED BY <1>1, <1>4, <3>2, <3>3, <3>4, <3>5 DEF Trusted
  <2> QED BY <2>1, <2>2, <2>3
<1> QED BY <1>1, <1>6, <1>7, <1>8 DEF Timely

\* The invariant is inductive.
LEMMA ClientStep ==
  ASSUME Durations, EnoughTime, TimelyInv, [Client!Next]_Client!vars PROVE TimelyInv'
<1>1. PICK p \in Periods : Timely(p)
  BY DEF TimelyInv
<1>2. SUFFICES Timely(p)'
  BY DEF TimelyInv
<1>3. CASE Client!Tick \/ Client!Rotate
  BY <1>1, <1>3, TickKeeps, RotateKeeps
<1>4. CASE Client!Sleep \/ Client!Stop
  BY <1>4 DEF Client!Sleep, Client!Stop
<1>5. CASE UNCHANGED Client!vars
  <2>1. UNCHANGED << now, renewBefore, renewJitter, timer, thread, rotation, cert, failures, rootCAs >>
    BY <1>5 DEF Client!vars, Client!timeVars, Client!poolVars
  <2> QED BY <1>1, <2>1 DEF Timely, ClientTyped, Waiting, Busy, OnTime, Within,
     Trusted,
                                RefreshedBy, Renewing, HasFailed
<1>6. ASSUME NEW t \in ClientTimers, Client!TimerFires(t) PROVE Timely(p)'
  BY <1>1, <1>6, TimerFiresKeeps
<1>7. ASSUME NEW t \in Client!Threads,
             \/ Client!AddRoots(t) \/ Client!Reload(t) \/ Client!Renew(t) \/ Client!CallFails(t)
             \/ Client!setCertificate(t) \/ Client!ResetTimer(t)
      PROVE Timely(p)'
  <2>1. t \in ClientTimers
    BY <1>7 DEF Client!Threads
  <2>2. thread[t].pc # "idle"
    BY <1>7 DEF Client!AddRoots, Client!Reload, Client!Renew, Client!CallFails,
                Client!setCertificate, Client!ResetTimer
  <2>3. Busy(p, t)
    BY <1>1, <2>1, <2>2 DEF Timely, Waiting, Busy
  <2> QED BY <1>1, <1>7, <2>1, <2>3, AddRootsKeeps, ReloadKeeps, RenewKeeps, CallFailsKeeps,
             setCertificateKeeps, ResetTimerKeeps
<1> QED BY <1>3, <1>4, <1>5, <1>6, <1>7 DEF Client!Next, Client!Done

\* The schedule of a client's renewals that the two results below rest on.
THEOREM ClientInvariance ==
  ASSUME Durations, EnoughTime PROVE Client!Spec => []TimelyInv
BY ClientInit, ClientStep, PTL DEF Client!Spec

\* The certificate of a client never expires (TLSRenewer: the timer, its jitter and
\* its retries), for any lifetimes and any number of
\* failures that leave the timer enough time.
THEOREM ClientInTime ==
  ASSUME Durations, EnoughTime PROVE Client!Spec => []RenewedInTime
<1>1. TimelyInv => RenewedInTime
  BY ClientConnects DEF TimelyInv, RenewedInTime, Client!RenewedInTime
<1> QED BY <1>1, ClientInvariance, PTL

\* A client trusts the root the CA uses throughout a rotation (TLSOptionCtx applies
\* the roots of the CA before every renewal), for any lifetimes and
\* any number of failures that leave the timer enough time.
THEOREM ClientTrusts ==
  ASSUME Durations, EnoughTime PROVE Client!Spec => []TrustKept
<1>1. TimelyInv => TrustKept
  BY DEF TimelyInv, Timely, Trusted, TrustKept, Client!TrustKept
<1> QED BY <1>1, ClientInvariance, PTL

-----------------------------------------------------------------------------
(* The files of a client's identity.                                        *)

IdPCs == {"idle", "crt", "crt2", "key", "key2", "json", "json2", "renew", "renew2"}

IdTypeOK ==
  /\ crt \in Identity!Cert \cup {None, Torn}
  /\ key \in Keys \cup {None, Torn}
  /\ json \in {"mTLS", None, Torn}
  /\ pc \in IdPCs
  /\ own \in Keys \cup {None}

\* What the command knows of the files, by how far it has come: until the key file
\* is written the command works with the key an intact identity already has, and
\* from then on with the key in the file.
IdReusesKey == json = "mTLS" /\ key \in Keys => own = key

IdCertificateIsOwn == crt \in Identity!Cert /\ crt.for = own

IdProgress ==
  /\ pc # "idle" => own \in Keys
  /\ pc \in {"crt", "crt2", "key"} => IdReusesKey
  /\ pc \in {"key", "key2", "json", "json2"} => IdCertificateIsOwn
  /\ pc = "key2" => key = Torn
  /\ pc \in {"json", "json2"} => key = own
  /\ pc \in {"renew", "renew2"} => json = "mTLS" /\ key = own

IdIInv == IdTypeOK /\ IdProgress /\ Identity!IdentityPairAgrees

\* No file exists before the first command.
LEMMA IdInitIInv ==
  ASSUME FilesDistinct, Identity!Init
  PROVE  IdIInv
BY DEF FilesDistinct, Identity!Init, IdIInv, IdTypeOK, IdPCs, IdProgress,
   Identity!IdentityPairAgrees, IdReusesKey, IdCertificateIsOwn

\* CreateIdentityRequest takes the key of an identity that can be read, and a new
\* one otherwise.
LEMMA IdRequestKeeps ==
  ASSUME FilesDistinct, IdIInv, Identity!CreateIdentityRequest
  PROVE  IdIInv'
<1>1. PICK k \in Identity!IdentityKeys : own' = k
  BY DEF Identity!CreateIdentityRequest
<1>2. k \in Keys /\ (json = "mTLS" /\ key \in Keys => k = key)
  BY DEF Identity!IdentityKeys, Identity!LoadDefaultIdentity
<1> QED
  BY <1>1, <1>2 DEF FilesDistinct, Identity!CreateIdentityRequest, IdIInv,
     IdTypeOK, IdPCs, IdProgress, Identity!IdentityPairAgrees, IdReusesKey,
     IdCertificateIsOwn

\* What the CA signs for the command is a certificate for its key.
LEMMA IdFreshIsOwn ==
  ASSUME own \in Keys
  PROVE  Identity!Fresh \in Identity!Cert /\ Identity!Fresh.for = own
BY DEF Identity!Fresh, Identity!Cert

\* WriteDefaultIdentity: each truncation and each write keeps the invariant, so
\* that a stop between any two of them leaves no pair that disagrees.
LEMMA IdWriteKeeps ==
  ASSUME FilesDistinct, IdIInv, Identity!WriteDefaultIdentity
  PROVE  IdIInv'
<1> USE DEF FilesDistinct, IdIInv, IdTypeOK, IdPCs, IdProgress, Identity!IdentityPairAgrees, IdReusesKey, IdCertificateIsOwn
<1>1. CASE pc = "crt" /\ Identity!writeCertificate
  BY <1>1 DEF Identity!writeCertificate
<1>2. CASE pc = "crt2" /\ Identity!writeCertificate
  BY <1>2, IdFreshIsOwn DEF Identity!writeCertificate
<1>3. CASE pc = "key"
  BY <1>3 DEF Identity!WriteDefaultIdentity, Identity!writeCertificate
<1>4. CASE pc = "key2"
  BY <1>4 DEF Identity!WriteDefaultIdentity, Identity!writeCertificate
<1>5. CASE pc = "json"
  BY <1>5 DEF Identity!WriteDefaultIdentity, Identity!writeCertificate
<1>6. CASE pc = "json2"
  BY <1>6 DEF Identity!WriteDefaultIdentity, Identity!writeCertificate
<1> QED
  BY <1>1, <1>2, <1>3, <1>4, <1>5, <1>6 DEF Identity!WriteDefaultIdentity,
     Identity!writeCertificate

\* Identity.Renew keeps the key, and the CA signs for that key.
LEMMA IdRenewKeeps ==
  ASSUME FilesDistinct, IdIInv, Identity!Renew
  PROVE  IdIInv'
<1> USE DEF FilesDistinct, IdIInv, IdTypeOK, IdPCs, IdProgress, Identity!IdentityPairAgrees, IdReusesKey, IdCertificateIsOwn
<1>1. CASE pc = "idle"
  BY <1>1 DEF Identity!Renew, Identity!LoadDefaultIdentity,
     Identity!TLSCertificate, Identity!LoadX509KeyPair
<1>2. CASE pc = "renew"
  BY <1>2 DEF Identity!Renew
<1>3. CASE pc = "renew2"
  BY <1>3, IdFreshIsOwn DEF Identity!Renew
<1> QED
  BY <1>1, <1>2, <1>3 DEF Identity!Renew

\* An expired certificate is still for the same key.
LEMMA IdExpireKeeps ==
  ASSUME FilesDistinct, IdIInv, Identity!Expire
  PROVE  IdIInv'
<1>1. crt \in Identity!Cert /\ crt' \in Identity!Cert /\ crt'.for = crt.for
  BY DEF Identity!Expire, Identity!Cert
<1> QED
  BY <1>1 DEF Identity!Expire, FilesDistinct, IdIInv, IdTypeOK, IdPCs,
     IdProgress, Identity!IdentityPairAgrees, IdReusesKey, IdCertificateIsOwn

\* The invariant is inductive.
LEMMA IdNextKeeps ==
  ASSUME FilesDistinct, IdIInv, [Identity!Next]_Identity!vars
  PROVE  IdIInv'
<1>1. CASE Identity!Crash
  BY <1>1 DEF Identity!Crash, IdIInv, IdTypeOK, IdPCs, IdProgress,
     Identity!IdentityPairAgrees, IdReusesKey, IdCertificateIsOwn
<1>2. CASE UNCHANGED Identity!vars
  BY <1>2, SMTT(60) DEF Identity!vars, IdIInv, IdTypeOK, IdPCs, IdProgress,
     Identity!IdentityPairAgrees, IdReusesKey, IdCertificateIsOwn
<1> QED
  BY <1>1, <1>2, IdRequestKeeps, IdWriteKeeps, IdRenewKeeps, IdExpireKeeps DEF Identity!Next

\* Wherever WriteDefaultIdentity or Renew stopped, the certificate and the key the
\* descriptor points to belong together when both can be read.
THEOREM PairAgrees ==
  ASSUME FilesDistinct
  PROVE  Identity!Spec => []IdentityPairAgrees
<1>1. Identity!Init => IdIInv
  BY IdInitIInv
<1>2. IdIInv /\ [Identity!Next]_Identity!vars => IdIInv'
  BY IdNextKeeps
<1>3. IdIInv => IdentityPairAgrees
  BY DEF IdIInv, IdentityPairAgrees
<1> QED
  BY <1>1, <1>2, <1>3, PTL DEF Identity!Spec

=============================================================================
