---------------------------- MODULE ServerProofs ----------------------------
(***************************************************************************)
(* Theorems about Server, for any number of connections, any size of the   *)
(* pool, any durations that satisfy DurationsAssumption, any number of     *)
(* exchanges with Redis and any faults.                                    *)
(*                                                                         *)
(* Three things make the invariants of the process inductive.  A request   *)
(* in a transaction is never at Redis and never waits for a connection of  *)
(* either pool, so whoever holds a connection waits only for PostgreSQL.   *)
(* Its age is then bounded by its deadline and the timer of its rollback,  *)
(* while nothing bounds the age of a request at Redis.  And a request      *)
(* that was read before Shutdown began is at least as old as the drain.    *)
(***************************************************************************)
EXTENDS Server, FiniteSetTheorems, TLAPS

CallStates == {"idle", "acquire", "busy", "rollback", "ok", "error"}

Request ==
    [kind : {"none", "new", "handler", "probe"}, age : Nat, late : BOOLEAN,
     troubled : SUBSET Deps, tx : BOOLEAN, calls : Nat, exchanges : Nat, ready : BOOLEAN,
     call : [Deps -> CallStates], timer : [Deps -> Nat]]

TypeOK ==
    /\ main \in Starting \cup {"wait", "drain", "exited", "dead"}
    /\ listener \in {"none", "starting", "open", "closed"}
    /\ signal \in BOOLEAN
    /\ elapsed \in Nat
    /\ dep \in [Deps -> {"up", "hung", "down"}]
    /\ req \in [Conns -> Request]

\* A handler does one thing at a time, and a transaction keeps its connection.
HandlerCalls(q) ==
    /\ q.call["postgres"] \in {"idle", "acquire", "busy", "rollback"}
    /\ q.call["redis"] \in {"idle", "acquire", "busy"}
    /\ q.call["postgres"] = "idle" \/ q.call["redis"] = "idle"
    /\ q.tx => q.call["redis"] = "idle" /\ q.call["postgres"] # "acquire"
    /\ q.call["postgres"] = "rollback" => q.tx
    /\ q.call["postgres"] # "rollback" => q.timer["postgres"] = 0

\* With a connection of the pool in hand, only a rollback outlives the deadline.
HandlerInTime(q) ==
    /\ q.tx => q.age <= RequestTimeout + q.timer["postgres"]
    /\ q.call["postgres"] = "busy" => q.age <= RequestTimeout
    /\ q.timer["postgres"] <= RollbackTimeout

ProbeCalls(q) ==
    /\ ~q.tx
    /\ q.call["postgres"] \in {"acquire", "busy", "ok", "error"}
    /\ q.call["redis"] \in {"acquire", "busy", "ok", "error"}
    /\ q.ready <=> \A d \in Deps : q.call[d] # "error"
    /\ \A d \in Deps : q.call[d] = "error" => d \in q.troubled
    /\ \A d \in Deps : q.call[d] \in {"acquire", "busy"} /\ q.age > 0 => d \in q.troubled

ProbeInTime(q) ==
    /\ q.timer["redis"] <= q.age
    /\ q.call["postgres"] = "busy" => q.age <= ProbeTimeout

\* What is known of one request.
Sound(q) ==
    /\ q.kind = "none" => q = Fresh
    /\ q.kind = "new" => ~q.tx /\ \A d \in Deps : q.call[d] = "idle"
    /\ q.kind = "handler" => HandlerCalls(q) /\ HandlerInTime(q)
    /\ q.kind = "probe" => ProbeCalls(q) /\ ProbeInTime(q)

\* A request that was read before Shutdown began is as old as the drain, and a probe
\* knows what is not up.
Situated(q) ==
    /\ q.kind \in {"handler", "probe"} /\ ~q.late /\ main = "drain" => q.age >= elapsed
    /\ q.kind = "probe" => NotUp \subseteq q.troubled

ProcessInv ==
    /\ main # "drain" /\ main \notin {"exited", "dead"} => elapsed = 0
    /\ main = "exited" => \A c \in Held : req[c].late

Inv ==
    /\ TypeOK
    /\ ProcessInv
    /\ \A c \in Conns : Sound(req[c]) /\ Situated(req[c])

\* A step in which no time passes for a request in service.
Timeless == \A c \in Conns : Served(c) => req'[c].age <= req[c].age

-----------------------------------------------------------------------------
(* Facts that many steps need. *)

\* The durations are positive numbers.
LEMMA Durations ==
    /\ RequestTimeout \in Nat \ {0} /\ ProbeTimeout \in Nat \ {0}
    /\ ReadTimeout \in Nat \ {0} /\ RollbackTimeout \in Nat \ {0} /\ Grace \in Nat
    /\ HeaderTimeout \in Nat
BY DurationsAssumption

\* An idle connection.
LEMMA FreshIsSound ==
    Fresh \in Request /\ Sound(Fresh) /\ Fresh.kind = "none" /\ Fresh.age = 0 /\ ~Fresh.tx
    /\ \A d \in Deps : Fresh.call[d] = "idle" /\ Fresh.timer[d] = 0
<1>1. /\ Fresh.kind = "none" /\ Fresh.age = 0 /\ Fresh.tx = FALSE /\ Fresh.troubled = {}
      /\ Fresh.calls = 0 /\ Fresh.ready = TRUE
      /\ Fresh.call = [d \in Deps |-> "idle"] /\ Fresh.timer = [d \in Deps |-> 0]
  BY DEF Fresh
<1>2. Fresh \in Request
  BY DEF Fresh, Request, CallStates
<1> QED
  BY <1>1, <1>2 DEF Sound

\* A step of one request: another state of the same request, or a new start.
LEMMA OneRequest ==
    ASSUME Inv, Running, UNCHANGED <<process, dep>>,
           NEW c \in Conns, NEW n \in Request, req' = [req EXCEPT ![c] = n],
           Sound(n),
           \/ /\ n.kind = req[c].kind /\ n.age = req[c].age /\ n.late = req[c].late
              /\ n.troubled = req[c].troubled
           \/ Situated(n) /\ n.age = 0
    PROVE  Inv' /\ Timeless
<1>1. /\ main' = main /\ listener' = listener /\ signal' = signal /\ elapsed' = elapsed
      /\ dep' = dep /\ NotUp' = NotUp
  BY DEF process, NotUp
<1>2. TypeOK'
  BY <1>1 DEF Inv, TypeOK
<1>3. ProcessInv'
  BY <1>1 DEF Inv, ProcessInv, Running, TypeOK
<1>4. req'[c] = n /\ \A e \in Conns \ {c} : req'[e] = req[e]
  BY DEF Inv, TypeOK
<1>5. Sound(req[c]) /\ Situated(req[c]) /\ Situated(n) /\ n.age <= req[c].age
  <2>1. req[c] \in Request /\ Situated(req[c]) /\ Sound(req[c])
    BY DEF Inv, TypeOK
  <2>2. req[c].age \in Nat
    BY <2>1 DEF Request
  <2> QED
    BY <2>1, <2>2 DEF Situated
<1>6. ASSUME NEW e \in Conns PROVE Sound(req'[e]) /\ Situated(req[e])' /\ req'[e].age <= req[e].age
  <2>1. Sound(req[e]) /\ Situated(req[e]) /\ req[e] \in Request
    BY DEF Inv, TypeOK
  <2>2. CASE e = c
    BY <1>1, <1>4, <1>5, <2>2 DEF Situated
  <2>3. CASE e # c
    <3>1. req'[e] = req[e] /\ req[e].age \in Nat
      BY <1>4, <2>1, <2>3 DEF Request
    <3> QED
      BY <1>1, <2>1, <3>1 DEF Situated
  <2> QED
    BY <2>2, <2>3
<1> QED
  BY <1>2, <1>3, <1>6 DEF Inv, Timeless

\* What the record of a request holds.
LEMMA InService ==
    ASSUME Inv, NEW c \in Conns
    PROVE  /\ req[c] \in Request /\ Sound(req[c]) /\ Situated(req[c])
           /\ req[c].call \in [Deps -> CallStates] /\ req[c].timer \in [Deps -> Nat]
           /\ req[c].kind \in {"none", "new", "handler", "probe"} /\ req[c].age \in Nat
           /\ req[c].calls \in Nat /\ req[c].exchanges \in Nat
           /\ req[c].tx \in BOOLEAN /\ req[c].ready \in BOOLEAN /\ req[c].troubled \subseteq Deps
           /\ ~Served(c) => ~req[c].tx /\ \A d \in Deps : req[c].call[d] = "idle"
<1>1. req[c] \in Request /\ Sound(req[c]) /\ Situated(req[c])
  BY DEF Inv, TypeOK
<1>2. /\ req[c].call \in [Deps -> CallStates] /\ req[c].timer \in [Deps -> Nat]
      /\ req[c].kind \in {"none", "new", "handler", "probe"} /\ req[c].age \in Nat
      /\ req[c].calls \in Nat /\ req[c].exchanges \in Nat
      /\ req[c].tx \in BOOLEAN /\ req[c].ready \in BOOLEAN /\ req[c].troubled \subseteq Deps
  BY <1>1 DEF Request
<1>3. req[c].kind = "none" => req[c] = Fresh
  BY <1>1 DEF Sound
<1>4. req[c].kind = "new" => ~req[c].tx /\ \A d \in Deps : req[c].call[d] = "idle"
  BY <1>1 DEF Sound
<1> QED
  BY <1>1, <1>2, <1>3, <1>4, FreshIsSound DEF Served

\* Whoever holds a connection of the pool is being served, and has it back in time.
LEMMA HoldersAreInTime ==
    ASSUME Inv, NEW c \in Held
    PROVE  c \in Conns /\ Served(c) /\ req[c].age <= Deadline(c) + RollbackTimeout
<1>1. c \in Conns /\ (req[c].tx \/ req[c].call["postgres"] \in {"busy", "rollback"})
  BY DEF Held
<1>2. /\ Sound(req[c]) /\ req[c].age \in Nat /\ req[c].timer \in [Deps -> Nat]
      /\ ~Served(c) => ~req[c].tx /\ \A d \in Deps : req[c].call[d] = "idle"
  BY <1>1, InService
<1>3. Served(c)
  BY <1>1, <1>2 DEF Deps
<1>4. CASE req[c].kind = "handler"
  <2>1. HandlerCalls(req[c]) /\ HandlerInTime(req[c]) /\ req[c].timer["postgres"] \in Nat
    BY <1>2, <1>4 DEF Sound, Deps
  <2>2. req[c].age <= RequestTimeout + RollbackTimeout
    BY <1>1, <1>2, <2>1, Durations DEF HandlerCalls, HandlerInTime
  <2> QED
    BY <1>1, <1>3, <1>4, <2>2 DEF Deadline
<1>5. CASE req[c].kind = "probe"
  <2>1. req[c].age <= ProbeTimeout
    BY <1>1, <1>2, <1>5 DEF Sound, ProbeCalls, ProbeInTime
  <2> QED
    BY <1>1, <1>2, <1>3, <1>5, <2>1, Durations DEF Deadline
<1> QED
  BY <1>3, <1>4, <1>5 DEF Served

\* While a connection of the pool is held, its holder waits for PostgreSQL or moves.
LEMMA HoldersWaitForPostgres ==
    ASSUME Inv, NEW h \in Held, Pending(h) # {}
    PROVE  "postgres" \in Pending(h) /\ req[h].call["postgres"] \in {"busy", "rollback"}
<1>1. h \in Conns /\ (req[h].tx \/ req[h].call["postgres"] \in {"busy", "rollback"})
  BY DEF Held
<1>2. Sound(req[h]) /\ Served(h)
  BY <1>1, InService, HoldersAreInTime
<1>3. CASE req[h].call["postgres"] \in {"busy", "rollback"}
  BY <1>1, <1>3 DEF Pending, Deps
<1>4. CASE req[h].tx /\ req[h].call["postgres"] \notin {"busy", "rollback"}
  <2>1. req[h].kind = "handler"
    BY <1>2, <1>4 DEF Sound, ProbeCalls, Served
  <2>2. req[h].call["redis"] = "idle" /\ req[h].call["postgres"] = "idle"
    BY <1>2, <1>4, <2>1 DEF Sound, HandlerCalls
  <2> QED
    BY <2>2 DEF Pending, Deps
<1> QED
  BY <1>1, <1>3, <1>4

-----------------------------------------------------------------------------
(* The invariant holds at the start, and main and its listener preserve it. *)

\* Nothing is served before main has started.
LEMMA InitInv == Init => Inv
<1> SUFFICES ASSUME Init PROVE Inv
  OBVIOUS
<1>1. TypeOK
  BY FreshIsSound DEF Init, TypeOK, Starting
<1>2. ProcessInv
  BY DEF Init, ProcessInv
<1>3. \A c \in Conns : Sound(req[c]) /\ Situated(req[c])
  BY FreshIsSound DEF Init, Situated
<1> QED
  BY <1>1, <1>2, <1>3 DEF Inv

\* The death of the process ends every request.
LEMMA DieInv == Inv /\ Die => Inv' /\ Timeless
<1> SUFFICES ASSUME Inv, Die PROVE Inv' /\ Timeless
  OBVIOUS
<1>1. /\ main' = "dead" /\ listener' = "closed" /\ req' = [c \in Conns |-> Fresh]
      /\ signal' = signal /\ elapsed' = elapsed /\ dep' = dep
  BY DEF Die
<1>2. TypeOK'
  BY <1>1, FreshIsSound DEF Inv, TypeOK
<1>3. ProcessInv'
  BY <1>1 DEF ProcessInv
<1>4. \A c \in Conns : Sound(req[c])' /\ Situated(req[c])'
  BY <1>1, FreshIsSound DEF Situated
<1>5. Timeless
  BY <1>1, FreshIsSound, InService DEF Timeless
<1> QED
  BY <1>2, <1>3, <1>4, <1>5 DEF Inv

\* Main and the listener move while no request does.
LEMMA MainInv ==
    ASSUME Inv, UNCHANGED <<elapsed, dep, req>>, TypeOK', ProcessInv',
           main' = "drain" => main = "drain" \/ elapsed = 0
    PROVE  Inv' /\ Timeless
<1>1. \A c \in Conns : Sound(req[c])' /\ Situated(req[c])' /\ req'[c].age <= req[c].age
  <2> SUFFICES ASSUME NEW c \in Conns
               PROVE  Sound(req[c])' /\ Situated(req[c])' /\ req'[c].age <= req[c].age
    OBVIOUS
  <2>1. Sound(req[c]) /\ Situated(req[c]) /\ req[c].age \in Nat
    BY InService
  <2>2. Sound(req'[c])
    BY <2>1
  <2>3. NotUp' = NotUp
    BY DEF NotUp
  <2>4. Situated(req[c])'
    BY <2>1, <2>3 DEF Situated
  <2> QED
    BY <2>1, <2>2, <2>4
<1> QED
  BY <1>1 DEF Inv, Timeless

\* Every step of main, of the listener and of a signal.  When Shutdown gives up, whoever
\* holds a connection of the pool was read after it began: all others are in time.
LEMMA ProcessStepInv ==
    Inv /\ (Startup \/ Signal \/ Shutdown \/ Exit \/ ListenerFails) => Inv' /\ Timeless
<1> SUFFICES ASSUME Inv, Startup \/ Signal \/ Shutdown \/ Exit \/ ListenerFails
             PROVE  Inv' /\ Timeless
  OBVIOUS
<1> USE DEF Follow
<1>1. CASE Die
  BY <1>1, DieInv
<1>2. CASE Load \/ InitTracing \/ ConnectPostgres \/ ConnectRedis \/ StartServer \/ Notify
  <2>1. UNCHANGED <<elapsed, dep, req, signal>>
    BY <1>2 DEF Load, InitTracing, ConnectPostgres, ConnectRedis, StartServer, Notify
  <2>2. main \in Starting /\ main' \in Starting \cup {"wait"} /\ listener' \in {listener, "starting"}
    BY <1>2 DEF Load, InitTracing, ConnectPostgres, ConnectRedis, StartServer, Notify, Starting
  <2>3. TypeOK'
    BY <2>1, <2>2 DEF Inv, TypeOK
  <2>4. ProcessInv'
    BY <2>1, <2>2 DEF Inv, ProcessInv, Starting
  <2>5. main' # "drain"
    BY <2>2 DEF Starting
  <2> QED
    BY <2>1, <2>3, <2>4, <2>5, MainInv
<1>3. CASE Bind \/ (main = "wait" /\ UNCHANGED <<main, listener, elapsed, dep, req>> /\ signal' = TRUE)
  <2>1. UNCHANGED <<elapsed, dep, req, main>>
    BY <1>3 DEF Bind
  <2>2. \/ listener = "starting" /\ listener' = "open" /\ signal' = signal /\ Running
        \/ listener' = listener /\ signal' = TRUE /\ main = "wait"
    BY <1>3 DEF Bind
  <2>3. TypeOK'
    BY <2>1, <2>2 DEF Inv, TypeOK
  <2>4. ProcessInv'
    BY <2>1, <2>2 DEF Inv, ProcessInv, Running
  <2> QED
    BY <2>1, <2>3, <2>4, MainInv
<1>4. CASE Shutdown
  <2>1. /\ UNCHANGED <<elapsed, dep, req>> /\ main = "wait" /\ main' = "drain"
        /\ listener' = "closed" /\ signal' = FALSE
    BY <1>4 DEF Shutdown
  <2>2. elapsed = 0
    BY <2>1 DEF Inv, ProcessInv
  <2>3. TypeOK' /\ ProcessInv'
    BY <2>1 DEF Inv, TypeOK, ProcessInv
  <2> QED
    BY <2>1, <2>2, <2>3, MainInv
<1>5. CASE Exit
  <2>1. /\ UNCHANGED <<listener, signal, elapsed, dep, req>> /\ main = "drain" /\ main' = "exited"
        /\ Idle \/ elapsed >= Grace
    BY <1>5 DEF Exit
  <2>2. ASSUME NEW c \in Held PROVE req[c].late
    <3> SUFFICES ASSUME ~req[c].late PROVE FALSE
      OBVIOUS
    <3>1. c \in Conns /\ Served(c) /\ req[c].age <= Deadline(c) + RollbackTimeout
      BY HoldersAreInTime
    <3>2. elapsed >= Grace /\ elapsed \in Nat
      BY <2>1, <3>1 DEF Idle, Served, Inv, TypeOK
    <3>3. Situated(req[c]) /\ Sound(req[c]) /\ req[c].age \in Nat
      BY <3>1, InService
    <3>4. req[c].age >= elapsed
      BY <2>1, <3>1, <3>3 DEF Situated, Served
    <3>5. req[c].age < Grace
      <4>1. CASE req[c].kind = "handler"
        BY <3>1, <3>3, <4>1, DurationsAssumption, Durations DEF Deadline
      <4>2. CASE req[c].kind = "probe"
        <5>1. ~req[c].tx /\ req[c].call["postgres"] # "rollback" /\ ProbeInTime(req[c])
          BY <3>3, <4>2 DEF Sound, ProbeCalls
        <5>2. req[c].age <= ProbeTimeout
          BY <5>1 DEF Held, ProbeInTime
        <5> QED
          BY <3>3, <5>2, DurationsAssumption, Durations
      <4> QED
        BY <3>1, <4>1, <4>2 DEF Served
    <3> QED
      BY <3>2, <3>3, <3>4, <3>5, Durations
  <2>3. Held' = Held
    BY <2>1 DEF Held
  <2>4. TypeOK' /\ ProcessInv'
    BY <2>1, <2>2, <2>3 DEF Inv, TypeOK, ProcessInv
  <2> QED
    BY <2>1, <2>4, MainInv
<1> QED
  BY <1>1, <1>2, <1>3, <1>4, <1>5 DEF Startup, StartupFails, Signal, ListenerFails

-----------------------------------------------------------------------------
(* Every step of a request preserves it. *)

\* A client connects.
LEMMA ConnectInv == ASSUME Inv, NEW c \in Conns, Connect(c) PROVE Inv' /\ Timeless
<1>1. /\ Running /\ UNCHANGED <<process, dep>> /\ req' = [req EXCEPT ![c] = [Fresh EXCEPT !.kind = "new"]]
  BY DEF Connect, Serving
<1>2. PICK n : n = [Fresh EXCEPT !.kind = "new"]
  OBVIOUS
<1>3. /\ n.kind = "new" /\ n.age = 0 /\ n.tx = FALSE /\ n.call = [d \in Deps |-> "idle"]
  BY <1>2 DEF Fresh
<1>4. n \in Request /\ Sound(n) /\ n.kind = "new" /\ n.age = 0
  <2>1. n \in Request
    BY <1>2 DEF Request, Fresh, CallStates
  <2> QED
    BY <1>3, <2>1 DEF Sound
<1>5. Situated(n)
  BY <1>4 DEF Situated
<1> QED
  BY <1>1, <1>2, <1>4, <1>5, OneRequest

\* A request is read, if Shutdown has begun even then: such a request is late.
LEMMA ReadRequestInv ==
    ASSUME Inv, NEW c \in Conns, NEW k \in {"handler", "probe"}, ReadRequest(c, k)
    PROVE  Inv' /\ Timeless
<1>1. PICK n : n = [Fresh EXCEPT
          !.kind = k, !.late = (main = "drain"),
          !.troubled = IF k = "probe" THEN NotUp ELSE @,
          !.call = IF k = "probe" THEN [d \in Deps |-> "acquire"] ELSE @]
  OBVIOUS
<1>2. Running /\ UNCHANGED <<process, dep>> /\ req' = [req EXCEPT ![c] = n]
  BY <1>1 DEF ReadRequest, Serving
<1>3. /\ n.kind = k /\ n.age = 0 /\ n.tx = FALSE /\ n.ready = TRUE
      /\ n.late = (main = "drain") /\ (k = "probe" => n.troubled = NotUp)
      /\ n.timer = [d \in Deps |-> 0]
      /\ n.call = [d \in Deps |-> IF k = "probe" THEN "acquire" ELSE "idle"]
  BY <1>1 DEF Fresh
<1>4. n \in Request
  <2>1. NotUp \subseteq Deps
    BY DEF NotUp
  <2> QED
    BY <1>1, <2>1 DEF Request, Fresh, CallStates
<1>5. /\ n.call["postgres"] = IF k = "probe" THEN "acquire" ELSE "idle"
      /\ n.call["redis"] = IF k = "probe" THEN "acquire" ELSE "idle"
      /\ n.timer["postgres"] = 0 /\ n.timer["redis"] = 0
  BY <1>3 DEF Deps
<1>6. k = "handler" => HandlerCalls(n) /\ HandlerInTime(n)
  BY <1>3, <1>5, Durations DEF HandlerCalls, HandlerInTime
<1>7. k = "probe" => ProbeCalls(n) /\ ProbeInTime(n)
  BY <1>3, <1>5, Durations DEF ProbeCalls, ProbeInTime, Deps
<1>8. Sound(n)
  BY <1>3, <1>6, <1>7 DEF Sound
<1>9. Situated(n)
  BY <1>3 DEF Situated
<1> QED
  BY <1>2, <1>3, <1>4, <1>8, <1>9, OneRequest

\* A request ends, or a new connection is closed.
LEMMA AnswerInv == ASSUME Inv, Running, NEW c \in Conns, Answer(c) PROVE Inv' /\ Timeless
<1>1. UNCHANGED <<process, dep>> /\ req' = [req EXCEPT ![c] = Fresh]
  BY DEF Answer
<1>2. Situated(Fresh)
  BY FreshIsSound DEF Situated
<1> QED
  BY <1>1, <1>2, FreshIsSound, OneRequest

\* A request whose call to d has returned.
LEMMA ReturnedCall ==
    ASSUME NEW q \in Request, NEW d \in Deps, NEW state \in CallStates,
           NEW n, Returned(q, d, state) = n
    PROVE  /\ n \in Request
           /\ n.kind = q.kind /\ n.age = q.age /\ n.late = q.late /\ n.troubled = q.troubled
           /\ n.tx = q.tx /\ n.ready = q.ready
           /\ n.call[d] = state /\ n.timer[d] = 0
           /\ \A e \in Deps \ {d} : n.call[e] = q.call[e] /\ n.timer[e] = q.timer[e]
<1>1. PICK call : call = [q.call EXCEPT ![d] = state]
  OBVIOUS
<1>2. PICK timer : timer = [q.timer EXCEPT ![d] = 0]
  OBVIOUS
<1>3. PICK x : x = IF d = "redis" THEN 0 ELSE q.exchanges
  OBVIOUS
<1>4. n = [q EXCEPT !.call = call, !.timer = timer, !.exchanges = x]
  BY <1>1, <1>2, <1>3 DEF Returned, Request
<1>5. /\ call \in [Deps -> CallStates] /\ timer \in [Deps -> Nat]
      /\ call[d] = state /\ timer[d] = 0
      /\ \A e \in Deps \ {d} : call[e] = q.call[e] /\ timer[e] = q.timer[e]
  <2>1. q.call \in [Deps -> CallStates] /\ q.timer \in [Deps -> Nat]
    BY DEF Request
  <2> QED
    BY <1>1, <1>2, <2>1
<1>6. x \in Nat
  BY <1>3 DEF Request
<1>7. n \in Request
  BY <1>4, <1>5, <1>6 DEF Request
<1>8. /\ n.kind = q.kind /\ n.age = q.age /\ n.late = q.late /\ n.troubled = q.troubled
      /\ n.tx = q.tx /\ n.ready = q.ready /\ n.call = call /\ n.timer = timer
  BY <1>4 DEF Request
<1> QED
  BY <1>5, <1>7, <1>8

\* A handler calls PostgreSQL, on the transaction's connection or on one of the pool, or
\* Redis, outside its transactions.
LEMMA StartInv ==
    ASSUME Inv, NEW c \in Conns, UsePostgres(c) \/ UseRedis(c) PROVE Inv' /\ Timeless
<1>1. PICK q : q = req[c]
  OBVIOUS
<1>2. PICK d \in Deps, s \in {"busy", "acquire"} :
          /\ Running /\ q.kind = "handler" /\ \A e \in Deps : q.call[e] = "idle"
          /\ d = "redis" => ~q.tx /\ s = "acquire"
          /\ d = "postgres" => s = IF q.tx THEN "busy" ELSE "acquire"
          /\ req' = [req EXCEPT ![c].call[d] = s, ![c].calls = @ + 1]
          /\ UNCHANGED <<process, dep>>
  <2>1. CASE UsePostgres(c)
    <3>1. PICK s : s = FirstState(c)
      OBVIOUS
    <3>2. s = IF q.tx THEN "busy" ELSE "acquire"
      BY <1>1, <3>1 DEF FirstState
    <3>3. /\ Running /\ q.kind = "handler" /\ \A e \in Deps : q.call[e] = "idle"
          /\ req' = [req EXCEPT ![c].call["postgres"] = s, ![c].calls = @ + 1]
          /\ UNCHANGED <<process, dep>>
      BY <1>1, <2>1, <3>1 DEF UsePostgres, Start, Computing, Serving
    <3> QED
      BY <3>2, <3>3 DEF Deps
  <2>2. CASE UseRedis(c)
    BY <1>1, <2>2 DEF UseRedis, OutsideTransaction, Start, Computing, Serving, Deps
  <2> QED
    BY <2>1, <2>2
<1>3. /\ q \in Request /\ q.call \in [Deps -> CallStates] /\ q.calls + 1 \in Nat
      /\ q.timer \in [Deps -> Nat] /\ q.age \in Nat /\ HandlerCalls(q) /\ HandlerInTime(q)
  <2>1. /\ q \in Request /\ Sound(q) /\ q.call \in [Deps -> CallStates] /\ q.calls \in Nat
        /\ q.timer \in [Deps -> Nat] /\ q.age \in Nat
    BY <1>1, InService
  <2> QED
    BY <1>2, <2>1 DEF Sound
<1>4. PICK call : call = [q.call EXCEPT ![d] = s]
  OBVIOUS
<1>5. call \in [Deps -> CallStates] /\ call[d] = s /\ \A e \in Deps \ {d} : call[e] = "idle"
  BY <1>2, <1>3, <1>4 DEF CallStates
<1>6. PICK n : n = [q EXCEPT !.call = call, !.calls = @ + 1]
  OBVIOUS
<1>7. req' = [req EXCEPT ![c] = n]
  BY <1>1, <1>2, <1>4, <1>6
<1>8. n.kind = q.kind /\ n.age = q.age /\ n.late = q.late /\ n.troubled = q.troubled
      /\ n.tx = q.tx /\ n.timer = q.timer /\ n.call = call
  BY <1>3, <1>6 DEF Request
<1>9. n \in Request
  BY <1>3, <1>5, <1>6 DEF Request
<1>10. q.call["postgres"] = "idle" /\ q.call["redis"] = "idle"
  BY <1>2 DEF Deps
<1>11. HandlerCalls(n) /\ HandlerInTime(n)
  <2>1. CASE d = "postgres"
    <3>1. n.call["postgres"] = s /\ n.call["redis"] = "idle" /\ q.timer["postgres"] = 0
      BY <1>3, <1>5, <1>8, <1>10, <2>1 DEF Deps, HandlerCalls
    <3>2. HandlerCalls(n)
      BY <1>2, <1>3, <1>8, <2>1, <3>1 DEF HandlerCalls
    <3>3. HandlerInTime(n)
      BY <1>2, <1>3, <1>8, <2>1, <3>1, Durations DEF HandlerInTime
    <3> QED
      BY <3>2, <3>3
  <2>2. CASE d = "redis"
    <3>1. n.call["redis"] = s /\ n.call["postgres"] = "idle" /\ ~n.tx
      BY <1>2, <1>5, <1>8, <2>2 DEF Deps
    <3> QED
      BY <1>2, <1>3, <1>8, <1>10, <3>1 DEF HandlerCalls, HandlerInTime
  <2> QED
    BY <2>1, <2>2 DEF Deps
<1>12. Sound(n)
  BY <1>2, <1>8, <1>11 DEF Sound
<1> QED
  BY <1>1, <1>2, <1>7, <1>8, <1>9, <1>12, OneRequest

\* A pool gives a connection, and its context has not ended.
LEMMA AcquireInv ==
    ASSUME Inv, NEW c \in Conns, NEW d \in Deps, Acquire(c, d) PROVE Inv' /\ Timeless
<1>1. PICK q : q = req[c]
  OBVIOUS
<1>2. /\ q \in Request /\ Sound(q) /\ q.call \in [Deps -> CallStates]
      /\ q.timer \in [Deps -> Nat] /\ q.age \in Nat
      /\ ~Served(c) => \A e \in Deps : q.call[e] = "idle"
  BY <1>1, InService
<1>3. /\ Running /\ q.call[d] = "acquire" /\ ~ContextDead(c)
      /\ req' = [req EXCEPT ![c].call[d] = "busy"]
      /\ UNCHANGED <<process, dep>>
  BY <1>1 DEF Acquire
<1>4. q.kind \in {"handler", "probe"}
  BY <1>1, <1>2, <1>3 DEF Served
<1>5. q.age < IF q.kind = "probe" THEN ProbeTimeout ELSE RequestTimeout
  BY <1>1, <1>2, <1>3, Durations DEF ContextDead, Deadline
<1>6. PICK call : call = [q.call EXCEPT ![d] = "busy"]
  OBVIOUS
<1>7. PICK n : n = [q EXCEPT !.call = call]
  OBVIOUS
<1>8. req' = [req EXCEPT ![c] = n]
  BY <1>1, <1>3, <1>6, <1>7
<1>9. call \in [Deps -> CallStates] /\ call[d] = "busy" /\ \A e \in Deps \ {d} : call[e] = q.call[e]
  BY <1>2, <1>6 DEF CallStates
<1>10. /\ n \in Request
       /\ n.kind = q.kind /\ n.age = q.age /\ n.late = q.late /\ n.troubled = q.troubled
       /\ n.tx = q.tx /\ n.ready = q.ready /\ n.timer = q.timer /\ n.call = call
  BY <1>2, <1>7, <1>9 DEF Request
<1>11. CASE q.kind = "handler"
  <2>1. HandlerCalls(q) /\ HandlerInTime(q)
    BY <1>2, <1>11 DEF Sound
  <2>2. HandlerCalls(n)
    BY <1>3, <1>9, <1>10, <2>1 DEF HandlerCalls, Deps
  <2>3. HandlerInTime(n)
    BY <1>2, <1>5, <1>9, <1>10, <1>11, <2>1, Durations DEF HandlerInTime, Deps
  <2>4. Sound(n)
    BY <1>10, <1>11, <2>2, <2>3 DEF Sound
  <2> QED
    BY <1>1, <1>3, <1>8, <1>10, <2>4, OneRequest
<1>12. CASE q.kind = "probe"
  <2>1. ProbeCalls(q) /\ ProbeInTime(q)
    BY <1>2, <1>12 DEF Sound
  <2>2. ProbeCalls(n)
    BY <1>3, <1>9, <1>10, <2>1 DEF ProbeCalls, Deps
  <2>3. ProbeInTime(n)
    BY <1>2, <1>5, <1>9, <1>10, <1>12, <2>1, Durations DEF ProbeInTime, Deps
  <2>4. Sound(n)
    BY <1>10, <1>12, <2>2, <2>3 DEF Sound
  <2> QED
    BY <1>1, <1>3, <1>8, <1>10, <2>4, OneRequest
<1> QED
  BY <1>4, <1>11, <1>12

\* A call of a handler has an answer: in time, if PostgreSQL gives it.
LEMMA HandlerSucceedsInv ==
    ASSUME Inv, NEW c \in Conns, NEW d \in Deps, Succeeds(c, d), req[c].kind = "handler"
    PROVE  Inv' /\ Timeless
<1>1. PICK q : q = req[c]
  OBVIOUS
<1>2. /\ q \in Request /\ Sound(q) /\ q.call \in [Deps -> CallStates]
      /\ q.timer \in [Deps -> Nat] /\ q.age \in Nat
      /\ q.kind = "handler" /\ HandlerCalls(q) /\ HandlerInTime(q)
  <2>1. /\ q \in Request /\ Sound(q) /\ q.call \in [Deps -> CallStates]
        /\ q.timer \in [Deps -> Nat] /\ q.age \in Nat /\ q.kind = "handler"
    BY <1>1, InService
  <2> QED
    BY <2>1 DEF Sound
<1>3. PICK t \in BOOLEAN :
          /\ Running /\ q.call[d] = "busy" /\ UNCHANGED <<process, dep>>
          /\ d = "postgres" => ~ContextDead(c)
          /\ d = "redis" => t = FALSE
          /\ req' = [req EXCEPT ![c] = [Returned(q, d, "idle") EXCEPT !.tx = t]]
  BY <1>1 DEF Succeeds, Deps
<1>4. PICK m : Returned(q, d, "idle") = m
  OBVIOUS
<1>5. /\ m \in Request
      /\ m.kind = q.kind /\ m.age = q.age /\ m.late = q.late /\ m.troubled = q.troubled
      /\ m.call[d] = "idle" /\ m.timer[d] = 0
      /\ \A e \in Deps \ {d} : m.call[e] = q.call[e] /\ m.timer[e] = q.timer[e]
  <2>1. q \in Request /\ "idle" \in CallStates
    BY <1>2 DEF CallStates
  <2> QED
    BY <1>4, <2>1, ReturnedCall
<1>6. PICK n : n = [m EXCEPT !.tx = t]
  OBVIOUS
<1>7. req' = [req EXCEPT ![c] = n]
  BY <1>3, <1>4, <1>6
<1>8. /\ n \in Request
      /\ n.kind = q.kind /\ n.age = q.age /\ n.late = q.late /\ n.troubled = q.troubled
      /\ n.tx = t /\ n.call = m.call /\ n.timer = m.timer
  BY <1>3, <1>5, <1>6 DEF Request
<1>9. HandlerCalls(n) /\ HandlerInTime(n)
  <2>1. CASE d = "postgres"
    <3>1. q.age < RequestTimeout
      BY <1>1, <1>2, <1>3, <2>1, Durations DEF ContextDead, Deadline
    <3>2. /\ n.call["postgres"] = "idle" /\ n.timer["postgres"] = 0
          /\ n.call["redis"] = q.call["redis"]
      BY <1>5, <1>8, <2>1 DEF Deps
    <3>3. q.call["redis"] = "idle"
      BY <1>2, <1>3, <2>1 DEF HandlerCalls
    <3>4. HandlerCalls(n)
      BY <3>2, <3>3 DEF HandlerCalls
    <3>5. HandlerInTime(n)
      BY <1>2, <1>8, <3>1, <3>2, Durations DEF HandlerInTime
    <3> QED
      BY <3>4, <3>5
  <2>2. CASE d = "redis"
    <3>1. /\ n.call["redis"] = "idle" /\ n.tx = FALSE
          /\ n.call["postgres"] = q.call["postgres"] /\ n.timer["postgres"] = q.timer["postgres"]
      BY <1>3, <1>5, <1>8, <2>2 DEF Deps
    <3>2. q.call["postgres"] = "idle" /\ q.timer["postgres"] = 0
      BY <1>2, <1>3, <2>2 DEF HandlerCalls
    <3>3. HandlerCalls(n)
      BY <3>1, <3>2 DEF HandlerCalls
    <3>4. HandlerInTime(n)
      BY <3>1, <3>2, Durations DEF HandlerInTime
    <3> QED
      BY <3>3, <3>4
  <2> QED
    BY <2>1, <2>2 DEF Deps
<1>10. Sound(n)
  BY <1>2, <1>8, <1>9 DEF Sound
<1> QED
  BY <1>1, <1>3, <1>7, <1>8, <1>10, OneRequest

\* A call of a handler fails.  A transaction it was part of was within its deadline so
\* far, and its connection goes back after a rollback.
LEMMA HandlerFailsInv ==
    ASSUME Inv, NEW c \in Conns, NEW d \in Deps, Fails(c, d), req[c].kind = "handler"
    PROVE  Inv' /\ Timeless
<1>1. PICK q : q = req[c]
  OBVIOUS
<1>2. /\ q \in Request /\ Sound(q) /\ q.call \in [Deps -> CallStates]
      /\ q.timer \in [Deps -> Nat] /\ q.age \in Nat
      /\ q.kind = "handler" /\ HandlerCalls(q) /\ HandlerInTime(q)
  <2>1. /\ q \in Request /\ Sound(q) /\ q.call \in [Deps -> CallStates]
        /\ q.timer \in [Deps -> Nat] /\ q.age \in Nat /\ q.kind = "handler"
    BY <1>1, InService
  <2> QED
    BY <2>1 DEF Sound
<1>3. PICK s : s = IF d = "postgres" /\ q.tx THEN "rollback" ELSE "idle"
  OBVIOUS
<1>4. PICK n : Returned(q, d, s) = n
  OBVIOUS
<1>5. /\ Running /\ q.call[d] \in {"acquire", "busy"} /\ UNCHANGED <<process, dep>>
      /\ req' = [req EXCEPT ![c] = n]
  BY <1>1, <1>3, <1>4 DEF Fails
<1>6. s \in CallStates
  BY <1>3 DEF CallStates
<1>7. /\ n \in Request
      /\ n.kind = q.kind /\ n.age = q.age /\ n.late = q.late /\ n.troubled = q.troubled
      /\ n.tx = q.tx /\ n.call[d] = s /\ n.timer[d] = 0
      /\ \A e \in Deps \ {d} : n.call[e] = q.call[e] /\ n.timer[e] = q.timer[e]
  <2>1. q \in Request
    BY <1>2
  <2> QED
    BY <1>4, <1>6, <2>1, ReturnedCall
<1>8. HandlerCalls(n) /\ HandlerInTime(n)
  <2>1. CASE d = "postgres"
    <3>1. n.call["postgres"] = s /\ n.timer["postgres"] = 0 /\ n.call["redis"] = q.call["redis"]
      BY <1>7, <2>1 DEF Deps
    <3>2. q.call["redis"] = "idle" /\ q.timer["postgres"] = 0
      BY <1>2, <1>5, <2>1 DEF HandlerCalls
    <3>3. s \in {"idle", "rollback"} /\ (s = "rollback" => q.tx)
      BY <1>3
    <3>4. HandlerCalls(n)
      BY <1>7, <3>1, <3>2, <3>3 DEF HandlerCalls
    <3>5. HandlerInTime(n)
      BY <1>2, <1>7, <3>1, <3>2, <3>3, Durations DEF HandlerInTime
    <3> QED
      BY <3>4, <3>5
  <2>2. CASE d = "redis"
    <3>1. /\ n.call["redis"] = "idle"
          /\ n.call["postgres"] = q.call["postgres"] /\ n.timer["postgres"] = q.timer["postgres"]
      BY <1>3, <1>7, <2>2 DEF Deps
    <3>2. HandlerCalls(n)
      BY <1>2, <1>7, <3>1 DEF HandlerCalls
    <3>3. HandlerInTime(n)
      BY <1>2, <1>7, <3>1 DEF HandlerInTime
    <3> QED
      BY <3>2, <3>3
  <2> QED
    BY <2>1, <2>2 DEF Deps
<1>9. Sound(n)
  BY <1>2, <1>7, <1>8 DEF Sound
<1> QED
  BY <1>1, <1>5, <1>7, <1>9, OneRequest

\* Redis is asked once more.
LEMMA AgainInv == ASSUME Inv, NEW c \in Conns, Again(c) PROVE Inv' /\ Timeless
<1>1. PICK q : q = req[c]
  OBVIOUS
<1>2. PICK s \in {"acquire", "busy"} :
          /\ Running /\ q.call["redis"] = "busy" /\ UNCHANGED <<process, dep>>
          /\ req' = [req EXCEPT ![c].call["redis"] = s, ![c].timer["redis"] = 0,
                                ![c].exchanges = @ + 1]
  BY <1>1 DEF Again
<1>3. /\ q \in Request /\ Sound(q) /\ q.call \in [Deps -> CallStates]
      /\ q.timer \in [Deps -> Nat] /\ q.age \in Nat /\ q.exchanges + 1 \in Nat
      /\ ~Served(c) => \A e \in Deps : q.call[e] = "idle"
  <2>1. q.exchanges \in Nat
    BY <1>1, InService
  <2> QED
    BY <1>1, <2>1, InService
<1>4. q.kind \in {"handler", "probe"}
  BY <1>1, <1>2, <1>3 DEF Served, Deps
<1>5. PICK call : call = [q.call EXCEPT !["redis"] = s]
  OBVIOUS
<1>6. PICK timer : timer = [q.timer EXCEPT !["redis"] = 0]
  OBVIOUS
<1>7. /\ call \in [Deps -> CallStates] /\ timer \in [Deps -> Nat]
      /\ call["redis"] = s /\ timer["redis"] = 0
      /\ call["postgres"] = q.call["postgres"] /\ timer["postgres"] = q.timer["postgres"]
  BY <1>3, <1>5, <1>6 DEF CallStates, Deps
<1>8. PICK n : n = [q EXCEPT !.call = call, !.timer = timer, !.exchanges = @ + 1]
  OBVIOUS
<1>9. req' = [req EXCEPT ![c] = n]
  BY <1>1, <1>2, <1>5, <1>6, <1>8
<1>10. n \in Request
  BY <1>3, <1>7, <1>8 DEF Request
<1>11. /\ n.kind = q.kind /\ n.age = q.age /\ n.late = q.late /\ n.troubled = q.troubled
       /\ n.tx = q.tx /\ n.ready = q.ready /\ n.timer = timer /\ n.call = call
  BY <1>3, <1>8 DEF Request
<1>12. q.kind = "handler" => HandlerCalls(n) /\ HandlerInTime(n)
  BY <1>2, <1>3, <1>7, <1>11 DEF Sound, HandlerCalls, HandlerInTime
<1>13. q.kind = "probe" => ProbeCalls(n) /\ ProbeInTime(n)
  BY <1>2, <1>3, <1>7, <1>11 DEF Sound, ProbeCalls, ProbeInTime, Deps
<1>14. Sound(n)
  BY <1>4, <1>11, <1>12, <1>13 DEF Sound
<1> QED
  BY <1>1, <1>2, <1>9, <1>10, <1>11, <1>14, OneRequest

\* A check of a probe has a result: an error only of a dependency that was not up.
LEMMA ProbeCheckInv ==
    ASSUME Inv, NEW c \in Conns, NEW d \in Deps, Succeeds(c, d) \/ Fails(c, d),
           req[c].kind = "probe"
    PROVE  Inv' /\ Timeless
<1>1. PICK q : q = req[c]
  OBVIOUS
<1>2. /\ q \in Request /\ Sound(q) /\ Situated(q) /\ q.call \in [Deps -> CallStates]
      /\ q.timer \in [Deps -> Nat] /\ q.age \in Nat /\ q.ready \in BOOLEAN
      /\ q.kind = "probe" /\ ProbeCalls(q) /\ ProbeInTime(q)
  <2>1. /\ q \in Request /\ Sound(q) /\ Situated(q) /\ q.call \in [Deps -> CallStates]
        /\ q.timer \in [Deps -> Nat] /\ q.age \in Nat /\ q.ready \in BOOLEAN /\ q.kind = "probe"
    BY <1>1, InService
  <2> QED
    BY <2>1 DEF Sound
<1>3. PICK s \in {"ok", "error"} :
          /\ Running /\ q.call[d] \in {"acquire", "busy"} /\ UNCHANGED <<process, dep>>
          /\ req' = [req EXCEPT ![c] = [Returned(q, d, s) EXCEPT !.ready = @ /\ s = "ok"]]
          /\ s = "error" => GivesUp(c, d)
  <2>1. CASE Succeeds(c, d)
    <3>1. /\ Running /\ q.call[d] = "busy" /\ UNCHANGED <<process, dep>>
          /\ req' = [req EXCEPT ![c] = [Returned(q, d, "ok") EXCEPT !.ready = @ /\ "ok" = "ok"]]
      BY <1>1, <1>2, <2>1 DEF Succeeds, Combined
    <3> QED
      BY <3>1
  <2>2. CASE Fails(c, d)
    <3>1. /\ Running /\ q.call[d] \in {"acquire", "busy"} /\ UNCHANGED <<process, dep>>
          /\ req' = [req EXCEPT ![c] =
                        [Returned(q, d, "error") EXCEPT !.ready = @ /\ "error" = "ok"]]
          /\ GivesUp(c, d)
      BY <1>1, <1>2, <2>2 DEF Fails, Combined
    <3> QED
      BY <3>1
  <2> QED
    BY <2>1, <2>2
<1>4. PICK m : Returned(q, d, s) = m
  OBVIOUS
<1>5. /\ m \in Request
      /\ m.kind = q.kind /\ m.age = q.age /\ m.late = q.late /\ m.troubled = q.troubled
      /\ m.tx = q.tx /\ m.ready = q.ready
      /\ m.call[d] = s /\ m.timer[d] = 0
      /\ \A e \in Deps \ {d} : m.call[e] = q.call[e] /\ m.timer[e] = q.timer[e]
  <2>1. q \in Request /\ s \in CallStates
    BY <1>2 DEF CallStates
  <2> QED
    BY <1>4, <2>1, ReturnedCall
<1>6. PICK r : r = (m.ready /\ s = "ok")
  OBVIOUS
<1>7. PICK n : n = [m EXCEPT !.ready = r]
  OBVIOUS
<1>8. req' = [req EXCEPT ![c] = n]
  BY <1>3, <1>4, <1>6, <1>7
<1>9. /\ n \in Request
      /\ n.kind = q.kind /\ n.age = q.age /\ n.late = q.late /\ n.troubled = q.troubled
      /\ n.tx = q.tx /\ n.ready = r /\ n.call = m.call /\ n.timer = m.timer
  <2>1. r \in BOOLEAN
    BY <1>6
  <2> QED
    BY <1>5, <1>7, <2>1 DEF Request
<1>10. s = "error" => d \in q.troubled
  <2> SUFFICES ASSUME s = "error" PROVE d \in q.troubled
    OBVIOUS
  <2>1. GivesUp(c, d)
    BY <1>3
  <2>2. CASE dep[d] # "up"
    BY <1>2, <2>2 DEF Situated, NotUp
  <2>3. CASE ContextDead(c)
    <3>1. q.age > 0
      BY <1>1, <1>2, <2>3, Durations DEF ContextDead, Deadline
    <3> QED
      BY <1>2, <1>3, <3>1 DEF ProbeCalls
  <2>4. CASE d = "redis" /\ q.timer[d] >= ReadTimeout
    <3>1. q.age > 0
      BY <1>2, <2>4, Durations DEF ProbeInTime
    <3> QED
      BY <1>2, <1>3, <3>1 DEF ProbeCalls
  <2> QED
    BY <1>1, <2>1, <2>2, <2>3, <2>4 DEF GivesUp
<1>11. ProbeCalls(n)
  <2>1. ~n.tx
    BY <1>2, <1>9 DEF ProbeCalls
  <2>2. r <=> q.ready /\ s # "error"
    BY <1>3, <1>5, <1>6
  <2>3. /\ n.call["postgres"] \in {"acquire", "busy", "ok", "error"}
        /\ n.call["redis"] \in {"acquire", "busy", "ok", "error"}
    BY <1>2, <1>3, <1>5, <1>9 DEF ProbeCalls, Deps
  <2>4. n.ready <=> \A e \in Deps : n.call[e] # "error"
    <3>1. q.ready <=> \A e \in Deps : q.call[e] # "error"
      BY <1>2 DEF ProbeCalls
    <3>2. q.call[d] # "error"
      BY <1>3
    <3> QED
      BY <1>5, <1>9, <2>2, <3>1, <3>2
  <2>5. \A e \in Deps : n.call[e] = "error" => e \in n.troubled
    BY <1>2, <1>5, <1>9, <1>10 DEF ProbeCalls
  <2>6. \A e \in Deps : n.call[e] \in {"acquire", "busy"} /\ n.age > 0 => e \in n.troubled
    BY <1>2, <1>3, <1>5, <1>9 DEF ProbeCalls
  <2> QED
    BY <2>1, <2>3, <2>4, <2>5, <2>6 DEF ProbeCalls
<1>12. ProbeInTime(n)
  <2>1. n.timer["redis"] <= q.age
    BY <1>2, <1>5, <1>9 DEF ProbeInTime, Deps
  <2>2. n.call["postgres"] = "busy" => q.call["postgres"] = "busy"
    BY <1>3, <1>5, <1>9 DEF Deps
  <2> QED
    BY <1>2, <1>9, <2>1, <2>2 DEF ProbeInTime
<1>13. Sound(n)
  BY <1>2, <1>9, <1>11, <1>12 DEF Sound
<1> QED
  BY <1>1, <1>3, <1>8, <1>9, <1>13, OneRequest

\* The function given to WithinTransaction has failed: the rollback starts within the
\* deadline of the request.
LEMMA AbortInv == ASSUME Inv, NEW c \in Conns, Abort(c) PROVE Inv' /\ Timeless
<1>1. PICK q : q = req[c]
  OBVIOUS
<1>2. /\ Running /\ q.kind = "handler" /\ \A d \in Deps : q.call[d] = "idle" /\ q.tx
      /\ req' = [req EXCEPT ![c].call["postgres"] = "rollback"]
      /\ UNCHANGED <<process, dep>>
  BY <1>1 DEF Abort, Computing, Serving, Deps
<1>3. /\ q \in Request /\ Sound(q) /\ q.call \in [Deps -> CallStates] /\ q.age \in Nat
      /\ HandlerCalls(q) /\ HandlerInTime(q)
  <2>1. q \in Request /\ Sound(q) /\ q.call \in [Deps -> CallStates] /\ q.age \in Nat
    BY <1>1, InService
  <2> QED
    BY <1>2, <2>1 DEF Sound
<1>4. PICK n : n = [q EXCEPT !.call = [q.call EXCEPT !["postgres"] = "rollback"]]
  OBVIOUS
<1>5. req' = [req EXCEPT ![c] = n]
  BY <1>1, <1>2, <1>4
<1>6. /\ n \in Request
      /\ n.kind = q.kind /\ n.age = q.age /\ n.late = q.late /\ n.troubled = q.troubled
      /\ n.tx = q.tx /\ n.timer = q.timer
      /\ n.call = [q.call EXCEPT !["postgres"] = "rollback"]
  BY <1>3, <1>4 DEF Request, CallStates
<1>7. n.call["postgres"] = "rollback" /\ n.call["redis"] = "idle" /\ n.tx
  BY <1>2, <1>3, <1>6 DEF Deps
<1>8. HandlerCalls(n)
  BY <1>7 DEF HandlerCalls
<1>9. HandlerInTime(n)
  BY <1>3, <1>6, <1>7 DEF HandlerInTime
<1>10. Sound(n)
  BY <1>2, <1>6, <1>8, <1>9 DEF Sound
<1> QED
  BY <1>1, <1>2, <1>5, <1>6, <1>10, OneRequest

\* The rollback ends, and the connection is free.
LEMMA EndRollbackInv == ASSUME Inv, NEW c \in Conns, EndRollback(c) PROVE Inv' /\ Timeless
<1>1. PICK q : q = req[c]
  OBVIOUS
<1>2. /\ Running /\ q.call["postgres"] = "rollback" /\ UNCHANGED <<process, dep>>
      /\ req' = [req EXCEPT ![c].call["postgres"] = "idle", ![c].timer["postgres"] = 0,
                            ![c].tx = FALSE]
  BY <1>1 DEF EndRollback
<1>3. /\ q \in Request /\ Sound(q) /\ q.call \in [Deps -> CallStates] /\ q.age \in Nat
      /\ q.timer \in [Deps -> Nat]
      /\ ~Served(c) => \A d \in Deps : q.call[d] = "idle"
  BY <1>1, InService
<1>4. q.kind = "handler" /\ HandlerCalls(q)
  BY <1>1, <1>2, <1>3 DEF Sound, ProbeCalls, Deps, Served
<1>5. PICK call : call = [q.call EXCEPT !["postgres"] = "idle"]
  OBVIOUS
<1>6. PICK timer : timer = [q.timer EXCEPT !["postgres"] = 0]
  OBVIOUS
<1>7. /\ call \in [Deps -> CallStates] /\ timer \in [Deps -> Nat]
      /\ call["postgres"] = "idle" /\ timer["postgres"] = 0 /\ call["redis"] = q.call["redis"]
  BY <1>3, <1>5, <1>6 DEF CallStates, Deps
<1>8. PICK n : n = [q EXCEPT !.call = call, !.timer = timer, !.tx = FALSE]
  OBVIOUS
<1>9. req' = [req EXCEPT ![c] = n]
  BY <1>1, <1>2, <1>5, <1>6, <1>8
<1>10. n \in Request
  BY <1>3, <1>7, <1>8 DEF Request
<1>11. /\ n.kind = q.kind /\ n.age = q.age /\ n.late = q.late /\ n.troubled = q.troubled
       /\ n.tx = FALSE /\ n.call = call /\ n.timer = timer
  BY <1>3, <1>8 DEF Request
<1>12. HandlerCalls(n)
  BY <1>4, <1>7, <1>11 DEF HandlerCalls
<1>13. HandlerInTime(n)
  BY <1>7, <1>11, Durations DEF HandlerInTime
<1>14. Sound(n)
  BY <1>4, <1>11, <1>12, <1>13 DEF Sound
<1> QED
  BY <1>1, <1>2, <1>9, <1>10, <1>11, <1>14, OneRequest

\* Every step of one request.
LEMMA WorkInv == ASSUME Inv, NEW c \in Conns, Work(c) PROVE Inv' /\ Timeless
<1>1. CASE UsePostgres(c) \/ UseRedis(c) \/ Again(c) \/ Abort(c) \/ EndRollback(c)
  BY <1>1, StartInv, AgainInv, AbortInv, EndRollbackInv
<1>2. CASE \E d \in Deps : Acquire(c, d)
  BY <1>2, AcquireInv
<1>3. CASE \E d \in Deps : Succeeds(c, d) \/ Fails(c, d)
  <2>1. PICK d \in Deps : Succeeds(c, d) \/ Fails(c, d)
    BY <1>3
  <2>2. req[c].kind \in {"handler", "probe"}
    BY <2>1 DEF Succeeds, Fails
  <2> QED
    BY <2>1, <2>2, HandlerSucceedsInv, HandlerFailsInv, ProbeCheckInv
<1>4. CASE EndHandler(c) \/ EndProbe(c) \/ CloseNew(c)
  BY <1>4, AnswerInv DEF EndHandler, EndProbe, CloseNew, Computing, Checked, Serving
<1> QED
  BY <1>1, <1>2, <1>3, <1>4 DEF Work

-----------------------------------------------------------------------------
(* So do the dependencies and time. *)

\* A dependency that changes is noted by every probe.
LEMMA DependencyChangesInv ==
    ASSUME Inv, NEW d \in Deps, NEW state \in {"up", "hung", "down"}, DependencyChanges(d, state)
    PROVE  Inv' /\ Timeless
<1>1. /\ Running /\ main' = main /\ listener' = listener /\ signal' = signal
      /\ elapsed' = elapsed /\ dep' = [dep EXCEPT ![d] = state]
      /\ req' = [c \in Conns |->
             IF req[c].kind = "probe" /\ state # "up"
             THEN [req[c] EXCEPT !.troubled = @ \cup {d}] ELSE req[c]]
  BY DEF DependencyChanges, process
<1>2. dep \in [Deps -> {"up", "hung", "down"}] /\ dep' \in [Deps -> {"up", "hung", "down"}]
  BY <1>1 DEF Inv, TypeOK
<1>3. NotUp' \subseteq NotUp \cup (IF state # "up" THEN {d} ELSE {})
  BY <1>1, <1>2 DEF NotUp
<1>4. ASSUME NEW c \in Conns
      PROVE  /\ req'[c] \in Request /\ Sound(req'[c]) /\ Situated(req[c])'
             /\ req'[c].age <= req[c].age
  <2>1. PICK q : q = req[c]
    OBVIOUS
  <2>2. PICK n : n = req'[c]
    OBVIOUS
  <2>3. q \in Request /\ Sound(q) /\ Situated(q) /\ q.troubled \subseteq Deps /\ q.age \in Nat
    BY <2>1, InService
  <2>4. CASE q.kind = "probe" /\ state # "up"
    <3>1. n = [q EXCEPT !.troubled = q.troubled \cup {d}]
      BY <1>1, <2>1, <2>2, <2>4
    <3>2. /\ n.kind = q.kind /\ n.age = q.age /\ n.late = q.late /\ n.tx = q.tx
          /\ n.ready = q.ready
          /\ n.call = q.call /\ n.timer = q.timer /\ n.troubled = q.troubled \cup {d}
      BY <2>3, <3>1 DEF Request
    <3>3. n \in Request
      BY <2>3, <3>1, <3>2 DEF Request
    <3>4. ProbeCalls(n) /\ ProbeInTime(n)
      BY <2>3, <2>4, <3>2 DEF Sound, ProbeCalls, ProbeInTime
    <3>5. Sound(n)
      BY <2>4, <3>2, <3>4 DEF Sound
    <3>6. NotUp' \subseteq n.troubled
      BY <1>3, <2>3, <2>4, <3>2 DEF Situated
    <3> QED
      BY <1>1, <2>1, <2>2, <2>3, <2>4, <3>2, <3>3, <3>5, <3>6 DEF Situated
  <2>5. CASE ~(q.kind = "probe" /\ state # "up")
    <3>1. req'[c] = req[c]
      BY <1>1, <2>1, <2>5
    <3> QED
      BY <1>1, <1>3, <2>1, <2>3, <2>5, <3>1 DEF Situated
  <2> QED
    BY <2>4, <2>5
<1>5. TypeOK'
  <2>1. \A c \in Conns : req'[c] \in Request
    BY <1>4
  <2>2. req' = [c \in Conns |-> req'[c]]
    BY <1>1
  <2>3. req' \in [Conns -> Request]
    BY <2>1, <2>2
  <2> QED
    BY <1>1, <1>2, <2>3 DEF Inv, TypeOK
<1>6. ProcessInv'
  BY <1>1 DEF Inv, ProcessInv, Running
<1> QED
  BY <1>4, <1>5, <1>6 DEF Inv, Timeless

\* The guard of Tick: every request in service waits.
Stalled ==
    \A c \in Conns : Served(c) => Pending(c) # {} /\ \A d \in Pending(c) : Waits(c, d)

\* What a request waits for hangs: a request that waits for a connection of the pool
\* waits for its holders, and they wait for PostgreSQL.
LEMMA WaitsForWhatHangs ==
    ASSUME Inv, Stalled, NEW c \in Conns, NEW d \in Pending(c)
    PROVE  d \in Deps /\ dep[d] = "hung"
<1>1. /\ d \in Deps /\ req[c].call[d] \in {"acquire", "busy", "rollback"}
      /\ ~Served(c) => \A e \in Deps : req[c].call[e] = "idle"
      /\ Sound(req[c])
  BY InService DEF Pending
<1>2. Served(c)
  BY <1>1
<1>3. Waits(c, d)
  BY <1>2 DEF Stalled
<1>4. CASE req[c].call[d] = "busy"
  BY <1>1, <1>3, <1>4 DEF Waits
<1>5. CASE req[c].call[d] = "rollback"
  <2>1. d = "postgres"
    BY <1>1, <1>2, <1>5 DEF Sound, HandlerCalls, ProbeCalls, Deps, Served
  <2> QED
    BY <1>1, <1>3, <1>5, <2>1 DEF Waits, RollbackOver
<1>6. CASE req[c].call[d] = "acquire" /\ d # "postgres"
  BY <1>1, <1>3, <1>6 DEF Waits
<1>7. CASE req[c].call[d] = "acquire" /\ d = "postgres"
  <2>1. Cardinality(Held) >= PoolSize
    BY <1>3, <1>7 DEF Waits
  <2>2. Held # {}
    BY <2>1, FS_EmptySet, PoolAssumption
  <2>3. PICK h : h \in Held
    BY <2>2
  <2>4. h \in Conns /\ Served(h)
    BY <2>3, HoldersAreInTime
  <2>5. Pending(h) # {}
    BY <2>4 DEF Stalled
  <2>6. "postgres" \in Pending(h) /\ req[h].call["postgres"] \in {"busy", "rollback"}
    BY <2>3, <2>5, HoldersWaitForPostgres
  <2>7. Waits(h, "postgres")
    BY <2>4, <2>6 DEF Stalled
  <2> QED
    BY <1>7, <1>1, <2>6, <2>7 DEF Waits, RollbackOver
<1> QED
  BY <1>1, <1>4, <1>5, <1>6, <1>7

\* Time passes for one connection that is not idle.
LEMMA OlderIsSound ==
    ASSUME Inv, Stalled, NEW c \in Conns, NEW n, n = Older(req[c]), req[c].kind # "none"
    PROVE  /\ n \in Request /\ Sound(n)
           /\ n.kind = req[c].kind /\ n.age = req[c].age + 1 /\ n.late = req[c].late
           /\ n.troubled = req[c].troubled
<1>1. PICK q : q = req[c]
  OBVIOUS
<1>2. /\ q \in Request /\ Sound(q) /\ Situated(q) /\ q.call \in [Deps -> CallStates]
      /\ q.timer \in [Deps -> Nat] /\ q.age \in Nat /\ q.kind \in {"new", "handler", "probe"}
  BY <1>1, InService
<1>3. PICK timer : timer = [d \in Deps |-> IF <<d, q.call[d]>> \in Timed
                                           THEN q.timer[d] + 1 ELSE q.timer[d]]
  OBVIOUS
<1>4. n = [q EXCEPT !.age = @ + 1, !.timer = timer]
  BY <1>1, <1>2, <1>3 DEF Older, Request
<1>5. /\ n.kind = q.kind /\ n.age = q.age + 1 /\ n.late = q.late /\ n.tx = q.tx
      /\ n.ready = q.ready /\ n.troubled = q.troubled /\ n.call = q.call /\ n.timer = timer
  BY <1>2, <1>4 DEF Request
<1>6. n \in Request
  <2>1. timer \in [Deps -> Nat] /\ q.age + 1 \in Nat
    BY <1>2, <1>3
  <2> QED
    BY <1>2, <1>4, <2>1 DEF Request
<1>7. /\ timer["redis"] \in {q.timer["redis"], q.timer["redis"] + 1}
      /\ timer["postgres"] = IF q.call["postgres"] = "rollback" THEN q.timer["postgres"] + 1
                             ELSE q.timer["postgres"]
      /\ q.timer["redis"] \in Nat /\ q.timer["postgres"] \in Nat
  BY <1>2, <1>3 DEF Timed, Deps
<1>8. Served(c) => \E d \in Deps : d \in Pending(c)
  BY DEF Stalled, Pending
<1>9. \A d \in Pending(c) : d \in Deps /\ Waits(c, d) /\ d \in NotUp
  <2> SUFFICES ASSUME NEW d \in Pending(c) PROVE d \in Deps /\ Waits(c, d) /\ d \in NotUp
    OBVIOUS
  <2>1. d \in Deps /\ dep[d] = "hung"
    BY WaitsForWhatHangs
  <2>2. req[c].call[d] # "idle" /\ (~Served(c) => \A e \in Deps : req[c].call[e] = "idle")
    BY InService DEF Pending
  <2>3. Served(c)
    BY <2>1, <2>2
  <2> QED
    BY <2>1, <2>3 DEF Stalled, NotUp
<1>10. \A d \in Deps : q.call[d] \in {"acquire", "busy", "rollback"} => d \in Pending(c)
  BY <1>1 DEF Pending
<1>11. CASE q.kind = "new"
  BY <1>1, <1>2, <1>5, <1>6, <1>11 DEF Sound
<1>12. CASE q.kind = "handler"
  <2>1. HandlerCalls(q) /\ HandlerInTime(q)
    BY <1>2, <1>12 DEF Sound
  <2>2. HandlerCalls(n)
    BY <1>5, <1>7, <2>1 DEF HandlerCalls
  <2>3. CASE q.call["postgres"] = "rollback"
    <3>1. q.timer["postgres"] < RollbackTimeout
      <4>1. Waits(c, "postgres") /\ req[c].call["postgres"] = "rollback"
        BY <1>1, <1>9, <1>10, <2>3 DEF Deps
      <4>2. ~RollbackOver(c)
        BY <4>1 DEF Waits
      <4> QED
        BY <1>1, <1>7, <4>2, Durations DEF RollbackOver
    <3>2. HandlerInTime(n)
      BY <1>2, <1>5, <1>7, <2>1, <2>3, <3>1, Durations DEF HandlerInTime
    <3> QED
      BY <1>1, <1>5, <1>6, <1>12, <2>2, <3>2 DEF Sound
  <2>4. CASE q.call["postgres"] \in {"acquire", "busy"}
    <3>1. ~ContextDead(c)
      BY <1>1, <1>9, <1>10, <2>4 DEF Waits, GivesUp, Deps
    <3>2. q.age < RequestTimeout
      BY <1>1, <1>2, <1>12, <3>1, Durations DEF ContextDead, Deadline
    <3>3. HandlerInTime(n)
      BY <1>2, <1>5, <1>7, <2>1, <2>4, <3>2, Durations DEF HandlerInTime
    <3> QED
      BY <1>1, <1>5, <1>6, <1>12, <2>2, <3>3 DEF Sound
  <2>5. CASE q.call["postgres"] = "idle"
    <3>1. q.call["redis"] # "idle"
      BY <1>1, <1>8, <1>12, <2>5 DEF Pending, Deps, Served
    <3>2. ~q.tx
      BY <2>1, <3>1 DEF HandlerCalls
    <3>3. HandlerInTime(n)
      BY <1>5, <1>7, <2>1, <2>5, <3>2 DEF HandlerInTime
    <3> QED
      BY <1>1, <1>5, <1>6, <1>12, <2>2, <3>3 DEF Sound
  <2> QED
    BY <2>1, <2>3, <2>4, <2>5 DEF HandlerCalls
<1>13. CASE q.kind = "probe"
  <2>1. ProbeCalls(q) /\ ProbeInTime(q)
    BY <1>2, <1>13 DEF Sound
  <2>2. \A d \in Deps : q.call[d] \in {"acquire", "busy"} => d \in q.troubled
    BY <1>2, <1>9, <1>10, <1>13 DEF Situated
  <2>3. ProbeCalls(n)
    BY <1>5, <2>1, <2>2 DEF ProbeCalls
  <2>4. q.call["postgres"] = "busy" => q.age < ProbeTimeout
    <3> SUFFICES ASSUME q.call["postgres"] = "busy" PROVE q.age < ProbeTimeout
      OBVIOUS
    <3>1. ~ContextDead(c)
      BY <1>1, <1>9, <1>10 DEF Waits, GivesUp, Deps
    <3> QED
      BY <1>1, <1>2, <1>13, <3>1, Durations DEF ContextDead, Deadline
  <2>5. ProbeInTime(n)
    BY <1>2, <1>5, <1>7, <2>1, <2>4, Durations DEF ProbeInTime
  <2> QED
    BY <1>1, <1>5, <1>6, <1>13, <2>3, <2>5 DEF Sound
<1> QED
  BY <1>2, <1>11, <1>12, <1>13

\* Time passes for all of them, and for Shutdown.
LEMMA TickInv == Inv /\ Tick => Inv'
<1> SUFFICES ASSUME Inv, Tick PROVE Inv'
  OBVIOUS
<1>1. /\ Running /\ Stalled /\ main' = main /\ listener' = listener /\ signal' = signal
      /\ dep' = dep /\ elapsed' = (IF main = "drain" THEN elapsed + 1 ELSE elapsed)
      /\ req' = [c \in Conns |-> IF req[c].kind = "none" THEN Fresh ELSE Older(req[c])]
  BY DEF Tick, Stalled
<1>2. NotUp' = NotUp /\ elapsed \in Nat
  BY <1>1 DEF NotUp, Inv, TypeOK
<1>3. ASSUME NEW c \in Conns
      PROVE  req'[c] \in Request /\ Sound(req'[c]) /\ Situated(req[c])'
  <2>1. PICK n : n = req'[c]
    OBVIOUS
  <2>2. CASE req[c].kind = "none"
    <3>1. n = Fresh
      BY <1>1, <2>1, <2>2
    <3> QED
      BY <2>1, <3>1, FreshIsSound DEF Situated
  <2>3. CASE req[c].kind # "none"
    <3>1. n = Older(req[c])
      BY <1>1, <2>1, <2>3
    <3>2. /\ n \in Request /\ Sound(n)
          /\ n.kind = req[c].kind /\ n.age = req[c].age + 1 /\ n.late = req[c].late
          /\ n.troubled = req[c].troubled
      BY <1>1, <2>3, <3>1, OlderIsSound
    <3>3. Situated(req[c]) /\ req[c].age \in Nat
      BY InService
    <3>4. Situated(req[c])'
      BY <1>1, <1>2, <2>1, <2>3, <3>2, <3>3 DEF Situated
    <3> QED
      BY <2>1, <3>2, <3>4
  <2> QED
    BY <2>2, <2>3
<1>4. TypeOK'
  <2>1. \A c \in Conns : req'[c] \in Request
    BY <1>3
  <2>2. req' = [c \in Conns |-> req'[c]]
    BY <1>1
  <2>3. req' \in [Conns -> Request]
    BY <2>1, <2>2
  <2> QED
    BY <1>1, <1>2, <2>3 DEF Inv, TypeOK
<1>5. ProcessInv'
  BY <1>1 DEF Inv, ProcessInv, Running
<1> QED
  BY <1>3, <1>4, <1>5 DEF Inv

-----------------------------------------------------------------------------
(* The theorems. *)

\* Every step preserves the invariant, and time passes in Tick alone.
LEMMA StepInv == Inv /\ [Next]_vars => Inv' /\ (Timeless \/ Tick)
<1> SUFFICES ASSUME Inv, [Next]_vars PROVE Inv' /\ (Timeless \/ Tick)
  OBVIOUS
<1>1. CASE Startup \/ Signal \/ Shutdown \/ Exit \/ ListenerFails
  BY <1>1, ProcessStepInv
<1>2. CASE \E c \in Conns : Connect(c) \/ \E k \in {"handler", "probe"} : ReadRequest(c, k)
  BY <1>2, ConnectInv, ReadRequestInv
<1>3. CASE \E c \in Conns : Work(c)
  BY <1>3, WorkInv
<1>4. CASE \E d \in Deps, state \in {"up", "hung", "down"} : DependencyChanges(d, state)
  BY <1>4, DependencyChangesInv
<1>5. CASE Tick
  BY <1>5, TickInv
<1>6. CASE UNCHANGED vars
  <2>1. UNCHANGED <<main, listener, signal, elapsed, dep, req>>
    BY <1>6 DEF vars, process
  <2>2. Held' = Held
    BY <2>1 DEF Held
  <2>3. TypeOK' /\ ProcessInv'
    BY <2>1, <2>2 DEF Inv, TypeOK, ProcessInv
  <2> QED
    BY <2>1, <2>3, MainInv
<1> QED
  BY <1>1, <1>2, <1>3, <1>4, <1>5, <1>6 DEF Next, Ended

\* The inductive invariant holds in every state the process can be in.
THEOREM ProcessInvariance == Spec => []Inv
BY InitInv, StepInv, PTL DEF Spec

\* Shutdown outlasts every transaction of a request that was read before it began,
\* whatever hangs and however many share the pool.
THEOREM DrainOutlastsTransactions == Spec => []DrainSparesTransactions
<1>1. Inv => DrainSparesTransactions
  BY DEF Inv, ProcessInv, DrainSparesTransactions
<1> QED
  BY <1>1, ProcessInvariance, PTL

\* A connection of the pool is back by the deadline of the request that took it, or one
\* rollback later, though the request itself may stay longer with Redis.
THEOREM NoConnectionIsKept == Spec => []ConnectionsComeBack
<1>1. Inv => ConnectionsComeBack
  BY HoldersAreInTime DEF ConnectionsComeBack
<1> QED
  BY <1>1, ProcessInvariance, PTL

\* The answer of /ready is the conjunction of its checks, and an error of a check is
\* the fault of its dependency: never of the handlers that hold the pool.
THEOREM ProbesAreTruthful == Spec => []ProbesTellTheTruth
<1>1. Inv => ProbesTellTheTruth
  <2> SUFFICES ASSUME Inv, NEW c \in Conns, req[c].kind = "probe"
      PROVE /\ \A d \in Deps : req[c].call[d] = "error" => d \in req[c].troubled
            /\ Checked(c) => (req[c].ready <=> \A d \in Deps : req[c].call[d] = "ok")
    BY DEF ProbesTellTheTruth
  <2>1. ProbeCalls(req[c])
    BY DEF Inv, Sound
  <2>2. Checked(c) => (req[c].ready <=> \A d \in Deps : req[c].call[d] = "ok")
    BY <2>1 DEF ProbeCalls, Checked
  <2> QED
    BY <2>1, <2>2 DEF ProbeCalls
<1> QED
  BY <1>1, ProcessInvariance, PTL

\* No circle of requests waits for itself: time passes for a request only while
\* PostgreSQL or Redis keeps somebody waiting.
THEOREM NobodyWaitsForThePoolAlone == Spec => WaitsOnlyForDependencies
<1> DEFINE A == \A c \in Conns :
                    Served(c) /\ req'[c].age > req[c].age => \E d \in Deps : dep[d] = "hung"
<1>1. Inv /\ [Next]_vars => A
  <2> SUFFICES ASSUME Inv, [Next]_vars, NEW c \in Conns, Served(c), req'[c].age > req[c].age
               PROVE  \E d \in Deps : dep[d] = "hung"
    OBVIOUS
  <2>1. Inv' /\ (Timeless \/ Tick)
    BY StepInv
  <2>2. req[c].age \in Nat /\ req'[c].age \in Nat
    <3>1. req \in [Conns -> Request] /\ req' \in [Conns -> Request]
      BY <2>1 DEF Inv, TypeOK
    <3>2. PICK q : q = req[c]
      OBVIOUS
    <3>3. PICK n : n = req'[c]
      OBVIOUS
    <3>4. q \in Request /\ n \in Request
      BY <3>1, <3>2, <3>3
    <3>5. q.age \in Nat /\ n.age \in Nat
      BY <3>4 DEF Request
    <3> QED
      BY <3>2, <3>3, <3>5
  <2>3. Tick
    BY <2>1, <2>2 DEF Timeless
  <2>4. Stalled
    BY <2>3 DEF Tick, Stalled
  <2>5. PICK d : d \in Pending(c)
    BY <2>4 DEF Stalled
  <2> QED
    BY <2>4, <2>5, WaitsForWhatHangs
<1>2. Inv /\ [Next]_vars => [A]_vars
  BY <1>1
<1> QED
  BY <1>2, ProcessInvariance, PTL DEF Spec, WaitsOnlyForDependencies
=============================================================================
