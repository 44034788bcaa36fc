------------------------------- MODULE Server -------------------------------
(***************************************************************************)
(* The process around the handlers: main of cmd/server/http, the HTTP      *)
(* server, the deadlines every request runs under, the pool of PostgreSQL  *)
(* connections they share, and the probe GET /ready.                       *)
(*                                                                         *)
(* A handler is what all of them are to this module: some calls to         *)
(* PostgreSQL, alone or in a transaction, and to Redis, and an answer.     *)
(* A call to Redis is a number of exchanges: the greeting of a new         *)
(* connection, the command, the command again.  Computing takes no time;   *)
(* time passes while every request waits.                                  *)
(***************************************************************************)
EXTENDS Integers, FiniteSets

CONSTANTS Conns,             \* client connections, each with one request at a time
          Probers,           \* those of them that ask for GET /ready, too
          PoolSize,          \* DATABASE_MAX_CONNECTIONS
          HeaderTimeout,     \* Server.ReadTimeout: how long a client may take to send its request
          RequestTimeout,    \* middleware.Timeout
          ProbeTimeout,      \* health.Handler.timeout
          ReadTimeout,       \* REDIS_READ_TIMEOUT
          RollbackTimeout,   \* of WithinTransaction's rollback
          Grace,             \* how long main lets Shutdown drain
          Faults,            \* what may go wrong
          MaxCalls,          \* bound: the calls of one handler
          MaxExchanges       \* bound: the exchanges of one call to Redis, beyond the first

\* Headers and the request 5 s each, the probe 2 s, Redis 3 s, the rollback 1 s,
\* Shutdown 10 s.
ASSUME DurationsAssumption ==
    /\ {HeaderTimeout, RequestTimeout, ProbeTimeout, ReadTimeout, RollbackTimeout, Grace}
           \subseteq Nat \ {0}
    /\ ProbeTimeout < Grace
    /\ RequestTimeout + RollbackTimeout < Grace

ASSUME ProbersAssumption == Probers \subseteq Conns

ASSUME PoolAssumption == PoolSize \in Nat \ {0} /\ {MaxCalls, MaxExchanges} \subseteq Nat

ASSUME FaultsAssumption == Faults \subseteq {"startup", "listener", "postgres", "redis"}

Deps == {"postgres", "redis"}

VARIABLES
    main,       \* where main is
    listener,   \* the goroutine of server.Start
    signal,     \* is a signal in the channel?
    elapsed,    \* how long Shutdown has been draining
    dep,        \* is a dependency up, hung, or down (it refuses)?
    req         \* what each connection is being served

process == <<main, listener, signal, elapsed>>
vars == <<process, dep, req>>

Starting == {"load", "trace", "postgres", "redis", "listen", "notify"}
Running == main \notin {"exited", "dead"}

\* A connection is idle or absent ("none"), new (nothing read from it), or it is being
\* served.  age counts from the moment it was accepted, then from the moment its request
\* was read; timer from the start of an exchange or of a rollback.  ready is what the
\* results of a probe say so far.  History: troubled, the dependencies that were not up
\* at some instant since the probe was read; late, whether a request was read after
\* Shutdown began.
Fresh ==
    [kind |-> "none", age |-> 0, late |-> FALSE, troubled |-> {},
     tx |-> FALSE, calls |-> 0, exchanges |-> 0, ready |-> TRUE,
     call |-> [d \in Deps |-> "idle"], timer |-> [d \in Deps |-> 0]]

Init ==
    /\ main = "load" /\ listener = "none" /\ signal = FALSE /\ elapsed = 0
    /\ dep = [d \in Deps |-> "up"]
    /\ req = [c \in Conns |-> Fresh]

-----------------------------------------------------------------------------
(* main *)

\* A panic, log.Fatal or a signal: whatever was going on is gone.
Die ==
    /\ main' = "dead" /\ listener' = "closed"
    /\ req' = [c \in Conns |-> Fresh]
    /\ UNCHANGED <<signal, elapsed, dep>>

Follow(from, to) == main = from /\ main' = to

Load == Follow("load", "trace") /\ UNCHANGED <<listener, signal, elapsed, dep, req>>

InitTracing == Follow("trace", "postgres") /\ UNCHANGED <<listener, signal, elapsed, dep, req>>

\* postgres.New, then redis.New: each ends with a ping.
ConnectPostgres ==
    /\ dep["postgres"] = "up" /\ Follow("postgres", "redis")
    /\ UNCHANGED <<listener, signal, elapsed, dep, req>>

ConnectRedis ==
    /\ dep["redis"] = "up" /\ Follow("redis", "listen")
    /\ UNCHANGED <<listener, signal, elapsed, dep, req>>

\* The context of the pings has no deadline, but a Redis
\* client has its own.
StartupFails ==
    /\ \/ main \in {"load", "trace"} /\ "startup" \in Faults
       \/ main \in Deps /\ dep[main] = "down"
       \/ main = "redis" /\ dep[main] = "hung"
    /\ Die

\* go server.Start()
StartServer ==
    /\ Follow("listen", "notify")
    /\ listener' = "starting"
    /\ UNCHANGED <<signal, elapsed, dep, req>>

Notify == Follow("notify", "wait") /\ UNCHANGED <<listener, signal, elapsed, dep, req>>

\* SIGINT or SIGTERM.  Before signal.Notify it kills the process; one after the
\* first stays in the channel or is dropped.
Signal ==
    \/ main \in Starting /\ Die
    \/ /\ main = "wait" /\ ~signal
       /\ signal' = TRUE
       /\ UNCHANGED <<main, listener, elapsed, dep, req>>

Idle == \A c \in Conns : req[c].kind = "none"

\* Variant: the listener stays open until the requests are done.
ShutdownOnceIdle ==
    /\ signal /\ Idle
    /\ Follow("wait", "drain")
    /\ listener' = "closed"
    /\ signal' = FALSE
    /\ UNCHANGED <<elapsed, dep, req>>

Shutdown ==
    /\ signal
    /\ Follow("wait", "drain")
    /\ listener' = "closed"
    /\ signal' = FALSE
    /\ UNCHANGED <<elapsed, dep, req>>

\* Shutdown returns: every connection is idle and closed, or its context is over.
Exit ==
    /\ Follow("drain", "exited")
    /\ Idle \/ elapsed >= Grace
    /\ UNCHANGED <<listener, signal, elapsed, dep, req>>

-----------------------------------------------------------------------------
(* server.Start *)

Bind ==
    /\ listener = "starting" /\ Running
    /\ listener' = "open"
    /\ UNCHANGED <<main, signal, elapsed, dep, req>>

\* ListenAndServe cannot bind, or Accept fails for good: log.Fatal.
ListenerFails ==
    /\ listener \in {"starting", "open"} /\ Running
    /\ "listener" \in Faults
    /\ Die

-----------------------------------------------------------------------------
(* Requests *)

NotUp == {d \in Deps : dep[d] # "up"}

Serving(c, k) == Running /\ req[c].kind = k

Served(c) == req[c].kind \in {"handler", "probe"}

\* A client connects, or uses its idle connection again.
Connect(c) ==
    /\ listener = "open" /\ Serving(c, "none")
    /\ req' = [req EXCEPT ![c] = [Fresh EXCEPT !.kind = "new"]]
    /\ UNCHANGED <<process, dep>>

\* Headers arrived: the deadline of the request begins.  Shutdown spares a connection
\* that is still new, and the request it brings is served.  A probe starts both of its
\* checks at once.
ReadRequest(c, k) ==
    /\ Serving(c, "new") /\ req[c].age < HeaderTimeout
    /\ k = "probe" => c \in Probers
    /\ req' = [req EXCEPT ![c] = [Fresh EXCEPT
          !.kind = k, !.late = (main = "drain"),
          !.troubled = IF k = "probe" THEN NotUp ELSE @,
          !.call = IF k = "probe" THEN [d \in Deps |-> "acquire"] ELSE @]]
    /\ UNCHANGED <<process, dep>>

\* The response is written and the connection is idle again.
Answer(c) ==
    /\ req' = [req EXCEPT ![c] = Fresh]
    /\ UNCHANGED <<process, dep>>

\* No request came before the read deadline, or its client went away.
CloseNew(c) == Serving(c, "new") /\ Answer(c)

Deadline(c) == IF req[c].kind = "probe" THEN ProbeTimeout ELSE RequestTimeout

ContextDead(c) == req[c].age >= Deadline(c)

\* The connections of the pool in use.
Held == {c \in Conns : req[c].tx \/ req[c].call["postgres"] \in {"busy", "rollback"}}

\* Between two calls.
Computing(c) == Serving(c, "handler") /\ \A d \in Deps : req[c].call[d] = "idle"

Start(c, d, state) ==
    /\ Computing(c) /\ req[c].calls < MaxCalls
    /\ req' = [req EXCEPT ![c].call[d] = state, ![c].calls = @ + 1]
    /\ UNCHANGED <<process, dep>>

\* Variant: a statement of a transaction takes a connection of its own.
AlwaysAcquires(c) == "acquire"

\* A statement of a transaction runs on the transaction's connection.
FirstState(c) == IF req[c].tx THEN "busy" ELSE "acquire"

UsePostgres(c) == Start(c, "postgres", FirstState(c))

\* Variant: in the middle of a transaction, too.
AnyTime(c) == TRUE

\* The services look at Redis before their transaction, and store in it after.
OutsideTransaction(c) == ~req[c].tx

UseRedis(c) == OutsideTransaction(c) /\ Start(c, "redis", "acquire")

\* A connection of either pool, at once or after a wait that the context ends.
Acquire(c, d) ==
    /\ Running /\ req[c].call[d] = "acquire"
    /\ ~ContextDead(c)
    /\ d = "postgres" => Cardinality(Held) < PoolSize
    /\ req' = [req EXCEPT ![c].call[d] = "busy"]
    /\ UNCHANGED <<process, dep>>

\* ready stays false once it is.
Combined(r, ok) == r /\ ok

\* The request q once its call to d has returned.
Returned(q, d, state) ==
    [q EXCEPT !.call[d] = state, !.timer[d] = 0,
              !.exchanges = IF d = "redis" THEN 0 ELSE @]

\* An answer: to BEGIN, to a statement, to COMMIT, or to a command.
Succeeds(c, d) ==
    /\ Running /\ req[c].call[d] = "busy" /\ dep[d] = "up"
    /\ d = "postgres" => ~ContextDead(c)
    /\ \/ /\ req[c].kind = "handler"
          /\ \E t \in (IF d = "postgres" THEN BOOLEAN ELSE {FALSE}) :
                req' = [req EXCEPT ![c] = [Returned(req[c], d, "idle") EXCEPT !.tx = t]]
       \/ /\ req[c].kind = "probe"
          /\ req' = [req EXCEPT ![c] = [Returned(req[c], d, "ok") EXCEPT !.ready = Combined(@, TRUE)]]
    /\ UNCHANGED <<process, dep>>

\* pgx gives up with the context.  The Redis client looks at it while it waits for a
\* connection, which may be refused or take too long; an exchange it has begun ends
\* with its own timeout, whatever became of the context.
GivesUp(c, d) ==
    \/ req[c].call[d] = "busy" /\ dep[d] = "down"
    \/ ContextDead(c) /\ (d = "postgres" \/ req[c].call[d] = "acquire")
    \/ d = "redis" /\ req[c].call[d] = "acquire" /\ dep[d] # "up"
    \/ d = "redis" /\ req[c].timer[d] >= ReadTimeout

\* One more exchange of a call to Redis: the command after the greeting, or the command
\* again while the context lives.
Again(c) ==
    /\ Running /\ req[c].call["redis"] = "busy" /\ req[c].exchanges < MaxExchanges
    /\ \E state \in {"acquire", "busy"} :
          /\ state = "busy" => dep["redis"] = "up"
          /\ state = "acquire" => GivesUp(c, "redis") /\ ~ContextDead(c)
          /\ req' = [req EXCEPT ![c].call["redis"] = state, ![c].timer["redis"] = 0,
                                ![c].exchanges = @ + 1]
    /\ UNCHANGED <<process, dep>>

\* In a transaction the error ends it; otherwise some are logged, some answered.
Fails(c, d) ==
    /\ Running /\ req[c].call[d] \in {"acquire", "busy"}
    /\ GivesUp(c, d)
    /\ \/ /\ req[c].kind = "handler"
          /\ req' = [req EXCEPT ![c] =
                Returned(req[c], d, IF d = "postgres" /\ req[c].tx THEN "rollback" ELSE "idle")]
       \/ /\ req[c].kind = "probe"
          /\ req' = [req EXCEPT ![c] =
                [Returned(req[c], d, "error") EXCEPT !.ready = Combined(@, FALSE)]]
    /\ UNCHANGED <<process, dep>>

\* The function given to WithinTransaction returns an error, or panics.
Abort(c) ==
    /\ Computing(c) /\ req[c].tx
    /\ req' = [req EXCEPT ![c].call["postgres"] = "rollback"]
    /\ UNCHANGED <<process, dep>>

\* Variant: the rollback has context.Background().
RollbackUnbounded(c) == dep["postgres"] # "hung"

\* The rollback has a context of its own.
RollbackOver(c) == dep["postgres"] # "hung" \/ req[c].timer["postgres"] >= RollbackTimeout

EndRollback(c) ==
    /\ Running /\ req[c].call["postgres"] = "rollback"
    /\ RollbackOver(c)
    /\ req' = [req EXCEPT ![c].call["postgres"] = "idle", ![c].timer["postgres"] = 0,
                          ![c].tx = FALSE]
    /\ UNCHANGED <<process, dep>>

\* A handler returns, or it panics and Recovery answers.
EndHandler(c) == Computing(c) /\ ~req[c].tx /\ Answer(c)

Checked(c) == Serving(c, "probe") /\ \A d \in Deps : req[c].call[d] \in {"ok", "error"}

EndProbe(c) == Checked(c) /\ Answer(c)

-----------------------------------------------------------------------------
(* The environment *)

DependencyChanges(d, state) ==
    /\ Running /\ dep[d] # state
    /\ state # "up" => d \in Faults
    /\ dep' = [dep EXCEPT ![d] = state]
    /\ req' = [c \in Conns |->
          IF req[c].kind = "probe" /\ state # "up"
          THEN [req[c] EXCEPT !.troubled = @ \cup {d}] ELSE req[c]]
    /\ UNCHANGED process

\* Nothing but time ends the wait of c for d.
Waits(c, d) ==
    CASE req[c].call[d] = "acquire" ->
            /\ ~ContextDead(c)
            /\ IF d = "postgres" THEN Cardinality(Held) >= PoolSize ELSE dep[d] = "hung"
      [] req[c].call[d] = "busy" -> dep[d] = "hung" /\ ~GivesUp(c, d)
      [] req[c].call[d] = "rollback" -> ~RollbackOver(c)

Pending(c) == {d \in Deps : req[c].call[d] \in {"acquire", "busy", "rollback"}}

\* The waits that end by a time of their own.
Timed == {<<"redis", "busy">>, <<"postgres", "rollback">>}

Older(r) ==
    [r EXCEPT !.age = @ + 1,
              !.timer = [d \in Deps |-> IF <<d, r.call[d]>> \in Timed THEN @[d] + 1 ELSE @[d]]]

Tick ==
    /\ Running
    /\ \A c \in Conns : Served(c) =>
          Pending(c) # {} /\ \A d \in Pending(c) : Waits(c, d)
    /\ \A c \in Conns : req[c].kind = "new" => req[c].age < HeaderTimeout
    /\ main = "drain" => ~Idle /\ elapsed < Grace
    /\ elapsed' = IF main = "drain" THEN elapsed + 1 ELSE elapsed
    /\ req' = [c \in Conns |-> IF req[c].kind = "none" THEN Fresh ELSE Older(req[c])]
    /\ UNCHANGED <<main, listener, signal, dep>>

Ended == ~Running /\ UNCHANGED vars

Startup ==
    \/ Load \/ InitTracing \/ StartupFails
    \/ ConnectPostgres \/ ConnectRedis
    \/ StartServer \/ Notify \/ Bind

Work(c) ==
    \/ UsePostgres(c) \/ UseRedis(c) \/ Again(c)
    \/ \E d \in Deps : Acquire(c, d) \/ Succeeds(c, d) \/ Fails(c, d)
    \/ Abort(c) \/ EndRollback(c) \/ EndHandler(c) \/ EndProbe(c) \/ CloseNew(c)

Next ==
    \/ Startup \/ Signal \/ Shutdown \/ Exit \/ ListenerFails
    \/ \E c \in Conns :
          \/ Connect(c) \/ \E k \in {"handler", "probe"} : ReadRequest(c, k)
          \/ Work(c)
    \/ \E d \in Deps, state \in {"up", "hung", "down"} : DependencyChanges(d, state)
    \/ Tick
    \/ Ended

Spec == Init /\ [][Next]_vars

\* The goroutines are scheduled, and time passes when none of them can move.
FairSpec ==
    /\ Spec
    /\ WF_vars(Shutdown \/ Exit)
    /\ WF_vars(Tick \/ \E c \in Conns : Work(c))

-----------------------------------------------------------------------------
\* A process that leaves main leaves no transaction of a request it had read when
\* Shutdown began, whatever hangs: each was committed or rolled back before the grace
\* period ended.  (A request read from a spared connection may be cut off anywhere.)
DrainSparesTransactions == main = "exited" => \A c \in Held : req[c].late

\* However long Redis keeps a request, it never keeps a pooled connection with it: what
\* a request took from the pool is back by its deadline, or one rollback later.
ConnectionsComeBack == \A c \in Held : req[c].age <= Deadline(c) + RollbackTimeout

\* /ready answers 200 only if both checks succeeded, and a check fails only if its
\* own dependency was not up at some instant since the probe came in: neither a hung
\* Redis nor the load of the handlers ever makes the PostgreSQL check fail.
ProbesTellTheTruth ==
    \A c \in Conns : req[c].kind = "probe" =>
        /\ \A d \in Deps : req[c].call[d] = "error" => d \in req[c].troubled
        /\ Checked(c) => (req[c].ready <=> \A d \in Deps : req[c].call[d] = "ok")

\* The handlers share PoolSize connections and never wait for each other in a circle:
\* no time passes for a request but while a dependency hangs.
WaitsOnlyForDependencies ==
    [][\A c \in Conns :
          Served(c) /\ req'[c].age > req[c].age => \E d \in Deps : dep[d] = "hung"]_vars

\* A signal ends the process: none that was told to stop stays.
ExitFollowsSignal == []<>(Running => ~signal /\ main # "drain")
=============================================================================
