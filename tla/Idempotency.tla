----------------------------- MODULE Idempotency -----------------------------
(***************************************************************************)
(* middleware.Idempotency in front of POST /v1/auth/login: the calls that  *)
(* carry one Idempotency-Key, the record Redis holds under that key, and   *)
(* the sessions their handlers commit.  Other keys are other records.      *)
(*                                                                         *)
(* The context of a call dies with its client's connection, or             *)
(* RequestTimeout after the call arrived.  Every use of Redis or           *)
(* PostgreSQL with a dead context fails.                                   *)
(***************************************************************************)
EXTENDS Integers

CONSTANTS Calls,            \* HTTP calls with the one key
          Bodies,           \* request bodies, as their hash tells them apart
          ReservationTTL,   \* reservationTTL
          ResponseTTL,      \* IDEMPOTENCY_KEY_TTL
          MaxWait,          \* maxWait
          RequestTimeout,   \* middleware.Timeout, and Server.WriteTimeout
          Faults,           \* what may go wrong
          MaxArrival,       \* bound: no call arrives later
          MaxClock,         \* bound: the last instant a model run looks at
          None

\* The constants of middleware/idempotency.go and router.go: 3 s < 5 s < 30 s.
ASSUME DurationsAssumption ==
    /\ MaxWait \in Nat /\ {ReservationTTL, ResponseTTL, RequestTimeout} \subseteq Nat \ {0}
    /\ MaxWait < RequestTimeout
    /\ RequestTimeout < ReservationTTL

ASSUME FaultsAssumption ==
    Faults \subseteq {"disconnect", "redis", "handler", "unknownCommit", "crash", "slow"}

ASSUME BoundsAssumption == MaxArrival \in Nat /\ MaxClock \in Nat

\* What a handler wrote, and the call it ran for.
Response == [status : {"ok", "rejected", "failed"}, by : Calls]

\* answer = None is a reservation.  `by` is not stored: it names the call that
\* wrote the record, which the code does not look at.
Record == [hash : Bodies, answer : Response \cup {None}, expires : Nat, by : Calls]

Refusal == [status : {"keyConflict", "keyInProgress"}, by : Calls]

ASSUME NoneAssumption ==
    None \notin Response \cup Record \cup Refusal \cup Bodies \cup Nat

VARIABLES
    clock,
    record,      \* the value of the key, None when it is absent or expired
    minted,      \* when the handler of a call committed a session
    pc,
    body,
    since,       \* when a call arrived
    cancelled,   \* did its client close the connection?
    outcome,     \* the captured response
    reply        \* what its client received

calls == <<body, since, cancelled, outcome, reply>>
vars == <<clock, record, minted, pc, calls>>

Ended == {"done", "gone", "crashed"}

\* The states in which a call's own context has something left to do.
Handling == {"run", "runBare", "flush", "save", "release"}

Init ==
    /\ clock = 0
    /\ record = None
    /\ minted = [c \in Calls |-> None]
    /\ pc = [c \in Calls |-> "idle"]
    /\ body = [c \in Calls |-> None]
    /\ since = [c \in Calls |-> 0]
    /\ cancelled = [c \in Calls |-> FALSE]
    /\ outcome = [c \in Calls |-> None]
    /\ reply = [c \in Calls |-> None]

Alive(c) == ~cancelled[c] /\ clock < since[c] + RequestTimeout

Goto(c, where) == pc' = [pc EXCEPT ![c] = where]

\* Something is written to the client; a dead connection loses it.
Receive(c, what) == reply' = [reply EXCEPT ![c] = IF Alive(c) THEN what ELSE None]

Arrive(c, b) ==
    /\ pc[c] = "idle" /\ clock <= MaxArrival
    /\ body' = [body EXCEPT ![c] = b]
    /\ since' = [since EXCEPT ![c] = clock]
    /\ Goto(c, "claim")
    /\ UNCHANGED <<clock, record, minted, cancelled, outcome, reply>>

-----------------------------------------------------------------------------
(* One round of the loop: TryClaim, which is one script, and what it says *)

\* Variant: GET and SET are not one script; a caller that read no value writes.
ReserveOver(c) ==
    /\ record # None => record.answer = None
    /\ record' = [hash |-> body[c], answer |-> None,
                  expires |-> clock + ReservationTTL, by |-> c]

Reserve(c) ==
    /\ record = None
    /\ record' = [hash |-> body[c], answer |-> None,
                  expires |-> clock + ReservationTTL, by |-> c]

Claim(c) ==
    /\ pc[c] = "claim" /\ Alive(c)
    /\ Reserve(c)
    /\ Goto(c, "run")
    /\ UNCHANGED <<clock, minted, calls>>

\* Variant: the loop goes on after a failed claim.
ClaimFailsAndLoops(c) ==
    /\ pc[c] = "claim"
    /\ ~Alive(c) \/ "redis" \in Faults
    /\ Goto(c, "waiting")
    /\ UNCHANGED <<clock, record, minted, calls>>

\* Redis is unreachable, or the context is dead: the handler runs unprotected.
\* The script may have run and only its reply been lost.
ClaimFails(c) ==
    /\ pc[c] = "claim"
    /\ ~Alive(c) \/ "redis" \in Faults
    /\ UNCHANGED record \/ (Alive(c) /\ Reserve(c))
    /\ Goto(c, "runBare")
    /\ UNCHANGED <<clock, minted, calls>>

\* The script ran, its reply was lost, and the Redis client sends it once more:
\* what the call finds then is its own reservation.
ClaimUnheard(c) ==
    /\ pc[c] = "claim" /\ Alive(c)
    /\ "redis" \in Faults
    /\ Reserve(c)
    /\ UNCHANGED <<clock, minted, pc, calls>>

\* Variant: the hash of the request is not compared.
AnyBody(c) == TRUE

SameBody(c) == record.hash = body[c]

Found(c) == pc[c] = "claim" /\ Alive(c) /\ record # None

Conflict(c) ==
    /\ Found(c) /\ ~SameBody(c)
    /\ Receive(c, [status |-> "keyConflict", by |-> c])
    /\ Goto(c, "done")
    /\ UNCHANGED <<clock, record, minted, body, since, cancelled, outcome>>

Replay(c) ==
    /\ Found(c) /\ SameBody(c) /\ record.answer # None
    /\ Receive(c, record.answer)
    /\ Goto(c, "done")
    /\ UNCHANGED <<clock, record, minted, body, since, cancelled, outcome>>

WaitedTooLong(c) == clock > since[c] + MaxWait

RefuseInProgress(c) ==
    /\ Found(c) /\ SameBody(c) /\ record.answer = None
    /\ WaitedTooLong(c)
    /\ Receive(c, [status |-> "keyInProgress", by |-> c])
    /\ Goto(c, "done")
    /\ UNCHANGED <<clock, record, minted, body, since, cancelled, outcome>>

Wait(c) ==
    /\ Found(c) /\ SameBody(c) /\ record.answer = None
    /\ ~WaitedTooLong(c)
    /\ Goto(c, "waiting")
    /\ UNCHANGED <<clock, record, minted, calls>>

\* The select: pollInterval went by, or the context is done.
PollAgain(c) ==
    /\ pc[c] = "waiting"
    /\ Goto(c, "claim")
    /\ UNCHANGED <<clock, record, minted, calls>>

StopWaiting(c) ==
    /\ pc[c] = "waiting" /\ ~Alive(c)
    /\ Goto(c, "gone")
    /\ UNCHANGED <<clock, record, minted, calls>>

-----------------------------------------------------------------------------
(* next.ServeHTTP: a login.  It commits a session with a live context only. *)

HandlerEnds(c, status) ==
    /\ outcome' = [outcome EXCEPT ![c] = [status |-> status, by |-> c]]
    /\ \/ /\ pc[c] = "run"
          /\ Goto(c, "flush")
          /\ UNCHANGED reply
       \/ /\ pc[c] = "runBare"
          /\ Receive(c, outcome'[c])
          /\ Goto(c, "done")
    /\ UNCHANGED <<clock, record, body, since, cancelled>>

Mint(c) == minted' = [minted EXCEPT ![c] = clock]

LogIn(c) == Alive(c) /\ Mint(c) /\ HandlerEnds(c, "ok")

\* A 4xx: the request is invalid, or the login was refused.
Reject(c) == UNCHANGED minted /\ HandlerEnds(c, "rejected")

\* A 5xx: the context is dead or a dependency failed.  The commit of the session
\* may have been durable all the same.
HandlerFails(c) ==
    /\ \/ (~Alive(c) \/ "handler" \in Faults) /\ UNCHANGED minted
       \/ Alive(c) /\ "unknownCommit" \in Faults /\ Mint(c)
    /\ HandlerEnds(c, "failed")

-----------------------------------------------------------------------------
(* runAndSave, once the handler returned *)

Flush(c) ==
    /\ pc[c] = "flush"
    /\ Receive(c, outcome[c])
    /\ Goto(c, IF outcome[c].status = "failed" THEN "release" ELSE "save")
    /\ UNCHANGED <<clock, record, minted, body, since, cancelled, outcome>>

\* Variant: RequestHash is left out.
SavedWithoutHash(c) ==
    [hash |-> None, answer |-> outcome[c], expires |-> clock + ResponseTTL, by |-> c]

SavedRecord(c) ==
    [hash |-> body[c], answer |-> outcome[c], expires |-> clock + ResponseTTL, by |-> c]

\* Variant: context.WithoutCancel(r.Context()).
SaveDetached(c) ==
    /\ pc[c] = "save"
    /\ record' = SavedRecord(c)
    /\ Goto(c, "done")
    /\ UNCHANGED <<clock, minted, calls>>

\* SET key data EX ttl, whatever the key holds by now.  Its error is dropped.
Save(c) ==
    /\ pc[c] = "save"
    /\ \/ Alive(c) /\ record' = SavedRecord(c)
       \/ (~Alive(c) \/ "redis" \in Faults) /\ UNCHANGED record
    /\ Goto(c, "done")
    /\ UNCHANGED <<clock, minted, calls>>

\* DEL key.
Release(c) ==
    /\ pc[c] = "release"
    /\ \/ Alive(c) /\ record' = None
       \/ (~Alive(c) \/ "redis" \in Faults) /\ UNCHANGED record
    /\ Goto(c, "done")
    /\ UNCHANGED <<clock, minted, calls>>

-----------------------------------------------------------------------------
(* The environment *)

Disconnect(c) ==
    /\ "disconnect" \in Faults
    /\ pc[c] \notin Ended \cup {"idle"} /\ ~cancelled[c]
    /\ cancelled' = [cancelled EXCEPT ![c] = TRUE]
    /\ UNCHANGED <<clock, record, minted, pc, body, since, outcome, reply>>

\* The handler panics (Recovery answers a 500) or the process dies.
Crash(c) ==
    /\ "crash" \in Faults
    /\ pc[c] \in Handling
    /\ Goto(c, "crashed")
    /\ UNCHANGED <<clock, record, minted, calls>>

\* Time passes and Redis expires the key.  Unless "slow" is among the faults, a
\* handler and what follows it finish before their context does.
Tick ==
    /\ clock < MaxClock
    /\ "slow" \in Faults \/ \A c \in Calls :
          pc[c] \in Handling => clock + 1 < since[c] + RequestTimeout
    /\ clock' = clock + 1
    /\ record' = IF record # None /\ record.expires <= clock' THEN None ELSE record
    /\ UNCHANGED <<minted, pc, calls>>

AllEnded ==
    /\ \A c \in Calls : pc[c] \in Ended \cup {"idle"}
    /\ UNCHANGED vars

Progress(c) ==
    \/ Claim(c) \/ ClaimFails(c) \/ ClaimUnheard(c) \/ Conflict(c) \/ Replay(c)
    \/ RefuseInProgress(c) \/ Wait(c) \/ PollAgain(c) \/ StopWaiting(c)
    \/ LogIn(c) \/ Reject(c) \/ HandlerFails(c)
    \/ Flush(c) \/ Save(c) \/ Release(c)

Next ==
    \/ \E c \in Calls, b \in Bodies : Arrive(c, b)
    \/ \E c \in Calls : Progress(c) \/ Disconnect(c) \/ Crash(c)
    \/ Tick
    \/ AllEnded

Spec == Init /\ [][Next]_vars

\* Handlers are scheduled and time passes.
FairSpec == Spec /\ WF_vars(Tick) /\ WF_vars(\E c \in Calls : Progress(c))

-----------------------------------------------------------------------------
(* Type correctness of the record and of what each call remembers. *)
TypeOK ==
    /\ clock \in Nat
    /\ record \in Record \cup {None}
    /\ minted \in [Calls -> Nat \cup {None}]
    /\ pc \in [Calls -> {"idle", "claim", "waiting"} \cup Handling \cup Ended]
    /\ body \in [Calls -> Bodies \cup {None}]
    /\ since \in [Calls -> Nat]
    /\ cancelled \in [Calls -> BOOLEAN]
    /\ outcome \in [Calls -> Response \cup {None}]
    /\ reply \in [Calls -> Response \cup Refusal \cup {None}]

\* A response is only ever given to callers that sent the request it answers, and
\* as the handler wrote it; a 5xx is never replayed.
RepliesMatchRequests ==
    \A c \in Calls : reply[c] \in Response =>
        LET d == reply[c].by IN
        /\ body[d] = body[c]
        /\ outcome[d] = reply[c]
        /\ c # d => reply[c].status # "failed"

\* Save and Release write the key without looking whose reservation it holds.  It
\* is always the caller's own: their context dies before a reservation can expire.
OnlyOwnReservation ==
    [][\A c \in Calls :
          pc[c] \in {"save", "release"} /\ pc'[c] = "done" /\ record' # record =>
             record # None /\ record.by = c /\ record.answer = None]_vars

\* Every call returns: the winner whatever its handler does, a waiter within its
\* own deadline even when the winner died and left its reservation behind.  (Each
\* call comes once.)
EveryCallReturns == []<>(\A c \in Calls : pc[c] \in Ended \cup {"idle"})

-----------------------------------------------------------------------------
(* What the documentation says and the code does not do. *)

\* .env.example: a client retry after a dropped connection can never create a
\* second session.  d is such a retry of c: c committed its session and its client
\* went away before the answer reached it.
NoSecondSession ==
    \A c, d \in Calls :
        /\ minted[c] # None /\ cancelled[c] /\ reply[c] = None
        /\ minted[d] # None /\ since[d] > minted[c] /\ body[d] = body[c]
        => minted[d] - minted[c] >= ResponseTTL
=============================================================================
