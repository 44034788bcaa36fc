----------------------------- MODULE LoginPath -----------------------------
(***************************************************************************)
(* POST /v1/auth/login as the router wires it: middleware.Idempotency in   *)
(* front of LoginService.Handle.  LoginAttempts is the handler, and its    *)
(* Attempts are the calls that carry one Idempotency-Key.  Attempts with   *)
(* keys of their own appear as what they do to the counters.  Everything   *)
(* Idempotency lets go wrong goes wrong here: Redis and                    *)
(* PostgreSQL fail, a commit is not confirmed, a client disconnects, a     *)
(* handler is slow or dies.                                                *)
(***************************************************************************)
EXTENDS LoginAttempts

CONSTANTS ReservationTTL, ResponseTTL, MaxWait, RequestTimeout,   \* see Idempotency
          MaxArrival,
          MaxOthers         \* bound: attempts with other keys act no later

\* What the body of the request says; a right password belongs to an account with one.
Bodies ==
    {b \in [email : Emails, correct : BOOLEAN] :
        b.correct => b.email \notin Unregistered \cup OAuthOnly}

LayerFaults == {"redis", "handler", "unknownCommit", "disconnect", "crash", "slow"}

\* A dead context fails what a failing Redis or PostgreSQL would.
ASSUME PathFaultsAssumption == Faults = {"redis", "database"}

VARIABLES
    record, minted, stage, body, since, cancelled, outcome, reply,   \* see Idempotency
    stored   \* history: when the answer of a retry was stored

Idem == INSTANCE Idempotency WITH Calls <- Attempts, pc <- stage, Faults <- LayerFaults

\* What Idempotency assumes of its constants.
ASSUME LayerDurations ==
    /\ MaxWait \in Nat /\ {ReservationTTL, ResponseTTL, RequestTimeout} \subseteq Nat \ {0}
    /\ MaxWait < RequestTimeout
    /\ RequestTimeout < ReservationTTL
    /\ {MaxArrival, MaxOthers} \subseteq Nat

ASSUME LayerNone ==
    None \notin Idem!Response \cup Idem!Record \cup Idem!Refusal \cup Bodies \cup Answers

limiter == <<ipCounter, counter, pc, email, pending, answer, ended, standing>>
layer == <<record, minted, stage, body, since, cancelled, outcome, reply>>
pathVars == <<clock, limiter, layer, stored>>

PathInit ==
    /\ Init
    /\ Idem!Init
    /\ stored = [c \in Attempts |-> None]

-----------------------------------------------------------------------------
(* The middleware around the handler *)

Around(c) ==
    /\ \/ Idem!Claim(c) \/ Idem!ClaimFails(c) \/ Idem!ClaimUnheard(c)
       \/ Idem!Conflict(c) \/ Idem!Replay(c) \/ Idem!RefuseInProgress(c)
       \/ Idem!Wait(c) \/ Idem!StopWaiting(c) \/ Idem!PollAgain(c)
       \/ Idem!Flush(c) \/ Idem!Release(c)
    /\ UNCHANGED <<limiter, stored>>

Save(c) ==
    /\ Idem!Save(c)
    /\ stored' = IF record' = record THEN stored ELSE [stored EXCEPT ![c] = clock]
    /\ UNCHANGED limiter

-----------------------------------------------------------------------------
(* next.ServeHTTP *)

\* VerifyPassword.
Verify(c) ==
    \/ body[c].correct /\ RightPassword(c)
    \/ ~body[c].correct /\ WrongPassword(c)

\* With a dead context every command fails.  A failure that is not counted is a 401
\* all the same, and a locked account is refused without another look at the database.
ContextDead(c) ==
    \/ LookupFails(c)
    \/ RecordFailure(c) /\ UNCHANGED counter
    \/ Reset(c) /\ UNCHANGED <<counter, standing>> /\ answer'[c] # "ok"

\* What the middleware sees of the handler's answer: its status.  Of the commits that
\* fail, one may have created the session.
Ends(c) ==
    \/ pc'[c] # "done" /\ UNCHANGED layer
    \/ answer'[c] = "ok" /\ Idem!LogIn(c)
    \/ answer'[c] \in Answers \ {"ok", "error"} /\ Idem!Reject(c)
    \/ /\ answer'[c] = "error" /\ Idem!HandlerFails(c)
       /\ minted' # minted => pc[c] = "reset"

Handle(c) ==
    /\ stage[c] \in {"run", "runBare"}
    /\ \/ Arrive(c, body[c].email)
       \/ /\ Idem!Alive(c)
          /\ \/ CheckIP(c) \/ CheckCredential(c) \/ LookupFails(c)
             \/ Verify(c) \/ RecordFailure(c) \/ Reset(c)
       \/ ~Idem!Alive(c) /\ ContextDead(c)
    /\ Ends(c)
    /\ UNCHANGED stored

\* The client goes away, or the handler dies and leaves its reservation behind.
Dies(c) == (Idem!Disconnect(c) \/ Idem!Crash(c)) /\ UNCHANGED <<limiter, stored>>

Retry(c) ==
    \/ (\E b \in Bodies : Idem!Arrive(c, b)) /\ UNCHANGED <<limiter, stored>>
    \/ Around(c) \/ Save(c) \/ Handle(c)

\* A command of an attempt with another key: RecordFailure, or Reset.  Where the count
\* stops (bound), nothing passes any more.
Others ==
    /\ clock <= MaxOthers
    /\ \E e \in Emails :
        /\ \/ /\ Allowed(counter[e], Limit)
              /\ counter' = [counter EXCEPT ![e] = Incremented(@)]
              /\ UNCHANGED standing
           \/ /\ counter' = [counter EXCEPT ![e] = None]
              /\ standing' = [standing EXCEPT ![e] = {}]
        /\ UNCHANGED <<clock, ipCounter, pc, email, pending, answer, ended, layer, stored>>

PathTick == Tick /\ Idem!Tick /\ UNCHANGED stored

PathEnded ==
    /\ \A c \in Attempts : stage[c] \in Idem!Ended \cup {"idle"}
    /\ UNCHANGED pathVars

PathNext ==
    \/ \E c \in Attempts : Retry(c) \/ Dies(c)
    \/ Others
    \/ PathTick
    \/ PathEnded

PathSpec == PathInit /\ [][PathNext]_pathVars

-----------------------------------------------------------------------------
\* Once an answer is stored, no protected retry creates a session or counts a failure for
\* ResponseTTL, though its handler may still be at work: one that outlived its own
\* reservation, which the stored answer took over.  What is judged again is a request
\* whose answer was not stored, be it a 5xx, a client that left, a crash or a failing
\* Redis (see NoSecondSession), or one whose claim failed.
StoredAnswerIsFinal ==
    [][\A c, d \in Attempts :
          stored[c] # None /\ clock < stored[c] + ResponseTTL /\ stage[d] = "run" =>
             /\ minted'[d] = minted[d]
             /\ pending'[d] # pending[d] => counter' = counter \/ pc[d] = "verify"]_pathVars

\* The middleware hands out answers without looking at a password.  A caller still
\* receives a session only for the password of its own body.
NoSessionWithoutPassword ==
    \A c \in Attempts :
        reply[c] # None /\ reply[c].status = "ok" => body[c].correct
=============================================================================
