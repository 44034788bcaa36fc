---------------------------- MODULE LoginAttempts ----------------------------
(***************************************************************************)
(* The rate limiting of POST /v1/auth/login: LoginService.Handle up to the *)
(* verdict on the password, over the counters authattempt.RedisTracker     *)
(* keeps in Redis.  All attempts come from one client IP, so an email      *)
(* stands for the LoginCredential key it hashes to; other IPs use other    *)
(* keys.                                                                   *)
(***************************************************************************)
EXTENDS Integers, FiniteSets

CONSTANTS Attempts,
          Emails,          \* normalized
          Unregistered,    \* emails without an account
          OAuthOnly,       \* emails of accounts without a password
          IPLimit, IPWindow,
          Limit, Window,   \* SecurityPolicy.Credential
          Faults,          \* what may fail
          MaxClock,        \* bound: the last instant a model run looks at
          None

ASSUME EmailsAssumption ==
    Unregistered \subseteq Emails /\ OAuthOnly \subseteq Emails \ Unregistered

\* As the defaults of config.go and .env.example set them; nothing validates them.
ASSUME PolicyAssumption == {IPLimit, IPWindow, Limit, Window} \subseteq Nat \ {0}

ASSUME BoundsAssumption == MaxClock \in Nat /\ Faults \subseteq {"redis", "database"}

Counter == [count : Nat \ {0}, expires : Nat]

ASSUME NoneAssumption == None \notin Counter \cup Emails \cup Nat

VARIABLES
    clock,
    ipCounter,   \* auth:login:ip:<ip>
    counter,     \* auth:login:credential:<hash>, for each email
    pc,
    email,
    pending,     \* how many RecordFailure calls an attempt still has to make
    answer,
    ended,       \* when an attempt was answered
    standing     \* history: the failed attempts whose last count is in the counter

vars == <<clock, ipCounter, counter, pc, email, pending, answer, ended, standing>>

Answers == {"ok", "accountLocked", "invalidCredentials", "tooManyRequests", "error"}

Init ==
    /\ clock = 0
    /\ ipCounter = None
    /\ counter = [e \in Emails |-> None]
    /\ pc = [a \in Attempts |-> "idle"]
    /\ email = [a \in Attempts |-> None]
    /\ pending = [a \in Attempts |-> 0]
    /\ answer = [a \in Attempts |-> None]
    /\ ended = [a \in Attempts |-> 0]
    /\ standing = [e \in Emails |-> {}]

Goto(a, where) == pc' = [pc EXCEPT ![a] = where]

Answer(a, what) ==
    /\ answer' = [answer EXCEPT ![a] = what]
    /\ ended' = [ended EXCEPT ![a] = clock]
    /\ Goto(a, "done")

-----------------------------------------------------------------------------
(* Steps 1 and 2: the two checks, each a GET of its own *)

Arrive(a, e) ==
    /\ pc[a] = "idle"
    /\ email' = [email EXCEPT ![a] = e]
    /\ Goto(a, "checkIP")
    /\ UNCHANGED <<clock, ipCounter, counter, pending, answer, ended, standing>>

\* Variant: count <= policy.Limit.
AllowedAtLimit(c, limit) == c # None => c.count <= limit

Allowed(c, limit) == c # None => c.count < limit

Check(a, c, limit, where) ==
    \/ /\ Allowed(c, limit)
       /\ Goto(a, where)
       /\ UNCHANGED <<answer, ended>>
    \/ ~Allowed(c, limit) /\ Answer(a, "tooManyRequests")

CheckIP(a) ==
    /\ pc[a] = "checkIP"
    /\ Check(a, ipCounter, IPLimit, "checkCredential")
    /\ UNCHANGED <<clock, ipCounter, counter, email, pending, standing>>

CheckCredential(a) ==
    /\ pc[a] = "checkCredential"
    /\ Check(a, counter[email[a]], Limit, "verify")
    /\ UNCHANGED <<clock, ipCounter, counter, email, pending, standing>>

\* A failing GET, or a failing FindByEmail, fails the login.
LookupFails(a) ==
    /\ \/ pc[a] \in {"checkIP", "checkCredential"} /\ "redis" \in Faults
       \/ pc[a] = "verify" /\ "database" \in Faults
    /\ Answer(a, "error")
    /\ UNCHANGED <<clock, ipCounter, counter, email, pending, standing>>

-----------------------------------------------------------------------------
(* Steps 3 and 4 *)

\* recordFailure counts once; the branches of a known account have already called
\* RecordFailure themselves.
Failures(a) == IF email[a] \in Unregistered THEN 1 ELSE 2

WrongPassword(a) ==
    /\ pc[a] = "verify"
    /\ pending' = [pending EXCEPT ![a] = Failures(a)]
    /\ Goto(a, "count")
    /\ UNCHANGED <<clock, ipCounter, counter, email, answer, ended, standing>>

RightPassword(a) ==
    /\ pc[a] = "verify"
    /\ email[a] \notin Unregistered \cup OAuthOnly
    /\ Goto(a, "reset")
    /\ UNCHANGED <<clock, ipCounter, counter, email, pending, answer, ended, standing>>

\* Variant: EXPIRE at every increment.
IncrementedAndExtended(c) ==
    [count |-> IF c = None THEN 1 ELSE c.count + 1, expires |-> clock + Window]

\* Variant: the first failure creates the counter, the following ones count.
CreatedAtZero(c) ==
    IF c = None THEN [count |-> 0, expires |-> clock + Window]
                ELSE [c EXCEPT !.count = @ + 1]

\* incrementScript: EXPIRE with the first INCR only.
Incremented(c) ==
    IF c = None THEN [count |-> 1, expires |-> clock + Window]
                ELSE [c EXCEPT !.count = @ + 1]

\* The last RecordFailure of an attempt; the 401 follows.
Settle(a, counted) ==
    /\ Answer(a, "invalidCredentials")
    /\ standing' = IF counted THEN [standing EXCEPT ![email[a]] = @ \cup {a}] ELSE standing

\* An error of RecordFailure is dropped or logged.
RecordFailure(a) ==
    /\ pc[a] = "count"
    /\ pending' = [pending EXCEPT ![a] = @ - 1]
    /\ \E counted \in {TRUE} \cup (IF "redis" \in Faults THEN {FALSE} ELSE {}) :
          /\ counter' = IF counted
                        THEN [counter EXCEPT ![email[a]] = Incremented(@)] ELSE counter
          /\ \/ pending[a] = 1 /\ Settle(a, counted)
             \/ pending[a] > 1 /\ UNCHANGED <<pc, answer, ended, standing>>
    /\ UNCHANGED <<clock, ipCounter, email>>

\* DEL, whose error is logged, then the account's status, then IssueForDevice.
Reset(a) ==
    /\ pc[a] = "reset"
    /\ \/ /\ counter' = [counter EXCEPT ![email[a]] = None]
          /\ standing' = [standing EXCEPT ![email[a]] = {}]
       \/ "redis" \in Faults /\ UNCHANGED <<counter, standing>>
    /\ \E what \in {"ok", "accountLocked"} \cup (IF "database" \in Faults THEN {"error"} ELSE {}) :
          Answer(a, what)
    /\ UNCHANGED <<clock, ipCounter, email, pending>>

\* Time passes and Redis expires keys.
Tick ==
    /\ clock < MaxClock
    /\ clock' = clock + 1
    /\ LET Gone(e) == counter[e] # None /\ counter[e].expires <= clock + 1 IN
       /\ counter' = [e \in Emails |-> IF Gone(e) THEN None ELSE counter[e]]
       /\ standing' = [e \in Emails |-> IF Gone(e) THEN {} ELSE standing[e]]
    /\ UNCHANGED <<ipCounter, pc, email, pending, answer, ended>>

AllAnswered ==
    /\ \A a \in Attempts : pc[a] = "done"
    /\ UNCHANGED vars

Next ==
    \/ \E a \in Attempts, e \in Emails : Arrive(a, e)
    \/ \E a \in Attempts :
          \/ CheckIP(a) \/ CheckCredential(a) \/ LookupFails(a)
          \/ WrongPassword(a) \/ RightPassword(a) \/ RecordFailure(a) \/ Reset(a)
    \/ Tick
    \/ AllAnswered

Spec == Init /\ [][Next]_vars

-----------------------------------------------------------------------------
(* Type correctness of the counters and of what each attempt remembers. *)
TypeOK ==
    /\ clock \in Nat
    /\ ipCounter \in Counter \cup {None}
    /\ counter \in [Emails -> Counter \cup {None}]
    /\ pc \in [Attempts -> {"idle", "checkIP", "checkCredential", "verify",
                            "count", "reset", "done"}]
    /\ email \in [Attempts -> Emails \cup {None}]
    /\ pending \in [Attempts -> Nat]
    /\ answer \in [Attempts -> Answers \cup {None}]
    /\ ended \in [Attempts -> Nat]
    /\ standing \in [Emails -> SUBSET Attempts]

\* No password is looked at once Limit attempts on the credential failed and were
\* counted, as long as neither a login reset the counter nor its window ended.
LimitHolds ==
    [][\A a \in Attempts :
          pc[a] = "checkCredential" /\ pc'[a] = "verify" =>
             Cardinality(standing[email[a]]) < Limit]_vars

\* A failure weighs on later logins for Window at most, however many follow it.
OldFailuresForgotten ==
    \A e \in Emails : \A a \in standing[e] : clock < ended[a] + Window

-----------------------------------------------------------------------------
(* What the documentation says and the code does not do. *)

Failed(a) == answer[a] = "invalidCredentials"

\* .env.example: a window per client IP beside the one per credential: no attempt
\* passes the check of its IP when IPLimit attempts failed within the last IPWindow.
IPLimitHolds ==
    [][\A a \in Attempts :
          pc[a] = "checkIP" /\ pc'[a] = "checkCredential" =>
             Cardinality({b \in Attempts : Failed(b) /\ clock < ended[b] + IPWindow})
                < IPLimit]_vars
=============================================================================
