----------------------------- MODULE LoginProofs -----------------------------
(***************************************************************************)
(* Theorems about LoginAttempts and LoginPath, for any number of attempts  *)
(* and emails, any limits, windows and durations, and any failures of      *)
(* Redis and PostgreSQL; on the path also of clients and handlers.         *)
(*                                                                         *)
(* The limiter: the failures that stand against a credential are never     *)
(* more than its counter says, so no login passes the check beyond the     *)
(* limit, and none of them outlives its window.                            *)
(*                                                                         *)
(* The path: it runs the middleware of Idempotency and nothing else on the *)
(* record, so whatever is proved of Idempotency holds of it.  A handler    *)
(* whose context is alive still holds its reservation, so no answer is     *)
(* stored yet; one that outlived it finds PostgreSQL and Redis closed to   *)
(* it.  That is why nothing is judged while a stored answer lasts.         *)
(***************************************************************************)
EXTENDS LoginPath, FiniteSetTheorems, TLAPS

-----------------------------------------------------------------------------
(* The limiter *)

\* An attempt has an email from its arrival on, and something to count while it counts.
Arrived ==
    \A a \in Attempts :
        /\ pc[a] # "idle" => email[a] \in Emails
        /\ pc[a] = "count" => pending[a] >= 1

\* An attempt stands against a credential once, when it is answered.
Settled == \A e \in Emails : \A a \in standing[e] : pc[a] = "done"

\* A counter counts at least the failures that stand, and it expires before the
\* oldest of them is Window old.
Covers(e) ==
    /\ counter[e] = None => standing[e] = {}
    /\ counter[e] # None =>
          /\ IsFiniteSet(standing[e])
          /\ Cardinality(standing[e]) <= counter[e].count
          /\ clock < counter[e].expires
          /\ counter[e].expires <= clock + Window
          /\ \A a \in standing[e] : counter[e].expires <= ended[a] + Window

IInv ==
    /\ TypeOK
    /\ Arrived
    /\ Settled
    /\ \A e \in Emails : Covers(e)

-----------------------------------------------------------------------------
\* The numbers of the policy.
LEMMA Policy == Window \in Nat /\ Window > 0 /\ Limit \in Nat /\ Limit > 0
BY PolicyAssumption

\* The invariant holds at the start.
LEMMA InitOK == Init => IInv
<1> SUFFICES ASSUME Init PROVE IInv
    OBVIOUS
<1>1. TypeOK
    BY DEF Init, TypeOK
<1>2. Arrived
    BY DEF Init, Arrived
<1>3. Settled
    BY DEF Init, Settled
<1>4. \A e \in Emails : Covers(e)
    BY DEF Init, Covers
<1> QED
    BY <1>1, <1>2, <1>3, <1>4 DEF IInv

\* Incrementing keeps the expiry of a live counter and starts a fresh one at 1.
LEMMA IncrementedType ==
    ASSUME NEW c \in Counter \cup {None}, clock \in Nat
    PROVE  /\ Incremented(c) \in Counter
           /\ c # None => /\ Incremented(c).count = c.count + 1
                          /\ Incremented(c).expires = c.expires
           /\ c = None => /\ Incremented(c).count = 1
                          /\ Incremented(c).expires = clock + Window
BY Policy, NoneAssumption DEF Incremented, Counter

\* Type correctness.
LEMMA TypeStep == TypeOK /\ Arrived /\ [Next]_vars => TypeOK'
<1> SUFFICES ASSUME TypeOK, Arrived, [Next]_vars PROVE TypeOK'
    OBVIOUS
<1> USE DEF TypeOK, Arrived, Goto, Answer, Answers
<1>1. ASSUME NEW a \in Attempts, NEW e \in Emails, Arrive(a, e) PROVE TypeOK'
    BY <1>1 DEF Arrive
<1>2. ASSUME NEW a \in Attempts, CheckIP(a) PROVE TypeOK'
    BY <1>2 DEF CheckIP, Check
<1>3. ASSUME NEW a \in Attempts, CheckCredential(a) PROVE TypeOK'
    BY <1>3 DEF CheckCredential, Check
<1>4. ASSUME NEW a \in Attempts, LookupFails(a) PROVE TypeOK'
    BY <1>4 DEF LookupFails
<1>5. ASSUME NEW a \in Attempts, WrongPassword(a) PROVE TypeOK'
    BY <1>5 DEF WrongPassword, Failures
<1>6. ASSUME NEW a \in Attempts, RightPassword(a) PROVE TypeOK'
    BY <1>6 DEF RightPassword
<1>7. ASSUME NEW a \in Attempts, RecordFailure(a) PROVE TypeOK'
    <2>1. email[a] \in Emails /\ pending[a] - 1 \in Nat
        BY <1>7 DEF RecordFailure
    <2>2. Incremented(counter[email[a]]) \in Counter
        BY <2>1, IncrementedType
    <2> QED
        BY <1>7, <2>1, <2>2 DEF RecordFailure, Settle
<1>8. ASSUME NEW a \in Attempts, Reset(a) PROVE TypeOK'
    BY <1>8 DEF Reset
<1>9. CASE Tick
    BY <1>9 DEF Tick
<1>10. CASE UNCHANGED vars
    BY <1>10 DEF vars
<1> QED
    BY <1>1, <1>2, <1>3, <1>4, <1>5, <1>6, <1>7, <1>8, <1>9, <1>10 DEF Next, AllAnswered

\* Arrival sets the email, a wrong password sets what is to count.
LEMMA ArrivedStep == TypeOK /\ Arrived /\ [Next]_vars => Arrived'
<1> SUFFICES ASSUME TypeOK, Arrived, [Next]_vars PROVE Arrived'
    OBVIOUS
<1> USE DEF TypeOK, Arrived, Goto, Answer
<1>1. ASSUME NEW a \in Attempts, NEW e \in Emails, Arrive(a, e) PROVE Arrived'
    BY <1>1 DEF Arrive
<1>2. ASSUME NEW a \in Attempts, CheckIP(a) \/ CheckCredential(a) PROVE Arrived'
    BY <1>2 DEF CheckIP, CheckCredential, Check
<1>3. ASSUME NEW a \in Attempts, LookupFails(a) PROVE Arrived'
    BY <1>3 DEF LookupFails
<1>4. ASSUME NEW a \in Attempts, WrongPassword(a) PROVE Arrived'
    BY <1>4 DEF WrongPassword, Failures
<1>5. ASSUME NEW a \in Attempts, RightPassword(a) \/ Reset(a) PROVE Arrived'
    BY <1>5 DEF RightPassword, Reset
<1>6. ASSUME NEW a \in Attempts, RecordFailure(a) PROVE Arrived'
    BY <1>6 DEF RecordFailure, Settle
<1>7. CASE Tick \/ UNCHANGED vars
    BY <1>7 DEF Tick, vars
<1> QED
    BY <1>1, <1>2, <1>3, <1>4, <1>5, <1>6, <1>7 DEF Next, AllAnswered

\* Only the answering step of an attempt adds it, and no answered attempt moves.
LEMMA SettledStep == TypeOK /\ Settled /\ [Next]_vars => Settled'
<1> SUFFICES ASSUME TypeOK, Settled, [Next]_vars PROVE Settled'
    OBVIOUS
<1> USE DEF TypeOK, Settled, Goto, Answer
<1>1. ASSUME NEW a \in Attempts, NEW e \in Emails, Arrive(a, e) PROVE Settled'
    BY <1>1 DEF Arrive
<1>2. ASSUME NEW a \in Attempts, CheckIP(a) \/ CheckCredential(a) PROVE Settled'
    BY <1>2 DEF CheckIP, CheckCredential, Check
<1>3. ASSUME NEW a \in Attempts, LookupFails(a) PROVE Settled'
    BY <1>3 DEF LookupFails
<1>4. ASSUME NEW a \in Attempts, WrongPassword(a) \/ RightPassword(a) PROVE Settled'
    BY <1>4 DEF WrongPassword, RightPassword
<1>5. ASSUME NEW a \in Attempts, Reset(a) PROVE Settled'
    BY <1>5 DEF Reset
<1>6. ASSUME NEW a \in Attempts, RecordFailure(a) PROVE Settled'
    BY <1>6 DEF RecordFailure, Settle
<1>7. CASE Tick \/ UNCHANGED vars
    BY <1>7 DEF Tick, vars
<1> QED
    BY <1>1, <1>2, <1>3, <1>4, <1>5, <1>6, <1>7 DEF Next, AllAnswered

\* A step that neither counts nor lets time pass leaves every counter covering.
LEMMA CoversFrame ==
    ASSUME TypeOK, Settled, NEW e \in Emails, Covers(e),
           clock' = clock, counter'[e] = counter[e], standing'[e] = standing[e],
           \A b \in standing[e] : ended'[b] = ended[b]
    PROVE  Covers(e)'
BY DEF Covers

\* Counting.
LEMMA CoversCount ==
    ASSUME TypeOK, Arrived, Settled, NEW a \in Attempts, RecordFailure(a),
           NEW e \in Emails, Covers(e)
    PROVE  Covers(e)'
<1> USE DEF TypeOK
<1>1. email[a] \in Emails /\ a \notin standing[e] /\ clock' = clock
    BY DEF RecordFailure, Arrived, Settled
<1>2. \A b \in standing[e] : ended'[b] = ended[b]
    BY <1>1 DEF RecordFailure, Settle, Answer
<1>3. PICK counted \in BOOLEAN :
          /\ counter' = IF counted
                        THEN [counter EXCEPT ![email[a]] = Incremented(@)] ELSE counter
          /\ \/ pending[a] = 1 /\ Settle(a, counted)
             \/ pending[a] > 1 /\ UNCHANGED <<pc, answer, ended, standing>>
    BY DEF RecordFailure
<1>4. CASE e # email[a] \/ ~counted
    <2>1. counter'[e] = counter[e] /\ standing'[e] = standing[e]
        BY <1>1, <1>3, <1>4 DEF Settle
    <2> QED
        BY <1>1, <1>2, <2>1, CoversFrame
<1>5. CASE e = email[a] /\ counted
    <2> DEFINE c == counter[e]
    <2>1. counter'[e] = Incremented(c)
        BY <1>3, <1>5
    <2>2. /\ Incremented(c) \in Counter
          /\ c # None => /\ Incremented(c).count = c.count + 1
                         /\ Incremented(c).expires = c.expires
          /\ c = None => /\ Incremented(c).count = 1
                         /\ Incremented(c).expires = clock + Window
        BY IncrementedType
    <2>3. counter'[e] # None
        BY <2>1, <2>2, NoneAssumption
    <2>4. /\ clock' < counter'[e].expires
          /\ counter'[e].expires <= clock' + Window
          /\ \A b \in standing[e] : counter'[e].expires <= ended'[b] + Window
        <3>1. CASE c = None
            BY <1>1, <2>1, <2>2, <3>1, Policy DEF Covers
        <3>2. CASE c # None
            BY <1>1, <1>2, <2>1, <2>2, <3>2, Policy DEF Covers
        <3> QED
            BY <3>1, <3>2
    <2>5. /\ IsFiniteSet(standing[e])
          /\ Cardinality(standing[e]) \in Nat
          /\ Cardinality(standing[e]) + 1 <= counter'[e].count
        <3>1. CASE c = None
            <4>1. standing[e] = {}
                BY <3>1 DEF Covers
            <4>2. IsFiniteSet(standing[e]) /\ Cardinality(standing[e]) = 0
                BY <4>1, FS_EmptySet
            <4> QED
                BY <2>1, <2>2, <3>1, <4>2
        <3>2. CASE c # None
            <4>1. IsFiniteSet(standing[e]) /\ Cardinality(standing[e]) \in Nat
                BY <3>2, FS_CardinalityType DEF Covers
            <4>2. c.count \in Nat /\ Cardinality(standing[e]) <= c.count
                BY <3>2 DEF Covers, Counter
            <4> QED
                BY <2>1, <2>2, <3>2, <4>1, <4>2
        <3> QED
            BY <3>1, <3>2
    <2>6. CASE standing'[e] = standing[e]
        <3>1. counter'[e].count \in Nat
            BY <2>1, <2>2 DEF Counter
        <3> QED
            BY <2>3, <2>4, <2>5, <2>6, <3>1 DEF Covers
    <2>7. CASE standing'[e] = standing[e] \cup {a} /\ ended'[a] = clock
        <3>1. /\ IsFiniteSet(standing'[e])
              /\ Cardinality(standing'[e]) = Cardinality(standing[e]) + 1
            BY <1>1, <2>5, <2>7, FS_AddElement
        <3> QED
            BY <1>1, <2>3, <2>4, <2>5, <2>7, <3>1 DEF Covers
    <2>8. \/ standing'[e] = standing[e]
          \/ standing'[e] = standing[e] \cup {a} /\ ended'[a] = clock
        <3>1. CASE Settle(a, counted)
            <4>1. standing' = [standing EXCEPT ![email[a]] = @ \cup {a}]
                BY <1>5, <3>1 DEF Settle
            <4>2. ended' = [ended EXCEPT ![a] = clock]
                BY <3>1 DEF Settle, Answer
            <4>3. standing'[e] = standing[e] \cup {a}
                BY <1>5, <4>1
            <4>4. ended'[a] = clock
                BY <4>2
            <4> QED
                BY <4>3, <4>4
        <3>2. CASE UNCHANGED <<pc, answer, ended, standing>>
            <4>1. standing' = standing
                BY <3>2
            <4>2. standing'[e] = standing[e]
                BY <4>1
            <4> QED
                BY <4>2
        <3> QED
            BY <1>3, <3>1, <3>2
    <2> QED
        BY <2>6, <2>7, <2>8
<1> QED
    BY <1>4, <1>5

\* Expiry removes a counter together with what stands.
LEMMA CoversTick == ASSUME TypeOK, Tick, NEW e \in Emails, Covers(e) PROVE Covers(e)'
<1> USE DEF TypeOK
<1>1. CASE counter[e] # None /\ counter[e].expires <= clock + 1
    BY <1>1 DEF Tick, Covers
<1>2. CASE counter[e] = None
    BY <1>2 DEF Tick, Covers
<1>3. CASE counter[e] # None /\ ~(counter[e].expires <= clock + 1)
    <2>1. counter'[e] = counter[e] /\ standing'[e] = standing[e] /\ ended' = ended
          /\ clock' = clock + 1
        BY <1>3 DEF Tick
    <2>2. counter[e].expires \in Nat
        BY <1>3 DEF Counter
    <2> QED
        BY <1>3, <2>1, <2>2, Policy DEF Covers
<1> QED
    BY <1>1, <1>2, <1>3

\* Every step keeps the counter of a credential at what its failures demand.
LEMMA CoversStep ==
    TypeOK /\ Arrived /\ Settled /\ (\A e \in Emails : Covers(e)) /\ [Next]_vars
       => \A e \in Emails : Covers(e)'
<1> SUFFICES ASSUME TypeOK, Arrived, Settled, [Next]_vars, NEW e \in Emails, Covers(e)
             PROVE  Covers(e)'
    OBVIOUS
<1>1. ASSUME NEW a \in Attempts, NEW f \in Emails, Arrive(a, f) PROVE Covers(e)'
    BY <1>1, CoversFrame DEF Arrive
<1>2. ASSUME NEW a \in Attempts, CheckIP(a) \/ CheckCredential(a) \/ LookupFails(a)
      PROVE  Covers(e)'
    <2>1. \A b \in standing[e] : ended'[b] = ended[b]
        BY <1>2 DEF CheckIP, CheckCredential, LookupFails, Check, Answer, Settled, TypeOK
    <2> QED
        BY <1>2, <2>1, CoversFrame DEF CheckIP, CheckCredential, LookupFails
<1>3. ASSUME NEW a \in Attempts, WrongPassword(a) \/ RightPassword(a) PROVE Covers(e)'
    BY <1>3, CoversFrame DEF WrongPassword, RightPassword
<1>4. ASSUME NEW a \in Attempts, RecordFailure(a) PROVE Covers(e)'
    BY <1>4, CoversCount
<1>5. ASSUME NEW a \in Attempts, Reset(a) PROVE Covers(e)'
    <2>1. \A b \in standing[e] : ended'[b] = ended[b]
        BY <1>5 DEF Reset, Answer, Settled, TypeOK
    <2>2. CASE counter'[e] = counter[e] /\ standing'[e] = standing[e]
        BY <1>5, <2>1, <2>2, CoversFrame DEF Reset
    <2>3. CASE counter'[e] = None /\ standing'[e] = {}
        BY <2>3 DEF Covers
    <2> QED
        BY <1>5, <2>2, <2>3 DEF Reset, TypeOK
<1>6. CASE Tick
    BY <1>6, CoversTick
<1>7. CASE UNCHANGED vars
    BY <1>7, CoversFrame DEF vars
<1> QED
    BY <1>1, <1>2, <1>3, <1>4, <1>5, <1>6, <1>7 DEF Next, AllAnswered

-----------------------------------------------------------------------------
\* Every step of the limiter preserves the invariant.
LEMMA LimiterStep == IInv /\ [Next]_vars => IInv'
BY TypeStep, ArrivedStep, SettledStep, CoversStep DEF IInv

\* The inductive invariant holds throughout.
THEOREM LimiterInvariance == Spec => []IInv
BY InitOK, LimiterStep, PTL DEF Spec

\* A credential that passes its check has fewer than Limit failures against it.
LEMMA PassesBelowLimit ==
    ASSUME IInv, NEW a \in Attempts, CheckCredential(a), pc'[a] = "verify"
    PROVE  Cardinality(standing[email[a]]) < Limit
<1> USE DEF IInv, TypeOK
<1>1. Allowed(counter[email[a]], Limit)
    BY DEF CheckCredential, Check, Answer, Goto
<1>2. email[a] \in Emails /\ Covers(email[a])
    BY DEF Arrived, CheckCredential
<1>3. CASE counter[email[a]] = None
    BY <1>2, <1>3, FS_EmptySet, Policy DEF Covers
<1>4. CASE counter[email[a]] # None
    <2>1. /\ counter[email[a]].count \in Nat
          /\ counter[email[a]].count < Limit
          /\ IsFiniteSet(standing[email[a]])
          /\ Cardinality(standing[email[a]]) <= counter[email[a]].count
        BY <1>1, <1>2, <1>4 DEF Covers, Allowed, Counter
    <2>2. Cardinality(standing[email[a]]) \in Nat
        BY <2>1, FS_CardinalityType
    <2> QED
        BY <2>1, <2>2, Policy
<1> QED
    BY <1>3, <1>4

\* Only the check of a's own credential takes a to the verdict.
LEMMA OnlyItsCheckPasses ==
    ASSUME TypeOK, NEW a \in Attempts, pc[a] = "checkCredential", pc'[a] = "verify", [Next]_vars
    PROVE  CheckCredential(a)
<1> USE DEF Goto, Answer, TypeOK
<1>1. ASSUME NEW b \in Attempts,
             CheckIP(b) \/ CheckCredential(b) \/ LookupFails(b) \/ WrongPassword(b)
                \/ RightPassword(b) \/ RecordFailure(b) \/ Reset(b)
      PROVE  CheckCredential(a)
    <2>1. b = a
        BY <1>1 DEF CheckIP, CheckCredential, Check, LookupFails, WrongPassword,
            RightPassword, RecordFailure, Settle, Reset
    <2> QED
        BY <1>1, <2>1 DEF CheckIP, LookupFails, WrongPassword, RightPassword,
            RecordFailure, Reset
<1>2. ~\E b \in Attempts, e \in Emails : Arrive(b, e)
    BY DEF Arrive
<1>3. ~Tick /\ ~AllAnswered /\ ~UNCHANGED vars
    BY DEF Tick, AllAnswered, vars
<1> QED
    BY <1>1, <1>2, <1>3 DEF Next

\* The check of the credential counter lets no attempt through once Limit counted
\* failures stand against it, however the attempts and the failures interleave.
THEOREM CredentialLimitHolds == Spec => LimitHolds
<1> DEFINE Passing ==
        \A a \in Attempts :
           pc[a] = "checkCredential" /\ pc'[a] = "verify" =>
              Cardinality(standing[email[a]]) < Limit
<1>1. IInv /\ [Next]_vars => [Passing]_vars
    BY OnlyItsCheckPasses, PassesBelowLimit DEF IInv
<1>2. LimitHolds <=> [][Passing]_vars
    BY DEF LimitHolds
<1> QED
    BY LimiterInvariance, <1>1, <1>2, PTL DEF Spec

\* What stands is younger than its counter.
LEMMA StandingIsRecent == IInv => OldFailuresForgotten
<1> SUFFICES ASSUME IInv, NEW e \in Emails, NEW a \in standing[e]
             PROVE  clock < ended[a] + Window
    BY DEF OldFailuresForgotten
<1>1. counter[e] # None /\ clock < counter[e].expires
      /\ counter[e].expires <= ended[a] + Window
    BY DEF IInv, Covers
<1>2. clock \in Nat /\ counter[e].expires \in Nat /\ ended[a] + Window \in Nat
    BY <1>1, Policy DEF IInv, TypeOK, Counter
<1> QED
    BY <1>1, <1>2

\* No failure is held against a credential for longer than Window: only the first
\* increment sets the expiry of a counter.
THEOREM FailuresAreForgotten == Spec => []OldFailuresForgotten
BY LimiterInvariance, StandingIsRecent, PTL

\* Type correctness of the limiter.
THEOREM LimiterTypes == Spec => []TypeOK
BY LimiterInvariance, PTL DEF IInv

-----------------------------------------------------------------------------
(* The path *)

IP == INSTANCE IdempotencyProofs WITH Calls <- Attempts, pc <- stage, Faults <- LayerFaults

\* The stages before the handler of a call runs.
Early == {"idle", "claim", "waiting"}

\* The handler and the middleware agree on where a call is and on its answer, and the
\* handler gives a session for a right password only.
Agreeing ==
    \A c \in Attempts :
        /\ stage[c] \in Early => pc[c] = "idle"
        /\ pc[c] # "done" => answer[c] = None /\ outcome[c] = None
        /\ pc[c] = "done" =>
              /\ outcome[c] # None /\ answer[c] \in Answers
              /\ outcome[c].status = "failed" <=> answer[c] = "error"
              /\ outcome[c].status = "ok" => body[c].correct
        /\ pc[c] = "reset" => body[c].correct

\* Is the answer stored for c not ResponseTTL old yet?
Lasts(c) == stored[c] # None /\ clock < stored[c] + ResponseTTL

\* As long as it is not, the key holds an answer.
Kept ==
    /\ stored \in [Attempts -> Nat \cup {None}]
    /\ \A c \in Attempts : Lasts(c) =>
          /\ record # None /\ record.answer # None
          /\ record.expires >= stored[c] + ResponseTTL

OwnInv == Agreeing /\ Kept

-----------------------------------------------------------------------------
\* The two instances of the middleware are the same.
LEMMA SameMiddleware ==
    /\ Idem!Init => IP!Init
    /\ [Idem!Next]_(Idem!vars) => [IP!Next]_(IP!vars)
<1>1. Idem!Init => IP!Init
    BY DEF Idem!Init, IP!Init
<1>2. [Idem!Next]_(Idem!vars) => [IP!Next]_(IP!vars)
    BY DEF Idem!Next, IP!Next, Idem!vars, IP!vars, Idem!calls, IP!calls, Idem!Arrive,
    IP!Arrive, Idem!Progress, IP!Progress, Idem!Claim, IP!Claim, Idem!ClaimFails,
    IP!ClaimFails, Idem!ClaimUnheard, IP!ClaimUnheard, Idem!Conflict, IP!Conflict,
    Idem!Replay, IP!Replay, Idem!RefuseInProgress, IP!RefuseInProgress, Idem!Wait,
    IP!Wait, Idem!PollAgain, IP!PollAgain, Idem!StopWaiting, IP!StopWaiting,
    Idem!LogIn, IP!LogIn, Idem!Reject, IP!Reject, Idem!HandlerFails,
    IP!HandlerFails, Idem!HandlerEnds, IP!HandlerEnds, Idem!Mint, IP!Mint,
    Idem!Flush, IP!Flush, Idem!Save, IP!Save, Idem!SavedRecord, IP!SavedRecord,
    Idem!Release, IP!Release, Idem!Disconnect, IP!Disconnect, Idem!Crash, IP!Crash,
    Idem!Tick, IP!Tick, Idem!AllEnded, IP!AllEnded, Idem!Reserve, IP!Reserve,
    Idem!Found, IP!Found, Idem!SameBody, IP!SameBody, Idem!WaitedTooLong,
    IP!WaitedTooLong, Idem!Receive, IP!Receive, Idem!Alive, IP!Alive, Idem!Goto,
    IP!Goto, Idem!Ended, IP!Ended, Idem!Handling, IP!Handling
<1> QED
    BY <1>1, <1>2

\* The path's constants are what Idempotency assumes of its own.
LEMMA MiddlewareAssumptions ==
    /\ IP!DurationsAssumption /\ IP!FaultsAssumption
    /\ IP!BoundsAssumption /\ IP!NoneAssumption
<1>1. IP!DurationsAssumption
    BY LayerDurations DEF IP!DurationsAssumption
<1>2. IP!FaultsAssumption /\ IP!BoundsAssumption
    BY LayerDurations, BoundsAssumption
    DEF IP!FaultsAssumption, IP!BoundsAssumption, LayerFaults
<1>3. IP!NoneAssumption
    BY LayerNone, NoneAssumption
    DEF IP!NoneAssumption, IP!Response, IP!Record, IP!Refusal, Idem!Response, Idem!Record,
        Idem!Refusal
<1> QED
    BY <1>1, <1>2, <1>3

\* Durations of the store.
LEMMA StoreDurations ==
    /\ ReservationTTL \in Nat /\ ResponseTTL \in Nat /\ RequestTimeout \in Nat
    /\ RequestTimeout < ReservationTTL
BY LayerDurations

\* What the middleware does with c besides running its handler.
Surrounds(c) ==
    \/ (\E b \in Bodies : Idem!Arrive(c, b)) /\ UNCHANGED <<limiter, stored>>
    \/ Around(c) \/ Save(c) \/ Dies(c)

\* It leaves the handler alone.
LEMMA MiddlewareFrame ==
    ASSUME NEW c \in Attempts, Surrounds(c)
    PROVE  UNCHANGED <<clock, limiter>> /\ Idem!Next
<1>1. CASE (\E b \in Bodies : Idem!Arrive(c, b)) /\ UNCHANGED <<limiter, stored>>
    BY <1>1 DEF Idem!Arrive, Idem!Next
<1>2. CASE Around(c)
    BY <1>2 DEF Around, Idem!Next, Idem!Progress, Idem!Claim, Idem!ClaimFails,
        Idem!ClaimUnheard, Idem!Conflict, Idem!Replay, Idem!RefuseInProgress, Idem!Wait,
        Idem!StopWaiting, Idem!PollAgain, Idem!Flush, Idem!Release
<1>3. CASE Save(c)
    BY <1>3 DEF Save, Idem!Next, Idem!Progress, Idem!Save
<1>4. CASE Dies(c)
    BY <1>4 DEF Dies, Idem!Next, Idem!Disconnect, Idem!Crash
<1> QED
    BY <1>1, <1>2, <1>3, <1>4 DEF Surrounds

\* No step of a handler touches the clock.
LEMMA LimiterFrame == ASSUME NEW c \in Attempts, Handle(c) PROVE clock' = clock
BY DEF Handle, Verify, Arrive, CheckIP, CheckCredential, LookupFails, WrongPassword,
    RightPassword, RecordFailure, Reset, ContextDead

\* Every step of the path is one of these.
LEMMA PathSteps ==
    [PathNext]_pathVars =>
       \/ \E c \in Attempts : Surrounds(c) \/ Handle(c)
       \/ Others \/ PathTick \/ UNCHANGED pathVars
BY DEF PathNext, PathEnded, Retry, Surrounds

\* Every step of the path is a step of the middleware, or none.
LEMMA PathStepsMiddleware == [PathNext]_pathVars => [IP!Next]_(IP!vars)
<1> SUFFICES ASSUME [PathNext]_pathVars PROVE [Idem!Next]_(Idem!vars)
    BY SameMiddleware
<1>1. ASSUME NEW c \in Attempts, Handle(c) PROVE [Idem!Next]_(Idem!vars)
    <2>1. clock' = clock
        BY <1>1, LimiterFrame
    <2>2. CASE UNCHANGED layer
        BY <2>1, <2>2 DEF layer, Idem!vars, Idem!calls
    <2>3. CASE Idem!LogIn(c) \/ Idem!Reject(c) \/ Idem!HandlerFails(c)
        BY <2>3 DEF Idem!Next, Idem!Progress
    <2> QED
        BY <1>1, <2>2, <2>3 DEF Handle, Ends
<1>2. ASSUME NEW c \in Attempts, Surrounds(c) PROVE Idem!Next
    BY <1>2, MiddlewareFrame
<1>3. CASE Others \/ UNCHANGED pathVars
    <2>1. UNCHANGED <<clock, layer>>
        BY <1>3 DEF Others, pathVars
    <2> QED
        BY <2>1 DEF layer, Idem!vars, Idem!calls
<1>4. CASE PathTick
    BY <1>4 DEF PathTick, Idem!Next
<1> QED
    BY <1>1, <1>2, <1>3, <1>4, PathSteps

\* In front of the login handler, with every fault of its own, the middleware does
\* what Idempotency says, so its theorems hold of POST /v1/auth/login.
THEOREM PathRunsTheMiddleware == PathSpec => IP!Spec
<1>1. PathInit => IP!Init
    BY SameMiddleware DEF PathInit
<1> QED
    BY <1>1, PathStepsMiddleware, PTL DEF PathSpec, IP!Spec

\* The invariant of the middleware holds on the path.
LEMMA PathMiddlewareInvariance == PathSpec => []IP!IInv
<1>1. IP!Spec => []IP!IInv
    BY IP!IdempotencyInvariance, MiddlewareAssumptions
<1> QED
    BY <1>1, PathRunsTheMiddleware, PTL

-----------------------------------------------------------------------------
(* The limiter on the path *)

\* The body of a call the middleware let through names an email.
LEMMA HandledBody ==
    ASSUME IP!IInv, NEW c \in Attempts, stage[c] \in {"run", "runBare"}
    PROVE  body[c] \in Bodies /\ body[c].email \in Emails /\ body[c].correct \in BOOLEAN
<1>1. body[c] \in Bodies
    BY DEF IP!IInv, IP!TypeOK, IP!Fresh
<1> QED
    BY <1>1 DEF Bodies

\* A step of a handler is one of the limiter, whether its context is alive or not.
LEMMA HandleIsAttempt ==
    ASSUME IP!IInv, NEW c \in Attempts, Handle(c) PROVE Next
<1>1. CASE Arrive(c, body[c].email)
    BY <1>1, HandledBody DEF Next, Handle
<1>2. CASE CheckIP(c) \/ CheckCredential(c) \/ LookupFails(c) \/ Verify(c)
           \/ RecordFailure(c) \/ Reset(c) \/ ContextDead(c)
    BY <1>2 DEF Next, Verify, ContextDead
<1> QED
    BY <1>1, <1>2 DEF Handle

\* Every step of the path is one of the limiter, one of an attempt with another key,
\* or none.
LEMMA PathStepsLimiter == IP!IInv /\ [PathNext]_pathVars => [Next]_vars \/ Others
<1> SUFFICES ASSUME IP!IInv, [PathNext]_pathVars PROVE [Next]_vars \/ Others
    OBVIOUS
<1>1. ASSUME NEW c \in Attempts, Handle(c) PROVE Next
    BY <1>1, HandleIsAttempt
<1>2. ASSUME NEW c \in Attempts, Surrounds(c) PROVE UNCHANGED vars
    BY <1>2, MiddlewareFrame DEF limiter, vars
<1>3. CASE PathTick
    BY <1>3 DEF PathTick, Next
<1>4. CASE UNCHANGED pathVars
    BY <1>4 DEF pathVars, limiter, vars
<1> QED
    BY <1>1, <1>2, <1>3, <1>4, PathSteps

\* An attempt with another key counts and resets as the limiter does.
LEMMA OthersKeep == ASSUME IInv, Others PROVE IInv'
<1>1. PICK f \in Emails :
          \/ /\ counter' = [counter EXCEPT ![f] = Incremented(counter[f])]
             /\ standing' = standing
          \/ /\ counter' = [counter EXCEPT ![f] = None]
             /\ standing' = [standing EXCEPT ![f] = {}]
    BY DEF Others
<1>2. UNCHANGED <<clock, ipCounter, pc, email, pending, answer, ended>>
    BY DEF Others
<1> USE DEF IInv, TypeOK
<1>3. PICK one : one = Incremented(counter[f])
    OBVIOUS
<1>4. /\ one \in Counter
      /\ counter[f] # None => one.count = counter[f].count + 1 /\ one.expires = counter[f].expires
      /\ counter[f] = None => one.count = 1 /\ one.expires = clock + Window
    BY <1>3, IncrementedType
<1>5. TypeOK'
    BY <1>1, <1>2, <1>3, <1>4
<1>6. Arrived' /\ Settled'
    BY <1>1, <1>2 DEF Arrived, Settled
<1>7. ASSUME NEW e \in Emails PROVE Covers(e)'
    <2>1. CASE counter'[e] = counter[e] /\ standing'[e] = standing[e]
        BY <1>2, <2>1, CoversFrame
    <2>2. CASE counter'[e] = None /\ standing'[e] = {}
        BY <2>2 DEF Covers
    <2>3. CASE e = f /\ counter'[e] = one /\ standing'[e] = standing[e]
        <3>1. one # None /\ one.count \in Nat \ {0} /\ one.expires \in Nat
            BY <1>4, NoneAssumption DEF Counter
        <3>2. CASE counter[f] = None
            <4>1. standing'[e] = {}
                BY <2>3, <3>2 DEF Covers
            <4>2. IsFiniteSet(standing'[e]) /\ Cardinality(standing'[e]) = 0
                BY <4>1, FS_EmptySet
            <4> QED
                BY <1>2, <1>4, <2>3, <3>1, <3>2, <4>1, <4>2, Policy DEF Covers
        <3>3. CASE counter[f] # None
            <4>1. /\ IsFiniteSet(standing[e]) /\ Cardinality(standing[e]) \in Nat
                  /\ Cardinality(standing[e]) <= counter[e].count
                  /\ counter[e].count \in Nat
                BY <2>3, <3>3, FS_CardinalityType DEF Covers, Counter
            <4>2. Cardinality(standing[e]) <= one.count
                BY <1>4, <2>3, <3>1, <3>3, <4>1
            <4> QED
                BY <1>2, <1>4, <2>3, <3>1, <3>3, <4>1, <4>2 DEF Covers
        <3> QED
            BY <3>2, <3>3
    <2> QED
        BY <1>1, <1>3, <2>1, <2>2, <2>3
<1> QED
    BY <1>5, <1>6, <1>7

\* The invariant of the limiter holds on the path.
LEMMA PathLimiterStep == IInv /\ IP!IInv /\ [PathNext]_pathVars => IInv'
BY PathStepsLimiter, LimiterStep, OthersKeep

\* The limiter keeps its invariant behind the middleware.
LEMMA PathLimiterInvariance == PathSpec => []IInv
<1>1. PathInit => IInv
    BY InitOK DEF PathInit
<1> QED
    BY <1>1, PathLimiterStep, PathMiddlewareInvariance, PTL DEF PathSpec

\* Repeated calls do not get past the limit of a credential either: whether the
\* middleware protects a call or lets it pass unprotected, its handler checks the counter.
THEOREM CredentialLimitHoldsOnThePath == PathSpec => LimitHolds
<1> DEFINE Passing ==
        \A a \in Attempts :
           pc[a] = "checkCredential" /\ pc'[a] = "verify" =>
              Cardinality(standing[email[a]]) < Limit
<1>1. IInv /\ IP!IInv /\ [PathNext]_pathVars => [Passing]_vars
    <2> SUFFICES ASSUME IInv, IP!IInv, [PathNext]_pathVars, NEW a \in Attempts,
                        pc[a] = "checkCredential", pc'[a] = "verify"
                 PROVE  Cardinality(standing[email[a]]) < Limit
        OBVIOUS
    <2>1. CASE [Next]_vars
        BY <2>1, OnlyItsCheckPasses, PassesBelowLimit DEF IInv
    <2>2. CASE Others
        BY <2>2 DEF Others
    <2> QED
        BY <2>1, <2>2, PathStepsLimiter
<1>2. LimitHolds <=> [][Passing]_vars
    BY DEF LimitHolds
<1> QED
    BY PathLimiterInvariance, PathMiddlewareInvariance, <1>1, <1>2, PTL DEF PathSpec

\* Nor does a repeated call extend the window of the failures before it.
THEOREM FailuresAreForgottenOnThePath == PathSpec => []OldFailuresForgotten
BY PathLimiterInvariance, StandingIsRecent, PTL

-----------------------------------------------------------------------------
(* What a step of the path does to one call *)

\* Calls other than c stay what they are.
Untouched(c) ==
    \A e \in Attempts \ {c} :
        /\ stage'[e] = stage[e] /\ body'[e] = body[e]
        /\ outcome'[e] = outcome[e] /\ minted'[e] = minted[e]
        /\ pc'[e] = pc[e] /\ answer'[e] = answer[e] /\ pending'[e] = pending[e]

\* The handler moves on with c.
GoesOn(c) ==
    /\ UNCHANGED layer /\ pc'[c] \notin {"idle", "done"}
    /\ answer'[c] = answer[c]
    /\ pc'[c] = "reset" => body[c].correct

\* The handler answers, and the middleware has what it wrote.
IsAnswered(c) ==
    /\ pc'[c] = "done" /\ answer'[c] \in Answers
    /\ outcome'[c] # None
    /\ outcome'[c].status = "failed" <=> answer'[c] = "error"
    /\ outcome'[c].status = "ok" => body[c].correct
    /\ UNCHANGED <<record, body, since, cancelled>>
    /\ stage'[c] \in {"flush", "done"}

\* Every step of a handler is one of the two, and with a dead context it neither
\* creates a session nor counts a failure.
LEMMA HandlerStep ==
    ASSUME IInv, IP!IInv, Agreeing, NEW c \in Attempts, Handle(c)
    PROVE  /\ clock' = clock /\ stored' = stored /\ Untouched(c)
           /\ stage[c] \in {"run", "runBare"}
           /\ GoesOn(c) \/ IsAnswered(c)
           /\ ~Idem!Alive(c) =>
                 /\ minted' = minted
                 /\ pending'[c] # pending[c] => counter' = counter
<1>1. /\ stage[c] \in {"run", "runBare"} /\ stored' = stored /\ clock' = clock
    BY LimiterFrame DEF Handle
<1>2. /\ pc \in [Attempts -> {"idle", "checkIP", "checkCredential", "verify",
                              "count", "reset", "done"}]
      /\ answer \in [Attempts -> Answers \cup {None}] /\ pending \in [Attempts -> Nat]
    BY DEF IInv, TypeOK
<1>3. outcome[c] = None /\ body[c] \in Bodies
    BY <1>1, HandledBody DEF IP!IInv, IP!Outcomes
<1>4. pc[c] # "done" /\ answer[c] = None
    BY <1>3 DEF Agreeing
<1>5. /\ \A e \in Attempts \ {c} :
             pc'[e] = pc[e] /\ answer'[e] = answer[e] /\ pending'[e] = pending[e]
      /\ \/ /\ pc'[c] \notin {"idle", "done"} /\ answer'[c] = answer[c]
            /\ pc'[c] = "reset" => body[c].correct
         \/ /\ pc'[c] = "done" /\ answer'[c] \in Answers
            /\ answer'[c] = "ok" => pc[c] = "reset"
      /\ ~Idem!Alive(c) /\ pending'[c] # pending[c] => counter' = counter
    <2> USE <1>1, <1>2, <1>4 DEF Goto, Answer, Answers
    <2>1. CASE Arrive(c, body[c].email)
        BY <2>1 DEF Arrive
    <2>2. CASE Idem!Alive(c) /\ (CheckIP(c) \/ CheckCredential(c))
        BY <2>2 DEF CheckIP, CheckCredential, Check
    <2>3. CASE LookupFails(c)
        BY <2>3 DEF LookupFails
    <2>4. CASE Idem!Alive(c) /\ Verify(c)
        BY <2>4 DEF Verify, RightPassword, WrongPassword
    <2>5. CASE RecordFailure(c) /\ (Idem!Alive(c) \/ counter' = counter)
        BY <2>5 DEF RecordFailure, Settle
    <2>6. CASE Reset(c)
        BY <2>6 DEF Reset
    <2> QED
        BY <2>1, <2>2, <2>3, <2>4, <2>5, <2>6 DEF Handle, ContextDead
<1>6. pc[c] = "reset" => body[c].correct
    BY DEF Agreeing
<1>7. /\ stage \in [Attempts -> IP!PCs] /\ outcome \in [Attempts -> IP!Response \cup {None}]
      /\ minted \in [Attempts -> Nat \cup {None}]
    BY DEF IP!IInv, IP!TypeOK, IP!PCs
<1>8. CASE Ends(c) /\ pc'[c] # "done"
    <2>1. answer'[c] = None
        BY <1>4, <1>5, <1>8
    <2>2. UNCHANGED layer
        BY <1>8, <2>1, LayerNone DEF Ends, Answers
    <2> QED
        BY <1>1, <1>4, <1>5, <1>8, <2>2 DEF Untouched, GoesOn, layer
<1>9. CASE Ends(c) /\ pc'[c] = "done"
    <2>1. answer'[c] \in Answers /\ (answer'[c] = "ok" => body[c].correct)
        BY <1>5, <1>6, <1>9
    <2>2. PICK status \in {"ok", "rejected", "failed"} :
              /\ Idem!HandlerEnds(c, status)
              /\ status = "ok" <=> answer'[c] = "ok"
              /\ status = "failed" <=> answer'[c] = "error"
              /\ minted' = minted \/ (Idem!Alive(c) /\ Idem!Mint(c))
        <3>1. CASE answer'[c] = "ok" /\ Idem!LogIn(c)
            BY <3>1 DEF Idem!LogIn
        <3>2. CASE answer'[c] \in Answers \ {"ok", "error"} /\ Idem!Reject(c)
            BY <3>2 DEF Idem!Reject
        <3>3. CASE answer'[c] = "error" /\ Idem!HandlerFails(c)
            BY <3>3 DEF Idem!HandlerFails
        <3> QED
            BY <1>9, <3>1, <3>2, <3>3 DEF Ends
    <2>3. /\ outcome' = [outcome EXCEPT ![c] = [status |-> status, by |-> c]]
          /\ UNCHANGED <<record, body, since, cancelled>>
          /\ \/ stage' = [stage EXCEPT ![c] = "flush"]
             \/ stage' = [stage EXCEPT ![c] = "done"]
        BY <2>2 DEF Idem!HandlerEnds, Idem!Goto
    <2>4. outcome'[c] # None /\ outcome'[c].status = status
        <3>1. [status |-> status, by |-> c] \in Idem!Response
            BY DEF Idem!Response
        <3> QED
            BY <1>7, <2>3, <3>1, LayerNone
    <2>5. IsAnswered(c)
        BY <1>7, <1>9, <2>1, <2>2, <2>3, <2>4 DEF IsAnswered
    <2>6. \A e \in Attempts \ {c} : minted'[e] = minted[e]
        BY <1>7, <2>2 DEF Idem!Mint
    <2>7. Untouched(c)
        BY <1>5, <1>7, <2>3, <2>6 DEF Untouched
    <2> QED
        BY <1>1, <1>5, <2>2, <2>5, <2>7
<1> QED
    BY <1>8, <1>9 DEF Handle

\* While the context of a call that holds the key is alive, no answer is stored.
LEMMA NoAnswerYet ==
    ASSUME IP!IInv, NEW c \in Attempts, Idem!Alive(c),
           stage[c] \in {"run", "flush", "save", "release"}
    PROVE  record # None /\ record.answer = None
BY DEF IP!IInv, IP!Holders, IP!Holds, IP!Handling, IP!Alive, Idem!Alive

\* A step of the middleware with c.  It writes the key where there is none, or where
\* it holds c's own reservation.
LEMMA MiddlewareStep ==
    ASSUME IP!IInv, NEW c \in Attempts, Surrounds(c)
    PROVE  /\ clock' = clock /\ UNCHANGED <<limiter, outcome, minted>> /\ Untouched(c)
           /\ stage'[c] \in Early => stage[c] \in Early
           /\ body'[c] = body[c] \/ stage[c] = "idle"
           /\ \/ UNCHANGED <<record, stored>>
              \/ record = None /\ stored' = stored
              \/ record # None /\ record.answer = None /\ stored' = stored
              \/ /\ record # None /\ record.answer = None /\ stage[c] = "save"
                 /\ record' = Idem!SavedRecord(c)
                 /\ stored' = [stored EXCEPT ![c] = clock]
<1>1. UNCHANGED <<clock, limiter>>
    BY MiddlewareFrame
<1>2. /\ stage \in [Attempts -> IP!PCs] /\ body \in [Attempts -> Bodies \cup {None}]
    BY DEF IP!IInv, IP!TypeOK, IP!PCs
<1>3. pc' = pc /\ answer' = answer /\ pending' = pending
    BY <1>1 DEF limiter
<1> USE <1>1, <1>2, <1>3 DEF Untouched, Idem!Goto, Idem!calls, Early
<1>4. CASE (\E b \in Bodies : Idem!Arrive(c, b)) /\ UNCHANGED <<limiter, stored>>
    BY <1>4 DEF Idem!Arrive
<1>5. CASE Around(c)
    <2> stored' = stored
        BY <1>5 DEF Around
    <2>1. CASE Idem!Claim(c) \/ Idem!ClaimUnheard(c) \/ Idem!ClaimFails(c)
        BY <2>1 DEF Idem!Claim, Idem!ClaimUnheard, Idem!ClaimFails, Idem!Reserve
    <2>2. CASE Idem!Conflict(c) \/ Idem!Replay(c) \/ Idem!RefuseInProgress(c) \/ Idem!Wait(c)
        BY <2>2 DEF Idem!Conflict, Idem!Replay, Idem!RefuseInProgress, Idem!Wait, Idem!Found
    <2>3. CASE Idem!StopWaiting(c) \/ Idem!PollAgain(c)
        BY <2>3 DEF Idem!StopWaiting, Idem!PollAgain
    <2>4. CASE Idem!Flush(c)
        BY <2>4 DEF Idem!Flush
    <2>5. CASE Idem!Release(c)
        <3>1. record' = record \/ (record # None /\ record.answer = None)
            BY <2>5, NoAnswerYet DEF Idem!Release
        <3> QED
            BY <2>5, <3>1 DEF Idem!Release
    <2> QED
        BY <1>5, <2>1, <2>2, <2>3, <2>4, <2>5 DEF Around
<1>6. CASE Save(c)
    <2>1. CASE record' = record
        BY <1>6, <2>1 DEF Save, Idem!Save
    <2>2. CASE record' # record
        <3>1. Idem!Alive(c) /\ stage[c] = "save" /\ record' = Idem!SavedRecord(c)
              /\ stored' = [stored EXCEPT ![c] = clock]
            BY <1>6, <2>2 DEF Save, Idem!Save
        <3>2. record # None /\ record.answer = None
            BY <3>1, NoAnswerYet
        <3> QED
            BY <1>6, <3>1, <3>2 DEF Save, Idem!Save
    <2> QED
        BY <2>1, <2>2
<1>7. CASE Dies(c)
    BY <1>7 DEF Dies, Idem!Disconnect, Idem!Crash, IP!Handling
<1> QED
    BY <1>4, <1>5, <1>6, <1>7 DEF Surrounds

-----------------------------------------------------------------------------
(* The invariant of the path *)

\* At the start nobody has been answered.
LEMMA PathInitOK == PathInit => OwnInv
<1> SUFFICES ASSUME PathInit PROVE OwnInv
    OBVIOUS
<1>1. \A c \in Attempts :
          pc[c] = "idle" /\ answer[c] = None /\ outcome[c] = None /\ stored[c] = None
    BY DEF PathInit, Init, Idem!Init
<1>2. stored \in [Attempts -> Nat \cup {None}]
    BY DEF PathInit
<1> QED
    BY <1>1, <1>2 DEF OwnInv, Agreeing, Kept, Lasts

\* What c's middleware does leaves a stored answer alone until it expires.
LEMMA AnswersAreKept ==
    ASSUME OwnInv, IP!IInv, NEW c \in Attempts, Surrounds(c)
    PROVE  Kept'
<1>1. clock' = clock /\ clock \in Nat
    BY MiddlewareStep DEF IP!IInv, IP!TypeOK
<1>2. CASE UNCHANGED <<record, stored>>
    BY <1>1, <1>2 DEF OwnInv, Kept, Lasts
<1>3. CASE (record = None \/ record.answer = None) /\ stored' = stored
    <2>1. \A e \in Attempts : ~Lasts(e)
        BY <1>3 DEF OwnInv, Kept
    <2> QED
        BY <1>1, <1>3, <2>1 DEF OwnInv, Kept, Lasts
<1>4. CASE /\ record # None /\ record.answer = None /\ stage[c] = "save"
           /\ record' = Idem!SavedRecord(c)
           /\ stored' = [stored EXCEPT ![c] = clock]
    <2>1. \A e \in Attempts : ~Lasts(e)
        BY <1>4 DEF OwnInv, Kept
    <2>2. outcome[c] # None /\ outcome[c] \in IP!Response /\ body[c] \in Bodies
        BY <1>4 DEF IP!IInv, IP!Outcomes, IP!TypeOK, IP!Fresh
    <2>3. /\ record'.answer = outcome[c] /\ record'.expires = clock + ResponseTTL
          /\ record' \in Idem!Record
        <3>1. clock + ResponseTTL \in Nat /\ outcome[c] \in Idem!Response
            BY <1>1, <2>2, StoreDurations DEF IP!Response, Idem!Response
        <3> QED
            BY <1>4, <2>2, <3>1 DEF Idem!SavedRecord, Idem!Record
    <2>4. record' # None
        BY <2>3, LayerNone
    <2>5. stored' \in [Attempts -> Nat \cup {None}]
        BY <1>1, <1>4 DEF OwnInv, Kept
    <2>6. ASSUME NEW e \in Attempts, Lasts(e)'
          PROVE  record'.expires >= stored'[e] + ResponseTTL
        <3>1. e = c
            BY <1>1, <1>4, <2>1, <2>6 DEF OwnInv, Kept, Lasts
        <3>2. stored'[e] = clock
            BY <1>4, <3>1 DEF OwnInv, Kept
        <3> QED
            BY <1>1, <2>3, <3>2, StoreDurations
    <2> QED
        BY <2>2, <2>3, <2>4, <2>5, <2>6 DEF Kept
<1> QED
    BY <1>2, <1>3, <1>4, MiddlewareStep

\* Nor does it change what the handler and the middleware know of c's answer.
LEMMA MiddlewareAgrees ==
    ASSUME OwnInv, IP!IInv, NEW c \in Attempts, Surrounds(c)
    PROVE  Agreeing'
<1>1. /\ UNCHANGED <<limiter, outcome>> /\ Untouched(c)
      /\ stage'[c] \in Early => stage[c] \in Early
      /\ body'[c] = body[c] \/ stage[c] = "idle"
    BY MiddlewareStep
<1>2. pc' = pc /\ answer' = answer
    BY <1>1 DEF limiter
<1> SUFFICES ASSUME NEW e \in Attempts
             PROVE  /\ stage'[e] \in Early => pc'[e] = "idle"
                    /\ pc'[e] # "done" => answer'[e] = None /\ outcome'[e] = None
                    /\ pc'[e] = "done" =>
                          /\ outcome'[e] # None /\ answer'[e] \in Answers
                          /\ outcome'[e].status = "failed" <=> answer'[e] = "error"
                          /\ outcome'[e].status = "ok" => body'[e].correct
                    /\ pc'[e] = "reset" => body'[e].correct
    BY DEF Agreeing
<1>3. /\ stage[e] \in Early => pc[e] = "idle"
      /\ pc[e] # "done" => answer[e] = None /\ outcome[e] = None
      /\ pc[e] = "done" =>
            /\ outcome[e] # None /\ answer[e] \in Answers
            /\ outcome[e].status = "failed" <=> answer[e] = "error"
            /\ outcome[e].status = "ok" => body[e].correct
      /\ pc[e] = "reset" => body[e].correct
    BY DEF OwnInv, Agreeing
<1>4. stage'[e] \in Early => stage[e] \in Early
    BY <1>1 DEF Untouched
<1>5. body'[e] = body[e] \/ pc[e] = "idle"
    BY <1>1, <1>3 DEF Untouched, Early
<1> QED
    BY <1>1, <1>2, <1>3, <1>4, <1>5

\* A step of a handler writes neither the key nor what was stored.
LEMMA HandlerKeeps ==
    ASSUME OwnInv, IInv, IP!IInv, NEW c \in Attempts, Handle(c)
    PROVE  OwnInv'
<1>1. /\ clock' = clock /\ stored' = stored /\ Untouched(c)
      /\ stage[c] \in {"run", "runBare"}
      /\ GoesOn(c) \/ IsAnswered(c)
    BY HandlerStep DEF OwnInv
<1>2. /\ UNCHANGED <<record, body>>
      /\ stage'[c] \notin Early
    BY <1>1 DEF GoesOn, IsAnswered, layer, Early
<1>3. Agreeing'
    <2>1. ASSUME NEW e \in Attempts
          PROVE  /\ stage'[e] \in Early => pc'[e] = "idle"
                 /\ pc'[e] # "done" => answer'[e] = None /\ outcome'[e] = None
                 /\ pc'[e] = "done" =>
                       /\ outcome'[e] # None /\ answer'[e] \in Answers
                       /\ outcome'[e].status = "failed" <=> answer'[e] = "error"
                       /\ outcome'[e].status = "ok" => body'[e].correct
                 /\ pc'[e] = "reset" => body'[e].correct
        <3>1. CASE e = c
            <4>1. outcome[c] = None
                BY <1>1 DEF IP!IInv, IP!Outcomes
            <4>2. pc[c] # "done" /\ answer[c] = None
                BY <4>1 DEF OwnInv, Agreeing
            <4> QED
                BY <1>1, <1>2, <3>1, <4>1, <4>2 DEF GoesOn, IsAnswered, layer
        <3>2. CASE e # c
            BY <1>1, <3>2 DEF Untouched, OwnInv, Agreeing
        <3> QED
            BY <3>1, <3>2
    <2> QED
        BY <2>1 DEF Agreeing
<1>4. Kept'
    BY <1>1, <1>2 DEF OwnInv, Kept, Lasts
<1> QED
    BY <1>3, <1>4 DEF OwnInv

\* Time passes: an answer is there for ResponseTTL.
LEMMA PathTickKeeps == ASSUME OwnInv, IP!IInv, PathTick PROVE OwnInv'
<1>1. /\ clock' = clock + 1 /\ clock \in Nat
      /\ record' = IF record # None /\ record.expires <= clock' THEN None ELSE record
      /\ UNCHANGED <<stage, body, outcome, pc, answer, stored>>
    BY DEF PathTick, Tick, Idem!Tick, Idem!calls, IP!IInv, IP!TypeOK
<1>2. Agreeing'
    BY <1>1 DEF OwnInv, Agreeing
<1>3. ASSUME NEW c \in Attempts, Lasts(c)'
      PROVE  record' = record /\ Lasts(c)
    <2>1. stored[c] \in Nat /\ clock + 1 < stored[c] + ResponseTTL
        BY <1>1, <1>3 DEF OwnInv, Kept, Lasts
    <2>2. Lasts(c)
        BY <1>1, <1>3, <2>1, StoreDurations DEF Lasts
    <2>3. record # None /\ record.expires >= stored[c] + ResponseTTL
        BY <2>2 DEF OwnInv, Kept
    <2>4. record.expires \in Nat
        BY <2>3 DEF IP!IInv, IP!TypeOK, IP!Record
    <2> QED
        BY <1>1, <2>1, <2>2, <2>3, <2>4, StoreDurations
<1>4. Kept'
    BY <1>1, <1>3 DEF OwnInv, Kept
<1> QED
    BY <1>2, <1>4 DEF OwnInv

\* Every step of the path preserves the path's own invariant.
LEMMA PathStepKeeps == OwnInv /\ IInv /\ IP!IInv /\ [PathNext]_pathVars => OwnInv'
<1> SUFFICES ASSUME OwnInv, IInv, IP!IInv, [PathNext]_pathVars PROVE OwnInv'
    OBVIOUS
<1>1. ASSUME NEW c \in Attempts, Handle(c) PROVE OwnInv'
    BY <1>1, HandlerKeeps
<1>2. ASSUME NEW c \in Attempts, Surrounds(c) PROVE OwnInv'
    BY <1>2, MiddlewareAgrees, AnswersAreKept DEF OwnInv
<1>3. CASE PathTick
    BY <1>3, PathTickKeeps
<1>4. CASE Others \/ UNCHANGED pathVars
    <2>1. UNCHANGED <<clock, pc, answer, record, stage, body, outcome, stored>>
        BY <1>4 DEF Others, pathVars, limiter, layer
    <2> QED
        BY <2>1 DEF OwnInv, Agreeing, Kept, Lasts
<1> QED
    BY <1>1, <1>2, <1>3, <1>4, PathSteps

\* The path's own invariant holds throughout: handler and middleware agree on every
\* answer, and an answer that was stored stays for ResponseTTL.
THEOREM PathInvariance == PathSpec => []OwnInv
BY PathInitOK, PathStepKeeps, PathLimiterInvariance, PathMiddlewareInvariance, PTL DEF PathSpec

\* Once an answer is stored no protected handler creates a session or counts a failure
\* for ResponseTTL, whatever clients, handlers, Redis and PostgreSQL do: the reservation
\* outlives the context of the call that made it, and only that call can replace it by
\* an answer, so the handlers that still run have a dead context.
THEOREM StoredAnswersAreFinal == PathSpec => StoredAnswerIsFinal
<1> DEFINE Final ==
        \A c, d \in Attempts :
           stored[c] # None /\ clock < stored[c] + ResponseTTL /\ stage[d] = "run" =>
              /\ minted'[d] = minted[d]
              /\ pending'[d] # pending[d] => counter' = counter \/ pc[d] = "verify"
<1>1. OwnInv /\ IInv /\ IP!IInv /\ [PathNext]_pathVars => [Final]_pathVars
    <2> SUFFICES ASSUME OwnInv, IInv, IP!IInv, [PathNext]_pathVars,
                        NEW c \in Attempts, NEW d \in Attempts, Lasts(c), stage[d] = "run"
                 PROVE  /\ minted'[d] = minted[d]
                        /\ pending'[d] # pending[d] => counter' = counter
        BY DEF Lasts
    <2>1. ~Idem!Alive(d)
        BY NoAnswerYet DEF OwnInv, Kept
    <2>2. ASSUME NEW e \in Attempts, Handle(e)
          PROVE  /\ minted'[d] = minted[d]
                 /\ pending'[d] # pending[d] => counter' = counter
        BY <2>1, <2>2, HandlerStep DEF Untouched, OwnInv
    <2>3. ASSUME NEW e \in Attempts, Surrounds(e) PROVE minted' = minted /\ pending' = pending
        BY <2>3, MiddlewareStep DEF limiter
    <2>4. CASE Others \/ PathTick \/ UNCHANGED pathVars
        BY <2>4 DEF Others, PathTick, Tick, Idem!Tick, pathVars, limiter, layer
    <2> QED
        BY <2>2, <2>3, <2>4, PathSteps
<1>2. StoredAnswerIsFinal <=> [][Final]_pathVars
    BY DEF StoredAnswerIsFinal
<1> QED
    BY <1>1, <1>2, PathInvariance, PathLimiterInvariance, PathMiddlewareInvariance, PTL
    DEF PathSpec

\* A session the middleware hands out on a retry was made for the same body, and so for
\* the password in it.
THEOREM SessionsNeedThePassword == PathSpec => []NoSessionWithoutPassword
<1>1. OwnInv /\ IP!IInv => NoSessionWithoutPassword
    <2> SUFFICES ASSUME OwnInv, IP!IInv, NEW c \in Attempts,
                        reply[c] # None, reply[c].status = "ok"
                 PROVE  body[c].correct
        BY DEF NoSessionWithoutPassword
    <2>1. reply[c] \in IP!Response
        BY DEF IP!IInv, IP!TypeOK, IP!Refusal
    <2>2. PICK d : d = reply[c].by
        OBVIOUS
    <2>3. d \in Attempts /\ body[d] = body[c] /\ outcome[d] = reply[c]
        BY <2>1, <2>2 DEF IP!IInv, IP!RepliesMatchRequests, IP!Response
    <2>4. pc[d] = "done"
        BY <2>3 DEF OwnInv, Agreeing
    <2> QED
        BY <2>3, <2>4 DEF OwnInv, Agreeing
<1> QED
    BY <1>1, PathInvariance, PathMiddlewareInvariance, PTL

\* Type correctness of the limiter behind the middleware.
THEOREM LimiterTypesOnThePath == PathSpec => []TypeOK
<1>1. IInv => TypeOK
    BY DEF IInv
<1> QED
    BY <1>1, PathLimiterInvariance, PTL
=============================================================================
