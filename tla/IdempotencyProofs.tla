-------------------------- MODULE IdempotencyProofs --------------------------
(***************************************************************************)
(* For any number of calls and bodies, any faults and any durations with   *)
(* maxWait < request timeout < reservationTTL: what a caller receives      *)
(* answers its own request, and a call writes the key only while it holds  *)
(* its own reservation.                                                    *)
(***************************************************************************)
EXTENDS Idempotency, TLAPS

\* A call that has not arrived remembers nothing, and nobody arrived in the future.
Fresh ==
    \A c \in Calls :
        /\ pc[c] = "idle" => outcome[c] = None /\ reply[c] = None
        /\ pc[c] # "idle" => body[c] # None
        /\ since[c] <= clock

\* The outcome of a call is there from the end of its handler on, and is its own;
\* only an outcome other than a 5xx is about to be saved.
Outcomes ==
    \A c \in Calls :
        /\ outcome[c] # None => outcome[c].by = c
        /\ pc[c] \in {"claim", "waiting", "run", "runBare"} => outcome[c] = None
        /\ pc[c] \in {"flush", "save"} => outcome[c] # None
        /\ pc[c] = "save" => outcome[c].status # "failed"

\* A stored response is the outcome of the call that wrote it.
StoredAnswer ==
    record # None /\ record.answer # None =>
        LET d == record.answer.by IN
        /\ body[d] = record.hash
        /\ outcome[d] = record.answer
        /\ record.answer.status # "failed"

\* Why Save and Release are safe: a call that claimed the key and whose context is
\* alive still owns the reservation, which expires after that context dies.
Holds(c) ==
    /\ record # None
    /\ record.by = c
    /\ record.answer = None
    /\ record.expires > since[c] + RequestTimeout

Holders == \A c \in Calls : pc[c] \in Handling \ {"runBare"} /\ Alive(c) => Holds(c)

IInv ==
    /\ TypeOK
    /\ Fresh
    /\ Outcomes
    /\ StoredAnswer
    /\ RepliesMatchRequests
    /\ Holders

PCs == {"idle", "claim", "waiting"} \cup Handling \cup Ended

-----------------------------------------------------------------------------
\* The durations of the store, and their order.
LEMMA Durations ==
    /\ ReservationTTL \in Nat /\ ResponseTTL \in Nat
    /\ MaxWait \in Nat /\ RequestTimeout \in Nat
    /\ RequestTimeout < ReservationTTL
BY DurationsAssumption

\* The invariant holds at the start.
LEMMA InitOK == Init => IInv
<1> SUFFICES ASSUME Init PROVE IInv
    OBVIOUS
<1>1. TypeOK
    BY DEF Init, TypeOK
<1>2. Fresh
    <2>1. clock = 0 /\ \A c \in Calls : pc[c] = "idle" /\ since[c] = 0
                    /\ outcome[c] = None /\ reply[c] = None
        BY DEF Init
    <2> QED
        <3> SUFFICES ASSUME NEW c \in Calls
                     PROVE  /\ pc[c] = "idle" /\ outcome[c] = None /\ reply[c] = None
                            /\ since[c] <= clock
            BY DEF Fresh
        <3>1. since[c] = 0 /\ clock = 0
            BY <2>1
        <3>2. since[c] <= clock
            BY <3>1
        <3> QED
            BY <2>1, <3>2
<1>3. Outcomes
    BY DEF Init, Outcomes
<1>4. StoredAnswer
    BY DEF Init, StoredAnswer
<1>5. RepliesMatchRequests
    BY NoneAssumption DEF Init, RepliesMatchRequests
<1>6. Holders
    BY DEF Init, Holders, Handling
<1> QED
    BY <1>1, <1>2, <1>3, <1>4, <1>5, <1>6 DEF IInv

\* Type correctness.
LEMMA TypeStep == TypeOK /\ Fresh /\ Outcomes /\ [Next]_vars => TypeOK'
<1> SUFFICES ASSUME TypeOK, Fresh, Outcomes, [Next]_vars PROVE TypeOK'
    OBVIOUS
<1> USE DEF Goto, calls, TypeOK, Fresh, Outcomes, Handling, Ended, Response, Record, Refusal
<1>1. ASSUME NEW c \in Calls, NEW b \in Bodies, Arrive(c, b) PROVE TypeOK'
    BY <1>1, Durations DEF Arrive
<1>2. ASSUME NEW c \in Calls, Claim(c) PROVE TypeOK'
    BY <1>2, Durations DEF Claim, Reserve
<1>3. ASSUME NEW c \in Calls, ClaimFails(c) PROVE TypeOK'
    BY <1>3, Durations DEF ClaimFails, Reserve
<1>4. ASSUME NEW c \in Calls, ClaimUnheard(c) PROVE TypeOK'
    BY <1>4, Durations DEF ClaimUnheard, Reserve
<1>5. ASSUME NEW c \in Calls, Conflict(c) PROVE TypeOK'
    BY <1>5, Durations DEF Conflict, Found, Receive
<1>6. ASSUME NEW c \in Calls, Replay(c) PROVE TypeOK'
    BY <1>6, Durations DEF Replay, Found, SameBody, Receive
<1>7. ASSUME NEW c \in Calls, RefuseInProgress(c) PROVE TypeOK'
    BY <1>7, Durations DEF RefuseInProgress, Found, Receive
<1>8. ASSUME NEW c \in Calls, Wait(c) PROVE TypeOK'
    BY <1>8, Durations DEF Wait, Found
<1>9. ASSUME NEW c \in Calls, PollAgain(c) PROVE TypeOK'
    BY <1>9, Durations DEF PollAgain
<1>10. ASSUME NEW c \in Calls, StopWaiting(c) PROVE TypeOK'
    BY <1>10, Durations DEF StopWaiting
<1>11. ASSUME NEW c \in Calls, LogIn(c) PROVE TypeOK'
    BY <1>11, Durations DEF LogIn, Mint, HandlerEnds, Receive
<1>12. ASSUME NEW c \in Calls, Reject(c) PROVE TypeOK'
    BY <1>12, Durations DEF Reject, HandlerEnds, Receive
<1>13. ASSUME NEW c \in Calls, HandlerFails(c) PROVE TypeOK'
    BY <1>13, Durations DEF HandlerFails, Mint, HandlerEnds, Receive
<1>14. ASSUME NEW c \in Calls, Flush(c) PROVE TypeOK'
    BY <1>14, Durations DEF Flush, Receive
<1>15. ASSUME NEW c \in Calls, Save(c) PROVE TypeOK'
    BY <1>15, Durations DEF Save, SavedRecord
<1>16. ASSUME NEW c \in Calls, Release(c) PROVE TypeOK'
    BY <1>16, Durations DEF Release
<1>17. ASSUME NEW c \in Calls, Disconnect(c) PROVE TypeOK'
    BY <1>17, Durations DEF Disconnect
<1>18. ASSUME NEW c \in Calls, Crash(c) PROVE TypeOK'
    BY <1>18, Durations DEF Crash
<1>19. CASE Tick
    BY <1>19, Durations DEF Tick
<1>20. CASE UNCHANGED vars
    BY <1>20 DEF vars
<1> QED
    BY <1>1, <1>2, <1>3, <1>4, <1>5, <1>6, <1>7, <1>8, <1>9, <1>10, <1>11,
       <1>12, <1>13, <1>14, <1>15, <1>16, <1>17, <1>18, <1>19, <1>20 DEF Next, Progress, AllEnded

\* A call that has not arrived stays blank, and its arrival is stamped by the clock.
LEMMA FreshStep == TypeOK /\ Fresh /\ [Next]_vars => Fresh'
<1> SUFFICES ASSUME TypeOK, Fresh, [Next]_vars PROVE Fresh'
    OBVIOUS
<1> USE DEF Goto, calls, TypeOK, Fresh, Handling, Ended
<1>1. ASSUME NEW c \in Calls, NEW b \in Bodies, Arrive(c, b) PROVE Fresh'
    BY <1>1, NoneAssumption DEF Arrive
<1>2. ASSUME NEW c \in Calls, Claim(c) PROVE Fresh'
    BY <1>2, NoneAssumption DEF Claim, Reserve
<1>3. ASSUME NEW c \in Calls, ClaimFails(c) PROVE Fresh'
    BY <1>3, NoneAssumption DEF ClaimFails, Reserve
<1>4. ASSUME NEW c \in Calls, ClaimUnheard(c) PROVE Fresh'
    BY <1>4, NoneAssumption DEF ClaimUnheard, Reserve
<1>5. ASSUME NEW c \in Calls, Conflict(c) PROVE Fresh'
    BY <1>5, NoneAssumption DEF Conflict, Found, Receive
<1>6. ASSUME NEW c \in Calls, Replay(c) PROVE Fresh'
    BY <1>6, NoneAssumption DEF Replay, Found, SameBody, Receive
<1>7. ASSUME NEW c \in Calls, RefuseInProgress(c) PROVE Fresh'
    BY <1>7, NoneAssumption DEF RefuseInProgress, Found, Receive
<1>8. ASSUME NEW c \in Calls, Wait(c) PROVE Fresh'
    BY <1>8, NoneAssumption DEF Wait, Found
<1>9. ASSUME NEW c \in Calls, PollAgain(c) PROVE Fresh'
    BY <1>9, NoneAssumption DEF PollAgain
<1>10. ASSUME NEW c \in Calls, StopWaiting(c) PROVE Fresh'
    BY <1>10, NoneAssumption DEF StopWaiting
<1>11. ASSUME NEW c \in Calls, LogIn(c) PROVE Fresh'
    BY <1>11, NoneAssumption DEF LogIn, Mint, HandlerEnds, Receive
<1>12. ASSUME NEW c \in Calls, Reject(c) PROVE Fresh'
    BY <1>12, NoneAssumption DEF Reject, HandlerEnds, Receive
<1>13. ASSUME NEW c \in Calls, HandlerFails(c) PROVE Fresh'
    BY <1>13, NoneAssumption DEF HandlerFails, Mint, HandlerEnds, Receive
<1>14. ASSUME NEW c \in Calls, Flush(c) PROVE Fresh'
    BY <1>14, NoneAssumption DEF Flush, Receive
<1>15. ASSUME NEW c \in Calls, Save(c) PROVE Fresh'
    BY <1>15, NoneAssumption DEF Save, SavedRecord
<1>16. ASSUME NEW c \in Calls, Release(c) PROVE Fresh'
    BY <1>16, NoneAssumption DEF Release
<1>17. ASSUME NEW c \in Calls, Disconnect(c) PROVE Fresh'
    BY <1>17, NoneAssumption DEF Disconnect
<1>18. ASSUME NEW c \in Calls, Crash(c) PROVE Fresh'
    BY <1>18, NoneAssumption DEF Crash
<1>19. CASE Tick
    BY <1>19, NoneAssumption DEF Tick
<1>20. CASE UNCHANGED vars
    BY <1>20 DEF vars
<1> QED
    BY <1>1, <1>2, <1>3, <1>4, <1>5, <1>6, <1>7, <1>8, <1>9, <1>10, <1>11,
       <1>12, <1>13, <1>14, <1>15, <1>16, <1>17, <1>18, <1>19, <1>20 DEF Next, Progress, AllEnded

\* Only the end of a handler writes the outcome, its own; Flush alone leads to Save.
LEMMA OutcomesStep == TypeOK /\ Fresh /\ Outcomes /\ [Next]_vars => Outcomes'
<1> SUFFICES ASSUME TypeOK, Fresh, Outcomes, [Next]_vars PROVE Outcomes'
    OBVIOUS
<1> USE DEF Goto, calls, TypeOK, Fresh, Outcomes, Handling, Ended, Response
<1>1. ASSUME NEW c \in Calls, NEW b \in Bodies, Arrive(c, b) PROVE Outcomes'
    BY <1>1, NoneAssumption DEF Arrive
<1>2. ASSUME NEW c \in Calls, Claim(c) PROVE Outcomes'
    BY <1>2, NoneAssumption DEF Claim, Reserve
<1>3. ASSUME NEW c \in Calls, ClaimFails(c) PROVE Outcomes'
    BY <1>3, NoneAssumption DEF ClaimFails, Reserve
<1>4. ASSUME NEW c \in Calls, ClaimUnheard(c) PROVE Outcomes'
    BY <1>4, NoneAssumption DEF ClaimUnheard, Reserve
<1>5. ASSUME NEW c \in Calls, Conflict(c) PROVE Outcomes'
    BY <1>5, NoneAssumption DEF Conflict, Found, Receive
<1>6. ASSUME NEW c \in Calls, Replay(c) PROVE Outcomes'
    BY <1>6, NoneAssumption DEF Replay, Found, SameBody, Receive
<1>7. ASSUME NEW c \in Calls, RefuseInProgress(c) PROVE Outcomes'
    BY <1>7, NoneAssumption DEF RefuseInProgress, Found, Receive
<1>8. ASSUME NEW c \in Calls, Wait(c) PROVE Outcomes'
    BY <1>8, NoneAssumption DEF Wait, Found
<1>9. ASSUME NEW c \in Calls, PollAgain(c) PROVE Outcomes'
    BY <1>9, NoneAssumption DEF PollAgain
<1>10. ASSUME NEW c \in Calls, StopWaiting(c) PROVE Outcomes'
    BY <1>10, NoneAssumption DEF StopWaiting
<1>11. ASSUME NEW c \in Calls, LogIn(c) PROVE Outcomes'
    BY <1>11, NoneAssumption DEF LogIn, Mint, HandlerEnds, Receive
<1>12. ASSUME NEW c \in Calls, Reject(c) PROVE Outcomes'
    BY <1>12, NoneAssumption DEF Reject, HandlerEnds, Receive
<1>13. ASSUME NEW c \in Calls, HandlerFails(c) PROVE Outcomes'
    BY <1>13, NoneAssumption DEF HandlerFails, Mint, HandlerEnds, Receive
<1>14. ASSUME NEW c \in Calls, Flush(c) PROVE Outcomes'
    BY <1>14, NoneAssumption DEF Flush, Receive
<1>15. ASSUME NEW c \in Calls, Save(c) PROVE Outcomes'
    BY <1>15, NoneAssumption DEF Save, SavedRecord
<1>16. ASSUME NEW c \in Calls, Release(c) PROVE Outcomes'
    BY <1>16, NoneAssumption DEF Release
<1>17. ASSUME NEW c \in Calls, Disconnect(c) PROVE Outcomes'
    BY <1>17, NoneAssumption DEF Disconnect
<1>18. ASSUME NEW c \in Calls, Crash(c) PROVE Outcomes'
    BY <1>18, NoneAssumption DEF Crash
<1>19. CASE Tick
    BY <1>19, NoneAssumption DEF Tick
<1>20. CASE UNCHANGED vars
    BY <1>20 DEF vars
<1> QED
    BY <1>1, <1>2, <1>3, <1>4, <1>5, <1>6, <1>7, <1>8, <1>9, <1>10, <1>11,
       <1>12, <1>13, <1>14, <1>15, <1>16, <1>17, <1>18, <1>19, <1>20 DEF Next, Progress, AllEnded

\* Save stores the outcome of its own call, and no outcome changes afterwards.
LEMMA StoredStep == TypeOK /\ Fresh /\ Outcomes /\ StoredAnswer /\ [Next]_vars => StoredAnswer'
<1> SUFFICES ASSUME TypeOK, Fresh, Outcomes, StoredAnswer, [Next]_vars PROVE StoredAnswer'
    OBVIOUS
<1> USE DEF Goto, calls, TypeOK, Fresh, Outcomes, StoredAnswer, Handling, Ended, Response, Record
<1>1. ASSUME NEW c \in Calls, NEW b \in Bodies, Arrive(c, b) PROVE StoredAnswer'
    BY <1>1, NoneAssumption DEF Arrive
<1>2. ASSUME NEW c \in Calls, Claim(c) PROVE StoredAnswer'
    BY <1>2, NoneAssumption DEF Claim, Reserve
<1>3. ASSUME NEW c \in Calls, ClaimFails(c) PROVE StoredAnswer'
    BY <1>3, NoneAssumption DEF ClaimFails, Reserve
<1>4. ASSUME NEW c \in Calls, ClaimUnheard(c) PROVE StoredAnswer'
    BY <1>4, NoneAssumption DEF ClaimUnheard, Reserve
<1>5. ASSUME NEW c \in Calls, Conflict(c) PROVE StoredAnswer'
    BY <1>5, NoneAssumption DEF Conflict, Found, Receive
<1>6. ASSUME NEW c \in Calls, Replay(c) PROVE StoredAnswer'
    BY <1>6, NoneAssumption DEF Replay, Found, SameBody, Receive
<1>7. ASSUME NEW c \in Calls, RefuseInProgress(c) PROVE StoredAnswer'
    BY <1>7, NoneAssumption DEF RefuseInProgress, Found, Receive
<1>8. ASSUME NEW c \in Calls, Wait(c) PROVE StoredAnswer'
    BY <1>8, NoneAssumption DEF Wait, Found
<1>9. ASSUME NEW c \in Calls, PollAgain(c) PROVE StoredAnswer'
    BY <1>9, NoneAssumption DEF PollAgain
<1>10. ASSUME NEW c \in Calls, StopWaiting(c) PROVE StoredAnswer'
    BY <1>10, NoneAssumption DEF StopWaiting
<1>11. ASSUME NEW c \in Calls, LogIn(c) PROVE StoredAnswer'
    BY <1>11, NoneAssumption DEF LogIn, Mint, HandlerEnds, Receive
<1>12. ASSUME NEW c \in Calls, Reject(c) PROVE StoredAnswer'
    BY <1>12, NoneAssumption DEF Reject, HandlerEnds, Receive
<1>13. ASSUME NEW c \in Calls, HandlerFails(c) PROVE StoredAnswer'
    BY <1>13, NoneAssumption DEF HandlerFails, Mint, HandlerEnds, Receive
<1>14. ASSUME NEW c \in Calls, Flush(c) PROVE StoredAnswer'
    BY <1>14, NoneAssumption DEF Flush, Receive
<1>15. ASSUME NEW c \in Calls, Save(c) PROVE StoredAnswer'
    BY <1>15, NoneAssumption DEF Save, SavedRecord
<1>16. ASSUME NEW c \in Calls, Release(c) PROVE StoredAnswer'
    BY <1>16, NoneAssumption DEF Release
<1>17. ASSUME NEW c \in Calls, Disconnect(c) PROVE StoredAnswer'
    BY <1>17, NoneAssumption DEF Disconnect
<1>18. ASSUME NEW c \in Calls, Crash(c) PROVE StoredAnswer'
    BY <1>18, NoneAssumption DEF Crash
<1>19. CASE Tick
    BY <1>19, NoneAssumption DEF Tick
<1>20. CASE UNCHANGED vars
    BY <1>20 DEF vars
<1> QED
    BY <1>1, <1>2, <1>3, <1>4, <1>5, <1>6, <1>7, <1>8, <1>9, <1>10, <1>11,
       <1>12, <1>13, <1>14, <1>15, <1>16, <1>17, <1>18, <1>19, <1>20 DEF Next, Progress, AllEnded

\* A reply is the outcome of its own handler, a replayed record, or a refusal.
LEMMA RepliesStep == TypeOK /\ Fresh /\ Outcomes /\ StoredAnswer /\ RepliesMatchRequests /\ [Next]_vars => RepliesMatchRequests'
<1> SUFFICES ASSUME TypeOK, Fresh, Outcomes, StoredAnswer, RepliesMatchRequests, [Next]_vars PROVE RepliesMatchRequests'
    OBVIOUS
<1> USE DEF Goto, calls, TypeOK, Fresh, Outcomes, StoredAnswer, RepliesMatchRequests, Handling, Ended, Response, Record, Refusal
<1>1. ASSUME NEW c \in Calls, NEW b \in Bodies, Arrive(c, b) PROVE RepliesMatchRequests'
    BY <1>1, NoneAssumption DEF Arrive
<1>2. ASSUME NEW c \in Calls, Claim(c) PROVE RepliesMatchRequests'
    BY <1>2, NoneAssumption DEF Claim, Reserve
<1>3. ASSUME NEW c \in Calls, ClaimFails(c) PROVE RepliesMatchRequests'
    BY <1>3, NoneAssumption DEF ClaimFails, Reserve
<1>4. ASSUME NEW c \in Calls, ClaimUnheard(c) PROVE RepliesMatchRequests'
    BY <1>4, NoneAssumption DEF ClaimUnheard, Reserve
<1>5. ASSUME NEW c \in Calls, Conflict(c) PROVE RepliesMatchRequests'
    BY <1>5, NoneAssumption DEF Conflict, Found, Receive
<1>6. ASSUME NEW c \in Calls, Replay(c) PROVE RepliesMatchRequests'
    BY <1>6, NoneAssumption DEF Replay, Found, SameBody, Receive
<1>7. ASSUME NEW c \in Calls, RefuseInProgress(c) PROVE RepliesMatchRequests'
    BY <1>7, NoneAssumption DEF RefuseInProgress, Found, Receive
<1>8. ASSUME NEW c \in Calls, Wait(c) PROVE RepliesMatchRequests'
    BY <1>8, NoneAssumption DEF Wait, Found
<1>9. ASSUME NEW c \in Calls, PollAgain(c) PROVE RepliesMatchRequests'
    BY <1>9, NoneAssumption DEF PollAgain
<1>10. ASSUME NEW c \in Calls, StopWaiting(c) PROVE RepliesMatchRequests'
    BY <1>10, NoneAssumption DEF StopWaiting
<1>11. ASSUME NEW c \in Calls, LogIn(c) PROVE RepliesMatchRequests'
    BY <1>11, NoneAssumption DEF LogIn, Mint, HandlerEnds, Receive
<1>12. ASSUME NEW c \in Calls, Reject(c) PROVE RepliesMatchRequests'
    BY <1>12, NoneAssumption DEF Reject, HandlerEnds, Receive
<1>13. ASSUME NEW c \in Calls, HandlerFails(c) PROVE RepliesMatchRequests'
    BY <1>13, NoneAssumption DEF HandlerFails, Mint, HandlerEnds, Receive
<1>14. ASSUME NEW c \in Calls, Flush(c) PROVE RepliesMatchRequests'
    BY <1>14, NoneAssumption DEF Flush, Receive
<1>15. ASSUME NEW c \in Calls, Save(c) PROVE RepliesMatchRequests'
    BY <1>15, NoneAssumption DEF Save, SavedRecord
<1>16. ASSUME NEW c \in Calls, Release(c) PROVE RepliesMatchRequests'
    BY <1>16, NoneAssumption DEF Release
<1>17. ASSUME NEW c \in Calls, Disconnect(c) PROVE RepliesMatchRequests'
    BY <1>17, NoneAssumption DEF Disconnect
<1>18. ASSUME NEW c \in Calls, Crash(c) PROVE RepliesMatchRequests'
    BY <1>18, NoneAssumption DEF Crash
<1>19. CASE Tick
    BY <1>19, NoneAssumption DEF Tick
<1>20. CASE UNCHANGED vars
    BY <1>20 DEF vars
<1> QED
    BY <1>1, <1>2, <1>3, <1>4, <1>5, <1>6, <1>7, <1>8, <1>9, <1>10, <1>11,
       <1>12, <1>13, <1>14, <1>15, <1>16, <1>17, <1>18, <1>19, <1>20 DEF Next, Progress, AllEnded

\* A record is overwritten or dropped by its holder only; a live holder cannot expire.
LEMMA HoldersStep == TypeOK /\ Fresh /\ Outcomes /\ Holders /\ [Next]_vars => Holders'
<1> SUFFICES ASSUME TypeOK, Fresh, Outcomes, Holders, [Next]_vars PROVE Holders'
    OBVIOUS
<1> USE DEF Goto, calls, TypeOK, Fresh, Holders, Holds, Alive, Handling, Ended, Record
<1>1. ASSUME NEW c \in Calls, NEW b \in Bodies, Arrive(c, b) PROVE Holders'
    BY <1>1, Durations, NoneAssumption DEF Arrive
<1>2. ASSUME NEW c \in Calls, Claim(c) PROVE Holders'
    BY <1>2, Durations, NoneAssumption DEF Claim, Reserve
<1>3. ASSUME NEW c \in Calls, ClaimFails(c) PROVE Holders'
    BY <1>3, Durations, NoneAssumption DEF ClaimFails, Reserve
<1>4. ASSUME NEW c \in Calls, ClaimUnheard(c) PROVE Holders'
    BY <1>4, Durations, NoneAssumption DEF ClaimUnheard, Reserve
<1>5. ASSUME NEW c \in Calls, Conflict(c) PROVE Holders'
    BY <1>5, Durations, NoneAssumption DEF Conflict, Found, Receive
<1>6. ASSUME NEW c \in Calls, Replay(c) PROVE Holders'
    BY <1>6, Durations, NoneAssumption DEF Replay, Found, SameBody, Receive
<1>7. ASSUME NEW c \in Calls, RefuseInProgress(c) PROVE Holders'
    BY <1>7, Durations, NoneAssumption DEF RefuseInProgress, Found, Receive
<1>8. ASSUME NEW c \in Calls, Wait(c) PROVE Holders'
    BY <1>8, Durations, NoneAssumption DEF Wait, Found
<1>9. ASSUME NEW c \in Calls, PollAgain(c) PROVE Holders'
    BY <1>9, Durations, NoneAssumption DEF PollAgain
<1>10. ASSUME NEW c \in Calls, StopWaiting(c) PROVE Holders'
    BY <1>10, Durations, NoneAssumption DEF StopWaiting
<1>11. ASSUME NEW c \in Calls, LogIn(c) PROVE Holders'
    BY <1>11, Durations, NoneAssumption DEF LogIn, Mint, HandlerEnds, Receive
<1>12. ASSUME NEW c \in Calls, Reject(c) PROVE Holders'
    BY <1>12, Durations, NoneAssumption DEF Reject, HandlerEnds, Receive
<1>13. ASSUME NEW c \in Calls, HandlerFails(c) PROVE Holders'
    BY <1>13, Durations, NoneAssumption DEF HandlerFails, Mint, HandlerEnds, Receive
<1>14. ASSUME NEW c \in Calls, Flush(c) PROVE Holders'
    BY <1>14, Durations, NoneAssumption DEF Flush, Receive
<1>15. ASSUME NEW c \in Calls, Save(c) PROVE Holders'
    BY <1>15, Durations, NoneAssumption DEF Save, SavedRecord
<1>16. ASSUME NEW c \in Calls, Release(c) PROVE Holders'
    BY <1>16, Durations, NoneAssumption DEF Release
<1>17. ASSUME NEW c \in Calls, Disconnect(c) PROVE Holders'
    BY <1>17, Durations, NoneAssumption DEF Disconnect
<1>18. ASSUME NEW c \in Calls, Crash(c) PROVE Holders'
    BY <1>18, Durations, NoneAssumption DEF Crash
<1>19. CASE Tick
    BY <1>19, Durations, NoneAssumption DEF Tick
<1>20. CASE UNCHANGED vars
    BY <1>20 DEF vars
<1> QED
    BY <1>1, <1>2, <1>3, <1>4, <1>5, <1>6, <1>7, <1>8, <1>9, <1>10, <1>11,
       <1>12, <1>13, <1>14, <1>15, <1>16, <1>17, <1>18, <1>19, <1>20 DEF Next, Progress, AllEnded

-----------------------------------------------------------------------------
\* The inductive invariant holds throughout the middleware's runs.
THEOREM IdempotencyInvariance == Spec => []IInv
<1>1. IInv /\ [Next]_vars => IInv'
    BY TypeStep, FreshStep, OutcomesStep, StoredStep, RepliesStep, HoldersStep DEF IInv
<1> QED
    BY InitOK, <1>1, PTL DEF Spec

\* The record and what every call knows have their types in every reachable state.
THEOREM IdempotencyTypes == Spec => []TypeOK
<1>1. IInv => TypeOK
    BY DEF IInv
<1> QED
    BY IdempotencyInvariance, <1>1, PTL

\* Whatever response the middleware writes answers the request it is written to:
\* the hash of a reused key is compared, and a 5xx is released, never stored.
THEOREM RepliesAnswerTheirRequest == Spec => []RepliesMatchRequests
<1>1. IInv => RepliesMatchRequests
    BY DEF IInv
<1> QED
    BY IdempotencyInvariance, <1>1, PTL

\* The unconditional SET of Save and DEL of Release never touch the record of
\* another call, because a request times out before its reservation can expire.
THEOREM WritesOnlyOwnReservation == Spec => OnlyOwnReservation
<1> DEFINE Own ==
        \A c \in Calls :
           pc[c] \in {"save", "release"} /\ pc'[c] = "done" /\ record' # record =>
              record # None /\ record.by = c /\ record.answer = None
<1>1. IInv /\ [Next]_vars => [Own]_vars
    <2> SUFFICES ASSUME IInv, [Next]_vars, NEW c \in Calls,
                        pc[c] \in {"save", "release"}, pc'[c] = "done", record' # record
                 PROVE  Holds(c)
        BY DEF Holds
    <2>1. pc \in [Calls -> {"idle", "claim", "waiting"} \cup Handling \cup Ended]
        BY DEF IInv, TypeOK
    <2>2. Save(c) \/ Release(c)
        <3> USE <2>1 DEF Goto, calls
        <3>1. ASSUME NEW d \in Calls, Progress(d) PROVE Save(c) \/ Release(c)
            <4>1. CASE d = c
                BY <3>1, <4>1 DEF Progress, Claim, ClaimFails, ClaimUnheard, Conflict, Replay,
                    RefuseInProgress, Wait, PollAgain, StopWaiting, LogIn, Reject, HandlerFails,
                    HandlerEnds, Flush, Found
            <4>2. CASE d # c
                BY <3>1, <4>2 DEF Progress, Claim, ClaimFails, ClaimUnheard, Conflict, Replay,
                    RefuseInProgress, Wait, PollAgain, StopWaiting, LogIn, Reject, HandlerFails,
                    HandlerEnds, Flush, Save, Release
            <4> QED
                BY <4>1, <4>2
        <3>2. ~(\E d \in Calls, b \in Bodies : Arrive(d, b))
            BY DEF Arrive
        <3>3. ~(\E d \in Calls : Disconnect(d) \/ Crash(d))
            BY DEF Disconnect, Crash
        <3>4. ~Tick /\ ~AllEnded /\ ~UNCHANGED vars
            BY DEF Tick, AllEnded, vars
        <3> QED
            BY <3>1, <3>2, <3>3, <3>4 DEF Next
    <2>3. Alive(c)
        BY <2>2 DEF Save, Release
    <2> QED
        BY <2>3 DEF IInv, Holders, Handling
<1>2. OnlyOwnReservation <=> [][Own]_vars
    BY DEF OnlyOwnReservation
<1> QED
    BY IdempotencyInvariance, <1>1, <1>2, PTL DEF Spec

=============================================================================
