-------------------------- MODULE EmailVerification --------------------------
(***************************************************************************)
(* verifyemail.Service.Handle and resendverification.Service.Handle.       *)
(***************************************************************************)
EXTENDS Accounts

(* Verify *)

UnknownToken(v) == pc[v] = "idle" /\ GiveUp(v, "rejected")

\* FindByHash, and what its row alone decides: an expired token is refused unless it
\* was consumed, a consumed one is confirmed again.
PresentToken(v, t) ==
    /\ pc[v] = "idle"
    /\ vtokens[t] # None
    /\ Learn(v, IF vtokens[t].consumed THEN "reread"
                ELSE IF clock >= vtokens[t].expires THEN "rejected"
                ELSE "findAccount",
             [local[v] EXCEPT !.token = t, !.user = vtokens[t].user])

\* Variant: the status of the row is not part of what is written back.
ReadOnlyTime(v) ==
    /\ pc[v] = "findAccount"
    /\ Learn(v, "consume", [local[v] EXCEPT !.now = clock])

\* FindByID, and account.VerifyEmail(now) on the copy.
ReadAccount(v) ==
    /\ pc[v] = "findAccount"
    /\ Learn(v, "consume",
             [local[v] EXCEPT !.status = users[local[v].user].status, !.now = clock])

\* Variant: the consumption is committed on its own.
ConsumeOutsideTx(v) ==
    /\ pc[v] = "consume"
    /\ vtokens' = [vtokens EXCEPT ![local[v].token].consumed = TRUE]
    /\ Goto(v, IF vtokens[local[v].token].consumed THEN "reread" ELSE "markVerified")
    /\ UNCHANGED <<clock, users, links, redis, held>>

\* Variant: the loser of the race starts over.
ConsumeOrStartOver(v) ==
    LET t == local[v].token IN
    /\ pc[v] = "consume"
    /\ Free(v, <<"token", t>>)
    /\ \/ vtokens[t].consumed /\ GiveUp(v, "findAccount")
       \/ ~vtokens[t].consumed /\ Take(v, <<"token", t>>, "markVerified")

\* UPDATE ... WHERE consumed_at IS NULL: waits for the row, then looks again.  Zero
\* rows is errRaceLost.
Consume(v) ==
    LET t == local[v].token IN
    /\ pc[v] = "consume"
    /\ Free(v, <<"token", t>>)
    /\ \/ vtokens[t].consumed /\ GiveUp(v, "reread")
       \/ ~vtokens[t].consumed /\ Take(v, <<"token", t>>, "markVerified")

\* MarkEmailVerified waits for the row of the account.
MarkVerified(v) ==
    /\ pc[v] = "markVerified"
    /\ Free(v, <<"user", local[v].user>>)
    /\ Take(v, <<"user", local[v].user>>, "commit")

\* The row gets the time and the status the handler had in its copy.
CommitVerified(v, where) ==
    /\ pc[v] = "commit"
    /\ vtokens' = [vtokens EXCEPT ![local[v].token].consumed = TRUE]
    /\ users' = [users EXCEPT ![local[v].user].verifiedAt = local[v].now,
                              ![local[v].user].status = local[v].status]
    /\ ReleaseLocks(v)
    /\ Goto(v, where)
    /\ UNCHANGED <<clock, links, redis>>

\* FindByID and *EmailVerifiedAt, for a token found consumed and for a lost race.
Reread(v) ==
    /\ pc[v] = "reread"
    /\ GiveUp(v, IF users[local[v].user].verifiedAt = None THEN "panic" ELSE "ok")

VerifyStep(v) ==
    \/ ReadAccount(v)
    \/ Consume(v) \/ MarkVerified(v) \/ CommitVerified(v, "ok")
    \/ Reread(v)

-----------------------------------------------------------------------------
(* Resend *)

\* The limiter lets the call pass, or not.
AskResend(s, email) ==
    /\ pc[s] = "idle"
    /\ \E where \in {"findEmail", "rejected"} :
          Learn(s, where, [local[s] EXCEPT !.email = NormalizeEmail(email)])

\* An unknown email and a verified account are answered like a real send.
NothingToResend(s) ==
    /\ pc[s] = "findEmail"
    /\ \A u \in OwnersOf(local[s].email) : users[u].verifiedAt # None
    /\ GiveUp(s, "ok")

FindUnverified(s) ==
    /\ pc[s] = "findEmail"
    /\ \E u \in OwnersOf(local[s].email) :
          /\ users[u].verifiedAt = None
          /\ Learn(s, "findActive", [local[s] EXCEPT !.user = u])

Active(u) == {t \in Tokens : /\ vtokens[t] # None /\ vtokens[t].user = u
                             /\ ~vtokens[t].consumed /\ clock < vtokens[t].expires}

\* ORDER BY created_at DESC LIMIT 1: every token lives equally long, so the latest to
\* expire is the latest created.
FindActive(s) ==
    /\ pc[s] = "findActive"
    /\ \E t \in Active(local[s].user) :
          /\ \A o \in Active(local[s].user) : vtokens[o].expires <= vtokens[t].expires
          /\ Learn(s, "readCache", [local[s] EXCEPT !.token = t])

NoneActive(s) ==
    /\ pc[s] = "findActive"
    /\ Active(local[s].user) = {}
    /\ Learn(s, "mint", local[s])

ReadCache(s) ==
    /\ pc[s] = "readCache"
    /\ Learn(s, IF local[s].token \in cache THEN "mail" ELSE "mint", local[s])

\* Create, on the pool and not in a transaction; what follows is `where`.
Mint(s, where) ==
    /\ pc[s] = "mint"
    /\ vtokens' = [vtokens EXCEPT ![s] = NewToken(local[s].user, clock)]
    /\ Continue(s, where, [local[s] EXCEPT !.token = s])
    /\ UNCHANGED <<clock, users, links, redis, held>>

ResendStep(s) ==
    \/ NothingToResend(s) \/ FindUnverified(s)
    \/ FindActive(s) \/ NoneActive(s) \/ ReadCache(s)
    \/ Mint(s, "storeRaw") \/ StoreRaw(s) \/ Mail(s, "ok")
=============================================================================
