-------------------------- MODULE RefreshRotation ---------------------------
(***************************************************************************)
(* refresh.Service.Handle: look the presented token up, look its session   *)
(* up, decide on those two reads, then rotate in one transaction whose     *)
(* conditional UPDATE (Consume) is the only guard against a second         *)
(* exchange.  A spent token answers "replay" and revokes the family in a   *)
(* statement of its own, after the failed transaction.                     *)
(***************************************************************************)
EXTENDS SessionStore

Expired(at) == at < clock     \* ExpiresAt.Before(time.Now())

TokenRejected(r) ==
    \/ current[r].revoked # None
    \/ Expired(current[r].expires)

SessionRejected(s) ==
    \/ sessions[s].revoked # None
    \/ Expired(sessions[s].expires)

\* FindByID, then step 3: the token read earlier is already spent.
DetectReplay(r) ==
    /\ pc[r] = "findSession"
    /\ current[r].consumed
    /\ Goto(r, "scanFamily")
    /\ UNCHANGED <<clock, sessionTable, tokenTable, slotLock, locals>>

\* FindByID, then step 4.
RejectDead(r) ==
    /\ pc[r] = "findSession"
    /\ ~current[r].consumed
    /\ TokenRejected(r) \/ SessionRejected(current[r].session)
    /\ Goto(r, "invalid")
    /\ UNCHANGED <<clock, sessionTable, tokenTable, slotLock, locals>>

\* FindByID, then step 5: the replacement is minted, not yet persisted.
Mint(r) ==
    /\ pc[r] = "findSession"
    /\ ~current[r].consumed
    /\ ~TokenRejected(r) /\ ~SessionRejected(current[r].session)
    /\ stamp' = [stamp EXCEPT ![r] = clock]
    /\ Goto(r, "consume")
    /\ UNCHANGED <<clock, sessionTable, tokenTable, slotLock, input, prior, current, scan>>

\* Variant: UPDATE refresh_tokens SET consumed_at WHERE id
CanAlwaysConsume(t) == TRUE

\* UPDATE refresh_tokens SET consumed_at WHERE id AND consumed_at IS NULL
CanConsume(t) == ~tokenDraft[t].consumed

Consume(r) ==
    LET t == input[r] IN
    /\ pc[r] = "consume"
    /\ CanLockToken(r, t)
    /\ CanConsume(t)
    /\ WriteToken(r, t, [tokenDraft[t] EXCEPT !.consumed = TRUE])
    /\ Goto(r, "insertChild")
    /\ UNCHANGED <<clock, sessionTable, slotLock, locals>>

\* Zero rows: the closure returns ErrRefreshTokenReplay, the (empty)
\* transaction is rolled back and the family is revoked.
LoseConsume(r) ==
    /\ pc[r] = "consume"
    /\ CanLockToken(r, input[r])
    /\ ~CanConsume(input[r])
    /\ Goto(r, "scanFamily")
    /\ UNCHANGED <<clock, sessionTable, tokenTable, slotLock, locals>>

ChildToken(r) ==
    [session |-> current[r].session, family |-> current[r].family,
     parent |-> input[r], expires |-> stamp[r] + RefreshTTL,
     consumed |-> FALSE, revoked |-> None]

\* Variant: the replacement is created on the pool instead of the transaction.
InsertChildOutsideTx(r) ==
    /\ pc[r] = "insertChild"
    /\ tokens' = [tokens EXCEPT ![r] = ChildToken(r)]
    /\ tokenDraft' = [tokenDraft EXCEPT ![r] = ChildToken(r)]
    /\ Goto(r, "touch")
    /\ UNCHANGED <<clock, sessionTable, tokenLock, slotLock, locals>>

InsertChild(r) ==
    /\ pc[r] = "insertChild"
    /\ WriteToken(r, r, ChildToken(r))
    /\ Goto(r, "touch")
    /\ UNCHANGED <<clock, sessionTable, slotLock, locals>>

\* UpdateLastRefreshedAt: no WHERE beyond the id, so a revoked or expired
\* session is touched all the same.  Only the row lock matters here.
TouchSession(r) ==
    LET s == current[r].session IN
    /\ pc[r] = "touch"
    /\ CanLockSession(r, s)
    /\ WriteSession(r, s, sessionDraft[s])
    /\ Goto(r, "commit")
    /\ UNCHANGED <<clock, tokenTable, slotLock, locals>>

CommitRotation(r) == pc[r] = "commit" /\ Finish(r, "ok")

RevokeReplayedRow(r) == RevokeRow(r, "REPLAY_DETECTED")

\* The autocommitted RevokeFamily ends; ErrRefreshTokenReplay is answered.
AnswerReplay(r) ==
    /\ pc[r] = "revokeRows"
    /\ scan[r] = {}
    /\ Finish(r, "replay")

RefreshStep(r) ==
    \/ DetectReplay(r) \/ RejectDead(r) \/ Mint(r)
    \/ Consume(r) \/ LoseConsume(r)
    \/ InsertChild(r)
    \/ TouchSession(r)
    \/ CommitRotation(r)
    \/ ScanFamily(r) \/ RevokeReplayedRow(r) \/ AnswerReplay(r)
=============================================================================
