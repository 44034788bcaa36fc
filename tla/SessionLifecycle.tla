-------------------------- MODULE SessionLifecycle --------------------------
(***************************************************************************)
(* Logins, refreshes and logouts running concurrently against the same     *)
(* rows: the system whose correctness docs/login.md, docs/refresh.md and   *)
(* docs/logout.md describe.                                                *)
(***************************************************************************)
EXTENDS IssueForDevice, RefreshRotation, Logout

Init ==
    /\ clock = 0
    /\ sessions = [s \in Sessions |-> None]
    /\ sessionDraft = sessions
    /\ sessionLock = [s \in Sessions |-> None]
    /\ tokens = [t \in Tokens |-> None]
    /\ tokenDraft = tokens
    /\ tokenLock = [t \in Tokens |-> None]
    /\ slotLock = [d \in Slots |-> None]
    /\ pc = [r \in Requests |-> "idle"]
    /\ input = [r \in Requests |-> None]
    /\ stamp = [r \in Requests |-> 0]
    /\ prior = [r \in Requests |-> None]
    /\ current = [r \in Requests |-> None]
    /\ scan = [r \in Requests |-> {}]

\* A request arrives.
Arrive ==
    \/ \E r \in Logins, d \in Slots : BeginIssue(r, d)
    \/ \E r \in Refreshes \cup Logouts : UnknownToken(r)
    \/ \E r \in Refreshes \cup Logouts, t \in Tokens : FindByHash(r, t)

Step ==
    \/ \E r \in Logins : IssueStep(r)
    \/ \E r \in Refreshes : RefreshStep(r)
    \/ \E r \in Logouts : LogoutStep(r)

-----------------------------------------------------------------------------
(* Failures *)

\* Variant: a rotation whose transaction failed at its last statement is retried.
RetriedOrError(r) ==
    IF r \in Refreshes /\ pc[r] = "touch" THEN "consume" ELSE "error"

\* An error in the family revocation of a replay is only logged; any other
\* error is the answer.
ErrorAnswer(r) ==
    IF r \in Refreshes /\ pc[r] \in {"scanFamily", "revokeRows"}
      THEN "replayLogged" ELSE "error"

\* A statement fails, the 5 s context expires, or the process dies: the open
\* transaction is rolled back.
Fail(r) ==
    /\ Failures
    /\ Running(r)
    /\ GiveUp(r, ErrorAnswer(r))

\* The commit is durable and its caller does not learn it, or the access token
\* of a committed rotation cannot be generated.
CommitUnanswered(r) ==
    /\ Failures
    /\ pc[r] = "commit"
    /\ Finish(r, "error")

\* The requests whose locks the next statement of r waits for.
WaitsFor(r) ==
    {h \in Requests \ {r} :
        \/ pc[r] = "lockSlot" /\ slotLock[input[r]] = h
        \/ pc[r] = "supersede" /\ sessionLock[prior[r]] = h
        \/ pc[r] = "insertSession"
             /\ \E s \in IndexUndecided(r, input[r]) : sessionLock[s] = h
        \/ pc[r] = "consume" /\ tokenLock[input[r]] = h
        \/ pc[r] \in {"touch", "revokeSession"} /\ sessionLock[current[r].session] = h
        \/ /\ pc[r] = "revokeRows"
           /\ \A t \in scan[r] : ~CanLockToken(r, t)
           /\ \E t \in scan[r] : tokenLock[t] = h}

\* r is on a cycle of the waits-for graph.
InDeadlock(r) ==
    /\ WaitsFor(r) # {}
    /\ \E D \in SUBSET Requests :
          /\ r \in D
          /\ \A p \in D : /\ WaitsFor(p) \cap D # {}
                          /\ \E q \in D : p \in WaitsFor(q)

\* PostgreSQL's deadlock detector cancels one transaction of a cycle.
DeadlockVictim(r) ==
    /\ InDeadlock(r)
    /\ GiveUp(r, ErrorAnswer(r))

Tick ==
    /\ clock < MaxClock
    /\ clock' = clock + 1
    /\ UNCHANGED <<sessionTable, tokenTable, slotLock, pc, locals>>

\* Every request was answered: nothing is left to do.
AllAnswered ==
    /\ \A r \in Requests : pc[r] \in Answers
    /\ UNCHANGED vars

Next ==
    \/ Arrive
    \/ Step
    \/ \E r \in Requests : Fail(r) \/ CommitUnanswered(r) \/ DeadlockVictim(r)
    \/ Tick
    \/ AllAnswered

Spec == Init /\ [][Next]_vars

\* While a handler can take its next step, one does (goroutines are scheduled and
\* PostgreSQL grants a free lock), and the deadlock detector runs.  Clients
\* need not call, nothing need fail and time need not pass.
Progress(r) ==
    \/ r \in Logins /\ IssueStep(r)
    \/ r \in Refreshes /\ RefreshStep(r)
    \/ r \in Logouts /\ LogoutStep(r)
    \/ DeadlockVictim(r)

FairSpec == Spec /\ WF_vars(\E r \in Requests : Progress(r))

-----------------------------------------------------------------------------
(* Type correctness of the committed rows, drafts, locks and handlers. *)
TypeOK ==
    /\ clock \in Nat
    /\ sessions \in [Sessions -> SessionRow \cup {None}]
    /\ sessionDraft \in [Sessions -> SessionRow \cup {None}]
    /\ sessionLock \in [Sessions -> Requests \cup {None}]
    /\ tokens \in [Tokens -> TokenRow \cup {None}]
    /\ tokenDraft \in [Tokens -> TokenRow \cup {None}]
    /\ tokenLock \in [Tokens -> Requests \cup {None}]
    /\ slotLock \in [Slots -> Requests \cup {None}]
    /\ pc \in [Requests -> PCs]
    /\ input \in [Requests -> Slots \cup Tokens \cup {None}]
    /\ stamp \in [Requests -> Nat]
    /\ prior \in [Requests -> Sessions \cup {None}]
    /\ current \in [Requests -> TokenRow \cup {None}]
    /\ scan \in [Requests -> SUBSET Tokens]

Issued(t) == tokens[t] # None
ChildOf(c, t) == Issued(c) /\ tokens[c].parent = t

\* Rotation is atomic and single-use: a committed token is consumed exactly when
\* a replacement of it was committed, and it never has two (Consume's conditional
\* UPDATE and the one transaction around it; 32 racing callers in the tests).
ConsumedExactlyOnce ==
    \A t \in Tokens : Issued(t) =>
        /\ tokens[t].consumed <=> \E c \in Tokens : ChildOf(c, t)
        /\ \A c, d \in Tokens : ChildOf(c, t) /\ ChildOf(d, t) => c = d

\* A family is a chain with one end: at any time at most one of its tokens was
\* not exchanged, whatever refreshes, replays and logouts overlap.
OneUnspentTokenPerFamily ==
    \A t, u \in Tokens :
        /\ Issued(t) /\ Issued(u) /\ tokens[t].family = tokens[u].family
        /\ ~tokens[t].consumed /\ ~tokens[u].consumed
        => t = u

\* The serialised decide-then-act of IssueForDevice: no login ever runs into
\* uq_sessions_active_device or sessions_revocation_check, even when it queued
\* behind other logins or a logout revoked the session it found.
NoConstraintViolation == \A r \in Requests : pc[r] # "violation"

\* Superseding is one transaction: a device slot that was ever opened is empty only
\* because a logout closed it.  A login that fails, deadlocks or dies after revoking
\* the session it supersedes leaves that session in place.
SlotEmptiedOnlyByLogout ==
    \A s \in Sessions : sessions[s] # None =>
        \E x \in Sessions :
            /\ sessions[x] # None /\ sessions[x].slot = sessions[s].slot
            /\ sessions[x].revoked \in {None, "USER_LOGOUT"}

\* FindSession's verdict on a token presented now.
Usable(t) ==
    /\ Issued(t)
    /\ ~tokens[t].consumed
    /\ tokens[t].revoked = None /\ ~Expired(tokens[t].expires)
    /\ ~SessionRejected(tokens[t].session)

\* Once a logout was answered 204, no token of the session can be exchanged: the
\* session's revocation covers even a token that a concurrent refresh committed
\* after the logout's RevokeFamily took its snapshot.
LogoutIsFinal ==
    \A r \in Logouts : pc[r] = "ok" =>
        \A t \in Tokens : Issued(t) /\ tokens[t].session = current[r].session
                            => ~Usable(t)

\* When a replay was answered and its revocation did not fail, the replayed token
\* and the token it had been exchanged for are both revoked: the loser of the
\* Consume race starts RevokeFamily only after the winner committed.
ReplayRevokesReplacement ==
    \A r \in Refreshes : pc[r] = "replay" =>
        \A t \in Tokens : Issued(t) /\ (t = input[r] \/ ChildOf(t, input[r]))
                            => tokens[t].revoked # None

\* No statement, commit, rollback or re-evaluated WHERE ever undoes or rewrites a
\* revocation or an exchange: reason and time of the first revocation survive.
RevocationIsPermanent ==
    [][/\ \A s \in Sessions : sessions[s] # None =>
             /\ sessions'[s] # None
             /\ sessions[s].revoked # None => sessions'[s] = sessions[s]
       /\ \A t \in Tokens : Issued(t) =>
             /\ tokens'[t] # None
             /\ tokens[t].consumed => tokens'[t].consumed
             /\ tokens[t].revoked # None => tokens'[t].revoked = tokens[t].revoked
      ]_vars

\* Every request that was begun is answered, although refresh locks a token row
\* before the session row and logout locks them the other way round: a cycle of
\* waits is always broken and locks are always released.  (Each request comes once.)
EveryRequestIsAnswered ==
    []<>(\A r \in Requests : ~Running(r))

-----------------------------------------------------------------------------
(* The tables as the ledger sees them. *)
LedgerHolder ==
    [d \in Slots |->
       IF \E s \in Sessions : HoldsSlot(sessions[s], d)
         THEN CHOOSE s \in Sessions : HoldsSlot(sessions[s], d) ELSE None]

LedgerMembers ==
    [s \in Sessions |-> {t \in Tokens : Issued(t) /\ tokens[t].family = s}]

LedgerHead ==
    [s \in Sessions |->
       IF \E t \in LedgerMembers[s] : ~tokens[t].consumed
         THEN CHOOSE t \in LedgerMembers[s] : ~tokens[t].consumed ELSE None]

LedgerCut == {t \in Tokens : Issued(t) /\ tokens[t].revoked # None}

Ledger == INSTANCE SessionLedger
            WITH holder <- LedgerHolder, members <- LedgerMembers,
                 head <- LedgerHead, cut <- LedgerCut

\* Every transaction, however its statements interleave with others, changes the
\* committed tables as one step of the ledger or not at all.
ImplementsLedger == Ledger!Spec

-----------------------------------------------------------------------------
(* What the documentation says and the code does not do. *)

\* docs/refresh.md, AUTH_REFRESH_TOKEN_REPLAY: every token derived from the
\* replayed one stops working.
ReplayKillsFamily ==
    \A r \in Refreshes : pc[r] = "replay" =>
        \A t \in Tokens : Issued(t) /\ tokens[t].family = current[r].family => ~Usable(t)

\* session.Session.IsActive
IsActive(row) == row.revoked = None /\ clock < row.expires

\* docs/login.md, DEVICE_SESSION_ALREADY_ACTIVE: there is an active session on
\* the device.
DeviceConflictMeansActiveSession ==
    [][\A r \in Logins :
          pc[r] # "deviceActive" /\ pc'[r] = "deviceActive" =>
             \E s \in Sessions : /\ HoldsSlot(sessions[s], input[r])
                                 /\ IsActive(sessions[s])]_vars
=============================================================================
