---------------------------- MODULE SessionStore ----------------------------
(***************************************************************************)
(* The part of PostgreSQL that login, refresh and logout share: the rows   *)
(* of `sessions` and `refresh_tokens`, the advisory lock of a device slot, *)
(* and the transactions of TransactionManager.WithinTransaction.           *)
(*                                                                         *)
(* A request is one HTTP call.  A request mints at most one session and    *)
(* one refresh token (uuid.New()), so a session is named by the login that *)
(* creates it and a token by the login or refresh that creates it.         *)
(*                                                                         *)
(* READ COMMITTED: a statement reads committed rows.  A row has one        *)
(* committed version and at most one newer draft, which belongs to the     *)
(* transaction that holds the row's lock.  An UPDATE waits for the lock    *)
(* and then evaluates its WHERE again on the newest version.               *)
(***************************************************************************)
EXTENDS Integers

CONSTANTS Logins,             \* requests that reach Issuer.IssueForDevice
          Refreshes,          \* requests of POST /v1/auth/refresh
          Logouts,            \* requests of POST /v1/auth/logout
          Slots,              \* the (user_id, device_id) pairs
          SessionTTL,         \* SESSION_TTL
          RefreshTTL,         \* REFRESH_TOKEN_TTL
          DeviceGracePeriod,  \* LOGIN_DEVICE_GRACE_PERIOD
          Failures,           \* may a statement, commit or handler fail?
          MaxClock,           \* bound: the last instant a model run looks at
          None                \* SQL NULL, and "no row"

Requests == Logins \cup Refreshes \cup Logouts
Sessions == Logins
Tokens   == Logins \cup Refreshes

SessionReasons == {"USER_LOGOUT", "SESSION_SUPERSEDED"}
TokenReasons   == {"LOGOUT", "REPLAY_DETECTED"}

SessionRow ==
    [slot : Slots, created : Nat, expires : Nat,
     revoked : SessionReasons \cup {None}, revokedAt : Nat \cup {None}]

TokenRow ==
    [session : Sessions, family : Sessions, parent : Tokens \cup {None},
     expires : Nat, consumed : BOOLEAN, revoked : TokenReasons \cup {None}]

\* Config.Validate refuses to start the server on other durations.
ASSUME DurationsAssumption ==
    /\ SessionTTL \in Nat \ {0}
    /\ RefreshTTL \in Nat \ {0}
    /\ DeviceGracePeriod \in Nat
    /\ SessionTTL >= RefreshTTL

ASSUME RequestsAssumption ==
    /\ Logins \cap Refreshes = {}
    /\ Logins \cap Logouts = {}
    /\ Refreshes \cap Logouts = {}

ASSUME NoneAssumption ==
    None \notin Requests \cup Slots \cup SessionRow \cup TokenRow
                  \cup SessionReasons \cup TokenReasons \cup Nat

ASSUME BoundsAssumption == Failures \in BOOLEAN /\ MaxClock \in Nat

VARIABLES
    clock,          \* time.Now() and clock_timestamp()
    sessions,       \* committed rows of sessions
    sessionDraft,   \* their newest versions
    sessionLock,    \* the transaction that wrote the draft
    tokens,         \* committed rows of refresh_tokens
    tokenDraft,
    tokenLock,
    slotLock,       \* pg_advisory_xact_lock of each device slot
    pc,             \* what a request does next, or how it was answered
    input,          \* the device slot of a login, the token a client presents
    stamp,          \* NOW() of a login's transaction, mint time of a refresh
    prior,          \* Issuer: existingSession.ID
    current,        \* refresh and logout: the row FindByHash returned
    scan            \* rows a running RevokeFamily has still to visit

sessionTable == <<sessions, sessionDraft, sessionLock>>
tokenTable   == <<tokens, tokenDraft, tokenLock>>
locals       == <<input, stamp, prior, current, scan>>
vars == <<clock, sessionTable, tokenTable, slotLock, pc, locals>>

-----------------------------------------------------------------------------
(* How a request ends.  "replayLogged" is the same HTTP answer as "replay";*)
(* the family revocation failed and only a log line says so.  "violation"  *)
(* is a constraint of the schema refusing a statement.                     *)
Answers == {"ok", "error", "invalid", "deviceActive", "replay",
            "replayLogged", "violation"}

PCs == Answers \cup
       {"idle", "lockSlot", "findActive", "supersede", "insertSession",
        "insertRoot", "findSession", "consume", "insertChild", "touch",
        "revokeSession", "scanFamily", "revokeRows", "commit"}

Running(r) == pc[r] \notin Answers \cup {"idle"}

Goto(r, where) == pc' = [pc EXCEPT ![r] = where]

-----------------------------------------------------------------------------
(* Transactions *)

\* WithinTransaction's tx.Commit: the drafts of r become the committed rows.
Commit(r) ==
    /\ sessions' = [s \in Sessions |->
                      IF sessionLock[s] = r THEN sessionDraft[s] ELSE sessions[s]]
    /\ tokens' = [t \in Tokens |->
                      IF tokenLock[t] = r THEN tokenDraft[t] ELSE tokens[t]]
    /\ UNCHANGED <<sessionDraft, tokenDraft>>

\* WithinTransaction's deferred tx.Rollback: the drafts of r are forgotten.
Rollback(r) ==
    /\ sessionDraft' = [s \in Sessions |->
                      IF sessionLock[s] = r THEN sessions[s] ELSE sessionDraft[s]]
    /\ tokenDraft' = [t \in Tokens |->
                      IF tokenLock[t] = r THEN tokens[t] ELSE tokenDraft[t]]
    /\ UNCHANGED <<sessions, tokens>>

\* Row locks and advisory locks are released when the transaction ends.
ReleaseLocks(r) ==
    /\ sessionLock' = [s \in Sessions |-> IF sessionLock[s] = r THEN None ELSE sessionLock[s]]
    /\ tokenLock' = [t \in Tokens |-> IF tokenLock[t] = r THEN None ELSE tokenLock[t]]
    /\ slotLock' = [d \in Slots |-> IF slotLock[d] = r THEN None ELSE slotLock[d]]

\* The transaction of r is rolled back and its handler answers.
GiveUp(r, answer) ==
    /\ Rollback(r)
    /\ ReleaseLocks(r)
    /\ Goto(r, answer)
    /\ UNCHANGED <<clock, locals>>

\* The transaction of r is committed and its handler goes on.
Finish(r, answer) ==
    /\ Commit(r)
    /\ ReleaseLocks(r)
    /\ Goto(r, answer)
    /\ UNCHANGED <<clock, locals>>

-----------------------------------------------------------------------------
(* Rows *)

CanLockSession(r, s) == sessionLock[s] \in {None, r}
CanLockToken(r, t)   == tokenLock[t] \in {None, r}

WriteSession(r, s, row) ==
    /\ sessionDraft' = [sessionDraft EXCEPT ![s] = row]
    /\ sessionLock' = [sessionLock EXCEPT ![s] = r]
    /\ UNCHANGED sessions

WriteToken(r, t, row) ==
    /\ tokenDraft' = [tokenDraft EXCEPT ![t] = row]
    /\ tokenLock' = [tokenLock EXCEPT ![t] = r]
    /\ UNCHANGED tokens

\* A row GetActiveSessionByUserAndDevice and the partial unique index
\* uq_sessions_active_device see: revoked_at IS NULL, whatever expires_at is.
HoldsSlot(row, d) == row # None /\ row.slot = d /\ row.revoked = None

\* RevokeSession, run at the instant `now`, on one row.
RevokedSession(row, why, now) ==
    IF row.revoked = None THEN [row EXCEPT !.revoked = why, !.revokedAt = now]
                          ELSE row

\* sessions_revocation_check
RevocationCheck(row) == row.revoked = None \/ row.revokedAt >= row.created

\* UPDATE sessions SET revoked_at ... WHERE id = s AND revoked_at IS NULL
RevokeSession(r, s, why, next) ==
    LET row == RevokedSession(sessionDraft[s], why, clock) IN
    /\ CanLockSession(r, s)
    /\ \/ /\ row = sessionDraft[s]               \* zero rows: nothing is locked
          /\ Goto(r, next)
          /\ UNCHANGED <<clock, sessionTable, tokenTable, slotLock, locals>>
       \/ /\ row # sessionDraft[s] /\ RevocationCheck(row)
          /\ WriteSession(r, s, row)
          /\ Goto(r, next)
          /\ UNCHANGED <<clock, tokenTable, slotLock, locals>>
       \/ /\ ~RevocationCheck(row)
          /\ GiveUp(r, "violation")

-----------------------------------------------------------------------------
(* Statements refresh and logout share *)

\* FindByHash finds no row: the client presented something never issued.
UnknownToken(r) ==
    /\ pc[r] = "idle"
    /\ Goto(r, "invalid")
    /\ UNCHANGED <<clock, sessionTable, tokenTable, slotLock, locals>>

FindByHash(r, t) ==
    /\ pc[r] = "idle"
    /\ tokens[t] # None
    /\ input' = [input EXCEPT ![r] = t]
    /\ current' = [current EXCEPT ![r] = tokens[t]]
    /\ Goto(r, "findSession")
    /\ UNCHANGED <<clock, sessionTable, tokenTable, slotLock, stamp, prior, scan>>

\* Variant: only tokens not yet exchanged are selected.
UnspentSnapshot(f) ==
    {t \in Tokens : tokens[t] # None /\ tokens[t].family = f /\ ~tokens[t].consumed}

\* The rows RevokeFamily's snapshot selects: family_id = f AND revoked_at IS
\* NULL, consumed or not.  A row committed later is not among them.
FamilySnapshot(f) ==
    {t \in Tokens : tokens[t] # None /\ tokens[t].family = f /\ tokens[t].revoked = None}

ScanFamily(r) ==
    /\ pc[r] = "scanFamily"
    /\ scan' = [scan EXCEPT ![r] = FamilySnapshot(current[r].family)]
    /\ Goto(r, "revokeRows")
    /\ UNCHANGED <<clock, sessionTable, tokenTable, slotLock, input, stamp, prior, current>>

\* Variant: the row's newest version is not looked at again.
RevokeRowUnseen(r, why) ==
    \E t \in scan[r] :
        /\ pc[r] = "revokeRows"
        /\ CanLockToken(r, t)
        /\ scan' = [scan EXCEPT ![r] = @ \ {t}]
        /\ WriteToken(r, t, [tokenDraft[t] EXCEPT !.revoked = why])
        /\ UNCHANGED <<clock, sessionTable, slotLock, pc, input, stamp, prior, current>>

\* One row of the UPDATE, in whatever order the plan visits them; the WHERE is
\* evaluated again on the newest version once the row's lock is free.
RevokeRow(r, why) ==
    \E t \in scan[r] :
        /\ pc[r] = "revokeRows"
        /\ CanLockToken(r, t)
        /\ scan' = [scan EXCEPT ![r] = @ \ {t}]
        /\ IF tokenDraft[t].revoked = None
             THEN WriteToken(r, t, [tokenDraft[t] EXCEPT !.revoked = why])
             ELSE UNCHANGED tokenTable
        /\ UNCHANGED <<clock, sessionTable, slotLock, pc, input, stamp, prior, current>>
=============================================================================
