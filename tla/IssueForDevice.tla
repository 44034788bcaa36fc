--------------------------- MODULE IssueForDevice ---------------------------
(***************************************************************************)
(* sessionissuer.Issuer.IssueForDevice: the transaction every login, by    *)
(* password or by OAuth, ends with.  At most one session per device slot   *)
(* is unrevoked; a login within the grace period of the slot's session     *)
(* supersedes it, a later one is refused.                                  *)
(***************************************************************************)
EXTENDS SessionStore

\* The transaction begins: NOW() is fixed, and `now := time.Now()` is read.
BeginIssue(r, d) ==
    /\ pc[r] = "idle"
    /\ input' = [input EXCEPT ![r] = d]
    /\ stamp' = [stamp EXCEPT ![r] = clock]
    /\ Goto(r, "lockSlot")
    /\ UNCHANGED <<clock, sessionTable, tokenTable, slotLock, prior, current, scan>>

\* Variant: logins for a device are not serialised.
LockNoSlot(r) ==
    /\ pc[r] = "lockSlot"
    /\ Goto(r, "findActive")
    /\ UNCHANGED <<clock, sessionTable, tokenTable, slotLock, locals>>

LockDeviceSlot(r) ==
    /\ pc[r] = "lockSlot"
    /\ slotLock[input[r]] = None
    /\ slotLock' = [slotLock EXCEPT ![input[r]] = r]
    /\ Goto(r, "findActive")
    /\ UNCHANGED <<clock, sessionTable, tokenTable, locals>>

\* FindActiveByUserAndDevice; LIMIT 1 of at most one row.
SlotHolders(d) == {s \in Sessions : HoldsSlot(sessions[s], d)}

FindNoSession(r) ==
    /\ pc[r] = "findActive"
    /\ SlotHolders(input[r]) = {}
    /\ Goto(r, "insertSession")
    /\ UNCHANGED <<clock, sessionTable, tokenTable, slotLock, locals>>

WithinGrace(s) == clock - sessions[s].created <= DeviceGracePeriod

FindRecentSession(r) ==
    /\ pc[r] = "findActive"
    /\ \E s \in SlotHolders(input[r]) :
          WithinGrace(s) /\ prior' = [prior EXCEPT ![r] = s]
    /\ Goto(r, "supersede")
    /\ UNCHANGED <<clock, sessionTable, tokenTable, slotLock, input, stamp, current, scan>>

\* errs.ErrDeviceSessionActive, 409; the older session is left alone.
FindOlderSession(r) ==
    /\ pc[r] = "findActive"
    /\ \E s \in SlotHolders(input[r]) : ~WithinGrace(s)
    /\ GiveUp(r, "deviceActive")

\* Variant: the revocation runs on the pool instead of the transaction.
SupersedeOutsideTx(r) ==
    LET row == RevokedSession(sessionDraft[prior[r]], "SESSION_SUPERSEDED", clock) IN
    /\ pc[r] = "supersede"
    /\ sessionLock[prior[r]] = None
    /\ sessions' = [sessions EXCEPT ![prior[r]] = row]
    /\ sessionDraft' = [sessionDraft EXCEPT ![prior[r]] = row]
    /\ Goto(r, "insertSession")
    /\ UNCHANGED <<clock, sessionLock, tokenTable, slotLock, locals>>

Supersede(r) ==
    /\ pc[r] = "supersede"
    /\ RevokeSession(r, prior[r], "SESSION_SUPERSEDED", "insertSession")

\* Another transaction's unfinished write decides whether d is free in
\* uq_sessions_active_device, so the INSERT waits for it.
IndexUndecided(r, d) ==
    {s \in Sessions : /\ sessionLock[s] \notin {None, r}
                      /\ HoldsSlot(sessions[s], d) \/ HoldsSlot(sessionDraft[s], d)}

SlotTaken(d) == \E s \in Sessions : HoldsSlot(sessionDraft[s], d)

NewSession(r) ==
    [slot |-> input[r], created |-> stamp[r], expires |-> stamp[r] + SessionTTL,
     revoked |-> None, revokedAt |-> None]

InsertSession(r) ==
    /\ pc[r] = "insertSession"
    /\ IndexUndecided(r, input[r]) = {}
    /\ \/ /\ SlotTaken(input[r])
          /\ GiveUp(r, "violation")
       \/ /\ ~SlotTaken(input[r])
          /\ WriteSession(r, r, NewSession(r))
          /\ Goto(r, "insertRoot")
          /\ UNCHANGED <<clock, tokenTable, slotLock, locals>>

RootToken(r) ==
    [session |-> r, family |-> r, parent |-> None,
     expires |-> clock + RefreshTTL, consumed |-> FALSE, revoked |-> None]

InsertRootToken(r) ==
    /\ pc[r] = "insertRoot"
    /\ WriteToken(r, r, RootToken(r))
    /\ Goto(r, "commit")
    /\ UNCHANGED <<clock, sessionTable, slotLock, locals>>

CommitIssue(r) == pc[r] = "commit" /\ Finish(r, "ok")

IssueStep(r) ==
    \/ LockDeviceSlot(r)
    \/ FindNoSession(r) \/ FindRecentSession(r) \/ FindOlderSession(r)
    \/ Supersede(r)
    \/ InsertSession(r)
    \/ InsertRootToken(r)
    \/ CommitIssue(r)
=============================================================================
