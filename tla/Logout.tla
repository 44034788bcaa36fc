------------------------------- MODULE Logout -------------------------------
(***************************************************************************)
(* logout.Service.Handle: whatever state the presented token and its       *)
(* session are in, revoke the session and then the token's family in one   *)
(* transaction.                                                            *)
(***************************************************************************)
EXTENDS SessionStore

\* FindByID: only the audit event reads what it returns.
FindLogoutSession(r) ==
    /\ pc[r] = "findSession"
    /\ Goto(r, "revokeSession")
    /\ UNCHANGED <<clock, sessionTable, tokenTable, slotLock, locals>>

\* Variant: only the token family is revoked.
LeaveSession(r) ==
    /\ pc[r] = "revokeSession"
    /\ Goto(r, "scanFamily")
    /\ UNCHANGED <<clock, sessionTable, tokenTable, slotLock, locals>>

\* Variant: the reason of a token is stored with the session.
RevokeWithTokenReason(r) ==
    /\ pc[r] = "revokeSession"
    /\ RevokeSession(r, current[r].session, "LOGOUT", "scanFamily")

RevokeLoggedOut(r) ==
    /\ pc[r] = "revokeSession"
    /\ RevokeSession(r, current[r].session, "USER_LOGOUT", "scanFamily")

RevokeLoggedOutRow(r) == RevokeRow(r, "LOGOUT")

FamilyRevoked(r) ==
    /\ pc[r] = "revokeRows"
    /\ scan[r] = {}
    /\ Goto(r, "commit")
    /\ UNCHANGED <<clock, sessionTable, tokenTable, slotLock, locals>>

CommitLogout(r) == pc[r] = "commit" /\ Finish(r, "ok")

LogoutStep(r) ==
    \/ FindLogoutSession(r)
    \/ RevokeLoggedOut(r)
    \/ ScanFamily(r) \/ RevokeLoggedOutRow(r) \/ FamilyRevoked(r)
    \/ CommitLogout(r)
=============================================================================
