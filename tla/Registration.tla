---------------------------- MODULE Registration ----------------------------
(***************************************************************************)
(* RegisterService.Handle: an account and its verification token in one    *)
(* transaction, then the raw token to the cache and into an email.         *)
(***************************************************************************)
EXTENDS Accounts

\* The input is valid and the limiter lets the call pass, or not.
Register(r, email) ==
    /\ pc[r] = "idle"
    /\ \E where \in {"findEmail", "rejected"} :
          Learn(r, where, [local[r] EXCEPT !.email = NormalizeEmail(email)])

\* The duplicate check; then the password is hashed, and the expiry of the token is
\* fixed before the transaction begins.
FindDuplicate(r) ==
    /\ pc[r] = "findEmail"
    /\ IF OwnersOf(local[r].email) # {}
         THEN GiveUp(r, "rejected")
         ELSE Learn(r, "createUser", [local[r] EXCEPT !.user = r, !.token = r, !.now = clock])

CreateUser(r) == InsertUser(r, local[r].email, None, "createToken")

\* The transaction commits; what the handler does next, or answers, is `where`.
CommitAccount(r, where) ==
    /\ pc[r] = "commit"
    /\ users' = [users EXCEPT ![r] = NewUser(local[r].email, None)]
    /\ vtokens' = [vtokens EXCEPT ![r] = NewToken(r, local[r].now)]
    /\ ReleaseLocks(r)
    /\ Goto(r, where)
    /\ UNCHANGED <<clock, links, redis>>

RegisterStep(r) ==
    \/ FindDuplicate(r)
    \/ CreateUser(r) \/ InsertToken(r) \/ CommitAccount(r, "storeRaw")
    \/ StoreRaw(r) \/ Mail(r, "ok")
=============================================================================
