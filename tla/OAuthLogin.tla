----------------------------- MODULE OAuthLogin -----------------------------
(***************************************************************************)
(* oauthstart.Service.Handle and oauthcallback.Service.Handle up to the    *)
(* point where IssueForDevice takes over: the single-use state, and the    *)
(* three cases of linking an identity to an account.                       *)
(***************************************************************************)
EXTENDS Accounts

\* /start stores a fresh state and answers with the URL that carries it.
Start(x) ==
    /\ states[x] = "unused"
    /\ states' = [states EXCEPT ![x] = "stored"]
    /\ UNCHANGED <<clock, rows, cache, mailed, held, pc, local>>

\* Variant: the state is read and left in place.
KeepState(c, x) ==
    /\ pc[c] = "idle"
    /\ states[x] = "stored"
    /\ Learn(c, "exchange", local[c])

\* GETDEL.
ConsumeState(c, x) ==
    /\ pc[c] = "idle"
    /\ states[x] = "stored"
    /\ states' = [states EXCEPT ![x] = "gone"]
    /\ Goto(c, "exchange")
    /\ UNCHANGED <<clock, rows, cache, mailed, held>>

\* Unknown, expired or consumed.
RejectState(c) == pc[c] = "idle" /\ GiveUp(c, "noState")

\* The reply of GETDEL is lost; the Redis client sends it again and finds nothing, or
\* gives up.
LoseState(c, x) ==
    /\ Failures
    /\ pc[c] = "idle"
    /\ states[x] = "stored"
    /\ states' = [states EXCEPT ![x] = "gone"]
    /\ \E reply \in {"noState", "error"} : Goto(c, reply)
    /\ UNCHANGED <<clock, rows, cache, mailed, held>>

\* The provider answers the code with the person it belongs to.
Exchange(c) ==
    /\ pc[c] = "exchange"
    /\ \E id \in Identity : Learn(c, "findLink", [local[c] EXCEPT !.identity = id])

Subject(c) == local[c].identity.subject

LinksOf(subject) == {l \in Callbacks : links[l] # None /\ links[l].subject = subject}

\* Case 1: FindByProviderID, and FindByID of its account follows.
FindLink(c) ==
    /\ pc[c] = "findLink"
    /\ \E l \in LinksOf(Subject(c)) :
          Learn(c, "findAccount", [local[c] EXCEPT !.user = links[l].user])

FindNoLink(c) ==
    /\ pc[c] = "findLink"
    /\ LinksOf(Subject(c)) = {}
    /\ Learn(c, "findEmail", local[c])

ReadLinkedAccount(c) ==
    /\ pc[c] = "findAccount"
    /\ Learn(c, "canLogin", [local[c] EXCEPT !.status = users[local[c].user].status])

\* Variant: the provider's word is enough.
TrustProvider(c, u) == local[c].identity.verified

\* Case 3 asks that both sides have verified the address.
BothVerified(c, u) == local[c].identity.verified /\ users[u].verifiedAt # None

\* FindByEmail, with the address as the provider wrote it.
FindOwner(c) ==
    /\ pc[c] = "findEmail"
    /\ \E u \in OwnersOf(local[c].identity.email) :
          IF BothVerified(c, u)
            THEN Learn(c, "createLink",
                       [local[c] EXCEPT !.user = u, !.status = users[u].status])
            ELSE GiveUp(c, "rejected")

\* Case 2: NewOAuth normalizes the address; an address the provider has not verified
\* gets a token of the ordinary kind.
FindNoOwner(c) ==
    /\ pc[c] = "findEmail"
    /\ OwnersOf(local[c].identity.email) = {}
    /\ Learn(c, "createUser",
             [local[c] EXCEPT !.user = c,
                              !.email = NormalizeEmail(local[c].identity.email),
                              !.token = IF local[c].identity.verified THEN None ELSE c,
                              !.now = clock])

VerifiedAt(c) == IF local[c].identity.verified THEN local[c].now ELSE None

CreateOAuthUser(c) == InsertUser(c, local[c].email, VerifiedAt(c), "createLink")

NewAccount(c)  == local[c].user = c
OwesToken(c)   == local[c].token # None

\* CreateOAuthIdentity: waits for an unfinished link of the subject, then may hit
\* UNIQUE(provider, provider_user_id).
CreateLink(c) ==
    /\ pc[c] = "createLink"
    /\ Free(c, <<"subject", Subject(c)>>)
    /\ \/ LinksOf(Subject(c)) # {} /\ GiveUp(c, "violation")
       \/ /\ LinksOf(Subject(c)) = {}
          /\ Take(c, <<"subject", Subject(c)>>, IF OwesToken(c) THEN "createToken" ELSE "commit")

NewLink(c) ==
    [user |-> local[c].user, subject |-> Subject(c), email |-> local[c].identity.email,
     vouched |-> local[c].identity.verified]

\* The transaction of case 2 or of case 3 commits.
CommitLink(c, where) ==
    /\ pc[c] = "commit"
    /\ links' = [links EXCEPT ![c] = NewLink(c)]
    /\ users' = IF NewAccount(c)
                  THEN [users EXCEPT ![c] = NewUser(local[c].email, VerifiedAt(c))] ELSE users
    /\ vtokens' = IF OwesToken(c)
                    THEN [vtokens EXCEPT ![c] = NewToken(c, local[c].now)] ELSE vtokens
    /\ ReleaseLocks(c)
    /\ Goto(c, where)
    /\ UNCHANGED <<clock, redis>>

\* A new account may be owed an email, and logs in; the status of an old one is
\* looked at.
AfterCommit(c) ==
    IF OwesToken(c) THEN "storeRaw" ELSE IF NewAccount(c) THEN "issue" ELSE "canLogin"

\* On the row read before.
CanLogin(c) ==
    /\ pc[c] = "canLogin"
    /\ Learn(c, IF local[c].status = "ACTIVE" THEN "issue" ELSE "rejected", local[c])

\* IssueForDevice, which is module IssueForDevice.
Issue(c) ==
    /\ pc[c] = "issue"
    /\ \E reply \in {"ok", "rejected"} : GiveUp(c, reply)

CallbackStep(c) ==
    \/ Exchange(c)
    \/ FindLink(c) \/ FindNoLink(c) \/ ReadLinkedAccount(c)
    \/ FindOwner(c) \/ FindNoOwner(c)
    \/ CreateOAuthUser(c) \/ CreateLink(c) \/ InsertToken(c)
    \/ CommitLink(c, AfterCommit(c))
    \/ StoreRaw(c) \/ Mail(c, "issue")
    \/ CanLogin(c) \/ Issue(c)
=============================================================================
