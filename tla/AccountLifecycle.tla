-------------------------- MODULE AccountLifecycle --------------------------
(***************************************************************************)
(* Registrations, verifications, resends and OAuth callbacks running       *)
(* concurrently: how accounts come to exist, to be verified and to be      *)
(* linked, as docs/register.md, docs/email-verification.md, docs/oauth.md  *)
(* and docs/adr/0001 describe it.                                          *)
(***************************************************************************)
EXTENDS Registration, EmailVerification, OAuthLogin, FiniteSets

Init ==
    /\ clock = 0
    /\ users = [u \in Accounts |-> None]
    /\ vtokens = [t \in Tokens |-> None]
    /\ links = [c \in Callbacks |-> None]
    /\ cache = {}
    /\ mailed = {}
    /\ states = [x \in States |-> "unused"]
    /\ held = {}
    /\ pc = [r \in Requests |-> "idle"]
    /\ local = [r \in Requests |-> Nothing]

\* A request arrives.
Arrive ==
    \/ \E r \in Registrations, email \in Address : Register(r, email)
    \/ \E v \in Verifications : UnknownToken(v) \/ \E t \in Tokens : PresentToken(v, t)
    \/ \E s \in Resends, email \in Address : AskResend(s, email)
    \/ \E c \in Callbacks : RejectState(c)
    \/ \E c \in Callbacks, x \in States : ConsumeState(c, x) \/ LoseState(c, x)

Progress(r) ==
    \/ r \in Registrations /\ RegisterStep(r)
    \/ r \in Verifications /\ VerifyStep(r)
    \/ r \in Resends /\ ResendStep(r)
    \/ r \in Callbacks /\ CallbackStep(r)

-----------------------------------------------------------------------------
(* The environment *)

\* A statement fails, the deadline passes, or the process dies: the transaction of r
\* is rolled back; what was committed before stays.
Fail(r) ==
    /\ Failures
    /\ Running(r)
    /\ GiveUp(r, "error")

\* A commit, or the one INSERT of resend, is durable and its caller does not learn it.
CommitUnanswered(r) ==
    /\ Failures
    /\ \/ r \in Registrations /\ CommitAccount(r, "error")
       \/ r \in Verifications /\ CommitVerified(r, "error")
       \/ r \in Callbacks /\ CommitLink(r, "error")
       \/ r \in Resends /\ Mint(r, "error")

\* Redis loses a raw token: its TTL ends, it is evicted, or Redis restarts.
Evict(t) ==
    /\ t \in cache
    /\ cache' = cache \ {t}
    /\ UNCHANGED <<clock, rows, mailed, states, held, pc, local>>

\* Redis forgets a state after OAUTH_STATE_TTL.
ExpireState(x) ==
    /\ states[x] = "stored"
    /\ states' = [states EXCEPT ![x] = "gone"]
    /\ UNCHANGED <<clock, rows, cache, mailed, held, pc, local>>

\* An operator suspends an account.
Suspend(u) ==
    /\ users[u] # None /\ users[u].status = "ACTIVE"
    /\ \A h \in held : h[2] # <<"user", u>>
    /\ users' = [users EXCEPT ![u].status = "SUSPENDED"]
    /\ UNCHANGED <<clock, vtokens, links, redis, held, pc, local>>

Tick ==
    /\ clock < MaxClock
    /\ clock' = clock + 1
    /\ UNCHANGED <<rows, redis, held, pc, local>>

AllAnswered ==
    /\ \A r \in Requests : ~Running(r)
    /\ UNCHANGED vars

Next ==
    \/ Arrive
    \/ \E x \in States : Start(x) \/ ExpireState(x)
    \/ \E r \in Requests : Progress(r) \/ Fail(r) \/ CommitUnanswered(r)
    \/ \E t \in Tokens : Evict(t)
    \/ \E u \in Accounts : Suspend(u)
    \/ Tick
    \/ AllAnswered

Spec == Init /\ [][Next]_vars

\* While a handler can take its next step, one does.
FairSpec == Spec /\ WF_vars(\E r \in Requests : Progress(r))

-----------------------------------------------------------------------------
(* Type correctness of the rows, the stores in Redis and the handlers. *)
TypeOK ==
    /\ clock \in Nat
    /\ users \in [Accounts -> UserRow \cup {None}]
    /\ vtokens \in [Tokens -> TokenRow \cup {None}]
    /\ links \in [Callbacks -> LinkRow \cup {None}]
    /\ cache \subseteq Tokens
    /\ mailed \subseteq Tokens \X Address
    /\ states \in [States -> {"unused", "stored", "gone"}]
    /\ held \subseteq Requests \X Keys
    /\ pc \in [Requests -> PCs]
    /\ local \in [Requests -> Local]

Exists(u) == users[u] # None
Issued(t) == vtokens[t] # None
Linked(l) == links[l] # None

\* Whichever spelling that NormalizeEmail takes for the same address is used (case, spaces,
\* dots and tags of Gmail), and whoever registers it at the same time, a mailbox
\* has one account and an identity one link.
OneOwner ==
    /\ \A u, w \in Accounts :
          Exists(u) /\ Exists(w) /\ users[u].email.mailbox = users[w].email.mailbox => u = w
    /\ \A l, m \in Callbacks :
          Linked(l) /\ Linked(m) /\ links[l].subject = links[m].subject => l = m

\* An account that was registered has its verification token, one that came from the
\* provider its link, and a token unless the provider vouched for the address.
BornComplete ==
    /\ \A u \in Accounts : Exists(u) =>
          /\ u \in Registrations => Issued(u)
          /\ u \in Callbacks => /\ Linked(u) /\ links[u].user = u
                                /\ users[u].vouched \/ Issued(u)
    /\ \A t \in Tokens : Issued(t) => Exists(vtokens[t].user)

\* An account is verified exactly when one of its tokens was consumed or a provider
\* vouched for it at its creation; what a lost race re-reads is therefore never NULL.
VerifiedForAReason ==
    /\ \A u \in Accounts : Exists(u) =>
          (users[u].verifiedAt # None
             <=> \/ \E t \in Tokens : Issued(t) /\ vtokens[t].user = u /\ vtokens[t].consumed
                 \/ users[u].vouched)
    /\ \A v \in Verifications : pc[v] # "panic"

\* An identity is linked to an account that existed before only if both sides have
\* verified the one address (ADR 0001), even when accounts are read before the
\* transaction that links them.
LinkedOnlyIfVouched ==
    \A l \in Callbacks : Linked(l) =>
        LET u == links[l].user IN
        /\ Exists(u) /\ users[u].email.mailbox = links[l].email.mailbox
        /\ u # l => links[l].vouched /\ users[u].verifiedAt # None

\* No token is sent whose account or row was rolled back, and every token goes to the
\* address of the account it verifies.
MailedTokensWork ==
    \A m \in mailed : Issued(m[1]) /\ users[vtokens[m[1]].user].email = m[2]

\* A state lets one callback through, however its deliveries overlap.
OneExchangePerState ==
    Cardinality({c \in Callbacks : pc[c] \notin {"idle", "noState"}})
        <= Cardinality({x \in States : states[x] = "gone"})

\* Every request that was begun is answered: transactions take what they lock in one
\* order, so no detector is needed, and a lost race is over after one more read.  (Each
\* request comes once.)
EveryRequestIsAnswered == []<>(\A r \in Requests : ~Running(r))

-----------------------------------------------------------------------------
(* The promise this implements *)

MailboxOf(u) == users[u].email.mailbox

AccountOf(m) ==
    LET Owns(u) == Exists(u) /\ MailboxOf(u) = m IN
    IF \A u \in Accounts : ~Owns(u) THEN "none"
    ELSE IF \E u \in Accounts : Owns(u) /\ users[u].verifiedAt # None THEN "verified"
    ELSE "unverified"

LinkOf(s) ==
    IF LinksOf(s) = {} THEN None ELSE MailboxOf(links[CHOOSE l \in LinksOf(s) : TRUE].user)

TokenOf(t) ==
    IF Issued(t) THEN [mailbox |-> MailboxOf(vtokens[t].user), used |-> vtokens[t].consumed]
                 ELSE None

ASSUME DirectoryNoneAssumption ==
    None \notin Mailboxes \cup [mailbox : Mailboxes, used : BOOLEAN]

Directory ==
    INSTANCE AccountDirectory WITH
        account <- [m \in Mailboxes |-> AccountOf(m)],
        link    <- [s \in Subjects |-> LinkOf(s)],
        token   <- [t \in Tokens |-> TokenOf(t)]

\* Whatever runs concurrently, fails or is suspended half way: an account appears
\* together with its token or link, a token is used up in the step that verifies its
\* account, a verification is never lost and a link never moves.
ImplementsDirectory == Directory!Spec

-----------------------------------------------------------------------------
(* What the documentation says and the code does not do. *)

\* docs/oauth.md: the second case is for an address no account has.  No callback starts
\* to create an account for a mailbox that has one.
KnownMailboxIsFound ==
    [][\A c \in Callbacks :
          pc[c] = "findEmail" /\ pc'[c] = "createUser" =>
             \A u \in Accounts : Exists(u) =>
                users[u].email.mailbox # local[c].identity.email.mailbox]_vars
=============================================================================
