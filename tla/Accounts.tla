------------------------------ MODULE Accounts ------------------------------
(***************************************************************************)
(* The part of PostgreSQL and Redis that registration, email verification  *)
(* and OAuth logins share: the rows of users, email_verification_tokens    *)
(* and oauth_identities with their unique constraints, the cache of raw    *)
(* verification tokens, and the OAuth states.                              *)
(*                                                                         *)
(* A request is one HTTP call.  It creates at most one account, one token  *)
(* and one link, so each is named by the request that creates it.          *)
(*                                                                         *)
(* What a transaction writes is fixed by what its handler remembers, so    *)
(* its rows appear when it commits.  Until then it holds the keys and rows *)
(* it wrote: the statement of another transaction on one of them waits.    *)
(***************************************************************************)
EXTENDS Integers

CONSTANTS Registrations,   \* requests of POST /v1/user/register
          Verifications,   \* requests of POST /v1/user/verify-email
          Resends,         \* requests of POST /v1/user/verify-email/resend
          Callbacks,       \* requests of GET /v1/auth/oauth/google/callback
          States,          \* state values generated by /start
          Mailboxes,       \* what an email address delivers to
          Subjects,        \* provider_user_id
          TokenTTL,        \* EMAIL_VERIFICATION_TOKEN_TTL
          Failures,        \* may a statement, commit or handler fail?
          MaxClock,        \* bound: the last instant a model run looks at
          None             \* SQL NULL, and "no row"

Requests == Registrations \cup Verifications \cup Resends \cup Callbacks
Accounts == Registrations \cup Callbacks
Tokens   == Accounts \cup Resends

\* An address as somebody wrote it: the mailbox, in its normal form or another.
Address == [mailbox : Mailboxes, normal : BOOLEAN]

\* Variant: addresses are stored as they are written.
AsWritten(email) == email

NormalizeEmail(email) == [email EXCEPT !.normal = TRUE]

\* What the provider says of the person who came back from it.
Identity == [subject : Subjects, email : Address, verified : BOOLEAN]

\* No code sets another status than ACTIVE; operators may.  `vouched` is not stored:
\* it is the provider's email_verified of the identity a row was made from.
Statuses == {"ACTIVE", "SUSPENDED"}
UserRow  == [email : Address, status : Statuses, verifiedAt : Nat \cup {None}, vouched : BOOLEAN]
TokenRow == [user : Accounts, expires : Nat, consumed : BOOLEAN]
LinkRow  == [user : Accounts, subject : Subjects, email : Address, vouched : BOOLEAN]

\* What a handler remembers: the normalized email, the identity Exchange returned, the
\* account it works for and the status its row had, the token, and its time.Now().
Local == [email : Address \cup {None}, identity : Identity \cup {None},
          user : Accounts \cup {None}, status : Statuses \cup {None},
          token : Tokens \cup {None}, now : Nat]

Nothing == [email |-> None, identity |-> None, user |-> None, status |-> None,
            token |-> None, now |-> 0]

\* What a transaction can be in the way of: an entry of a unique index, or a row.
Keys == ({"email"} \X Address) \cup ({"subject"} \X Subjects)
            \cup ({"token"} \X Tokens) \cup ({"user"} \X Accounts)

ASSUME AccountsAssumption ==
    TokenTTL \in Nat \ {0} /\ Failures \in BOOLEAN /\ MaxClock \in Nat

ASSUME AccountRequestsAssumption ==
    /\ Registrations \cap (Verifications \cup Resends \cup Callbacks) = {}
    /\ Verifications \cap (Resends \cup Callbacks) = {}
    /\ Resends \cap Callbacks = {}

ASSUME AccountNoneAssumption ==
    None \notin Requests \cup Address \cup Identity \cup UserRow \cup TokenRow
                  \cup LinkRow \cup Statuses \cup Nat

VARIABLES
    clock,
    users, vtokens, links,   \* the committed rows
    cache,                   \* tokens whose raw value Redis has
    mailed,                  \* which raw token was sent to whom
    states,                  \* OAuth states: unused, stored or gone
    held,                    \* who keeps which key until its transaction ends
    pc,                      \* what a request does next, or how it was answered
    local                    \* what its handler remembers

rows  == <<users, vtokens, links>>
redis == <<cache, mailed, states>>
vars  == <<clock, rows, redis, held, pc, local>>

\* "panic": a nil dereference, which Recovery answers.  "violation": a 500 because a
\* unique constraint refused a row.  "rejected": any 4xx.
Answers == {"ok", "error", "rejected", "noState", "panic", "violation"}

PCs == Answers \cup
       {"idle", "findEmail", "createUser", "createLink", "createToken", "commit",
        "storeRaw", "mail", "findActive", "readCache", "mint",
        "findAccount", "consume", "markVerified", "reread",
        "exchange", "findLink", "canLogin", "issue"}

Running(r) == pc[r] \notin Answers \cup {"idle"}

-----------------------------------------------------------------------------
(* Handlers and transactions *)

\* The handler goes on, remembering `mine`, or returns.
Continue(r, where, mine) ==
    /\ pc' = [pc EXCEPT ![r] = where]
    /\ local' = [local EXCEPT ![r] = IF where \in Answers THEN Nothing ELSE mine]

Goto(r, where) == Continue(r, where, local[r])

Free(r, key) == \A h \in held : h[2] = key => h[1] = r

Hold(r, key) == held' = held \cup {<<r, key>>}

ReleaseLocks(r) == held' = {h \in held : h[1] # r}

\* The transaction of r, if it has one, is rolled back.
GiveUp(r, where) ==
    /\ ReleaseLocks(r)
    /\ Goto(r, where)
    /\ UNCHANGED <<clock, rows, redis>>

\* A statement that takes a key another transaction may hold.
Take(r, key, where) ==
    /\ Hold(r, key)
    /\ Goto(r, where)
    /\ UNCHANGED <<clock, rows, redis>>

\* A step that changes nothing but what the handler knows.
Learn(r, where, mine) ==
    /\ Continue(r, where, mine)
    /\ UNCHANGED <<clock, rows, redis, held>>

-----------------------------------------------------------------------------
(* Statements several handlers share *)

\* GetUserByEmail: users.email is compared as it is stored.
OwnersOf(email) == {u \in Accounts : users[u] # None /\ users[u].email = email}

NewUser(email, verifiedAt) ==
    [email |-> email, status |-> "ACTIVE", verifiedAt |-> verifiedAt,
     vouched |-> verifiedAt # None]

\* Variant: the account is inserted outside the transaction.
InsertUserOutsideTx(r, email, verifiedAt, where) ==
    /\ pc[r] = "createUser"
    /\ Free(r, <<"email", email>>) /\ OwnersOf(email) = {}
    /\ users' = [users EXCEPT ![r] = NewUser(email, verifiedAt)]
    /\ Goto(r, where)
    /\ UNCHANGED <<clock, vtokens, links, redis, held>>

\* CreateUser: waits for an unfinished row with the email, then may hit users_email_key.
InsertUser(r, email, verifiedAt, where) ==
    /\ pc[r] = "createUser"
    /\ Free(r, <<"email", email>>)
    /\ \/ OwnersOf(email) # {} /\ GiveUp(r, "violation")
       \/ OwnersOf(email) = {} /\ Take(r, <<"email", email>>, where)

\* Variant: the email is sent from within the transaction.
MailInsideTx(r) ==
    /\ pc[r] = "createToken"
    /\ mailed' = mailed \cup {<<local[r].token, local[r].email>>}
    /\ Goto(r, "commit")
    /\ UNCHANGED <<clock, rows, cache, states, held>>

\* CreateVerificationToken inside a transaction: nothing is in its way.
InsertToken(r) == pc[r] = "createToken" /\ Learn(r, "commit", local[r])

NewToken(u, at) == [user |-> u, expires |-> at + TokenTTL, consumed |-> FALSE]

\* StoreRawToken; its error is logged.
StoreRaw(r) ==
    /\ pc[r] = "storeRaw"
    /\ cache' = cache \cup {local[r].token} \/ (Failures /\ UNCHANGED cache)
    /\ Goto(r, "mail")
    /\ UNCHANGED <<clock, rows, mailed, states, held>>

\* PublishVerificationEmail; its error is logged.
Mail(r, where) ==
    /\ pc[r] = "mail"
    /\ \/ mailed' = mailed \cup {<<local[r].token, local[r].email>>}
       \/ Failures /\ UNCHANGED mailed
    /\ Goto(r, where)
    /\ UNCHANGED <<clock, rows, cache, states, held>>
=============================================================================
