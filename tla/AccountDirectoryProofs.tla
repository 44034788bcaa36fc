----------------------- MODULE AccountDirectoryProofs -----------------------
(***************************************************************************)
(* AccountLifecycle implements AccountDirectory, for every value of the    *)
(* constants: a commit, the INSERT of resend, is one step of the           *)
(* directory, and every other step of a handler is none.                   *)
(***************************************************************************)
EXTENDS AccountLifecycleProofs

(* Steps that leave the rows alone. *)

Commits ==
    \/ \E r \in Registrations, w \in PCs : CommitAccount(r, w)
    \/ \E v \in Verifications, w \in PCs : CommitVerified(v, w)
    \/ \E s \in Resends, w \in PCs : Mint(s, w)
    \/ \E c \in Callbacks, w \in PCs : CommitLink(c, w)
    \/ \E u \in Accounts : Suspend(u)

\* No other step changes a row.
LEMMA OnlyCommitsWrite ==
  ASSUME [Next]_vars
  PROVE  Commits \/ UNCHANGED rows
<1>1. CASE Arrive
  BY <1>1 DEF Arrive, Register, UnknownToken, PresentToken, AskResend, RejectState, ConsumeState,
              LoseState, Learn, GiveUp, rows
<1>2. ASSUME NEW r \in Requests, Progress(r) PROVE Commits \/ UNCHANGED rows
  <2>p. {"storeRaw", "ok", "error", "issue", "canLogin"} \subseteq PCs
    BY DEF PCs, Answers
  <2>1. CASE r \in Registrations /\ RegisterStep(r)
    BY <2>1, <2>p DEF RegisterStep, Commits, FindDuplicate, CreateUser, InsertUser, InsertToken,
                StoreRaw, Mail, Learn, GiveUp, Take
  <2>2. CASE r \in Verifications /\ VerifyStep(r)
    BY <2>2, <2>p DEF VerifyStep, Commits, ReadAccount, Consume, MarkVerified, Reread, Learn,
                GiveUp, Take
  <2>3. CASE r \in Resends /\ ResendStep(r)
    BY <2>3, <2>p DEF ResendStep, Commits, NothingToResend, FindUnverified, FindActive, NoneActive,
                ReadCache, StoreRaw, Mail, Learn, GiveUp
  <2>4. CASE r \in Callbacks /\ CallbackStep(r)
    <3>1. AfterCommit(r) \in PCs
      BY <2>p DEF AfterCommit
    <3> HIDE DEF AfterCommit
    <3> QED BY <2>4, <3>1 DEF CallbackStep, Commits, Exchange, FindLink, FindNoLink,
             ReadLinkedAccount, FindOwner, FindNoOwner, CreateOAuthUser, InsertUser, CreateLink,
             InsertToken, StoreRaw, Mail, CanLogin, Issue, Learn, GiveUp, Take
  <2> QED BY <1>2, <2>1, <2>2, <2>3, <2>4 DEF Progress
<1>3. ASSUME NEW r \in Requests, Fail(r) PROVE UNCHANGED rows
  BY <1>3 DEF Fail, GiveUp
<1>4. ASSUME NEW r \in Requests, CommitUnanswered(r) PROVE Commits
  BY <1>4 DEF CommitUnanswered, Commits, PCs, Answers
<1>5. CASE \/ \E x \in States : Start(x) \/ ExpireState(x)
           \/ \E t \in Tokens : Evict(t)
           \/ Tick \/ AllAnswered \/ UNCHANGED vars
  BY <1>5 DEF Start, ExpireState, Evict, Tick, AllAnswered, vars, rows
<1> QED BY <1>1, <1>2, <1>3, <1>4, <1>5 DEF Next, Commits

-----------------------------------------------------------------------------
(* The rows as the directory sees them. *)

AccountMap == [m \in Mailboxes |-> AccountOf(m)]
LinkMap    == [s \in Subjects |-> LinkOf(s)]
TokenMap   == [t \in Tokens |-> TokenOf(t)]

\* An account appears in the directory under its mailbox, and nowhere else.
LEMMA AccountAppears ==
  ASSUME OneOwner', NEW r \in Accounts, users[r] = None, Exists(r)',
         NEW b \in Mailboxes, users'[r].email.mailbox = b,
         \A u \in Accounts : u # r => users'[u] = users[u],
         NEW status, status = IF users'[r].verifiedAt # None THEN "verified" ELSE "unverified"
  PROVE  /\ AccountOf(b) = "none"
         /\ AccountMap' = [AccountMap EXCEPT ![b] = status]
<1>1. \A u \in Accounts : Exists(u) => u # r /\ MailboxOf(u) # b
  BY DEF OneOwner, Exists, MailboxOf
<1>2. AccountOf(b) = "none"
  BY <1>1 DEF AccountOf
<1>3. AccountOf(b)' = status
  BY <1>1 DEF AccountOf, Exists, MailboxOf
<1>4. ASSUME NEW m \in Mailboxes, m # b PROVE AccountOf(m)' = AccountOf(m)
  BY <1>4 DEF AccountOf, Exists, MailboxOf
<1> QED BY <1>2, <1>3, <1>4 DEF AccountMap

\* A verification shows under one mailbox.
LEMMA AccountIsVerified ==
  ASSUME OneOwner, NEW a \in Accounts, Exists(a), users'[a].verifiedAt # None,
         NEW b \in Mailboxes, MailboxOf(a) = b,
         \A u \in Accounts : Exists(u)' <=> Exists(u),
         \A u \in Accounts : Exists(u) => users'[u].email = users[u].email,
         \A u \in Accounts : u # a => users'[u] = users[u]
  PROVE  AccountMap' = [AccountMap EXCEPT ![b] = "verified"]
<1>1. AccountOf(b)' = "verified"
  BY DEF AccountOf, MailboxOf
<1>2. ASSUME NEW m \in Mailboxes, m # b PROVE AccountOf(m)' = AccountOf(m)
  BY <1>2 DEF AccountOf, MailboxOf
<1> QED BY <1>1, <1>2 DEF AccountMap

\* A step that changes no address and no verification leaves the accounts alone.
LEMMA AccountsStay ==
  ASSUME \A u \in Accounts : Exists(u)' <=> Exists(u),
         \A u \in Accounts : Exists(u) =>
            /\ users'[u].email = users[u].email
            /\ users'[u].verifiedAt # None <=> users[u].verifiedAt # None
  PROVE  AccountMap' = AccountMap
<1>1. ASSUME NEW m \in Mailboxes PROVE AccountOf(m)' = AccountOf(m)
  BY DEF AccountOf, MailboxOf
<1> QED BY <1>1 DEF AccountMap

\* The links of an identity are read in the rows of accounts that exist and keep their
\* addresses.
LEMMA LinkStays ==
  ASSUME IInv, RowsGrow, NEW s \in Subjects, LinksOf(s)' = LinksOf(s),
         \A l \in LinksOf(s) : links'[l] = links[l]
  PROVE  LinkOf(s)' = LinkOf(s)
<1>1. CASE LinksOf(s) = {}
  BY <1>1 DEF LinkOf
<1>2. CASE LinksOf(s) # {}
  <2>1. PICK l \in LinksOf(s) : l = CHOOSE k \in LinksOf(s) : TRUE
    BY <1>2
  <2>2. Linked(l) /\ l \in Callbacks /\ links'[l] = links[l]
    BY <2>1 DEF LinksOf, Linked
  <2>3. links[l].user \in Accounts /\ Exists(links[l].user)
    BY <2>2 DEF IInv, TypeOK, LinkRow, Linked, RowsAreRight, LinkedOnlyIfVouched
  <2>4. users'[links'[l].user].email.mailbox = MailboxOf(links[l].user)
    BY <2>2, <2>3 DEF RowsGrow, MailboxOf
  <2>5. LinkOf(s) = MailboxOf(links[l].user)
    BY <1>2, <2>1 DEF LinkOf
  <2>6. LinkOf(s)' = users'[links'[l].user].email.mailbox
    BY <1>2, <2>1 DEF LinkOf, MailboxOf
  <2> QED BY <2>4, <2>5, <2>6
<1> QED BY <1>1, <1>2

\* A step that writes no link leaves the links of the directory alone.
LEMMA LinksStay ==
  ASSUME IInv, RowsGrow, UNCHANGED links
  PROVE  LinkMap' = LinkMap
<1>1. ASSUME NEW s \in Subjects PROVE LinkOf(s)' = LinkOf(s)
  <2>1. LinksOf(s)' = LinksOf(s) /\ \A l \in LinksOf(s) : links'[l] = links[l]
    BY DEF LinksOf
  <2> QED BY <2>1, LinkStays
<1> QED BY <1>1 DEF LinkMap

\* A new link shows under its identity.
LEMMA LinkAppears ==
  ASSUME IInv, RowsGrow, NEW c \in Callbacks, links[c] = None, Linked(c)',
         \A l \in Callbacks : l # c => links'[l] = links[l],
         NEW s \in Subjects, links'[c].subject = s, LinksOf(s) = {},
         NEW b, users'[links'[c].user].email.mailbox = b
  PROVE  LinkMap[s] = None /\ LinkMap' = [LinkMap EXCEPT ![s] = b]
<1>1. LinkOf(s) = None
  BY DEF LinkOf
<1>2. LinkOf(s)' = b
  <2>1. LinksOf(s)' = {c}
    BY DEF LinksOf, Linked
  <2> QED BY <2>1 DEF LinkOf, MailboxOf
<1>3. ASSUME NEW o \in Subjects, o # s PROVE LinkOf(o)' = LinkOf(o)
  <2>1. LinksOf(o)' = LinksOf(o)
    BY <1>3 DEF LinksOf, Linked
  <2>2. \A l \in LinksOf(o) : links'[l] = links[l]
    BY DEF LinksOf
  <2> QED BY <2>1, <2>2, LinkStays
<1> QED BY <1>1, <1>2, <1>3 DEF LinkMap

\* A token keeps the mailbox it was issued for.
LEMMA TokenStays ==
  ASSUME IInv, RowsGrow, NEW t \in Tokens, vtokens'[t] = vtokens[t]
  PROVE  TokenOf(t)' = TokenOf(t)
<1>1. CASE ~Issued(t)
  BY <1>1 DEF TokenOf, Issued
<1>2. CASE Issued(t)
  <2>1. vtokens[t].user \in Accounts /\ Exists(vtokens[t].user)
    BY <1>2 DEF IInv, TypeOK, TokenRow, Issued, RowsAreRight, BornComplete
  <2>2. MailboxOf(vtokens[t].user)' = MailboxOf(vtokens[t].user)
    BY <2>1 DEF RowsGrow, MailboxOf
  <2> QED BY <1>2, <2>2 DEF TokenOf, Issued
<1> QED BY <1>1, <1>2

\* A step that writes no token leaves the tokens of the directory alone.
LEMMA TokensStay ==
  ASSUME IInv, RowsGrow, UNCHANGED vtokens
  PROVE  TokenMap' = TokenMap
  BY TokenStays DEF TokenMap

\* A new token shows the mailbox of its account.
LEMMA TokenAppears ==
  ASSUME IInv, RowsGrow, NEW r \in Tokens, vtokens[r] = None, Issued(r)',
         vtokens'[r].consumed = FALSE,
         \A t \in Tokens : t # r => vtokens'[t] = vtokens[t],
         NEW b, users'[vtokens'[r].user].email.mailbox = b
  PROVE  /\ TokenMap[r] = None
         /\ TokenMap' = [TokenMap EXCEPT ![r] = [mailbox |-> b, used |-> FALSE]]
<1>1. TokenOf(r) = None
  BY DEF TokenOf, Issued
<1>2. TokenOf(r)' = [mailbox |-> b, used |-> FALSE]
  BY DEF TokenOf, MailboxOf
<1>3. ASSUME NEW t \in Tokens, t # r PROVE TokenOf(t)' = TokenOf(t)
  BY <1>3, TokenStays
<1> QED BY <1>1, <1>2, <1>3 DEF TokenMap

-----------------------------------------------------------------------------
(* Each commit is a step of the directory. *)

\* The transaction of Register opens an account with its token.
LEMMA RegistrationIsRegister ==
  ASSUME IInv, IInv', NEW r \in Registrations, NEW w \in PCs, CommitAccount(r, w)
  PROVE  Directory!Next
<1> DEFINE b == local[r].email.mailbox
<1>0. /\ r \in Requests /\ r \in Accounts /\ r \in Tokens /\ local[r] \in Local
      /\ RegistrationKnows(r)
  BY DEF Requests, IInv, TypeOK, HandlersKnow, Knows, Accounts, Tokens
<1>1. /\ pc[r] = "commit" /\ Running(r) /\ pc[r] \notin Written
      /\ users' = [users EXCEPT ![r] = NewUser(local[r].email, None)]
      /\ vtokens' = [vtokens EXCEPT ![r] = NewToken(r, local[r].now)]
      /\ UNCHANGED links
      /\ \A q \in Requests : q # r => local'[q] = local[q]
  BY <1>0 DEF CommitAccount, Goto, Continue, IInv, TypeOK, Running, Answers, Written
<1>2. /\ local[r].email \in Address /\ local[r].email.normal /\ ReservesEmail(r)
      /\ b \in Mailboxes
  BY <1>0, <1>1 DEF RegistrationKnows, Address
<1>3. /\ users[r] = None /\ Exists(r)'
      /\ \A u \in Accounts : u # r => users'[u] = users[u]
      /\ users'[r] = NewUser(local[r].email, None)
  BY <1>0, <1>1, <1>2, NewAccountRow
<1>4. users'[r].email.mailbox = b /\ users'[r].verifiedAt = None
  BY <1>2, <1>3 DEF NewUser
<1>5. /\ vtokens[r] = None /\ Issued(r)' /\ vtokens'[r].user = r
      /\ vtokens'[r] \in TokenRow
      /\ ~vtokens'[r].consumed
      /\ \A t \in Tokens : t # r => vtokens'[t] = vtokens[t]
  <2>1. /\ vtokens[r] = None
        /\ vtokens' \in [Tokens -> TokenRow \cup {None}]
        /\ Issued(r)' /\ vtokens'[r].user = r /\ ~vtokens'[r].consumed
        /\ \A t \in Tokens : t # r => vtokens'[t] = vtokens[t]
    BY <1>0, <1>1, NewTokenRow DEF Local
  <2> QED BY <1>0, <2>1 DEF Issued
<1>6. RowsGrow
  BY <1>3, <1>5 DEF RowsGrow, Exists, Issued
<1>7. AccountOf(b) = "none" /\ AccountMap' = [AccountMap EXCEPT ![b] = "unverified"]
  BY <1>0, <1>2, <1>3, <1>4, AccountAppears DEF IInv, RowsAreRight
<1>8. LinkMap' = LinkMap
  BY <1>1, <1>6, LinksStay
<1>9. TokenMap[r] = None /\ TokenMap' = [TokenMap EXCEPT ![r] = [mailbox |-> b, used |-> FALSE]]
  <2>1. vtokens'[r].consumed = FALSE
    BY <1>5 DEF TokenRow
  <2> QED BY <1>0, <1>4, <1>5, <1>6, <2>1, TokenAppears
<1>10. Directory!Register(b, r) /\ UNCHANGED LinkMap
  BY <1>2, <1>7, <1>8, <1>9 DEF Directory!Register, Directory!Issued, AccountMap, TokenMap
<1> QED BY <1>0, <1>2, <1>10 DEF Directory!Next, LinkMap

\* What using up a token makes of it.
LEMMA UsedUp ==
  ASSUME NEW r \in [mailbox : Mailboxes, used : BOOLEAN]
  PROVE  [r EXCEPT !.used = TRUE] = [mailbox |-> r.mailbox, used |-> TRUE]
<1> DEFINE x == [r EXCEPT !.used = TRUE]
<1>1. x \in [mailbox : Mailboxes, used : BOOLEAN]
  OBVIOUS
<1>2. x.mailbox = r.mailbox /\ x.used = TRUE
  OBVIOUS
<1> HIDE DEF x
<1>3. x = [mailbox |-> r.mailbox, used |-> TRUE]
  BY <1>1, <1>2
<1> QED BY <1>3 DEF x

\* The transaction of VerifyEmail uses a token up and verifies the account it was issued for.
LEMMA VerificationIsVerify ==
  ASSUME IInv, IInv', NEW v \in Verifications, NEW w \in PCs, CommitVerified(v, w)
  PROVE  Directory!Next
<1>t. PICK t : t = local[v].token
  OBVIOUS
<1>a. PICK a : a = local[v].user
  OBVIOUS
<1>b. PICK b : b = MailboxOf(a)
  OBVIOUS
<1>0. v \in Requests /\ local[v] \in Local /\ VerificationKnows(v)
  BY DEF Requests, IInv, TypeOK, HandlersKnow, Knows
<1>1. /\ pc[v] = "commit" /\ Running(v)
      /\ vtokens' = [vtokens EXCEPT ![t].consumed = TRUE]
      /\ users' = [users EXCEPT ![a].verifiedAt = local[v].now, ![a].status = local[v].status]
      /\ UNCHANGED links
  BY <1>t, <1>a DEF CommitVerified, Running, Answers
<1>2. /\ t \in Tokens /\ Issued(t) /\ a = vtokens[t].user /\ ~vtokens[t].consumed
      /\ local[v].now \in Nat /\ vtokens[t] \in TokenRow /\ vtokens[t].consumed = FALSE
      /\ local[v].status \in Statuses
  BY <1>0, <1>1, <1>t, <1>a DEF VerificationKnows, Local, IInv, TypeOK, TokenRow, Issued
<1>3. /\ a \in Accounts /\ Exists(a) /\ users[a] \in UserRow /\ b \in Mailboxes
  BY <1>2, <1>b DEF IInv, TypeOK, TokenRow, UserRow, Address, Issued, Exists, RowsAreRight, BornComplete,
              MailboxOf
<1>4. /\ \A u \in Accounts : u # a => users'[u] = users[u]
      /\ users'[a].verifiedAt = local[v].now
      /\ \A u \in Accounts : Exists(u) => users'[u].email = users[u].email
  BY <1>1, <1>2, <1>3 DEF IInv, TypeOK, UserRow
<1>5. users'[a].verifiedAt # None
  BY <1>2, <1>4, AccountNoneAssumption
<1>6. /\ \A o \in Tokens : o # t => vtokens'[o] = vtokens[o]
      /\ vtokens'[t] = [vtokens[t] EXCEPT !.consumed = TRUE]
  BY <1>1, <1>2 DEF IInv, TypeOK
<1>7. vtokens'[t] \in TokenRow /\ vtokens'[t].user = a /\ vtokens'[t].consumed = TRUE
  BY <1>2, <1>6 DEF TokenRow
<1>8. vtokens'[t] # None /\ users'[a] # None
  <2>1. vtokens'[t] # None
    BY <1>7, AccountNoneAssumption
  <2>2. users'[a] \in UserRow
    BY <1>1, <1>2, <1>3 DEF IInv, TypeOK, UserRow
  <2>3. users'[a] # None
    BY <2>2, AccountNoneAssumption
  <2> QED BY <2>1, <2>3
<1>9. \A u \in Accounts : Exists(u)' <=> Exists(u)
  BY <1>3, <1>4, <1>8 DEF Exists
<1>10. RowsGrow
  BY <1>2, <1>4, <1>5, <1>6, <1>7, <1>8, <1>9 DEF RowsGrow, Issued
<1>11. AccountMap' = [AccountMap EXCEPT ![b] = "verified"]
  BY <1>3, <1>4, <1>5, <1>9, <1>b, AccountIsVerified DEF IInv, RowsAreRight
<1>12. LinkMap' = LinkMap
  BY <1>1, <1>10, LinksStay
<1>13. /\ TokenOf(t) = [mailbox |-> b, used |-> FALSE]
       /\ TokenOf(t)' = [mailbox |-> b, used |-> TRUE]
       /\ TokenOf(t) # None
  <2>1. TokenOf(t) = [mailbox |-> b, used |-> FALSE]
    BY <1>2, <1>b DEF TokenOf, Issued
  <2>2. users'[a].email.mailbox = b
    BY <1>3, <1>4, <1>b DEF MailboxOf
  <2>3. TokenOf(t)' = [mailbox |-> b, used |-> TRUE]
    BY <1>7, <1>8, <2>2 DEF TokenOf, Issued, MailboxOf
  <2>4. [mailbox |-> b, used |-> FALSE] \in [mailbox : Mailboxes, used : BOOLEAN]
    BY <1>3
  <2>5. [mailbox |-> b, used |-> FALSE] # None
    BY <2>4, DirectoryNoneAssumption
  <2> QED BY <2>1, <2>3, <2>5
<1>14. TokenMap' = [TokenMap EXCEPT ![t].used = TRUE]
  <2>1. \A o \in Tokens : o # t => TokenOf(o)' = TokenOf(o)
    BY <1>6, <1>10, TokenStays
  <2>2. TokenMap[t] = [mailbox |-> b, used |-> FALSE]
    BY <1>2, <1>13 DEF TokenMap
  <2>3. [TokenMap[t] EXCEPT !.used = TRUE] = [mailbox |-> b, used |-> TRUE]
    <3>1. TokenMap[t] \in [mailbox : Mailboxes, used : BOOLEAN] /\ TokenMap[t].mailbox = b
      BY <1>3, <2>2
    <3> QED BY <3>1, UsedUp
  <2>4. TokenMap' = [TokenMap EXCEPT ![t] = [mailbox |-> b, used |-> TRUE]]
    BY <1>2, <1>13, <2>1 DEF TokenMap
  <2>5. TokenMap = [o \in Tokens |-> TokenMap[o]]
    BY DEF TokenMap
  <2> HIDE DEF TokenMap
  <2> QED BY <1>2, <2>3, <2>4, <2>5
<1>15. Directory!Verify(t)
  <2>1. /\ TokenMap[t] # None /\ ~TokenMap[t].used /\ TokenMap[t].mailbox = b
    BY <1>2, <1>13 DEF TokenMap
  <2> QED BY <1>11, <1>12, <1>14, <2>1 DEF Directory!Verify, AccountMap, LinkMap, TokenMap
<1> QED BY <1>2, <1>15 DEF Directory!Next

\* The INSERT of Resend issues a token for an account that exists.
LEMMA MintIsResend ==
  ASSUME IInv, IInv', NEW s \in Resends, NEW w \in PCs, Mint(s, w)
  PROVE  Directory!Next
<1> DEFINE a == local[s].user
           b == MailboxOf(a)
<1>0. s \in Requests /\ s \in Tokens /\ local[s] \in Local /\ ResendKnows(s)
  BY DEF Requests, Tokens, IInv, TypeOK, HandlersKnow, Knows
<1>1. /\ pc[s] = "mint" /\ Running(s) /\ pc[s] \notin Written
      /\ vtokens' = [vtokens EXCEPT ![s] = NewToken(a, clock)]
      /\ UNCHANGED <<users, links>>
  BY DEF Mint, Running, Answers, Written
<1>2. a \in Accounts /\ Exists(a) /\ b \in Mailboxes
  BY <1>0, <1>1 DEF ResendKnows, IInv, TypeOK, UserRow, Address, Exists, MailboxOf
<1>3. /\ vtokens[s] = None
      /\ vtokens' \in [Tokens -> TokenRow \cup {None}]
      /\ Issued(s)' /\ vtokens'[s].user = a /\ ~vtokens'[s].consumed
      /\ \A t \in Tokens : t # s => vtokens'[t] = vtokens[t]
  BY <1>0, <1>1, <1>2, NewTokenRow DEF IInv, TypeOK
<1>4. vtokens'[s].consumed = FALSE
  BY <1>0, <1>3 DEF Issued, TokenRow
<1>5. RowsGrow
  BY <1>1, <1>3 DEF RowsGrow, Exists, Issued
<1>6. AccountMap' = AccountMap
  BY <1>1, AccountsStay DEF Exists
<1>7. AccountOf(b) # "none"
  BY <1>2 DEF AccountOf
<1>8. LinkMap' = LinkMap
  BY <1>1, <1>5, LinksStay
<1>9. TokenMap[s] = None /\ TokenMap' = [TokenMap EXCEPT ![s] = [mailbox |-> b, used |-> FALSE]]
  <2>1. users'[vtokens'[s].user].email.mailbox = b
    BY <1>1, <1>3 DEF MailboxOf
  <2> QED BY <1>0, <1>3, <1>4, <1>5, <2>1, TokenAppears
<1>10. Directory!Resend(b, s)
  BY <1>2, <1>6, <1>7, <1>8, <1>9 DEF Directory!Resend, Directory!Issued, AccountMap, LinkMap, TokenMap
<1> QED BY <1>0, <1>2, <1>10 DEF Directory!Next

\* What a callback writes when its transaction commits, whichever case it is.
LEMMA LinkCommits ==
  ASSUME IInv, NEW c \in Callbacks, NEW w \in PCs, CommitLink(c, w)
  PROVE  /\ c \in Requests /\ c \in Accounts /\ c \in Tokens /\ local[c] \in Local
         /\ pc[c] \notin Written
         /\ local[c].identity \in Identity /\ Subject(c) \in Subjects
         /\ LinksOf(Subject(c)) = {}
         /\ local[c].user \in Accounts
         /\ \/ OpensAccount(c) /\ ReservesEmail(c)
            \/ JoinsAccount(c)
         /\ links[c] = None /\ Linked(c)'
         /\ \A l \in Callbacks : l # c => links'[l] = links[l]
         /\ links'[c].user = local[c].user
         /\ links'[c].subject = Subject(c)
         /\ \A q \in Requests : q # c => local'[q] = local[q]
<1>0. c \in Requests /\ c \in Accounts /\ c \in Tokens /\ local[c] \in Local /\ CallbackKnows(c)
  BY DEF Requests, Accounts, Tokens, IInv, TypeOK, HandlersKnow, Knows
<1>1. /\ pc[c] = "commit" /\ pc[c] \notin Written
      /\ links' = [links EXCEPT ![c] = NewLink(c)]
      /\ \A q \in Requests : q # c => local'[q] = local[q]
  BY <1>0 DEF CommitLink, Goto, Continue, IInv, TypeOK, Answers, Written
<1>2. /\ local[c].identity \in Identity /\ ReservesSubject(c)
      /\ \/ OpensAccount(c) /\ ReservesEmail(c)
         \/ JoinsAccount(c)
  BY <1>0, <1>1 DEF CallbackKnows
<1>3. local[c].user \in Accounts
  BY <1>0, <1>2 DEF OpensAccount, JoinsAccount
<1>4. Subject(c) \in Subjects /\ LinksOf(Subject(c)) = {}
  BY <1>2 DEF Subject, Identity, ReservesSubject
<1>5. /\ links[c] = None /\ Linked(c)'
      /\ \A l \in Callbacks : l # c => links'[l] = links[l]
      /\ links'[c].user = local[c].user
  BY <1>0, <1>1, <1>2, <1>3, NewLinkRow
<1>6. links'[c].subject = Subject(c)
  BY <1>1 DEF NewLink, IInv, TypeOK
<1> QED BY <1>0, <1>1, <1>2, <1>3, <1>4, <1>5, <1>6

\* Case 3 links an account the directory has verified.
LEMMA JoiningIsLinkVerified ==
  ASSUME IInv, IInv', NEW c \in Callbacks, NEW w \in PCs, CommitLink(c, w), JoinsAccount(c)
  PROVE  Directory!Next
<1>s. PICK s : s = Subject(c)
  OBVIOUS
<1>a. PICK a : a = local[c].user
  OBVIOUS
<1>b. PICK b : b = MailboxOf(a)
  OBVIOUS
<1>1. /\ s \in Subjects /\ LinksOf(s) = {}
      /\ links[c] = None /\ Linked(c)'
      /\ \A l \in Callbacks : l # c => links'[l] = links[l]
      /\ links'[c].user = a /\ links'[c].subject = s
  BY <1>s, <1>a, LinkCommits
<1>2. UNCHANGED <<users, vtokens>>
  BY DEF CommitLink, JoinsAccount, NewAccount, OwesToken
<1>3. a \in Accounts /\ Exists(a) /\ users[a].verifiedAt # None /\ b \in Mailboxes
  BY <1>a, <1>b DEF JoinsAccount, IInv, TypeOK, UserRow, Address, Exists, MailboxOf
<1>4. RowsGrow
  BY <1>2 DEF RowsGrow, Exists, Issued
<1>5. AccountMap' = AccountMap
  BY <1>2, AccountsStay DEF Exists
<1>6. TokenMap' = TokenMap
  BY <1>2, <1>4, TokensStay
<1>7. AccountOf(b) = "verified"
  BY <1>3, <1>b DEF AccountOf
<1>8. users'[links'[c].user].email.mailbox = b
  BY <1>1, <1>2, <1>b DEF MailboxOf
<1>9. LinkMap[s] = None /\ LinkMap' = [LinkMap EXCEPT ![s] = b]
  BY <1>1, <1>4, <1>8, LinkAppears
<1>10. Directory!LinkVerified(b, s)
  BY <1>1, <1>3, <1>5, <1>6, <1>7, <1>9
     DEF Directory!LinkVerified, Directory!Linked, AccountMap, LinkMap, TokenMap
<1> QED BY <1>1, <1>3, <1>10 DEF Directory!Next

\* Case 2 opens an account with its link, and its token unless the provider vouched.
LEMMA OpeningIsRegister ==
  ASSUME IInv, IInv', NEW c \in Callbacks, NEW w \in PCs, CommitLink(c, w),
         OpensAccount(c), ReservesEmail(c)
  PROVE  Directory!Next
<1>s. PICK s : s = Subject(c)
  OBVIOUS
<1>e. PICK e : e = local[c].email
  OBVIOUS
<1>v. PICK at : at = VerifiedAt(c)
  OBVIOUS
<1>b. PICK b : b = e.mailbox
  OBVIOUS
<1>0. /\ c \in Requests /\ c \in Accounts /\ c \in Tokens /\ local[c] \in Local
      /\ pc[c] \notin Written /\ local[c].identity \in Identity /\ local[c].user = c
      /\ \A q \in Requests : q # c => local'[q] = local[q]
  BY LinkCommits DEF OpensAccount
<1>1. /\ s \in Subjects /\ LinksOf(s) = {}
      /\ links[c] = None /\ Linked(c)'
      /\ \A l \in Callbacks : l # c => links'[l] = links[l]
      /\ links'[c].user = c /\ links'[c].subject = s
  BY <1>s, <1>0, LinkCommits
<1>2. /\ users' = [users EXCEPT ![c] = NewUser(e, at)]
      /\ vtokens' = IF OwesToken(c) THEN [vtokens EXCEPT ![c] = NewToken(c, local[c].now)]
                                    ELSE vtokens
  BY <1>0, <1>e, <1>v DEF CommitLink, NewAccount
<1>3. e \in Address /\ e.normal /\ b \in Mailboxes /\ local[c].now \in Nat
  BY <1>0, <1>e, <1>b DEF OpensAccount, NormalizeEmail, Identity, Address, Local
<1>4. /\ at \in Nat \cup {None}
      /\ at # None <=> ~OwesToken(c)
  <2>1. c # None /\ local[c].now # None
    BY <1>0, <1>3, AccountNoneAssumption
  <2> QED BY <1>0, <1>3, <1>v, <2>1 DEF VerifiedAt, OwesToken, OpensAccount
<1>5. /\ users[c] = None /\ Exists(c)'
      /\ \A u \in Accounts : u # c => users'[u] = users[u]
      /\ users'[c] = NewUser(e, at)
  BY <1>0, <1>2, <1>3, <1>4, <1>e, NewAccountRow
<1>6. users'[c].email.mailbox = b /\ users'[c].verifiedAt = at
  BY <1>5, <1>b DEF NewUser
<1>7. AccountOf(b) = "none"
      /\ AccountMap' = [AccountMap EXCEPT ![b] = IF at # None THEN "verified" ELSE "unverified"]
  BY <1>0, <1>3, <1>5, <1>6, AccountAppears DEF IInv, RowsAreRight
<1>8. CASE OwesToken(c)
  <2>1. /\ vtokens[c] = None
        /\ vtokens' \in [Tokens -> TokenRow \cup {None}]
        /\ Issued(c)' /\ vtokens'[c].user = c /\ ~vtokens'[c].consumed
        /\ \A t \in Tokens : t # c => vtokens'[t] = vtokens[t]
    BY <1>0, <1>2, <1>3, <1>8, NewTokenRow
  <2>2. vtokens'[c].consumed = FALSE
    BY <1>0, <2>1 DEF Issued, TokenRow
  <2>3. RowsGrow
    BY <1>5, <2>1 DEF RowsGrow, Exists, Issued
  <2>4. TokenMap[c] = None /\ TokenMap' = [TokenMap EXCEPT ![c] = [mailbox |-> b, used |-> FALSE]]
    BY <1>0, <1>6, <2>1, <2>2, <2>3, TokenAppears
  <2>5. LinkMap[s] = None /\ LinkMap' = [LinkMap EXCEPT ![s] = b]
    BY <1>1, <1>6, <2>3, LinkAppears
  <2>6. AccountMap' = [AccountMap EXCEPT ![b] = "unverified"]
    BY <1>4, <1>7, <1>8
  <2>7. Directory!RegisterUnvouched(b, s, c)
    BY <1>1, <1>3, <1>7, <2>4, <2>5, <2>6
       DEF Directory!RegisterUnvouched, Directory!Register, Directory!Issued, Directory!Linked,
           AccountMap, LinkMap, TokenMap
  <2> QED BY <1>0, <1>1, <1>3, <2>7 DEF Directory!Next
<1>9. CASE ~OwesToken(c)
  <2>1. UNCHANGED vtokens
    BY <1>2, <1>9
  <2>2. RowsGrow
    BY <1>5, <2>1 DEF RowsGrow, Exists, Issued
  <2>3. TokenMap' = TokenMap
    BY <2>1, <2>2, TokensStay
  <2>4. LinkMap[s] = None /\ LinkMap' = [LinkMap EXCEPT ![s] = b]
    BY <1>1, <1>6, <2>2, LinkAppears
  <2>5. AccountMap' = [AccountMap EXCEPT ![b] = "verified"]
    BY <1>4, <1>7, <1>9
  <2>6. Directory!RegisterVouched(b, s)
    BY <1>1, <1>3, <1>7, <2>3, <2>4, <2>5
       DEF Directory!RegisterVouched, Directory!Linked, AccountMap, LinkMap, TokenMap
  <2> QED BY <1>1, <1>3, <2>6 DEF Directory!Next
<1> QED BY <1>8, <1>9

\* An operator changes nothing the directory shows.
LEMMA SuspensionIsNothing ==
  ASSUME IInv, NEW u \in Accounts, Suspend(u)
  PROVE  UNCHANGED <<AccountMap, LinkMap, TokenMap>>
<1>1. /\ users' = [users EXCEPT ![u].status = "SUSPENDED"]
      /\ Exists(u) /\ users[u] \in UserRow
      /\ UNCHANGED <<vtokens, links>>
  BY DEF Suspend, Exists, IInv, TypeOK
<1>2. /\ \A x \in Accounts : x # u => users'[x] = users[x]
      /\ users'[u] = [users[u] EXCEPT !.status = "SUSPENDED"]
  BY <1>1 DEF IInv, TypeOK
<1>3. /\ users'[u] \in UserRow
      /\ users'[u].email = users[u].email /\ users'[u].verifiedAt = users[u].verifiedAt
  BY <1>1, <1>2 DEF UserRow, Statuses
<1>4. users'[u] # None
  BY <1>3, AccountNoneAssumption
<1>5. \A x \in Accounts : Exists(x)' <=> Exists(x)
  BY <1>1, <1>2, <1>4 DEF Exists
<1>6. \A x \in Accounts : Exists(x) =>
         users'[x].email = users[x].email /\ users'[x].verifiedAt = users[x].verifiedAt
  BY <1>2, <1>3
<1>7. RowsGrow
  BY <1>1, <1>5, <1>6 DEF RowsGrow, Issued
<1>8. AccountMap' = AccountMap
  BY <1>5, <1>6, AccountsStay
<1> QED BY <1>1, <1>7, <1>8, LinksStay, TokensStay

\* What the directory shows depends on the rows alone.
LEMMA NothingWritten ==
  ASSUME UNCHANGED rows
  PROVE  UNCHANGED <<AccountMap, LinkMap, TokenMap>>
  BY DEF rows, AccountMap, LinkMap, TokenMap, AccountOf, LinkOf, TokenOf, LinksOf, MailboxOf,
         Exists, Issued

-----------------------------------------------------------------------------
(* The refinement. *)

\* Without rows the directory is empty.
LEMMA DirectoryInit ==
  ASSUME Init
  PROVE  Directory!Init
<1>1. \A u \in Accounts : ~Exists(u)
  BY DEF Init, Exists
<1>2. \A m \in Mailboxes : AccountOf(m) = "none"
  BY <1>1 DEF AccountOf
<1>3. \A s \in Subjects : LinkOf(s) = None
  BY DEF Init, LinkOf, LinksOf
<1>4. \A t \in Tokens : TokenOf(t) = None
  BY DEF Init, TokenOf, Issued
<1> QED BY <1>2, <1>3, <1>4 DEF Directory!Init

\* Every step of a handler or of the environment is a step of the directory or none.
LEMMA DirectoryStep ==
  ASSUME IInv, IInv', [Next]_vars
  PROVE  [Directory!Next]_(Directory!dirVars)
<1>1. CASE UNCHANGED rows
  BY <1>1, NothingWritten DEF Directory!dirVars, AccountMap, LinkMap, TokenMap
<1>2. ASSUME NEW r \in Registrations, NEW w \in PCs, CommitAccount(r, w) PROVE Directory!Next
  BY <1>2, RegistrationIsRegister
<1>3. ASSUME NEW v \in Verifications, NEW w \in PCs, CommitVerified(v, w) PROVE Directory!Next
  BY <1>3, VerificationIsVerify
<1>4. ASSUME NEW s \in Resends, NEW w \in PCs, Mint(s, w) PROVE Directory!Next
  BY <1>4, MintIsResend
<1>5. ASSUME NEW c \in Callbacks, NEW w \in PCs, CommitLink(c, w) PROVE Directory!Next
  BY <1>5, LinkCommits, JoiningIsLinkVerified, OpeningIsRegister
<1>6. ASSUME NEW u \in Accounts, Suspend(u) PROVE UNCHANGED Directory!dirVars
  BY <1>6, SuspensionIsNothing DEF Directory!dirVars, AccountMap, LinkMap, TokenMap
<1> QED BY <1>1, <1>2, <1>3, <1>4, <1>5, <1>6, OnlyCommitsWrite DEF Commits

\* Whatever runs concurrently, fails or is suspended half way: an account appears
\* together with its token or link, a token is used up in the step that verifies its
\* account, a verification is never lost and a link never moves.
THEOREM Refinement == Spec => ImplementsDirectory
<1>1. Init => Directory!Init
  BY DirectoryInit
<1>2. IInv /\ IInv' /\ [Next]_vars => [Directory!Next]_(Directory!dirVars)
  BY DirectoryStep
<1> QED BY <1>1, <1>2, Invariance, PTL DEF Spec, ImplementsDirectory, Directory!Spec
=============================================================================
