----------------------- MODULE AccountLifecycleProofs -----------------------
(***************************************************************************)
(* For every number of registrations, verifications, resends and OAuth     *)
(* callbacks, every set of mailboxes and identities and every lifetime of  *)
(* a token: type correctness, the safety invariants of accounts, and that  *)
(* every step of the handlers is a step of AccountDirectory.               *)
(***************************************************************************)
EXTENDS AccountLifecycle, FiniteSetTheorems, TLAPS

(* The inductive invariant, in the vocabulary of the code. *)

\* What a request creates appears when its transaction, or its INSERT, commits.
Written == Answers \cup {"storeRaw", "mail", "canLogin", "issue"}

CreatedAtCommit ==
    /\ \A u \in Accounts : Exists(u) => pc[u] \in Written
    /\ \A t \in Tokens : Issued(t) => pc[t] \in Written
    /\ \A l \in Callbacks : Linked(l) => pc[l] \in Written

StoredNormalized == \A u \in Accounts : Exists(u) => users[u].email.normal

\* A key is one transaction's at a time.
ExclusiveKeys == \A h, k \in held : h[2] = k[2] => h[1] = k[1]

\* The address or identity a transaction inserts is reserved for it, and has no row.
ReservesEmail(r) ==
    /\ <<r, <<"email", local[r].email>>>> \in held
    /\ OwnersOf(local[r].email) = {}

ReservesSubject(c) ==
    /\ <<c, <<"subject", Subject(c)>>>> \in held
    /\ LinksOf(Subject(c)) = {}

\* A handler about to send a token has one of the account its email belongs to.
SendsToOwner(r) ==
    pc[r] \in {"readCache", "storeRaw", "mail"} =>
        /\ local[r].token \in Tokens
        /\ Issued(local[r].token)
        /\ users[vtokens[local[r].token].user].email = local[r].email

RegistrationKnows(r) ==
    /\ Running(r) => local[r].email \in Address /\ local[r].email.normal
    /\ pc[r] \in {"createUser", "createToken", "commit"} => local[r].token = r
    /\ pc[r] \in {"createToken", "commit"} => ReservesEmail(r)
    /\ SendsToOwner(r)

VerificationKnows(v) ==
    LET t == local[v].token IN
    /\ Running(v) => t \in Tokens /\ Issued(t) /\ local[v].user = vtokens[t].user
    /\ pc[v] \in {"consume", "markVerified", "commit"} => local[v].status \in Statuses
    /\ pc[v] \in {"markVerified", "commit"} => <<v, <<"token", t>>>> \in held /\ ~vtokens[t].consumed
    /\ pc[v] = "reread" => vtokens[t].consumed

ResendKnows(s) ==
    /\ Running(s) => local[s].email \in Address
    /\ Running(s) /\ pc[s] # "findEmail" =>
          /\ local[s].user \in Accounts
          /\ Exists(local[s].user)
          /\ users[local[s].user].email = local[s].email
    /\ SendsToOwner(s)

\* Case 2 of a callback: an account and a link of its own.
OpensAccount(c) ==
    /\ local[c].user = c
    /\ local[c].email = NormalizeEmail(local[c].identity.email)
    /\ local[c].token = IF local[c].identity.verified THEN None ELSE c

\* Case 3: what it read of the account before its transaction is still so.
JoinsAccount(c) ==
    LET u == local[c].user IN
    /\ u \in Accounts /\ u # c /\ Exists(u)
    /\ users[u].verifiedAt # None
    /\ users[u].email = local[c].identity.email
    /\ local[c].identity.verified
    /\ local[c].token = None

CallbackKnows(c) ==
    /\ pc[c] \in {"idle", "exchange", "findLink", "findAccount", "findEmail"} =>
          local[c].token = None
    /\ pc[c] \in {"findLink", "findAccount", "findEmail", "createUser", "createLink",
                  "createToken", "commit"} => local[c].identity \in Identity
    /\ pc[c] = "findAccount" => local[c].user \in Accounts /\ Exists(local[c].user)
    /\ pc[c] = "createUser" => OpensAccount(c)
    /\ pc[c] \in {"createLink", "createToken", "commit"} =>
          \/ OpensAccount(c) /\ ReservesEmail(c)
          \/ JoinsAccount(c)
    /\ pc[c] \in {"createToken", "commit"} => ReservesSubject(c)
    /\ SendsToOwner(c)

Knows(r) ==
    /\ r \in Registrations => RegistrationKnows(r)
    /\ r \in Verifications => VerificationKnows(r)
    /\ r \in Resends => ResendKnows(r)
    /\ r \in Callbacks => CallbackKnows(r)

HandlersKnow == \A r \in Requests : Knows(r)

RowsAreRight ==
    /\ CreatedAtCommit
    /\ StoredNormalized
    /\ OneOwner
    /\ BornComplete
    /\ VerifiedForAReason
    /\ LinkedOnlyIfVouched
    /\ MailedTokensWork

IInv == TypeOK /\ ExclusiveKeys /\ HandlersKnow /\ RowsAreRight

-----------------------------------------------------------------------------
(* What handlers remember, and the initial state. *)

\* A request is of one kind.
LEMMA Kinds ==
    /\ \A r \in Registrations : r \notin Verifications /\ r \notin Resends /\ r \notin Callbacks
    /\ \A v \in Verifications : v \notin Registrations /\ v \notin Resends /\ v \notin Callbacks
    /\ \A s \in Resends : s \notin Registrations /\ s \notin Verifications /\ s \notin Callbacks
    /\ \A c \in Callbacks : c \notin Registrations /\ c \notin Verifications /\ c \notin Resends
  BY AccountRequestsAssumption

\* A handler that returned remembers nothing, and that is a memory too.
LEMMA NothingIsLocal == Nothing \in Local
  BY DEF Nothing, Local

\* A handler that has been answered need not know anything.
LEMMA AnsweredKnows ==
  ASSUME NEW r \in Requests, pc[r] \in Answers
  PROVE  Knows(r)
  BY DEF Knows, RegistrationKnows, VerificationKnows, ResendKnows, CallbackKnows,
         SendsToOwner, Running, Answers

\* Nobody runs, nothing is stored.
LEMMA InitIInv == Init => IInv
<1> SUFFICES ASSUME Init PROVE IInv
  OBVIOUS
<1> USE DEF Init
<1>1. TypeOK
  BY NothingIsLocal DEF TypeOK, PCs
<1>2. ExclusiveKeys
  BY DEF ExclusiveKeys
<1>3. ASSUME NEW r \in Requests PROVE Knows(r)
  BY <1>3 DEF Knows, RegistrationKnows, VerificationKnows, ResendKnows, CallbackKnows,
         SendsToOwner, Running, Nothing
<1>4. RowsAreRight
  BY DEF RowsAreRight, CreatedAtCommit, StoredNormalized, OneOwner, BornComplete,
         VerifiedForAReason, LinkedOnlyIfVouched, MailedTokensWork, Exists, Issued, Linked,
         Requests, Accounts, Tokens
<1> QED BY <1>1, <1>2, <1>3, <1>4 DEF IInv, HandlersKnow

-----------------------------------------------------------------------------
(* Handlers that a step does not move. *)

\* No row disappears, changes its owner, or takes a verification back.
RowsGrow ==
    /\ \A u \in Accounts : Exists(u) =>
          /\ Exists(u)'
          /\ users'[u].email = users[u].email
          /\ users[u].verifiedAt # None => users'[u].verifiedAt # None
    /\ \A t \in Tokens : Issued(t) =>
          /\ Issued(t)'
          /\ vtokens'[t].user = vtokens[t].user
          /\ vtokens[t].consumed => vtokens'[t].consumed

\* What a handler knows stays true while rows only grow and what it reserved is left.
LEMMA StillKnows ==
  ASSUME TypeOK, BornComplete, NEW r \in Requests, Knows(r), RowsGrow,
         pc'[r] = pc[r], local'[r] = local[r],
         \A key \in Keys : <<r, key>> \in held => <<r, key>> \in held',
         ReservesEmail(r) => ReservesEmail(r)',
         ReservesSubject(r) => ReservesSubject(r)',
         r \in Verifications /\ pc[r] \in {"markVerified", "commit"} =>
            ~vtokens'[local[r].token].consumed
  PROVE  Knows(r)'
<1>1. SendsToOwner(r) => SendsToOwner(r)'
  BY DEF SendsToOwner, RowsGrow, BornComplete, Issued, TypeOK, TokenRow
<1>2. CASE r \in Registrations
  BY <1>1, <1>2, Kinds DEF Knows, RegistrationKnows, Running
<1>3. CASE r \in Verifications
  <2>1. Running(r) => <<"token", local[r].token>> \in Keys
    BY <1>3 DEF Knows, VerificationKnows, Keys
  <2>2. pc[r] \in {"markVerified", "commit"} => Running(r)
    BY DEF Running, Answers
  <2> DEFINE t == local[r].token
  <2>3. VerificationKnows(r)
    BY <1>3 DEF Knows
  <2>4. Running(r)' => t \in Tokens /\ Issued(t)' /\ local'[r].user = vtokens'[t].user
    BY <2>3 DEF VerificationKnows, Running, RowsGrow
  <2>5. pc'[r] \in {"markVerified", "commit"} =>
           <<r, <<"token", t>>>> \in held' /\ ~vtokens'[t].consumed
    BY <1>3, <2>1, <2>2, <2>3 DEF VerificationKnows
  <2>6. pc'[r] = "reread" => vtokens'[t].consumed
    BY <2>3 DEF VerificationKnows, Running, Answers, RowsGrow
  <2>7. VerificationKnows(r)'
    BY <2>3, <2>4, <2>5, <2>6 DEF VerificationKnows
  <2> QED BY <1>3, <2>7, Kinds DEF Knows
<1>4. CASE r \in Resends
  BY <1>1, <1>4, Kinds DEF Knows, ResendKnows, RowsGrow, Running
<1>5. CASE r \in Callbacks
  <2>1. OpensAccount(r) => OpensAccount(r)'
    BY DEF OpensAccount
  <2>2. JoinsAccount(r) => JoinsAccount(r)'
    BY DEF JoinsAccount, RowsGrow
  <2> QED BY <1>1, <1>5, <2>1, <2>2, Kinds DEF Knows, CallbackKnows, RowsGrow
<1> QED BY <1>2, <1>3, <1>4, <1>5 DEF Requests

-----------------------------------------------------------------------------
(* Steps that write no row. *)

\* The locks of r change: it takes a free key, or drops them all, or keeps them.
LocksOf(r) ==
    \/ held' = held
    \/ ReleaseLocks(r)
    \/ \E key \in Keys : Free(r, key) /\ Hold(r, key)

\* Locks of one transaction leave those of the others, and stay exclusive.
LEMMA LocksStep ==
  ASSUME TypeOK, ExclusiveKeys, NEW r \in Requests, LocksOf(r)
  PROVE  /\ held' \subseteq Requests \X Keys
         /\ ExclusiveKeys'
         /\ \A q \in Requests : \A key \in Keys :
               q # r /\ <<q, key>> \in held => <<q, key>> \in held'
<1>1. CASE held' = held
  BY <1>1 DEF TypeOK, ExclusiveKeys
<1>2. CASE ReleaseLocks(r)
  BY <1>2 DEF TypeOK, ExclusiveKeys, ReleaseLocks
<1>3. CASE \E key \in Keys : Free(r, key) /\ Hold(r, key)
  <2> PICK key \in Keys : Free(r, key) /\ Hold(r, key)
    BY <1>3
  <2>1. held' = held \cup {<<r, key>>} /\ \A h \in held : h[2] = key => h[1] = r
    BY DEF Free, Hold
  <2> QED BY <2>1 DEF TypeOK, ExclusiveKeys
<1> QED BY <1>1, <1>2, <1>3 DEF LocksOf

\* One handler moves on, takes or drops keys, and perhaps touches Redis.
LEMMA QuietStep ==
  ASSUME IInv, NEW r \in Requests, NEW w \in PCs, NEW mine \in Local,
         Continue(r, w, mine), UNCHANGED <<clock, rows>>, LocksOf(r),
         cache' \subseteq Tokens, mailed' \subseteq Tokens \X Address,
         states' \in [States -> {"unused", "stored", "gone"}],
         MailedTokensWork',
         pc[r] \in Written => w \in Written,
         r \in Verifications => w # "panic",
         w \notin Answers => Knows(r)'
  PROVE  IInv'
<1> USE DEF IInv, rows
<1>1. /\ pc' = [pc EXCEPT ![r] = w]
      /\ local' \in [Requests -> Local]
      /\ \A q \in Requests : q # r => pc'[q] = pc[q] /\ local'[q] = local[q]
  BY NothingIsLocal DEF Continue, TypeOK
<1>2. TypeOK'
  BY <1>1, LocksStep DEF TypeOK
<1>3. ExclusiveKeys'
  BY LocksStep
<1>4. HandlersKnow'
  <2>1. Knows(r)'
    <3>1. CASE w \in Answers
      BY <1>1, <3>1 DEF TypeOK, Knows, RegistrationKnows, VerificationKnows, ResendKnows,
         CallbackKnows, SendsToOwner, Running, Answers
    <3> QED BY <3>1
  <2>2. ASSUME NEW q \in Requests, q # r PROVE Knows(q)'
    <3>1. RowsGrow
      BY DEF RowsGrow, Exists, Issued
    <3>2. ReservesEmail(q) => ReservesEmail(q)'
      BY <1>1, <2>2, LocksStep DEF ReservesEmail, OwnersOf, TypeOK
    <3>3. ReservesSubject(q) => ReservesSubject(q)'
      BY <1>1, <2>2, LocksStep DEF ReservesSubject, LinksOf, Subject, TypeOK
    <3>4. q \in Verifications /\ pc[q] \in {"markVerified", "commit"} =>
             ~vtokens'[local[q].token].consumed
      BY DEF HandlersKnow, Knows, VerificationKnows
    <3> QED BY <1>1, <2>2, <3>1, <3>2, <3>3, <3>4, LocksStep, StillKnows
              DEF HandlersKnow, RowsAreRight
  <2> QED BY <2>1, <2>2 DEF HandlersKnow
<1>5. RowsAreRight'
  <2>1. CreatedAtCommit'
    BY <1>1 DEF RowsAreRight, CreatedAtCommit, Exists, Issued, Linked, TypeOK, Requests,
                Accounts, Tokens
  <2>2. StoredNormalized' /\ OneOwner' /\ BornComplete' /\ LinkedOnlyIfVouched'
    BY DEF RowsAreRight, StoredNormalized, OneOwner, BornComplete, LinkedOnlyIfVouched,
           Exists, Issued, Linked
  <2>3. VerifiedForAReason'
    BY <1>1 DEF RowsAreRight, VerifiedForAReason, Exists, Issued, TypeOK, Requests
  <2> QED BY <2>1, <2>2, <2>3 DEF RowsAreRight
<1> QED BY <1>2, <1>3, <1>4, <1>5

\* What happens when r moves on and Redis is not touched.
LEMMA MovesOn ==
  ASSUME IInv, NEW r \in Requests, NEW w \in PCs, NEW mine \in Local,
         Continue(r, w, mine), UNCHANGED <<clock, rows, redis>>, LocksOf(r),
         pc[r] \in Written => w \in Written,
         r \in Verifications => w # "panic",
         w \notin Answers => Knows(r)'
  PROVE  IInv'
<1>1. MailedTokensWork'
  BY DEF IInv, RowsAreRight, MailedTokensWork, Issued, rows, redis
<1>2. /\ cache' \subseteq Tokens /\ mailed' \subseteq Tokens \X Address
      /\ states' \in [States -> {"unused", "stored", "gone"}]
  BY DEF IInv, TypeOK, redis
<1> QED BY <1>1, <1>2, QuietStep

\* A handler that returns, by itself or because something failed.
LEMMA Returns ==
  ASSUME IInv, NEW r \in Requests, NEW w \in Answers, GiveUp(r, w),
         r \in Verifications => w # "panic"
  PROVE  IInv'
<1>1. local[r] \in Local /\ w \in PCs
  BY DEF IInv, TypeOK, PCs
<1>2. Continue(r, w, local[r]) /\ LocksOf(r) /\ UNCHANGED <<clock, rows, redis>>
  BY DEF GiveUp, Goto, LocksOf
<1>3. pc[r] \in Written => w \in Written
  BY DEF Written
<1> QED BY <1>1, <1>2, <1>3, MovesOn

\* The raw token goes to the cache, of whatever handler.
LEMMA StoreRawStep ==
  ASSUME IInv, NEW r \in Requests, r \notin Verifications, StoreRaw(r)
  PROVE  IInv'
<1>1. /\ local[r] \in Local /\ pc[r] = "storeRaw" /\ Knows(r) /\ SendsToOwner(r)
      /\ pc'[r] = "mail" /\ local'[r] = local[r]
  BY DEF IInv, TypeOK, HandlersKnow, Requests, StoreRaw, Goto, Continue, Answers, Knows,
         RegistrationKnows, ResendKnows, CallbackKnows
<1>2. local[r].token \in Tokens /\ UNCHANGED <<rows, mailed, states, held, clock>>
  BY <1>1 DEF SendsToOwner, StoreRaw
<1>3. cache' \subseteq Tokens
  BY <1>2 DEF IInv, TypeOK, StoreRaw
<1>4. MailedTokensWork'
  BY <1>2 DEF IInv, RowsAreRight, MailedTokensWork, Issued, rows
<1>5. Knows(r)'
  <2>1. SendsToOwner(r)'
    BY <1>1, <1>2 DEF SendsToOwner, Issued, rows
  <2>2. ResendKnows(r) => ResendKnows(r)'
    BY <1>1, <1>2, <2>1 DEF ResendKnows, Running, Answers, Exists, rows
  <2>3. RegistrationKnows(r) => RegistrationKnows(r)'
    BY <1>1, <1>2, <2>1 DEF RegistrationKnows, Running, Answers
  <2>4. CallbackKnows(r)'
    BY <1>1, <2>1 DEF CallbackKnows
  <2> QED BY <1>1, <2>2, <2>3, <2>4 DEF Knows
<1>6. Continue(r, "mail", local[r]) /\ LocksOf(r) /\ "mail" \in PCs /\ "mail" \in Written
  BY <1>2 DEF StoreRaw, Goto, LocksOf, PCs, Written
<1>7. mailed' \subseteq Tokens \X Address /\ states' \in [States -> {"unused", "stored", "gone"}]
  BY <1>2 DEF IInv, TypeOK
<1> QED BY <1>1, <1>2, <1>3, <1>4, <1>5, <1>6, <1>7, QuietStep

\* The token goes to the address of its account.
LEMMA MailStep ==
  ASSUME IInv, NEW r \in Requests, r \notin Verifications, NEW w \in {"ok", "issue"},
         Mail(r, w), r \in Callbacks \/ w = "ok"
  PROVE  IInv'
<1>1. /\ local[r] \in Local /\ pc[r] = "mail" /\ Knows(r) /\ SendsToOwner(r) /\ pc'[r] = w
  BY DEF IInv, TypeOK, HandlersKnow, Requests, Mail, Goto, Continue, Knows,
         RegistrationKnows, ResendKnows, CallbackKnows
<1>2. /\ local[r].token \in Tokens /\ Issued(local[r].token)
      /\ users[vtokens[local[r].token].user].email = local[r].email
      /\ UNCHANGED <<rows, cache, states, held, clock>>
  BY <1>1 DEF SendsToOwner, Mail
<1>3. local[r].email \in Address
  <2>1. vtokens[local[r].token].user \in Accounts /\ Exists(vtokens[local[r].token].user)
    BY <1>2 DEF IInv, TypeOK, TokenRow, RowsAreRight, BornComplete, Issued
  <2> QED BY <1>2, <2>1 DEF IInv, TypeOK, UserRow, Exists
<1>4. mailed' \subseteq Tokens \X Address
  BY <1>2, <1>3 DEF IInv, TypeOK, Mail
<1>5. MailedTokensWork'
  BY <1>2 DEF IInv, RowsAreRight, MailedTokensWork, Issued, rows, Mail
<1>6. Continue(r, w, local[r]) /\ LocksOf(r) /\ w \in PCs /\ w \in Written /\ w # "panic"
  BY <1>2 DEF Mail, Goto, LocksOf, PCs, Written, Answers
<1>7. cache' \subseteq Tokens /\ states' \in [States -> {"unused", "stored", "gone"}]
  BY <1>2 DEF IInv, TypeOK
<1>8. w \notin Answers => Knows(r)'
  BY <1>1, Kinds DEF Answers, Knows, CallbackKnows, SendsToOwner
<1> QED BY <1>1, <1>2, <1>4, <1>5, <1>6, <1>7, <1>8, QuietStep

-----------------------------------------------------------------------------
(* Registration up to its commit. *)

\* The duplicate check, the INSERT that reserves the address, the token.
LEMMA RegistrationStep ==
  ASSUME IInv, NEW r \in Registrations,
         \/ \E email \in Address : Register(r, email)
         \/ FindDuplicate(r) \/ CreateUser(r) \/ InsertToken(r)
  PROVE  IInv'
<1>0. /\ r \in Requests /\ r \notin Verifications /\ r \notin Resends /\ r \notin Callbacks
      /\ local[r] \in Local /\ RegistrationKnows(r) /\ r \in Accounts /\ r \in Tokens
  BY Kinds DEF Requests, IInv, TypeOK, HandlersKnow, Knows, Accounts, Tokens
<1> USE DEF Learn
<1>1. CASE \E email \in Address : Register(r, email)
  <2> PICK email \in Address : Register(r, email)
    BY <1>1
  <2> DEFINE mine == [local[r] EXCEPT !.email = NormalizeEmail(email)]
  <2> PICK w \in {"findEmail", "rejected"} : Learn(r, w, mine)
    BY DEF Register
  <2>1. mine \in Local /\ mine.email \in Address /\ mine.email.normal
    BY <1>0 DEF Local, NormalizeEmail, Address
  <2>2. w \notin Answers => Knows(r)'
    BY <1>0, <2>1 DEF Continue, IInv, TypeOK, Knows, RegistrationKnows, SendsToOwner,
                      Answers
  <2>3. pc[r] = "idle" /\ pc[r] \notin Written /\ w \in PCs
    BY DEF Register, Written, Answers, PCs
  <2> QED BY <1>0, <2>1, <2>2, <2>3, MovesOn DEF LocksOf
<1>2. CASE FindDuplicate(r)
  <2>1. CASE GiveUp(r, "rejected")
    BY <1>0, <2>1, Returns DEF Answers
  <2>2. CASE Learn(r, "createUser",
                   [local[r] EXCEPT !.user = r, !.token = r, !.now = clock])
    <3> DEFINE mine == [local[r] EXCEPT !.user = r, !.token = r, !.now = clock]
    <3>1. mine \in Local /\ mine.email = local[r].email /\ mine.token = r
      BY <1>0 DEF Local, IInv, TypeOK
    <3>2. pc[r] = "findEmail" /\ Running(r) /\ pc[r] \notin Written /\ "createUser" \in PCs
      BY <1>2 DEF FindDuplicate, Written, Answers, PCs, Running
    <3>3. Knows(r)'
      BY <1>0, <2>2, <3>1, <3>2 DEF Continue, IInv, TypeOK, Knows, RegistrationKnows,
                      SendsToOwner, Answers
    <3> QED BY <1>0, <2>2, <3>1, <3>2, <3>3, MovesOn DEF LocksOf
  <2> QED BY <1>2, <2>1, <2>2 DEF FindDuplicate
<1>3. CASE CreateUser(r)
  <2>1. CASE GiveUp(r, "violation")
    BY <1>0, <2>1, Returns DEF Answers
  <2>2. CASE /\ OwnersOf(local[r].email) = {}
             /\ Take(r, <<"email", local[r].email>>, "createToken")
    <3>1. /\ pc[r] = "createUser" /\ Running(r) /\ pc[r] \notin Written
          /\ "createToken" \in PCs /\ Free(r, <<"email", local[r].email>>)
      BY <1>3 DEF CreateUser, InsertUser, Written, Answers, PCs, Running
    <3>2. <<"email", local[r].email>> \in Keys
      BY <1>0, <3>1 DEF RegistrationKnows, Keys
    <3>3. Continue(r, "createToken", local[r]) /\ LocksOf(r)
      BY <2>2, <3>1, <3>2 DEF Take, LocksOf, Goto
    <3>4. pc'[r] = "createToken" /\ local'[r] = local[r]
      BY <1>0, <3>3 DEF Continue, IInv, TypeOK, Answers
    <3>5. ReservesEmail(r)'
      BY <2>2, <3>4 DEF ReservesEmail, OwnersOf, Take, Hold, rows
    <3>6. Knows(r)'
      BY <1>0, <3>1, <3>4, <3>5 DEF Knows, RegistrationKnows, SendsToOwner
    <3> QED BY <1>0, <2>2, <3>1, <3>3, <3>6, MovesOn DEF Take
  <2> QED BY <1>3, <2>1, <2>2 DEF CreateUser, InsertUser
<1>4. CASE InsertToken(r)
  <2>1. /\ pc[r] = "createToken" /\ Running(r) /\ pc[r] \notin Written /\ "commit" \in PCs
        /\ Continue(r, "commit", local[r])
    BY <1>4 DEF InsertToken, Written, Answers, PCs, Running
  <2>2. pc'[r] = "commit" /\ local'[r] = local[r] /\ UNCHANGED <<held, rows>>
    BY <1>0, <1>4, <2>1 DEF InsertToken, Continue, IInv, TypeOK, Answers
  <2>3. ReservesEmail(r)'
    BY <1>0, <2>1, <2>2 DEF RegistrationKnows, ReservesEmail, OwnersOf, rows
  <2>4. Knows(r)'
    BY <1>0, <2>1, <2>2, <2>3 DEF Knows, RegistrationKnows, SendsToOwner
  <2> QED BY <1>0, <1>4, <2>1, <2>4, MovesOn DEF InsertToken, LocksOf
<1> QED BY <1>1, <1>2, <1>3, <1>4

-----------------------------------------------------------------------------
(* Verification up to its commit. *)

\* FindByHash, FindByID, the two statements of the transaction, and the second look.
LEMMA VerificationStep ==
  ASSUME IInv, NEW v \in Verifications,
         \/ UnknownToken(v)
         \/ \E t \in Tokens : PresentToken(v, t)
         \/ ReadAccount(v) \/ Consume(v) \/ MarkVerified(v) \/ Reread(v)
  PROVE  IInv'
<1>0. /\ v \in Requests /\ v \notin Registrations /\ v \notin Resends /\ v \notin Callbacks
      /\ local[v] \in Local /\ VerificationKnows(v)
  BY Kinds DEF Requests, IInv, TypeOK, HandlersKnow, Knows
<1>k. VerificationKnows(v)' => Knows(v)'
  BY <1>0 DEF Knows
<1> USE DEF Learn
<1>1. CASE UnknownToken(v)
  BY <1>0, <1>1, Returns DEF UnknownToken, Answers
<1>2. CASE \E t \in Tokens : PresentToken(v, t)
  <2> PICK t \in Tokens : PresentToken(v, t)
    BY <1>2
  <2> DEFINE mine == [local[v] EXCEPT !.token = t, !.user = vtokens[t].user]
             w == IF vtokens[t].consumed THEN "reread"
                  ELSE IF clock >= vtokens[t].expires THEN "rejected" ELSE "findAccount"
  <2>1. /\ pc[v] = "idle" /\ vtokens[t] # None /\ Continue(v, w, mine)
        /\ UNCHANGED <<clock, rows, redis, held>>
    BY DEF PresentToken
  <2>2. mine \in Local /\ mine.token = t /\ mine.user = vtokens[t].user
    BY <1>0, <2>1 DEF Local, IInv, TypeOK, TokenRow
  <2>3. w \in PCs /\ w # "panic" /\ pc[v] \notin Written /\ w \in {"reread", "rejected", "findAccount"}
        /\ (w = "reread" => vtokens[t].consumed)
    BY <2>1 DEF PCs, Answers, Written
  <2> HIDE DEF mine, w
  <2>4. w \notin Answers => Knows(v)'
    <3> SUFFICES ASSUME w \notin Answers PROVE VerificationKnows(v)'
      BY <1>k
    <3>1. pc'[v] = w /\ local'[v] = mine /\ UNCHANGED vtokens
      BY <1>0, <2>1 DEF Continue, IInv, TypeOK, rows
    <3> QED BY <2>1, <2>2, <2>3, <3>1 DEF VerificationKnows, Issued
  <2> QED BY <1>0, <2>1, <2>2, <2>3, <2>4, MovesOn DEF LocksOf
<1>3. CASE ReadAccount(v)
  <2> DEFINE mine == [local[v] EXCEPT !.status = users[local[v].user].status, !.now = clock]
  <2>1. /\ pc[v] = "findAccount" /\ Running(v) /\ Continue(v, "consume", mine)
        /\ UNCHANGED <<clock, rows, redis, held>>
    BY <1>3 DEF ReadAccount, Running, Answers
  <2>2. users[local[v].user] \in UserRow
    BY <1>0, <2>1 DEF VerificationKnows, IInv, TypeOK, RowsAreRight, BornComplete, TokenRow,
                      Issued, Exists
  <2>3. /\ mine \in Local /\ mine.status \in Statuses
        /\ mine.token = local[v].token /\ mine.user = local[v].user
    BY <1>0, <2>2 DEF Local, IInv, TypeOK, UserRow
  <2> HIDE DEF mine
  <2>4. pc'[v] = "consume" /\ local'[v] = mine /\ UNCHANGED vtokens
    BY <1>0, <2>1 DEF Continue, IInv, TypeOK, rows, Answers
  <2>5. VerificationKnows(v)'
    BY <1>0, <2>1, <2>3, <2>4 DEF VerificationKnows, Issued
  <2>6. "consume" \in PCs /\ pc[v] \notin Written
    BY <2>1 DEF PCs, Written, Answers
  <2> QED BY <1>0, <1>k, <2>1, <2>3, <2>5, <2>6, MovesOn DEF LocksOf
<1>4. CASE Consume(v)
  <2> DEFINE t == local[v].token
  <2>1. pc[v] = "consume" /\ Running(v) /\ pc[v] \notin Written /\ Free(v, <<"token", t>>)
    BY <1>4 DEF Consume, Running, Answers, Written
  <2>2. /\ t \in Tokens /\ Issued(t) /\ local[v].user = vtokens[t].user
        /\ local[v].status \in Statuses /\ <<"token", t>> \in Keys
    BY <1>0, <2>1 DEF VerificationKnows, Keys
  <2>3. CASE vtokens[t].consumed /\ GiveUp(v, "reread")
    <3>1. Continue(v, "reread", local[v]) /\ LocksOf(v) /\ UNCHANGED <<clock, rows, redis>>
      BY <2>3 DEF GiveUp, Goto, LocksOf
    <3>2. pc'[v] = "reread" /\ local'[v] = local[v] /\ UNCHANGED vtokens
      BY <1>0, <3>1 DEF Continue, IInv, TypeOK, rows, Answers
    <3>3. VerificationKnows(v)'
      BY <2>2, <2>3, <3>2 DEF VerificationKnows, Issued
    <3>4. "reread" \in PCs
      BY DEF PCs
    <3> QED BY <1>0, <1>k, <2>1, <3>1, <3>3, <3>4, MovesOn
  <2>4. CASE ~vtokens[t].consumed /\ Take(v, <<"token", t>>, "markVerified")
    <3>1. Continue(v, "markVerified", local[v]) /\ LocksOf(v) /\ UNCHANGED <<clock, rows, redis>>
      BY <2>1, <2>2, <2>4 DEF Take, Goto, LocksOf
    <3>2. /\ pc'[v] = "markVerified" /\ local'[v] = local[v] /\ UNCHANGED vtokens
          /\ <<v, <<"token", t>>>> \in held'
      BY <1>0, <2>4, <3>1 DEF Continue, IInv, TypeOK, rows, Answers, Take, Hold
    <3>3. VerificationKnows(v)'
      BY <2>2, <2>4, <3>2 DEF VerificationKnows, Issued
    <3>4. "markVerified" \in PCs
      BY DEF PCs
    <3> QED BY <1>0, <1>k, <2>1, <3>1, <3>3, <3>4, MovesOn
  <2> QED BY <1>4, <2>3, <2>4 DEF Consume
<1>5. CASE MarkVerified(v)
  <2> DEFINE u == local[v].user
  <2>1. /\ pc[v] = "markVerified" /\ Running(v) /\ pc[v] \notin Written
        /\ Free(v, <<"user", u>>) /\ Take(v, <<"user", u>>, "commit")
    BY <1>5 DEF MarkVerified, Running, Answers, Written
  <2>2. <<"user", u>> \in Keys
    BY <1>0, <2>1 DEF VerificationKnows, Keys, IInv, TypeOK, TokenRow, Issued
  <2>3. Continue(v, "commit", local[v]) /\ LocksOf(v) /\ UNCHANGED <<clock, rows, redis>>
    BY <2>1, <2>2 DEF Take, Goto, LocksOf
  <2>4. /\ pc'[v] = "commit" /\ local'[v] = local[v] /\ UNCHANGED vtokens
        /\ held \subseteq held'
    BY <1>0, <2>1, <2>3 DEF Continue, IInv, TypeOK, rows, Answers, Take, Hold
  <2>5. VerificationKnows(v)'
    BY <1>0, <2>1, <2>4 DEF VerificationKnows, Issued
  <2>6. "commit" \in PCs
    BY DEF PCs
  <2> QED BY <1>0, <1>k, <2>1, <2>3, <2>5, <2>6, MovesOn
<1>6. CASE Reread(v)
  <2>1. users[local[v].user].verifiedAt # None
    BY <1>0, <1>6 DEF Reread, VerificationKnows, Running, Answers, IInv, TypeOK, TokenRow,
         RowsAreRight, BornComplete, VerifiedForAReason, Issued
  <2> QED BY <1>0, <1>6, <2>1, Returns DEF Reread, Answers
<1> QED BY <1>1, <1>2, <1>3, <1>4, <1>5, <1>6

-----------------------------------------------------------------------------
(* Resend up to its INSERT. *)

\* What FindByEmail, the search for an active token and the cache tell the handler.
LEMMA ResendStepQuiet ==
  ASSUME IInv, NEW s \in Resends,
         \/ \E email \in Address : AskResend(s, email)
         \/ NothingToResend(s) \/ FindUnverified(s)
         \/ FindActive(s) \/ NoneActive(s) \/ ReadCache(s)
  PROVE  IInv'
<1>0. /\ s \in Requests /\ s \notin Registrations /\ s \notin Verifications /\ s \notin Callbacks
      /\ local[s] \in Local /\ ResendKnows(s)
  BY Kinds DEF Requests, IInv, TypeOK, HandlersKnow, Knows
<1>k. ResendKnows(s)' => Knows(s)'
  BY <1>0 DEF Knows
<1>m. ASSUME NEW w \in PCs, NEW mine \in Local, w \notin Answers, pc[s] \notin Written,
             Learn(s, w, mine)
      PROVE  /\ pc'[s] = w /\ local'[s] = mine /\ UNCHANGED rows
             /\ ResendKnows(s)' => IInv'
  <2>1. pc'[s] = w /\ local'[s] = mine /\ UNCHANGED rows
    BY <1>0, <1>m DEF Learn, Continue, IInv, TypeOK
  <2> QED BY <1>0, <1>k, <1>m, <2>1, MovesOn DEF Learn, LocksOf
<1>1. CASE \E email \in Address : AskResend(s, email)
  <2> PICK email \in Address : AskResend(s, email)
    BY <1>1
  <2> DEFINE mine == [local[s] EXCEPT !.email = NormalizeEmail(email)]
  <2> PICK w \in {"findEmail", "rejected"} : Learn(s, w, mine)
    BY DEF AskResend
  <2>1. mine \in Local /\ mine.email \in Address
    BY <1>0 DEF Local, NormalizeEmail, Address
  <2> HIDE DEF mine
  <2>2. pc[s] \notin Written /\ w \in PCs
    BY DEF AskResend, Written, Answers, PCs
  <2>3. CASE w = "findEmail"
    <3>1. pc'[s] = w /\ local'[s] = mine /\ (ResendKnows(s)' => IInv')
      BY <1>m, <2>1, <2>2, <2>3 DEF Answers
    <3> QED BY <2>1, <2>3, <3>1 DEF ResendKnows, SendsToOwner
  <2>4. CASE w = "rejected"
    BY <1>0, <2>1, <2>2, <2>4, MovesOn DEF Learn, LocksOf, Answers
  <2> QED BY <2>3, <2>4
<1>2. CASE NothingToResend(s)
  BY <1>0, <1>2, Returns DEF NothingToResend, Answers
<1>3. CASE FindUnverified(s)
  <2> PICK u \in OwnersOf(local[s].email) : Learn(s, "findActive", [local[s] EXCEPT !.user = u])
    BY <1>3 DEF FindUnverified
  <2>1. u \in Accounts /\ Exists(u) /\ users[u].email = local[s].email
    BY DEF OwnersOf, Exists
  <2> DEFINE mine == [local[s] EXCEPT !.user = u]
  <2>2. mine \in Local /\ mine.email = local[s].email /\ mine.user = u
    BY <1>0, <2>1 DEF Local
  <2> HIDE DEF mine
  <2>3. pc[s] = "findEmail" /\ Running(s) /\ pc[s] \notin Written /\ "findActive" \in PCs
    BY <1>3 DEF FindUnverified, Running, Written, Answers, PCs
  <2>4. pc'[s] = "findActive" /\ local'[s] = mine /\ UNCHANGED rows /\ (ResendKnows(s)' => IInv')
    BY <1>m, <2>2, <2>3 DEF Answers, mine
  <2> QED BY <1>0, <2>1, <2>2, <2>3, <2>4 DEF ResendKnows, SendsToOwner, Exists, rows
<1>4. CASE FindActive(s)
  <2> PICK t \in Active(local[s].user) : Learn(s, "readCache", [local[s] EXCEPT !.token = t])
    BY <1>4 DEF FindActive
  <2>1. t \in Tokens /\ Issued(t) /\ vtokens[t].user = local[s].user
    BY DEF Active, Issued
  <2> DEFINE mine == [local[s] EXCEPT !.token = t]
  <2>2. /\ mine \in Local /\ mine.email = local[s].email /\ mine.user = local[s].user
        /\ mine.token = t
    BY <1>0, <2>1 DEF Local
  <2> HIDE DEF mine
  <2>3. pc[s] = "findActive" /\ Running(s) /\ pc[s] \notin Written /\ "readCache" \in PCs
    BY <1>4 DEF FindActive, Running, Written, Answers, PCs
  <2>4. pc'[s] = "readCache" /\ local'[s] = mine /\ UNCHANGED rows /\ (ResendKnows(s)' => IInv')
    BY <1>m, <2>2, <2>3 DEF Answers, mine
  <2> QED BY <1>0, <2>1, <2>2, <2>3, <2>4 DEF ResendKnows, SendsToOwner, Exists, Issued, rows
<1>5. CASE NoneActive(s)
  <2>1. pc[s] = "findActive" /\ Running(s) /\ pc[s] \notin Written /\ "mint" \in PCs
    BY <1>5 DEF NoneActive, Running, Written, Answers, PCs
  <2>2. pc'[s] = "mint" /\ local'[s] = local[s] /\ UNCHANGED rows /\ (ResendKnows(s)' => IInv')
    BY <1>0, <1>5, <1>m, <2>1 DEF Answers, NoneActive
  <2> QED BY <1>0, <2>1, <2>2 DEF ResendKnows, SendsToOwner, Exists, rows
<1>6. CASE ReadCache(s)
  <2> DEFINE w == IF local[s].token \in cache THEN "mail" ELSE "mint"
  <2>1. /\ pc[s] = "readCache" /\ Running(s) /\ pc[s] \notin Written /\ w \in PCs
        /\ w \in {"mail", "mint"} /\ Learn(s, w, local[s])
    BY <1>6 DEF ReadCache, Running, Written, Answers, PCs
  <2> HIDE DEF w
  <2>2. pc'[s] = w /\ local'[s] = local[s] /\ UNCHANGED rows /\ (ResendKnows(s)' => IInv')
    BY <1>0, <1>m, <2>1 DEF Answers
  <2> QED BY <1>0, <2>1, <2>2 DEF ResendKnows, SendsToOwner, Exists, Issued, rows
<1> QED BY <1>1, <1>2, <1>3, <1>4, <1>5, <1>6

-----------------------------------------------------------------------------
(* An OAuth callback up to its commit. *)

\* The state is consumed, or is not there, or the reply is lost.
LEMMA StateStep ==
  ASSUME IInv, NEW c \in Callbacks,
         RejectState(c) \/ \E x \in States : ConsumeState(c, x) \/ LoseState(c, x)
  PROVE  IInv'
<1>0. c \in Requests /\ c \notin Verifications /\ local[c] \in Local /\ CallbackKnows(c)
  BY Kinds DEF Requests, IInv, TypeOK, HandlersKnow, Knows
<1>1. CASE RejectState(c)
  BY <1>0, <1>1, Returns DEF RejectState, Answers
<1>2. CASE \E x \in States : ConsumeState(c, x) \/ LoseState(c, x)
  <2> PICK x \in States : ConsumeState(c, x) \/ LoseState(c, x)
    BY <1>2
  <2> PICK w \in {"exchange", "noState", "error"} : Goto(c, w)
    BY DEF ConsumeState, LoseState
  <2>1. /\ pc[c] = "idle" /\ states' = [states EXCEPT ![x] = "gone"]
        /\ UNCHANGED <<clock, rows, cache, mailed, held>>
    BY DEF ConsumeState, LoseState
  <2>2. MailedTokensWork'
    BY <2>1 DEF IInv, RowsAreRight, MailedTokensWork, Issued, rows
  <2>3. /\ w \in PCs /\ pc[c] \notin Written /\ Continue(c, w, local[c]) /\ LocksOf(c)
        /\ cache' \subseteq Tokens /\ mailed' \subseteq Tokens \X Address
        /\ states' \in [States -> {"unused", "stored", "gone"}]
    BY <2>1 DEF PCs, Answers, Written, Goto, LocksOf, IInv, TypeOK
  <2>4. w \notin Answers => Knows(c)'
    <3> SUFFICES ASSUME w = "exchange" PROVE Knows(c)'
      BY DEF Answers
    <3>1. pc'[c] = "exchange" /\ local'[c] = local[c]
      BY <1>0, <2>3 DEF Continue, IInv, TypeOK, Answers
    <3> QED BY <1>0, <2>1, <3>1, Kinds DEF Knows, CallbackKnows, SendsToOwner
  <2> QED BY <1>0, <2>1, <2>2, <2>3, <2>4, QuietStep
<1> QED BY <1>1, <1>2

\* The exchange and the rows the callback reads before its transaction.
LEMMA CallbackReads ==
  ASSUME IInv, NEW c \in Callbacks,
         \/ Exchange(c) \/ FindLink(c) \/ FindNoLink(c) \/ ReadLinkedAccount(c)
         \/ FindOwner(c) \/ FindNoOwner(c) \/ CanLogin(c) \/ Issue(c)
  PROVE  IInv'
<1>0. /\ c \in Requests /\ c \notin Registrations /\ c \notin Resends /\ c \notin Verifications
      /\ local[c] \in Local /\ CallbackKnows(c) /\ c \in Accounts /\ c \in Tokens
  BY Kinds DEF Requests, Accounts, Tokens, IInv, TypeOK, HandlersKnow, Knows
<1>k. CallbackKnows(c)' => Knows(c)'
  BY <1>0 DEF Knows
<1>m. ASSUME NEW w \in PCs, NEW mine \in Local, w \notin Answers,
             pc[c] \in Written => w \in Written, Learn(c, w, mine)
      PROVE  /\ pc'[c] = w /\ local'[c] = mine /\ UNCHANGED <<rows, held>>
             /\ CallbackKnows(c)' => IInv'
  <2>1. pc'[c] = w /\ local'[c] = mine /\ UNCHANGED <<rows, held>>
    BY <1>0, <1>m DEF Learn, Continue, IInv, TypeOK
  <2> QED BY <1>0, <1>k, <1>m, <2>1, MovesOn DEF Learn, LocksOf
<1>1. CASE Exchange(c)
  <2> PICK id \in Identity : Learn(c, "findLink", [local[c] EXCEPT !.identity = id])
    BY <1>1 DEF Exchange
  <2> DEFINE mine == [local[c] EXCEPT !.identity = id]
  <2>1. mine \in Local /\ mine.identity = id /\ mine.token = local[c].token
    BY <1>0 DEF Local
  <2> HIDE DEF mine
  <2>2. pc[c] = "exchange" /\ pc[c] \notin Written /\ "findLink" \in PCs
    BY <1>1 DEF Exchange, Written, Answers, PCs
  <2>3. pc'[c] = "findLink" /\ local'[c] = mine /\ (CallbackKnows(c)' => IInv')
    BY <1>m, <2>1, <2>2 DEF Answers, mine
  <2> QED BY <1>0, <2>1, <2>2, <2>3 DEF CallbackKnows, SendsToOwner
<1>2. CASE FindLink(c)
  <2> PICK l \in LinksOf(Subject(c)) : Learn(c, "findAccount", [local[c] EXCEPT !.user = links[l].user])
    BY <1>2 DEF FindLink
  <2>1. links[l].user \in Accounts /\ Exists(links[l].user)
    BY DEF LinksOf, IInv, TypeOK, LinkRow, RowsAreRight, LinkedOnlyIfVouched, Linked
  <2> DEFINE mine == [local[c] EXCEPT !.user = links[l].user]
  <2>2. /\ mine \in Local /\ mine.identity = local[c].identity /\ mine.token = local[c].token
        /\ mine.user = links[l].user
    BY <1>0, <2>1 DEF Local
  <2> HIDE DEF mine
  <2>3. pc[c] = "findLink" /\ pc[c] \notin Written /\ "findAccount" \in PCs
    BY <1>2 DEF FindLink, Written, Answers, PCs
  <2>4. /\ pc'[c] = "findAccount" /\ local'[c] = mine /\ UNCHANGED rows
        /\ CallbackKnows(c)' => IInv'
    BY <1>m, <2>2, <2>3 DEF Answers, mine
  <2> QED BY <1>0, <2>1, <2>2, <2>3, <2>4 DEF CallbackKnows, SendsToOwner, Exists, rows
<1>3. CASE FindNoLink(c)
  <2>1. pc[c] = "findLink" /\ pc[c] \notin Written /\ "findEmail" \in PCs
    BY <1>3 DEF FindNoLink, Written, Answers, PCs
  <2>2. pc'[c] = "findEmail" /\ local'[c] = local[c] /\ (CallbackKnows(c)' => IInv')
    BY <1>0, <1>3, <1>m, <2>1 DEF FindNoLink, Answers
  <2> QED BY <1>0, <2>1, <2>2 DEF CallbackKnows, SendsToOwner
<1>4. CASE ReadLinkedAccount(c)
  <2> DEFINE mine == [local[c] EXCEPT !.status = users[local[c].user].status]
  <2>1. pc[c] = "findAccount" /\ pc[c] \notin Written /\ "canLogin" \in PCs
    BY <1>4 DEF ReadLinkedAccount, Written, Answers, PCs
  <2>2. mine \in Local
    BY <1>0, <2>1 DEF CallbackKnows, Local, Exists, IInv, TypeOK, UserRow
  <2>3. pc'[c] = "canLogin" /\ (CallbackKnows(c)' => IInv')
    BY <1>4, <1>m, <2>1, <2>2 DEF ReadLinkedAccount, Answers
  <2> QED BY <2>3 DEF CallbackKnows, SendsToOwner
<1>5. CASE FindOwner(c)
  <2>0. pc[c] = "findEmail" /\ pc[c] \notin Written /\ "createLink" \in PCs
    BY <1>5 DEF FindOwner, Written, Answers, PCs
  <2> PICK u \in OwnersOf(local[c].identity.email) :
           IF BothVerified(c, u)
             THEN Learn(c, "createLink", [local[c] EXCEPT !.user = u, !.status = users[u].status])
             ELSE GiveUp(c, "rejected")
    BY <1>5 DEF FindOwner
  <2>1. /\ u \in Accounts /\ Exists(u) /\ users[u].email = local[c].identity.email
        /\ users[u].status \in Statuses
    BY DEF OwnersOf, Exists, IInv, TypeOK, UserRow
  <2>2. CASE BothVerified(c, u)
    <3> DEFINE mine == [local[c] EXCEPT !.user = u, !.status = users[u].status]
    <3>1. /\ mine \in Local /\ mine.identity = local[c].identity
          /\ mine.token = local[c].token /\ mine.user = u
      BY <1>0, <2>1 DEF Local
    <3> HIDE DEF mine
    <3>2. /\ pc'[c] = "createLink" /\ local'[c] = mine /\ UNCHANGED rows
          /\ CallbackKnows(c)' => IInv'
      BY <1>m, <2>0, <2>2, <3>1 DEF Answers, mine
    <3>3. u # c
      BY <2>0, <2>1, <1>0 DEF IInv, RowsAreRight, CreatedAtCommit
    <3>4. JoinsAccount(c)'
      BY <1>0, <2>0, <2>1, <2>2, <3>1, <3>2, <3>3
         DEF JoinsAccount, BothVerified, CallbackKnows, Exists, rows
    <3> QED BY <1>0, <2>0, <3>1, <3>2, <3>4 DEF CallbackKnows, SendsToOwner
  <2>3. CASE ~BothVerified(c, u)
    BY <1>0, <2>3, Returns DEF Answers
  <2> QED BY <2>2, <2>3
<1>6. CASE FindNoOwner(c)
  <2> DEFINE email == NormalizeEmail(local[c].identity.email)
             token == IF local[c].identity.verified THEN None ELSE c
             mine == [local[c] EXCEPT !.user = c, !.email = email, !.token = token, !.now = clock]
  <2>1. pc[c] = "findEmail" /\ pc[c] \notin Written /\ "createUser" \in PCs
    BY <1>6 DEF FindNoOwner, Written, Answers, PCs
  <2>2. local[c].identity \in Identity /\ email \in Address
    BY <1>0, <2>1 DEF CallbackKnows, Identity, NormalizeEmail, Address
  <2>3. /\ mine \in Local /\ mine.user = c /\ mine.identity = local[c].identity
        /\ mine.email = email /\ mine.token = token
    BY <1>0, <2>2 DEF Local, IInv, TypeOK
  <2>4. Learn(c, "createUser", mine)
    BY <1>6 DEF FindNoOwner
  <2> HIDE DEF mine
  <2>5. pc'[c] = "createUser" /\ local'[c] = mine /\ (CallbackKnows(c)' => IInv')
    BY <1>m, <2>1, <2>3, <2>4 DEF Answers
  <2> QED BY <2>2, <2>3, <2>5 DEF CallbackKnows, OpensAccount, SendsToOwner
<1>7. CASE CanLogin(c)
  <2>1. CASE Learn(c, "issue", local[c])
    <3>1. "issue" \in PCs /\ "issue" \in Written /\ "issue" \notin Answers
      BY DEF PCs, Written, Answers
    <3>2. pc'[c] = "issue" /\ (CallbackKnows(c)' => IInv')
      BY <1>0, <1>m, <2>1, <3>1
    <3> QED BY <3>2 DEF CallbackKnows, SendsToOwner
  <2>2. CASE Learn(c, "rejected", local[c])
    BY <1>0, <2>2, MovesOn DEF Learn, LocksOf, Answers, PCs, Written
  <2> QED BY <1>7, <2>1, <2>2 DEF CanLogin
<1>8. CASE Issue(c)
  BY <1>0, <1>8, Returns DEF Issue, Answers
<1> QED BY <1>1, <1>2, <1>3, <1>4, <1>5, <1>6, <1>7, <1>8

\* The statements of the callback's transaction.
LEMMA CallbackWrites ==
  ASSUME IInv, NEW c \in Callbacks,
         CreateOAuthUser(c) \/ CreateLink(c) \/ InsertToken(c)
  PROVE  IInv'
<1>0. /\ c \in Requests /\ c \notin Registrations /\ c \notin Resends /\ c \notin Verifications
      /\ local[c] \in Local /\ CallbackKnows(c) /\ c \in Accounts /\ c \in Tokens
  BY Kinds DEF Requests, Accounts, Tokens, IInv, TypeOK, HandlersKnow, Knows
<1>k. CallbackKnows(c)' => Knows(c)'
  BY <1>0 DEF Knows
<1>m. ASSUME NEW w \in PCs, w \notin Answers, pc[c] \notin Written, Goto(c, w), LocksOf(c),
             UNCHANGED <<clock, rows, redis>>
      PROVE  /\ pc'[c] = w /\ local'[c] = local[c]
             /\ CallbackKnows(c)' => IInv'
  <2>1. pc'[c] = w /\ local'[c] = local[c]
    BY <1>0, <1>m DEF Goto, Continue, IInv, TypeOK
  <2> QED BY <1>0, <1>k, <1>m, <2>1, MovesOn DEF Goto
<1>1. CASE CreateOAuthUser(c)
  <2>0. /\ pc[c] = "createUser" /\ pc[c] \notin Written /\ "createLink" \in PCs
        /\ Free(c, <<"email", local[c].email>>)
    BY <1>1 DEF CreateOAuthUser, InsertUser, Written, Answers, PCs
  <2>1. CASE GiveUp(c, "violation")
    BY <1>0, <2>1, Returns DEF Answers
  <2>2. CASE /\ OwnersOf(local[c].email) = {}
             /\ Take(c, <<"email", local[c].email>>, "createLink")
    <3>1. local[c].identity \in Identity /\ OpensAccount(c)
      BY <1>0, <2>0 DEF CallbackKnows
    <3>2. <<"email", local[c].email>> \in Keys
      BY <3>1 DEF OpensAccount, Keys, NormalizeEmail, Identity, Address
    <3>3. Goto(c, "createLink") /\ LocksOf(c) /\ UNCHANGED <<clock, rows, redis>>
      BY <2>0, <2>2, <3>2 DEF Take, LocksOf
    <3>4. pc'[c] = "createLink" /\ local'[c] = local[c] /\ (CallbackKnows(c)' => IInv')
      BY <1>m, <2>0, <3>3 DEF Answers
    <3>5. ReservesEmail(c)'
      BY <2>2, <3>4 DEF ReservesEmail, OwnersOf, Take, Hold, rows
    <3>6. OpensAccount(c)'
      BY <3>1, <3>4 DEF OpensAccount
    <3> QED BY <3>1, <3>4, <3>5, <3>6 DEF CallbackKnows, SendsToOwner
  <2> QED BY <1>1, <2>1, <2>2 DEF CreateOAuthUser, InsertUser
<1>2. CASE CreateLink(c)
  <2> DEFINE w == IF OwesToken(c) THEN "createToken" ELSE "commit"
  <2>0. /\ pc[c] = "createLink" /\ pc[c] \notin Written /\ w \in PCs
        /\ w \in {"createToken", "commit"} /\ w \notin Answers
        /\ Free(c, <<"subject", Subject(c)>>)
    BY <1>2 DEF CreateLink, Written, Answers, PCs
  <2>1. CASE GiveUp(c, "violation")
    BY <1>0, <2>1, Returns DEF Answers
  <2>2. CASE LinksOf(Subject(c)) = {} /\ Take(c, <<"subject", Subject(c)>>, w)
    <3> HIDE DEF w
    <3>1. local[c].identity \in Identity
      BY <1>0, <2>0 DEF CallbackKnows
    <3>2. <<"subject", Subject(c)>> \in Keys
      BY <3>1 DEF Subject, Keys, Identity
    <3>3. Goto(c, w) /\ LocksOf(c) /\ UNCHANGED <<clock, rows, redis>>
      BY <2>0, <2>2, <3>2 DEF Take, LocksOf
    <3>4. pc'[c] = w /\ local'[c] = local[c] /\ (CallbackKnows(c)' => IInv')
      BY <1>m, <2>0, <3>3
    <3>5. ReservesSubject(c)'
      BY <2>2, <3>4 DEF ReservesSubject, Subject, LinksOf, Take, Hold, rows
    <3>6. OpensAccount(c) => OpensAccount(c)'
      BY <3>4 DEF OpensAccount
    <3>7. JoinsAccount(c) => JoinsAccount(c)'
      BY <3>3, <3>4 DEF JoinsAccount, Exists, rows
    <3>8. ReservesEmail(c) => ReservesEmail(c)'
      BY <2>2, <3>3, <3>4 DEF ReservesEmail, OwnersOf, Take, Hold, rows
    <3> QED BY <1>0, <2>0, <3>1, <3>4, <3>5, <3>6, <3>7, <3>8 DEF CallbackKnows, SendsToOwner
  <2> QED BY <1>2, <2>1, <2>2 DEF CreateLink
<1>3. CASE InsertToken(c)
  <2>0. /\ pc[c] = "createToken" /\ pc[c] \notin Written /\ "commit" \in PCs
        /\ Goto(c, "commit") /\ LocksOf(c) /\ UNCHANGED <<clock, rows, redis, held>>
    BY <1>3 DEF InsertToken, Learn, Goto, LocksOf, Written, Answers, PCs
  <2>1. pc'[c] = "commit" /\ local'[c] = local[c] /\ (CallbackKnows(c)' => IInv')
    BY <1>m, <2>0 DEF Answers
  <2>2. OpensAccount(c) => OpensAccount(c)'
    BY <2>1 DEF OpensAccount
  <2>3. JoinsAccount(c) => JoinsAccount(c)'
    BY <2>0, <2>1 DEF JoinsAccount, Exists, rows
  <2>4. ReservesEmail(c) => ReservesEmail(c)'
    BY <2>0, <2>1 DEF ReservesEmail, OwnersOf, rows
  <2>5. ReservesSubject(c) => ReservesSubject(c)'
    BY <2>0, <2>1 DEF ReservesSubject, Subject, LinksOf, rows
  <2> QED BY <1>0, <2>0, <2>1, <2>2, <2>3, <2>4, <2>5 DEF CallbackKnows, SendsToOwner
<1> QED BY <1>1, <1>2, <1>3

-----------------------------------------------------------------------------
(* The environment. *)

\* Redis forgets, time passes, /start stores a state: no row and no handler changes.
LEMMA RedisStep ==
  ASSUME IInv, UNCHANGED <<rows, mailed, held, pc, local>>,
         cache' \subseteq Tokens, clock' \in Nat,
         states' \in [States -> {"unused", "stored", "gone"}]
  PROVE  IInv'
<1> USE DEF rows
<1>1. TypeOK' /\ ExclusiveKeys'
  BY DEF IInv, TypeOK, ExclusiveKeys
<1>2. RowsAreRight'
  BY DEF IInv, RowsAreRight, CreatedAtCommit, StoredNormalized, OneOwner, BornComplete,
         VerifiedForAReason, LinkedOnlyIfVouched, MailedTokensWork, Exists, Issued, Linked
<1>3. ASSUME NEW q \in Requests PROVE Knows(q)'
  <2>1. ReservesEmail(q) => ReservesEmail(q)'
    BY DEF ReservesEmail, OwnersOf
  <2>2. ReservesSubject(q) => ReservesSubject(q)'
    BY DEF ReservesSubject, Subject, LinksOf
  <2>3. RowsGrow
    BY DEF RowsGrow, Exists, Issued
  <2>4. q \in Verifications /\ pc[q] \in {"markVerified", "commit"} =>
           ~vtokens'[local[q].token].consumed
    BY DEF IInv, HandlersKnow, Knows, VerificationKnows
  <2> QED BY <2>1, <2>2, <2>3, <2>4, StillKnows DEF IInv, HandlersKnow, RowsAreRight
<1> QED BY <1>1, <1>2, <1>3 DEF IInv, HandlersKnow

\* Time, operators aside, and what Redis loses touch nothing that handlers rely on.
LEMMA EnvironmentStep ==
  ASSUME IInv,
         \/ \E x \in States : Start(x) \/ ExpireState(x)
         \/ \E t \in Tokens : Evict(t)
         \/ Tick
         \/ UNCHANGED vars
  PROVE  IInv'
<1>1. CASE \E x \in States : Start(x) \/ ExpireState(x)
  BY <1>1, RedisStep DEF Start, ExpireState, rows, IInv, TypeOK
<1>2. CASE \E t \in Tokens : Evict(t)
  BY <1>2, RedisStep DEF Evict, rows, IInv, TypeOK
<1>3. CASE Tick
  BY <1>3, RedisStep DEF Tick, redis, IInv, TypeOK
<1>4. CASE UNCHANGED vars
  BY <1>4, RedisStep DEF vars, rows, redis, IInv, TypeOK
<1> QED BY <1>1, <1>2, <1>3, <1>4

\* A suspension changes nothing a handler relies on but the status.
LEMMA SuspendStep ==
  ASSUME IInv, NEW a \in Accounts, Suspend(a)
  PROVE  IInv'
<1>1. /\ Exists(a) /\ users' = [users EXCEPT ![a].status = "SUSPENDED"]
      /\ UNCHANGED <<clock, vtokens, links, cache, mailed, states, held, pc, local>>
  BY DEF Suspend, Exists, redis
<1>2. /\ \A u \in Accounts : Exists(u)' <=> Exists(u)
      /\ \A u \in Accounts : Exists(u) =>
            /\ users'[u].email = users[u].email
            /\ users'[u].verifiedAt = users[u].verifiedAt
            /\ users'[u].vouched = users[u].vouched
      /\ users' \in [Accounts -> UserRow \cup {None}]
  BY <1>1, AccountNoneAssumption DEF IInv, TypeOK, UserRow, Statuses, Exists
<1>3. TypeOK' /\ ExclusiveKeys'
  BY <1>1, <1>2 DEF IInv, TypeOK, ExclusiveKeys
<1>4. RowsAreRight'
  <2>1. CreatedAtCommit' /\ StoredNormalized' /\ OneOwner'
    BY <1>1, <1>2 DEF IInv, RowsAreRight, CreatedAtCommit, StoredNormalized, OneOwner,
                      Issued, Linked
  <2>2. BornComplete' /\ LinkedOnlyIfVouched'
    BY <1>1, <1>2 DEF IInv, TypeOK, TokenRow, LinkRow, RowsAreRight, BornComplete,
                      LinkedOnlyIfVouched, Issued, Linked
  <2>3. VerifiedForAReason'
    BY <1>1, <1>2 DEF IInv, RowsAreRight, VerifiedForAReason, Issued
  <2>4. MailedTokensWork'
    BY <1>1, <1>2 DEF IInv, TypeOK, TokenRow, RowsAreRight, MailedTokensWork, BornComplete,
                      Issued
  <2> QED BY <2>1, <2>2, <2>3, <2>4 DEF RowsAreRight
<1>5. ASSUME NEW q \in Requests PROVE Knows(q)'
  <2>1. ReservesEmail(q) => ReservesEmail(q)'
    BY <1>1, <1>2 DEF ReservesEmail, OwnersOf, Exists
  <2>2. ReservesSubject(q) => ReservesSubject(q)'
    BY <1>1 DEF ReservesSubject, Subject, LinksOf
  <2>3. RowsGrow
    BY <1>1, <1>2 DEF RowsGrow, Issued
  <2>4. q \in Verifications /\ pc[q] \in {"markVerified", "commit"} =>
           ~vtokens'[local[q].token].consumed
    BY <1>1 DEF IInv, HandlersKnow, Knows, VerificationKnows
  <2> QED BY <1>1, <2>1, <2>2, <2>3, <2>4, StillKnows DEF IInv, HandlersKnow, RowsAreRight
<1> QED BY <1>3, <1>4, <1>5 DEF IInv, HandlersKnow

-----------------------------------------------------------------------------
(* The steps that write rows. *)

\* One handler's rows become durable; what the others reserved is left to them.
LEMMA WritingStep ==
  ASSUME IInv, TypeOK', NEW r \in Requests, NEW w \in Written,
         pc' = [pc EXCEPT ![r] = w],
         \A q \in Requests : q # r => local'[q] = local[q],
         UNCHANGED redis, held' = held \/ ReleaseLocks(r),
         RowsGrow,
         \A u \in Accounts : u # r /\ Exists(u)' => Exists(u),
         \A t \in Tokens : t # r /\ Issued(t)' => Issued(t),
         \A l \in Callbacks : l # r /\ Linked(l)' => Linked(l),
         \A q \in Requests : q # r /\ ReservesEmail(q) => OwnersOf(local[q].email)' = {},
         \A q \in Requests : q # r /\ ReservesSubject(q) => LinksOf(Subject(q))' = {},
         \A v \in Verifications : v # r /\ pc[v] \in {"markVerified", "commit"} =>
            ~vtokens'[local[v].token].consumed,
         Knows(r)',
         StoredNormalized', OneOwner', BornComplete', VerifiedForAReason', LinkedOnlyIfVouched'
  PROVE  IInv'
<1>1. LocksOf(r)
  BY DEF LocksOf
<1>2. ExclusiveKeys'
  BY <1>1, LocksStep DEF IInv
<1>3. \A q \in Requests : q # r => pc'[q] = pc[q] /\ local'[q] = local[q]
  BY DEF IInv, TypeOK
<1>4. ASSUME NEW q \in Requests, q # r PROVE Knows(q)'
  <2>1. \A key \in Keys : <<q, key>> \in held => <<q, key>> \in held'
    BY <1>1, <1>4, LocksStep DEF IInv
  <2>2. ReservesEmail(q) => ReservesEmail(q)'
    <3> SUFFICES ASSUME ReservesEmail(q) PROVE ReservesEmail(q)'
      OBVIOUS
    <3>1. local'[q] = local[q] /\ OwnersOf(local[q].email)' = {}
      BY <1>3, <1>4
    <3>2. <<q, <<"email", local[q].email>>>> \in held'
      BY <1>4 DEF ReservesEmail, ReleaseLocks
    <3> QED BY <3>1, <3>2 DEF ReservesEmail, OwnersOf
  <2>3. ReservesSubject(q) => ReservesSubject(q)'
    <3> SUFFICES ASSUME ReservesSubject(q) PROVE ReservesSubject(q)'
      OBVIOUS
    <3>1. local'[q] = local[q] /\ LinksOf(Subject(q))' = {}
      BY <1>3, <1>4
    <3>2. <<q, <<"subject", Subject(q)>>>> \in held'
      BY <1>4 DEF ReservesSubject, ReleaseLocks
    <3> QED BY <3>1, <3>2 DEF ReservesSubject, LinksOf, Subject
  <2> QED BY <1>3, <1>4, <2>1, <2>2, <2>3, StillKnows DEF IInv, HandlersKnow, RowsAreRight
<1>5. CreatedAtCommit'
  BY <1>3 DEF IInv, TypeOK, RowsAreRight, CreatedAtCommit, Accounts, Tokens, Requests
<1>6. MailedTokensWork'
  BY DEF IInv, TypeOK, TokenRow, RowsAreRight, MailedTokensWork, BornComplete, RowsGrow, redis,
         Issued
<1> QED BY <1>2, <1>4, <1>5, <1>6 DEF IInv, HandlersKnow, RowsAreRight

\* The row of a new account.
LEMMA NewUserRow ==
  ASSUME NEW e \in Address, NEW at \in Nat \cup {None}
  PROVE  /\ NewUser(e, at) \in UserRow
         /\ NewUser(e, at) # None
         /\ NewUser(e, at).email = e
         /\ NewUser(e, at).verifiedAt = at
         /\ NewUser(e, at).vouched <=> at # None
<1>1. (at # None) \in BOOLEAN
  OBVIOUS
<1>2. NewUser(e, at) \in UserRow
  BY <1>1 DEF NewUser, UserRow, Statuses
<1>3. NewUser(e, at) # None
  BY <1>2, AccountNoneAssumption
<1>4. NewUser(e, at).vouched = (at # None)
  BY Zenon DEF NewUser
<1> QED BY <1>2, <1>3, <1>4 DEF NewUser

\* A new account: its address was reserved and had no row, so it stays its mailbox's
\* only one, and nobody else's reservation is touched.
LEMMA NewAccountRow ==
  ASSUME IInv, NEW r \in Accounts, r \in Requests, pc[r] \notin Written,
         local[r].email \in Address, local[r].email.normal, ReservesEmail(r),
         NEW at \in Nat \cup {None},
         users' = [users EXCEPT ![r] = NewUser(local[r].email, at)],
         \A q \in Requests : q # r => local'[q] = local[q]
  PROVE  /\ users[r] = None
         /\ users' \in [Accounts -> UserRow \cup {None}]
         /\ Exists(r)'
         /\ \A u \in Accounts : u # r => users'[u] = users[u]
         /\ users'[r] = NewUser(local[r].email, at)
         /\ StoredNormalized'
         /\ \A u, w \in Accounts :
               Exists(u)' /\ Exists(w)' /\ users'[u].email.mailbox = users'[w].email.mailbox
                  => u = w
         /\ \A q \in Requests : q # r /\ ReservesEmail(q) => OwnersOf(local[q].email)' = {}
<1> DEFINE e == local[r].email
<1>1. users[r] = None
  BY DEF IInv, RowsAreRight, CreatedAtCommit, Exists
<1>2. NewUser(e, at) \in UserRow /\ NewUser(e, at).email = e /\ NewUser(e, at) # None
  BY NewUserRow
<1>3. /\ users' \in [Accounts -> UserRow \cup {None}]
      /\ users'[r] = NewUser(e, at)
      /\ \A u \in Accounts : u # r => users'[u] = users[u]
  BY <1>2 DEF IInv, TypeOK
<1>4. Exists(r)'
  BY <1>2, <1>3 DEF Exists
<1>5. StoredNormalized'
  BY <1>2, <1>3 DEF IInv, RowsAreRight, StoredNormalized, Exists
<1>6. ASSUME NEW u \in Accounts, u # r, Exists(u), users[u].email.mailbox = e.mailbox
      PROVE  FALSE
  <2>1. users[u].email \in Address /\ users[u].email.normal
    BY <1>6 DEF IInv, TypeOK, UserRow, Exists, RowsAreRight, StoredNormalized
  <2>2. users[u].email = e
    BY <1>6, <2>1 DEF Address
  <2> QED BY <1>6, <2>2 DEF ReservesEmail, OwnersOf, Exists
<1>7. ASSUME NEW u \in Accounts, NEW w \in Accounts, Exists(u)', Exists(w)',
             users'[u].email.mailbox = users'[w].email.mailbox
      PROVE  u = w
  BY <1>2, <1>3, <1>6, <1>7 DEF IInv, RowsAreRight, OneOwner, Exists
<1>8. ASSUME NEW q \in Requests, q # r, ReservesEmail(q)
      PROVE  OwnersOf(local[q].email)' = {}
  <2>1. local[q].email # e
    BY <1>8 DEF ReservesEmail, IInv, ExclusiveKeys
  <2>2. local'[q] = local[q]
    BY <1>8
  <2> QED BY <1>2, <1>3, <1>8, <2>1, <2>2 DEF ReservesEmail, OwnersOf
<1> QED BY <1>1, <1>3, <1>4, <1>5, <1>7, <1>8

\* A new token, unconsumed, of an account that exists.
LEMMA NewTokenRow ==
  ASSUME IInv, NEW r \in Tokens, pc[r] \notin Written, NEW u \in Accounts, NEW at \in Nat,
         vtokens' = [vtokens EXCEPT ![r] = NewToken(u, at)]
  PROVE  /\ vtokens[r] = None
         /\ vtokens' \in [Tokens -> TokenRow \cup {None}]
         /\ Issued(r)'
         /\ vtokens'[r].user = u /\ ~vtokens'[r].consumed
         /\ \A t \in Tokens : t # r => vtokens'[t] = vtokens[t]
<1>1. vtokens[r] = None
  BY DEF IInv, RowsAreRight, CreatedAtCommit, Issued
<1>2. /\ NewToken(u, at) \in TokenRow /\ NewToken(u, at) # None
      /\ NewToken(u, at).user = u /\ ~NewToken(u, at).consumed
  <2>1. NewToken(u, at) \in TokenRow
    BY AccountsAssumption DEF NewToken, TokenRow
  <2>2. NewToken(u, at) # None
    BY <2>1, AccountNoneAssumption
  <2> QED BY <2>1, <2>2 DEF NewToken
<1>3. /\ vtokens' \in [Tokens -> TokenRow \cup {None}]
      /\ vtokens'[r] = NewToken(u, at)
      /\ \A t \in Tokens : t # r => vtokens'[t] = vtokens[t]
  BY <1>2 DEF IInv, TypeOK
<1> QED BY <1>1, <1>2, <1>3 DEF Issued

\* The account and its token appear together.
LEMMA CommitAccountStep ==
  ASSUME IInv, NEW r \in Registrations, NEW w \in {"storeRaw", "error"}, CommitAccount(r, w)
  PROVE  IInv'
<1>0. /\ r \in Requests /\ r \notin Verifications /\ r \notin Resends /\ r \notin Callbacks
      /\ local[r] \in Local /\ RegistrationKnows(r) /\ r \in Accounts /\ r \in Tokens
  BY Kinds DEF Requests, IInv, TypeOK, HandlersKnow, Knows, Accounts, Tokens
<1>1. /\ pc[r] = "commit" /\ Running(r) /\ pc[r] \notin Written /\ w \in Written /\ w \in PCs
      /\ users' = [users EXCEPT ![r] = NewUser(local[r].email, None)]
      /\ vtokens' = [vtokens EXCEPT ![r] = NewToken(r, local[r].now)]
      /\ ReleaseLocks(r) /\ UNCHANGED <<clock, links, cache, mailed, states>>
  BY DEF CommitAccount, Running, Answers, Written, PCs, redis
<1>2. /\ local[r].email \in Address /\ local[r].email.normal /\ ReservesEmail(r)
      /\ local[r].token = r
  BY <1>0, <1>1 DEF RegistrationKnows
<1>3. /\ pc' = [pc EXCEPT ![r] = w] /\ local' \in [Requests -> Local]
      /\ \A q \in Requests : q # r => local'[q] = local[q]
      /\ w = "storeRaw" => local'[r] = local[r]
  BY <1>0, NothingIsLocal DEF CommitAccount, Goto, Continue, IInv, TypeOK, Answers
<1>4. /\ users[r] = None
      /\ users' \in [Accounts -> UserRow \cup {None}]
      /\ Exists(r)'
      /\ \A u \in Accounts : u # r => users'[u] = users[u]
      /\ users'[r] = NewUser(local[r].email, None)
      /\ StoredNormalized'
      /\ \A u, v \in Accounts :
            Exists(u)' /\ Exists(v)' /\ users'[u].email.mailbox = users'[v].email.mailbox
               => u = v
      /\ \A q \in Requests : q # r /\ ReservesEmail(q) => OwnersOf(local[q].email)' = {}
  BY <1>0, <1>1, <1>2, <1>3, NewAccountRow
<1>5. /\ vtokens[r] = None
      /\ vtokens' \in [Tokens -> TokenRow \cup {None}]
      /\ Issued(r)'
      /\ vtokens'[r].user = r /\ ~vtokens'[r].consumed
      /\ \A t \in Tokens : t # r => vtokens'[t] = vtokens[t]
  BY <1>0, <1>1, NewTokenRow DEF Local
<1>6. TypeOK'
  BY <1>0, <1>1, <1>3, <1>4, <1>5 DEF IInv, TypeOK, ReleaseLocks
<1>7. RowsGrow
  BY <1>4, <1>5 DEF RowsGrow, Exists, Issued
<1>8. /\ \A u \in Accounts : u # r /\ Exists(u)' => Exists(u)
      /\ \A t \in Tokens : t # r /\ Issued(t)' => Issued(t)
      /\ \A l \in Callbacks : l # r /\ Linked(l)' => Linked(l)
  BY <1>1, <1>4, <1>5 DEF Exists, Issued, Linked
<1>9. \A q \in Requests : q # r /\ ReservesSubject(q) => LinksOf(Subject(q))' = {}
  BY <1>1, <1>3 DEF ReservesSubject, LinksOf, Subject
<1>10. \A v \in Verifications : v # r /\ pc[v] \in {"markVerified", "commit"} =>
          ~vtokens'[local[v].token].consumed
  BY <1>5 DEF IInv, HandlersKnow, Knows, VerificationKnows, Running, Answers, Issued, Requests
<1>11. Knows(r)'
  <2>1. pc'[r] = w
    BY <1>0, <1>3 DEF IInv, TypeOK
  <2>2. w = "storeRaw" => SendsToOwner(r)'
    BY <1>0, <1>2, <1>3, <1>4, <1>5 DEF SendsToOwner, NewUser
  <2> QED BY <1>0, <1>2, <1>3, <2>1, <2>2 DEF Knows, RegistrationKnows, Running, Answers, SendsToOwner
<1>12. OneOwner' /\ BornComplete' /\ LinkedOnlyIfVouched'
  <2>1. OneOwner'
    BY <1>1, <1>4 DEF IInv, RowsAreRight, OneOwner, Linked
  <2>2. BornComplete'
    BY <1>0, <1>1, <1>4, <1>5, <1>7, <1>8 DEF IInv, RowsAreRight, BornComplete, RowsGrow,
         Exists, Issued, Linked
  <2>3. LinkedOnlyIfVouched'
    BY <1>1, <1>4, <1>7 DEF IInv, RowsAreRight, LinkedOnlyIfVouched, RowsGrow, Linked, TypeOK,
         LinkRow
  <2> QED BY <2>1, <2>2, <2>3
<1>13. VerifiedForAReason'
  <2>1. \A t \in Tokens : Issued(t) => vtokens[t].user \in Accounts /\ vtokens[t].user # r
    BY <1>4 DEF IInv, TypeOK, TokenRow, RowsAreRight, BornComplete, Exists, Issued
  <2>2. users'[r].verifiedAt = None /\ ~users'[r].vouched
    <3>1. None \in Nat \cup {None}
      OBVIOUS
    <3>2. /\ NewUser(local[r].email, None).verifiedAt = None
          /\ NewUser(local[r].email, None).vouched <=> None # None
      BY <1>2, <3>1, NewUserRow
    <3> QED BY <1>4, <3>2
  <2>3. \A v \in Verifications : pc'[v] # "panic"
    BY <1>0, <1>3 DEF IInv, TypeOK, RowsAreRight, VerifiedForAReason, Requests
  <2>4. ASSUME NEW u \in Accounts, Exists(u)'
        PROVE  users'[u].verifiedAt # None
                 <=> \/ \E t \in Tokens : Issued(t)' /\ vtokens'[t].user = u /\ vtokens'[t].consumed
                     \/ users'[u].vouched
    <3>1. CASE u = r
      BY <1>5, <2>1, <2>2, <3>1 DEF Issued
    <3>2. CASE u # r
      BY <1>4, <1>5, <2>4, <3>2 DEF IInv, RowsAreRight, VerifiedForAReason, Exists, Issued
    <3> QED BY <3>1, <3>2
  <2> QED BY <2>3, <2>4 DEF VerifiedForAReason
<1> QED BY <1>0, <1>1, <1>3, <1>4, <1>6, <1>7, <1>8, <1>9, <1>10, <1>11, <1>12, <1>13,
           WritingStep DEF redis

\* The token is used up in the step that verifies its account.
LEMMA CommitVerifiedStep ==
  ASSUME IInv, NEW v \in Verifications, NEW w \in {"ok", "error"}, CommitVerified(v, w)
  PROVE  IInv'
<1> DEFINE t == local[v].token
           a == local[v].user
<1>0. /\ v \in Requests /\ v \notin Registrations /\ v \notin Resends /\ v \notin Callbacks
      /\ v \notin Accounts /\ v \notin Tokens
      /\ local[v] \in Local /\ VerificationKnows(v)
  BY Kinds DEF Requests, IInv, TypeOK, HandlersKnow, Knows, Accounts, Tokens
<1>1. /\ pc[v] = "commit" /\ Running(v) /\ w \in Answers /\ w \in Written /\ w \in PCs /\ w # "panic"
      /\ vtokens' = [vtokens EXCEPT ![t].consumed = TRUE]
      /\ users' = [users EXCEPT ![a].verifiedAt = local[v].now, ![a].status = local[v].status]
      /\ ReleaseLocks(v) /\ UNCHANGED <<clock, links, cache, mailed, states>>
  BY DEF CommitVerified, Running, Answers, Written, PCs, redis
<1>2. /\ t \in Tokens /\ Issued(t) /\ a = vtokens[t].user /\ local[v].status \in Statuses
      /\ <<v, <<"token", t>>>> \in held /\ ~vtokens[t].consumed /\ local[v].now \in Nat
  BY <1>0, <1>1 DEF VerificationKnows, Local
<1>3. /\ pc' = [pc EXCEPT ![v] = w] /\ local' \in [Requests -> Local]
      /\ \A q \in Requests : q # v => local'[q] = local[q]
  BY <1>0, NothingIsLocal DEF CommitVerified, Goto, Continue, IInv, TypeOK
<1>4. a \in Accounts /\ Exists(a) /\ users[a] \in UserRow /\ vtokens[t] \in TokenRow
  BY <1>2 DEF IInv, TypeOK, TokenRow, Issued, Exists, RowsAreRight, BornComplete
<1>5. /\ users' \in [Accounts -> UserRow \cup {None}]
      /\ \A u \in Accounts : u # a => users'[u] = users[u]
      /\ users'[a].verifiedAt = local[v].now
      /\ \A u \in Accounts : Exists(u) => /\ users'[u].email = users[u].email
                                          /\ users'[u].vouched = users[u].vouched
  BY <1>1, <1>2, <1>4 DEF IInv, TypeOK, UserRow
<1>6. /\ vtokens' \in [Tokens -> TokenRow \cup {None}]
      /\ \A o \in Tokens : o # t => vtokens'[o] = vtokens[o]
      /\ vtokens'[t].consumed
      /\ \A o \in Tokens : Issued(o) => vtokens'[o].user = vtokens[o].user
  BY <1>1, <1>2, <1>4 DEF IInv, TypeOK, TokenRow
<1>7. users'[a] \in UserRow /\ vtokens'[t] \in TokenRow /\ local[v].now # None
  <2>1. users'[a] \in UserRow /\ vtokens'[t] \in TokenRow
    BY <1>1, <1>2, <1>4 DEF IInv, TypeOK, UserRow, TokenRow
  <2> QED BY <1>2, <2>1, AccountNoneAssumption
<1>8. (\A u \in Accounts : Exists(u)' <=> Exists(u)) /\ (\A o \in Tokens : Issued(o)' <=> Issued(o))
  BY <1>2, <1>4, <1>5, <1>6, <1>7, AccountNoneAssumption DEF Exists, Issued
<1>9. TypeOK'
  BY <1>0, <1>1, <1>3, <1>5, <1>6 DEF IInv, TypeOK, ReleaseLocks
<1>10. RowsGrow
  BY <1>4, <1>5, <1>6, <1>7, <1>8 DEF RowsGrow
<1>11. \A l \in Callbacks : l # v /\ Linked(l)' => Linked(l)
  BY <1>1 DEF Linked
<1>12. \A q \in Requests : q # v /\ ReservesEmail(q) => OwnersOf(local[q].email)' = {}
  BY <1>3, <1>5, <1>8 DEF ReservesEmail, OwnersOf, Exists
<1>13. \A q \in Requests : q # v /\ ReservesSubject(q) => LinksOf(Subject(q))' = {}
  BY <1>1, <1>3 DEF ReservesSubject, LinksOf, Subject
<1>14. ASSUME NEW o \in Verifications, o # v, pc[o] \in {"markVerified", "commit"}
       PROVE  ~vtokens'[local[o].token].consumed
  <2>1. /\ <<o, <<"token", local[o].token>>>> \in held /\ ~vtokens[local[o].token].consumed
        /\ local[o].token \in Tokens
    BY <1>14 DEF IInv, HandlersKnow, Knows, VerificationKnows, Running, Answers, Requests
  <2>2. local[o].token # t
    BY <1>2, <1>14, <2>1 DEF IInv, ExclusiveKeys
  <2> QED BY <1>6, <2>1, <2>2
<1>15. Knows(v)'
  BY <1>0, <1>1, <1>3 DEF IInv, TypeOK, Knows, VerificationKnows, Running, Answers
<1>16. StoredNormalized' /\ OneOwner' /\ BornComplete' /\ LinkedOnlyIfVouched'
  <2>0. /\ StoredNormalized /\ OneOwner /\ BornComplete /\ LinkedOnlyIfVouched
        /\ links' = links /\ links \in [Callbacks -> LinkRow \cup {None}]
        /\ vtokens \in [Tokens -> TokenRow \cup {None}]
    BY <1>1 DEF IInv, TypeOK, RowsAreRight
  <2>1. \A l \in Callbacks : Linked(l)' <=> Linked(l)
    BY <2>0 DEF Linked
  <2>2. StoredNormalized'
    BY <1>5, <1>8, <2>0 DEF StoredNormalized
  <2>3. OneOwner'
    <3>1. \A u, o \in Accounts :
             Exists(u)' /\ Exists(o)' /\ users'[u].email.mailbox = users'[o].email.mailbox
                => u = o
      BY <1>5, <1>8, <2>0 DEF OneOwner
    <3>2. \A l, m \in Callbacks :
             Linked(l)' /\ Linked(m)' /\ links'[l].subject = links'[m].subject => l = m
      BY <2>0, <2>1 DEF OneOwner
    <3> QED BY <3>1, <3>2 DEF OneOwner
  <2>4. BornComplete'
    <3>1. ASSUME NEW u \in Accounts, Exists(u)'
          PROVE  /\ u \in Registrations => Issued(u)'
                 /\ u \in Callbacks => /\ Linked(u)' /\ links'[u].user = u
                                       /\ users'[u].vouched \/ Issued(u)'
      <4>1. Exists(u)
        BY <1>8, <3>1
      <4>2. /\ u \in Registrations => Issued(u) /\ u \in Tokens
            /\ u \in Callbacks => /\ Linked(u) /\ links[u].user = u /\ u \in Tokens
                                  /\ users[u].vouched \/ Issued(u)
        BY <2>0, <4>1 DEF BornComplete, Tokens
      <4> QED BY <1>5, <1>8, <2>0, <2>1, <4>1, <4>2
    <3>2. ASSUME NEW o \in Tokens, Issued(o)'
          PROVE  Exists(vtokens[o].user)'
      <4>1. Issued(o) /\ vtokens'[o].user = vtokens[o].user
        BY <1>6, <1>8, <3>2
      <4>2. vtokens[o].user \in Accounts /\ Exists(vtokens[o].user)
        BY <2>0, <4>1 DEF BornComplete, Issued, TokenRow
      <4> QED BY <1>8, <4>1, <4>2
    <3>3. \A o \in Tokens : Issued(o)' => vtokens'[o].user = vtokens[o].user
      BY <1>6, <1>8
    <3> QED BY <3>1, <3>2, <3>3 DEF BornComplete, Exists
  <2>5. LinkedOnlyIfVouched'
    <3>1. ASSUME NEW l \in Callbacks, Linked(l)'
          PROVE  LET u == links[l].user IN
                 /\ Exists(u)' /\ users'[u].email.mailbox = links'[l].email.mailbox
                 /\ u # l => links'[l].vouched /\ users'[u].verifiedAt # None
      <4>1. Linked(l) /\ links'[l] = links[l]
        BY <2>0, <2>1, <3>1
      <4>2. links[l].user \in Accounts
        BY <2>0, <4>1 DEF Linked, LinkRow
      <4>3. /\ Exists(links[l].user)
            /\ users[links[l].user].email.mailbox = links[l].email.mailbox
            /\ links[l].user # l => /\ links[l].vouched
                                    /\ users[links[l].user].verifiedAt # None
        BY <2>0, <4>1 DEF LinkedOnlyIfVouched
      <4> QED BY <1>10, <4>1, <4>2, <4>3 DEF RowsGrow
    <3> QED BY <2>0, <3>1 DEF LinkedOnlyIfVouched, Exists
  <2> QED BY <2>2, <2>3, <2>4, <2>5
<1>17. VerifiedForAReason'
  <2>1. \A o \in Verifications : pc'[o] # "panic"
    BY <1>0, <1>1, <1>3 DEF IInv, TypeOK, RowsAreRight, VerifiedForAReason, Requests
  <2>2. ASSUME NEW u \in Accounts, Exists(u)'
        PROVE  users'[u].verifiedAt # None
                 <=> \/ \E o \in Tokens : Issued(o)' /\ vtokens'[o].user = u /\ vtokens'[o].consumed
                     \/ users'[u].vouched
    <3>1. CASE u = a
      BY <1>2, <1>5, <1>6, <1>7, <1>8, <3>1
    <3>2. CASE u # a
      BY <1>2, <1>5, <1>6, <1>8, <2>2, <3>2 DEF IInv, RowsAreRight, VerifiedForAReason
    <3> QED BY <3>1, <3>2
  <2> QED BY <2>1, <2>2 DEF VerifiedForAReason
<1> QED BY <1>0, <1>1, <1>3, <1>8, <1>9, <1>10, <1>11, <1>12, <1>13, <1>14, <1>15, <1>16, <1>17,
           WritingStep DEF redis

\* A further token for an account that was found unverified.
LEMMA MintStep ==
  ASSUME IInv, NEW s \in Resends, NEW w \in {"storeRaw", "error"}, Mint(s, w)
  PROVE  IInv'
<1> DEFINE mine == [local[s] EXCEPT !.token = s]
           a == local[s].user
<1>0. /\ s \in Requests /\ s \notin Registrations /\ s \notin Verifications /\ s \notin Callbacks
      /\ s \notin Accounts /\ s \in Tokens /\ local[s] \in Local /\ ResendKnows(s)
  BY Kinds DEF Requests, IInv, TypeOK, HandlersKnow, Knows, Accounts, Tokens
<1>1. /\ pc[s] = "mint" /\ Running(s) /\ pc[s] \notin Written /\ w \in Written /\ w \in PCs
      /\ vtokens' = [vtokens EXCEPT ![s] = NewToken(a, clock)]
      /\ Continue(s, w, mine)
      /\ UNCHANGED <<clock, users, links, cache, mailed, states, held>>
  BY DEF Mint, Running, Answers, Written, PCs, redis
<1>2. /\ local[s].email \in Address /\ a \in Accounts /\ Exists(a)
      /\ users[a].email = local[s].email
  BY <1>0, <1>1 DEF ResendKnows
<1>3. /\ mine \in Local /\ mine.token = s /\ mine.email = local[s].email /\ mine.user = a
  BY <1>0 DEF Local
<1> HIDE DEF mine
<1>4. /\ pc' = [pc EXCEPT ![s] = w] /\ local' \in [Requests -> Local]
      /\ \A q \in Requests : q # s => local'[q] = local[q]
      /\ w = "storeRaw" => local'[s] = mine
  BY <1>0, <1>1, <1>3, NothingIsLocal DEF Continue, IInv, TypeOK, Answers
<1>5. /\ vtokens[s] = None
      /\ vtokens' \in [Tokens -> TokenRow \cup {None}]
      /\ Issued(s)'
      /\ vtokens'[s].user = a /\ ~vtokens'[s].consumed
      /\ \A t \in Tokens : t # s => vtokens'[t] = vtokens[t]
  BY <1>0, <1>1, <1>2, NewTokenRow DEF IInv, TypeOK
<1>6. TypeOK'
  BY <1>0, <1>1, <1>4, <1>5 DEF IInv, TypeOK
<1>7. RowsGrow
  BY <1>1, <1>5 DEF RowsGrow, Exists, Issued
<1>8. /\ \A u \in Accounts : Exists(u)' <=> Exists(u)
      /\ \A t \in Tokens : t # s /\ Issued(t)' => Issued(t)
      /\ \A l \in Callbacks : Linked(l)' <=> Linked(l)
  BY <1>1, <1>5 DEF Exists, Issued, Linked
<1>9. \A q \in Requests : q # s /\ ReservesEmail(q) => OwnersOf(local[q].email)' = {}
  BY <1>1, <1>4 DEF ReservesEmail, OwnersOf
<1>10. \A q \in Requests : q # s /\ ReservesSubject(q) => LinksOf(Subject(q))' = {}
  BY <1>1, <1>4 DEF ReservesSubject, LinksOf, Subject
<1>11. \A v \in Verifications : v # s /\ pc[v] \in {"markVerified", "commit"} =>
          ~vtokens'[local[v].token].consumed
  BY <1>5 DEF IInv, HandlersKnow, Knows, VerificationKnows, Running, Answers, Issued, Requests
<1>12. Knows(s)'
  <2>1. pc'[s] = w
    BY <1>0, <1>4 DEF IInv, TypeOK
  <2>2. w = "storeRaw" => SendsToOwner(s)'
    BY <1>0, <1>1, <1>2, <1>3, <1>4, <1>5 DEF SendsToOwner
  <2> QED BY <1>0, <1>2, <1>3, <1>4, <1>8, <1>1, <2>1, <2>2
          DEF Knows, ResendKnows, Running, Answers, SendsToOwner
<1>13. StoredNormalized' /\ OneOwner' /\ LinkedOnlyIfVouched'
  BY <1>1 DEF IInv, RowsAreRight, StoredNormalized, OneOwner, LinkedOnlyIfVouched, Exists, Linked
<1>14. BornComplete'
  <2>1. \A u \in Accounts : u \in Tokens
    BY DEF Tokens
  <2>2. ASSUME NEW u \in Accounts, Exists(u)'
        PROVE  /\ u \in Registrations => Issued(u)'
               /\ u \in Callbacks => /\ Linked(u)' /\ links'[u].user = u
                                     /\ users'[u].vouched \/ Issued(u)'
    BY <1>1, <1>7, <1>8, <2>1, <2>2 DEF IInv, RowsAreRight, BornComplete, RowsGrow
  <2>3. ASSUME NEW t \in Tokens, Issued(t)' PROVE Exists(vtokens[t].user)'
    BY <1>1, <1>2, <1>5, <1>8, <2>3 DEF IInv, RowsAreRight, BornComplete, Exists
  <2> QED BY <2>2, <2>3 DEF BornComplete
<1>15. VerifiedForAReason'
  <2>1. \A v \in Verifications : pc'[v] # "panic"
    BY <1>0, <1>4 DEF IInv, TypeOK, RowsAreRight, VerifiedForAReason, Requests
  <2> QED BY <1>1, <1>5, <2>1 DEF IInv, RowsAreRight, VerifiedForAReason, Exists, Issued
<1> QED BY <1>0, <1>1, <1>4, <1>6, <1>7, <1>8, <1>9, <1>10, <1>11, <1>12, <1>13, <1>14, <1>15,
           WritingStep DEF redis

\* A new link: its identity was reserved and had none.
LEMMA NewLinkRow ==
  ASSUME IInv, NEW c \in Callbacks, c \in Requests, pc[c] \notin Written,
         local[c].identity \in Identity, local[c].user \in Accounts, ReservesSubject(c),
         links' = [links EXCEPT ![c] = NewLink(c)],
         \A q \in Requests : q # c => local'[q] = local[q]
  PROVE  /\ links[c] = None
         /\ links' \in [Callbacks -> LinkRow \cup {None}]
         /\ Linked(c)'
         /\ \A l \in Callbacks : l # c => links'[l] = links[l]
         /\ links'[c].user = local[c].user
         /\ links'[c].email = local[c].identity.email
         /\ links'[c].vouched = local[c].identity.verified
         /\ \A l, m \in Callbacks :
               Linked(l)' /\ Linked(m)' /\ links'[l].subject = links'[m].subject => l = m
         /\ \A q \in Requests : q # c /\ ReservesSubject(q) => LinksOf(Subject(q))' = {}
<1>1. links[c] = None
  BY DEF IInv, RowsAreRight, CreatedAtCommit, Linked
<1>2. NewLink(c) \in LinkRow
  BY DEF NewLink, Subject, Identity, LinkRow
<1>3. NewLink(c) # None
  BY <1>2, AccountNoneAssumption
<1>4. /\ NewLink(c).subject = Subject(c) /\ NewLink(c).user = local[c].user
      /\ NewLink(c).email = local[c].identity.email
      /\ NewLink(c).vouched = local[c].identity.verified
  BY DEF NewLink
<1>5. /\ links' \in [Callbacks -> LinkRow \cup {None}]
      /\ links'[c] = NewLink(c)
      /\ \A l \in Callbacks : l # c => links'[l] = links[l]
  BY <1>2 DEF IInv, TypeOK
<1>6. \A l \in Callbacks : l # c /\ Linked(l) => links[l].subject # Subject(c)
  BY DEF ReservesSubject, LinksOf, Linked
<1>7. ASSUME NEW l \in Callbacks, NEW m \in Callbacks, Linked(l)', Linked(m)',
             links'[l].subject = links'[m].subject
      PROVE  l = m
  BY <1>4, <1>5, <1>6, <1>7 DEF IInv, RowsAreRight, OneOwner, Linked
<1>8. ASSUME NEW q \in Requests, q # c, ReservesSubject(q)
      PROVE  LinksOf(Subject(q))' = {}
  <2>1. Subject(q) # Subject(c)
    BY <1>8 DEF ReservesSubject, IInv, ExclusiveKeys
  <2>2. Subject(q)' = Subject(q)
    BY <1>8 DEF Subject
  <2> QED BY <1>4, <1>5, <1>8, <2>1, <2>2 DEF ReservesSubject, LinksOf
<1> QED BY <1>1, <1>3, <1>4, <1>5, <1>7, <1>8 DEF Linked

\* Case 2: the account, its link and the token it may owe appear together.
LEMMA CommitNewOAuthAccount ==
  ASSUME IInv, NEW c \in Callbacks, NEW w \in {"storeRaw", "issue", "canLogin", "error"},
         w = "storeRaw" => OwesToken(c),
         CommitLink(c, w), OpensAccount(c), ReservesEmail(c)
  PROVE  IInv'
<1> DEFINE at == VerifiedAt(c)
           e == local[c].email
<1>0. /\ c \in Requests /\ c \notin Registrations /\ c \notin Verifications /\ c \notin Resends
      /\ c \in Accounts /\ c \in Tokens /\ local[c] \in Local /\ CallbackKnows(c)
  BY Kinds DEF Requests, IInv, TypeOK, HandlersKnow, Knows, Accounts, Tokens
<1>1. /\ pc[c] = "commit" /\ pc[c] \notin Written /\ w \in Written /\ w \in PCs
      /\ links' = [links EXCEPT ![c] = NewLink(c)]
      /\ users' = [users EXCEPT ![c] = NewUser(e, at)]
      /\ vtokens' = IF OwesToken(c) THEN [vtokens EXCEPT ![c] = NewToken(c, local[c].now)]
                                    ELSE vtokens
      /\ ReleaseLocks(c) /\ UNCHANGED <<clock, cache, mailed, states>>
  BY DEF CommitLink, OpensAccount, NewAccount, Answers, Written, PCs, redis
<1>2. /\ local[c].identity \in Identity /\ ReservesSubject(c)
      /\ local[c].user = c
      /\ e \in Address /\ e.normal /\ e.mailbox = local[c].identity.email.mailbox
      /\ local[c].now \in Nat
      /\ local[c].identity.verified \in BOOLEAN
  <2>1. local[c].identity \in Identity /\ ReservesSubject(c)
    BY <1>0, <1>1 DEF CallbackKnows
  <2> QED BY <1>0, <2>1 DEF OpensAccount, NormalizeEmail, Identity, Address, Local
<1>3. /\ pc' = [pc EXCEPT ![c] = w] /\ local' \in [Requests -> Local]
      /\ \A q \in Requests : q # c => local'[q] = local[q]
      /\ w = "storeRaw" => local'[c] = local[c]
  BY <1>0, NothingIsLocal DEF CommitLink, Goto, Continue, IInv, TypeOK, Answers
<1>4. /\ at \in Nat \cup {None}
      /\ at # None <=> local[c].identity.verified
      /\ ~OwesToken(c) <=> local[c].identity.verified
  <2>1. c # None
    BY <1>0, AccountNoneAssumption
  <2>2. local[c].now # None
    BY <1>2, AccountNoneAssumption
  <2> QED BY <1>2, <2>1, <2>2 DEF VerifiedAt, OwesToken, OpensAccount
<1>5. /\ users[c] = None
      /\ users' \in [Accounts -> UserRow \cup {None}]
      /\ Exists(c)'
      /\ \A u \in Accounts : u # c => users'[u] = users[u]
      /\ users'[c] = NewUser(e, at)
      /\ StoredNormalized'
      /\ \A u, v \in Accounts :
            Exists(u)' /\ Exists(v)' /\ users'[u].email.mailbox = users'[v].email.mailbox
               => u = v
      /\ \A q \in Requests : q # c /\ ReservesEmail(q) => OwnersOf(local[q].email)' = {}
  <2> HIDE DEF at
  <2> QED BY <1>0, <1>1, <1>2, <1>3, <1>4, NewAccountRow
<1>6. /\ users'[c].email = e /\ users'[c].verifiedAt = at
      /\ users'[c].vouched <=> local[c].identity.verified
  <2> HIDE DEF at
  <2>1. /\ NewUser(e, at).email = e /\ NewUser(e, at).verifiedAt = at
        /\ NewUser(e, at).vouched <=> at # None
    BY <1>2, <1>4, NewUserRow
  <2> QED BY <1>4, <1>5, <2>1
<1>7. /\ vtokens[c] = None
      /\ vtokens' \in [Tokens -> TokenRow \cup {None}]
      /\ OwesToken(c) => Issued(c)' /\ vtokens'[c].user = c /\ ~vtokens'[c].consumed
      /\ ~OwesToken(c) => vtokens'[c] = None
      /\ \A t \in Tokens : t # c => vtokens'[t] = vtokens[t]
  <2>1. vtokens[c] = None
    BY <1>0, <1>1 DEF IInv, RowsAreRight, CreatedAtCommit, Issued
  <2>2. CASE OwesToken(c)
    BY <1>0, <1>1, <1>2, <2>2, NewTokenRow
  <2>3. CASE ~OwesToken(c)
    BY <1>1, <2>1, <2>3 DEF IInv, TypeOK
  <2> QED BY <2>1, <2>2, <2>3
<1>8. /\ links[c] = None
      /\ links' \in [Callbacks -> LinkRow \cup {None}]
      /\ Linked(c)'
      /\ \A l \in Callbacks : l # c => links'[l] = links[l]
      /\ links'[c].user = c
      /\ links'[c].email = local[c].identity.email
      /\ \A l, m \in Callbacks :
            Linked(l)' /\ Linked(m)' /\ links'[l].subject = links'[m].subject => l = m
      /\ \A q \in Requests : q # c /\ ReservesSubject(q) => LinksOf(Subject(q))' = {}
  <2>1. /\ local[c].identity \in Identity /\ local[c].user \in Accounts /\ local[c].user = c
        /\ ReservesSubject(c) /\ links' = [links EXCEPT ![c] = NewLink(c)]
        /\ \A q \in Requests : q # c => local'[q] = local[q]
    BY <1>0, <1>1, <1>2, <1>3 DEF Accounts
  <2> QED BY <1>0, <1>1, <2>1, NewLinkRow
<1>9. TypeOK'
  <2>1. /\ clock \in Nat /\ clock' = clock
        /\ cache \subseteq Tokens /\ cache' = cache
        /\ mailed \subseteq Tokens \X Address /\ mailed' = mailed
        /\ states \in [States -> {"unused", "stored", "gone"}] /\ states' = states
        /\ held \subseteq Requests \X Keys
        /\ pc \in [Requests -> PCs]
    BY <1>1 DEF IInv, TypeOK
  <2>2. held' \subseteq Requests \X Keys
    BY <1>1, <2>1 DEF ReleaseLocks
  <2>3. pc' \in [Requests -> PCs]
    BY <1>1, <1>3, <2>1
  <2>4. /\ users' \in [Accounts -> UserRow \cup {None}]
        /\ vtokens' \in [Tokens -> TokenRow \cup {None}]
        /\ links' \in [Callbacks -> LinkRow \cup {None}]
        /\ local' \in [Requests -> Local]
    BY <1>3, <1>5, <1>7, <1>8
  <2> QED BY <2>1, <2>2, <2>3, <2>4 DEF TypeOK
<1>10. RowsGrow
  BY <1>5, <1>7 DEF RowsGrow, Exists, Issued
<1>11. /\ \A u \in Accounts : u # c /\ Exists(u)' => Exists(u)
       /\ \A t \in Tokens : t # c /\ Issued(t)' => Issued(t)
       /\ \A l \in Callbacks : l # c /\ Linked(l)' => Linked(l)
  BY <1>5, <1>7, <1>8 DEF Exists, Issued, Linked
<1>12. \A v \in Verifications : v # c /\ pc[v] \in {"markVerified", "commit"} =>
          ~vtokens'[local[v].token].consumed
  BY <1>7 DEF IInv, HandlersKnow, Knows, VerificationKnows, Running, Answers, Issued, Requests
<1>13. Knows(c)'
  <2>1. pc'[c] = w
    BY <1>0, <1>3 DEF IInv, TypeOK
  <2>2. w = "storeRaw" => SendsToOwner(c)'
    BY <1>0, <1>3, <1>4, <1>6, <1>7 DEF SendsToOwner, OpensAccount
  <2> QED BY <1>0, <2>1, <2>2 DEF Knows, CallbackKnows, SendsToOwner
<1>14. OneOwner'
  BY <1>5, <1>8 DEF OneOwner
<1>15. BornComplete'
  <2>1. \A u \in Accounts : u \in Tokens
    BY DEF Tokens
  <2>2. ASSUME NEW u \in Accounts, Exists(u)'
        PROVE  /\ u \in Registrations => Issued(u)'
               /\ u \in Callbacks => /\ Linked(u)' /\ links'[u].user = u
                                     /\ users'[u].vouched \/ Issued(u)'
    <3>1. CASE u = c
      BY <1>0, <1>4, <1>6, <1>7, <1>8, <3>1
    <3>2. CASE u # c
      BY <1>5, <1>8, <1>10, <1>11, <2>1, <2>2, <3>2
         DEF IInv, RowsAreRight, BornComplete, RowsGrow, Linked
    <3> QED BY <3>1, <3>2
  <2>3. ASSUME NEW t \in Tokens, Issued(t)' PROVE Exists(vtokens[t].user)'
    <3>1. CASE t = c
      BY <1>5, <1>7, <2>3, <3>1 DEF Issued, Exists
    <3>2. CASE t # c
      <4>1. Issued(t) /\ vtokens[t].user \in Accounts
        BY <1>11, <2>3, <3>2 DEF IInv, TypeOK, TokenRow, Issued
      <4> QED BY <1>7, <1>10, <4>1, <3>2 DEF IInv, RowsAreRight, BornComplete, RowsGrow, Exists
    <3> QED BY <3>1, <3>2
  <2> QED BY <2>2, <2>3 DEF BornComplete
<1>16. LinkedOnlyIfVouched'
  <2> SUFFICES ASSUME NEW l \in Callbacks, Linked(l)'
               PROVE  LET u == links'[l].user IN
                      /\ users'[u] # None
                      /\ users'[u].email.mailbox = links'[l].email.mailbox
                      /\ u # l => links'[l].vouched /\ users'[u].verifiedAt # None
    BY DEF LinkedOnlyIfVouched, Exists
  <2>1. CASE l = c
    BY <1>2, <1>5, <1>6, <1>8, <2>1 DEF Exists
  <2>2. CASE l # c
    <3>1. Linked(l) /\ links[l].user \in Accounts
      BY <1>11, <2>2 DEF IInv, TypeOK, LinkRow, Linked
    <3>2. /\ Exists(links[l].user)
          /\ users[links[l].user].email.mailbox = links[l].email.mailbox
          /\ links[l].user # l => links[l].vouched /\ users[links[l].user].verifiedAt # None
      BY <3>1 DEF IInv, RowsAreRight, LinkedOnlyIfVouched
    <3> QED BY <1>8, <1>10, <2>2, <3>1, <3>2 DEF RowsGrow, Exists
  <2> QED BY <2>1, <2>2
<1>17. VerifiedForAReason'
  <2>1. \A t \in Tokens : Issued(t) => vtokens[t].user \in Accounts /\ vtokens[t].user # c
    BY <1>5 DEF IInv, TypeOK, TokenRow, RowsAreRight, BornComplete, Exists, Issued
  <2>2. \A v \in Verifications : pc'[v] # "panic"
    BY <1>0, <1>3 DEF IInv, TypeOK, RowsAreRight, VerifiedForAReason, Requests
  <2>3. ASSUME NEW u \in Accounts, Exists(u)'
        PROVE  users'[u].verifiedAt # None
                 <=> \/ \E t \in Tokens : Issued(t)' /\ vtokens'[t].user = u /\ vtokens'[t].consumed
                     \/ users'[u].vouched
    <3>1. CASE u = c
      <4>1. ~ \E t \in Tokens : Issued(t)' /\ vtokens'[t].user = c /\ vtokens'[t].consumed
        BY <1>7, <2>1 DEF Issued
      <4> QED BY <1>4, <1>6, <3>1, <4>1
    <3>2. CASE u # c
      BY <1>5, <1>7, <2>3, <3>2 DEF IInv, RowsAreRight, VerifiedForAReason, Exists, Issued
    <3> QED BY <3>1, <3>2
  <2> QED BY <2>2, <2>3 DEF VerifiedForAReason
<1> QED BY <1>0, <1>1, <1>3, <1>5, <1>8, <1>9, <1>10, <1>11, <1>12, <1>13, <1>14, <1>15, <1>16,
           <1>17, WritingStep DEF redis

\* Case 3: an account that was there gets a link.
LEMMA CommitLinkOnly ==
  ASSUME IInv, NEW c \in Callbacks, NEW w \in {"issue", "canLogin", "error"},
         CommitLink(c, w), JoinsAccount(c)
  PROVE  IInv'
<1> DEFINE a == local[c].user
<1>0. /\ c \in Requests /\ c \notin Registrations /\ c \notin Verifications /\ c \notin Resends
      /\ local[c] \in Local /\ CallbackKnows(c)
  BY Kinds DEF Requests, IInv, TypeOK, HandlersKnow, Knows
<1>1. /\ pc[c] = "commit" /\ pc[c] \notin Written /\ w \in Written /\ w \in PCs
      /\ links' = [links EXCEPT ![c] = NewLink(c)]
      /\ UNCHANGED <<clock, users, vtokens, cache, mailed, states>>
      /\ ReleaseLocks(c)
  BY DEF CommitLink, JoinsAccount, NewAccount, OwesToken, Answers, Written, PCs, redis
<1>2. local[c].identity \in Identity /\ ReservesSubject(c) /\ a \in Accounts
  BY <1>0, <1>1 DEF CallbackKnows, JoinsAccount
<1>3. /\ pc' = [pc EXCEPT ![c] = w] /\ local' \in [Requests -> Local]
      /\ \A q \in Requests : q # c => local'[q] = local[q]
  BY <1>0, NothingIsLocal DEF CommitLink, Goto, Continue, IInv, TypeOK, Answers
<1>4. /\ links[c] = None
      /\ links' \in [Callbacks -> LinkRow \cup {None}]
      /\ Linked(c)'
      /\ \A l \in Callbacks : l # c => links'[l] = links[l]
      /\ links'[c].user = a
      /\ links'[c].email = local[c].identity.email
      /\ links'[c].vouched = local[c].identity.verified
      /\ \A l, m \in Callbacks :
            Linked(l)' /\ Linked(m)' /\ links'[l].subject = links'[m].subject => l = m
      /\ \A q \in Requests : q # c /\ ReservesSubject(q) => LinksOf(Subject(q))' = {}
  BY <1>0, <1>1, <1>2, <1>3, NewLinkRow
<1>5. TypeOK'
  BY <1>0, <1>1, <1>3, <1>4 DEF IInv, TypeOK, ReleaseLocks
<1>6. RowsGrow
  BY <1>1 DEF RowsGrow, Exists, Issued
<1>7. /\ \A u \in Accounts : Exists(u)' <=> Exists(u)
      /\ \A t \in Tokens : Issued(t)' <=> Issued(t)
      /\ \A l \in Callbacks : l # c /\ Linked(l)' => Linked(l)
      /\ \A l \in Callbacks : Linked(l) => Linked(l)' /\ links'[l] = links[l]
  BY <1>1, <1>4 DEF Exists, Issued, Linked
<1>8. \A q \in Requests : q # c /\ ReservesEmail(q) => OwnersOf(local[q].email)' = {}
  BY <1>1, <1>3 DEF ReservesEmail, OwnersOf
<1>9. \A v \in Verifications : v # c /\ pc[v] \in {"markVerified", "commit"} =>
         ~vtokens'[local[v].token].consumed
  BY <1>1 DEF IInv, HandlersKnow, Knows, VerificationKnows, Requests
<1>10. Knows(c)'
  <2>1. pc'[c] = w
    BY <1>0, <1>3 DEF IInv, TypeOK
  <2> QED BY <1>0, <2>1 DEF Knows, CallbackKnows, SendsToOwner
<1>11. StoredNormalized' /\ OneOwner' /\ BornComplete'
  BY <1>1, <1>4, <1>7 DEF IInv, RowsAreRight, StoredNormalized, OneOwner, BornComplete, Exists, Issued
<1>12. LinkedOnlyIfVouched'
  <2> SUFFICES ASSUME NEW l \in Callbacks, Linked(l)'
               PROVE  LET u == links'[l].user IN
                      /\ users'[u] # None
                      /\ users'[u].email.mailbox = links'[l].email.mailbox
                      /\ u # l => links'[l].vouched /\ users'[u].verifiedAt # None
    BY DEF LinkedOnlyIfVouched, Exists
  <2>1. CASE l = c
    BY <1>1, <1>4, <2>1 DEF JoinsAccount, Exists
  <2>2. CASE l # c
    BY <1>1, <1>4, <1>7, <2>2 DEF IInv, RowsAreRight, LinkedOnlyIfVouched, Exists
  <2> QED BY <2>1, <2>2
<1>13. VerifiedForAReason'
  <2>1. \A v \in Verifications : pc'[v] # "panic"
    BY <1>0, <1>3 DEF IInv, TypeOK, RowsAreRight, VerifiedForAReason, Requests
  <2> QED BY <1>1, <2>1 DEF IInv, RowsAreRight, VerifiedForAReason, Exists, Issued
<1> QED BY <1>0, <1>1, <1>3, <1>4, <1>5, <1>6, <1>7, <1>8, <1>9, <1>10, <1>11, <1>12, <1>13,
           WritingStep DEF redis

\* The transaction of a callback, whichever case it is.
LEMMA CommitLinkStep ==
  ASSUME IInv, NEW c \in Callbacks, NEW w \in {"storeRaw", "issue", "canLogin", "error"},
         w = "storeRaw" => OwesToken(c), CommitLink(c, w)
  PROVE  IInv'
<1>1. CallbackKnows(c) /\ pc[c] = "commit"
  BY DEF IInv, HandlersKnow, Knows, Requests, CommitLink
<1>2. CASE OpensAccount(c) /\ ReservesEmail(c)
  BY <1>2, CommitNewOAuthAccount
<1>3. CASE JoinsAccount(c)
  <2>1. w # "storeRaw"
    BY <1>3 DEF JoinsAccount, OwesToken
  <2> QED BY <1>3, <2>1, CommitLinkOnly
<1> QED BY <1>1, <1>2, <1>3 DEF CallbackKnows

-----------------------------------------------------------------------------
(* Every step. *)

\* A step of any handler keeps the invariant.
LEMMA ProgressStep ==
  ASSUME IInv, NEW r \in Requests, Progress(r)
  PROVE  IInv'
<1>1. CASE r \in Registrations /\ RegisterStep(r)
  <2>1. r \in Requests /\ r \notin Verifications
    BY <1>1, Kinds
  <2> QED BY <1>1, <2>1, RegistrationStep, CommitAccountStep, StoreRawStep, MailStep
          DEF RegisterStep
<1>2. CASE r \in Verifications /\ VerifyStep(r)
  BY <1>2, VerificationStep, CommitVerifiedStep DEF VerifyStep
<1>3. CASE r \in Resends /\ ResendStep(r)
  <2>1. r \in Requests /\ r \notin Verifications
    BY <1>3, Kinds
  <2> QED BY <1>3, <2>1, ResendStepQuiet, MintStep, StoreRawStep, MailStep DEF ResendStep
<1>4. CASE r \in Callbacks /\ CallbackStep(r)
  <2>1. r \in Requests /\ r \notin Verifications
    BY <1>4, Kinds
  <2>2. CASE CommitLink(r, AfterCommit(r))
    <3>1. /\ AfterCommit(r) \in {"storeRaw", "issue", "canLogin", "error"}
          /\ AfterCommit(r) = "storeRaw" => OwesToken(r)
      BY DEF AfterCommit
    <3> HIDE DEF AfterCommit
    <3> QED BY <1>4, <2>2, <3>1, CommitLinkStep
  <2>3. CASE StoreRaw(r) \/ Mail(r, "issue")
    BY <1>4, <2>1, <2>3, StoreRawStep, MailStep
  <2>4. CASE ~(StoreRaw(r) \/ Mail(r, "issue") \/ CommitLink(r, AfterCommit(r)))
    BY <1>4, <2>4, CallbackReads, CallbackWrites DEF CallbackStep
  <2> QED BY <2>2, <2>3, <2>4
<1> QED BY <1>1, <1>2, <1>3, <1>4 DEF Progress

\* Every step keeps the invariant.
LEMMA NextStep ==
  ASSUME IInv, [Next]_vars
  PROVE  IInv'
<1>1. CASE Arrive
  BY <1>1, RegistrationStep, VerificationStep, ResendStepQuiet, StateStep DEF Arrive
<1>2. ASSUME NEW r \in Requests, Progress(r) PROVE IInv'
  BY <1>2, ProgressStep
<1>3. ASSUME NEW r \in Requests, Fail(r) PROVE IInv'
  BY <1>3, Returns DEF Fail, Answers
<1>4. ASSUME NEW r \in Requests, CommitUnanswered(r) PROVE IInv'
  BY <1>4, CommitAccountStep, CommitVerifiedStep, CommitLinkStep, MintStep DEF CommitUnanswered
<1>5. ASSUME NEW u \in Accounts, Suspend(u) PROVE IInv'
  BY <1>5, SuspendStep
<1>6. CASE \/ \E x \in States : Start(x) \/ ExpireState(x)
           \/ \E t \in Tokens : Evict(t)
           \/ Tick \/ AllAnswered \/ UNCHANGED vars
  BY <1>6, EnvironmentStep DEF AllAnswered
<1> QED BY <1>1, <1>2, <1>3, <1>4, <1>5, <1>6 DEF Next

-----------------------------------------------------------------------------
(* The theorems. *)

\* What handlers remember, what they keep reserved and the rows fit together at every
\* step, whoever runs concurrently and whatever fails.
THEOREM Invariance == Spec => []IInv
  BY InitIInv, NextStep, PTL DEF Spec

\* Rows, stores and handlers have their types in every reachable state.
THEOREM TypeCorrectness == Spec => []TypeOK
<1>1. IInv => TypeOK
  BY DEF IInv
<1> QED BY <1>1, Invariance, PTL

\* Whichever of its spellings that NormalizeEmail takes for one address is used, and
\* whoever registers it at the same time, a mailbox has one account and an identity one link.
THEOREM MailboxesHaveOneAccount == Spec => []OneOwner
<1>1. IInv => OneOwner
  BY DEF IInv, RowsAreRight
<1> QED BY <1>1, Invariance, PTL

\* No account without the token or the link of its transaction, whatever fails.
THEOREM AccountsAreBornComplete == Spec => []BornComplete
<1>1. IInv => BornComplete
  BY DEF IInv, RowsAreRight
<1> QED BY <1>1, Invariance, PTL

\* An account is verified exactly if a token of it was consumed or the provider vouched
\* for it, and the second look of a verification that lost a race finds the time.
THEOREM VerificationsHaveReasons == Spec => []VerifiedForAReason
<1>1. IInv => VerifiedForAReason
  BY DEF IInv, RowsAreRight
<1> QED BY <1>1, Invariance, PTL

\* ADR 0001 holds although the account is read before the transaction that links it.
THEOREM LinksAreVouchedFor == Spec => []LinkedOnlyIfVouched
<1>1. IInv => LinkedOnlyIfVouched
  BY DEF IInv, RowsAreRight
<1> QED BY <1>1, Invariance, PTL

\* Every token that was sent exists, and went to the address of its account.
THEOREM SentTokensWork == Spec => []MailedTokensWork
<1>1. IInv => MailedTokensWork
  BY DEF IInv, RowsAreRight
<1> QED BY <1>1, Invariance, PTL

-----------------------------------------------------------------------------
(* One exchange per state. *)

Begun == {c \in Callbacks : pc[c] \notin {"idle", "noState"}}
Spent == {x \in States : states[x] = "gone"}

\* Both are finite, since either grows by one at a time.
ExchangesCounted ==
    /\ IsFiniteSet(Begun) /\ IsFiniteSet(Spent)
    /\ Cardinality(Begun) <= Cardinality(Spent)

\* A callback begins in the step that spends a state, and in no other.
LEMMA OnlyAStateBegins ==
  ASSUME TypeOK, [Next]_vars
  PROVE  \/ Begun' \subseteq Begun /\ Spent' = Spent
         \/ \E x \in States :
               Begun' \subseteq Begun /\ Spent \subseteq Spent' /\ Spent' \subseteq Spent \cup {x}
         \/ \E c \in Callbacks, x \in States :
               Begun' \subseteq Begun \cup {c} /\ x \notin Spent /\ Spent' = Spent \cup {x}
<1> DEFINE Settled == Begun' \subseteq Begun
<1>1. ASSUME NEW r \in Requests, NEW w, NEW mine, Continue(r, w, mine),
             pc[r] \notin {"idle", "noState"} \/ r \notin Callbacks \/ w \in {"idle", "noState"}
      PROVE  Settled
  BY <1>1 DEF Continue, Begun, TypeOK
<1>s. UNCHANGED states => Spent' = Spent
  BY DEF Spent
<1>2. ASSUME NEW c \in Callbacks, NEW x \in States, ConsumeState(c, x) \/ LoseState(c, x)
      PROVE  Begun' \subseteq Begun \cup {c} /\ x \notin Spent /\ Spent' = Spent \cup {x}
  <2>1. states[x] = "stored" /\ states' = [states EXCEPT ![x] = "gone"]
    BY <1>2 DEF ConsumeState, LoseState
  <2>2. x \notin Spent /\ Spent' = Spent \cup {x}
    BY <2>1 DEF Spent, TypeOK
  <2>3. PICK w : Goto(c, w)
    BY <1>2 DEF ConsumeState, LoseState
  <2>4. Begun' \subseteq Begun \cup {c}
    BY <2>3 DEF Goto, Continue, Begun, TypeOK
  <2> QED BY <2>2, <2>4
<1>3. ASSUME NEW x \in States, Start(x) \/ ExpireState(x)
      PROVE  Settled /\ Spent \subseteq Spent' /\ Spent' \subseteq Spent \cup {x}
  BY <1>3 DEF Start, ExpireState, Begun, Spent, TypeOK
<1>4. ASSUME NEW r \in Registrations,
             (\E email \in Address : Register(r, email)) \/ RegisterStep(r)
                \/ \E w : CommitAccount(r, w)
      PROVE  Settled /\ UNCHANGED states
  <2>1. r \in Requests /\ r \notin Callbacks
    BY Kinds DEF Requests
  <2>2. (\E w, mine : Continue(r, w, mine)) /\ UNCHANGED states
    BY <1>4 DEF Register, RegisterStep, FindDuplicate, CreateUser, InsertUser, InsertToken,
         CommitAccount, StoreRaw, Mail, Learn, Take, GiveUp, Goto, redis
  <2> QED BY <1>1, <2>1, <2>2
<1>5. ASSUME NEW v \in Verifications,
             UnknownToken(v) \/ (\E t \in Tokens : PresentToken(v, t)) \/ VerifyStep(v)
                \/ \E w : CommitVerified(v, w)
      PROVE  Settled /\ UNCHANGED states
  <2>1. v \in Requests /\ v \notin Callbacks
    BY Kinds DEF Requests
  <2>2. (\E w, mine : Continue(v, w, mine)) /\ UNCHANGED states
    BY <1>5 DEF UnknownToken, PresentToken, VerifyStep, ReadAccount, Consume, MarkVerified,
         CommitVerified, Reread, Learn, Take, GiveUp, Goto, redis
  <2> QED BY <1>1, <2>1, <2>2
<1>6. ASSUME NEW s \in Resends,
             (\E email \in Address : AskResend(s, email)) \/ ResendStep(s) \/ \E w : Mint(s, w)
      PROVE  Settled /\ UNCHANGED states
  <2>1. s \in Requests /\ s \notin Callbacks
    BY Kinds DEF Requests
  <2>2. (\E w, mine : Continue(s, w, mine)) /\ UNCHANGED states
    BY <1>6 DEF AskResend, ResendStep, NothingToResend, FindUnverified, FindActive, NoneActive,
         ReadCache, Mint, StoreRaw, Mail, Learn, GiveUp, Goto, redis
  <2> QED BY <1>1, <2>1, <2>2
<1>7. ASSUME NEW c \in Callbacks, RejectState(c)
      PROVE  Settled /\ UNCHANGED states
  BY <1>1, <1>7 DEF RejectState, GiveUp, Goto, redis, Requests
<1>8. ASSUME NEW c \in Callbacks, CallbackStep(c) \/ \E w : CommitLink(c, w)
      PROVE  Settled /\ UNCHANGED states
  <2>1. c \in Requests
    BY DEF Requests
  <2>2. (\E w, mine : Continue(c, w, mine)) /\ UNCHANGED states /\ pc[c] \notin {"idle", "noState"}
    BY <1>8 DEF CallbackStep, Exchange, FindLink, FindNoLink, ReadLinkedAccount, FindOwner,
         FindNoOwner, CreateOAuthUser, InsertUser, CreateLink, InsertToken, CommitLink, StoreRaw,
         Mail, CanLogin, Issue, Learn, Take, GiveUp, Goto, redis
  <2> QED BY <1>1, <2>1, <2>2
<1>9. ASSUME NEW r \in Requests, Fail(r)
      PROVE  Settled /\ UNCHANGED states
  BY <1>1, <1>9 DEF Fail, Running, Answers, GiveUp, Goto, redis
<1>10. ASSUME UNCHANGED <<pc, states>> PROVE Settled /\ UNCHANGED states
  BY <1>10 DEF Begun
<1>11. CASE Arrive
  BY <1>2, <1>4, <1>5, <1>6, <1>7, <1>11, <1>s DEF Arrive
<1>12. ASSUME NEW r \in Requests, Progress(r) \/ Fail(r) \/ CommitUnanswered(r)
       PROVE  Settled /\ UNCHANGED states
  BY <1>4, <1>5, <1>6, <1>8, <1>9, <1>12 DEF Progress, CommitUnanswered
<1>13. CASE \/ \E t \in Tokens : Evict(t)
            \/ \E u \in Accounts : Suspend(u)
            \/ Tick \/ AllAnswered \/ UNCHANGED vars
  BY <1>10, <1>13, <1>s DEF Evict, Suspend, Tick, AllAnswered, vars, redis
<1> QED BY <1>3, <1>11, <1>12, <1>13, <1>s DEF Next

\* A state lets one callback through, for any number of either.
THEOREM StatesAreSpentOnce == Spec => []OneExchangePerState
<1>1. Init => ExchangesCounted
  <2> SUFFICES ASSUME Init PROVE ExchangesCounted
    OBVIOUS
  <2>1. Begun = {} /\ Spent = {}
    BY DEF Init, Begun, Spent, Requests
  <2> QED BY <2>1, FS_EmptySet DEF ExchangesCounted
<1>2. TypeOK /\ ExchangesCounted /\ [Next]_vars => ExchangesCounted'
  <2> SUFFICES ASSUME TypeOK, ExchangesCounted, [Next]_vars PROVE ExchangesCounted'
    OBVIOUS
  <2>1. /\ IsFiniteSet(Begun) /\ IsFiniteSet(Spent)
        /\ Cardinality(Begun) \in Nat /\ Cardinality(Spent) \in Nat
        /\ Cardinality(Begun) <= Cardinality(Spent)
    BY FS_CardinalityType DEF ExchangesCounted
  <2>2. CASE Begun' \subseteq Begun /\ Spent' = Spent
    <3>1. /\ IsFiniteSet(Begun') /\ Cardinality(Begun') <= Cardinality(Begun)
          /\ Cardinality(Begun') \in Nat
      BY <2>1, <2>2, FS_Subset, FS_CardinalityType
    <3> QED BY <2>1, <2>2, <3>1 DEF ExchangesCounted
  <2>3. ASSUME NEW x \in States,
               Begun' \subseteq Begun, Spent \subseteq Spent', Spent' \subseteq Spent \cup {x}
        PROVE  ExchangesCounted'
    <3>1. /\ IsFiniteSet(Begun') /\ Cardinality(Begun') <= Cardinality(Begun)
          /\ Cardinality(Begun') \in Nat
      BY <2>1, <2>3, FS_Subset, FS_CardinalityType
    <3>2. IsFiniteSet(Spent')
      BY <2>1, <2>3, FS_AddElement, FS_Subset
    <3>3. Cardinality(Spent) <= Cardinality(Spent') /\ Cardinality(Spent') \in Nat
      BY <2>3, <3>2, FS_Subset, FS_CardinalityType
    <3> QED BY <2>1, <3>1, <3>2, <3>3 DEF ExchangesCounted
  <2>4. ASSUME NEW c \in Callbacks, NEW x \in States,
               Begun' \subseteq Begun \cup {c}, x \notin Spent, Spent' = Spent \cup {x}
        PROVE  ExchangesCounted'
    <3>1. /\ IsFiniteSet(Begun \cup {c}) /\ Cardinality(Begun \cup {c}) \in Nat
          /\ Cardinality(Begun \cup {c}) <= Cardinality(Begun) + 1
      <4>1. /\ IsFiniteSet(Begun \cup {c})
            /\ Cardinality(Begun \cup {c}) =
                  IF c \in Begun THEN Cardinality(Begun) ELSE Cardinality(Begun) + 1
        BY <2>1, FS_AddElement
      <4> QED BY <2>1, <4>1
    <3>2. /\ IsFiniteSet(Begun') /\ Cardinality(Begun') \in Nat
          /\ Cardinality(Begun') <= Cardinality(Begun \cup {c})
      BY <2>4, <3>1, FS_Subset, FS_CardinalityType
    <3>3. IsFiniteSet(Spent') /\ Cardinality(Spent') = Cardinality(Spent) + 1
      BY <2>1, <2>4, FS_AddElement
    <3> QED BY <2>1, <3>1, <3>2, <3>3 DEF ExchangesCounted
  <2> QED BY <2>2, <2>3, <2>4, OnlyAStateBegins
<1>3. ExchangesCounted => OneExchangePerState
  BY DEF ExchangesCounted, OneExchangePerState, Begun, Spent
<1> QED BY <1>1, <1>2, <1>3, TypeCorrectness, PTL DEF Spec
=============================================================================
