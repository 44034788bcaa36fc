----------------------- MODULE SessionLifecycleProofs -----------------------
(***************************************************************************)
(* For every number of logins, refreshes and logouts, every set of device  *)
(* slots and every choice of durations: type correctness, and the two      *)
(* invariants of token rotation.                                           *)
(***************************************************************************)
EXTENDS SessionLifecycle, TLAPS

(* The inductive invariant, in the vocabulary of the code. *)

Holds(s)  == sessions[s] # None

\* What a handler remembers of its request is what it read.
HandlersRemember ==
    /\ \A r \in Logins : pc[r] # "idle" => input[r] \in Slots
    /\ \A r \in Logins : pc[r] = "supersede" => prior[r] \in Sessions /\ Holds(prior[r])
    /\ \A r \in Refreshes \cup Logouts : Running(r) =>
          /\ input[r] \in Tokens
          /\ Issued(input[r])
          /\ current[r] \in TokenRow
          /\ current[r].session = tokens[input[r]].session
          /\ current[r].family = tokens[input[r]].family
    /\ \A r \in Requests : \A t \in scan[r] : Issued(t)

\* No transaction deletes a row, and a row nobody locked is as committed.
DraftsExtendRows ==
    /\ \A s \in Sessions : Holds(s) => sessionDraft[s] # None
    /\ \A t \in Tokens : Issued(t) => tokenDraft[t] # None
    /\ \A t \in Tokens : tokenLock[t] = None => tokenDraft[t] = tokens[t]

\* A token refers to a session, a family root and a parent that exist.
References ==
    \A t \in Tokens : Issued(t) =>
        /\ Holds(tokens[t].session)
        /\ Issued(tokens[t].family)
        /\ tokens[t].parent # None => Issued(tokens[t].parent)

\* A token appears when the transaction of the request that mints it commits.
MintedAtCommit == \A t \in Tokens : Issued(t) => pc[t] \in {"ok", "error"}

\* A login about to commit has written its session and then its root token.
LoginWrites ==
    \A r \in Logins :
        /\ pc[r] \in {"insertRoot", "commit"} => sessionLock[r] = r /\ sessionDraft[r] # None
        /\ pc[r] = "commit" =>
             /\ tokenLock[r] = r
             /\ tokenDraft[r] \in TokenRow
             /\ tokenDraft[r].session = r
             /\ tokenDraft[r].family = r
             /\ tokenDraft[r].parent = None
             /\ ~tokenDraft[r].consumed

\* A refresh past Consume holds the presented token, still unspent for others.
RefreshHas(r) ==
    /\ tokenLock[input[r]] = r
    /\ ~tokens[input[r]].consumed
    /\ tokenDraft[input[r]] = [tokens[input[r]] EXCEPT !.consumed = TRUE]
    /\ pc[r] \in {"touch", "commit"} =>
         /\ tokenLock[r] = r
         /\ tokenDraft[r] = ChildToken(r)

RefreshWrites ==
    \A r \in Refreshes :
        pc[r] \in {"insertChild", "touch", "commit"} => RefreshHas(r)

\* A draft made by RevokeFamily differs from its row in the revocation only.
RevokeDraft(t) ==
    /\ Issued(t)
    /\ tokenDraft[t] \in TokenRow
    /\ tokenDraft[t] = [tokens[t] EXCEPT !.revoked = tokenDraft[t].revoked]

\* Nobody else writes tokens.
OnlyWriters ==
    \A t \in Tokens : \A r \in Requests : tokenLock[t] = r =>
        \/ r \in Logins /\ pc[r] = "commit" /\ t = r
        \/ r \in Refreshes /\ pc[r] = "insertChild" /\ t = input[r]
        \/ r \in Refreshes /\ pc[r] \in {"touch", "commit"} /\ (t = input[r] \/ t = r)
        \/ r \in Refreshes /\ pc[r] = "revokeRows" /\ RevokeDraft(t)
        \/ r \in Logouts /\ pc[r] \in {"revokeRows", "commit"} /\ RevokeDraft(t)

IInv ==
    /\ TypeOK
    /\ HandlersRemember
    /\ DraftsExtendRows
    /\ References
    /\ MintedAtCommit
    /\ LoginWrites
    /\ RefreshWrites
    /\ OnlyWriters
    /\ ConsumedExactlyOnce
    /\ OneUnspentTokenPerFamily

-----------------------------------------------------------------------------
(* The initial state, and steps that change neither table. *)

\* The invariant holds at the start.
LEMMA InitIInv == Init => IInv
  BY RequestsAssumption, NoneAssumption
     DEF Init, IInv, TypeOK, HandlersRemember, DraftsExtendRows, References,
         MintedAtCommit, LoginWrites, RefreshWrites, OnlyWriters,
         ConsumedExactlyOnce, OneUnspentTokenPerFamily, Issued, Holds, ChildOf,
         Running, Answers, PCs, Requests, Tokens, Sessions

\* The states of a handler in which its transaction has written token rows.
WriterPCs == {"insertRoot", "insertChild", "touch", "commit", "revokeRows"}

\* The rest of the invariant speaks of a handler only while it is writing.
LEMMA SameTables ==
  ASSUME IInv, TypeOK', HandlersRemember', NEW r \in Requests, NEW w \in PCs,
         Goto(r, w), UNCHANGED <<sessionTable, tokenTable>>,
         \A q \in Requests : q # r => /\ input'[q] = input[q]
                                      /\ stamp'[q] = stamp[q]
                                      /\ current'[q] = current[q],
         pc[r] \notin {"ok", "error"},
         \/ pc[r] \notin WriterPCs /\ w \notin WriterPCs \ {"revokeRows"}
         \/ r \in Logouts /\ pc[r] = "revokeRows" /\ w = "commit"
  PROVE  IInv'
<1> USE DEF Goto, sessionTable, tokenTable, IInv, WriterPCs
<1>1. /\ DraftsExtendRows' /\ References'
      /\ ConsumedExactlyOnce' /\ OneUnspentTokenPerFamily'
  BY DEF DraftsExtendRows, References, ConsumedExactlyOnce,
         OneUnspentTokenPerFamily, Issued, Holds, ChildOf
<1>2. MintedAtCommit'
  BY DEF MintedAtCommit, TypeOK, Issued, Requests, Tokens
<1>3. LoginWrites'
  BY RequestsAssumption DEF LoginWrites, TypeOK, Requests
<1>4. RefreshWrites'
  BY RequestsAssumption DEF RefreshWrites, RefreshHas, TypeOK, ChildToken, TokenRow, Requests
<1>5. OnlyWriters'
  BY RequestsAssumption DEF OnlyWriters, TypeOK, RevokeDraft, Issued, Requests
<1> QED BY <1>1, <1>2, <1>3, <1>4, <1>5

\* A step that writes a session row and moves one handler on.
LEMMA SessionWrite ==
  ASSUME IInv, TypeOK', HandlersRemember', NEW r \in Requests, NEW w \in PCs,
         NEW s \in Sessions, NEW row \in SessionRow,
         WriteSession(r, s, row), Goto(r, w), UNCHANGED <<tokenTable, locals>>,
         CanLockSession(r, s) \/ s = r,
         \/ r \in Logins /\ pc[r] = "supersede" /\ w = "insertSession"
         \/ r \in Logins /\ pc[r] = "insertSession" /\ w = "insertRoot" /\ s = r
         \/ r \in Logouts /\ pc[r] = "revokeSession" /\ w = "scanFamily"
         \/ r \in Refreshes /\ pc[r] = "touch" /\ w = "commit"
  PROVE  IInv'
<1> USE DEF Goto, WriteSession, tokenTable, locals, IInv
<1>1. DraftsExtendRows'
  BY NoneAssumption DEF DraftsExtendRows, TypeOK, Issued, Holds
<1>2. References' /\ ConsumedExactlyOnce' /\ OneUnspentTokenPerFamily'
  BY DEF References, ConsumedExactlyOnce, OneUnspentTokenPerFamily, Issued, Holds, ChildOf
<1>3. MintedAtCommit'
  BY DEF MintedAtCommit, TypeOK, Issued, Requests, Tokens
<1>4. LoginWrites'
  BY RequestsAssumption, NoneAssumption
     DEF LoginWrites, TypeOK, Requests, Sessions, CanLockSession
<1>5. RefreshWrites'
  BY RequestsAssumption DEF RefreshWrites, RefreshHas, TypeOK, ChildToken, TokenRow, Requests
<1>6. OnlyWriters'
  BY RequestsAssumption DEF OnlyWriters, TypeOK, RevokeDraft, Issued, Requests
<1> QED BY <1>1, <1>2, <1>3, <1>4, <1>5, <1>6

-----------------------------------------------------------------------------
(* Steps that write a token row. *)

\* Before a login writes its token nobody has that row.
LEMMA FreshTokenUnlocked ==
  ASSUME IInv, NEW r \in Logins, r \in Tokens, ~Issued(r), pc[r] # "commit"
  PROVE  tokenLock[r] = None
<1> SUFFICES ASSUME NEW q \in Requests, tokenLock[r] = q PROVE FALSE
  BY DEF IInv, TypeOK
<1>1. \/ q \in Logins /\ pc[q] = "commit" /\ r = q
      \/ q \in Refreshes /\ pc[q] \in {"insertChild", "touch", "commit"} /\ r = input[q]
      \/ q \in Refreshes /\ r = q
      \/ RevokeDraft(r)
  BY DEF IInv, OnlyWriters
<1>2. ~(q \in Refreshes /\ r = q)
  BY RequestsAssumption
<1>3. ~(q \in Refreshes /\ pc[q] \in {"insertChild", "touch", "commit"} /\ r = input[q])
  BY DEF IInv, HandlersRemember, Running, Answers
<1> QED BY <1>1, <1>2, <1>3 DEF RevokeDraft

\* The root token of a login.
LEMMA RootStep ==
  ASSUME IInv, TypeOK', HandlersRemember', NEW r \in Logins, InsertRootToken(r)
  PROVE  IInv'
<1> USE DEF InsertRootToken, Goto, WriteToken, sessionTable, locals, IInv
<1>1. r \in Tokens /\ r \in Requests /\ ~Issued(r) /\ tokens' = tokens
  BY DEF Tokens, Requests, MintedAtCommit, Issued
<1>2. tokenLock[r] = None
  BY <1>1, FreshTokenUnlocked
<1>3. RootToken(r) \in TokenRow
  BY <1>1, DurationsAssumption DEF RootToken, TokenRow, TypeOK, Sessions
<1>4. tokenDraft' = [tokenDraft EXCEPT ![r] = RootToken(r)] /\ tokenLock' = [tokenLock EXCEPT ![r] = r]
  OBVIOUS
<1>5. DraftsExtendRows'
  BY <1>1, <1>3, <1>4, NoneAssumption DEF DraftsExtendRows, TypeOK, Issued, Holds, Requests
<1>6. References' /\ ConsumedExactlyOnce' /\ OneUnspentTokenPerFamily'
  BY <1>1 DEF References, ConsumedExactlyOnce, OneUnspentTokenPerFamily, Issued, Holds, ChildOf
<1>7. MintedAtCommit'
  BY <1>1 DEF MintedAtCommit, TypeOK, Issued
<1>8. LoginWrites'
  BY <1>1, <1>3, RequestsAssumption DEF LoginWrites, TypeOK, RootToken, Requests
<1>9. RefreshWrites'
  BY <1>1, <1>2, <1>4, RequestsAssumption, NoneAssumption
     DEF RefreshWrites, RefreshHas, TypeOK, ChildToken, TokenRow, HandlersRemember, Running, Answers,
         Issued, Requests, Tokens
<1>10. OnlyWriters'
  BY <1>1, <1>2, <1>4, RequestsAssumption, NoneAssumption
     DEF OnlyWriters, TypeOK, RevokeDraft, Issued, Requests, TokenRow
<1> QED BY <1>5, <1>6, <1>7, <1>8, <1>9, <1>10

\* The exchange of the presented token.
LEMMA ConsumeStep ==
  ASSUME IInv, TypeOK', HandlersRemember', NEW r \in Refreshes, Consume(r)
  PROVE  IInv'
<1> DEFINE t == input[r]
<1> USE DEF Consume, Goto, WriteToken, sessionTable, locals, IInv
<1>1. t \in Tokens /\ r \in Requests /\ Issued(t) /\ tokens' = tokens
  BY DEF Requests, HandlersRemember, Running, Answers
<1>2. tokenLock[t] = None
  BY <1>1, RequestsAssumption DEF OnlyWriters, CanLockToken, Requests
<1>3. tokenDraft[t] = tokens[t] /\ tokens[t] \in TokenRow /\ ~tokens[t].consumed
  BY <1>1, <1>2 DEF DraftsExtendRows, CanConsume, TypeOK, Issued
<1>4. tokenDraft' = [tokenDraft EXCEPT ![t] = [tokens[t] EXCEPT !.consumed = TRUE]]
      /\ tokenLock' = [tokenLock EXCEPT ![t] = r]
  BY <1>3
<1>5. DraftsExtendRows'
  <2>1. [tokens[t] EXCEPT !.consumed = TRUE] # None
    BY <1>3, NoneAssumption DEF TokenRow
  <2> QED BY <1>1, <1>4, <2>1, NoneAssumption DEF DraftsExtendRows, TypeOK, Issued, Holds, Requests
<1>6. References' /\ ConsumedExactlyOnce' /\ OneUnspentTokenPerFamily'
  BY <1>1 DEF References, ConsumedExactlyOnce, OneUnspentTokenPerFamily, Issued, Holds, ChildOf
<1>7. MintedAtCommit'
  BY <1>1 DEF MintedAtCommit, TypeOK, Issued
<1>8. LoginWrites'
  BY <1>1, <1>2, <1>4, RequestsAssumption, NoneAssumption DEF LoginWrites, TypeOK, Requests, Tokens
<1>9. RefreshWrites'
  <2> SUFFICES ASSUME NEW q \in Refreshes,
                      pc'[q] \in {"insertChild", "touch", "commit"}
               PROVE  RefreshHas(q)'
    BY DEF RefreshWrites, RefreshHas
  <2>1. CASE q = r
    BY <1>1, <1>3, <1>4, <2>1 DEF RefreshHas, TypeOK
  <2>2. CASE q # r
    <3>1. pc[q] = pc'[q] /\ q \in Tokens /\ q \in Requests /\ q # None /\ input[q] \in Tokens
      BY <2>2, NoneAssumption DEF TypeOK, Requests, Tokens, HandlersRemember, Running, Answers
    <3>2. RefreshHas(q) /\ input[q] # t /\ (pc[q] \in {"touch", "commit"} => q # t)
      BY <1>2, <3>1 DEF RefreshWrites, RefreshHas
    <3>3. ChildToken(q)' = ChildToken(q)
      BY DEF ChildToken
    <3> QED BY <1>1, <1>4, <3>1, <3>2, <3>3 DEF RefreshHas, TypeOK
  <2> QED BY <2>1, <2>2
<1>10. OnlyWriters'
  BY <1>1, <1>2, <1>4, RequestsAssumption, NoneAssumption
     DEF OnlyWriters, TypeOK, RevokeDraft, Issued, Requests, TokenRow
<1> QED BY <1>5, <1>6, <1>7, <1>8, <1>9, <1>10

\* The replacement it is exchanged for.
LEMMA ChildStep ==
  ASSUME IInv, TypeOK', HandlersRemember', NEW r \in Refreshes, InsertChild(r)
  PROVE  IInv'
<1> USE DEF InsertChild, Goto, WriteToken, sessionTable, locals, IInv
<1>1. r \in Tokens /\ r \in Requests /\ ~Issued(r) /\ tokens' = tokens
  BY DEF Tokens, Requests, MintedAtCommit, Issued
<1>2. input[r] \in Tokens /\ Issued(input[r]) /\ current[r] \in TokenRow
  BY <1>1 DEF HandlersRemember, Running, Answers
<1>3. tokenLock[r] = None
  BY <1>1, <1>2, RequestsAssumption
     DEF OnlyWriters, RevokeDraft, TypeOK, HandlersRemember, Running, Answers, Requests
<1>4. ChildToken(r) \in TokenRow
  BY <1>1, <1>2, DurationsAssumption DEF ChildToken, TokenRow, TypeOK
<1>5. tokenDraft' = [tokenDraft EXCEPT ![r] = ChildToken(r)] /\ tokenLock' = [tokenLock EXCEPT ![r] = r]
  OBVIOUS
<1>6. DraftsExtendRows'
  BY <1>1, <1>4, <1>5, NoneAssumption DEF DraftsExtendRows, TypeOK, Issued, Holds, Requests
<1>7. References' /\ ConsumedExactlyOnce' /\ OneUnspentTokenPerFamily'
  BY <1>1 DEF References, ConsumedExactlyOnce, OneUnspentTokenPerFamily, Issued, Holds, ChildOf
<1>8. MintedAtCommit'
  BY <1>1 DEF MintedAtCommit, TypeOK, Issued
<1>9. LoginWrites'
  BY <1>1, <1>5, RequestsAssumption DEF LoginWrites, TypeOK, Requests, Tokens
<1>10. RefreshWrites'
  <2> SUFFICES ASSUME NEW q \in Refreshes,
                      pc'[q] \in {"insertChild", "touch", "commit"}
               PROVE  RefreshHas(q)'
    BY DEF RefreshWrites, RefreshHas
  <2>1. ChildToken(q)' = ChildToken(q)
    BY DEF ChildToken
  <2>2. q \in Tokens /\ q \in Requests /\ q # None /\ pc[q] # "idle" /\ input[q] \in Tokens
        /\ Issued(input[q]) /\ pc[q] \in {"insertChild", "touch", "commit"}
    BY <1>1, <1>2, NoneAssumption DEF TypeOK, Requests, Tokens, HandlersRemember, Running, Answers
  <2>3. RefreshHas(q) /\ input[q] # r
    BY <1>1, <2>2 DEF RefreshWrites, RefreshHas
  <2>4. CASE q = r
    BY <1>1, <1>5, <2>1, <2>2, <2>3, <2>4 DEF RefreshHas, TypeOK
  <2>5. CASE q # r
    BY <1>1, <1>5, <2>1, <2>2, <2>3, <2>5 DEF RefreshHas, TypeOK
  <2> QED BY <2>4, <2>5
<1>11. OnlyWriters'
  BY <1>1, <1>3, <1>5, RequestsAssumption, NoneAssumption
     DEF OnlyWriters, TypeOK, RevokeDraft, Issued, Requests, TokenRow
<1> QED BY <1>6, <1>7, <1>8, <1>9, <1>10, <1>11

\* One row of RevokeFamily.
LEMMA RevokeRowStep ==
  ASSUME IInv, TypeOK', HandlersRemember', NEW r \in Refreshes \cup Logouts,
         NEW why \in TokenReasons, RevokeRow(r, why)
  PROVE  IInv'
<1> USE DEF sessionTable, IInv
<1>1. PICK t \in scan[r] :
         /\ pc[r] = "revokeRows"
         /\ CanLockToken(r, t)
         /\ IF tokenDraft[t].revoked = None
              THEN WriteToken(r, t, [tokenDraft[t] EXCEPT !.revoked = why])
              ELSE UNCHANGED tokenTable
         /\ UNCHANGED <<clock, sessionTable, slotLock, pc, input, stamp, prior, current>>
  BY DEF RevokeRow
<1>2. t \in Tokens /\ r \in Requests /\ Issued(t)
  BY <1>1 DEF TypeOK, Requests, HandlersRemember
<1>3. tokens' = tokens
  BY <1>1 DEF WriteToken, tokenTable
<1>4. References' /\ ConsumedExactlyOnce' /\ OneUnspentTokenPerFamily' /\ MintedAtCommit'
  BY <1>1, <1>3 DEF References, ConsumedExactlyOnce, OneUnspentTokenPerFamily,
                    MintedAtCommit, Issued, Holds, ChildOf
<1>5. CASE UNCHANGED tokenTable
  BY <1>1, <1>4, <1>5
     DEF tokenTable, DraftsExtendRows, LoginWrites, RefreshWrites, RefreshHas, OnlyWriters, RevokeDraft,
         ChildToken, TokenRow, Issued, Holds
<1>6. CASE WriteToken(r, t, [tokenDraft[t] EXCEPT !.revoked = why])
  <2>1. tokenLock' = [tokenLock EXCEPT ![t] = r]
    BY <1>6 DEF WriteToken
  <2>2. /\ tokens[t] \in TokenRow
        /\ tokenDraft[t] \in TokenRow
        /\ tokenDraft[t] = [tokens[t] EXCEPT !.revoked = tokenDraft[t].revoked]
    <3>1. CASE tokenLock[t] = None
      BY <1>2, <3>1 DEF DraftsExtendRows, TypeOK, Issued, TokenRow
    <3>2. CASE tokenLock[t] = r
      BY <1>1, <1>2, <3>2, RequestsAssumption DEF OnlyWriters, RevokeDraft, TypeOK, Issued
    <3> QED BY <1>1, <3>1, <3>2 DEF CanLockToken
  <2>3. tokenDraft' = [tokenDraft EXCEPT ![t] = [tokens[t] EXCEPT !.revoked = why]]
    BY <1>6, <2>2 DEF WriteToken, TokenRow
  <2>4. [tokens[t] EXCEPT !.revoked = why] \in TokenRow
    BY <2>2 DEF TokenRow
  <2>5. DraftsExtendRows'
    BY <1>1, <1>2, <1>3, <2>1, <2>3, <2>4, NoneAssumption
       DEF DraftsExtendRows, TypeOK, Issued, Holds, Requests
  <2>6. LoginWrites'
    BY <1>1, <1>2, <2>1, <2>3, RequestsAssumption, NoneAssumption
       DEF LoginWrites, TypeOK, Requests, Tokens, CanLockToken, MintedAtCommit
  <2>7. RefreshWrites'
    <3> SUFFICES ASSUME NEW q \in Refreshes,
                        pc[q] \in {"insertChild", "touch", "commit"}
                 PROVE  RefreshHas(q)'
      BY <1>1 DEF RefreshWrites, RefreshHas
    <3>1. ChildToken(q)' = ChildToken(q)
      BY <1>1 DEF ChildToken
    <3>2. q \in Tokens /\ q \in Requests /\ q # None /\ q # r /\ input[q] \in Tokens
      BY <1>1, NoneAssumption DEF TypeOK, Requests, Tokens, HandlersRemember, Running, Answers
    <3>3. RefreshHas(q)
      BY DEF RefreshWrites, RefreshHas
    <3>4. t # input[q] /\ (pc[q] \in {"touch", "commit"} => t # q)
      BY <1>1, <3>2, <3>3 DEF RefreshHas, CanLockToken
    <3> QED BY <1>1, <1>2, <1>3, <2>1, <2>3, <3>1, <3>2, <3>3, <3>4 DEF RefreshHas, TypeOK
  <2>8. OnlyWriters'
    BY <1>1, <1>2, <1>3, <2>1, <2>2, <2>3, <2>4, RequestsAssumption, NoneAssumption
       DEF OnlyWriters, TypeOK, RevokeDraft, Issued, Requests, TokenRow
  <2> QED BY <1>4, <2>5, <2>6, <2>7, <2>8
<1> QED BY <1>1, <1>5, <1>6
-----------------------------------------------------------------------------
(* Steps that end a transaction. *)

\* A transaction that is rolled back writes nothing.
LEMMA GiveUpStep ==
  ASSUME IInv, TypeOK', HandlersRemember', NEW r \in Requests, NEW answer \in Answers,
         Running(r), GiveUp(r, answer)
  PROVE  IInv'
<1> USE DEF GiveUp, Rollback, ReleaseLocks, Goto, locals, IInv
<1>1. tokens' = tokens /\ sessions' = sessions /\ pc[r] \notin {"ok", "error", "idle"}
  BY DEF Running, Answers
<1>2. References' /\ ConsumedExactlyOnce' /\ OneUnspentTokenPerFamily'
  BY <1>1 DEF References, ConsumedExactlyOnce, OneUnspentTokenPerFamily, Issued, Holds, ChildOf
<1>3. DraftsExtendRows'
  BY <1>1 DEF DraftsExtendRows, TypeOK, Issued, Holds
<1>4. MintedAtCommit'
  BY <1>1 DEF MintedAtCommit, TypeOK, Issued, Requests, Tokens
<1>5. LoginWrites'
  <2>1. ASSUME NEW q \in Logins, pc'[q] \in {"insertRoot", "commit"}
        PROVE  /\ pc'[q] = pc[q] /\ sessionLock'[q] = q /\ sessionDraft'[q] = sessionDraft[q]
               /\ pc'[q] = "commit" =>
                    tokenLock'[q] = q /\ tokenDraft'[q] = tokenDraft[q]
    <3>1. q # r /\ pc'[q] = pc[q] /\ q \in Sessions /\ q \in Tokens
      BY <2>1 DEF TypeOK, Answers, Requests, Sessions, Tokens
    <3> QED BY <2>1, <3>1 DEF LoginWrites
  <2> HIDE DEF GiveUp, Rollback, ReleaseLocks, Goto, locals
  <2> QED BY <2>1 DEF LoginWrites
<1>6. RefreshWrites'
  <2> SUFFICES ASSUME NEW q \in Refreshes,
                      pc'[q] \in {"insertChild", "touch", "commit"}
               PROVE  RefreshHas(q)'
    BY DEF RefreshWrites, RefreshHas
  <2>1. q # r /\ pc'[q] = pc[q] /\ q \in Tokens /\ q \in Requests
    BY DEF TypeOK, Answers, Requests, Tokens
  <2>2. input[q] \in Tokens /\ RefreshHas(q) /\ ChildToken(q)' = ChildToken(q)
    BY <2>1 DEF HandlersRemember, Running, Answers, RefreshWrites, ChildToken
  <2> QED BY <1>1, <2>1, <2>2 DEF RefreshHas
<1>7. OnlyWriters'
  <2> SUFFICES ASSUME NEW t \in Tokens, NEW q \in Requests, tokenLock'[t] = q
               PROVE  (tokenLock[t] = q /\ q # r /\ pc'[q] = pc[q]
                       /\ tokenDraft'[t] = tokenDraft[t])
    BY <1>1 DEF OnlyWriters, RevokeDraft, Issued
  <2> QED BY NoneAssumption DEF TypeOK
<1> QED BY <1>2, <1>3, <1>4, <1>5, <1>6, <1>7

\* What every draft of an existing token keeps.
LEMMA DraftKeepsRow ==
  ASSUME IInv, NEW t \in Tokens, Issued(t)
  PROVE  /\ tokenDraft[t] \in TokenRow
         /\ tokenDraft[t].session = tokens[t].session
         /\ tokenDraft[t].family = tokens[t].family
         /\ tokenDraft[t].parent = tokens[t].parent
<1>1. tokens[t] \in TokenRow /\ tokenDraft[t] \in TokenRow
  BY DEF IInv, TypeOK, DraftsExtendRows, Issued
<1>2. CASE tokenLock[t] = None
  BY <1>1, <1>2 DEF IInv, DraftsExtendRows
<1>3. CASE tokenLock[t] # None
  <2>1. PICK r \in Requests : tokenLock[t] = r
    BY <1>3 DEF IInv, TypeOK
  <2>2. CASE RevokeDraft(t)
    BY <1>1, <2>2 DEF RevokeDraft, TokenRow
  <2>3. CASE r \in Refreshes /\ pc[r] \in {"insertChild", "touch", "commit"} /\ t = input[r]
    <3>1. tokenDraft[t] = [tokens[t] EXCEPT !.consumed = TRUE]
      BY <2>3 DEF IInv, RefreshWrites, RefreshHas
    <3> QED BY <1>1, <3>1 DEF TokenRow
  <2>4. /\ ~(r \in Logins /\ pc[r] = "commit" /\ t = r)
        /\ ~(pc[r] \in {"touch", "commit"} /\ t = r)
    BY DEF IInv, MintedAtCommit
  <2> QED BY <2>1, <2>2, <2>3, <2>4 DEF IInv, OnlyWriters
<1> QED BY <1>2, <1>3

\* What a commit leaves true of the other transactions.
LEMMA CommitFrame ==
  ASSUME IInv, TypeOK', NEW r \in Requests, NEW answer \in Answers, Running(r), Finish(r, answer)
  PROVE  /\ DraftsExtendRows' /\ LoginWrites' /\ RefreshWrites' /\ OnlyWriters'
         /\ \A s \in Sessions : Holds(s) => Holds(s)'
         /\ \A t \in Tokens : Issued(t) => Issued(t)'
<1> USE DEF Finish, Commit, ReleaseLocks, Goto, locals, IInv
<1>1. DraftsExtendRows'
  BY DEF DraftsExtendRows, TypeOK, Issued, Holds
<1>2. LoginWrites'
  <2> SUFFICES ASSUME NEW q \in Logins, pc'[q] \in {"insertRoot", "commit"}
               PROVE  /\ pc'[q] = pc[q] /\ sessionLock'[q] = q /\ sessionDraft'[q] # None
                      /\ pc'[q] = "commit" =>
                           tokenLock'[q] = q /\ tokenDraft'[q] = tokenDraft[q]
    BY DEF LoginWrites
  <2>1. q # r /\ pc'[q] = pc[q] /\ q \in Sessions /\ q \in Tokens
    BY DEF TypeOK, Answers, Requests, Sessions, Tokens
  <2> QED BY <2>1 DEF LoginWrites
<1>3. RefreshWrites'
  <2> SUFFICES ASSUME NEW q \in Refreshes,
                      pc'[q] \in {"insertChild", "touch", "commit"}
               PROVE  RefreshHas(q)'
    BY DEF RefreshWrites, RefreshHas
  <2>1. q # r /\ pc'[q] = pc[q] /\ q \in Tokens /\ q \in Requests
    BY DEF TypeOK, Answers, Requests, Tokens
  <2>2. input[q] \in Tokens /\ RefreshHas(q) /\ ChildToken(q)' = ChildToken(q)
    BY <2>1 DEF HandlersRemember, Running, Answers, RefreshWrites, ChildToken
  <2> QED BY <2>1, <2>2 DEF RefreshHas
<1>4. OnlyWriters'
  <2> SUFFICES ASSUME NEW t \in Tokens, NEW q \in Requests, tokenLock'[t] = q
               PROVE  /\ tokenLock[t] = q /\ q # r /\ pc'[q] = pc[q]
                      /\ tokenDraft'[t] = tokenDraft[t] /\ tokens'[t] = tokens[t]
    BY DEF OnlyWriters, RevokeDraft, Issued
  <2> QED BY NoneAssumption DEF TypeOK
<1>5. \A s \in Sessions : Holds(s) => Holds(s)'
  BY DEF DraftsExtendRows, Holds
<1>6. \A t \in Tokens : Issued(t) => Issued(t)'
  BY DEF DraftsExtendRows, Issued
<1> QED BY <1>1, <1>2, <1>3, <1>4, <1>5, <1>6

\* A login commits its session and root token.
LEMMA LoginCommits ==
  ASSUME IInv, TypeOK', HandlersRemember', NEW r \in Logins, NEW answer \in {"ok", "error"},
         pc[r] = "commit", Finish(r, answer)
  PROVE  IInv'
<1> USE DEF IInv
<1>1. r \in Requests /\ r \in Tokens /\ r \in Sessions /\ r # None /\ Running(r) /\ answer \in Answers
  BY NoneAssumption DEF Requests, Tokens, Sessions, Running, Answers
<1>2. /\ DraftsExtendRows' /\ LoginWrites' /\ RefreshWrites' /\ OnlyWriters'
      /\ \A s \in Sessions : Holds(s) => Holds(s)'
  BY <1>1, CommitFrame
<1>3. /\ tokenDraft[r] \in TokenRow /\ tokenDraft[r].session = r /\ tokenDraft[r].family = r
      /\ tokenDraft[r].parent = None /\ ~tokenDraft[r].consumed
      /\ sessionDraft[r] # None /\ sessionLock[r] = r /\ tokenLock[r] = r
  BY DEF LoginWrites
<1>4. ~Issued(r) /\ \A t \in Tokens : tokenLock[t] = r => t = r
  BY <1>1, RequestsAssumption DEF MintedAtCommit, OnlyWriters
<1>5. tokens' = [tokens EXCEPT ![r] = tokenDraft[r]]
  BY <1>1, <1>3, <1>4 DEF Finish, Commit, TypeOK
<1>6. Holds(r)'
  BY <1>1, <1>3 DEF Finish, Commit, Holds
<1>7. References'
  BY <1>1, <1>2, <1>3, <1>5, <1>6, NoneAssumption DEF References, Issued, TypeOK, TokenRow
<1>8. MintedAtCommit'
  BY <1>1, <1>5 DEF MintedAtCommit, Issued, Finish, Goto, TypeOK, Requests, Tokens
<1>9. ConsumedExactlyOnce'
  <2> SUFFICES ASSUME NEW t \in Tokens, Issued(t)'
               PROVE  /\ tokens'[t].consumed <=> \E c \in Tokens : ChildOf(c, t)'
                      /\ \A c, d \in Tokens : ChildOf(c, t)' /\ ChildOf(d, t)' => c = d
    BY DEF ConsumedExactlyOnce
  <2>1. \A c \in Tokens : ChildOf(c, t)' <=> ChildOf(c, t)
    BY <1>1, <1>3, <1>4, <1>5, NoneAssumption DEF ChildOf, Issued, TypeOK, Requests, Tokens
  <2>2. CASE t = r
    BY <1>1, <1>3, <1>4, <1>5, <2>1, <2>2 DEF References, ChildOf, TypeOK
  <2>3. CASE t # r
    BY <1>1, <1>5, <2>1, <2>3 DEF ConsumedExactlyOnce, Issued, TypeOK
  <2> QED BY <2>2, <2>3
<1>10. OneUnspentTokenPerFamily'
  BY <1>1, <1>3, <1>4, <1>5 DEF OneUnspentTokenPerFamily, References, Issued, TypeOK
<1> QED BY <1>2, <1>7, <1>8, <1>9, <1>10

\* A rotation commits the exchange and the replacement together.
LEMMA RotationCommits ==
  ASSUME IInv, TypeOK', HandlersRemember', NEW r \in Refreshes, NEW answer \in {"ok", "error"},
         pc[r] = "commit", Finish(r, answer)
  PROVE  IInv'
<1> DEFINE old == input[r]
<1> USE DEF IInv
<1>1. r \in Requests /\ r \in Tokens /\ r # None /\ Running(r) /\ answer \in Answers
  BY NoneAssumption DEF Requests, Tokens, Sessions, Running, Answers
<1>2. /\ DraftsExtendRows' /\ LoginWrites' /\ RefreshWrites' /\ OnlyWriters'
      /\ \A s \in Sessions : Holds(s) => Holds(s)'
      /\ \A t \in Tokens : Issued(t) => Issued(t)'
  BY <1>1, CommitFrame
<1>3. ~Issued(r) /\ old \in Tokens /\ Issued(old) /\ old # r /\ old # None /\ tokens[old] \in TokenRow
      /\ current[r].session = tokens[old].session /\ current[r].family = tokens[old].family
  BY <1>1, NoneAssumption DEF MintedAtCommit, HandlersRemember, Issued, TypeOK, Requests, Tokens
<1>4. /\ tokenLock[old] = r /\ tokenLock[r] = r /\ ~tokens[old].consumed
      /\ tokenDraft[old] = [tokens[old] EXCEPT !.consumed = TRUE]
      /\ tokenDraft[r] = ChildToken(r)
  BY DEF RefreshWrites, RefreshHas
<1>5. \A t \in Tokens : tokenLock[t] = r => t \in {old, r}
  BY <1>1, RequestsAssumption DEF OnlyWriters
<1>6. /\ tokens'[r] = ChildToken(r)
      /\ tokens'[old] = [tokens[old] EXCEPT !.consumed = TRUE]
      /\ \A t \in Tokens \ {old, r} : tokens'[t] = tokens[t]
  BY <1>1, <1>3, <1>4, <1>5 DEF Finish, Commit, TypeOK
<1>7. /\ \A t \in Tokens : Issued(t)' <=> Issued(t) \/ t = r
      /\ \A t \in Tokens : Issued(t) => /\ tokens'[t].session = tokens[t].session
                                        /\ tokens'[t].family = tokens[t].family
                                        /\ tokens'[t].parent = tokens[t].parent
      /\ tokens'[r].session = tokens[old].session /\ tokens'[r].family = tokens[old].family
      /\ tokens'[r].parent = old /\ ~tokens'[r].consumed
      /\ tokens'[old].consumed
      /\ \A t \in Tokens : Issued(t) /\ t # old => tokens'[t].consumed = tokens[t].consumed
  <2>1. tokens'[old].consumed /\ tokens'[old].session = tokens[old].session
        /\ tokens'[old].family = tokens[old].family /\ tokens'[old].parent = tokens[old].parent
    BY <1>3, <1>6 DEF TokenRow
  <2>2. ChildToken(r) \in TokenRow
    BY <1>1, DurationsAssumption DEF ChildToken, TokenRow, TypeOK, HandlersRemember
  <2>3. tokens'[r] # None
    BY <1>6, <2>2, NoneAssumption
  <2>4. \A t \in Tokens : Issued(t)' <=> Issued(t) \/ t = r
    BY <1>1, <1>2, <1>3, <1>6, <2>3 DEF Issued
  <2>5. tokens'[r].session = tokens[old].session /\ tokens'[r].family = tokens[old].family
        /\ tokens'[r].parent = old /\ ~tokens'[r].consumed
    BY <1>3, <1>6 DEF ChildToken
  <2>6. \A t \in Tokens : Issued(t) /\ t # old => tokens'[t] = tokens[t]
    BY <1>3, <1>6
  <2> QED BY <1>3, <2>1, <2>4, <2>5, <2>6
<1>8. References'
  <2>1. \A t \in Tokens : Issued(t) =>
           tokens[t].session \in Sessions /\ tokens[t].family \in Tokens
           /\ tokens[t].parent \in Tokens \cup {None}
    BY DEF TypeOK, TokenRow, Issued, Sessions, Tokens
  <2> QED BY <1>2, <2>1, <1>3, <1>7 DEF References
<1>9. MintedAtCommit'
  BY <1>1, <1>7 DEF MintedAtCommit, Finish, Goto, TypeOK, Requests, Tokens
<1>10. ConsumedExactlyOnce'
  <2>1. \A c, t \in Tokens : ChildOf(c, t)' <=> ChildOf(c, t) \/ (c = r /\ t = old)
    BY <1>3, <1>7 DEF ChildOf, Issued
  <2>2. \A c \in Tokens : ~ChildOf(c, r) /\ ~ChildOf(c, old) /\ ~ChildOf(r, c)
    BY <1>1, <1>3, <1>4 DEF References, ChildOf, ConsumedExactlyOnce
  <2> QED BY <1>1, <1>3, <1>7, <2>1, <2>2 DEF ConsumedExactlyOnce
<1>11. OneUnspentTokenPerFamily'
  BY <1>1, <1>3, <1>4, <1>7 DEF OneUnspentTokenPerFamily
<1> QED BY <1>2, <1>8, <1>9, <1>10, <1>11

\* A family revocation changes no chain.
LEMMA RevocationCommits ==
  ASSUME IInv, TypeOK', HandlersRemember', NEW answer \in Answers, NEW r \in Requests,
         \/ r \in Refreshes /\ pc[r] = "revokeRows"
         \/ r \in Logouts /\ pc[r] = "commit",
         Finish(r, answer)
  PROVE  IInv'
<1> USE DEF IInv
<1>1. Running(r) /\ pc[r] \notin {"ok", "error"}
  BY DEF Running, Answers
<1>2. /\ DraftsExtendRows' /\ LoginWrites' /\ RefreshWrites' /\ OnlyWriters'
      /\ \A s \in Sessions : Holds(s) => Holds(s)'
      /\ \A t \in Tokens : Issued(t) => Issued(t)'
  BY <1>1, CommitFrame
<1>3. \A t \in Tokens : tokenLock[t] = r => RevokeDraft(t)
  BY RequestsAssumption DEF OnlyWriters
<1>4. \A t \in Tokens :
         /\ Issued(t)' <=> Issued(t)
         /\ Issued(t) => /\ tokens'[t].session = tokens[t].session
                         /\ tokens'[t].family = tokens[t].family
                         /\ tokens'[t].parent = tokens[t].parent
                         /\ tokens'[t].consumed = tokens[t].consumed
  BY <1>2, <1>3 DEF Finish, Commit, RevokeDraft, Issued, TypeOK, TokenRow
<1>5. References'
  <2>1. \A t \in Tokens : Issued(t) =>
           tokens[t].session \in Sessions /\ tokens[t].family \in Tokens
           /\ tokens[t].parent \in Tokens \cup {None}
    BY DEF TypeOK, TokenRow, Issued, Sessions, Tokens
  <2> QED BY <1>2, <2>1, <1>4 DEF References
<1>6. MintedAtCommit'
  BY <1>1, <1>4 DEF MintedAtCommit, Finish, Goto, TypeOK, Requests, Tokens
<1>7. ConsumedExactlyOnce' /\ OneUnspentTokenPerFamily'
  <2>1. \A c, t \in Tokens : ChildOf(c, t)' <=> ChildOf(c, t)
    BY <1>4 DEF ChildOf
  <2> QED BY <1>4, <2>1 DEF ConsumedExactlyOnce, OneUnspentTokenPerFamily
<1> QED BY <1>2, <1>5, <1>6, <1>7
-----------------------------------------------------------------------------
(* One step of each kind of handler. *)

\* A step that only moves a handler on changes nothing the handlers remember.
LEMMA Remembers ==
  ASSUME IInv, NEW r \in Requests, NEW w \in PCs \ {"idle", "supersede"}, Goto(r, w),
         UNCHANGED <<input, prior, current, scan>>,
         Running(r) \/ (w \in Answers /\ r \notin Logins),
         \A s \in Sessions : Holds(s) => Holds(s)',
         \A t \in Tokens : Issued(t) => /\ Issued(t)'
                                        /\ tokens'[t].session = tokens[t].session
                                        /\ tokens'[t].family = tokens[t].family
  PROVE  HandlersRemember'
<1> USE DEF Goto, IInv, HandlersRemember
<1>1. \A q \in Requests : pc'[q] = IF q = r THEN w ELSE pc[q]
  BY DEF TypeOK
<1>2. \A q \in Logins : /\ pc'[q] # "idle" => input'[q] \in Slots
                        /\ pc'[q] = "supersede" => prior'[q] \in Sessions /\ Holds(prior[q])'
  BY <1>1 DEF Requests, Running
<1>3. \A q \in Refreshes \cup Logouts : Running(q)' =>
          /\ input'[q] \in Tokens
          /\ Issued(input[q])'
          /\ current'[q] \in TokenRow
          /\ current'[q].session = tokens'[input'[q]].session
          /\ current'[q].family = tokens'[input'[q]].family
  BY <1>1 DEF Requests, Running
<1>4. \A q \in Requests : \A t \in scan'[q] : Issued(t)'
  BY DEF TypeOK
<1> QED BY <1>2, <1>3, <1>4 DEF Issued, Holds

\* A handler moves on and neither table nor memory changes.
LEMMA MoveOn ==
  ASSUME IInv, NEW r \in Requests, NEW w \in PCs \ {"idle", "supersede", "ok", "error"},
         Goto(r, w), UNCHANGED <<clock, sessionTable, tokenTable, slotLock, locals>>,
         Running(r) \/ (w \in Answers /\ r \notin Logins),
         pc[r] \notin {"ok", "error"},
         \/ pc[r] \notin WriterPCs /\ w \notin WriterPCs \ {"revokeRows"}
         \/ r \in Logouts /\ pc[r] = "revokeRows" /\ w = "commit"
  PROVE  IInv'
<1>1. TypeOK'
  BY DEF IInv, TypeOK, Goto, sessionTable, tokenTable, locals
<1>2. HandlersRemember'
  BY Remembers DEF sessionTable, tokenTable, locals, Issued, Holds
<1>3. \A q \in Requests : q # r => /\ input'[q] = input[q]
                                   /\ stamp'[q] = stamp[q]
                                   /\ current'[q] = current[q]
  BY DEF locals
<1> QED BY <1>1, <1>2, <1>3, SameTables

\* A transaction that is given up, whatever the handler answers.
LEMMA GivesUp ==
  ASSUME IInv, NEW r \in Requests, NEW answer \in Answers, Running(r), GiveUp(r, answer)
  PROVE  IInv'
<1>1. TypeOK'
  BY DEF GiveUp, Rollback, ReleaseLocks, Goto, locals, IInv, TypeOK, PCs
<1>2. HandlersRemember'
  BY Remembers DEF GiveUp, Rollback, Goto, locals, Issued, Holds, Answers, PCs
<1> QED BY <1>1, <1>2, GiveUpStep

\* Whoever commits.
LEMMA Commits ==
  ASSUME IInv, NEW r \in Requests, NEW answer \in Answers, Finish(r, answer),
         \/ pc[r] = "commit" /\ answer \in {"ok", "error"}
         \/ r \in Refreshes /\ pc[r] = "revokeRows"
  PROVE  IInv'
<1>1. TypeOK'
  BY DEF Finish, Commit, ReleaseLocks, Goto, locals, IInv, TypeOK, PCs
<1>2. Running(r)
  BY DEF Running, Answers
<1>3. HandlersRemember'
  <2>1. \A s \in Sessions : Holds(s) => Holds(s)'
    BY <1>1, <1>2, CommitFrame
  <2>2. ASSUME NEW t \in Tokens, Issued(t)
        PROVE  /\ Issued(t)'
               /\ tokens'[t].session = tokens[t].session
               /\ tokens'[t].family = tokens[t].family
    <3>1. Issued(t)'
      BY <1>1, <1>2, <2>2, CommitFrame
    <3> QED BY <2>2, <3>1, DraftKeepsRow DEF Finish, Commit
  <2> QED BY <1>2, <2>1, <2>2, Remembers DEF Finish, locals, Answers, PCs
<1>4. CASE r \in Logins
  BY <1>1, <1>3, <1>4, RequestsAssumption, LoginCommits
<1>5. CASE r \in Refreshes /\ pc[r] = "commit"
  BY <1>1, <1>3, <1>5, RotationCommits
<1>6. CASE (r \in Refreshes /\ pc[r] = "revokeRows") \/ (r \in Logouts /\ pc[r] = "commit")
  BY <1>1, <1>3, <1>6, RevocationCommits
<1> QED BY <1>4, <1>5, <1>6 DEF Requests

\* A revoked session row is a session row.
LEMMA RevokedSessionType ==
  ASSUME NEW row \in SessionRow, NEW why \in SessionReasons, NEW now \in Nat
  PROVE  RevokedSession(row, why, now) \in SessionRow
<1> DEFINE mid == [row EXCEPT !.revoked = why]
<1>1. mid \in SessionRow
  BY DEF SessionRow
<1>2. [mid EXCEPT !.revokedAt = now] \in SessionRow
  <2> HIDE DEF mid
  <2> QED BY <1>1 DEF SessionRow
<1> QED BY <1>2, Zenon DEF RevokedSession

\* RevokeSession as Supersede and RevokeLoggedOut use it.
LEMMA RevokesSession ==
  ASSUME IInv, NEW r \in Requests, NEW s \in Sessions, Holds(s),
         NEW why \in SessionReasons, NEW w \in {"insertSession", "scanFamily"},
         RevokeSession(r, s, why, w),
         \/ r \in Logins /\ pc[r] = "supersede" /\ w = "insertSession"
         \/ r \in Logouts /\ pc[r] = "revokeSession" /\ w = "scanFamily"
  PROVE  IInv'
<1> DEFINE row == RevokedSession(sessionDraft[s], why, clock)
<1>1. Running(r) /\ w \in PCs
  BY DEF Running, Answers, PCs
<1>2. sessionDraft[s] \in SessionRow /\ row \in SessionRow
  <2>1. sessionDraft[s] \in SessionRow /\ clock \in Nat
    BY DEF IInv, TypeOK, DraftsExtendRows
  <2> QED BY <2>1, RevokedSessionType
<1>3. CASE Goto(r, w) /\ UNCHANGED <<clock, sessionTable, tokenTable, slotLock, locals>>
  BY <1>1, <1>3, MoveOn DEF WriterPCs, Answers
<1>4. CASE WriteSession(r, s, row) /\ Goto(r, w) /\ CanLockSession(r, s)
           /\ UNCHANGED <<clock, tokenTable, slotLock, locals>>
  <2>1. TypeOK'
    BY <1>1, <1>2, <1>4 DEF IInv, TypeOK, WriteSession, Goto, tokenTable, locals
  <2>2. HandlersRemember'
    BY <1>1, <1>4, Remembers DEF WriteSession, tokenTable, locals, Issued, Holds, Answers
  <2> QED BY <1>1, <1>2, <1>4, <2>1, <2>2, SessionWrite
<1>5. CASE GiveUp(r, "violation")
  BY <1>1, <1>5, GivesUp DEF Answers
<1> QED BY <1>3, <1>4, <1>5 DEF RevokeSession

\* A request that arrives has written nothing yet.
LEMMA ArriveStep == IInv /\ Arrive => IInv'
<1> SUFFICES ASSUME IInv, Arrive PROVE IInv'
  OBVIOUS
<1> USE DEF IInv, Goto, sessionTable, tokenTable
<1>1. ASSUME NEW r \in Logins, NEW d \in Slots, BeginIssue(r, d) PROVE IInv'
  <2>1. TypeOK'
    BY <1>1 DEF BeginIssue, TypeOK, PCs
  <2>2. HandlersRemember'
    BY <1>1, RequestsAssumption
       DEF BeginIssue, HandlersRemember, TypeOK, Running, Issued, Holds, Requests
  <2> QED BY <1>1, <2>1, <2>2, SameTables DEF BeginIssue, TypeOK, WriterPCs, PCs, Requests
<1>2. ASSUME NEW r \in Refreshes \cup Logouts, UnknownToken(r) PROVE IInv'
  BY <1>2, MoveOn, RequestsAssumption DEF UnknownToken, WriterPCs, PCs, Answers, Requests
<1>3. ASSUME NEW r \in Refreshes \cup Logouts, NEW t \in Tokens, FindByHash(r, t) PROVE IInv'
  <2>1. tokens[t] \in TokenRow
    BY <1>3 DEF FindByHash, TypeOK
  <2>2. TypeOK'
    BY <1>3, <2>1 DEF FindByHash, TypeOK, PCs, Requests
  <2>3. HandlersRemember'
    BY <1>3, <2>1, RequestsAssumption
       DEF FindByHash, HandlersRemember, TypeOK, Running, Issued, Holds, Requests
  <2> QED BY <1>3, <2>2, <2>3, SameTables DEF FindByHash, TypeOK, WriterPCs, PCs, Requests
<1> QED BY <1>1, <1>2, <1>3 DEF Arrive

\* Every statement of a login.
LEMMA IssueStepLemma ==
  ASSUME IInv, NEW r \in Logins, IssueStep(r)
  PROVE  IInv'
<1> USE DEF IInv, Goto, sessionTable, tokenTable, locals
<1>1. r \in Requests /\ r \in Sessions /\ r \in Tokens /\ r # None
  BY NoneAssumption DEF Requests, Sessions, Tokens
<1>2. CASE LockDeviceSlot(r)
  <2>1. TypeOK'
    BY <1>1, <1>2 DEF LockDeviceSlot, TypeOK, PCs
  <2>2. HandlersRemember'
    BY <1>1, <1>2, Remembers DEF LockDeviceSlot, PCs, Running, Answers, Issued, Holds
  <2> QED BY <1>1, <1>2, <2>1, <2>2, SameTables DEF LockDeviceSlot, WriterPCs, PCs
<1>3. CASE FindNoSession(r)
  BY <1>1, <1>3, MoveOn DEF FindNoSession, WriterPCs, PCs, Running, Answers
<1>4. CASE FindRecentSession(r)
  <2>1. PICK s \in SlotHolders(input[r]) : prior' = [prior EXCEPT ![r] = s]
    BY <1>4 DEF FindRecentSession
  <2>2. s \in Sessions /\ Holds(s)
    BY <2>1 DEF SlotHolders, HoldsSlot, Holds
  <2>3. TypeOK'
    BY <1>1, <1>4, <2>1, <2>2 DEF FindRecentSession, TypeOK, PCs
  <2>4. HandlersRemember'
    BY <1>1, <1>4, <2>1, <2>2, RequestsAssumption
       DEF FindRecentSession, HandlersRemember, TypeOK, Running, Issued, Holds, Requests
  <2> QED BY <1>1, <1>4, <2>3, <2>4, SameTables DEF FindRecentSession, WriterPCs, PCs
<1>5. CASE FindOlderSession(r)
  BY <1>1, <1>5, GivesUp DEF FindOlderSession, Running, Answers
<1>6. CASE Supersede(r)
  BY <1>1, <1>6, RevokesSession DEF Supersede, SessionReasons, HandlersRemember
<1>7. CASE InsertSession(r)
  <2>1. CASE GiveUp(r, "violation")
    BY <1>1, <1>7, <2>1, GivesUp DEF InsertSession, Running, Answers
  <2>2. CASE WriteSession(r, r, NewSession(r)) /\ Goto(r, "insertRoot")
             /\ UNCHANGED <<clock, tokenTable, slotLock, locals>>
    <3>1. NewSession(r) \in SessionRow
      BY <1>1, <1>7, DurationsAssumption
         DEF InsertSession, NewSession, SessionRow, TypeOK, HandlersRemember
    <3>2. TypeOK'
      BY <1>1, <2>2, <3>1 DEF WriteSession, TypeOK, PCs
    <3>3. HandlersRemember'
      BY <1>1, <1>7, <2>2, Remembers
         DEF InsertSession, WriteSession, PCs, Running, Answers, Issued, Holds
    <3> QED BY <1>1, <1>7, <2>2, <3>1, <3>2, <3>3, SessionWrite DEF InsertSession, PCs
  <2> QED BY <1>7, <2>1, <2>2 DEF InsertSession
<1>8. CASE InsertRootToken(r)
  <2>1. RootToken(r) \in TokenRow
    BY <1>1, DurationsAssumption DEF RootToken, TokenRow, TypeOK
  <2>2. TypeOK'
    BY <1>1, <1>8, <2>1 DEF InsertRootToken, WriteToken, TypeOK, PCs
  <2>3. HandlersRemember'
    BY <1>1, <1>8, Remembers
       DEF InsertRootToken, WriteToken, PCs, Running, Answers, Issued, Holds
  <2> QED BY <1>8, <2>2, <2>3, RootStep
<1>9. CASE CommitIssue(r)
  BY <1>1, <1>9, Commits DEF CommitIssue, Answers
<1> QED BY <1>2, <1>3, <1>4, <1>5, <1>6, <1>7, <1>8, <1>9 DEF IssueStep

\* ScanFamily and the rows of RevokeFamily, for refresh and logout alike.
LEMMA FamilySteps ==
  ASSUME IInv, NEW r \in Refreshes \cup Logouts,
         \/ ScanFamily(r)
         \/ \E why \in TokenReasons : RevokeRow(r, why)
  PROVE  IInv'
<1> USE DEF IInv, Goto, sessionTable, tokenTable
<1>1. r \in Requests
  BY DEF Requests
<1>2. CASE ScanFamily(r)
  <2>1. \A t \in FamilySnapshot(current[r].family) : t \in Tokens /\ Issued(t)
    BY DEF FamilySnapshot, Issued
  <2>2. TypeOK'
    BY <1>1, <1>2, <2>1 DEF ScanFamily, TypeOK, PCs
  <2>3. HandlersRemember'
    BY <1>1, <1>2, <2>1, RequestsAssumption
       DEF ScanFamily, HandlersRemember, TypeOK, Running, Answers, Issued, Holds, Requests
  <2> QED BY <1>1, <1>2, <2>2, <2>3, SameTables DEF ScanFamily, WriterPCs, PCs
<1>3. CASE \E why \in TokenReasons : RevokeRow(r, why)
  <2>1. PICK why \in TokenReasons : RevokeRow(r, why)
    BY <1>3
  <2>2. PICK t \in scan[r] :
           /\ scan' = [scan EXCEPT ![r] = @ \ {t}]
           /\ IF tokenDraft[t].revoked = None
                THEN WriteToken(r, t, [tokenDraft[t] EXCEPT !.revoked = why])
                ELSE UNCHANGED tokenTable
           /\ UNCHANGED <<clock, sessionTable, slotLock, pc, input, stamp, prior, current>>
    BY <2>1 DEF RevokeRow
  <2>3. t \in Tokens /\ tokenDraft[t] \in TokenRow
    BY <1>1, <2>2, DraftKeepsRow DEF TypeOK, HandlersRemember
  <2>4. [tokenDraft[t] EXCEPT !.revoked = why] \in TokenRow
    BY <2>3 DEF TokenRow
  <2>5. TypeOK'
    BY <1>1, <2>2, <2>3, <2>4 DEF WriteToken, TypeOK
  <2>6. HandlersRemember'
    BY <1>1, <2>2 DEF WriteToken, HandlersRemember, TypeOK, Running, Issued, Holds
  <2> QED BY <2>1, <2>5, <2>6, RevokeRowStep
<1> QED BY <1>2, <1>3

\* Every statement of a refresh.
LEMMA RefreshStepLemma ==
  ASSUME IInv, NEW r \in Refreshes, RefreshStep(r)
  PROVE  IInv'
<1> USE DEF IInv, Goto, sessionTable, tokenTable, locals
<1>1. r \in Requests /\ r \in Tokens /\ r \notin Logins
  BY RequestsAssumption DEF Requests, Tokens
<1>2. CASE DetectReplay(r)
  BY <1>1, <1>2, MoveOn DEF DetectReplay, WriterPCs, PCs, Running, Answers
<1>3. CASE RejectDead(r)
  BY <1>1, <1>3, MoveOn DEF RejectDead, WriterPCs, PCs, Running, Answers
<1>4. CASE Mint(r)
  <2>1. TypeOK'
    BY <1>1, <1>4 DEF Mint, TypeOK, PCs
  <2>2. HandlersRemember'
    BY <1>1, <1>4, Remembers DEF Mint, PCs, Running, Answers, Issued, Holds
  <2> QED BY <1>1, <1>4, <2>1, <2>2, SameTables DEF Mint, TypeOK, WriterPCs, PCs
<1>5. CASE Consume(r)
  <2>1. input[r] \in Tokens /\ Issued(input[r])
    BY <1>1, <1>5 DEF Consume, HandlersRemember, Running, Answers
  <2>2. tokenDraft[input[r]] \in TokenRow
    BY <2>1, DraftKeepsRow
  <2>3. [tokenDraft[input[r]] EXCEPT !.consumed = TRUE] \in TokenRow
    BY <2>2 DEF TokenRow
  <2>4. TypeOK'
    BY <1>1, <1>5, <2>1, <2>3 DEF Consume, WriteToken, TypeOK, PCs
  <2>5. HandlersRemember'
    BY <1>1, <1>5, Remembers DEF Consume, WriteToken, PCs, Running, Answers, Issued, Holds
  <2> QED BY <1>5, <2>4, <2>5, ConsumeStep
<1>6. CASE LoseConsume(r)
  BY <1>1, <1>6, MoveOn DEF LoseConsume, WriterPCs, PCs, Running, Answers
<1>7. CASE InsertChild(r)
  <2>1. ChildToken(r) \in TokenRow
    BY <1>1, <1>7, DurationsAssumption
       DEF InsertChild, ChildToken, TokenRow, TypeOK, HandlersRemember, Running, Answers
  <2>2. TypeOK'
    BY <1>1, <1>7, <2>1 DEF InsertChild, WriteToken, TypeOK, PCs
  <2>3. HandlersRemember'
    BY <1>1, <1>7, Remembers DEF InsertChild, WriteToken, PCs, Running, Answers, Issued, Holds
  <2> QED BY <1>7, <2>2, <2>3, ChildStep
<1>8. CASE TouchSession(r)
  <2> DEFINE s == current[r].session
  <2>1. s \in Sessions /\ Holds(s)
    BY <1>1, <1>8
       DEF TouchSession, HandlersRemember, Running, Answers, References, TokenRow
  <2>2. sessionDraft[s] \in SessionRow
    BY <2>1 DEF TypeOK, DraftsExtendRows
  <2>3. TypeOK'
    BY <1>1, <1>8, <2>1, <2>2 DEF TouchSession, WriteSession, TypeOK, PCs
  <2>4. HandlersRemember'
    BY <1>1, <1>8, Remembers DEF TouchSession, WriteSession, PCs, Running, Answers, Issued, Holds
  <2> QED BY <1>1, <1>8, <2>1, <2>2, <2>3, <2>4, SessionWrite DEF TouchSession, PCs
<1>9. CASE CommitRotation(r)
  BY <1>1, <1>9, Commits DEF CommitRotation, Answers
<1>10. CASE ScanFamily(r) \/ RevokeReplayedRow(r)
  BY <1>10, FamilySteps DEF RevokeReplayedRow, TokenReasons
<1>11. CASE AnswerReplay(r)
  BY <1>1, <1>11, Commits DEF AnswerReplay, Answers
<1> QED BY <1>2, <1>3, <1>4, <1>5, <1>6, <1>7, <1>8, <1>9, <1>10, <1>11 DEF RefreshStep

\* Every statement of a logout.
LEMMA LogoutStepLemma ==
  ASSUME IInv, NEW r \in Logouts, LogoutStep(r)
  PROVE  IInv'
<1> USE DEF IInv
<1>1. r \in Requests
  BY DEF Requests
<1>2. CASE FindLogoutSession(r)
  BY <1>1, <1>2, MoveOn DEF FindLogoutSession, WriterPCs, PCs, Running, Answers
<1>3. CASE RevokeLoggedOut(r)
  <2>1. current[r].session \in Sessions /\ Holds(current[r].session)
    BY <1>3 DEF RevokeLoggedOut, HandlersRemember, Running, Answers, References, TokenRow
  <2> QED BY <1>1, <1>3, <2>1, RevokesSession DEF RevokeLoggedOut, SessionReasons
<1>4. CASE ScanFamily(r) \/ RevokeLoggedOutRow(r)
  BY <1>4, FamilySteps DEF RevokeLoggedOutRow, TokenReasons
<1>5. CASE FamilyRevoked(r)
  BY <1>1, <1>5, MoveOn DEF FamilyRevoked, WriterPCs, PCs, Running, Answers
<1>6. CASE CommitLogout(r)
  BY <1>1, <1>6, Commits DEF CommitLogout, Answers
<1> QED BY <1>2, <1>3, <1>4, <1>5, <1>6 DEF LogoutStep

-----------------------------------------------------------------------------
(* The theorems. *)

\* Every step of the system, failures and deadlock victims included.
LEMMA NextIInv == IInv /\ [Next]_vars => IInv'
<1> SUFFICES ASSUME IInv, [Next]_vars PROVE IInv'
  OBVIOUS
<1>1. CASE Arrive
  BY <1>1, ArriveStep
<1>2. CASE Step
  BY <1>2, IssueStepLemma, RefreshStepLemma, LogoutStepLemma DEF Step
<1>3. ASSUME NEW r \in Requests, Fail(r) PROVE IInv'
  BY <1>3, GivesUp DEF Fail, ErrorAnswer, Answers
<1>4. ASSUME NEW r \in Requests, CommitUnanswered(r) PROVE IInv'
  BY <1>4, Commits DEF CommitUnanswered, Answers
<1>5. ASSUME NEW r \in Requests, DeadlockVictim(r) PROVE IInv'
  <2>1. Running(r)
    BY <1>5 DEF DeadlockVictim, InDeadlock, WaitsFor, Running, Answers
  <2> QED BY <1>5, <2>1, GivesUp DEF DeadlockVictim, ErrorAnswer, Answers
<1>6. CASE Tick
  BY <1>6 DEF Tick, IInv, TypeOK, HandlersRemember, DraftsExtendRows, References, MintedAtCommit,
              LoginWrites, RefreshWrites, RefreshHas, OnlyWriters, RevokeDraft, ConsumedExactlyOnce,
              OneUnspentTokenPerFamily, ChildToken, ChildOf, Issued, Holds, Running,
              sessionTable, tokenTable, locals
<1>7. CASE UNCHANGED vars
  BY <1>7 DEF vars, IInv, TypeOK, HandlersRemember, DraftsExtendRows, References, MintedAtCommit,
              LoginWrites, RefreshWrites, RefreshHas, OnlyWriters, RevokeDraft, ConsumedExactlyOnce,
              OneUnspentTokenPerFamily, ChildToken, ChildOf, Issued, Holds, Running,
              sessionTable, tokenTable, locals
<1> QED BY <1>1, <1>2, <1>3, <1>4, <1>5, <1>6, <1>7 DEF Next, AllAnswered

\* However many logins, refreshes and logouts interleave, fail or deadlock, the
\* tables, the drafts and what the handlers remember fit together.
THEOREM Invariance == Spec => []IInv
<1>1. Init => IInv
  BY InitIInv
<1>2. IInv /\ [Next]_vars => IInv'
  BY NextIInv
<1> QED BY <1>1, <1>2, PTL DEF Spec

\* Handlers and PostgreSQL only ever store rows, locks and states of their types.
THEOREM TypeCorrectness == Spec => []TypeOK
<1>1. IInv => TypeOK
  BY DEF IInv
<1> QED BY <1>1, Invariance, PTL

\* Refresh rotation is atomic and single-use: a refresh token is consumed exactly
\* when one replacement of it is committed, however many callers present it.
THEOREM RotationIsSingleUse == Spec => []ConsumedExactlyOnce
<1>1. IInv => ConsumedExactlyOnce
  BY DEF IInv
<1> QED BY <1>1, Invariance, PTL

\* A token family is a chain with a single unspent end, whatever rotations,
\* replays and logouts interleave.
THEOREM FamilyHasOneEnd == Spec => []OneUnspentTokenPerFamily
<1>1. IInv => OneUnspentTokenPerFamily
  BY DEF IInv
<1> QED BY <1>1, Invariance, PTL
=============================================================================
