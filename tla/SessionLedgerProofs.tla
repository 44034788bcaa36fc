------------------------ MODULE SessionLedgerProofs -------------------------
(***************************************************************************)
(* The session tables implement the ledger: every committed transaction is *)
(* one step of it, for every number of requests.                           *)
(***************************************************************************)
EXTENDS SessionSafetyProofs

(* The mapping. *)

\* The unrevoked session of a slot and the unspent token of a family are unique, so the
\* ledger's view of them is what the tables say.
LedgerFits ==
    /\ \A d \in Slots, s \in Sessions : HoldsSlot(sessions[s], d) => LedgerHolder[d] = s
    /\ \A d \in Slots : (\A s \in Sessions : ~HoldsSlot(sessions[s], d)) => LedgerHolder[d] = None
    /\ \A s \in Sessions : \A t \in LedgerMembers[s] : ~tokens[t].consumed => LedgerHead[s] = t
    /\ \A s \in Sessions : (\A t \in LedgerMembers[s] : tokens[t].consumed) => LedgerHead[s] = None

\* The invariant makes the mapping a function of the tables.
LEMMA Fits == SInv => LedgerFits
<1> SUFFICES ASSUME SInv PROVE LedgerFits
  OBVIOUS
<1>1. ASSUME NEW d \in Slots, NEW s \in Sessions, HoldsSlot(sessions[s], d)
      PROVE  LedgerHolder[d] = s
  <2>1. \A x \in Sessions : HoldsSlot(sessions[x], d) => x = s
    BY <1>1 DEF SInv, OneHolder
  <2> QED BY <1>1, <2>1 DEF LedgerHolder
<1>2. ASSUME NEW d \in Slots, \A s \in Sessions : ~HoldsSlot(sessions[s], d)
      PROVE  LedgerHolder[d] = None
  BY <1>2 DEF LedgerHolder
<1>3. ASSUME NEW s \in Sessions, NEW t \in LedgerMembers[s], ~tokens[t].consumed
      PROVE  LedgerHead[s] = t
  <2>1. \A u \in LedgerMembers[s] : ~tokens[u].consumed => u = t
    BY <1>3 DEF LedgerMembers, SInv, IInv, OneUnspentTokenPerFamily
  <2> HIDE DEF LedgerMembers
  <2> QED BY <1>3, <2>1 DEF LedgerHead
<1>4. ASSUME NEW s \in Sessions, \A t \in LedgerMembers[s] : tokens[t].consumed
      PROVE  LedgerHead[s] = None
  BY <1>4 DEF LedgerHead
<1> QED BY <1>1, <1>2, <1>3, <1>4 DEF LedgerFits

\* Before and after a step.
LEMMA FitsBoth ==
  ASSUME SInv, SInv'
  PROVE  LedgerFits /\ LedgerFits'
<1>1. SInv' => LedgerFits'
  BY Fits, PTL
<1> QED BY <1>1, Fits

\* A slot whose holders stay the same.
LEMMA SameHolder ==
  ASSUME LedgerFits, LedgerFits', NEW d \in Slots,
         \A s \in Sessions : HoldsSlot(sessions'[s], d) <=> HoldsSlot(sessions[s], d)
  PROVE  LedgerHolder'[d] = LedgerHolder[d]
<1>1. CASE \E s \in Sessions : HoldsSlot(sessions[s], d)
  BY <1>1 DEF LedgerFits
<1>2. CASE \A s \in Sessions : ~HoldsSlot(sessions[s], d)
  BY <1>2 DEF LedgerFits
<1> QED BY <1>1, <1>2

\* A family whose unspent tokens stay the same.
LEMMA SameHead ==
  ASSUME LedgerFits, LedgerFits', NEW s \in Sessions, LedgerMembers'[s] = LedgerMembers[s],
         \A t \in LedgerMembers[s] : tokens'[t].consumed <=> tokens[t].consumed
  PROVE  LedgerHead'[s] = LedgerHead[s]
<1>1. CASE \E t \in LedgerMembers[s] : ~tokens[t].consumed
  BY <1>1 DEF LedgerFits
<1>2. CASE \A t \in LedgerMembers[s] : tokens[t].consumed
  BY <1>2 DEF LedgerFits
<1> QED BY <1>1, <1>2

\* The ledger's state is made of functions.
LEMMA LedgerFunctions ==
  /\ LedgerHolder = [d \in Slots |-> LedgerHolder[d]]
  /\ LedgerHolder' = [d \in Slots |-> LedgerHolder'[d]]
  /\ LedgerMembers = [s \in Sessions |-> LedgerMembers[s]]
  /\ LedgerMembers' = [s \in Sessions |-> LedgerMembers'[s]]
  /\ LedgerHead = [s \in Sessions |-> LedgerHead[s]]
  /\ LedgerHead' = [s \in Sessions |-> LedgerHead'[s]]
<1>1. LedgerHolder = [d \in Slots |-> LedgerHolder[d]] /\ LedgerHolder' = [d \in Slots |-> LedgerHolder'[d]]
  BY DEF LedgerHolder
<1>2. LedgerMembers = [s \in Sessions |-> LedgerMembers[s]]
      /\ LedgerMembers' = [s \in Sessions |-> LedgerMembers'[s]]
  BY DEF LedgerMembers
<1>3. LedgerHead = [s \in Sessions |-> LedgerHead[s]] /\ LedgerHead' = [s \in Sessions |-> LedgerHead'[s]]
  BY DEF LedgerHead
<1> QED BY <1>1, <1>2, <1>3

-----------------------------------------------------------------------------
(* Each transaction is a step of the ledger. *)

\* What r wrote to the tokens, by what r is.
LEMMA OwnTokens ==
  ASSUME SInv, NEW r \in Requests, Committing(r), NEW t \in Tokens, tokenLock[t] = r
  PROVE  \/ r \in Logins /\ t = r
         \/ r \in Refreshes /\ pc[r] = "commit" /\ t \in {input[r], r}
         \/ /\ \/ r \in Logouts
               \/ r \in Refreshes /\ pc[r] = "revokeRows"
            /\ RevokeDraft(t) /\ tokens[t].family = current[r].family
<1>1. OnlyWriters /\ (r \in Refreshes \cup Logouts => FamilyOnly(r))
  BY DEF SInv, IInv, HandlerKnows
<1> QED BY <1>1, RequestsAssumption DEF OnlyWriters, Committing, FamilyOnly

\* A login opens its session.
LEMMA LoginOpens ==
  ASSUME SInv, SInv', NEW r \in Logins, Committing(r)
  PROVE  \E d \in Slots : Ledger!Open(r, d)
<1>d. PICK d : d = input[r]
  OBVIOUS
<1>0. /\ r \in Requests /\ r \in Sessions /\ r \in Tokens /\ r \notin Refreshes /\ r \notin Logouts
      /\ pc[r] = "commit" /\ Commit(r) /\ Frame(r) /\ d \in Slots
  BY <1>d, CommitsFrame, RequestsAssumption
     DEF Requests, Sessions, Tokens, Committing, SInv, IInv, HandlersRemember
<1>1. ~Holds(r) /\ ~Issued(r) /\ sessionLock[r] = r /\ tokenLock[r] = r
      /\ tokenDraft[r] \in TokenRow /\ tokenDraft[r].family = r /\ ~tokenDraft[r].consumed
      /\ tokenDraft[r].revoked = None
  BY <1>0 DEF SInv, IInv, OpenedAtCommit, MintedAtCommit, LoginWrites, HandlerKnows, LoginHas
<1>2. sessionDraft[r] = NewSession(r)
  BY <1>0, <1>1 DEF SInv, HandlerKnows, SessionWriter, RevokedDraft
<1>3. /\ tokens'[r] = tokenDraft[r]
      /\ \A t \in Tokens : t # r => tokens'[t] = tokens[t]
  BY <1>0, <1>1, OwnTokens DEF Commit
<1>4. LedgerFits /\ LedgerFits'
  BY FitsBoth
<1>5. LedgerMembers[r] = {}
  <2>1. \A t \in Tokens : Issued(t) => tokens[t].family # r
    BY <1>1 DEF SInv, IInv, References
  <2> QED BY <1>0, <2>1 DEF LedgerMembers
<1>6. /\ LedgerMembers'[r] = {r}
      /\ \A s \in Sessions : s # r => LedgerMembers'[s] = LedgerMembers[s]
  <2>1. tokens'[r] # None /\ tokens'[r].family = r
    BY <1>1, <1>3, NoneAssumption
  <2>2. \A t \in Tokens : Issued(t) => tokens[t].family # r
    BY <1>1 DEF SInv, IInv, References
  <2>3. LedgerMembers'[r] = {r}
    BY <1>0, <1>3, <2>1, <2>2 DEF LedgerMembers, Issued
  <2>4. ASSUME NEW s \in Sessions, s # r PROVE LedgerMembers'[s] = LedgerMembers[s]
    BY <1>1, <1>3, <2>1, <2>4 DEF LedgerMembers, Issued
  <2> QED BY <2>3, <2>4
<1>7. /\ LedgerHead'[r] = r
      /\ \A s \in Sessions : s # r => LedgerHead'[s] = LedgerHead[s]
  <2>1. LedgerHead'[r] = r
    BY <1>0, <1>1, <1>3, <1>4, <1>6 DEF LedgerFits
  <2>2. ASSUME NEW s \in Sessions, s # r PROVE LedgerHead'[s] = LedgerHead[s]
    <3>1. \A t \in LedgerMembers[s] : t \in Tokens /\ t # r
      BY <1>1, <2>2 DEF LedgerMembers
    <3> QED BY <1>3, <1>4, <1>6, <2>2, <3>1, SameHead
  <2> QED BY <2>1, <2>2
<1>8. /\ LedgerHolder'[d] = r
      /\ \A e \in Slots : e # d => LedgerHolder'[e] = LedgerHolder[e]
  <2>1. HoldsSlot(sessions'[r], d)
    <3>1. sessions'[r] = sessionDraft[r] /\ sessionDraft[r] # None
      BY <1>0, <1>1 DEF Commit, SInv, IInv, LoginWrites
    <3> QED BY <1>d, <1>2, <3>1 DEF HoldsSlot, NewSession
  <2>2. LedgerHolder'[d] = r
    BY <1>0, <1>4, <2>1 DEF LedgerFits
  <2>3. ASSUME NEW e \in Slots, e # d PROVE LedgerHolder'[e] = LedgerHolder[e]
    <3>1. ASSUME NEW s \in Sessions, HoldsSlot(sessions'[s], e) PROVE HoldsSlot(sessions[s], e)
      BY <1>0, <1>d, <2>3, <3>1, NoNewHolder
    <3>2. ASSUME NEW s \in Sessions, HoldsSlot(sessions[s], e) PROVE HoldsSlot(sessions'[s], e)
      <4>1. sessionLock[s] # r
        BY <1>0, <1>1, <1>d, <2>3, <3>2 DEF SInv, HandlerKnows, SessionWriter, HoldsSlot, Holds
      <4> QED BY <1>0, <3>2, <4>1 DEF Commit
    <3> QED BY <1>4, <3>1, <3>2, SameHolder
  <2> QED BY <2>2, <2>3
<1>9. LedgerCut' = LedgerCut
  BY <1>0, <1>1, <1>3 DEF LedgerCut, Issued
<1>10. /\ LedgerHolder' = [LedgerHolder EXCEPT ![d] = r]
       /\ LedgerMembers' = [LedgerMembers EXCEPT ![r] = {r}]
       /\ LedgerHead' = [LedgerHead EXCEPT ![r] = r]
  <2>1. LedgerHolder' = [LedgerHolder EXCEPT ![d] = r]
    BY <1>0, <1>8, LedgerFunctions
  <2>2. LedgerMembers' = [LedgerMembers EXCEPT ![r] = {r}]
    BY <1>0, <1>6, LedgerFunctions
  <2>3. LedgerHead' = [LedgerHead EXCEPT ![r] = r]
    BY <1>0, <1>7, LedgerFunctions
  <2> QED BY <2>1, <2>2, <2>3
<1> QED BY <1>0, <1>5, <1>9, <1>10 DEF Ledger!Open

\* A refresh rotates the family it was presented a token of.
LEMMA RefreshRotates ==
  ASSUME SInv, SInv', NEW r \in Refreshes, Committing(r), pc[r] = "commit"
  PROVE  \E s \in Sessions : Ledger!Rotate(s, r)
<1>f. PICK i, f : i = input[r] /\ f = current[r].family
  OBVIOUS
<1>0. /\ r \in Requests /\ r \in Tokens /\ r \notin Logins /\ r \notin Logouts
      /\ Running(r) /\ Commit(r) /\ Frame(r)
  BY CommitsFrame, RequestsAssumption DEF Requests, Tokens, Running, Answers
<1>1. /\ i \in Tokens /\ Issued(i) /\ tokens[i].family = f /\ f \in Sessions /\ ~Issued(r)
      /\ tokens[i] \in TokenRow /\ current[r] \in TokenRow
  <2>1. /\ i \in Tokens /\ Issued(i) /\ tokens[i].family = f
        /\ current[r] \in TokenRow
    BY <1>f, <1>0 DEF SInv, IInv, HandlersRemember
  <2>2. tokens[i] \in TokenRow
    BY <2>1 DEF SInv, IInv, TypeOK, Issued
  <2>3. ~Issued(r)
    BY <1>0 DEF SInv, IInv, MintedAtCommit
  <2> QED BY <1>f, <2>1, <2>2, <2>3 DEF TokenRow
<1>2. /\ tokenLock[i] = r /\ tokenLock[r] = r /\ ~tokens[i].consumed
      /\ tokenDraft[i] = [tokens[i] EXCEPT !.consumed = TRUE]
      /\ tokenDraft[r] = ChildToken(r)
  BY <1>f DEF SInv, IInv, RefreshWrites, RefreshHas
<1>3. /\ tokens'[i].consumed /\ tokens'[i].family = f /\ tokens'[i].revoked = tokens[i].revoked
      /\ tokens'[i] # None
      /\ tokens'[r].family = f /\ ~tokens'[r].consumed /\ tokens'[r].revoked = None
      /\ tokens'[r] # None
      /\ \A t \in Tokens : t \notin {i, r} => tokens'[t] = tokens[t]
  <2>1. tokens'[i] = [tokens[i] EXCEPT !.consumed = TRUE] /\ tokens'[r] = ChildToken(r)
    BY <1>0, <1>1, <1>2 DEF Commit
  <2>2. tokens'[i] # None /\ tokens'[r] # None
    <3>1. ChildToken(r) \in TokenRow
      BY <1>f, <1>0, <1>1, DurationsAssumption DEF ChildToken, TokenRow, SInv, IInv, TypeOK
    <3> QED BY <1>0, <1>1, <2>1, <3>1, TablesGrow, NoneAssumption DEF Issued
  <2>3. \A t \in Tokens : t \notin {i, r} => tokens'[t] = tokens[t]
    BY <1>0, <1>f, OwnTokens DEF Commit
  <2> QED BY <1>f, <1>1, <2>1, <2>2, <2>3 DEF ChildToken, TokenRow
<1>4. LedgerFits /\ LedgerFits'
  BY FitsBoth
<1>5. LedgerMembers[f] # {} /\ \A s \in Sessions : r \notin LedgerMembers[s]
  BY <1>1 DEF LedgerMembers
<1>6. /\ LedgerMembers'[f] = LedgerMembers[f] \cup {r}
      /\ \A s \in Sessions : s # f => LedgerMembers'[s] = LedgerMembers[s]
  <2>1. ASSUME NEW s \in Sessions, NEW t \in Tokens
        PROVE  t \in LedgerMembers'[s] <=> t \in LedgerMembers[s] \/ (t = r /\ s = f)
    BY <1>1, <1>3, <2>1 DEF LedgerMembers, Issued
  <2>2. \A s \in Sessions : LedgerMembers[s] \subseteq Tokens /\ LedgerMembers'[s] \subseteq Tokens
    BY DEF LedgerMembers
  <2> HIDE DEF LedgerMembers
  <2> QED BY <1>0, <1>1, <2>1, <2>2
<1>7. /\ LedgerHead'[f] = r
      /\ \A s \in Sessions : s # f => LedgerHead'[s] = LedgerHead[s]
  <2>1. LedgerHead'[f] = r
    BY <1>1, <1>3, <1>4, <1>6 DEF LedgerFits
  <2>2. ASSUME NEW s \in Sessions, s # f PROVE LedgerHead'[s] = LedgerHead[s]
    <3>1. \A t \in LedgerMembers[s] : t \in Tokens /\ t \notin {i, r}
      BY <1>1, <2>2 DEF LedgerMembers
    <3> QED BY <1>3, <1>4, <1>6, <2>2, <3>1, SameHead
  <2> QED BY <2>1, <2>2
<1>8. LedgerHolder' = LedgerHolder
  <2>1. \A s \in Sessions : sessions'[s] = sessions[s]
    BY <1>0, RequestsAssumption DEF Commit, SInv, HandlerKnows, SessionWriter
  <2>2. \A d \in Slots : LedgerHolder'[d] = LedgerHolder[d]
    BY <1>4, <2>1, SameHolder
  <2> QED BY <2>2, LedgerFunctions
<1>9. LedgerCut' = LedgerCut
  <2>1. \A t \in Tokens : t \in LedgerCut' <=> t \in LedgerCut
    BY <1>1, <1>3 DEF LedgerCut, Issued
  <2>2. LedgerCut \subseteq Tokens /\ LedgerCut' \subseteq Tokens
    BY DEF LedgerCut
  <2> HIDE DEF LedgerCut
  <2> QED BY <2>1, <2>2
<1>10. /\ LedgerMembers' = [LedgerMembers EXCEPT ![f] = @ \cup {r}]
       /\ LedgerHead' = [LedgerHead EXCEPT ![f] = r]
  <2>1. LedgerMembers' = [LedgerMembers EXCEPT ![f] = @ \cup {r}]
    BY <1>1, <1>6, LedgerFunctions
  <2>2. LedgerHead' = [LedgerHead EXCEPT ![f] = r]
    BY <1>1, <1>7, LedgerFunctions
  <2> QED BY <2>1, <2>2
<1>11. r \notin UNION {LedgerMembers[x] : x \in Sessions}
  BY <1>5
<1> QED BY <1>1, <1>5, <1>8, <1>9, <1>10, <1>11 DEF Ledger!Rotate

\* What the revocation of a family does to the tokens.
LEMMA RevocationsCut ==
  ASSUME SInv, SInv', NEW r \in Refreshes \cup Logouts, Committing(r),
         r \in Logouts \/ pc[r] = "revokeRows"
  PROVE  /\ current[r].family \in Sessions
         /\ current[r].session = current[r].family
         /\ \E T \in SUBSET LedgerMembers[current[r].family] : LedgerCut' = LedgerCut \cup T
         /\ UNCHANGED <<LedgerMembers, LedgerHead>>
<1>f. PICK f : f = current[r].family
  OBVIOUS
<1>0. /\ r \in Requests /\ r \notin Logins /\ Running(r) /\ Commit(r) /\ Frame(r)
      /\ r \in Refreshes => pc[r] # "commit"
  BY CommitsFrame, RequestsAssumption DEF Requests, Committing, Running, Answers
<1>1. f \in Sessions /\ current[r].session = f
  BY <1>f, <1>0 DEF SInv, IInv, HandlersRemember, Chains, TokenRow
<1>2. ASSUME NEW t \in Tokens, tokenLock[t] = r
      PROVE  /\ Issued(t) /\ tokens[t].family = f /\ tokens[t] \in TokenRow
             /\ tokenDraft[t] \in TokenRow
             /\ tokenDraft[t] = [tokens[t] EXCEPT !.revoked = tokenDraft[t].revoked]
  BY <1>f, <1>0, <1>2, OwnTokens DEF RevokeDraft, SInv, IInv, TypeOK, Issued
<1>3. ASSUME NEW t \in Tokens
      PROVE  /\ Issued(t)' <=> Issued(t)
             /\ Issued(t) => /\ tokens'[t].family = tokens[t].family
                             /\ tokens'[t].consumed = tokens[t].consumed
                             /\ tokens[t].revoked # None => tokens'[t].revoked # None
             /\ tokens'[t] # tokens[t] => Issued(t) /\ tokens[t].family = f
  <2>1. CASE tokenLock[t] = r
    <3>1. tokens'[t] = tokenDraft[t]
      BY <1>0, <2>1 DEF Commit
    <3>2. tokenDraft[t].family = tokens[t].family /\ tokenDraft[t].consumed = tokens[t].consumed
      BY <1>2, <2>1 DEF TokenRow
    <3>3. tokens[t].revoked # None => tokens'[t].revoked # None
      BY <1>2, <2>1, <3>1 DEF SInv, DraftsOnlyAdd
    <3> QED BY <1>2, <2>1, <3>1, <3>2, <3>3, NoneAssumption DEF Issued
  <2>2. CASE tokenLock[t] # r
    BY <1>0, <2>2 DEF Commit, Issued
  <2> QED BY <2>1, <2>2
<1>4. LedgerFits /\ LedgerFits'
  BY FitsBoth
<1>5. \A s \in Sessions : LedgerMembers'[s] = LedgerMembers[s]
  BY <1>3 DEF LedgerMembers, Issued
<1>6. \A s \in Sessions : LedgerHead'[s] = LedgerHead[s]
  <2> SUFFICES ASSUME NEW s \in Sessions PROVE LedgerHead'[s] = LedgerHead[s]
    OBVIOUS
  <2>1. \A t \in LedgerMembers[s] : t \in Tokens /\ Issued(t)
    BY DEF LedgerMembers
  <2> QED BY <1>3, <1>4, <1>5, <2>1, SameHead
<1>7. UNCHANGED <<LedgerMembers, LedgerHead>>
  BY <1>5, <1>6, LedgerFunctions
<1>8. \E T \in SUBSET LedgerMembers[f] : LedgerCut' = LedgerCut \cup T
  <2>1. PICK T : T = LedgerCut' \ LedgerCut
    OBVIOUS
  <2>2. ASSUME NEW t \in T PROVE t \in LedgerMembers[f]
    <3>1. t \in Tokens /\ tokens'[t] # tokens[t]
      BY <2>1, <2>2 DEF LedgerCut, Issued
    <3> QED BY <1>1, <1>3, <3>1 DEF LedgerMembers
  <2>3. \A t \in LedgerCut : t \in LedgerCut'
    BY <1>3 DEF LedgerCut
  <2> HIDE DEF LedgerCut, LedgerMembers
  <2> QED BY <2>1, <2>2, <2>3
<1> QED BY <1>f, <1>1, <1>7, <1>8

\* A replay cuts tokens of the family.
LEMMA ReplayCuts ==
  ASSUME SInv, SInv', NEW r \in Refreshes, Committing(r), pc[r] = "revokeRows"
  PROVE  \E s \in Sessions : Ledger!CutFamily(s)
<1>1. r \in Requests /\ Commit(r) /\ \A s \in Sessions : sessionLock[s] # r
  BY CommitsFrame, NoSessionLocked DEF Requests
<1>2. \A s \in Sessions : sessions'[s] = sessions[s]
  BY <1>1 DEF Commit
<1>3. UNCHANGED LedgerHolder
  <2>1. \A d \in Slots : LedgerHolder'[d] = LedgerHolder[d]
    BY <1>2, FitsBoth, SameHolder
  <2> QED BY <2>1, LedgerFunctions
<1> QED BY <1>3, RevocationsCut DEF Ledger!CutFamily

\* A logout closes the session and cuts tokens of its family, or only cuts them when the
\* session was closed before.
LEMMA LogoutCloses ==
  ASSUME SInv, SInv', NEW r \in Logouts, Committing(r)
  PROVE  \E s \in Sessions : Ledger!CutFamily(s) \/ \E d \in Slots : Ledger!Close(s, d)
<1>s. PICK s : s = current[r].session
  OBVIOUS
<1>0. r \in Requests /\ r \notin Logins /\ r \notin Refreshes /\ pc[r] = "commit" /\ Commit(r) /\ Frame(r)
  BY CommitsFrame, RequestsAssumption DEF Requests, Committing
<1>1. /\ s \in Sessions
      /\ \E T \in SUBSET LedgerMembers[s] : LedgerCut' = LedgerCut \cup T
      /\ UNCHANGED <<LedgerMembers, LedgerHead>>
  BY <1>s, RevocationsCut
<1>2. \A x \in Sessions : sessionLock[x] = r => x = s /\ RevokedDraft(s, "USER_LOGOUT")
  BY <1>s, <1>0 DEF SInv, HandlerKnows, SessionWriter
<1>3. LedgerFits /\ LedgerFits'
  BY FitsBoth
<1>4. CASE sessionLock[s] # r
  <2>1. \A x \in Sessions : sessions'[x] = sessions[x]
    BY <1>0, <1>2, <1>4 DEF Commit
  <2>2. \A d \in Slots : LedgerHolder'[d] = LedgerHolder[d]
    BY <1>3, <2>1, SameHolder
  <2>3. UNCHANGED LedgerHolder
    BY <2>2, LedgerFunctions
  <2> QED BY <1>1, <2>3 DEF Ledger!CutFamily
<1>5. CASE sessionLock[s] = r
  <2>d. PICK d : d = sessions[s].slot
    OBVIOUS
  <2>1. d \in Slots /\ HoldsSlot(sessions[s], d) /\ \A e \in Slots : HoldsSlot(sessions[s], e) => e = d
    BY <1>1, <1>2, <1>5, <2>d
       DEF RevokedDraft, Holds, HoldsSlot, SessionRow, SInv, IInv, TypeOK
  <2>2. /\ \A e \in Slots : ~HoldsSlot(sessions'[s], e)
        /\ \A x \in Sessions : x # s => sessions'[x] = sessions[x]
    <3>1. sessions'[s].revoked # None
      BY <1>0, <1>1, <1>2, <1>5, NoneAssumption DEF Commit, RevokedDraft, SessionReasons
    <3>2. \A x \in Sessions : x # s => sessions'[x] = sessions[x]
      BY <1>0, <1>2 DEF Commit
    <3> QED BY <3>1, <3>2 DEF HoldsSlot
  <2>3. LedgerHolder[d] = s /\ LedgerHolder'[d] = None
    <3>1. \A x \in Sessions : ~HoldsSlot(sessions'[x], d)
      BY <1>1, <2>1, <2>2 DEF SInv, OneHolder
    <3> QED BY <1>1, <1>3, <2>1, <3>1 DEF LedgerFits
  <2>4. ASSUME NEW e \in Slots, e # d PROVE LedgerHolder'[e] = LedgerHolder[e]
    <3>1. \A x \in Sessions : HoldsSlot(sessions'[x], e) <=> HoldsSlot(sessions[x], e)
      BY <2>1, <2>2, <2>4
    <3> QED BY <1>3, <3>1, SameHolder
  <2>5. LedgerHolder' = [LedgerHolder EXCEPT ![d] = None]
    BY <2>1, <2>3, <2>4, LedgerFunctions
  <2> QED BY <1>1, <2>1, <2>3, <2>5 DEF Ledger!Close
<1> QED BY <1>4, <1>5

-----------------------------------------------------------------------------
(* The refinement. *)

\* The empty tables are the empty ledger.
LEMMA LedgerInit == Init => Ledger!Init
<1> SUFFICES ASSUME Init PROVE Ledger!Init
  OBVIOUS
<1>1. \A s \in Sessions : sessions[s] = None
  BY DEF Init
<1>2. \A t \in Tokens : ~Issued(t)
  BY DEF Init, Issued
<1>3. LedgerHolder = [d \in Slots |-> None]
  BY <1>1 DEF LedgerHolder, HoldsSlot
<1>4. LedgerMembers = [s \in Sessions |-> {}]
  BY <1>2 DEF LedgerMembers
<1>5. LedgerHead = [s \in Sessions |-> None]
  BY <1>4 DEF LedgerHead
<1>6. LedgerCut = {}
  BY <1>2 DEF LedgerCut
<1> QED BY <1>3, <1>4, <1>5, <1>6 DEF Ledger!Init

\* Every step is a step of the ledger or leaves it alone.
LEMMA LedgerStep ==
  ASSUME SInv, SInv', [Next]_vars
  PROVE  [Ledger!Next]_(Ledger!ledger)
<1>1. CASE UNCHANGED <<sessions, tokens>>
  <2>1. LedgerHolder' = LedgerHolder
    BY <1>1 DEF LedgerHolder
  <2>2. LedgerMembers' = LedgerMembers /\ LedgerCut' = LedgerCut
    BY <1>1 DEF LedgerMembers, LedgerCut, Issued
  <2>3. LedgerHead' = LedgerHead
    BY <1>1, <2>2 DEF LedgerHead
  <2> QED BY <2>1, <2>2, <2>3 DEF Ledger!ledger
<1>2. ASSUME NEW r \in Requests, Committing(r) PROVE Ledger!Next
  <2>1. CASE r \in Logins
    BY <1>2, <2>1, LoginOpens DEF Ledger!Next, Sessions
  <2>2. CASE r \in Refreshes /\ pc[r] = "commit"
    BY <1>2, <2>2, RefreshRotates DEF Ledger!Next, Tokens
  <2>3. CASE r \in Refreshes /\ pc[r] = "revokeRows"
    BY <1>2, <2>3, ReplayCuts DEF Ledger!Next
  <2>4. CASE r \in Logouts
    BY <1>2, <2>4, LogoutCloses DEF Ledger!Next
  <2> QED BY <1>2, <2>1, <2>2, <2>3, <2>4 DEF Requests, Committing
<1> QED BY <1>1, <1>2, OnlyCommitsWrite

\* Logins, rotations, replays and logouts, however their statements interleave, change
\* the committed tables as single steps of the ledger or not at all.
THEOREM LedgerRefinement == Spec => ImplementsLedger
<1>1. Init => Ledger!Init
  BY LedgerInit
<1>2. SInv /\ SInv' /\ [Next]_vars => [Ledger!Next]_(Ledger!ledger)
  BY LedgerStep
<1> QED BY <1>1, <1>2, SafetyInvariance, PTL DEF Spec, ImplementsLedger, Ledger!Spec
=============================================================================
