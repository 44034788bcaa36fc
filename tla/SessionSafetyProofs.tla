------------------------ MODULE SessionSafetyProofs -------------------------
(***************************************************************************)
(* What the session tables promise beyond rotation, for every number of    *)
(* requests and every choice of durations: a slot is emptied by logouts    *)
(* only and no constraint is ever violated, a logout is final, a replay    *)
(* revokes the replacement, and a revocation is permanent.                 *)
(***************************************************************************)
EXTENDS SessionLifecycleProofs

(* The inductive invariant. *)

\* No transaction takes a revocation or an exchange back, and a session row nobody
\* locked is as committed.
DraftsOnlyAdd ==
    /\ \A s \in Sessions :
          /\ sessionLock[s] = None => sessionDraft[s] = sessions[s]
          /\ Holds(s) /\ sessions[s].revoked # None => sessionDraft[s] = sessions[s]
    /\ \A t \in Tokens : Issued(t) =>
          /\ tokens[t].consumed => tokenDraft[t].consumed
          /\ tokens[t].revoked # None => tokenDraft[t].revoked = tokens[t].revoked

\* Nothing was created or stamped in the future, or revoked before it was created.
RowInTime(row) == row # None => row.created <= clock /\ RevocationCheck(row)

InTime ==
    /\ \A r \in Requests : stamp[r] <= clock
    /\ \A s \in Sessions : RowInTime(sessions[s]) /\ RowInTime(sessionDraft[s])

\* A session appears when the transaction of its login commits.
OpenedAtCommit == \A s \in Sessions : Holds(s) => pc[s] \in {"ok", "error"}

\* uq_sessions_active_device
OneHolder ==
    \A s, x \in Sessions, d \in Slots :
        HoldsSlot(sessions[s], d) /\ HoldsSlot(sessions[x], d) => s = x

\* A family is named by its session, and a child is of its parent's family.
Chains ==
    \A t \in Tokens : Issued(t) =>
        /\ tokens[t].session = tokens[t].family
        /\ tokens[t].parent # None => tokens[tokens[t].parent].family = tokens[t].family

\* The draft of s is its row, revoked.
RevokedDraft(s, why) ==
    /\ Holds(s) /\ sessions[s].revoked = None
    /\ sessionDraft[s].slot = sessions[s].slot
    /\ sessionDraft[s].revoked = why

\* Who writes which session rows.
SessionWriter(r) ==
    \A s \in Sessions : sessionLock[s] = r =>
        \/ /\ r \in Logins /\ pc[r] \in {"insertSession", "insertRoot", "commit"}
           /\ RevokedDraft(s, "SESSION_SUPERSEDED") /\ sessions[s].slot = input[r]
        \/ /\ r \in Logins /\ pc[r] \in {"insertRoot", "commit"}
           /\ s = r /\ sessionDraft[s] = NewSession(r)
        \/ r \in Refreshes /\ pc[r] = "commit" /\ Holds(s) /\ sessionDraft[s] = sessions[s]
        \/ /\ r \in Logouts /\ pc[r] \in {"scanFamily", "revokeRows", "commit"}
           /\ s = current[r].session /\ RevokedDraft(s, "USER_LOGOUT")

\* A login past LockDeviceSlot has the slot to itself, and past Supersede it has revoked
\* whatever session it found there.
LoginHas(r) ==
    /\ pc[r] \in {"findActive", "supersede", "insertSession", "insertRoot", "commit"} =>
          slotLock[input[r]] = r
    /\ pc[r] = "supersede" =>
          /\ sessions[prior[r]].slot = input[r]
          /\ \A s \in Sessions : HoldsSlot(sessions[s], input[r]) => s = prior[r]
    /\ pc[r] \in {"insertSession", "insertRoot", "commit"} =>
          \A s \in Sessions : HoldsSlot(sessions[s], input[r]) => sessionLock[s] = r
    /\ pc[r] = "commit" => tokenDraft[r].revoked = None

\* A logout past RevokeSession has revoked its session, or finds it revoked.
LogoutHas(r) ==
    LET s == current[r].session IN
    /\ pc[r] \in {"scanFamily", "revokeRows", "commit"} =>
          sessionLock[s] = r \/ sessions[s].revoked # None
    /\ pc[r] = "ok" => s \in Sessions /\ Holds(s) /\ sessions[s].revoked # None

\* A refresh that detected a replay revokes the token and its replacement, which exists.
ReplayRevokes(r, t) ==
    \/ tokens[t].revoked # None
    \/ /\ pc[r] = "revokeRows"
       /\ t \in scan[r] \/ (tokenLock[t] = r /\ tokenDraft[t].revoked # None)

ReplayKnows(r) ==
    /\ Running(r) /\ current[r].consumed => tokens[input[r]].consumed
    /\ pc[r] \in {"scanFamily", "revokeRows", "replay"} =>
          input[r] \in Tokens /\ Issued(input[r]) /\ tokens[input[r]].consumed
    /\ pc[r] \in {"revokeRows", "replay"} =>
          \A t \in Tokens : Issued(t) /\ (t = input[r] \/ ChildOf(t, input[r])) => ReplayRevokes(r, t)

\* RevokeFamily touches one family.
FamilyOnly(r) ==
    /\ pc[r] = "idle" => scan[r] = {}
    /\ \A t \in scan[r] : tokens[t].family = current[r].family
    /\ pc[r] = "revokeRows" \/ (r \in Logouts /\ pc[r] = "commit") =>
          \A t \in Tokens : tokenLock[t] = r => tokens[t].family = current[r].family

HandlerKnows(r) ==
    /\ SessionWriter(r)
    /\ r \in Logins => LoginHas(r)
    /\ r \in Logouts => LogoutHas(r)
    /\ r \in Refreshes => ReplayKnows(r)
    /\ r \in Refreshes \cup Logouts => FamilyOnly(r)

SInv ==
    /\ IInv
    /\ DraftsOnlyAdd
    /\ InTime
    /\ OpenedAtCommit
    /\ OneHolder
    /\ Chains
    /\ SlotEmptiedOnlyByLogout
    /\ NoConstraintViolation
    /\ \A r \in Requests : HandlerKnows(r)

-----------------------------------------------------------------------------
(* What a step of one request leaves to the others. *)

\* The handlers of the other requests stay where they are.
OthersWait(r) ==
    /\ clock' = clock
    /\ \A q \in Requests \ {r} :
          /\ pc'[q] = pc[q] /\ input'[q] = input[q] /\ stamp'[q] = stamp[q]
          /\ prior'[q] = prior[q] /\ current'[q] = current[q] /\ scan'[q] = scan[q]

\* And they keep their locks and drafts; the tables change by a commit of r only.
Frame(r) ==
    /\ OthersWait(r)
    /\ \A q \in Requests \ {r} :
          /\ \A d \in Slots : slotLock[d] = q => slotLock'[d] = q
          /\ \A s \in Sessions :
                /\ sessionLock'[s] = q <=> sessionLock[s] = q
                /\ sessionLock[s] = q => sessionDraft'[s] = sessionDraft[s]
          /\ \A t \in Tokens :
                /\ tokenLock'[t] = q <=> tokenLock[t] = q
                /\ tokenLock[t] = q => tokenDraft'[t] = tokenDraft[t]
    /\ UNCHANGED <<sessions, tokens>> \/ Commit(r)

\* A step that ends no transaction and writes no row.
LEMMA FrameOfMove ==
  ASSUME TypeOK, NEW r \in Requests, OthersWait(r), UNCHANGED <<sessionTable, tokenTable>>,
         \/ UNCHANGED slotLock
         \/ \E d \in Slots : slotLock[d] = None /\ slotLock' = [slotLock EXCEPT ![d] = r]
  PROVE  Frame(r)
<1>1. ASSUME NEW q \in Requests \ {r}, NEW d \in Slots, slotLock[d] = q PROVE slotLock'[d] = q
  BY <1>1, NoneAssumption DEF TypeOK
<1> QED BY <1>1 DEF Frame, OthersWait, sessionTable, tokenTable

\* A step that writes a session row.
LEMMA FrameOfSession ==
  ASSUME TypeOK, NEW r \in Requests, OthersWait(r), UNCHANGED <<tokenTable, slotLock>>,
         NEW s \in Sessions, NEW row, WriteSession(r, s, row), CanLockSession(r, s)
  PROVE  Frame(r)
<1>1. ASSUME NEW q \in Requests \ {r}, NEW x \in Sessions
      PROVE  /\ sessionLock'[x] = q <=> sessionLock[x] = q
             /\ sessionLock[x] = q => sessionDraft'[x] = sessionDraft[x]
  BY <1>1, NoneAssumption DEF TypeOK, WriteSession, CanLockSession
<1> QED BY <1>1 DEF Frame, WriteSession, tokenTable

\* A step that writes a token row.
LEMMA FrameOfToken ==
  ASSUME TypeOK, NEW r \in Requests, OthersWait(r), UNCHANGED <<sessionTable, slotLock>>,
         NEW t \in Tokens, NEW row, WriteToken(r, t, row), CanLockToken(r, t)
  PROVE  Frame(r)
<1>1. ASSUME NEW q \in Requests \ {r}, NEW x \in Tokens
      PROVE  /\ tokenLock'[x] = q <=> tokenLock[x] = q
             /\ tokenLock[x] = q => tokenDraft'[x] = tokenDraft[x]
  BY <1>1, NoneAssumption DEF TypeOK, WriteToken, CanLockToken
<1> QED BY <1>1 DEF Frame, WriteToken, sessionTable

\* A transaction that ends, either way.
LEMMA FrameOfEnd ==
  ASSUME TypeOK, NEW r \in Requests, NEW w \in PCs, GiveUp(r, w) \/ Finish(r, w)
  PROVE  Frame(r)
<1>1. OthersWait(r)
  BY DEF OthersWait, GiveUp, Finish, Goto, locals, TypeOK
<1>2. ASSUME NEW q \in Requests \ {r}
      PROVE  /\ \A d \in Slots : slotLock[d] = q => slotLock'[d] = q
             /\ \A s \in Sessions : sessionLock'[s] = q <=> sessionLock[s] = q
             /\ \A t \in Tokens : tokenLock'[t] = q <=> tokenLock[t] = q
  BY <1>2, NoneAssumption DEF GiveUp, Finish, ReleaseLocks, TypeOK
<1>3. ASSUME NEW q \in Requests \ {r}
      PROVE  /\ \A s \in Sessions : sessionLock[s] = q => sessionDraft'[s] = sessionDraft[s]
             /\ \A t \in Tokens : tokenLock[t] = q => tokenDraft'[t] = tokenDraft[t]
  BY <1>3 DEF GiveUp, Finish, Rollback, Commit, TypeOK
<1> QED BY <1>1, <1>2, <1>3 DEF Frame, GiveUp, Finish, Rollback

-----------------------------------------------------------------------------
(* What the others know stays true. *)

\* Rows stay, and keep what handlers remember of them.
LEMMA TablesGrow ==
  ASSUME SInv, NEW r \in Requests, Frame(r)
  PROVE  /\ \A s \in Sessions : Holds(s) =>
               /\ Holds(s)' /\ sessions'[s].slot = sessions[s].slot
               /\ sessions[s].revoked # None => sessions'[s] = sessions[s]
         /\ \A t \in Tokens : Issued(t) =>
               /\ Issued(t)'
               /\ tokens'[t].session = tokens[t].session
               /\ tokens'[t].family = tokens[t].family
               /\ tokens'[t].parent = tokens[t].parent
               /\ tokens[t].consumed => tokens'[t].consumed
               /\ tokens[t].revoked # None => tokens'[t].revoked = tokens[t].revoked
<1>1. ASSUME NEW s \in Sessions, Holds(s)
      PROVE  /\ Holds(s)' /\ sessions'[s].slot = sessions[s].slot
             /\ sessions[s].revoked # None => sessions'[s] = sessions[s]
  <2>1. CASE sessionLock[s] = r /\ Commit(r)
    <3>1. sessions'[s] = sessionDraft[s] /\ sessionDraft[s] # None
      BY <1>1, <2>1 DEF Commit, SInv, IInv, DraftsExtendRows
    <3>2. sessionDraft[s].slot = sessions[s].slot
      BY <1>1, <2>1 DEF SInv, HandlerKnows, SessionWriter, RevokedDraft, OpenedAtCommit
    <3> QED BY <1>1, <3>1, <3>2 DEF Holds, SInv, DraftsOnlyAdd
  <2>2. CASE ~(sessionLock[s] = r /\ Commit(r))
    BY <1>1, <2>2 DEF Frame, Commit, Holds
  <2> QED BY <2>1, <2>2
<1>2. ASSUME NEW t \in Tokens, Issued(t)
      PROVE  /\ Issued(t)'
             /\ tokens'[t].session = tokens[t].session
             /\ tokens'[t].family = tokens[t].family
             /\ tokens'[t].parent = tokens[t].parent
             /\ tokens[t].consumed => tokens'[t].consumed
             /\ tokens[t].revoked # None => tokens'[t].revoked = tokens[t].revoked
  <2>1. CASE tokenLock[t] = r /\ Commit(r)
    <3>1. tokens'[t] = tokenDraft[t] /\ tokenDraft[t] # None
      BY <1>2, <2>1 DEF Commit, SInv, IInv, DraftsExtendRows
    <3> QED BY <1>2, <3>1, DraftKeepsRow DEF Issued, SInv, DraftsOnlyAdd
  <2>2. CASE ~(tokenLock[t] = r /\ Commit(r))
    BY <1>2, <2>2 DEF Frame, Commit, Issued
  <2> QED BY <2>1, <2>2
<1> QED BY <1>1, <1>2

\* Only the login that holds a slot's lock can bring the slot a new holder.
LEMMA NoNewHolder ==
  ASSUME SInv, NEW r \in Requests, Frame(r), NEW d \in Slots, NEW s \in Sessions,
         HoldsSlot(sessions'[s], d), ~HoldsSlot(sessions[s], d)
  PROVE  r \in Logins /\ s = r /\ input[r] = d /\ slotLock[d] = r
                /\ pc[r] \in {"insertRoot", "commit"} /\ Commit(r)
<1>1. sessionLock[s] = r /\ Commit(r) /\ sessions'[s] = sessionDraft[s]
  BY DEF Frame, Commit
<1>2. sessionDraft[s].revoked = None /\ sessionDraft[s].slot = d
  BY <1>1 DEF HoldsSlot
<1>3. ~RevokedDraft(s, "SESSION_SUPERSEDED") /\ ~RevokedDraft(s, "USER_LOGOUT")
  BY <1>2, NoneAssumption DEF RevokedDraft, SessionReasons
<1>4. sessionDraft[s] # sessions[s]
  BY <1>1
<1>5. r \in Logins /\ pc[r] \in {"insertRoot", "commit"} /\ s = r /\ sessionDraft[s] = NewSession(r)
  BY <1>1, <1>3, <1>4 DEF SInv, HandlerKnows, SessionWriter
<1>6. input[r] = d
  BY <1>2, <1>5 DEF NewSession
<1> QED BY <1>1, <1>5, <1>6 DEF SInv, HandlerKnows, LoginHas

\* The session rows another transaction wrote.
LEMMA OtherWriter ==
  ASSUME SInv, NEW r \in Requests, Frame(r), NEW q \in Requests \ {r}
  PROVE  SessionWriter(q)'
<1> SUFFICES ASSUME NEW s \in Sessions, sessionLock'[s] = q
             PROVE  \/ /\ q \in Logins /\ pc'[q] \in {"insertSession", "insertRoot", "commit"}
                       /\ RevokedDraft(s, "SESSION_SUPERSEDED")' /\ sessions'[s].slot = input'[q]
                    \/ /\ q \in Logins /\ pc'[q] \in {"insertRoot", "commit"}
                       /\ s = q /\ sessionDraft'[s] = NewSession(q)'
                    \/ q \in Refreshes /\ pc'[q] = "commit" /\ Holds(s)'
                       /\ sessionDraft'[s] = sessions'[s]
                    \/ /\ q \in Logouts /\ pc'[q] \in {"scanFamily", "revokeRows", "commit"}
                       /\ s = current'[q].session /\ RevokedDraft(s, "USER_LOGOUT")'
  BY DEF SessionWriter
<1>1. sessionLock[s] = q /\ sessionDraft'[s] = sessionDraft[s]
  BY DEF Frame
<1>2. sessions'[s] = sessions[s]
  BY <1>1 DEF Frame, Commit
<1>3. pc'[q] = pc[q] /\ input'[q] = input[q] /\ stamp'[q] = stamp[q] /\ current'[q] = current[q]
  BY DEF Frame, OthersWait
<1>4. NewSession(q)' = NewSession(q)
  BY <1>3 DEF NewSession
<1>5. (Holds(s)' <=> Holds(s)) /\ \A why : RevokedDraft(s, why)' <=> RevokedDraft(s, why)
  BY <1>1, <1>2 DEF RevokedDraft, Holds
<1> QED BY <1>1, <1>2, <1>3, <1>4, <1>5 DEF SInv, HandlerKnows, SessionWriter

\* What another login found in its slot.
LEMMA OtherLogin ==
  ASSUME SInv, NEW r \in Requests, Frame(r), NEW q \in Logins \ {r}
  PROVE  LoginHas(q)'
<1>1. q \in Requests \ {r} /\ LoginHas(q)
  BY DEF Requests, SInv, HandlerKnows
<1>2. /\ pc'[q] = pc[q] /\ input'[q] = input[q] /\ prior'[q] = prior[q]
      /\ \A d \in Slots : slotLock[d] = q => slotLock'[d] = q
      /\ \A s \in Sessions : sessionLock'[s] = q <=> sessionLock[s] = q
  BY <1>1 DEF Frame, OthersWait
<1>3. pc[q] # "idle" => input[q] \in Slots
  BY DEF SInv, IInv, HandlersRemember
<1>4. pc[q] \in {"findActive", "supersede", "insertSession", "insertRoot", "commit"} =>
         \A s \in Sessions : HoldsSlot(sessions'[s], input[q]) => HoldsSlot(sessions[s], input[q])
  BY <1>1, <1>3, NoNewHolder DEF LoginHas
<1>5. pc[q] = "supersede" => sessions'[prior[q]].slot = sessions[prior[q]].slot
  BY TablesGrow DEF SInv, IInv, HandlersRemember
<1>6. pc[q] = "commit" => tokenDraft'[q] = tokenDraft[q]
  BY <1>1 DEF Frame, SInv, IInv, LoginWrites, Tokens
<1>7. pc[q] \in {"findActive", "supersede", "insertSession", "insertRoot", "commit"} =>
          slotLock'[input[q]] = q
  BY <1>1, <1>2, <1>3 DEF LoginHas
<1> QED BY <1>1, <1>2, <1>4, <1>5, <1>6, <1>7 DEF LoginHas

\* What another logout revoked.
LEMMA OtherLogout ==
  ASSUME SInv, NEW r \in Requests, Frame(r), NEW q \in Logouts \ {r}
  PROVE  LogoutHas(q)'
<1> DEFINE s == current[q].session
<1>1. q \in Requests \ {r} /\ LogoutHas(q)
  BY DEF Requests, SInv, HandlerKnows
<1>2. /\ pc'[q] = pc[q] /\ current'[q] = current[q]
      /\ \A x \in Sessions : sessionLock'[x] = q <=> sessionLock[x] = q
  BY <1>1 DEF Frame, OthersWait
<1>3. pc[q] \in {"scanFamily", "revokeRows", "commit"} => s \in Sessions /\ Holds(s)
  BY DEF SInv, IInv, HandlersRemember, References, TokenRow, Running, Answers
<1>4. \A x \in Sessions : Holds(x) => Holds(x)' /\ (sessions[x].revoked # None => sessions'[x] = sessions[x])
  BY TablesGrow
<1> QED BY <1>1, <1>2, <1>3, <1>4 DEF LogoutHas

\* The replacement of a token that was exchanged is there already.
LEMMA ChildrenStay ==
  ASSUME SInv, IInv', NEW r \in Requests, Frame(r), NEW p \in Tokens, Issued(p), tokens[p].consumed,
         NEW t \in Tokens, ChildOf(t, p)'
  PROVE  ChildOf(t, p)
<1>1. PICK c \in Tokens : ChildOf(c, p)
  BY DEF SInv, IInv, ConsumedExactlyOnce
<1>2. ChildOf(c, p)' /\ Issued(p)'
  BY <1>1, TablesGrow DEF ChildOf
<1>3. t = c
  BY <1>2 DEF IInv, ConsumedExactlyOnce
<1> QED BY <1>1, <1>3

\* What another replay found and has still to revoke.
LEMMA OtherReplay ==
  ASSUME SInv, IInv', NEW r \in Requests, Frame(r), NEW q \in Refreshes \ {r}
  PROVE  ReplayKnows(q)'
<1>i. PICK i : i = input[q]
  OBVIOUS
<1>1. q \in Requests \ {r} /\ ReplayKnows(q)
  BY DEF Requests, SInv, HandlerKnows
<1>2. /\ pc'[q] = pc[q] /\ current'[q] = current[q] /\ input'[q] = i /\ scan'[q] = scan[q]
      /\ \A t \in Tokens : /\ tokenLock'[t] = q <=> tokenLock[t] = q
                           /\ tokenLock[t] = q => tokenDraft'[t] = tokenDraft[t]
  BY <1>1, <1>i DEF Frame, OthersWait
<1>3. Running(q) => i \in Tokens /\ Issued(i)
  BY <1>i DEF SInv, IInv, HandlersRemember
<1>4. Running(q)' <=> Running(q)
  BY <1>2 DEF Running
<1>5. i \in Tokens /\ Issued(i) /\ tokens[i].consumed => Issued(i)' /\ tokens'[i].consumed
  BY TablesGrow
<1>6. ASSUME NEW t \in Tokens, Issued(t), ReplayRevokes(q, t) PROVE ReplayRevokes(q, t)'
  <2>1. tokens[t].revoked # None => tokens'[t].revoked # None
    BY <1>6, TablesGrow
  <2> QED BY <1>2, <1>6, <2>1 DEF ReplayRevokes
<1>7. ASSUME pc[q] \in {"revokeRows", "replay"}, NEW t \in Tokens, Issued(t)',
             t = i \/ ChildOf(t, i)'
      PROVE  Issued(t) /\ (t = i \/ ChildOf(t, i))
  <2>1. i \in Tokens /\ Issued(i) /\ tokens[i].consumed
    BY <1>1, <1>7, <1>i DEF ReplayKnows
  <2>2. CASE t = i
    BY <2>1, <2>2
  <2>3. CASE ChildOf(t, i)'
    <3>1. ChildOf(t, i)
      BY <2>1, <2>3, ChildrenStay
    <3> QED BY <3>1 DEF ChildOf
  <2> QED BY <1>7, <2>2, <2>3
<1> QED BY <1>i, <1>1, <1>2, <1>3, <1>4, <1>5, <1>6, <1>7 DEF ReplayKnows

\* The family another request revokes.
LEMMA OtherFamily ==
  ASSUME SInv, NEW r \in Requests, Frame(r), NEW q \in (Refreshes \cup Logouts) \ {r}
  PROVE  FamilyOnly(q)'
<1>1. q \in Requests \ {r} /\ FamilyOnly(q)
  BY DEF Requests, SInv, HandlerKnows
<1>2. /\ pc'[q] = pc[q] /\ current'[q] = current[q] /\ scan'[q] = scan[q]
      /\ \A t \in Tokens : tokenLock'[t] = q <=> tokenLock[t] = q
  BY <1>1 DEF Frame, OthersWait
<1>3. \A t \in Tokens : Issued(t) => tokens'[t].family = tokens[t].family
  BY TablesGrow
<1>4. \A t \in scan[q] : t \in Tokens /\ Issued(t)
  BY <1>1 DEF SInv, IInv, TypeOK, HandlersRemember
<1>5. pc[q] = "revokeRows" \/ (q \in Logouts /\ pc[q] = "commit") =>
         \A t \in Tokens : tokenLock[t] = q => Issued(t)
  BY <1>1, RequestsAssumption DEF SInv, IInv, OnlyWriters, RevokeDraft
<1> QED BY <1>1, <1>2, <1>3, <1>4, <1>5 DEF FamilyOnly

\* All of it.
LEMMA OthersKnow ==
  ASSUME SInv, IInv', NEW r \in Requests, Frame(r)
  PROVE  \A q \in Requests \ {r} : HandlerKnows(q)'
<1> SUFFICES ASSUME NEW q \in Requests \ {r} PROVE HandlerKnows(q)'
  OBVIOUS
<1> QED BY OtherWriter, OtherLogin, OtherLogout, OtherReplay, OtherFamily DEF HandlerKnows

-----------------------------------------------------------------------------
(* What the tables promise, by what a step does to them. *)

TablesAreRight ==
    /\ DraftsOnlyAdd
    /\ InTime
    /\ OpenedAtCommit
    /\ OneHolder
    /\ Chains
    /\ SlotEmptiedOnlyByLogout

\* A step of r in which nothing is committed.
LEMMA NothingCommitted ==
  ASSUME SInv, NEW r \in Requests, OthersWait(r), pc[r] \notin {"ok", "error"},
         UNCHANGED <<sessions, tokens>>
  PROVE  OpenedAtCommit' /\ OneHolder' /\ Chains' /\ SlotEmptiedOnlyByLogout'
<1>1. OpenedAtCommit'
  BY DEF SInv, OpenedAtCommit, OthersWait, Holds, Requests, Sessions
<1>2. OneHolder' /\ SlotEmptiedOnlyByLogout'
  BY DEF SInv, OneHolder, SlotEmptiedOnlyByLogout
<1>3. Chains'
  BY DEF SInv, Chains, Issued
<1> QED BY <1>1, <1>2, <1>3

\* A step that writes no row.
LEMMA MoveKeeps ==
  ASSUME SInv, NEW r \in Requests, OthersWait(r), pc[r] \notin {"ok", "error"},
         UNCHANGED <<sessionTable, tokenTable>>, stamp'[r] \in {stamp[r], clock}
  PROVE  TablesAreRight'
<1>1. DraftsOnlyAdd'
  BY DEF SInv, DraftsOnlyAdd, sessionTable, tokenTable, Holds, Issued
<1>2. InTime'
  <2>1. \A q \in Requests : stamp'[q] <= clock'
    BY DEF SInv, IInv, TypeOK, InTime, OthersWait
  <2> QED BY <2>1 DEF SInv, InTime, RowInTime, OthersWait, sessionTable
<1> QED BY <1>1, <1>2, NothingCommitted DEF TablesAreRight, sessionTable, tokenTable

\* A step that writes a session row.
LEMMA SessionWriteKeeps ==
  ASSUME SInv, NEW r \in Requests, OthersWait(r), pc[r] \notin {"ok", "error"},
         UNCHANGED <<tokenTable, stamp>>,
         NEW s \in Sessions, NEW row, WriteSession(r, s, row), RowInTime(row),
         Holds(s) /\ sessions[s].revoked # None => row = sessions[s]
  PROVE  TablesAreRight'
<1>1. DraftsOnlyAdd'
  BY NoneAssumption DEF SInv, IInv, TypeOK, DraftsOnlyAdd, WriteSession, tokenTable, Holds, Issued
<1>2. InTime'
  <2>1. \A x \in Sessions : RowInTime(sessionDraft'[x])
    BY DEF SInv, IInv, TypeOK, InTime, WriteSession
  <2> QED BY <2>1 DEF SInv, InTime, RowInTime, OthersWait, WriteSession
<1> QED BY <1>1, <1>2, NothingCommitted DEF TablesAreRight, WriteSession, tokenTable

\* A step that writes a token row.
LEMMA TokenWriteKeeps ==
  ASSUME SInv, NEW r \in Requests, OthersWait(r), pc[r] \notin {"ok", "error"},
         UNCHANGED <<sessionTable, stamp>>,
         NEW t \in Tokens, NEW row, WriteToken(r, t, row),
         Issued(t) => /\ tokens[t].consumed => row.consumed
                      /\ tokens[t].revoked # None => row.revoked = tokens[t].revoked
  PROVE  TablesAreRight'
<1>1. DraftsOnlyAdd'
  BY DEF SInv, IInv, TypeOK, DraftsOnlyAdd, WriteToken, sessionTable, Holds, Issued
<1>2. InTime'
  BY DEF SInv, InTime, RowInTime, OthersWait, sessionTable
<1> QED BY <1>1, <1>2, NothingCommitted DEF TablesAreRight, WriteToken, sessionTable

\* A transaction that is rolled back.
LEMMA RollbackKeeps ==
  ASSUME SInv, NEW r \in Requests, NEW w \in PCs, pc[r] \notin {"ok", "error"}, GiveUp(r, w)
  PROVE  TablesAreRight'
<1>1. OthersWait(r)
  BY DEF OthersWait, GiveUp, Goto, locals, SInv, IInv, TypeOK
<1>2. DraftsOnlyAdd'
  BY NoneAssumption
     DEF SInv, IInv, TypeOK, DraftsOnlyAdd, GiveUp, Rollback, ReleaseLocks, Holds, Issued, Requests
<1>3. InTime'
  <2>1. \A x \in Sessions : RowInTime(sessionDraft'[x]) /\ RowInTime(sessions'[x])
    BY DEF SInv, InTime, GiveUp, Rollback
  <2> QED BY <2>1 DEF SInv, InTime, RowInTime, GiveUp, locals
<1> QED BY <1>1, <1>2, <1>3, NothingCommitted DEF TablesAreRight, GiveUp, Rollback

\* A transaction that is committed.
LEMMA CommitKeeps ==
  ASSUME SInv, NEW r \in Requests, NEW w \in PCs, Running(r), Finish(r, w),
         r \in Logins => pc[r] = "commit" /\ w \in {"ok", "error"}
  PROVE  TablesAreRight'
<1>0. Frame(r) /\ pc[r] \notin {"ok", "error"}
  BY FrameOfEnd DEF SInv, IInv, Running, Answers
<1>1. DraftsOnlyAdd'
  <2>1. ASSUME NEW s \in Sessions
        PROVE  /\ sessionLock'[s] = None => sessionDraft'[s] = sessions'[s]
               /\ Holds(s)' /\ sessions'[s].revoked # None => sessionDraft'[s] = sessions'[s]
    BY <2>1 DEF SInv, DraftsOnlyAdd, Finish, Commit, ReleaseLocks, Holds
  <2>2. ASSUME NEW t \in Tokens, Issued(t)'
        PROVE  /\ tokens'[t].consumed => tokenDraft'[t].consumed
               /\ tokens'[t].revoked # None => tokenDraft'[t].revoked = tokens'[t].revoked
    BY <2>2 DEF SInv, DraftsOnlyAdd, Finish, Commit, Issued
  <2> QED BY <2>1, <2>2 DEF DraftsOnlyAdd
<1>2. InTime'
  <2>1. \A x \in Sessions : RowInTime(sessionDraft'[x]) /\ RowInTime(sessions'[x])
    BY DEF SInv, InTime, Finish, Commit
  <2> QED BY <2>1 DEF SInv, InTime, RowInTime, Finish, locals
<1>3. ASSUME NEW s \in Sessions, sessionLock[s] = r
      PROVE  \/ r \in Logins /\ RevokedDraft(s, "SESSION_SUPERSEDED") /\ sessions[s].slot = input[r]
             \/ r \in Logins /\ s = r /\ sessionDraft[s] = NewSession(r)
             \/ r \in Refreshes /\ sessionDraft[s] = sessions[s]
             \/ r \in Logouts /\ RevokedDraft(s, "USER_LOGOUT")
  BY <1>3 DEF SInv, HandlerKnows, SessionWriter
<1>4. OpenedAtCommit'
  <2> SUFFICES ASSUME NEW s \in Sessions, Holds(s)' PROVE pc'[s] \in {"ok", "error"}
    BY DEF OpenedAtCommit
  <2>1. CASE s = r
    <3>1. r \in Logins
      BY <2>1 DEF Sessions
    <3> QED BY <2>1, <3>1 DEF Finish, Goto, SInv, IInv, TypeOK
  <2>2. CASE s # r
    <3>1. Holds(s)
      BY <1>3, <2>2 DEF Finish, Commit, Holds, RevokedDraft
    <3> QED BY <1>0, <2>2, <3>1 DEF Frame, OthersWait, SInv, OpenedAtCommit, Requests, Sessions
  <2> QED BY <2>1, <2>2
<1>5. OneHolder'
  <2> SUFFICES ASSUME NEW s \in Sessions, NEW x \in Sessions, NEW d \in Slots,
                      HoldsSlot(sessions'[s], d), HoldsSlot(sessions'[x], d)
               PROVE  s = x
    BY DEF OneHolder
  <2>1. ASSUME NEW a \in Sessions, NEW b \in Sessions, a # b,
               HoldsSlot(sessions'[a], d), HoldsSlot(sessions'[b], d), ~HoldsSlot(sessions[a], d)
        PROVE  FALSE
    <3>1. r \in Logins /\ a = r /\ input[r] = d /\ pc[r] = "commit"
      BY <1>0, <2>1, NoNewHolder
    <3>2. HoldsSlot(sessions[b], d)
      BY <1>0, <2>1, <3>1, NoNewHolder
    <3>3. sessionLock[b] = r
      BY <3>1, <3>2 DEF SInv, HandlerKnows, LoginHas
    <3>4. RevokedDraft(b, "SESSION_SUPERSEDED")
      BY <1>3, <2>1, <3>1, <3>3, RequestsAssumption
    <3>5. sessions'[b] = sessionDraft[b]
      BY <3>3 DEF Finish, Commit
    <3> QED BY <2>1, <3>4, <3>5, NoneAssumption DEF HoldsSlot, RevokedDraft, SessionReasons
  <2> QED BY <2>1 DEF SInv, OneHolder
<1>6. /\ \A s \in Sessions : Holds(s) => Holds(s)' /\ sessions'[s].slot = sessions[s].slot
      /\ \A t \in Tokens : Issued(t) =>
            /\ Issued(t)'
            /\ tokens'[t].session = tokens[t].session
            /\ tokens'[t].family = tokens[t].family
            /\ tokens'[t].parent = tokens[t].parent
  BY <1>0, TablesGrow
<1>7. Chains'
  <2> SUFFICES ASSUME NEW t \in Tokens, Issued(t)'
               PROVE  /\ tokens'[t].session = tokens'[t].family
                      /\ tokens'[t].parent # None =>
                            tokens'[tokens'[t].parent].family = tokens'[t].family
    BY DEF Chains
  <2>1. CASE Issued(t)
    <3>1. tokens[t].parent # None => Issued(tokens[t].parent) /\ tokens[t].parent \in Tokens
      BY <2>1 DEF SInv, IInv, References, TypeOK, TokenRow, Issued
    <3> QED BY <1>6, <2>1, <3>1 DEF SInv, Chains
  <2>2. CASE ~Issued(t)
    <3>1. tokenLock[t] = r /\ tokens'[t] = tokenDraft[t]
      BY <2>2 DEF Finish, Commit, Issued
    <3>2. CASE r \in Logins
      <4>1. t = r /\ tokenDraft[r].session = r /\ tokenDraft[r].family = r /\ tokenDraft[r].parent = None
        BY <3>1, <3>2, <2>2, RequestsAssumption DEF SInv, IInv, OnlyWriters, LoginWrites, RevokeDraft
      <4> QED BY <3>1, <4>1
    <3>3. CASE r \notin Logins
      <4>1. r \in Refreshes /\ pc[r] \in {"touch", "commit"} /\ t = r
        <5>1. input[r] \in Tokens /\ Issued(input[r])
          BY <3>3 DEF SInv, IInv, HandlersRemember, Requests
        <5> QED BY <3>1, <3>3, <2>2, <5>1 DEF SInv, IInv, OnlyWriters, RevokeDraft
      <4>2. /\ input[r] \in Tokens /\ Issued(input[r])
            /\ current[r].session = tokens[input[r]].session
            /\ current[r].family = tokens[input[r]].family
            /\ tokenDraft[r] = ChildToken(r)
        BY <4>1 DEF SInv, IInv, HandlersRemember, RefreshWrites, RefreshHas
      <4>3. /\ tokens'[t].session = current[r].session /\ tokens'[t].family = current[r].family
            /\ tokens'[t].parent = input[r]
        BY <3>1, <4>1, <4>2 DEF ChildToken
      <4> QED BY <1>6, <4>2, <4>3 DEF SInv, Chains
    <3> QED BY <3>2, <3>3
  <2> QED BY <2>1, <2>2
<1>8. SlotEmptiedOnlyByLogout'
  <2>1. \A s \in Sessions : sessionLock[s] = r => sessions'[s] = sessionDraft[s]
    BY DEF Finish, Commit
  <2>2. \A s \in Sessions : sessionLock[s] # r => sessions'[s] = sessions[s]
    BY DEF Finish, Commit
  <2>3. r \in Logins => /\ r \in Sessions /\ sessions'[r] # None
                        /\ sessions'[r].slot = input[r] /\ sessions'[r].revoked = None
    <3> SUFFICES ASSUME r \in Logins
                 PROVE  /\ r \in Sessions /\ sessions'[r] # None
                        /\ sessions'[r].slot = input[r] /\ sessions'[r].revoked = None
      OBVIOUS
    <3>1. r \in Sessions /\ sessionLock[r] = r /\ sessionDraft[r] # None /\ ~Holds(r)
      BY <1>0 DEF SInv, IInv, LoginWrites, OpenedAtCommit, Sessions
    <3>2. sessionDraft[r] = NewSession(r)
      BY <1>3, <3>1, RequestsAssumption DEF RevokedDraft
    <3> QED BY <2>1, <3>1, <3>2 DEF NewSession
  <2> SUFFICES ASSUME NEW s \in Sessions, sessions'[s] # None
               PROVE  \E x \in Sessions : /\ sessions'[x] # None /\ sessions'[x].slot = sessions'[s].slot
                                          /\ sessions'[x].revoked \in {None, "USER_LOGOUT"}
    BY DEF SlotEmptiedOnlyByLogout
  <2>4. CASE ~Holds(s)
    <3>1. r \in Logins /\ s = r
      BY <1>3, <2>2, <2>1, <2>4 DEF Holds, RevokedDraft
    <3> QED BY <2>3, <3>1
  <2>5. CASE Holds(s)
    <3>1. PICK x \in Sessions : /\ Holds(x) /\ sessions[x].slot = sessions[s].slot
                                /\ sessions[x].revoked \in {None, "USER_LOGOUT"}
      BY <2>5 DEF SInv, SlotEmptiedOnlyByLogout, Holds
    <3>2. Holds(x)' /\ sessions'[x].slot = sessions'[s].slot
      BY <1>6, <2>5, <3>1
    <3>3. CASE sessionLock[x] # r
      BY <2>2, <3>1, <3>2, <3>3 DEF Holds
    <3>4. CASE sessionLock[x] = r
      <4>1. CASE r \in Logins /\ RevokedDraft(x, "SESSION_SUPERSEDED") /\ sessions[x].slot = input[r]
        BY <1>6, <2>3, <2>5, <3>1, <4>1
      <4>2. CASE r \in Logins /\ x = r /\ sessionDraft[x] = NewSession(r)
        BY <2>3, <3>2, <4>2
      <4>3. CASE sessionDraft[x] = sessions[x]
        BY <2>1, <3>1, <3>2, <3>4, <4>3 DEF Holds
      <4>4. CASE RevokedDraft(x, "USER_LOGOUT")
        BY <2>1, <3>2, <3>4, <4>4 DEF Holds, RevokedDraft
      <4> QED BY <1>3, <3>4, <4>1, <4>2, <4>3, <4>4
    <3> QED BY <3>3, <3>4
  <2> QED BY <2>4, <2>5
<1> QED BY <1>1, <1>2, <1>4, <1>5, <1>7, <1>8 DEF TablesAreRight

-----------------------------------------------------------------------------
(* Steps of every kind. *)

\* A step of r keeps the invariant if r knows what it needs to afterwards.
LEMMA StepKeeps ==
  ASSUME SInv, IInv', NEW r \in Requests, Frame(r), TablesAreRight', HandlerKnows(r)',
         pc'[r] # "violation"
  PROVE  SInv'
<1>1. \A q \in Requests : HandlerKnows(q)'
  BY OthersKnow
<1>2. NoConstraintViolation'
  BY DEF SInv, NoConstraintViolation, Frame, OthersWait
<1> QED BY <1>1, <1>2 DEF SInv, TablesAreRight

\* The transaction of r is rolled back.
LEMMA GivingUpIsSafe ==
  ASSUME SInv, IInv', NEW r \in Requests, NEW w \in {"error", "replayLogged", "deviceActive"},
         Running(r), GiveUp(r, w)
  PROVE  SInv'
<1>1. w \in PCs /\ pc[r] \notin {"ok", "error"}
  BY DEF PCs, Answers, Running
<1>2. Frame(r) /\ TablesAreRight'
  BY <1>1, FrameOfEnd, RollbackKeeps DEF SInv, IInv
<1>3. pc'[r] = w /\ scan'[r] = scan[r] /\ current'[r] = current[r] /\ tokens' = tokens
  BY DEF GiveUp, Goto, Rollback, locals, SInv, IInv, TypeOK
<1>4. SessionWriter(r)'
  <2>1. \A s \in Sessions : sessionLock'[s] # r
    BY NoneAssumption DEF GiveUp, ReleaseLocks
  <2> QED BY <2>1 DEF SessionWriter
<1>5. HandlerKnows(r)'
  BY <1>3, <1>4 DEF HandlerKnows, LoginHas, LogoutHas, ReplayKnows, FamilyOnly, Running, Answers,
                    SInv
<1> QED BY <1>2, <1>3, <1>5, StepKeeps

\* The transaction of r is committed.
LEMMA CommittingIsSafe ==
  ASSUME SInv, IInv', NEW r \in Requests, NEW w \in {"ok", "error", "replay"}, Finish(r, w),
         \/ pc[r] = "commit" /\ w # "replay"
         \/ r \in Refreshes /\ pc[r] = "revokeRows" /\ scan[r] = {} /\ w = "replay"
  PROVE  SInv'
<1>0. w \in PCs /\ Running(r) /\ pc[r] \notin {"ok", "error"}
  BY DEF PCs, Answers, Running
<1>1. Frame(r)
  BY <1>0, FrameOfEnd DEF SInv, IInv
<1>2. TablesAreRight'
  BY <1>0, CommitKeeps, RequestsAssumption
<1>3. pc'[r] = w /\ scan'[r] = scan[r] /\ current'[r] = current[r] /\ input'[r] = input[r]
  BY DEF Finish, Goto, locals, SInv, IInv, TypeOK
<1>4. SessionWriter(r)'
  <2>1. \A s \in Sessions : sessionLock'[s] # r
    BY NoneAssumption DEF Finish, ReleaseLocks
  <2> QED BY <2>1 DEF SessionWriter
<1>5. r \in Logins => LoginHas(r)'
  BY <1>0, <1>3, RequestsAssumption DEF LoginHas
<1>6. ASSUME r \in Logouts PROVE LogoutHas(r)'
  <2>s. PICK s : s = current[r].session
    OBVIOUS
  <2>1. s \in Sessions /\ Holds(s)
    BY <1>0, <1>6, <2>s DEF SInv, IInv, HandlersRemember, References, TokenRow
  <2>2. sessionLock[s] = r \/ sessions[s].revoked # None
    BY <1>6, <2>s, RequestsAssumption DEF SInv, HandlerKnows, LogoutHas
  <2>3. Holds(s)' /\ (sessions[s].revoked # None => sessions'[s] = sessions[s])
    BY <1>1, <2>1, TablesGrow
  <2>4. CASE sessionLock[s] = r
    <3>1. sessionDraft[s].revoked = "USER_LOGOUT" /\ sessions'[s] = sessionDraft[s]
      BY <1>6, <2>1, <2>4, RequestsAssumption
         DEF SInv, HandlerKnows, SessionWriter, RevokedDraft, Finish, Commit
    <3> QED BY <1>3, <2>s, <2>1, <2>3, <3>1, NoneAssumption DEF LogoutHas, SessionReasons
  <2>5. CASE sessions[s].revoked # None
    BY <1>3, <2>s, <2>1, <2>3, <2>5 DEF LogoutHas
  <2> QED BY <2>2, <2>4, <2>5
<1>7. ASSUME r \in Refreshes PROVE ReplayKnows(r)'
  <2>1. ~Running(r)'
    BY <1>3 DEF Running, Answers
  <2>2. CASE w # "replay"
    BY <1>3, <2>1, <2>2 DEF ReplayKnows
  <2>3. CASE w = "replay"
    <3>i. PICK i : i = input[r]
      OBVIOUS
    <3>1. i \in Tokens /\ Issued(i) /\ tokens[i].consumed
      BY <1>7, <2>3, <3>i DEF SInv, HandlerKnows, ReplayKnows
    <3>2. Issued(i)' /\ tokens'[i].consumed
      BY <1>1, <3>1, TablesGrow
    <3>3. ASSUME NEW t \in Tokens, Issued(t)', t = i \/ ChildOf(t, i)' PROVE tokens'[t].revoked # None
      <4>1. Issued(t) /\ (t = i \/ ChildOf(t, i))
        BY <1>1, <3>1, <3>3, ChildrenStay DEF ChildOf
      <4>2. tokens[t].revoked # None \/ (tokenLock[t] = r /\ tokenDraft[t].revoked # None)
        BY <1>7, <2>3, <3>i, <4>1 DEF SInv, HandlerKnows, ReplayKnows, ReplayRevokes
      <4>3. CASE tokens[t].revoked # None
        BY <1>1, <4>1, <4>3, TablesGrow
      <4>4. CASE tokenLock[t] = r /\ tokenDraft[t].revoked # None
        BY <4>4 DEF Finish, Commit
      <4> QED BY <4>2, <4>3, <4>4
    <3> QED BY <1>3, <2>1, <2>3, <3>i, <3>1, <3>2, <3>3 DEF ReplayKnows, ReplayRevokes
  <2> QED BY <2>2, <2>3
<1>8. ASSUME r \in Refreshes \cup Logouts PROVE FamilyOnly(r)'
  <2>1. \A t \in scan[r] : t \in Tokens /\ Issued(t) /\ tokens[t].family = current[r].family
    BY <1>8 DEF SInv, IInv, TypeOK, HandlersRemember, HandlerKnows, FamilyOnly
  <2>2. \A t \in scan[r] : tokens'[t].family = current[r].family
    BY <1>1, <2>1, TablesGrow
  <2> QED BY <1>3, <2>2 DEF FamilyOnly
<1> QED BY <1>1, <1>2, <1>3, <1>4, <1>5, <1>6, <1>7, <1>8, StepKeeps DEF HandlerKnows

\* r holds no session row and moves on, having written nothing.
LEMMA NoSessionLocked ==
  ASSUME SInv, NEW r \in Requests,
         \/ r \in Logins /\ pc[r] \notin {"insertSession", "insertRoot", "commit"}
         \/ r \in Refreshes /\ pc[r] # "commit"
         \/ r \in Logouts /\ pc[r] \notin {"scanFamily", "revokeRows", "commit"}
  PROVE  \A s \in Sessions : sessionLock[s] # r
  BY RequestsAssumption DEF SInv, HandlerKnows, SessionWriter

\* RevokeSession on a row that r has not locked yet: the row was revoked before, or its
\* draft is the row revoked; sessions_revocation_check never objects.
LEMMA RevokingIsSafe ==
  ASSUME SInv, NEW r \in Requests, NEW s \in Sessions, Holds(s), NEW why \in SessionReasons,
         NEW w \in PCs, RevokeSession(r, s, why, w), pc[r] \notin {"ok", "error"},
         \A x \in Sessions : sessionLock[x] # r
  PROVE  /\ Frame(r) /\ TablesAreRight'
         /\ pc'[r] = w
         /\ UNCHANGED <<sessions, tokenTable, slotLock, locals>>
         /\ \A x \in Sessions : x # s => sessionLock'[x] # r
         /\ \/ sessions[s].revoked # None /\ sessionLock'[s] # r
            \/ sessionLock'[s] = r /\ RevokedDraft(s, why)'
<1> DEFINE old == sessionDraft[s]
           row == RevokedSession(old, why, clock)
<1>1. CanLockSession(r, s) /\ sessionLock[s] = None /\ old = sessions[s]
  BY DEF RevokeSession, CanLockSession, SInv, DraftsOnlyAdd
<1>2. old \in SessionRow /\ clock \in Nat /\ why # None
  BY <1>1, NoneAssumption DEF SInv, IInv, TypeOK, Holds
<1>3. RowInTime(old) /\ old # None
  BY <1>1 DEF SInv, InTime, Holds
<1>4. /\ old.revoked # None => row = old
      /\ old.revoked = None => /\ row.slot = old.slot /\ row.created = old.created
                               /\ row.revoked = why /\ row.revokedAt = clock
  <2>1. old.revoked = None => row = [[old EXCEPT !.revoked = why] EXCEPT !.revokedAt = clock]
    BY Zenon DEF RevokedSession
  <2>2. /\ [[old EXCEPT !.revoked = why] EXCEPT !.revokedAt = clock].slot = old.slot
        /\ [[old EXCEPT !.revoked = why] EXCEPT !.revokedAt = clock].created = old.created
        /\ [[old EXCEPT !.revoked = why] EXCEPT !.revokedAt = clock].revoked = why
        /\ [[old EXCEPT !.revoked = why] EXCEPT !.revokedAt = clock].revokedAt = clock
    BY <1>2 DEF SessionRow
  <2>3. old.revoked # None => row = old
    BY DEF RevokedSession
  <2> HIDE DEF row
  <2> QED BY <2>1, <2>2, <2>3
<1>5. RowInTime(row) /\ RevocationCheck(row)
  <2> HIDE DEF row
  <2>1. old.created \in Nat /\ old.created <= clock
    BY <1>2, <1>3 DEF SessionRow, RowInTime
  <2> QED BY <1>2, <1>3, <1>4, <2>1 DEF RowInTime, RevocationCheck
<1> HIDE DEF row, old
<1>6. CASE row = old /\ Goto(r, w) /\ UNCHANGED <<clock, sessionTable, tokenTable, slotLock, locals>>
  <2>1. OthersWait(r) /\ pc'[r] = w /\ stamp' = stamp
    BY <1>6 DEF OthersWait, Goto, locals, SInv, IInv, TypeOK
  <2>2. Frame(r) /\ TablesAreRight'
    BY <1>6, <2>1, FrameOfMove, MoveKeeps DEF SInv, IInv
  <2>3. old.revoked # None
    BY <1>2, <1>4, <1>6
  <2> QED BY <1>1, <1>6, <2>1, <2>2, <2>3 DEF sessionTable
<1>7. CASE /\ row # old /\ WriteSession(r, s, row) /\ Goto(r, w)
           /\ UNCHANGED <<clock, tokenTable, slotLock, locals>>
  <2>1. OthersWait(r) /\ pc'[r] = w /\ stamp' = stamp
    BY <1>7 DEF OthersWait, Goto, locals, SInv, IInv, TypeOK
  <2>2. old.revoked = None
    BY <1>4, <1>7
  <2>3. Frame(r)
    BY <1>1, <1>7, <2>1, FrameOfSession DEF SInv, IInv
  <2>4. TablesAreRight'
    BY <1>1, <1>5, <1>7, <2>1, <2>2, SessionWriteKeeps
  <2>5. sessionLock'[s] = r /\ sessionDraft'[s] = row /\ sessions' = sessions
        /\ \A x \in Sessions : x # s => sessionLock'[x] = sessionLock[x]
    BY <1>7 DEF WriteSession, SInv, IInv, TypeOK
  <2>6. RevokedDraft(s, why)'
    BY <1>1, <1>4, <2>2, <2>5 DEF RevokedDraft, Holds
  <2> QED BY <1>7, <2>1, <2>3, <2>4, <2>5, <2>6
<1>8. \/ row = old /\ Goto(r, w) /\ UNCHANGED <<clock, sessionTable, tokenTable, slotLock, locals>>
      \/ /\ row # old /\ WriteSession(r, s, row) /\ Goto(r, w)
         /\ UNCHANGED <<clock, tokenTable, slotLock, locals>>
  BY <1>5 DEF RevokeSession, row, old
<1> QED BY <1>6, <1>7, <1>8

-----------------------------------------------------------------------------
(* Logins. *)

\* A login arrives, takes the lock of its slot and looks who holds the slot.
LEMMA LookingIsSafe ==
  ASSUME SInv, IInv', NEW r \in Logins,
         \/ \E d \in Slots : BeginIssue(r, d)
         \/ LockDeviceSlot(r) \/ FindNoSession(r) \/ FindRecentSession(r)
  PROVE  SInv'
<1>0. r \in Requests /\ r \notin Refreshes /\ r \notin Logouts
  BY RequestsAssumption DEF Requests
<1> USE DEF BeginIssue, LockDeviceSlot, FindNoSession, FindRecentSession, Goto, locals
<1>1. OthersWait(r)
  BY <1>0 DEF OthersWait, SInv, IInv, TypeOK
<1>2. UNCHANGED <<sessionTable, tokenTable>> /\ stamp'[r] \in {stamp[r], clock}
  BY <1>0 DEF SInv, IInv, TypeOK
<1>3. pc[r] \notin {"ok", "error", "insertSession", "insertRoot", "commit"}
      /\ pc'[r] \in {"lockSlot", "findActive", "supersede", "insertSession"}
  BY <1>0 DEF SInv, IInv, TypeOK
<1>4. \/ UNCHANGED slotLock
      \/ \E d \in Slots : slotLock[d] = None /\ slotLock' = [slotLock EXCEPT ![d] = r]
  BY <1>0 DEF SInv, IInv, HandlersRemember
<1>5. Frame(r) /\ TablesAreRight'
  BY <1>0, <1>1, <1>2, <1>3, <1>4, FrameOfMove, MoveKeeps DEF SInv, IInv
<1>6. SessionWriter(r)'
  BY <1>0, <1>2, <1>3, NoSessionLocked DEF SessionWriter, sessionTable
<1>7. LoginHas(r)'
  <2>1. CASE \E d \in Slots : BeginIssue(r, d)
    BY <1>0, <2>1 DEF LoginHas, SInv, IInv, TypeOK
  <2>2. CASE LockDeviceSlot(r)
    <3>1. input[r] \in Slots
      BY <2>2 DEF SInv, IInv, HandlersRemember
    <3> QED BY <1>0, <2>2, <3>1 DEF LoginHas, SInv, IInv, TypeOK
  <2>3. CASE FindNoSession(r)
    <3>1. slotLock'[input[r]] = r
      BY <2>3, <1>0 DEF SInv, HandlerKnows, LoginHas
    <3>2. \A s \in Sessions : ~HoldsSlot(sessions[s], input[r])
      BY <2>3 DEF SlotHolders
    <3> QED BY <1>0, <2>3, <3>1, <3>2 DEF LoginHas, SInv, IInv, TypeOK, sessionTable, tokenTable
  <2>4. CASE FindRecentSession(r)
    <3>1. slotLock'[input[r]] = r /\ input[r] \in Slots
      BY <2>4, <1>0 DEF SInv, IInv, HandlersRemember, HandlerKnows, LoginHas
    <3>2. PICK s \in SlotHolders(input[r]) : prior' = [prior EXCEPT ![r] = s]
      BY <2>4
    <3>3. /\ s \in Sessions /\ sessions[s].slot = input[r]
          /\ \A x \in Sessions : HoldsSlot(sessions[x], input[r]) => x = s
      BY <3>1, <3>2 DEF SInv, OneHolder, SlotHolders, HoldsSlot
    <3>4. prior'[r] = s /\ pc'[r] = "supersede" /\ input'[r] = input[r] /\ sessions' = sessions
      BY <1>0, <2>4, <3>2 DEF SInv, IInv, TypeOK, sessionTable
    <3> QED BY <3>1, <3>3, <3>4 DEF LoginHas
  <2> QED BY <2>1, <2>2, <2>3, <2>4
<1> QED BY <1>0, <1>3, <1>5, <1>6, <1>7, StepKeeps DEF HandlerKnows

\* The session found in the slot is revoked.
LEMMA SupersedingIsSafe ==
  ASSUME SInv, IInv', NEW r \in Logins, Supersede(r)
  PROVE  SInv'
<1>p. PICK s : s = prior[r]
  OBVIOUS
<1>0. /\ r \in Requests /\ r \notin Refreshes /\ r \notin Logouts
      /\ pc[r] = "supersede" /\ RevokeSession(r, s, "SESSION_SUPERSEDED", "insertSession")
      /\ s \in Sessions /\ Holds(s) /\ input[r] \in Slots
  BY <1>p, RequestsAssumption DEF Requests, Supersede, SInv, IInv, HandlersRemember
<1>1. /\ slotLock[input[r]] = r /\ sessions[s].slot = input[r]
      /\ \A x \in Sessions : HoldsSlot(sessions[x], input[r]) => x = s
  BY <1>p, <1>0 DEF SInv, HandlerKnows, LoginHas
<1>2. /\ Frame(r) /\ TablesAreRight'
      /\ pc'[r] = "insertSession"
      /\ UNCHANGED <<sessions, tokenTable, slotLock, locals>>
      /\ \A x \in Sessions : x # s => sessionLock'[x] # r
      /\ \/ sessions[s].revoked # None /\ sessionLock'[s] # r
         \/ sessionLock'[s] = r /\ RevokedDraft(s, "SESSION_SUPERSEDED")'
  BY <1>0, NoSessionLocked, RevokingIsSafe DEF SessionReasons, PCs
<1>3. SessionWriter(r)'
  BY <1>0, <1>1, <1>2 DEF SessionWriter, locals
<1>4. LoginHas(r)'
  BY <1>1, <1>2 DEF LoginHas, locals, HoldsSlot
<1> QED BY <1>0, <1>2, <1>3, <1>4, StepKeeps DEF HandlerKnows

\* The session is inserted: uq_sessions_active_device never objects.
LEMMA InsertingIsSafe ==
  ASSUME SInv, IInv', NEW r \in Logins, InsertSession(r)
  PROVE  SInv'
<1>0. /\ r \in Requests /\ r \in Sessions /\ r \notin Refreshes /\ r \notin Logouts
      /\ pc[r] = "insertSession" /\ input[r] \in Slots /\ ~Holds(r)
  BY RequestsAssumption
     DEF Requests, Sessions, InsertSession, SInv, IInv, HandlersRemember, OpenedAtCommit
<1>1. /\ slotLock[input[r]] = r
      /\ \A s \in Sessions : HoldsSlot(sessions[s], input[r]) => sessionLock[s] = r
      /\ \A s \in Sessions : sessionLock[s] = r =>
            RevokedDraft(s, "SESSION_SUPERSEDED") /\ sessions[s].slot = input[r]
  BY <1>0, RequestsAssumption DEF SInv, HandlerKnows, SessionWriter, LoginHas
<1>2. ~SlotTaken(input[r])
  <2> SUFFICES ASSUME NEW s \in Sessions, HoldsSlot(sessionDraft[s], input[r]) PROVE FALSE
    BY DEF SlotTaken
  <2>1. sessionLock[s] \in {None, r}
    BY DEF InsertSession, IndexUndecided
  <2>2. CASE sessionLock[s] = None
    BY <1>0, <1>1, <2>2, NoneAssumption DEF SInv, DraftsOnlyAdd
  <2>3. CASE sessionLock[s] = r
    BY <1>1, <2>3, NoneAssumption DEF RevokedDraft, HoldsSlot, SessionReasons
  <2> QED BY <2>1, <2>2, <2>3
<1>3. /\ WriteSession(r, r, NewSession(r)) /\ Goto(r, "insertRoot")
      /\ UNCHANGED <<clock, tokenTable, slotLock, locals>>
  BY <1>2 DEF InsertSession
<1>4. sessionLock[r] = None
  <2>1. ASSUME NEW q \in Requests, sessionLock[r] = q PROVE FALSE
    <3>1. CASE q = r
      BY <1>0, <1>1, <2>1, <3>1 DEF RevokedDraft
    <3>2. CASE q # r /\ q \in Refreshes
      <4>1. Holds(r)
        BY <1>0, <2>1, <3>2, RequestsAssumption DEF SInv, HandlerKnows, SessionWriter
      <4> QED BY <1>0, <4>1
    <3>3. CASE q # r /\ q \notin Refreshes
      BY <1>0, <2>1, <3>3 DEF SInv, HandlerKnows, SessionWriter, RevokedDraft
    <3> QED BY <3>1, <3>2, <3>3
  <2> QED BY <1>0, <2>1 DEF SInv, IInv, TypeOK
<1>5. OthersWait(r) /\ pc'[r] = "insertRoot" /\ UNCHANGED <<stamp, input>>
  BY <1>0, <1>3 DEF OthersWait, Goto, locals, SInv, IInv, TypeOK
<1>6. Frame(r)
  BY <1>0, <1>3, <1>4, <1>5, FrameOfSession DEF SInv, IInv, CanLockSession
<1>7. RowInTime(NewSession(r))
  BY <1>0 DEF RowInTime, NewSession, RevocationCheck, SInv, InTime
<1>8. TablesAreRight'
  BY <1>0, <1>3, <1>5, <1>7, SessionWriteKeeps
<1>9. /\ sessionLock'[r] = r /\ sessionDraft'[r] = NewSession(r) /\ sessions' = sessions
      /\ \A s \in Sessions : s # r => /\ sessionLock'[s] = sessionLock[s]
                                      /\ sessionDraft'[s] = sessionDraft[s]
  BY <1>0, <1>3 DEF WriteSession, SInv, IInv, TypeOK
<1>10. SessionWriter(r)'
  <2>1. NewSession(r)' = NewSession(r)
    BY <1>5 DEF NewSession
  <2>2. ASSUME NEW s \in Sessions, s # r, sessionLock'[s] = r
        PROVE  RevokedDraft(s, "SESSION_SUPERSEDED")' /\ sessions'[s].slot = input'[r]
    BY <1>1, <1>5, <1>9, <2>2 DEF RevokedDraft, Holds
  <2> QED BY <1>5, <1>9, <2>1, <2>2 DEF SessionWriter
<1>11. LoginHas(r)'
  BY <1>1, <1>3, <1>5, <1>9 DEF LoginHas
<1> QED BY <1>0, <1>5, <1>6, <1>8, <1>10, <1>11, StepKeeps DEF HandlerKnows

\* The root token is inserted.
LEMMA RootingIsSafe ==
  ASSUME SInv, IInv', NEW r \in Logins, InsertRootToken(r)
  PROVE  SInv'
<1>0. /\ r \in Requests /\ r \in Tokens /\ r \notin Refreshes /\ r \notin Logouts
      /\ pc[r] = "insertRoot" /\ input[r] \in Slots /\ ~Issued(r)
      /\ WriteToken(r, r, RootToken(r)) /\ Goto(r, "commit")
      /\ UNCHANGED <<clock, sessionTable, slotLock, locals>>
  BY RequestsAssumption
     DEF Requests, Tokens, InsertRootToken, SInv, IInv, HandlersRemember, MintedAtCommit, Issued
<1>1. tokenLock[r] = None
  <2>1. OnlyWriters /\ HandlersRemember /\ TypeOK
    BY DEF SInv, IInv
  <2> SUFFICES ASSUME NEW q \in Requests, tokenLock[r] = q PROVE FALSE
    BY <1>0, <2>1 DEF TypeOK
  <2>2. ~RevokeDraft(r)
    BY <1>0 DEF RevokeDraft
  <2>3. q \in Refreshes /\ Running(q) => input[q] # r
    BY <1>0, <2>1 DEF HandlersRemember
  <2> QED BY <1>0, <2>1, <2>2, <2>3, RequestsAssumption DEF OnlyWriters, Running, Answers
<1>2. OthersWait(r) /\ pc'[r] = "commit"
  BY <1>0 DEF OthersWait, Goto, locals, SInv, IInv, TypeOK
<1>3. Frame(r)
  BY <1>0, <1>1, <1>2, FrameOfToken DEF SInv, IInv, CanLockToken
<1>4. TablesAreRight'
  BY <1>0, <1>2, TokenWriteKeeps DEF locals
<1>5. tokenDraft'[r].revoked = None
  BY <1>0 DEF WriteToken, RootToken, SInv, IInv, TypeOK
<1>6. SessionWriter(r)'
  <2>1. NewSession(r)' = NewSession(r)
    BY <1>0 DEF NewSession, locals
  <2>2. \A s \in Sessions : RevokedDraft(s, "SESSION_SUPERSEDED")' <=> RevokedDraft(s, "SESSION_SUPERSEDED")
    BY <1>0 DEF RevokedDraft, Holds, sessionTable
  <2>3. \A s \in Sessions : sessionLock[s] = r =>
           \/ RevokedDraft(s, "SESSION_SUPERSEDED") /\ sessions[s].slot = input[r]
           \/ s = r /\ sessionDraft[s] = NewSession(r)
    BY <1>0 DEF SInv, HandlerKnows, SessionWriter
  <2> QED BY <1>0, <1>2, <2>1, <2>2, <2>3 DEF SessionWriter, sessionTable, locals
<1>7. LoginHas(r)'
  <2>1. /\ slotLock[input[r]] = r
        /\ \A s \in Sessions : HoldsSlot(sessions[s], input[r]) => sessionLock[s] = r
    BY <1>0 DEF SInv, HandlerKnows, LoginHas
  <2> QED BY <1>0, <1>2, <1>5, <2>1 DEF LoginHas, sessionTable, locals
<1> QED BY <1>0, <1>2, <1>3, <1>4, <1>6, <1>7, StepKeeps DEF HandlerKnows

-----------------------------------------------------------------------------
(* Refreshes and logouts. *)

\* A step of a refresh or a logout that writes no row.
LEMMA ReadingKeeps ==
  ASSUME SInv, IInv', NEW r \in Refreshes \cup Logouts, NEW w \in PCs \ {"violation"},
         pc[r] \notin {"ok", "error"}, Goto(r, w),
         UNCHANGED <<clock, sessionTable, tokenTable, slotLock, prior>>,
         \A q \in Requests \ {r} : /\ input'[q] = input[q] /\ stamp'[q] = stamp[q]
                                   /\ current'[q] = current[q] /\ scan'[q] = scan[q],
         stamp'[r] \in {stamp[r], clock}, HandlerKnows(r)'
  PROVE  SInv'
<1>1. r \in Requests /\ OthersWait(r) /\ pc'[r] = w
  BY DEF Requests, OthersWait, Goto, SInv, IInv, TypeOK
<1>2. Frame(r)
  BY <1>1, FrameOfMove DEF SInv, IInv
<1>3. TablesAreRight'
  BY <1>1, MoveKeeps
<1> QED BY <1>1, <1>2, <1>3, StepKeeps

\* r has no token row before it exchanges or revokes one.
LEMMA NoTokenLocked ==
  ASSUME SInv, NEW r \in Refreshes \cup Logouts,
         pc[r] \notin {"insertChild", "touch", "commit", "revokeRows"}
  PROVE  \A t \in Tokens : tokenLock[t] # r
  BY RequestsAssumption DEF SInv, IInv, OnlyWriters, Requests

\* A request arrives, with a token or without.
LEMMA ArrivingIsSafe ==
  ASSUME SInv, IInv', NEW r \in Refreshes \cup Logouts,
         UnknownToken(r) \/ \E t \in Tokens : FindByHash(r, t)
  PROVE  SInv'
<1>0. /\ r \in Requests /\ r \notin Logins
      /\ pc[r] = "idle" /\ UNCHANGED <<clock, sessionTable, tokenTable, slotLock, stamp, prior, scan>>
  BY RequestsAssumption DEF Requests, UnknownToken, FindByHash, locals
<1>1. PICK w \in {"invalid", "findSession"} : Goto(r, w)
  BY DEF UnknownToken, FindByHash
<1>2. pc'[r] = w /\ scan'[r] = {}
  BY <1>0, <1>1 DEF Goto, SInv, IInv, TypeOK, HandlerKnows, FamilyOnly
<1>3. SessionWriter(r)'
  BY <1>0, NoSessionLocked DEF SessionWriter, sessionTable
<1>4. ReplayKnows(r)'
  <2>1. CASE UnknownToken(r)
    BY <1>0, <2>1 DEF UnknownToken, Goto, ReplayKnows, Running, Answers, SInv, IInv, TypeOK
  <2>2. CASE \E t \in Tokens : FindByHash(r, t)
    <3>1. PICK t \in Tokens : FindByHash(r, t)
      BY <2>2
    <3>2. input'[r] = t /\ current'[r] = tokens[t] /\ tokens' = tokens /\ pc'[r] = "findSession"
      BY <1>0, <3>1 DEF FindByHash, Goto, SInv, IInv, TypeOK, tokenTable
    <3> QED BY <3>2 DEF ReplayKnows
  <2> QED BY <2>1, <2>2
<1>5. HandlerKnows(r)'
  BY <1>0, <1>2, <1>3, <1>4 DEF HandlerKnows, LogoutHas, FamilyOnly
<1> QED BY <1>0, <1>1, <1>5, ReadingKeeps
        DEF PCs, Answers, UnknownToken, FindByHash, locals, SInv, IInv, TypeOK

\* The refresh decides on what it read.
LEMMA DecidingIsSafe ==
  ASSUME SInv, IInv', NEW r \in Refreshes,
         DetectReplay(r) \/ RejectDead(r) \/ Mint(r) \/ LoseConsume(r)
  PROVE  SInv'
<1>i. PICK i : i = input[r]
  OBVIOUS
<1>0. /\ r \in Requests /\ r \notin Logins /\ r \notin Logouts /\ Running(r)
      /\ pc[r] \in {"findSession", "consume"}
      /\ UNCHANGED <<clock, sessionTable, tokenTable, slotLock, input, prior, current, scan>>
  BY RequestsAssumption
     DEF Requests, DetectReplay, RejectDead, Mint, LoseConsume, locals, Running, Answers
<1>1. PICK w \in {"scanFamily", "invalid", "consume"} :
         /\ Goto(r, w)
         /\ w = "scanFamily" => DetectReplay(r) \/ LoseConsume(r)
  BY DEF DetectReplay, RejectDead, Mint, LoseConsume
<1>2. pc'[r] = w /\ (\A q \in Requests \ {r} : stamp'[q] = stamp[q]) /\ stamp'[r] \in {stamp[r], clock}
  BY <1>0, <1>1 DEF Goto, SInv, IInv, TypeOK, DetectReplay, RejectDead, Mint, LoseConsume, locals
<1>3. SessionWriter(r)'
  BY <1>0, NoSessionLocked DEF SessionWriter, sessionTable
<1>4. i \in Tokens /\ Issued(i)
  BY <1>0, <1>i DEF SInv, IInv, HandlersRemember
<1>5. w = "scanFamily" => tokens[i].consumed
  <2>1. CASE DetectReplay(r)
    BY <1>0, <1>i, <2>1 DEF DetectReplay, SInv, HandlerKnows, ReplayKnows
  <2>2. CASE LoseConsume(r)
    <3>1. tokenLock[i] = None
      BY <1>4, <1>i, <2>2, NoTokenLocked DEF LoseConsume, CanLockToken
    <3> QED BY <1>4, <1>i, <2>2, <3>1 DEF LoseConsume, CanConsume, SInv, IInv, DraftsExtendRows
  <2> QED BY <1>1, <2>1, <2>2
<1>6. ReplayKnows(r)'
  BY <1>0, <1>2, <1>i, <1>4, <1>5
     DEF ReplayKnows, Issued, tokenTable, SInv, HandlerKnows
<1>7. FamilyOnly(r)'
  BY <1>0, <1>2 DEF FamilyOnly, tokenTable, SInv, HandlerKnows
<1>8. HandlerKnows(r)'
  BY <1>0, <1>3, <1>6, <1>7 DEF HandlerKnows
<1> QED BY <1>0, <1>1, <1>2, <1>8, ReadingKeeps DEF PCs, Answers

\* RevokeFamily takes its snapshot.
LEMMA ScanningIsSafe ==
  ASSUME SInv, IInv', NEW r \in Refreshes \cup Logouts, ScanFamily(r)
  PROVE  SInv'
<1>f. PICK i, f : i = input[r] /\ f = current[r].family
  OBVIOUS
<1>0. /\ r \in Requests /\ r \notin Logins /\ Running(r) /\ pc[r] = "scanFamily"
      /\ UNCHANGED <<clock, sessionTable, tokenTable, slotLock, input, stamp, prior, current>>
      /\ Goto(r, "revokeRows") /\ scan' = [scan EXCEPT ![r] = FamilySnapshot(f)]
  BY <1>f, RequestsAssumption DEF Requests, ScanFamily, Running, Answers
<1>1. pc'[r] = "revokeRows" /\ scan'[r] = FamilySnapshot(f) /\ \A q \in Requests \ {r} : scan'[q] = scan[q]
  BY <1>0 DEF Goto, SInv, IInv, TypeOK
<1>2. i \in Tokens /\ Issued(i) /\ tokens[i].family = f
  BY <1>f, <1>0 DEF SInv, IInv, HandlersRemember
<1>3. SessionWriter(r)'
  <2>1. CASE r \in Refreshes
    BY <1>0, <2>1, NoSessionLocked DEF SessionWriter, sessionTable
  <2>2. CASE r \in Logouts
    <3>1. \A s \in Sessions : sessionLock[s] = r =>
             s = current[r].session /\ RevokedDraft(s, "USER_LOGOUT")
      BY <1>0, <2>2, RequestsAssumption DEF SInv, HandlerKnows, SessionWriter
    <3> QED BY <1>0, <1>1, <2>2, <3>1 DEF SessionWriter, sessionTable, RevokedDraft, Holds
  <2> QED BY <2>1, <2>2
<1>4. r \in Refreshes => ReplayKnows(r)'
  <2> SUFFICES ASSUME r \in Refreshes PROVE ReplayKnows(r)'
    OBVIOUS
  <2>1. tokens[i].consumed
    BY <1>f, <1>0 DEF SInv, HandlerKnows, ReplayKnows
  <2>2. ASSUME NEW t \in Tokens, Issued(t), t = i \/ ChildOf(t, i) PROVE ReplayRevokes(r, t)'
    <3>1. tokens[t].family = f
      BY <1>2, <2>2, NoneAssumption DEF SInv, Chains, ChildOf, Tokens, Requests
    <3> QED BY <1>0, <1>1, <2>2, <3>1 DEF ReplayRevokes, FamilySnapshot, Issued, tokenTable
  <2> QED BY <1>f, <1>0, <1>1, <1>2, <2>1, <2>2 DEF ReplayKnows, Issued, ChildOf, tokenTable
<1>5. FamilyOnly(r)'
  BY <1>f, <1>0, <1>1, NoTokenLocked DEF FamilyOnly, FamilySnapshot, tokenTable
<1>6. r \in Logouts => LogoutHas(r)'
  BY <1>0, <1>1 DEF LogoutHas, sessionTable, SInv, HandlerKnows
<1> QED BY <1>0, <1>1, <1>3, <1>4, <1>5, <1>6, ReadingKeeps DEF HandlerKnows, PCs, Answers

\* RevokeFamily reaches one row of its snapshot.
LEMMA RevokingRowIsSafe ==
  ASSUME SInv, IInv', NEW r \in Refreshes \cup Logouts, NEW why \in TokenReasons, RevokeRow(r, why)
  PROVE  SInv'
<1>f. PICK i, f : i = input[r] /\ f = current[r].family
  OBVIOUS
<1>1. PICK t \in scan[r] :
         /\ CanLockToken(r, t)
         /\ scan' = [scan EXCEPT ![r] = @ \ {t}]
         /\ IF tokenDraft[t].revoked = None
              THEN WriteToken(r, t, [tokenDraft[t] EXCEPT !.revoked = why])
              ELSE UNCHANGED tokenTable
  BY DEF RevokeRow
<1>0. /\ r \in Requests /\ r \notin Logins /\ Running(r) /\ pc[r] = "revokeRows"
      /\ UNCHANGED <<clock, sessionTable, slotLock, pc, input, stamp, prior, current>>
  BY RequestsAssumption DEF Requests, RevokeRow, Running, Answers
<1>2. t \in Tokens /\ Issued(t) /\ why # None /\ scan'[r] = scan[r] \ {t}
  BY <1>0, <1>1, NoneAssumption DEF SInv, IInv, TypeOK, HandlersRemember
<1>3. OthersWait(r)
  BY <1>0, <1>1 DEF OthersWait, SInv, IInv, TypeOK
<1>4. tokenDraft[t] \in TokenRow /\ tokenDraft[t].family = tokens[t].family
  BY <1>2, DraftKeepsRow DEF SInv
<1>5. /\ Frame(r) /\ TablesAreRight' /\ tokens' = tokens
      /\ \A x \in Tokens : x # t => /\ tokenLock'[x] = tokenLock[x]
                                    /\ tokenDraft'[x] = tokenDraft[x]
      /\ tokenDraft'[t].revoked # None
      /\ \/ tokenLock'[t] = r
         \/ tokenDraft[t].revoked # None /\ tokenLock'[t] = tokenLock[t] /\ tokenDraft'[t] = tokenDraft[t]
  <2>1. CASE tokenDraft[t].revoked = None
    <3>1. PICK row : row = [tokenDraft[t] EXCEPT !.revoked = why]
      OBVIOUS
    <3>2. row.revoked = why /\ row.consumed = tokenDraft[t].consumed
      BY <1>4, <3>1 DEF TokenRow
    <3>3. WriteToken(r, t, row)
      BY <1>1, <2>1, <3>1
    <3>4. Frame(r)
      BY <1>0, <1>1, <1>2, <1>3, <3>3, FrameOfToken DEF SInv, IInv
    <3>5. tokens[t].revoked = None /\ (tokens[t].consumed => row.consumed)
      BY <1>2, <2>1, <3>2 DEF SInv, DraftsOnlyAdd
    <3>6. TablesAreRight'
      BY <1>0, <1>2, <1>3, <3>3, <3>5, TokenWriteKeeps
    <3> QED BY <1>0, <1>2, <3>2, <3>3, <3>4, <3>6 DEF WriteToken, SInv, IInv, TypeOK
  <2>2. CASE tokenDraft[t].revoked # None
    <3>1. UNCHANGED tokenTable
      BY <1>1, <2>2
    <3>2. Frame(r) /\ TablesAreRight'
      BY <1>0, <1>3, <3>1, FrameOfMove, MoveKeeps DEF SInv, IInv
    <3> QED BY <2>2, <3>1, <3>2 DEF tokenTable
  <2> QED BY <2>1, <2>2
<1>6. SessionWriter(r)'
  <2>1. \A s \in Sessions : sessionLock[s] = r =>
           r \in Logouts /\ s = current[r].session /\ RevokedDraft(s, "USER_LOGOUT")
    BY <1>0, RequestsAssumption DEF SInv, HandlerKnows, SessionWriter
  <2> QED BY <1>0, <2>1 DEF SessionWriter, sessionTable, RevokedDraft, Holds
<1>7. r \in Logouts => LogoutHas(r)'
  BY <1>0 DEF LogoutHas, sessionTable, SInv, HandlerKnows
<1>8. FamilyOnly(r)'
  <2>1. tokens[t].family = current[r].family
    BY <1>1, <1>0 DEF SInv, HandlerKnows, FamilyOnly
  <2>2. /\ \A x \in scan[r] : tokens[x].family = current[r].family
        /\ \A x \in Tokens : tokenLock[x] = r => tokens[x].family = current[r].family
    BY <1>0 DEF SInv, HandlerKnows, FamilyOnly
  <2> QED BY <1>0, <1>2, <1>5, <2>1, <2>2 DEF FamilyOnly
<1>9. r \in Refreshes => ReplayKnows(r)'
  <2> SUFFICES ASSUME r \in Refreshes PROVE ReplayKnows(r)'
    OBVIOUS
  <2>1. i \in Tokens /\ Issued(i) /\ tokens[i].consumed
        /\ \A x \in Tokens : Issued(x) /\ (x = i \/ ChildOf(x, i)) => ReplayRevokes(r, x)
    BY <1>f, <1>0 DEF SInv, HandlerKnows, ReplayKnows
  <2>2. ASSUME NEW x \in Tokens, Issued(x), ReplayRevokes(r, x) PROVE ReplayRevokes(r, x)'
    <3>1. CASE x # t
      BY <1>0, <1>2, <1>5, <2>2, <3>1 DEF ReplayRevokes
    <3>2. CASE x = t /\ tokenLock'[t] = r
      BY <1>0, <1>5, <3>2 DEF ReplayRevokes
    <3>3. CASE x = t /\ tokenLock'[t] # r
      <4>1. tokenLock[t] = None /\ tokenDraft[t].revoked # None
        BY <1>1, <1>5, <3>3 DEF CanLockToken
      <4>2. tokens[t].revoked # None
        BY <1>2, <4>1 DEF SInv, IInv, DraftsExtendRows
      <4> QED BY <1>5, <3>3, <4>2 DEF ReplayRevokes
    <3> QED BY <3>1, <3>2, <3>3
  <2> QED BY <1>f, <1>0, <1>5, <2>1, <2>2 DEF ReplayKnows, Issued, ChildOf
<1>10. HandlerKnows(r)'
  BY <1>0, <1>6, <1>7, <1>8, <1>9 DEF HandlerKnows
<1> QED BY <1>0, <1>5, <1>10, StepKeeps

\* The logout finds the session, revokes it, and has revoked the family.
LEMMA LoggingOutIsSafe ==
  ASSUME SInv, IInv', NEW r \in Logouts, FindLogoutSession(r) \/ FamilyRevoked(r)
  PROVE  SInv'
<1>0. /\ r \in Requests /\ r \notin Logins /\ r \notin Refreshes /\ Running(r)
      /\ UNCHANGED <<clock, sessionTable, tokenTable, slotLock, input, stamp, prior, current, scan>>
  BY RequestsAssumption
     DEF Requests, FindLogoutSession, FamilyRevoked, locals, Running, Answers
<1>1. PICK w \in {"revokeSession", "commit"} :
         /\ Goto(r, w)
         /\ \/ pc[r] = "findSession" /\ w = "revokeSession"
            \/ pc[r] = "revokeRows" /\ w = "commit"
  BY DEF FindLogoutSession, FamilyRevoked
<1>2. pc'[r] = w
  BY <1>0, <1>1 DEF Goto, SInv, IInv, TypeOK
<1>3. SessionWriter(r)'
  <2>1. \A s \in Sessions : sessionLock[s] = r =>
           w = "commit" /\ s = current[r].session /\ RevokedDraft(s, "USER_LOGOUT")
    BY <1>0, <1>1 DEF SInv, HandlerKnows, SessionWriter
  <2> QED BY <1>0, <1>2, <2>1 DEF SessionWriter, sessionTable, RevokedDraft, Holds
<1>4. LogoutHas(r)' /\ FamilyOnly(r)'
  <2>1. LogoutHas(r) /\ FamilyOnly(r)
    BY <1>0 DEF SInv, HandlerKnows
  <2>2. LogoutHas(r)'
    BY <1>0, <1>1, <1>2, <2>1 DEF LogoutHas, sessionTable
  <2>3. FamilyOnly(r)'
    BY <1>0, <1>1, <1>2, <2>1 DEF FamilyOnly, tokenTable
  <2> QED BY <2>2, <2>3
<1> QED BY <1>0, <1>1, <1>3, <1>4, ReadingKeeps DEF HandlerKnows, PCs, Answers

\* RevokeSession of a logout.
LEMMA RevokingLoggedOutIsSafe ==
  ASSUME SInv, IInv', NEW r \in Logouts, RevokeLoggedOut(r)
  PROVE  SInv'
<1>s. PICK s : s = current[r].session
  OBVIOUS
<1>0. /\ r \in Requests /\ r \notin Logins /\ r \notin Refreshes
      /\ pc[r] = "revokeSession" /\ RevokeSession(r, s, "USER_LOGOUT", "scanFamily")
  BY <1>s, RequestsAssumption DEF Requests, RevokeLoggedOut
<1>1. s \in Sessions /\ Holds(s)
  BY <1>s, <1>0 DEF SInv, IInv, HandlersRemember, References, TokenRow, Running, Answers
<1>2. /\ Frame(r) /\ TablesAreRight'
      /\ pc'[r] = "scanFamily"
      /\ UNCHANGED <<sessions, tokenTable, slotLock, locals>>
      /\ \A x \in Sessions : x # s => sessionLock'[x] # r
      /\ \/ sessions[s].revoked # None /\ sessionLock'[s] # r
         \/ sessionLock'[s] = r /\ RevokedDraft(s, "USER_LOGOUT")'
  BY <1>0, <1>1, NoSessionLocked, RevokingIsSafe DEF SessionReasons, PCs
<1>3. SessionWriter(r)'
  BY <1>s, <1>2 DEF SessionWriter, locals
<1>4. LogoutHas(r)'
  BY <1>s, <1>2 DEF LogoutHas, locals
<1>5. FamilyOnly(r)'
  BY <1>0, <1>2 DEF FamilyOnly, locals, tokenTable, SInv, HandlerKnows
<1> QED BY <1>0, <1>2, <1>3, <1>4, <1>5, StepKeeps DEF HandlerKnows

\* The presented token is exchanged.
LEMMA ConsumingIsSafe ==
  ASSUME SInv, IInv', NEW r \in Refreshes, Consume(r)
  PROVE  SInv'
<1>i. PICK i, row : i = input[r] /\ row = [tokenDraft[i] EXCEPT !.consumed = TRUE]
  OBVIOUS
<1>0. /\ r \in Requests /\ r \notin Logins /\ r \notin Logouts /\ pc[r] = "consume"
      /\ CanLockToken(r, i) /\ WriteToken(r, i, row) /\ Goto(r, "insertChild")
      /\ UNCHANGED <<clock, sessionTable, slotLock, locals>>
  BY <1>i, RequestsAssumption DEF Requests, Consume
<1>1. i \in Tokens /\ Issued(i)
  BY <1>i, <1>0 DEF SInv, IInv, HandlersRemember, Running, Answers
<1>2. row.consumed /\ row.revoked = tokens[i].revoked
  <2>1. tokenLock[i] = None
    BY <1>0, <1>1, NoTokenLocked DEF CanLockToken
  <2>2. tokenDraft[i] = tokens[i] /\ tokens[i] \in TokenRow
    BY <1>1, <2>1 DEF SInv, IInv, TypeOK, DraftsExtendRows, Issued
  <2> QED BY <1>i, <2>2 DEF TokenRow
<1>3. OthersWait(r) /\ pc'[r] = "insertChild"
  BY <1>0 DEF OthersWait, Goto, locals, SInv, IInv, TypeOK
<1>4. Frame(r)
  BY <1>0, <1>1, <1>3, FrameOfToken DEF SInv, IInv
<1>5. TablesAreRight'
  BY <1>0, <1>1, <1>2, <1>3, TokenWriteKeeps DEF locals
<1>6. SessionWriter(r)'
  BY <1>0, NoSessionLocked DEF SessionWriter, sessionTable
<1>7. ReplayKnows(r)' /\ FamilyOnly(r)'
  <2>1. ReplayKnows(r) /\ FamilyOnly(r) /\ Running(r) /\ tokens' = tokens
    BY <1>0 DEF SInv, HandlerKnows, WriteToken, Running, Answers
  <2> QED BY <1>0, <1>3, <2>1 DEF ReplayKnows, FamilyOnly, locals
<1> QED BY <1>0, <1>3, <1>4, <1>5, <1>6, <1>7, StepKeeps DEF HandlerKnows

\* Its replacement is inserted.
LEMMA ReplacingIsSafe ==
  ASSUME SInv, IInv', NEW r \in Refreshes, InsertChild(r)
  PROVE  SInv'
<1>0. /\ r \in Requests /\ r \in Tokens /\ r \notin Logins /\ r \notin Logouts
      /\ pc[r] = "insertChild" /\ ~Issued(r)
      /\ WriteToken(r, r, ChildToken(r)) /\ Goto(r, "touch")
      /\ UNCHANGED <<clock, sessionTable, slotLock, locals>>
  BY RequestsAssumption
     DEF Requests, Tokens, InsertChild, SInv, IInv, MintedAtCommit, Issued
<1>1. tokenLock[r] = None
  <2>1. OnlyWriters /\ HandlersRemember /\ TypeOK
    BY DEF SInv, IInv
  <2> SUFFICES ASSUME NEW q \in Requests, tokenLock[r] = q PROVE FALSE
    BY <1>0, <2>1 DEF TypeOK
  <2>2. ~RevokeDraft(r)
    BY <1>0 DEF RevokeDraft
  <2>3. q \in Refreshes /\ Running(q) => input[q] # r
    BY <1>0, <2>1 DEF HandlersRemember
  <2> QED BY <1>0, <2>1, <2>2, <2>3, RequestsAssumption DEF OnlyWriters, Running, Answers
<1>2. OthersWait(r) /\ pc'[r] = "touch"
  BY <1>0 DEF OthersWait, Goto, locals, SInv, IInv, TypeOK
<1>3. Frame(r)
  BY <1>0, <1>1, <1>2, FrameOfToken DEF SInv, IInv, CanLockToken
<1>4. TablesAreRight'
  BY <1>0, <1>2, TokenWriteKeeps DEF locals
<1>5. SessionWriter(r)'
  BY <1>0, NoSessionLocked DEF SessionWriter, sessionTable
<1>6. ReplayKnows(r)' /\ FamilyOnly(r)'
  <2>1. ReplayKnows(r) /\ FamilyOnly(r) /\ Running(r) /\ tokens' = tokens
    BY <1>0 DEF SInv, HandlerKnows, WriteToken, Running, Answers
  <2> QED BY <1>0, <1>2, <2>1 DEF ReplayKnows, FamilyOnly, locals
<1> QED BY <1>0, <1>2, <1>3, <1>4, <1>5, <1>6, StepKeeps DEF HandlerKnows

\* The session is touched: its row stays as it is, locked.
LEMMA TouchingIsSafe ==
  ASSUME SInv, IInv', NEW r \in Refreshes, TouchSession(r)
  PROVE  SInv'
<1>s. PICK s, row : s = current[r].session /\ row = sessionDraft[s]
  OBVIOUS
<1>0. /\ r \in Requests /\ r \notin Logins /\ r \notin Logouts /\ pc[r] = "touch"
      /\ CanLockSession(r, s) /\ WriteSession(r, s, row) /\ Goto(r, "commit")
      /\ UNCHANGED <<clock, tokenTable, slotLock, locals>>
  BY <1>s, RequestsAssumption DEF Requests, TouchSession
<1>1. s \in Sessions /\ Holds(s)
  BY <1>s, <1>0 DEF SInv, IInv, HandlersRemember, References, TokenRow, Running, Answers
<1>2. row = sessions[s] /\ \A x \in Sessions : sessionLock[x] # r
  BY <1>s, <1>0, <1>1, NoSessionLocked DEF CanLockSession, SInv, DraftsOnlyAdd
<1>3. OthersWait(r) /\ pc'[r] = "commit"
  BY <1>0 DEF OthersWait, Goto, locals, SInv, IInv, TypeOK
<1>4. Frame(r)
  BY <1>0, <1>1, <1>3, FrameOfSession DEF SInv, IInv
<1>5. TablesAreRight'
  <2>1. RowInTime(row)
    BY <1>1, <1>2 DEF SInv, InTime
  <2> QED BY <1>0, <1>1, <1>2, <1>3, <2>1, SessionWriteKeeps DEF locals
<1>6. SessionWriter(r)'
  <2>1. /\ sessionDraft'[s] = sessions[s] /\ sessions' = sessions
        /\ \A x \in Sessions : x # s => sessionLock'[x] # r
    BY <1>0, <1>1, <1>2 DEF WriteSession, SInv, IInv, TypeOK
  <2> QED BY <1>1, <1>3, <2>1 DEF SessionWriter, Holds
<1>7. ReplayKnows(r)' /\ FamilyOnly(r)'
  <2>1. ReplayKnows(r) /\ FamilyOnly(r) /\ Running(r) /\ tokens' = tokens
    BY <1>0 DEF SInv, HandlerKnows, tokenTable, Running, Answers
  <2> QED BY <1>0, <1>3, <2>1 DEF ReplayKnows, FamilyOnly, locals
<1> QED BY <1>0, <1>3, <1>4, <1>5, <1>6, <1>7, StepKeeps DEF HandlerKnows

-----------------------------------------------------------------------------
(* Every step. *)

\* Nothing is stored before the first login.
LEMMA InitSInv == Init => SInv
<1> SUFFICES ASSUME Init PROVE SInv
  OBVIOUS
<1>1. IInv
  BY InitIInv
<1>2. /\ \A s \in Sessions : ~Holds(s) /\ sessionDraft[s] = None /\ sessionLock[s] = None
      /\ \A t \in Tokens : ~Issued(t)
      /\ \A r \in Requests : pc[r] = "idle" /\ stamp[r] <= clock /\ scan[r] = {}
  BY DEF Init, Holds, Issued
<1>3. DraftsOnlyAdd /\ InTime /\ OpenedAtCommit /\ OneHolder /\ Chains /\ SlotEmptiedOnlyByLogout
      /\ NoConstraintViolation
  BY <1>2 DEF DraftsOnlyAdd, InTime, RowInTime, OpenedAtCommit, OneHolder, HoldsSlot, Chains,
              SlotEmptiedOnlyByLogout, NoConstraintViolation, Holds
<1>4. ASSUME NEW r \in Requests PROVE HandlerKnows(r)
  <2>1. SessionWriter(r)
    BY <1>2, NoneAssumption DEF SessionWriter
  <2>2. \A t \in Tokens : tokenLock[t] # r
    BY NoneAssumption DEF Init
  <2> QED BY <1>2, <2>1, <2>2
          DEF HandlerKnows, LoginHas, LogoutHas, ReplayKnows, FamilyOnly, Running
<1> QED BY <1>1, <1>3, <1>4 DEF SInv

\* Time passes.
LEMMA TickIsSafe ==
  ASSUME SInv, IInv', Tick \/ UNCHANGED vars
  PROVE  SInv'
<1>0. /\ UNCHANGED <<sessionTable, tokenTable, slotLock, pc, locals>>
      /\ clock \in Nat /\ clock' \in Nat /\ clock <= clock'
  BY DEF Tick, vars, SInv, IInv, TypeOK
<1>1. DraftsOnlyAdd' /\ OpenedAtCommit' /\ OneHolder' /\ Chains' /\ SlotEmptiedOnlyByLogout'
      /\ NoConstraintViolation'
  BY <1>0 DEF SInv, DraftsOnlyAdd, OpenedAtCommit, OneHolder, Chains, SlotEmptiedOnlyByLogout,
              NoConstraintViolation, Holds, Issued, sessionTable, tokenTable
<1>2. InTime'
  <2>1. ASSUME NEW row \in SessionRow \cup {None}, RowInTime(row) PROVE RowInTime(row)'
    <3>1. CASE row = None
      BY <3>1 DEF RowInTime
    <3>2. CASE row # None
      <4>1. row.created \in Nat
        BY <2>1, <3>2 DEF SessionRow
      <4> QED BY <1>0, <2>1, <3>2, <4>1 DEF RowInTime
    <3> QED BY <3>1, <3>2
  <2>2. \A s \in Sessions : /\ sessions[s] \in SessionRow \cup {None}
                            /\ sessionDraft[s] \in SessionRow \cup {None}
    BY DEF SInv, IInv, TypeOK
  <2>3. \A r \in Requests : stamp'[r] <= clock'
    BY <1>0 DEF SInv, IInv, TypeOK, InTime, locals
  <2> QED BY <1>0, <2>1, <2>2, <2>3 DEF SInv, InTime, RowInTime, sessionTable
<1>3. ASSUME NEW r \in Requests PROVE HandlerKnows(r)'
  <2>1. HandlerKnows(r)
    BY DEF SInv
  <2>2. \A s \in Sessions : NewSession(s)' = NewSession(s)
    BY <1>0 DEF NewSession, locals
  <2> QED BY <1>0, <2>1, <2>2
          DEF HandlerKnows, SessionWriter, RevokedDraft, LoginHas, LogoutHas, ReplayKnows,
              ReplayRevokes, FamilyOnly, Running, Holds, Issued, ChildOf, Sessions,
              sessionTable, tokenTable, locals
<1> QED BY <1>1, <1>2, <1>3 DEF SInv

\* Every step of the system, failures and deadlock victims included.
LEMMA NextSInv ==
  ASSUME SInv, IInv', [Next]_vars
  PROVE  SInv'
<1>1. CASE Arrive
  <2>1. \A r \in Logins, d \in Slots : BeginIssue(r, d) => SInv'
    BY LookingIsSafe
  <2> QED BY <1>1, <2>1, ArrivingIsSafe DEF Arrive
<1>2. ASSUME NEW r \in Logins, IssueStep(r) PROVE SInv'
  <2>1. r \in Requests
    BY DEF Requests
  <2>2. CASE FindOlderSession(r)
    BY <2>1, <2>2, GivingUpIsSafe DEF FindOlderSession, Running, Answers
  <2>3. CASE CommitIssue(r)
    BY <2>1, <2>3, CommittingIsSafe DEF CommitIssue
  <2> QED BY <1>2, <2>2, <2>3, LookingIsSafe, SupersedingIsSafe, InsertingIsSafe, RootingIsSafe
          DEF IssueStep
<1>3. ASSUME NEW r \in Refreshes, RefreshStep(r) PROVE SInv'
  <2>1. r \in Requests
    BY DEF Requests
  <2>2. CASE CommitRotation(r)
    BY <2>1, <2>2, CommittingIsSafe DEF CommitRotation
  <2>3. CASE AnswerReplay(r)
    BY <2>1, <2>3, CommittingIsSafe DEF AnswerReplay
  <2>4. CASE ScanFamily(r) \/ RevokeReplayedRow(r)
    BY <2>4, ScanningIsSafe, RevokingRowIsSafe DEF RevokeReplayedRow, TokenReasons
  <2> QED BY <1>3, <2>2, <2>3, <2>4, DecidingIsSafe, ConsumingIsSafe, ReplacingIsSafe, TouchingIsSafe
          DEF RefreshStep
<1>4. ASSUME NEW r \in Logouts, LogoutStep(r) PROVE SInv'
  <2>1. r \in Requests
    BY DEF Requests
  <2>2. CASE CommitLogout(r)
    BY <2>1, <2>2, CommittingIsSafe DEF CommitLogout
  <2>3. CASE ScanFamily(r) \/ RevokeLoggedOutRow(r)
    BY <2>3, ScanningIsSafe, RevokingRowIsSafe DEF RevokeLoggedOutRow, TokenReasons
  <2> QED BY <1>4, <2>2, <2>3, LoggingOutIsSafe, RevokingLoggedOutIsSafe DEF LogoutStep
<1>5. ASSUME NEW r \in Requests, Fail(r) \/ DeadlockVictim(r) PROVE SInv'
  <2>1. Running(r) /\ ErrorAnswer(r) \in {"error", "replayLogged"} /\ GiveUp(r, ErrorAnswer(r))
    BY <1>5 DEF Fail, DeadlockVictim, InDeadlock, WaitsFor, Running, Answers, ErrorAnswer
  <2> QED BY <2>1, GivingUpIsSafe
<1>6. ASSUME NEW r \in Requests, CommitUnanswered(r) PROVE SInv'
  BY <1>6, CommittingIsSafe DEF CommitUnanswered
<1>7. CASE Tick \/ UNCHANGED vars
  BY <1>7, TickIsSafe
<1> QED BY <1>1, <1>2, <1>3, <1>4, <1>5, <1>6, <1>7 DEF Next, Step, AllAnswered

-----------------------------------------------------------------------------
(* The theorems. *)

\* However requests interleave, fail or deadlock: drafts only add, one session holds a
\* slot, families are chains under their session, and every handler knows what its next
\* statement relies on.
THEOREM SafetyInvariance == Spec => []SInv
<1>1. Init => SInv
  BY InitSInv
<1>2. SInv /\ IInv' /\ [Next]_vars => SInv'
  BY NextSInv
<1> QED BY <1>1, <1>2, Invariance, PTL DEF Spec

\* No login ever runs into uq_sessions_active_device or sessions_revocation_check.
THEOREM ConstraintsAreNeverHit == Spec => []NoConstraintViolation
<1>1. SInv => NoConstraintViolation
  BY DEF SInv
<1> QED BY <1>1, SafetyInvariance, PTL

\* Superseding is one transaction: only a logout leaves a device slot empty.
THEOREM SlotsAreEmptiedByLogouts == Spec => []SlotEmptiedOnlyByLogout
<1>1. SInv => SlotEmptiedOnlyByLogout
  BY DEF SInv
<1> QED BY <1>1, SafetyInvariance, PTL

\* After a 204 no token of the session can be exchanged again.
THEOREM LogoutsAreFinal == Spec => []LogoutIsFinal
<1>1. SInv => LogoutIsFinal
  BY DEF SInv, HandlerKnows, LogoutHas, LogoutIsFinal, Usable, SessionRejected, Requests
<1> QED BY <1>1, SafetyInvariance, PTL

\* A replay answered as revoked has revoked the token and its replacement.
THEOREM ReplaysRevokeTheReplacement == Spec => []ReplayRevokesReplacement
<1>1. SInv => ReplayRevokesReplacement
  BY DEF SInv, HandlerKnows, ReplayKnows, ReplayRevokes, ReplayRevokesReplacement, Requests
<1> QED BY <1>1, SafetyInvariance, PTL

-----------------------------------------------------------------------------
(* What a step does to the committed rows. *)

\* r commits: a login, rotation or logout, or the revocation of a replay.
Committing(r) ==
    /\ \E w \in {"ok", "error", "replay"} : Finish(r, w)
    /\ pc[r] = "commit" \/ (r \in Refreshes /\ pc[r] = "revokeRows")

\* The committed rows change by a commit only.
LEMMA OnlyCommitsWrite ==
  ASSUME SInv, [Next]_vars
  PROVE  UNCHANGED <<sessions, tokens>> \/ \E r \in Requests : Committing(r)
<1> USE DEF sessionTable, tokenTable
<1>1. CASE Arrive
  BY <1>1 DEF Arrive, BeginIssue, UnknownToken, FindByHash
<1>2. ASSUME NEW r \in Requests, NEW w, GiveUp(r, w) PROVE UNCHANGED <<sessions, tokens>>
  BY <1>2 DEF GiveUp, Rollback
<1>3. ASSUME NEW r \in Requests, NEW s, NEW why, NEW w, RevokeSession(r, s, why, w)
      PROVE  UNCHANGED <<sessions, tokens>>
  BY <1>2, <1>3 DEF RevokeSession, WriteSession
<1>4. ASSUME NEW r \in Logins, IssueStep(r)
      PROVE  UNCHANGED <<sessions, tokens>> \/ Committing(r)
  <2>1. r \in Requests
    BY DEF Requests
  <2> QED BY <1>2, <1>3, <1>4, <2>1
          DEF IssueStep, LockDeviceSlot, FindNoSession, FindRecentSession, FindOlderSession,
              Supersede, InsertSession, InsertRootToken, WriteSession, WriteToken, CommitIssue, Committing
<1>5. ASSUME NEW r \in Refreshes, RefreshStep(r)
      PROVE  UNCHANGED <<sessions, tokens>> \/ Committing(r)
  BY <1>5 DEF RefreshStep, DetectReplay, RejectDead, Mint, Consume, LoseConsume, InsertChild,
              TouchSession, ScanFamily, RevokeReplayedRow, RevokeRow, WriteSession, WriteToken,
              CommitRotation, AnswerReplay, Committing
<1>6. ASSUME NEW r \in Logouts, LogoutStep(r)
      PROVE  UNCHANGED <<sessions, tokens>> \/ Committing(r)
  <2>1. r \in Requests
    BY DEF Requests
  <2> QED BY <1>3, <1>6, <2>1
          DEF LogoutStep, FindLogoutSession, RevokeLoggedOut, ScanFamily, RevokeLoggedOutRow,
              RevokeRow, FamilyRevoked, WriteToken, CommitLogout, Committing
<1>7. ASSUME NEW r \in Requests, Fail(r) \/ DeadlockVictim(r) PROVE UNCHANGED <<sessions, tokens>>
  BY <1>2, <1>7 DEF Fail, DeadlockVictim
<1>8. ASSUME NEW r \in Requests, CommitUnanswered(r) PROVE Committing(r)
  BY <1>8 DEF CommitUnanswered, Committing
<1>9. CASE Tick \/ UNCHANGED vars
  BY <1>9 DEF Tick, vars
<1> QED BY <1>1, <1>4, <1>5, <1>6, <1>7, <1>8, <1>9 DEF Next, Step, AllAnswered, Requests

\* The frame of a commit.
LEMMA CommitsFrame ==
  ASSUME SInv, NEW r \in Requests, Committing(r)
  PROVE  Frame(r) /\ Commit(r)
<1>1. PICK w \in {"ok", "error", "replay"} : Finish(r, w)
  BY DEF Committing
<1> QED BY <1>1, FrameOfEnd DEF SInv, IInv, PCs, Answers, Finish

\* Nothing ever undoes or rewrites a revocation or an exchange.
THEOREM RevocationsArePermanent == Spec => RevocationIsPermanent
<1> DEFINE Kept ==
      /\ \A s \in Sessions : sessions[s] # None =>
            /\ sessions'[s] # None
            /\ sessions[s].revoked # None => sessions'[s] = sessions[s]
      /\ \A t \in Tokens : Issued(t) =>
            /\ tokens'[t] # None
            /\ tokens[t].consumed => tokens'[t].consumed
            /\ tokens[t].revoked # None => tokens'[t].revoked = tokens[t].revoked
<1>1. ASSUME SInv, [Next]_vars PROVE Kept
  <2>1. CASE UNCHANGED <<sessions, tokens>>
    BY <2>1 DEF Issued
  <2>2. ASSUME NEW r \in Requests, Committing(r) PROVE Kept
    BY <1>1, <2>2, CommitsFrame, TablesGrow DEF Holds, Issued
  <2> QED BY <1>1, <2>1, <2>2, OnlyCommitsWrite
<1>2. SInv /\ [Next]_vars => [Kept]_vars
  BY <1>1
<1> HIDE DEF Kept
<1>3. Spec => [][Kept]_vars
  BY <1>2, SafetyInvariance, PTL DEF Spec
<1> QED BY <1>3 DEF RevocationIsPermanent, Kept
=============================================================================
