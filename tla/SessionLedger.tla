--------------------------- MODULE SessionLedger ----------------------------
(***************************************************************************)
(* What the session tables promise, with every transaction a single step.  *)
(* A device slot is held by at most one session; a session owns one        *)
(* rotation chain, of which only the head can still be exchanged; a token  *)
(* that was cut stays cut, and a session that lost its slot never gets it  *)
(* back.  There is no guard on Rotate beyond being the head: the code does *)
(* not promise that a refresh already under way fails once its session or  *)
(* token is revoked.                                                       *)
(***************************************************************************)
CONSTANTS Sessions, Tokens, Slots, None

VARIABLES holder,   \* the unrevoked session of each slot
          members,  \* the tokens of each session's chain
          head,     \* the token of the chain that was not exchanged yet
          cut       \* the tokens that were revoked

ledger == <<holder, members, head, cut>>

Init ==
    /\ holder = [d \in Slots |-> None]
    /\ members = [s \in Sessions |-> {}]
    /\ head = [s \in Sessions |-> None]
    /\ cut = {}

\* A login opens a session with its root token, in place of any holder.
Open(s, d) ==
    /\ members[s] = {}
    /\ holder' = [holder EXCEPT ![d] = s]
    /\ members' = [members EXCEPT ![s] = {s}]
    /\ head' = [head EXCEPT ![s] = s]
    /\ UNCHANGED cut

\* A refresh exchanges the head for a token never seen before.
Rotate(s, c) ==
    /\ members[s] # {}
    /\ c \notin UNION {members[x] : x \in Sessions}
    /\ members' = [members EXCEPT ![s] = @ \cup {c}]
    /\ head' = [head EXCEPT ![s] = c]
    /\ UNCHANGED <<holder, cut>>

\* A replay, or a logout of a session already closed, cuts some tokens.
CutFamily(s) ==
    /\ \E T \in SUBSET members[s] : cut' = cut \cup T
    /\ UNCHANGED <<holder, members, head>>

\* A logout closes the session and cuts some tokens in the same step.
Close(s, d) ==
    /\ holder[d] = s
    /\ holder' = [holder EXCEPT ![d] = None]
    /\ \E T \in SUBSET members[s] : cut' = cut \cup T
    /\ UNCHANGED <<members, head>>

Next ==
    \/ \E s \in Sessions, d \in Slots : Open(s, d) \/ Close(s, d)
    \/ \E s \in Sessions, c \in Tokens : Rotate(s, c)
    \/ \E s \in Sessions : CutFamily(s)

Spec == Init /\ [][Next]_ledger
=============================================================================
