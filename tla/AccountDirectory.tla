-------------------------- MODULE AccountDirectory --------------------------
(***************************************************************************)
(* What registration, verification and OAuth logins promise together, as   *)
(* docs/register.md, docs/email-verification.md and docs/oauth.md put it:  *)
(* a mailbox has at most one account, an identity at most one link, and    *)
(* each of the five things that can happen to them happens in one step.    *)
(* AccountLifecycle implements it with transactions, unique indexes and    *)
(* rows read before the transaction that relies on them.                   *)
(***************************************************************************)
CONSTANTS Mailboxes, Subjects, Tokens, None

VARIABLES
    account,   \* of each mailbox: "none", "unverified" or "verified"
    link,      \* of each identity: the mailbox of its account
    token      \* of each verification token: its mailbox, and whether it was used

dirVars == <<account, link, token>>

Init ==
    /\ account = [m \in Mailboxes |-> "none"]
    /\ link = [s \in Subjects |-> None]
    /\ token = [t \in Tokens |-> None]

Issued(t, m) ==
    /\ token[t] = None
    /\ token' = [token EXCEPT ![t] = [mailbox |-> m, used |-> FALSE]]

\* A registration, and a first OAuth login with an address nobody vouches for, create
\* an account that is owed a verification.
Register(m, t) ==
    /\ account[m] = "none"
    /\ account' = [account EXCEPT ![m] = "unverified"]
    /\ Issued(t, m)

Linked(s, m) ==
    /\ link[s] = None
    /\ link' = [link EXCEPT ![s] = m]

RegisterUnvouched(m, s, t) == Register(m, t) /\ Linked(s, m)

RegisterVouched(m, s) ==
    /\ account[m] = "none"
    /\ account' = [account EXCEPT ![m] = "verified"]
    /\ Linked(s, m)
    /\ UNCHANGED token

\* ADR 0001: an account becomes linked only once it is verified.
LinkVerified(m, s) ==
    /\ account[m] = "verified"
    /\ Linked(s, m)
    /\ UNCHANGED <<account, token>>

\* A token works once, and verifies the account it was issued for.
Verify(t) ==
    /\ token[t] # None /\ ~token[t].used
    /\ token' = [token EXCEPT ![t].used = TRUE]
    /\ account' = [account EXCEPT ![token[t].mailbox] = "verified"]
    /\ UNCHANGED link

\* A token may be issued for an account that has meanwhile been verified.
Resend(m, t) ==
    /\ account[m] # "none"
    /\ Issued(t, m)
    /\ UNCHANGED <<account, link>>

Next ==
    \/ \E m \in Mailboxes, t \in Tokens :
          \/ Register(m, t) /\ UNCHANGED link
          \/ Resend(m, t)
          \/ \E s \in Subjects : RegisterUnvouched(m, s, t)
    \/ \E m \in Mailboxes, s \in Subjects : RegisterVouched(m, s) \/ LinkVerified(m, s)
    \/ \E t \in Tokens : Verify(t)

Spec == Init /\ [][Next]_dirVars
=============================================================================
