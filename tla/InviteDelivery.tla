---------------------------- MODULE InviteDelivery ----------------------------
(***************************************************************************)
(* How the code of an invitation reaches the invited person: an upload     *)
(* stores its invitations in one transaction, then emits one e-mail after  *)
(* the other, and a listener hands each e-mail to the SMTP server.  The    *)
(* code exists in clear only in that e-mail; the table keeps a hash.       *)
(*                                                                         *)
(* Nothing of this but the tables survives the process, and an e-mail that *)
(* the server refuses ends the process: the rejected promise of the        *)
(* listener has no handler.  No route sends an invitation again.           *)
(*                                                                         *)
(* One condominium; CondominiumRegistry has the tables in full.            *)
(***************************************************************************)
EXTENDS Integers, FiniteSets, Sequences, Tables

CONSTANTS
    Invitee,     \* persons
    Uploads,     \* upload requests
    MaxBatch,    \* bound: persons in one upload
    MaxEnds      \* bound: times the process ends

ASSUME BoundsAreCounts == MaxBatch \in Nat /\ MaxEnds \in Nat

VARIABLES
    pc,        \* upload -> where it is
    batch,     \* upload -> the persons it invites, in order
    next,      \* upload -> the position of its next e-mail
    invites,   \* pending invitations: person -> code
    accounts,  \* persons with an account
    spool,     \* codes in e-mails emitted, not yet taken by the SMTP server
    inbox,     \* codes in e-mails delivered
    ends       \* times the process has ended

work == <<pc, batch, next>>
vars == <<work, invites, accounts, spool, inbox, ends>>

\* genInvite draws a code for every position of an upload.
Codes == Uploads \X (1..MaxBatch)

Persons(u) == {batch[u][i] : i \in DOMAIN batch[u]}

Init ==
    /\ pc = [u \in Uploads |-> "start"]
    /\ batch = [u \in Uploads |-> <<>>]
    /\ next = [u \in Uploads |-> 1]
    /\ invites = EmptyTable
    /\ accounts = {}
    /\ spool = {} /\ inbox = {} /\ ends = 0

-----------------------------------------------------------------------------

\* The slip e-mails the codes while the invitations are built.
BuildInvites_Mut(u, b) ==
    /\ pc[u] = "start"
    /\ pc' = [pc EXCEPT ![u] = "insert"]
    /\ batch' = [batch EXCEPT ![u] = b]
    /\ spool' = spool \cup {<<u, i>> : i \in DOMAIN b}
    /\ UNCHANGED <<next, invites, accounts, inbox, ends>>

BuildInvites(u, b) ==
    /\ pc[u] = "start"
    /\ pc' = [pc EXCEPT ![u] = "insert"]
    /\ batch' = [batch EXCEPT ![u] = b]
    /\ UNCHANGED <<next, invites, accounts, spool, inbox, ends>>

\* createMany stores all the invitations, or none when one of the persons has
\* a pending invitation or is twice in the upload.
Refused(u) ==
    \/ Persons(u) \cap DOMAIN invites # {}
    \/ Cardinality(Persons(u)) < Len(batch[u])

\* The slip replaces the invitation a person has.
CreateMany_Mut(u) ==
    /\ pc[u] = "insert"
    /\ pc' = [pc EXCEPT ![u] = "mail"]
    /\ invites' = [p \in DOMAIN invites \cup Persons(u) |->
            IF p \in Persons(u) THEN <<u, CHOOSE i \in DOMAIN batch[u] : batch[u][i] = p>>
            ELSE invites[p]]
    /\ UNCHANGED <<batch, next, accounts, spool, inbox, ends>>

CreateMany(u) ==
    /\ pc[u] = "insert"
    /\ \/ /\ ~Refused(u)
          /\ pc' = [pc EXCEPT ![u] = "mail"]
          /\ invites' = With(invites,
               [p \in Persons(u) |-> <<u, CHOOSE i \in DOMAIN batch[u] : batch[u][i] = p>>])
       \/ /\ Refused(u)
          /\ pc' = [pc EXCEPT ![u] = "refused"]
          /\ UNCHANGED invites
    /\ UNCHANGED <<batch, next, accounts, spool, inbox, ends>>

\* The slip: a loop that stops one short.
SendInvite_Mut(u) ==
    /\ pc[u] = "mail"
    /\ IF next[u] < Len(batch[u])
       THEN /\ spool' = spool \cup {<<u, next[u]>>}
            /\ next' = [next EXCEPT ![u] = @ + 1]
            /\ UNCHANGED pc
       ELSE pc' = [pc EXCEPT ![u] = "done"] /\ UNCHANGED <<next, spool>>
    /\ UNCHANGED <<batch, invites, accounts, inbox, ends>>

\* The loop over the e-mails of the upload emits the next one.
SendInvite(u) ==
    /\ pc[u] = "mail"
    /\ IF next[u] <= Len(batch[u])
       THEN /\ spool' = spool \cup {<<u, next[u]>>}
            /\ next' = [next EXCEPT ![u] = @ + 1]
            /\ UNCHANGED pc
       ELSE pc' = [pc EXCEPT ![u] = "done"] /\ UNCHANGED <<next, spool>>
    /\ UNCHANGED <<batch, invites, accounts, inbox, ends>>

\* The slip swallows the error of a failed delivery.
Deliver_Mut(c) ==
    /\ c \in spool
    /\ spool' = spool \ {c}
    /\ inbox' \in {inbox, inbox \cup {c}}
    /\ UNCHANGED <<work, invites, accounts, ends>>

\* The listeners run on their own: e-mails are delivered in any order.
Deliver(c) ==
    /\ c \in spool
    /\ spool' = spool \ {c}
    /\ inbox' = inbox \cup {c}
    /\ UNCHANGED <<work, invites, accounts, ends>>

\* The process ends and is started again: uploads in progress are cut short
\* and e-mails not handed over are gone.
ProcessEnds ==
    /\ ends < MaxEnds
    /\ ends' = ends + 1
    /\ pc' = [u \in Uploads |-> IF pc[u] \in {"insert", "mail"} THEN "cut" ELSE pc[u]]
    /\ spool' = {}
    /\ UNCHANGED <<batch, next, invites, accounts, inbox>>

\* The SMTP server refuses an e-mail.
Refuse(c) == c \in spool /\ ProcessEnds

\* A deployment, or a failure elsewhere.
Crash == ProcessEnds

\* POST /user with the code of the e-mail.
SignUp(p) ==
    /\ p \in DOMAIN invites /\ invites[p] \in inbox
    /\ p \notin accounts
    /\ accounts' = accounts \cup {p}
    /\ invites' = Without(invites, {p})
    /\ UNCHANGED <<work, spool, inbox, ends>>

\* DELETE .../community-member/:memberId, of a membership still waiting.
RemoveMember(p) ==
    /\ p \in DOMAIN invites
    /\ invites' = Without(invites, {p})
    /\ UNCHANGED <<work, accounts, spool, inbox, ends>>

Next ==
    \/ \E u \in Uploads :
          \/ \E n \in 0..MaxBatch : \E b \in [1..n -> Invitee] : BuildInvites(u, b)
          \/ CreateMany(u) \/ SendInvite(u)
    \/ \E c \in Codes : Deliver(c) \/ Refuse(c)
    \/ Crash
    \/ \E p \in Invitee : SignUp(p) \/ RemoveMember(p)

\* An upload goes on by itself, and an e-mail is either delivered or refused.
Fairness ==
    /\ \A u \in Uploads : WF_vars(CreateMany(u) \/ SendInvite(u))
    /\ \A c \in Codes : WF_vars(Deliver(c) \/ Refuse(c))

Spec == Init /\ [][Next]_vars /\ Fairness

-----------------------------------------------------------------------------

TypeOK ==
    /\ pc \in [Uploads -> {"start", "insert", "mail", "done", "refused", "cut"}]
    /\ batch \in [Uploads -> Seq(Invitee)] /\ next \in [Uploads -> Nat]
    /\ \A u \in Uploads : next[u] \in 1..Len(batch[u]) + 1
    /\ IsTable(invites, Invitee, Codes)
    /\ \A p \in DOMAIN invites : batch[invites[p][1]][invites[p][2]] = p
    /\ accounts \subseteq Invitee
    /\ spool \cup inbox \subseteq Codes /\ spool \cap inbox = {}
    /\ ends \in 0..MaxEnds

\* The code can still reach its person: it has, or it is on its way.
Reachable(c) ==
    \/ c \in spool \cup inbox
    \/ pc[c[1]] = "mail" /\ next[c[1]] <= c[2]

Stranded(p) == p \in DOMAIN invites /\ ~Reachable(invites[p])

\* No e-mail announces an invitation that was never stored: an upload that the
\* database refuses has sent nothing, and one cut before its commit neither.
NoMailWithoutInvite ==
    \A c \in spool \cup inbox : pc[c[1]] \in {"mail", "done", "cut"} /\ c[2] < next[c[1]]

\* A stored invitation whose code has not arrived yet can lose it only when the
\* process ends: not by another upload, a removal or an order of the listeners.
CodesAreLostOnlyWithTheProcess ==
    [][ends' = ends =>
         \A p \in DOMAIN invites' : Stranded(p)' => Stranded(p)]_vars

\* An invitation that lost its code stays as it is, in the way of a new one for
\* that person, until the membership is removed.
StrandedUntilRemoved ==
    [][\A p \in Invitee : Stranded(p) =>
          \/ p \notin DOMAIN invites'
          \/ invites'[p] = invites[p] /\ Stranded(p)']_vars

\* Unless the process ends, the code of every stored invitation arrives, or
\* the invitation is withdrawn first.
EveryCodeArrives ==
    \A u \in Uploads, p \in Invitee :
        (pc[u] = "mail" /\ p \in DOMAIN invites /\ invites[p][1] = u)
          ~> (ends > 0 \/ p \notin DOMAIN invites \/ invites[p] \in inbox)
=============================================================================
