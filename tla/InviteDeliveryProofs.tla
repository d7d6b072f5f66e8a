------------------------ MODULE InviteDeliveryProofs ------------------------
(***************************************************************************)
(* The safety properties of InviteDelivery for any number of persons and   *)
(* uploads.  What carries them is that an invitation is only of an upload  *)
(* that has been stored, and that an upload e-mails nothing before: the    *)
(* position of the next e-mail then tells which codes can still leave.     *)
(***************************************************************************)
EXTENDS InviteDelivery, SequenceTheorems, TLAPS

\* Where an upload can be once its invitations are stored.
Stored == {"mail", "done", "cut"}

\* An invitation is at a position of an upload that has been stored.
InvitesAreStored ==
    \A p \in DOMAIN invites :
        /\ pc[invites[p][1]] \in Stored
        /\ invites[p][2] \in 1..Len(batch[invites[p][1]])

\* An upload is within its bound, and starts to e-mail with its first row.
MailsFromTheFirst ==
    \A u \in Uploads :
        /\ Len(batch[u]) <= MaxBatch
        /\ pc[u] \in {"start", "insert", "refused"} => next[u] = 1

\* The inductive invariant.
IInv == TypeOK /\ NoMailWithoutInvite /\ InvitesAreStored /\ MailsFromTheFirst

\* At the start nothing is invited and nothing e-mailed.
LEMMA InitIInv == Init => IInv
<1> SUFFICES ASSUME Init PROVE IInv
  OBVIOUS
<1>1. <<>> \in Seq(Invitee) /\ Len(<<>>) = 0
  OBVIOUS
<1>2. TypeOK
  BY <1>1, BoundsAreCounts DEF Init, TypeOK, IsTable, EmptyTable
<1> QED BY <1>2, BoundsAreCounts
        DEF Init, IInv, NoMailWithoutInvite, InvitesAreStored, MailsFromTheFirst, EmptyTable

\* An upload in progress is a sequence of persons, with its next e-mail in it.
LEMMA UploadTypes ==
  ASSUME IInv, NEW u \in Uploads
  PROVE  /\ batch[u] \in Seq(Invitee) /\ Len(batch[u]) \in Nat
         /\ batch[u] \in [1..Len(batch[u]) -> Invitee]
         /\ next[u] \in Nat /\ next[u] \in 1..Len(batch[u]) + 1
         /\ Len(batch[u]) <= MaxBatch
<1>1. batch[u] \in Seq(Invitee) /\ next[u] \in 1..Len(batch[u]) + 1
  BY DEF IInv, TypeOK
<1>2. Len(batch[u]) \in Nat /\ batch[u] \in [1..Len(batch[u]) -> Invitee]
  BY <1>1, LenProperties
<1> QED BY <1>1, <1>2 DEF IInv, MailsFromTheFirst

\* Nothing is invited or e-mailed for an upload before it is built.
LEMMA BuildInvitesStep ==
  ASSUME IInv, NEW u \in Uploads, NEW n \in 0..MaxBatch, NEW b \in [1..n -> Invitee],
         BuildInvites(u, b)
  PROVE  IInv'
<1> USE DEF IInv, Stored
<1>1. /\ pc[u] = "start" /\ pc' = [pc EXCEPT ![u] = "insert"]
      /\ batch' = [batch EXCEPT ![u] = b]
      /\ UNCHANGED <<next, invites, accounts, spool, inbox, ends>>
  BY DEF BuildInvites
<1>2. b \in Seq(Invitee) /\ Len(b) = n /\ n \in Nat /\ n <= MaxBatch
  BY BoundsAreCounts
<1>3. /\ batch'[u] = b /\ \A v \in Uploads \ {u} : batch'[v] = batch[v]
      /\ \A p \in DOMAIN invites : invites[p][1] \in Uploads \ {u}
      /\ next[u] = 1
  BY <1>1 DEF TypeOK, IsTable, Codes, InvitesAreStored, MailsFromTheFirst
<1>4. TypeOK'
  <2>1. pc' \in [Uploads -> {"start", "insert", "mail", "done", "refused", "cut"}]
    BY <1>1 DEF TypeOK
  <2>2. /\ batch' \in [Uploads -> Seq(Invitee)]
        /\ \A v \in Uploads : next'[v] \in 1..Len(batch'[v]) + 1
    BY <1>1, <1>2, <1>3 DEF TypeOK
  <2>3. \A p \in DOMAIN invites : batch'[invites[p][1]][invites[p][2]] = p
    BY <1>3 DEF TypeOK
  <2> QED BY <1>1, <2>1, <2>2, <2>3 DEF TypeOK
<1>5. NoMailWithoutInvite'
  BY <1>1 DEF NoMailWithoutInvite, TypeOK, Codes
<1>6. InvitesAreStored'
  BY <1>1, <1>3 DEF InvitesAreStored, TypeOK
<1>7. MailsFromTheFirst'
  BY <1>1, <1>2, <1>3 DEF MailsFromTheFirst, TypeOK
<1> QED BY <1>4, <1>5, <1>6, <1>7

\* The invitations that a committed upload stores are at its positions; those of
\* others are of other uploads.
LEMMA CreateManyStep ==
  ASSUME IInv, NEW u \in Uploads, CreateMany(u)
  PROVE  IInv'
<1> USE DEF IInv, Stored
<1>1. /\ pc[u] = "insert" /\ next[u] = 1
      /\ UNCHANGED <<batch, next, accounts, spool, inbox, ends>>
  BY DEF CreateMany, MailsFromTheFirst
<1>2. CASE Refused(u)
  <2>1. pc' = [pc EXCEPT ![u] = "refused"] /\ invites' = invites
    BY <1>2 DEF CreateMany
  <2>2. \A p \in DOMAIN invites : invites[p][1] \in Uploads \ {u}
    BY <1>1 DEF TypeOK, IsTable, Codes, InvitesAreStored
  <2>3. TypeOK'
    BY <1>1, <2>1 DEF TypeOK
  <2>4. NoMailWithoutInvite'
    BY <1>1, <2>1 DEF NoMailWithoutInvite, TypeOK, Codes
  <2>5. InvitesAreStored' /\ MailsFromTheFirst'
    BY <1>1, <2>1, <2>2 DEF InvitesAreStored, MailsFromTheFirst, TypeOK
  <2> QED BY <2>3, <2>4, <2>5
<1>3. CASE ~Refused(u)
  <2> DEFINE code(p) == <<u, CHOOSE i \in DOMAIN batch[u] : batch[u][i] = p>>
             rows == [p \in Persons(u) |-> code(p)]
  <2>1. pc' = [pc EXCEPT ![u] = "mail"] /\ invites' = With(invites, rows)
    BY <1>3 DEF CreateMany
  <2>2. ASSUME NEW p \in Persons(u)
        PROVE  /\ p \in Invitee /\ code(p) \in Codes /\ code(p)[1] = u
               /\ code(p)[2] \in 1..Len(batch[u]) /\ batch[u][code(p)[2]] = p
    <3>1. /\ batch[u] \in [1..Len(batch[u]) -> Invitee]
          /\ Len(batch[u]) \in Nat /\ Len(batch[u]) <= MaxBatch
      BY UploadTypes
    <3>2. \E i \in DOMAIN batch[u] : batch[u][i] = p
      BY DEF Persons
    <3> DEFINE i == CHOOSE i \in DOMAIN batch[u] : batch[u][i] = p
    <3>3. i \in DOMAIN batch[u] /\ batch[u][i] = p
      BY <3>2
    <3> HIDE DEF i
    <3>4. i \in 1..Len(batch[u]) /\ i \in 1..MaxBatch /\ p \in Invitee
      BY <3>1, <3>3, BoundsAreCounts
    <3>5. code(p) = <<u, i>>
      BY DEF i
    <3>6. <<u, i>> \in Codes /\ <<u, i>>[1] = u /\ <<u, i>>[2] = i
      BY <3>4 DEF Codes
    <3> HIDE DEF code
    <3> QED BY <3>3, <3>4, <3>5, <3>6
  <2> HIDE DEF code
  <2>3. /\ DOMAIN invites' = DOMAIN invites \cup Persons(u)
        /\ \A p \in DOMAIN invites : invites'[p] = invites[p]
        /\ \A p \in DOMAIN invites' \ DOMAIN invites :
              p \in Persons(u) /\ invites'[p] = code(p)
        /\ invites' \in [DOMAIN invites' -> Codes] /\ DOMAIN invites' \subseteq Invitee
    BY <2>1, <2>2 DEF With, TypeOK, IsTable
  <2>4. \A p \in DOMAIN invites' :
           batch[invites'[p][1]][invites'[p][2]] = p
    BY <2>2, <2>3 DEF TypeOK
  <2>5. TypeOK'
    <3>1. IsTable(invites', Invitee, Codes)
      BY <2>3 DEF IsTable
    <3>2. pc' \in [Uploads -> {"start", "insert", "mail", "done", "refused", "cut"}]
      BY <2>1 DEF TypeOK
    <3> QED BY <1>1, <2>4, <3>1, <3>2 DEF TypeOK
  <2>6. NoMailWithoutInvite'
    BY <1>1, <2>1 DEF NoMailWithoutInvite, TypeOK, Codes
  <2>7. InvitesAreStored'
    <3>1. \A v \in Uploads : pc[v] \in Stored => pc'[v] \in Stored
      BY <1>1, <2>1 DEF TypeOK
    <3>2. pc'[u] \in Stored
      BY <2>1 DEF TypeOK
    <3> QED BY <1>1, <2>2, <2>3, <3>1, <3>2 DEF InvitesAreStored, TypeOK, IsTable, Codes
  <2>8. MailsFromTheFirst'
    BY <1>1, <2>1 DEF MailsFromTheFirst, TypeOK
  <2> QED BY <2>5, <2>6, <2>7, <2>8
<1> QED BY <1>2, <1>3

\* An e-mail leaves for the position that was the next one.
LEMMA SendInviteStep ==
  ASSUME IInv, NEW u \in Uploads, SendInvite(u)
  PROVE  IInv'
<1> USE DEF IInv, Stored
<1>1. /\ pc[u] = "mail" /\ UNCHANGED <<batch, invites, accounts, inbox, ends>>
  BY DEF SendInvite
<1>2. /\ next[u] \in Nat /\ next[u] \in 1..Len(batch[u]) + 1
      /\ Len(batch[u]) \in Nat /\ Len(batch[u]) <= MaxBatch
  BY UploadTypes
<1>3. CASE next[u] <= Len(batch[u])
  <2>1. /\ spool' = spool \cup {<<u, next[u]>>}
        /\ next' = [next EXCEPT ![u] = next[u] + 1] /\ pc' = pc
    BY <1>3 DEF SendInvite
  <2>2. <<u, next[u]>> \in Codes /\ <<u, next[u]>> \notin inbox
    BY <1>2, <1>3, BoundsAreCounts DEF Codes, NoMailWithoutInvite
  <2>3. TypeOK'
    <3>1. next' \in [Uploads -> Nat] /\ \A v \in Uploads : next'[v] \in 1..Len(batch[v]) + 1
      BY <1>2, <1>3, <2>1 DEF TypeOK
    <3> QED BY <1>1, <2>1, <2>2, <3>1 DEF TypeOK
  <2>4. NoMailWithoutInvite'
    <3> SUFFICES ASSUME NEW c \in spool' \cup inbox'
                 PROVE  pc'[c[1]] \in {"mail", "done", "cut"} /\ c[2] < next'[c[1]]
      BY DEF NoMailWithoutInvite
    <3>1. \A v \in Uploads : next[v] \in Nat /\ next'[v] = IF v = u THEN next[v] + 1 ELSE next[v]
      BY <2>1 DEF TypeOK
    <3>2. CASE c \in spool \cup inbox
      BY <1>1, <2>1, <3>1, <3>2 DEF NoMailWithoutInvite, TypeOK, Codes
    <3>3. CASE c = <<u, next[u]>>
      BY <1>1, <1>2, <2>1, <3>1, <3>3
    <3> QED BY <1>1, <2>1, <3>2, <3>3
  <2>5. InvitesAreStored' /\ MailsFromTheFirst'
    BY <1>1, <2>1 DEF InvitesAreStored, MailsFromTheFirst, TypeOK
  <2> QED BY <2>3, <2>4, <2>5
<1>4. CASE ~(next[u] <= Len(batch[u]))
  <2>1. pc' = [pc EXCEPT ![u] = "done"] /\ UNCHANGED <<next, spool>>
    BY <1>4 DEF SendInvite
  <2>2. TypeOK'
    BY <1>1, <2>1 DEF TypeOK
  <2>3. NoMailWithoutInvite'
    BY <1>1, <2>1 DEF NoMailWithoutInvite, TypeOK, Codes
  <2>4. InvitesAreStored' /\ MailsFromTheFirst'
    BY <1>1, <2>1 DEF InvitesAreStored, MailsFromTheFirst, TypeOK, IsTable, Codes
  <2> QED BY <2>2, <2>3, <2>4
<1> QED BY <1>3, <1>4

\* An upload that the process leaves behind has its invitations stored, or none.
LEMMA ProcessEndsStep ==
  ASSUME IInv, ProcessEnds
  PROVE  IInv'
<1> USE DEF IInv, Stored
<1>1. /\ ends < MaxEnds /\ ends' = ends + 1
      /\ pc' = [u \in Uploads |-> IF pc[u] \in {"insert", "mail"} THEN "cut" ELSE pc[u]]
      /\ spool' = {}
      /\ UNCHANGED <<batch, next, invites, accounts, inbox>>
  BY DEF ProcessEnds
<1>2. TypeOK'
  <2>1. pc' \in [Uploads -> {"start", "insert", "mail", "done", "refused", "cut"}]
    BY <1>1 DEF TypeOK
  <2>2. ends' \in 0..MaxEnds
    BY <1>1, BoundsAreCounts DEF TypeOK
  <2> QED BY <1>1, <2>1, <2>2 DEF TypeOK
<1>3. NoMailWithoutInvite'
  BY <1>1 DEF NoMailWithoutInvite, TypeOK, Codes
<1>4. InvitesAreStored' /\ MailsFromTheFirst'
  BY <1>1 DEF InvitesAreStored, MailsFromTheFirst, TypeOK, IsTable, Codes
<1> QED BY <1>2, <1>3, <1>4

\* Every step preserves the invariant.
LEMMA NextIInv == IInv /\ [Next]_vars => IInv'
<1> SUFFICES ASSUME IInv, [Next]_vars PROVE IInv'
  OBVIOUS
<1> USE DEF IInv
<1>1. ASSUME NEW c \in Codes, Deliver(c) PROVE IInv'
  <2>1. /\ c \in spool /\ spool' = spool \ {c} /\ inbox' = inbox \cup {c}
        /\ UNCHANGED <<pc, batch, next, invites, accounts, ends>>
    BY <1>1 DEF Deliver, work
  <2>2. TypeOK'
    BY <2>1 DEF TypeOK
  <2> QED BY <2>1, <2>2 DEF NoMailWithoutInvite, InvitesAreStored, MailsFromTheFirst
<1>2. ASSUME NEW p \in Invitee, SignUp(p) \/ RemoveMember(p) PROVE IInv'
  <2>1. /\ invites' = Without(invites, {p})
        /\ accounts' \in {accounts, accounts \cup {p}}
        /\ UNCHANGED <<pc, batch, next, spool, inbox, ends>>
    BY <1>2 DEF SignUp, RemoveMember, work
  <2>2. /\ DOMAIN invites' = DOMAIN invites \ {p}
        /\ \A q \in DOMAIN invites' : invites'[q] = invites[q]
    BY <2>1 DEF Without, Restrict
  <2>3. IsTable(invites', Invitee, Codes)
    BY <2>1 DEF TypeOK, IsTable, Without, Restrict
  <2>4. TypeOK'
    BY <2>1, <2>2, <2>3 DEF TypeOK
  <2> QED BY <2>1, <2>2, <2>4 DEF NoMailWithoutInvite, InvitesAreStored, MailsFromTheFirst
<1>3. CASE UNCHANGED vars
  BY <1>3 DEF vars, work, TypeOK, NoMailWithoutInvite, InvitesAreStored, MailsFromTheFirst
<1> HIDE DEF IInv
<1> QED BY <1>1, <1>2, <1>3, BuildInvitesStep, CreateManyStep, SendInviteStep, ProcessEndsStep
        DEF Next, Refuse, Crash

\* The inductive invariant holds in every reachable state.
LEMMA Invariance == Spec => []IInv
  BY InitIInv, NextIInv, PTL DEF Spec

-----------------------------------------------------------------------------
(* The codes of the invitations.                                           *)

\* The step of SendInvite, seen from a code that could still leave: it leaves,
\* or can still leave afterwards.
LEMMA SendInviteReaches ==
  ASSUME IInv, NEW u \in Uploads, SendInvite(u), NEW c \in Codes,
         c[2] \in 1..Len(batch[c[1]])
  PROVE  Reachable(c) <=> Reachable(c)'
<1> USE DEF IInv
<1>1. /\ pc[u] = "mail" /\ UNCHANGED <<batch, inbox>>
  BY DEF SendInvite
<1>2. /\ next[u] \in Nat /\ next[u] \in 1..Len(batch[u]) + 1 /\ Len(batch[u]) \in Nat
      /\ \A v \in Uploads : next[v] \in Nat
  BY UploadTypes
<1>3. c[1] \in Uploads /\ c[2] \in Nat /\ c = <<c[1], c[2]>>
  BY BoundsAreCounts DEF Codes
<1>4. CASE c[1] # u
  <2>1. pc'[c[1]] = pc[c[1]] /\ next'[c[1]] = next[c[1]]
    BY <1>3, <1>4 DEF SendInvite, TypeOK
  <2>2. c \in spool' <=> c \in spool
    BY <1>3, <1>4 DEF SendInvite
  <2> QED BY <1>1, <2>1, <2>2 DEF Reachable
<1>5. CASE c[1] = u /\ next[u] <= Len(batch[u])
  <2>1. /\ spool' = spool \cup {<<u, next[u]>>}
        /\ next' = [next EXCEPT ![u] = next[u] + 1] /\ pc' = pc
    BY <1>5 DEF SendInvite
  <2>2. next'[u] = next[u] + 1
    BY <2>1 DEF TypeOK
  <2>3. c \in spool' <=> c \in spool \/ c[2] = next[u]
    BY <1>3, <1>5, <2>1
  <2> QED BY <1>1, <1>2, <1>3, <1>5, <2>1, <2>2, <2>3 DEF Reachable
<1>6. CASE c[1] = u /\ ~(next[u] <= Len(batch[u]))
  <2>1. pc' = [pc EXCEPT ![u] = "done"] /\ UNCHANGED <<next, spool>>
    BY <1>6 DEF SendInvite
  <2>2. pc'[u] = "done"
    BY <2>1 DEF TypeOK
  <2>3. ~(next[u] <= c[2])
    BY <1>2, <1>3, <1>6
  <2> QED BY <1>1, <1>6, <2>1, <2>2, <2>3 DEF Reachable
<1> QED BY <1>4, <1>5, <1>6

\* The other steps of the process leave what a stored code can still do.
LEMMA OthersReach ==
  ASSUME IInv, Next, ~ProcessEnds, NEW c \in Codes,
         c[2] \in 1..Len(batch[c[1]]), pc[c[1]] \in Stored
  PROVE  Reachable(c) <=> Reachable(c)'
<1> USE DEF IInv
<1>1. c[1] \in Uploads
  BY DEF Codes
<1>2. ASSUME NEW u \in Uploads, NEW b, BuildInvites(u, b) PROVE Reachable(c) <=> Reachable(c)'
  <2>1. pc'[c[1]] = pc[c[1]] /\ UNCHANGED <<next, spool, inbox>>
    BY <1>1, <1>2 DEF BuildInvites, TypeOK, Stored
  <2> QED BY <2>1 DEF Reachable
<1>3. ASSUME NEW u \in Uploads, CreateMany(u) PROVE Reachable(c) <=> Reachable(c)'
  <2>1. pc'[c[1]] = pc[c[1]] /\ UNCHANGED <<next, spool, inbox>>
    BY <1>1, <1>3 DEF CreateMany, TypeOK, Stored
  <2> QED BY <2>1 DEF Reachable
<1>4. ASSUME NEW u \in Uploads, SendInvite(u) PROVE Reachable(c) <=> Reachable(c)'
  BY <1>4, SendInviteReaches
<1>5. ASSUME NEW d \in Codes, Deliver(d) PROVE Reachable(c) <=> Reachable(c)'
  BY <1>5 DEF Deliver, work, Reachable
<1>6. ASSUME NEW p \in Invitee, SignUp(p) \/ RemoveMember(p) PROVE Reachable(c) <=> Reachable(c)'
  BY <1>6 DEF SignUp, RemoveMember, work, Reachable
<1> QED BY <1>2, <1>3, <1>4, <1>5, <1>6 DEF Next, Refuse, Crash

\* An invitation keeps its code; a new one has its e-mail before it.
LEMMA InvitesStep ==
  ASSUME IInv, Next
  PROVE  /\ \A p \in DOMAIN invites \cap DOMAIN invites' : invites'[p] = invites[p]
         /\ \A p \in DOMAIN invites' \ DOMAIN invites : Reachable(invites[p])'
<1> USE DEF IInv
<1> DEFINE Kept == invites' = invites
           Goal == /\ \A p \in DOMAIN invites \cap DOMAIN invites' : invites'[p] = invites[p]
                   /\ \A p \in DOMAIN invites' \ DOMAIN invites : Reachable(invites[p])'
<1>1. ASSUME Kept PROVE Goal
  BY <1>1
<1>2. ASSUME NEW u \in Uploads, CreateMany(u) PROVE Goal
  <2>1. CASE Refused(u)
    BY <1>1, <1>2, <2>1 DEF CreateMany
  <2>2. CASE ~Refused(u)
    <3> DEFINE code(p) == <<u, CHOOSE i \in DOMAIN batch[u] : batch[u][i] = p>>
               rows == [p \in Persons(u) |-> code(p)]
    <3>1. /\ invites' = With(invites, rows) /\ pc[u] = "insert"
          /\ pc' = [pc EXCEPT ![u] = "mail"] /\ next' = next
      BY <1>2, <2>2 DEF CreateMany
    <3>2. pc'[u] = "mail" /\ next'[u] = 1
      BY <3>1 DEF TypeOK, MailsFromTheFirst
    <3>3. ASSUME NEW p \in Persons(u) PROVE code(p)[1] = u /\ 1 <= code(p)[2]
      <4>1. batch[u] \in [1..Len(batch[u]) -> Invitee] /\ Len(batch[u]) \in Nat
        BY UploadTypes
      <4> DEFINE i == CHOOSE i \in DOMAIN batch[u] : batch[u][i] = p
      <4>2. i \in DOMAIN batch[u]
        BY DEF Persons
      <4> HIDE DEF i
      <4>3. i \in 1..Len(batch[u])
        BY <4>1, <4>2
      <4>4. code(p) = <<u, i>>
        BY DEF i
      <4> HIDE DEF code
      <4> QED BY <4>1, <4>3, <4>4
    <3> HIDE DEF code
    <3>4. /\ DOMAIN invites' = DOMAIN invites \cup Persons(u)
          /\ \A p \in DOMAIN invites : invites'[p] = invites[p]
          /\ \A p \in DOMAIN invites' \ DOMAIN invites : invites'[p] = code(p)
      BY <3>1 DEF With
    <3>5. ASSUME NEW p \in DOMAIN invites' \ DOMAIN invites PROVE Reachable(invites[p])'
      <4>1. invites'[p][1] = u /\ 1 <= invites'[p][2]
        BY <3>3, <3>4
      <4> QED BY <3>2, <4>1 DEF Reachable
    <3> QED BY <3>4, <3>5
  <2> QED BY <2>1, <2>2
<1>3. ASSUME NEW p \in Invitee, SignUp(p) \/ RemoveMember(p) PROVE Goal
  BY <1>3 DEF SignUp, RemoveMember, Without, Restrict
<1> QED BY <1>1, <1>2, <1>3
        DEF Next, Refuse, Crash, BuildInvites, SendInvite, Deliver, ProcessEnds

\* A code that is lost when the process ends is not found again.
LEMMA EndedStaysLost ==
  ASSUME IInv, ProcessEnds, NEW c \in Codes, Reachable(c)'
  PROVE  Reachable(c)
<1>1. c[1] \in Uploads
  BY DEF Codes
<1>2. /\ pc'[c[1]] # "mail" /\ spool' = {} /\ inbox' = inbox
  BY <1>1 DEF ProcessEnds, IInv, TypeOK
<1> QED BY <1>2 DEF Reachable

\* The code of an invitation, as the lemmas above want it.
LEMMA InviteCodes ==
  ASSUME IInv, NEW p \in DOMAIN invites
  PROVE  /\ invites[p] \in Codes
         /\ invites[p][2] \in 1..Len(batch[invites[p][1]])
         /\ pc[invites[p][1]] \in Stored
  BY DEF IInv, TypeOK, IsTable, InvitesAreStored

\* The actions inside the two properties.
LosesNoCode ==
    ends' = ends => \A p \in DOMAIN invites' : Stranded(p)' => Stranded(p)

\* StrandedUntilRemoved:
StaysStranded ==
    \A p \in Invitee : Stranded(p) =>
        \/ p \notin DOMAIN invites'
        \/ invites'[p] = invites[p] /\ Stranded(p)'

\* While the process runs every code keeps its way to its person.
LEMMA LosesNoCodeStep ==
  ASSUME IInv, [Next]_vars
  PROVE  LosesNoCode
<1> SUFFICES ASSUME ends' = ends, NEW p \in DOMAIN invites', ~Reachable(invites[p])'
             PROVE  p \in DOMAIN invites /\ ~Reachable(invites[p])
  BY DEF LosesNoCode, Stranded
<1>1. CASE UNCHANGED vars
  BY <1>1 DEF vars, work, Reachable
<1>2. CASE Next
  <2>1. ~ProcessEnds
    BY BoundsAreCounts DEF ProcessEnds, IInv, TypeOK
  <2>2. p \in DOMAIN invites /\ invites'[p] = invites[p]
    BY <1>2, InvitesStep
  <2> DEFINE c == invites[p]
  <2>3. Reachable(c) <=> Reachable(invites[p])'
    <3>1. c \in Codes /\ c[2] \in 1..Len(batch[c[1]]) /\ pc[c[1]] \in Stored
      BY <2>2, InviteCodes
    <3> QED BY <1>2, <2>1, <2>2, <3>1, OthersReach DEF Reachable
  <2> QED BY <2>2, <2>3
<1> QED BY <1>1, <1>2

\* A code that has lost its way finds none.
LEMMA StaysStrandedStep ==
  ASSUME IInv, [Next]_vars
  PROVE  StaysStranded
<1> SUFFICES ASSUME NEW p \in DOMAIN invites, ~Reachable(invites[p]), p \in DOMAIN invites'
             PROVE  invites'[p] = invites[p] /\ ~Reachable(invites[p])'
  BY DEF StaysStranded, Stranded
<1>1. CASE UNCHANGED vars
  BY <1>1 DEF vars, work, Reachable
<1>2. CASE Next
  <2>1. invites'[p] = invites[p]
    BY <1>2, InvitesStep
  <2> DEFINE c == invites[p]
  <2>2. c \in Codes /\ c[2] \in 1..Len(batch[c[1]]) /\ pc[c[1]] \in Stored
    BY InviteCodes
  <2>3. CASE ProcessEnds
    BY <2>1, <2>2, <2>3, EndedStaysLost DEF Reachable
  <2>4. CASE ~ProcessEnds
    BY <1>2, <2>1, <2>2, <2>4, OthersReach DEF Reachable
  <2> QED BY <2>1, <2>3, <2>4
<1> QED BY <1>1, <1>2

-----------------------------------------------------------------------------
(* The theorems.                                                           *)

\* Uploads, e-mails and invitations are well formed: a code is of the row of
\* the person who is invited with it, and is e-mailed once.
THEOREM TypeCorrect == Spec => []TypeOK
<1>1. IInv => TypeOK
  BY DEF IInv
<1> QED BY Invariance, <1>1, PTL

\* Nothing is e-mailed for an upload that is not stored.
THEOREM NoMailWithoutInviteHolds == Spec => []NoMailWithoutInvite
<1>1. IInv => NoMailWithoutInvite
  BY DEF IInv
<1> QED BY Invariance, <1>1, PTL

\* A code is lost only when the process ends, whatever the other uploads do.
THEOREM CodesAreLostOnlyWithTheProcessHolds == Spec => CodesAreLostOnlyWithTheProcess
<1>1. IInv /\ [Next]_vars => [LosesNoCode]_vars
  BY LosesNoCodeStep
<1> QED BY <1>1, Invariance, PTL DEF Spec, CodesAreLostOnlyWithTheProcess, LosesNoCode

\* A lost code is never found again: the invitation stands until it is removed.
THEOREM StrandedUntilRemovedHolds == Spec => StrandedUntilRemoved
<1>1. IInv /\ [Next]_vars => [StaysStranded]_vars
  BY StaysStrandedStep
<1> QED BY <1>1, Invariance, PTL DEF Spec, StrandedUntilRemoved, StaysStranded
=============================================================================
