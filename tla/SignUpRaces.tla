----------------------------- MODULE SignUpRaces -----------------------------
(***************************************************************************)
(* The requests about one invited person, statement by statement: sign-ups,*)
(* removals of a membership, uploads that invite the person once more.     *)
(* CondominiumRegistry takes each of these requests as one step; here they *)
(* interleave, as READ COMMITTED transactions on one connection each.      *)
(*                                                                         *)
(* The tables hold what is committed.  A transaction reads the tables,     *)
(* collects its writes in work and adds them when it commits; its row      *)
(* locks keep the writes of two transactions apart.  All registries here   *)
(* carry the one person's e-mail and CPF, and memberships are in different *)
(* condominiums.                                                           *)
(***************************************************************************)
EXTENDS FiniteSets, Tables

CONSTANTS
    SignUps, Removals, Uploads,  \* requests
    Memberships,                 \* the memberships there are at the start
    FirstRegistry,               \* the person's registry at the start
    None

Request == SignUps \cup Removals \cup Uploads

\* A request that inserts a row uses its own name as the new key.
RegistryId == {FirstRegistry} \cup SignUps \cup Uploads
UserId     == SignUps
MemberId   == Memberships \cup Uploads

ASSUME RequestsAreApart ==
    /\ SignUps \cap (Removals \cup Uploads) = {} /\ Removals \cap Uploads = {}
    /\ Memberships \cap Uploads = {}
    /\ FirstRegistry \notin Request /\ None \notin RegistryId

VARIABLES
    registries, \* keys of unique_registries
    accounts,   \* users: key -> registry
    members,    \* condominium_members: key -> registry and user
    invites,    \* invites, by member
    pc,         \* request -> its next statement
    target,     \* request -> the membership it is about
    registry,   \* request -> the registry it has found
    work,       \* request -> writes not yet committed
    locks       \* row locks held

tables == <<registries, accounts, members, invites>>
vars   == <<tables, pc, target, registry, work, locks>>

\* registry, account and member: the registry of the row the transaction has
\* inserted in that table.
NoWork == [gone |-> {}, registry |-> None, account |-> None, member |-> None,
           linked |-> FALSE]

Init ==
    /\ registries = {FirstRegistry}
    /\ accounts = EmptyTable
    /\ members = [m \in Memberships |-> [registry |-> FirstRegistry, user |-> None]]
    /\ invites = Memberships
    /\ pc = [p \in Request |-> "start"]
    /\ target = [p \in Request |-> None]
    /\ registry = [p \in Request |-> None]
    /\ work = [p \in Request |-> NoWork]
    /\ locks = {}

-----------------------------------------------------------------------------
(* Rows and row locks.  The entries of the UNIQUE indexes on the e-mail of *)
(* registries and on the registry of users are locked like rows: an insert *)
(* waits for a transaction that inserts or deletes the same entry.         *)

RegistryRow(r) == <<"registry", r>>
AccountRow(u)  == <<"account", u>>
MemberRow(m)   == <<"member", m>>
InviteRow(m)   == <<"invite", m>>
EmailEntry     == <<"email", None>>
AccountEntry(r) == <<"account of", r>>

Exclusive(rows) == {[row |-> x, mode |-> "exclusive"] : x \in rows}
Shared(rows)    == {[row |-> x, mode |-> "shared"] : x \in rows}

ChildRows(r) ==
    {AccountRow(u) : u \in {v \in DOMAIN accounts : accounts[v] = r}} \cup
    {MemberRow(m) : m \in {n \in DOMAIN members : members[n].registry = r}} \cup
    {InviteRow(m) : m \in {n \in invites : members[n].registry = r}}

\* What the next statement of p locks.
Needs(p) ==
    LET m == target[p]
        r == registry[p]
    IN CASE pc[p] = "delete invite"  -> Exclusive({InviteRow(m)})
         [] pc[p] = "find registry"  -> Shared({RegistryRow(s) : s \in registries})
         [] pc[p] = "insert registry" -> Exclusive({EmailEntry})
         [] pc[p] = "insert account" -> Shared({RegistryRow(r)}) \cup Exclusive({AccountEntry(r)})
         [] pc[p] = "insert member"  -> Shared({RegistryRow(r)})
         [] pc[p] = "link member"    -> Exclusive({MemberRow(m)})
         [] pc[p] = "delete registry" ->
                Exclusive({RegistryRow(r) : s \in registries \cap {r}} \cup
                          {EmailEntry : s \in registries \cap {r}})
         [] pc[p] = "cascade"        -> Exclusive(ChildRows(r))
         [] pc[p] = "delete member"  -> Exclusive({MemberRow(m)})
         [] pc[p] = "cascade member" -> Exclusive({InviteRow(m)})
         [] OTHER -> {}

\* The requests whose locks keep p from its next statement.
Blockers(p) ==
    {q \in Request \ {p} : \E l \in locks, n \in Needs(p) :
        l.by = q /\ l.row = n.row /\ "exclusive" \in {l.mode, n.mode}}

\* A statement of p that is not blocked takes its locks and goes on to next.
Statement(p, name, next) ==
    /\ pc[p] = name /\ Blockers(p) = {}
    /\ locks' = locks \cup {[row |-> n.row, mode |-> n.mode, by |-> p] : n \in Needs(p)}
    /\ pc' = [pc EXCEPT ![p] = next]

Writes(p, w) == work' = [work EXCEPT ![p] = w]

Gone(p, rows) == [work[p] EXCEPT !.gone = @ \cup rows]

\* The slip forgets the rollback: the connection keeps its locks.
Fail_Mut(p) ==
    /\ pc' = [pc EXCEPT ![p] = "failed"]
    /\ UNCHANGED <<tables, target, registry, work, locks>>

\* A statement that violates a constraint rolls its transaction back.
Fail(p) ==
    /\ pc' = [pc EXCEPT ![p] = "failed"]
    /\ work' = [work EXCEPT ![p] = NoWork]
    /\ locks' = {l \in locks : l.by # p}
    /\ UNCHANGED <<tables, target, registry>>

\* The writes of the transaction become visible, all at once.
Commit(p) ==
    LET w == work[p]
        gone(tag, keys) == {k \in keys : <<tag, k>> \in w.gone}
        linked == IF w.linked /\ target[p] \in DOMAIN members
                  THEN [members EXCEPT ![target[p]].user = p] ELSE members
    IN  /\ pc[p] = "commit"
        /\ registries' = (registries \ gone("registry", registries))
                           \cup (IF w.registry = None THEN {} ELSE {p})
        /\ accounts' = IF w.account = None
                       THEN Without(accounts, gone("account", DOMAIN accounts))
                       ELSE With(accounts, Row(p, w.account))
        /\ members' = IF w.member = None
                      THEN Without(linked, gone("member", DOMAIN members))
                      ELSE With(members, Row(p, [registry |-> w.member, user |-> None]))
        /\ invites' = (invites \ gone("invite", invites))
                        \cup (IF w.member = None THEN {} ELSE {p})
        /\ pc' = [pc EXCEPT ![p] = "done"]
        /\ work' = [work EXCEPT ![p] = NoWork]
        /\ locks' = {l \in locks : l.by # p}
        /\ UNCHANGED <<target, registry>>

-----------------------------------------------------------------------------
(* Statements that more than one request makes.                            *)

\* A second registry with the e-mail violates the UNIQUE column.
InsertRegistry(p, next) ==
    \/ /\ registries = {}
       /\ Statement(p, "insert registry", next)
       /\ Writes(p, [work[p] EXCEPT !.registry = p])
       /\ registry' = [registry EXCEPT ![p] = p]
       /\ UNCHANGED <<tables, target>>
    \/ /\ pc[p] = "insert registry" /\ Blockers(p) = {} /\ registries # {}
       /\ Fail(p)

\* The registry the request refers to still exists, or is its own.
HasRegistry(p) == registry[p] \in registries \cup {work[p].registry}

-----------------------------------------------------------------------------
(* POST /user.                                                             *)

\* InviteGuard reads the invitation before the transaction begins.
PassInviteGuard(p) ==
    /\ pc[p] = "start"
    /\ \E m \in invites : target' = [target EXCEPT ![p] = m]
    /\ pc' = [pc EXCEPT ![p] = "delete invite"]
    /\ UNCHANGED <<tables, registry, work, locks>>

\* The slip deletes the invitation outside the transaction.
DeleteInvite_Mut(p) ==
    /\ Statement(p, "delete invite", "find registry")
    /\ invites' = invites \ {target[p]}
    /\ UNCHANGED <<registries, accounts, members, target, registry, work>>

DeleteInvite(p) ==
    /\ Statement(p, "delete invite", "find registry")
    /\ Writes(p, Gone(p, {InviteRow(target[p])}))
    /\ UNCHANGED <<tables, target, registry>>

\* findOne ... FOR SHARE.
FindRegistryForSignUp(p) ==
    /\ Statement(p, "find registry",
                 IF registries = {} THEN "insert registry" ELSE "insert account")
    /\ registry' = IF registries = {} THEN registry
                   ELSE [registry EXCEPT ![p] = CHOOSE r \in registries : TRUE]
    /\ UNCHANGED <<tables, target, work>>

\* The slip: users.unique_registry_id not UNIQUE.
InsertAccount_Mut(p) ==
    \/ /\ HasRegistry(p)
       /\ pc[p] = "insert account"
       /\ pc' = [pc EXCEPT ![p] = "link member"]
       /\ Writes(p, [work[p] EXCEPT !.account = registry[p]])
       /\ UNCHANGED <<tables, target, registry, locks>>
    \/ pc[p] = "insert account" /\ ~HasRegistry(p) /\ Fail(p)

InsertAccount(p) ==
    LET taken == \E u \in DOMAIN accounts : accounts[u] = registry[p] IN
    \/ /\ HasRegistry(p) /\ ~taken
       /\ Statement(p, "insert account", "link member")
       /\ Writes(p, [work[p] EXCEPT !.account = registry[p]])
       /\ UNCHANGED <<tables, target, registry>>
    \/ /\ pc[p] = "insert account" /\ Blockers(p) = {}
       /\ taken \/ ~HasRegistry(p)
       /\ Fail(p)

\* UPDATE ... WHERE id: no row, no error.
LinkMember(p) ==
    /\ Statement(p, "link member", "commit")
    /\ Writes(p, [work[p] EXCEPT !.linked = target[p] \in DOMAIN members])
    /\ UNCHANGED <<tables, target, registry>>

SignUp(p) ==
    \/ PassInviteGuard(p) \/ DeleteInvite(p) \/ FindRegistryForSignUp(p)
    \/ InsertRegistry(p, "insert account") \/ InsertAccount(p) \/ LinkMember(p)

-----------------------------------------------------------------------------
(* DELETE .../community-member/:memberId.                                  *)

ReadMember(p) ==
    /\ pc[p] = "start"
    /\ \E m \in DOMAIN members :
          /\ target' = [target EXCEPT ![p] = m]
          /\ registry' = [registry EXCEPT ![p] = members[m].registry]
    /\ pc' = [pc EXCEPT ![p] = "look for account"]
    /\ UNCHANGED <<tables, work, locks>>

LookForAccount(p) ==
    /\ Statement(p, "look for account",
                 IF \E u \in DOMAIN accounts : accounts[u] = registry[p]
                 THEN "delete member" ELSE "delete registry")
    /\ UNCHANGED <<tables, target, registry, work>>

\* DELETE locks the row first; the foreign keys then delete what refers to the
\* row by now.
DeleteRegistry(p) ==
    LET found == registry[p] \in registries IN
    /\ Statement(p, "delete registry", IF found THEN "cascade" ELSE "delete member")
    /\ Writes(p, IF found THEN Gone(p, {RegistryRow(registry[p])}) ELSE work[p])
    /\ UNCHANGED <<tables, target, registry>>

Cascade(p) ==
    /\ Statement(p, "cascade", "delete member")
    /\ Writes(p, Gone(p, ChildRows(registry[p])))
    /\ UNCHANGED <<tables, target, registry>>

DeleteMember(p) ==
    /\ Statement(p, "delete member", "cascade member")
    /\ Writes(p, Gone(p, {MemberRow(target[p])}))
    /\ UNCHANGED <<tables, target, registry>>

CascadeMember(p) ==
    /\ Statement(p, "cascade member", "commit")
    /\ Writes(p, Gone(p, {InviteRow(target[p])}))
    /\ UNCHANGED <<tables, target, registry>>

Removal(p) ==
    \/ ReadMember(p) \/ LookForAccount(p) \/ DeleteRegistry(p) \/ Cascade(p)
    \/ DeleteMember(p) \/ CascadeMember(p)

-----------------------------------------------------------------------------
(* POST .../community-member/invite, for this person's row of the upload.  *)

\* findOne without a lock.
FindRegistryForUpload(p) ==
    /\ pc[p] = "start"
    /\ target' = [target EXCEPT ![p] = p]
    /\ \/ /\ registries = {}
          /\ pc' = [pc EXCEPT ![p] = "insert registry"]
          /\ UNCHANGED registry
       \/ \E r \in registries :
          /\ pc' = [pc EXCEPT ![p] = "insert member"]
          /\ registry' = [registry EXCEPT ![p] = r]
    /\ UNCHANGED <<tables, work, locks>>

\* The slip: no foreign key from members to registries.
InsertMember_Mut(p) ==
    /\ Statement(p, "insert member", "commit")
    /\ Writes(p, [work[p] EXCEPT !.member = registry[p]])
    /\ UNCHANGED <<tables, target, registry>>

\* The member and its invitation; the registry must still be there.
InsertMember(p) ==
    \/ /\ HasRegistry(p)
       /\ Statement(p, "insert member", "commit")
       /\ Writes(p, [work[p] EXCEPT !.member = registry[p]])
       /\ UNCHANGED <<tables, target, registry>>
    \/ /\ pc[p] = "insert member" /\ Blockers(p) = {} /\ ~HasRegistry(p)
       /\ Fail(p)

Upload(p) ==
    FindRegistryForUpload(p) \/ InsertRegistry(p, "insert member") \/ InsertMember(p)

-----------------------------------------------------------------------------

Ended(p)  == pc[p] \in {"done", "failed"}
Active(p) == pc[p] # "start" /\ ~Ended(p)

\* PostgreSQL ends the wait of requests that wait for each other by failing one.
IsCycle(S) == /\ S # {} /\ \A p \in S : Blockers(p) \cap S # {}
              /\ \A p \in S : \E q \in S : p \in Blockers(q)

BreakDeadlock(p) ==
    /\ \E S \in SUBSET Request : p \in S /\ IsCycle(S)
    /\ Fail(p)

\* The process ends: every open transaction is rolled back.
Crash ==
    /\ \E p \in Request : Active(p)
    /\ pc' = [p \in Request |-> IF Active(p) THEN "failed" ELSE pc[p]]
    /\ work' = [p \in Request |-> NoWork]
    /\ locks' = {}
    /\ UNCHANGED <<tables, target, registry>>

Step(p) ==
    \/ p \in SignUps /\ SignUp(p)
    \/ p \in Removals /\ Removal(p)
    \/ p \in Uploads /\ Upload(p)
    \/ Commit(p)
    \/ BreakDeadlock(p)

Next == (\E p \in Request : Step(p)) \/ Crash

\* A request in progress goes on whenever the database lets it.
Spec == Init /\ [][Next]_vars /\ \A p \in Request : WF_vars(Active(p) /\ Step(p))

-----------------------------------------------------------------------------

\* The committed tables are well formed and every reference is resolved.
TypeOK ==
    /\ registries \subseteq RegistryId
    /\ IsTable(accounts, UserId, registries)
    /\ IsTable(members, MemberId, [registry : registries, user : DOMAIN accounts \cup {None}])
    /\ invites \subseteq DOMAIN members

\* However sign-ups and uploads for one e-mail overlap, the person has one
\* registry and one account.
OnePersonOneAccount ==
    Cardinality(registries) <= 1 /\ Cardinality(DOMAIN accounts) <= 1

\* At every commit a membership either waits on its invitation or is linked to
\* an account of its own registry: no overlap of sign-ups, removals, uploads and
\* crashes uses up an invitation without linking, or links without using it up.
InvitationXorAccount ==
    \A m \in DOMAIN members :
        IF members[m].user = None THEN m \in invites
        ELSE m \notin invites /\ accounts[members[m].user] = members[m].registry

\* However requests wait for each other's rows, and whatever waits for what, some
\* request can go on: of requests that wait for nobody else, one waits for nobody,
\* or for itself in the end, and then the database fails it.  No lock outlives
\* the request that took it.
WaitsEnd ==
    \A S \in SUBSET Request :
        /\ \E p \in S : Active(p)
        /\ \A p \in S : Blockers(p) \subseteq S
        => \E p \in S :
             /\ Active(p)
             /\ \/ Blockers(p) = {}
                \/ \E T \in SUBSET S : p \in T /\ IsCycle(T)

\* How many steps a request has still to take, at most, by its next statement.
StepsFrom(statement) ==
    CASE statement = "start" -> 7
      [] statement \in {"delete invite", "look for account"} -> 6
      [] statement \in {"find registry", "delete registry"}  -> 5
      [] statement \in {"insert registry", "cascade"}        -> 4
      [] statement \in {"insert account", "delete member"}   -> 3
      [] statement \in {"link member", "insert member", "cascade member"} -> 2
      [] statement = "commit" -> 1
      [] OTHER -> 0

StepsLeft(p) == StepsFrom(pc[p])

\* No request runs in circles or is begun again: each of its steps, whichever
\* branch it takes, brings it nearer to its end, and nobody else's sets it back.
RequestsGoForward ==
    [][\A p \in Request : /\ StepsLeft(p)' <= StepsLeft(p)
                          /\ Step(p) => StepsLeft(p)' < StepsLeft(p)]_vars

\* Requests that wait for each other's rows all end: the invitation is locked
\* before the registry by the sign-up and after it by the removal.
RequestsEnd == \A p \in Request : Active(p) ~> Ended(p)

-----------------------------------------------------------------------------
(* What the requests are in CondominiumRegistry.  Every membership is in a  *)
(* condominium of its own, whose owner and address do not matter here.      *)

Person == [email |-> "email", cpf |-> "cpf"]

Registry == INSTANCE CondominiumRegistry WITH
    CondoId <- MemberId, Email <- {Person.email}, Cpf <- {Person.cpf},
    Cnpj <- {None}, NoCpf <- None, NoUser <- None, MaxBatch <- 1,
    registries <- [r \in registries |-> Person],
    users      <- [u \in DOMAIN accounts |-> [registry |-> accounts[u]]],
    condos     <- [c \in MemberId |-> [owner |-> None, cnpj |-> None]],
    members    <- [m \in DOMAIN members |->
                     [role |-> "community", registry |-> members[m].registry,
                      condo |-> m, user |-> members[m].user]],
    infos      <- DOMAIN members,
    invites    <- [m \in invites |->
                     [condo |-> m, recipient |-> Person.email, cpf |-> Person.cpf]]

SignUpAtOnce ==
    \E m \in MemberId, r \in RegistryId, u \in UserId :
        Registry!SignUp(m, Person.email, Person.cpf, r, u)

RemovalAtOnce == \E m \in DOMAIN members : Registry!RemoveMemberRow(m)

UploadAtOnce ==
    \E m \in Uploads : \E fresh \in {EmptyTable, Row(m, m)} :
        Registry!CreateMembers(m, Row(m, Person), fresh)

\* A sign-up that has passed its guard makes the account although the membership
\* is gone, of a new registry or of one that an upload has made since.
SignUpAfterRemoval ==
    \E m \in MemberId \ DOMAIN members, r \in RegistryId, u \in UserId :
        Registry!TransferToUser(m, Person.email, Person.cpf, r, u)

\* A removal that has found no account deletes the one that was made meanwhile.
RemovalAfterSignUp == \E u \in UserId : Registry!DeleteUser(u)

\* Statement by statement, under any interleaving and with crashes and deadlocks,
\* a request that commits has done to the tables what the whole request does in
\* CondominiumRegistry at the moment of the commit.  The exceptions are two: a
\* sign-up whose membership has been removed, and a removal whose person has
\* signed up.
CommitsAreRequests ==
    [][\/ SignUpAtOnce \/ RemovalAtOnce \/ UploadAtOnce
       \/ SignUpAfterRemoval \/ RemovalAfterSignUp]_tables

-----------------------------------------------------------------------------
(* A claim of a test that the code does not keep.                          *)

\* The test double of the invite repository refuses a sign-up whose invitation
\* or membership is gone; docs/openapi lets only invited persons register.
NewAccountIsLinked ==
    [][\A u \in DOMAIN accounts' \ DOMAIN accounts :
          \E m \in DOMAIN members' : members'[m].user = u]_vars
=============================================================================
