------------------------ MODULE CondominiumRegistry ------------------------
(***************************************************************************)
(* The relational core of MoradaApp: the six tables, their foreign keys    *)
(* and UNIQUE constraints, and every request that inserts or deletes rows. *)
(* Each request is one step here: guard, service and database transaction  *)
(* together.  SignUpRaces splits the sign-up and the removals into their   *)
(* statements.                                                             *)
(*                                                                         *)
(* A table is a function from the primary keys in use to rows; inserting   *)
(* extends its domain and deleting shrinks it.  Columns no property tells  *)
(* apart (names, telephones, passwords, addresses, time stamps) are left   *)
(* out.                                                                    *)
(***************************************************************************)
EXTENDS FiniteSets, Functions, Tables

CONSTANTS
    RegistryId, UserId, CondoId, MemberId,  \* uuids of the four id'd tables
    Email,      \* e-mail addresses
    Cpf,        \* taxpayer numbers of persons
    Cnpj,       \* taxpayer numbers of condominiums; stands for all three of
                \* the UNIQUE columns name, cep and cnpj
    NoCpf,      \* NULL in unique_registries.cpf
    NoUser,     \* NULL in condominium_members.user_id
    MaxBatch    \* bound: rows of one upload of residents

ASSUME NullsAreNoValues == NoCpf \notin Cpf /\ NoUser \notin UserId

VARIABLES
    registries, \* unique_registries
    users,      \* users
    condos,     \* condominiums
    members,    \* condominium_members
    infos,      \* member_id column of community_infos
    invites     \* invites, by their member_id

vars == <<registries, users, condos, members, infos, invites>>

Community == "community"    \* role 0
Employee  == "employee"     \* role 1

RegistryRow == [email : Email, cpf : Cpf \cup {NoCpf}]
UserRow     == [registry : RegistryId]
CondoRow    == [owner : UserId, cnpj : Cnpj]
MemberRow   == [role : {Community, Employee}, registry : RegistryId,
                condo : CondoId, user : UserId \cup {NoUser}]
\* The stored code is the hash of "<CPF>-<random digits>": what it ties the
\* invitation to is a CPF.
InviteRow   == [condo : CondoId, recipient : Email, cpf : Cpf]

\* The entities as the services build them.  An operator whose name ends in
\* _Mut is a plausible slip in the operator after it; it is no part of the
\* specification, and serves to show that a property notices the slip.
UniqueRegistry(e, p) == [email |-> e, cpf |-> p]

User(r) == [registry |-> r]

Condominium(u, n) == [owner |-> u, cnpj |-> n]

CondominiumMember(role, r, c, u) ==
    [role |-> role, registry |-> r, condo |-> c, user |-> u]

Invite(c, e, p) == [condo |-> c, recipient |-> e, cpf |-> p]

\* The migrations create the tables empty.
Init ==
    /\ registries = EmptyTable
    /\ users = EmptyTable
    /\ condos = EmptyTable
    /\ members = EmptyTable
    /\ infos = {}
    /\ invites = EmptyTable

-----------------------------------------------------------------------------
(* Reads shared by the requests.                                           *)

RegistriesOf(e) == {r \in DOMAIN registries : registries[r].email = e}

HasAccount(r) == \E u \in DOMAIN users : users[u].registry = r

\* AdminJwt lets the owner and the employees of c through, SuperAdminJwt the
\* owner alone.
IsOwner(u, c) == condos[c].owner = u

IsAdmin(u, c) ==
    \/ IsOwner(u, c)
    \/ \E m \in DOMAIN members : /\ members[m].user = u
                                 /\ members[m].condo = c
                                 /\ members[m].role = Employee

-----------------------------------------------------------------------------
(* ON DELETE CASCADE.  Deleting the rows with keys rids (registries), cids *)
(* (condominiums) and mids (members) takes every row that references them. *)

GoneUsers(rids) == {u \in DOMAIN users : users[u].registry \in rids}

\* FK_condominiums_owner_id without a cascade, as in the first production
\* migration.
GoneCondos_Mut(rids, cids) == cids

GoneCondos(rids, cids) ==
    cids \cup {c \in DOMAIN condos : condos[c].owner \in GoneUsers(rids)}

\* No cascade from unique_registries to condominium_members.
GoneMembers_Mut(rids, cids, mids) ==
    mids \cup {m \in DOMAIN members :
                 \/ members[m].condo \in GoneCondos(rids, cids)
                 \/ members[m].user \in GoneUsers(rids)}

GoneMembers(rids, cids, mids) ==
    mids \cup {m \in DOMAIN members :
                 \/ members[m].registry \in rids
                 \/ members[m].condo \in GoneCondos(rids, cids)
                 \/ members[m].user \in GoneUsers(rids)}

GoneInfos(rids, cids, mids) == infos \cap GoneMembers(rids, cids, mids)

GoneInvites(rids, cids, mids) ==
    {m \in DOMAIN invites : \/ m \in GoneMembers(rids, cids, mids)
                            \/ invites[m].condo \in GoneCondos(rids, cids)}

DeleteRows(rids, cids, mids) ==
    /\ registries' = Without(registries, rids)
    /\ users'      = Without(users, GoneUsers(rids))
    /\ condos'     = Without(condos, GoneCondos(rids, cids))
    /\ members'    = Without(members, GoneMembers(rids, cids, mids))
    /\ infos'      = infos \ GoneInfos(rids, cids, mids)
    /\ invites'    = Without(invites, GoneInvites(rids, cids, mids))

-----------------------------------------------------------------------------
(* Requests that insert rows.                                              *)

\* Registry, owner account and condominium in one transaction.
InsertCondominium(r, registry, u, user, c, condominium) ==
    /\ RegistriesOf(registry.email) = {}             \* UQ_unique_registries_email
    /\ \A d \in DOMAIN condos : condos[d].cnpj # condominium.cnpj  \* UQ_condominiums_*
    /\ registries' = With(registries, Row(r, registry))
    /\ users'      = With(users, Row(u, user))
    /\ condos'     = With(condos, Row(c, condominium))
    /\ UNCHANGED <<members, infos, invites>>

\* POST /condominium, under fresh uuids; the owner's CPF is not asked for.
CreateCondominium(e, n, r, u, c) ==
    /\ r \notin DOMAIN registries /\ u \notin DOMAIN users /\ c \notin DOMAIN condos
    /\ InsertCondominium(r, UniqueRegistry(e, NoCpf), u, User(r), c, Condominium(u, n))

\* The rows an upload may carry: a person per new member key.  Two rows with
\* one e-mail collide on UQ_invites_recipient_condominium_id and abort the
\* whole transaction, so a batch that commits has distinct e-mails.
Batches ==
    UNION {{b \in [M -> [email : Email, cpf : Cpf]] :
               \A m, n \in M : b[m].email = b[n].email => m = n} :
           M \in {S \in SUBSET (MemberId \ DOMAIN members) :
                    S # {} /\ Cardinality(S) <= MaxBatch}}

\* findOne by e-mail alone: the registry row an upload row is attached to.
IsFoundBy_Mut(row, item) == row.cpf = item.cpf

IsFoundBy(row, item) == row.email = item.email

\* The registries after the upload of b: fresh maps each new key to the batch
\* row it is made from.  A registry that exists keeps its CPF.
RegistriesAfter_Mut(b, fresh) ==
    [r \in DOMAIN registries \cup DOMAIN fresh |->
        IF r \in DOMAIN fresh THEN b[fresh[r]]
        ELSE IF \E m \in DOMAIN b : IsFoundBy(registries[r], b[m])
             THEN b[CHOOSE m \in DOMAIN b : IsFoundBy(registries[r], b[m])]
             ELSE registries[r]]

RegistriesAfter(b, fresh) == With(registries, [r \in DOMAIN fresh |-> b[fresh[r]]])

\* createMany: every row of the batch b gets a member attached to the registry
\* found for it, its community_infos and an invite.
CreateMembers(c, b, fresh) ==
    /\ \A i \in DOMAIN invites : invites[i].condo = c
          => \A m \in DOMAIN b : invites[i].recipient # b[m].email
    /\ registries' = RegistriesAfter(b, fresh)
    /\ \E found \in [DOMAIN b -> DOMAIN registries \cup DOMAIN fresh] :
          /\ \A m \in DOMAIN b : IsFoundBy(registries'[found[m]], b[m])
          /\ members' = With(members,
               [m \in DOMAIN b |-> CondominiumMember(Community, found[m], c, NoUser)])
    /\ infos' = infos \cup DOMAIN b
    /\ invites' = With(invites,
         [m \in DOMAIN b |-> Invite(c, b[m].email, b[m].cpf)])
    /\ UNCHANGED <<users, condos>>

\* POST /condominium/:id/as-owner/community-member/invite.
UploadMembers(owner, c, b) ==
    /\ owner \in DOMAIN users /\ c \in DOMAIN condos /\ IsOwner(owner, c)
    /\ LET strangers == {m \in DOMAIN b : RegistriesOf(b[m].email) = {}} IN
       \E S \in SUBSET (RegistryId \ DOMAIN registries) :
          \E fresh \in Bijection(S, strangers) : CreateMembers(c, b, fresh)

\* Registry, account and linked membership of an employee.
InsertEmployee(r, registry, u, user, m, member) ==
    /\ RegistriesOf(registry.email) = {}             \* UQ_unique_registries_email
    /\ registries' = With(registries, Row(r, registry))
    /\ users'      = With(users, Row(u, user))
    /\ members'    = With(members, Row(m, member))
    /\ UNCHANGED <<condos, infos, invites>>

\* POST /condominium/:id/as-owner/enterprise-user.
CreateEmployee(owner, c, e, p, r, u, m) ==
    /\ owner \in DOMAIN users /\ c \in DOMAIN condos /\ IsOwner(owner, c)
    /\ r \notin DOMAIN registries /\ u \notin DOMAIN users /\ m \notin DOMAIN members
    /\ InsertEmployee(r, UniqueRegistry(e, p), u, User(r), m,
                      CondominiumMember(Employee, r, c, u))

\* InviteGuard: an invitation for this e-mail whose code was made with this CPF.
MatchesInvite(m, e, cpf) ==
    m \in DOMAIN invites /\ invites[m].recipient = e /\ invites[m].cpf = cpf

\* The registries the sign-up can hang the account on: the one with this
\* e-mail AND this CPF or, if there is none, a new one, which the UNIQUE
\* e-mail allows only if no other registry has the address.
\* users.unique_registry_id is UNIQUE: the registry must have no account.
SignUpRegistries_Mut(e, cpf) ==
    LET known == {r \in RegistriesOf(e) : registries[r].cpf = cpf}
        new   == IF known = {} THEN RegistryId \ DOMAIN registries ELSE {}
    IN  {r \in known \cup new : ~HasAccount(r)}

SignUpRegistries(e, cpf) ==
    LET known == {r \in RegistriesOf(e) : registries[r].cpf = cpf}
        new   == IF RegistriesOf(e) = {} THEN RegistryId \ DOMAIN registries ELSE {}
    IN  {r \in known \cup new : ~HasAccount(r)}

\* DELETE ... WHERE condominium_id AND member_id.
InvitesAfterSignUp_Mut(m) == invites

InvitesAfterSignUp(m) == Without(invites, {m})

\* UPDATE condominium_members SET user ... WHERE id; the slip links all the
\* person's pending memberships.
MembersAfterSignUp_Mut(m, u) ==
    [n \in DOMAIN members |->
        IF m \in DOMAIN members /\ members[n].registry = members[m].registry
        THEN [members[n] EXCEPT !.user = u] ELSE members[n]]

MembersAfterSignUp(m, u) == [members EXCEPT ![m].user = u]

\* transferToUserResources: the invite is consumed, the account made and
\* linked to the member.
TransferToUser(m, e, cpf, r, u) ==
    /\ r \in SignUpRegistries(e, cpf)
    /\ invites'    = InvitesAfterSignUp(m)
    /\ registries' = With(registries, Row(r, UniqueRegistry(e, cpf)))
    /\ users'      = With(users, Row(u, User(r)))
    /\ members'    = MembersAfterSignUp(m, u)
    /\ UNCHANGED <<condos, infos>>

\* POST /user.
SignUp(m, e, cpf, r, u) ==
    /\ MatchesInvite(m, e, cpf)
    /\ u \notin DOMAIN users
    /\ TransferToUser(m, e, cpf, r, u)

-----------------------------------------------------------------------------
(* Requests that delete rows.                                              *)

\* DELETE /user.
DeleteUser(u) ==
    /\ u \in DOMAIN users
    /\ DeleteRows({users[u].registry}, {}, {})

\* DELETE /condominium/:id/as-owner/enterprise-user/:userId.  The user is
\* looked up by its id alone.
RemoveEmployee(owner, c, u) ==
    /\ owner \in DOMAIN users /\ c \in DOMAIN condos /\ IsOwner(owner, c)
    /\ u \in DOMAIN users
    /\ DeleteRows({users[u].registry}, {}, {})

\* remove: a member whose person has no account takes the registry along.
RemoveMemberRow_Mut(m) ==
    LET r == members[m].registry
    IN  DeleteRows(IF HasAccount(r) THEN {} ELSE {r}, {},
                   {n \in DOMAIN members : members[n].registry = r})

RemoveMemberRow(m) ==
    LET r == members[m].registry
    IN  DeleteRows(IF HasAccount(r) THEN {} ELSE {r}, {}, {m})

\* DELETE /condominium/:id/as-employee/community-member/:memberId.
RemoveMember(admin, c, m) ==
    /\ admin \in DOMAIN users /\ c \in DOMAIN condos /\ IsAdmin(admin, c)
    /\ m \in DOMAIN members
    /\ RemoveMemberRow(m)

\* DELETE /condominium/:id.
DeleteCondominium(owner, c) ==
    /\ owner \in DOMAIN users /\ c \in DOMAIN condos /\ IsOwner(owner, c)
    /\ DeleteRows({}, {c}, {})

-----------------------------------------------------------------------------

Next ==
    \/ \E e \in Email, n \in Cnpj, r \in RegistryId, u \in UserId, c \in CondoId :
          CreateCondominium(e, n, r, u, c)
    \/ \E o \in UserId, c \in CondoId, b \in Batches : UploadMembers(o, c, b)
    \/ \E o \in UserId, c \in CondoId, e \in Email, p \in Cpf,
          r \in RegistryId, u \in UserId, m \in MemberId :
          CreateEmployee(o, c, e, p, r, u, m)
    \/ \E m \in MemberId, e \in Email, p \in Cpf, r \in RegistryId, u \in UserId :
          SignUp(m, e, p, r, u)
    \/ \E u \in UserId : DeleteUser(u)
    \/ \E o \in UserId, c \in CondoId, u \in UserId : RemoveEmployee(o, c, u)
    \/ \E a \in UserId, c \in CondoId, m \in MemberId : RemoveMember(a, c, m)
    \/ \E o \in UserId, c \in CondoId : DeleteCondominium(o, c)

Spec == Init /\ [][Next]_vars

-----------------------------------------------------------------------------
(* Invariants.                                                             *)

\* Every table maps keys to well-formed rows.
TypeOK ==
    /\ IsTable(registries, RegistryId, RegistryRow)
    /\ IsTable(users, UserId, UserRow)
    /\ IsTable(condos, CondoId, CondoRow)
    /\ IsTable(members, MemberId, MemberRow)
    /\ infos \subseteq MemberId
    /\ IsTable(invites, MemberId, InviteRow)

\* No row outlives a row it references: the cascades of one delete reach
\* through all five foreign-key levels, whichever table the delete starts in.
ReferentialIntegrity ==
    /\ \A u \in DOMAIN users : users[u].registry \in DOMAIN registries
    /\ \A c \in DOMAIN condos : condos[c].owner \in DOMAIN users
    /\ \A m \in DOMAIN members :
          /\ members[m].registry \in DOMAIN registries
          /\ members[m].condo \in DOMAIN condos
          /\ members[m].user \in DOMAIN users \cup {NoUser}
    /\ infos \subseteq DOMAIN members
    /\ \A m \in DOMAIN invites :
          m \in DOMAIN members /\ invites[m].condo \in DOMAIN condos

\* The UNIQUE constraints the requests lean on: an e-mail names one registry,
\* a registry has at most one account, an account owns at most one
\* condominium, and a person has one pending invitation per condominium.
UniqueColumns ==
    /\ \A r, s \in DOMAIN registries :
          registries[r].email = registries[s].email => r = s
    /\ \A u, v \in DOMAIN users : users[u].registry = users[v].registry => u = v
    /\ \A c, d \in DOMAIN condos :
          \/ condos[c].owner = condos[d].owner
          \/ condos[c].cnpj = condos[d].cnpj
          => c = d
    /\ \A m, n \in DOMAIN invites :
          /\ invites[m].condo = invites[n].condo
          /\ invites[m].recipient = invites[n].recipient
          => m = n

\* A membership linked to an account belongs to the person who owns the
\* account, although the upload finds the person's registry by e-mail alone
\* and the sign-up looks it up again by e-mail and CPF.
LinkedAccountIsThePerson ==
    \A m \in DOMAIN members :
        members[m].user # NoUser => users[members[m].user].registry = members[m].registry

\* A resident without an account is waiting on exactly one invitation and a
\* resident with an account on none; employees never hold invitations.
ResidentHasInviteXorAccount ==
    \A m \in DOMAIN members :
        m \in DOMAIN invites <=> members[m].user = NoUser

\* An invitation is addressed to the person its membership is about and was
\* issued by the condominium the membership is in; only residents are invited.
InviteAddressesItsMember ==
    \A m \in DOMAIN invites :
        /\ invites[m].condo = members[m].condo
        /\ invites[m].recipient = registries[members[m].registry].email
        /\ members[m].role = Community

\* The read operations inner-join community_infos: a resident whose infos row
\* were missing would vanish from them, an employee with one would show up.
ResidentsHaveInfos ==
    infos = {m \in DOMAIN members : members[m].role = Community}

-----------------------------------------------------------------------------
(* Action properties.                                                      *)

\* An invitation that its addressee could use stays usable until it is
\* consumed, withdrawn, or the addressee opens an account elsewhere: no
\* request about other people, condominiums or invitations spoils it.
Usable(m) == SignUpRegistries(invites[m].recipient, invites[m].cpf) # {}

UsableUntilRegistered ==
    [][\A m \in DOMAIN invites \cap DOMAIN invites' :
          Usable(m) => Usable(m)' \/ HasAccount(members[m].registry)']_vars

\* A membership is linked only by the sign-up that consumes its invitation, to
\* an account created in the same step, and is never linked anew or unlinked.
LinkingConsumesTheInvite ==
    [][\A m \in DOMAIN members \cap DOMAIN members' :
          members'[m].user # members[m].user =>
             /\ members[m].user = NoUser
             /\ members'[m].user \notin DOMAIN users
             /\ m \in DOMAIN invites /\ m \notin DOMAIN invites']_vars

\* Deleting an account leaves nothing of the person: the registry (so that the
\* e-mail can be used again), every membership in every condominium, pending or
\* linked, and the condominium the person owned with all its memberships.
DeletedAccountLeavesNothing ==
    [][\A u \in DOMAIN users \ DOMAIN users' :
          /\ users[u].registry \notin DOMAIN registries'
          /\ \A m \in DOMAIN members :
                \/ members[m].registry = users[u].registry
                \/ condos[members[m].condo].owner = u
                => m \notin DOMAIN members' \cup infos' \cup DOMAIN invites'
          /\ \A c \in DOMAIN condos : condos[c].owner = u => c \notin DOMAIN condos']_vars

\* A person with an account loses a membership in three ways only: the account
\* goes, the condominium goes, or this one membership is removed and every
\* account, registry, condominium and other membership stays.
RegisteredMembershipLoss ==
    [][\A m \in DOMAIN members \ DOMAIN members' :
          \/ members[m].user = NoUser
          \/ members[m].user \notin DOMAIN users'
          \/ members[m].condo \notin DOMAIN condos'
          \/ /\ UNCHANGED <<registries, users, condos, invites>>
             /\ members' = Without(members, {m})]_vars

\* What LoginSessions takes for granted: accounts come and go one at a time,
\* whichever request deletes what, an account keeps the address it was made with,
\* and no two accounts have the same.
AddressOf(u) == registries[users[u].registry].email

AccountsKeepTheirAddress ==
    [][/\ \E u \in UserId :
             DOMAIN users' \in {DOMAIN users, DOMAIN users \cup {u}, DOMAIN users \ {u}}
       /\ \A u \in DOMAIN users \cap DOMAIN users' : AddressOf(u)' = AddressOf(u)
       /\ \A u, v \in DOMAIN users' : AddressOf(u)' = AddressOf(v)' => u = v]_vars

-----------------------------------------------------------------------------
(* A claim of the documentation that the code does not keep.               *)

\* docs/openapi: whoever was invited by a condominium can create a user (unless
\* the person already has one).
InvitedPersonCanRegister ==
    \A m \in DOMAIN invites : Usable(m) \/ HasAccount(members[m].registry)
=============================================================================
