--------------------- MODULE CondominiumRegistryProofs ---------------------
(***************************************************************************)
(* The invariants of CondominiumRegistry hold for any number of keys,      *)
(* addresses and batch rows.  Their conjunction is inductive; none of them *)
(* is by itself.  One lemma per kind of step: the four insertions and the  *)
(* cascading delete all the removals are made of.  The last part is about  *)
(* GuardedRequests, whose tables are the same.                             *)
(***************************************************************************)
EXTENDS CondominiumReads, GuardedRequests, TLAPS

\* Inserting one row gives a table.
LEMMA InsertType ==
  ASSUME NEW K, NEW R, NEW t, IsTable(t, K, R), NEW k \in K, NEW row \in R
  PROVE  IsTable(With(t, Row(k, row)), K, R)
  BY DEF IsTable, With, Row

\* Deleting rows gives a table.
LEMMA WithoutType ==
  ASSUME NEW K, NEW R, NEW t, IsTable(t, K, R), NEW S
  PROVE  IsTable(Without(t, S), K, R)
  BY DEF IsTable, Without, Restrict

-----------------------------------------------------------------------------
(* The invariant.                                                          *)

\* The inductive invariant.
IInv ==
    /\ TypeOK
    /\ ReferentialIntegrity
    /\ UniqueColumns
    /\ LinkedAccountIsThePerson
    /\ ResidentHasInviteXorAccount
    /\ InviteAddressesItsMember
    /\ ResidentsHaveInfos

\* The empty tables satisfy every part of the invariant.
LEMMA InitIInv == Init => IInv
  BY DEF Init, IInv, TypeOK, ReferentialIntegrity, UniqueColumns,
         LinkedAccountIsThePerson, ResidentHasInviteXorAccount,
         InviteAddressesItsMember, ResidentsHaveInfos, IsTable, EmptyTable

\* A condominium is created with an owner nobody else's rows refer to.
LEMMA CreateCondominiumStep ==
  ASSUME IInv, NEW e \in Email, NEW n \in Cnpj, NEW r \in RegistryId,
         NEW u \in UserId, NEW c \in CondoId, CreateCondominium(e, n, r, u, c)
  PROVE  IInv'
<1> USE DEF IInv, InsertCondominium, UniqueRegistry, User, Condominium
<1>1. /\ r \notin DOMAIN registries /\ u \notin DOMAIN users /\ c \notin DOMAIN condos
      /\ \A s \in DOMAIN registries : registries[s].email # e
      /\ \A d \in DOMAIN condos : condos[d].cnpj # n
      /\ members' = members /\ infos' = infos /\ invites' = invites
  BY DEF CreateCondominium, RegistriesOf
<1>2. /\ DOMAIN registries' = DOMAIN registries \cup {r}
      /\ \A s \in DOMAIN registries : registries'[s] = registries[s]
      /\ registries'[r] = [email |-> e, cpf |-> NoCpf]
  BY <1>1 DEF CreateCondominium, With, Row
<1>3. /\ DOMAIN users' = DOMAIN users \cup {u}
      /\ \A v \in DOMAIN users : users'[v] = users[v]
      /\ users'[u] = [registry |-> r]
  BY <1>1 DEF CreateCondominium, With, Row
<1>4. /\ DOMAIN condos' = DOMAIN condos \cup {c}
      /\ \A d \in DOMAIN condos : condos'[d] = condos[d]
      /\ condos'[c] = [owner |-> u, cnpj |-> n]
  BY <1>1 DEF CreateCondominium, With, Row
<1>5. TypeOK'
  <2>1. IsTable(registries', RegistryId, RegistryRow)
    BY InsertType, [email |-> e, cpf |-> NoCpf] \in RegistryRow
    DEF CreateCondominium, TypeOK, RegistryRow
  <2>2. IsTable(users', UserId, UserRow)
    BY InsertType, [registry |-> r] \in UserRow DEF CreateCondominium, TypeOK, UserRow
  <2>3. IsTable(condos', CondoId, CondoRow)
    BY InsertType, [owner |-> u, cnpj |-> n] \in CondoRow
    DEF CreateCondominium, TypeOK, CondoRow
  <2> QED BY <1>1, <2>1, <2>2, <2>3 DEF TypeOK
<1>6. ReferentialIntegrity'
  BY <1>1, <1>2, <1>3, <1>4 DEF ReferentialIntegrity
<1>7. UniqueColumns'
  BY <1>1, <1>2, <1>3, <1>4 DEF UniqueColumns, ReferentialIntegrity
<1>8. LinkedAccountIsThePerson'
  BY <1>1, <1>3 DEF LinkedAccountIsThePerson, ReferentialIntegrity
<1>9. /\ ResidentHasInviteXorAccount' /\ ResidentsHaveInfos'
      /\ InviteAddressesItsMember'
  BY <1>1, <1>2
  DEF ResidentHasInviteXorAccount, ResidentsHaveInfos, InviteAddressesItsMember,
      ReferentialIntegrity
<1> QED BY <1>5, <1>6, <1>7, <1>8, <1>9

\* An employee arrives with a registry, an account and a linked membership.
LEMMA CreateEmployeeStep ==
  ASSUME IInv, NEW o \in UserId, NEW c \in CondoId, NEW e \in Email,
         NEW p \in Cpf, NEW r \in RegistryId, NEW u \in UserId,
         NEW m \in MemberId, CreateEmployee(o, c, e, p, r, u, m)
  PROVE  IInv'
<1> USE DEF IInv, InsertEmployee, UniqueRegistry, User, CondominiumMember
<1> DEFINE row == [role |-> Employee, registry |-> r, condo |-> c, user |-> u]
<1>1. /\ r \notin DOMAIN registries /\ u \notin DOMAIN users
      /\ m \notin DOMAIN members /\ c \in DOMAIN condos
      /\ \A s \in DOMAIN registries : registries[s].email # e
      /\ condos' = condos /\ infos' = infos /\ invites' = invites
      /\ m \notin DOMAIN invites /\ m \notin infos
  BY DEF CreateEmployee, RegistriesOf, ReferentialIntegrity
<1>2. /\ DOMAIN registries' = DOMAIN registries \cup {r}
      /\ \A s \in DOMAIN registries : registries'[s] = registries[s]
      /\ registries'[r] = [email |-> e, cpf |-> p]
  BY <1>1 DEF CreateEmployee, With, Row
<1>3. /\ DOMAIN users' = DOMAIN users \cup {u}
      /\ \A v \in DOMAIN users : users'[v] = users[v]
      /\ users'[u] = [registry |-> r]
  BY <1>1 DEF CreateEmployee, With, Row
<1>4. /\ DOMAIN members' = DOMAIN members \cup {m}
      /\ \A x \in DOMAIN members : members'[x] = members[x]
      /\ members'[m] = row
  BY <1>1 DEF CreateEmployee, With, Row
<1>5. TypeOK'
  <2>1. IsTable(registries', RegistryId, RegistryRow)
    BY InsertType, [email |-> e, cpf |-> p] \in RegistryRow
    DEF CreateEmployee, TypeOK, RegistryRow
  <2>2. IsTable(users', UserId, UserRow)
    BY InsertType, [registry |-> r] \in UserRow DEF CreateEmployee, TypeOK, UserRow
  <2>3. IsTable(members', MemberId, MemberRow)
    BY InsertType, row \in MemberRow DEF CreateEmployee, TypeOK, MemberRow
  <2> QED BY <1>1, <2>1, <2>2, <2>3 DEF TypeOK
<1>6. u # NoUser
  BY NullsAreNoValues
<1>7. ReferentialIntegrity'
  BY <1>1, <1>2, <1>3, <1>4 DEF ReferentialIntegrity
<1>8. UniqueColumns'
  BY <1>1, <1>2, <1>3 DEF UniqueColumns, ReferentialIntegrity
<1>9. LinkedAccountIsThePerson'
  BY <1>1, <1>3, <1>4 DEF LinkedAccountIsThePerson, ReferentialIntegrity
<1>10. ResidentHasInviteXorAccount'
  BY <1>1, <1>4, <1>6 DEF ResidentHasInviteXorAccount
<1>11. InviteAddressesItsMember'
  BY <1>1, <1>2, <1>4 DEF InviteAddressesItsMember, ReferentialIntegrity
<1>12. ResidentsHaveInfos'
  BY <1>1, <1>4 DEF ResidentsHaveInfos, Community, Employee
<1> QED BY <1>5, <1>7, <1>8, <1>9, <1>10, <1>11, <1>12

\* The sign-up can only reuse the registry the membership is attached to: the
\* invitation's address is that registry's, and addresses are unique.
LEMMA SignUpUsesTheMembersRegistry ==
  ASSUME IInv, NEW m \in MemberId, NEW e \in Email, NEW p \in Cpf,
         MatchesInvite(m, e, p), NEW r \in SignUpRegistries(e, p)
  PROVE  /\ m \in DOMAIN members
         /\ r = members[m].registry
         /\ r \in DOMAIN registries
         /\ ~HasAccount(r)
<1>1. m \in DOMAIN members /\ members[m].registry \in RegistriesOf(e)
  BY DEF IInv, MatchesInvite, ReferentialIntegrity, InviteAddressesItsMember, RegistriesOf
<1>2. r \in RegistriesOf(e) /\ ~HasAccount(r)
  BY <1>1 DEF SignUpRegistries
<1> QED BY <1>1, <1>2 DEF IInv, UniqueColumns, RegistriesOf

\* The sign-up links one pending membership to one new account.
LEMMA SignUpStep ==
  ASSUME IInv, NEW m \in MemberId, NEW e \in Email, NEW p \in Cpf,
         NEW r \in RegistryId, NEW u \in UserId, SignUp(m, e, p, r, u)
  PROVE  IInv'
<1> USE DEF IInv, UniqueRegistry, User
<1>1. /\ m \in DOMAIN invites /\ u \notin DOMAIN users
      /\ condos' = condos /\ infos' = infos
      /\ m \in DOMAIN members /\ r = members[m].registry
      /\ r \in DOMAIN registries /\ ~HasAccount(r)
  BY SignUpUsesTheMembersRegistry DEF SignUp, TransferToUser, MatchesInvite
<1>2. /\ DOMAIN registries' = DOMAIN registries
      /\ \A s \in DOMAIN registries : registries'[s] = registries[s]
  BY <1>1 DEF SignUp, TransferToUser, With, Row
<1>3. /\ DOMAIN users' = DOMAIN users \cup {u}
      /\ \A v \in DOMAIN users : users'[v] = users[v]
      /\ users'[u] = [registry |-> r]
  BY <1>1 DEF SignUp, TransferToUser, With, Row
<1>4. members' = [members EXCEPT ![m].user = u]
  BY DEF SignUp, TransferToUser, MembersAfterSignUp
<1>5. /\ DOMAIN invites' = DOMAIN invites \ {m}
      /\ \A x \in DOMAIN invites' : invites'[x] = invites[x]
  BY DEF SignUp, TransferToUser, InvitesAfterSignUp, Without, Restrict
<1>6. /\ DOMAIN members' = DOMAIN members
      /\ \A x \in DOMAIN members :
            /\ members'[x].role = members[x].role
            /\ members'[x].registry = members[x].registry
            /\ members'[x].condo = members[x].condo
            /\ members'[x].user = IF x = m THEN u ELSE members[x].user
  BY <1>1, <1>4 DEF TypeOK, IsTable, MemberRow
<1>7. TypeOK'
  <2>1. IsTable(registries', RegistryId, RegistryRow)
    BY InsertType, [email |-> e, cpf |-> p] \in RegistryRow
    DEF SignUp, TransferToUser, TypeOK, RegistryRow
  <2>2. IsTable(users', UserId, UserRow)
    BY InsertType, [registry |-> r] \in UserRow
    DEF SignUp, TransferToUser, TypeOK, UserRow
  <2>3. IsTable(members', MemberId, MemberRow)
    BY <1>1, <1>4 DEF TypeOK, IsTable, MemberRow
  <2>4. IsTable(invites', MemberId, InviteRow)
    BY WithoutType DEF SignUp, TransferToUser, InvitesAfterSignUp, TypeOK
  <2> QED BY <1>1, <2>1, <2>2, <2>3, <2>4 DEF TypeOK
<1>8. u # NoUser
  BY NullsAreNoValues
<1>9. ReferentialIntegrity'
  BY <1>1, <1>2, <1>3, <1>5, <1>6 DEF ReferentialIntegrity
<1>10. UniqueColumns'
  BY <1>1, <1>2, <1>3, <1>5 DEF UniqueColumns, HasAccount
<1>11. LinkedAccountIsThePerson'
  BY <1>1, <1>3, <1>6 DEF LinkedAccountIsThePerson, ReferentialIntegrity
<1>12. ResidentHasInviteXorAccount'
  BY <1>5, <1>6, <1>8 DEF ResidentHasInviteXorAccount
<1>13. InviteAddressesItsMember'
  BY <1>2, <1>5, <1>6 DEF InviteAddressesItsMember, ReferentialIntegrity
<1>14. ResidentsHaveInfos'
  BY <1>1, <1>6 DEF ResidentsHaveInfos
<1> QED BY <1>7, <1>9, <1>10, <1>11, <1>12, <1>13, <1>14

\* A cascade keeps the invariant wherever it starts: the rows that stay keep
\* the rows they refer to.
LEMMA DeleteRowsStep ==
  ASSUME IInv, NEW rids, NEW cids, NEW mids, DeleteRows(rids, cids, mids)
  PROVE  IInv'
<1> USE DEF IInv
<1> DEFINE goneUsers   == GoneUsers(rids)
           goneCondos  == GoneCondos(rids, cids)
           goneMembers == GoneMembers(rids, cids, mids)
           goneInvites == GoneInvites(rids, cids, mids)
<1>1. /\ DOMAIN registries' = DOMAIN registries \ rids
      /\ \A x \in DOMAIN registries' : registries'[x] = registries[x]
  BY DEF DeleteRows, Without, Restrict
<1>2. /\ DOMAIN users' = DOMAIN users \ goneUsers
      /\ \A x \in DOMAIN users' : users'[x] = users[x]
  BY DEF DeleteRows, Without, Restrict
<1>3. /\ DOMAIN condos' = DOMAIN condos \ goneCondos
      /\ \A x \in DOMAIN condos' : condos'[x] = condos[x]
  BY DEF DeleteRows, Without, Restrict
<1>4. /\ DOMAIN members' = DOMAIN members \ goneMembers
      /\ \A x \in DOMAIN members' : members'[x] = members[x]
  BY DEF DeleteRows, Without, Restrict
<1>5. /\ DOMAIN invites' = DOMAIN invites \ goneInvites
      /\ \A x \in DOMAIN invites' : invites'[x] = invites[x]
  BY DEF DeleteRows, Without, Restrict
<1>6. infos' = infos \ goneMembers
  BY DEF DeleteRows, GoneInfos
<1>7. /\ \A x \in DOMAIN users' : users[x].registry \notin rids
      /\ \A x \in DOMAIN condos' : condos[x].owner \notin goneUsers
      /\ \A x \in DOMAIN members' : /\ members[x].registry \notin rids
                                    /\ members[x].condo \notin goneCondos
                                    /\ members[x].user \notin goneUsers
      /\ \A x \in DOMAIN invites' : /\ x \notin goneMembers
                                    /\ invites[x].condo \notin goneCondos
  BY <1>2, <1>3, <1>4, <1>5 DEF GoneUsers, GoneCondos, GoneMembers, GoneInvites
<1>8. TypeOK'
  <2>1. /\ IsTable(registries', RegistryId, RegistryRow)
        /\ IsTable(users', UserId, UserRow)
        /\ IsTable(condos', CondoId, CondoRow)
    BY WithoutType DEF DeleteRows, TypeOK
  <2>2. /\ IsTable(members', MemberId, MemberRow)
        /\ IsTable(invites', MemberId, InviteRow)
    BY WithoutType DEF DeleteRows, TypeOK
  <2> QED BY <1>6, <2>1, <2>2 DEF TypeOK
<1> HIDE DEF goneUsers, goneCondos, goneMembers, goneInvites
<1>9. ReferentialIntegrity'
  BY <1>1, <1>2, <1>3, <1>4, <1>5, <1>6, <1>7 DEF ReferentialIntegrity
<1>10. UniqueColumns'
  BY <1>1, <1>2, <1>3, <1>5 DEF UniqueColumns
<1>11. LinkedAccountIsThePerson'
  BY <1>2, <1>4, <1>7 DEF LinkedAccountIsThePerson, ReferentialIntegrity
<1>12. ResidentHasInviteXorAccount'
  <2> SUFFICES ASSUME NEW m \in DOMAIN members'
               PROVE  m \in DOMAIN invites' <=> m \in DOMAIN invites
    BY <1>4 DEF ResidentHasInviteXorAccount
  <2>1. ASSUME m \in DOMAIN invites PROVE m \notin goneInvites
    BY <1>4, <1>7, <2>1 DEF goneInvites, goneMembers, GoneInvites, goneCondos,
                            InviteAddressesItsMember
  <2> QED BY <1>5, <2>1
<1>13. InviteAddressesItsMember'
  BY <1>1, <1>4, <1>5, <1>7 DEF InviteAddressesItsMember, ReferentialIntegrity
<1>14. ResidentsHaveInfos'
  BY <1>4, <1>6 DEF ResidentsHaveInfos
<1> QED BY <1>8, <1>9, <1>10, <1>11, <1>12, <1>13, <1>14

\* An upload brings residents whose persons are known by address or are new;
\* no two of its rows, and no pending invitation, have one address.
LEMMA UploadMembersStep ==
  ASSUME IInv, NEW o \in UserId, NEW c \in CondoId, NEW b \in Batches,
         UploadMembers(o, c, b)
  PROVE  IInv'
<1> USE DEF IInv, CondominiumMember, Invite
<1> DEFINE strangers == {m \in DOMAIN b : RegistriesOf(b[m].email) = {}}
<1>1. /\ DOMAIN b \subseteq MemberId \ DOMAIN members
      /\ b \in [DOMAIN b -> [email : Email, cpf : Cpf]]
      /\ \A m, n \in DOMAIN b : b[m].email = b[n].email => m = n
  BY DEF Batches
<1>2. PICK S \in SUBSET (RegistryId \ DOMAIN registries) :
        \E fresh \in Bijection(S, strangers) : CreateMembers(c, b, fresh)
  BY DEF UploadMembers
<1>3. PICK fresh \in Bijection(S, strangers) : CreateMembers(c, b, fresh)
  BY <1>2
<1>4. /\ fresh \in [S -> strangers]
      /\ \A r, s \in S : fresh[r] = fresh[s] => r = s
  BY DEF Bijection, Injection, Surjection, IsInjective
<1>5. PICK found \in [DOMAIN b -> DOMAIN registries \cup DOMAIN fresh] :
        /\ \A m \in DOMAIN b : IsFoundBy(registries'[found[m]], b[m])
        /\ members' = With(members,
             [m \in DOMAIN b |-> [role |-> Community, registry |-> found[m],
                                  condo |-> c, user |-> NoUser]])
  BY <1>3 DEF CreateMembers
<1>6. /\ c \in DOMAIN condos
      /\ users' = users /\ condos' = condos /\ infos' = infos \cup DOMAIN b
      /\ \A i \in DOMAIN invites : invites[i].condo = c
           => \A m \in DOMAIN b : invites[i].recipient # b[m].email
  BY <1>3 DEF CreateMembers, UploadMembers
<1>7. /\ DOMAIN registries' = DOMAIN registries \cup S
      /\ \A r \in DOMAIN registries : registries'[r] = registries[r]
      /\ \A r \in S : /\ fresh[r] \in strangers
                      /\ registries'[r] = b[fresh[r]]
  BY <1>2, <1>3, <1>4 DEF CreateMembers, RegistriesAfter, With
<1>8. /\ DOMAIN members' = DOMAIN members \cup DOMAIN b
      /\ \A m \in DOMAIN members : members'[m] = members[m]
      /\ \A m \in DOMAIN b : /\ found[m] \in DOMAIN registries'
                             /\ registries'[found[m]].email = b[m].email
                             /\ members'[m] = [role |-> Community, registry |-> found[m],
                                               condo |-> c, user |-> NoUser]
  BY <1>1, <1>4, <1>5, <1>7 DEF With, IsFoundBy
<1>9. /\ DOMAIN invites' = DOMAIN invites \cup DOMAIN b
      /\ DOMAIN b \cap DOMAIN invites = {}
      /\ \A m \in DOMAIN invites : invites'[m] = invites[m]
      /\ \A m \in DOMAIN b : invites'[m] = [condo |-> c, recipient |-> b[m].email,
                                            cpf |-> b[m].cpf]
  BY <1>1, <1>3 DEF CreateMembers, With, ReferentialIntegrity
<1>10. TypeOK'
  <2>1. IsTable(registries', RegistryId, RegistryRow)
    <3>1. \A m \in DOMAIN b : b[m] \in RegistryRow
      BY <1>1 DEF RegistryRow
    <3> QED BY <1>2, <1>3, <1>7, <3>1 DEF TypeOK, IsTable, CreateMembers, RegistriesAfter, With
  <2>2. IsTable(members', MemberId, MemberRow)
    <3>1. \A m \in DOMAIN b : members'[m] \in MemberRow
      BY <1>2, <1>7, <1>8 DEF MemberRow, TypeOK, IsTable
    <3> QED BY <1>1, <1>5, <1>8, <3>1 DEF TypeOK, IsTable, With
  <2>3. IsTable(invites', MemberId, InviteRow)
    <3>1. \A m \in DOMAIN b : invites'[m] \in InviteRow
      BY <1>1, <1>9 DEF InviteRow
    <3> QED BY <1>1, <1>3, <1>9, <3>1 DEF TypeOK, IsTable, CreateMembers, With
  <2>4. infos' \subseteq MemberId
    BY <1>1, <1>6 DEF TypeOK
  <2> QED BY <1>6, <2>1, <2>2, <2>3, <2>4 DEF TypeOK
<1>11. ReferentialIntegrity'
  BY <1>6, <1>7, <1>8, <1>9 DEF ReferentialIntegrity
<1>12. UniqueColumns'
  <2>1. \A r, s \in DOMAIN registries' :
           registries'[r].email = registries'[s].email => r = s
    <3>1. \A r \in S, s \in DOMAIN registries : registries'[r].email # registries'[s].email
      BY <1>7 DEF RegistriesOf
    <3>2. \A r, s \in S : registries'[r].email = registries'[s].email => r = s
      BY <1>1, <1>4, <1>7
    <3> QED BY <1>7, <3>1, <3>2 DEF UniqueColumns
  <2>2. \A m, n \in DOMAIN invites' :
           /\ invites'[m].condo = invites'[n].condo
           /\ invites'[m].recipient = invites'[n].recipient
           => m = n
    BY <1>1, <1>6, <1>9 DEF UniqueColumns
  <2> QED BY <1>6, <2>1, <2>2 DEF UniqueColumns
<1>13. LinkedAccountIsThePerson'
  BY <1>6, <1>8 DEF LinkedAccountIsThePerson
<1>14. ResidentHasInviteXorAccount'
  BY <1>1, <1>8, <1>9 DEF ResidentHasInviteXorAccount
<1>15. InviteAddressesItsMember'
  BY <1>1, <1>7, <1>8, <1>9 DEF InviteAddressesItsMember, ReferentialIntegrity
<1>16. ResidentsHaveInfos'
  BY <1>1, <1>6, <1>8 DEF ResidentsHaveInfos
<1> QED BY <1>10, <1>11, <1>12, <1>13, <1>14, <1>15, <1>16

\* Every request, and doing nothing, preserves the invariant.
LEMMA NextIInv == IInv /\ [Next]_vars => IInv'
<1> SUFFICES ASSUME IInv, [Next]_vars PROVE IInv'
  OBVIOUS
<1>1. ASSUME NEW e \in Email, NEW n \in Cnpj, NEW r \in RegistryId,
             NEW u \in UserId, NEW c \in CondoId, CreateCondominium(e, n, r, u, c)
      PROVE  IInv'
  BY <1>1, CreateCondominiumStep
<1>2. ASSUME NEW o \in UserId, NEW c \in CondoId, NEW b \in Batches,
             UploadMembers(o, c, b)
      PROVE  IInv'
  BY <1>2, UploadMembersStep
<1>3. ASSUME NEW o \in UserId, NEW c \in CondoId, NEW e \in Email, NEW p \in Cpf,
             NEW r \in RegistryId, NEW u \in UserId, NEW m \in MemberId,
             CreateEmployee(o, c, e, p, r, u, m)
      PROVE  IInv'
  BY <1>3, CreateEmployeeStep
<1>4. ASSUME NEW m \in MemberId, NEW e \in Email, NEW p \in Cpf,
             NEW r \in RegistryId, NEW u \in UserId, SignUp(m, e, p, r, u)
      PROVE  IInv'
  BY <1>4, SignUpStep
<1>5. ASSUME NEW u \in UserId, DeleteUser(u)
      PROVE  IInv'
  BY <1>5, DeleteRowsStep DEF DeleteUser
<1>6. ASSUME NEW o \in UserId, NEW c \in CondoId, NEW u \in UserId,
             RemoveEmployee(o, c, u)
      PROVE  IInv'
  BY <1>6, DeleteRowsStep DEF RemoveEmployee
<1>7. ASSUME NEW a \in UserId, NEW c \in CondoId, NEW m \in MemberId,
             RemoveMember(a, c, m)
      PROVE  IInv'
  BY <1>7, DeleteRowsStep DEF RemoveMember, RemoveMemberRow
<1>8. ASSUME NEW o \in UserId, NEW c \in CondoId, DeleteCondominium(o, c)
      PROVE  IInv'
  BY <1>8, DeleteRowsStep DEF DeleteCondominium
<1>9. CASE UNCHANGED vars
  BY <1>9 DEF vars, IInv, TypeOK, ReferentialIntegrity, UniqueColumns,
              LinkedAccountIsThePerson, ResidentHasInviteXorAccount,
              InviteAddressesItsMember, ResidentsHaveInfos
<1> QED BY <1>1, <1>2, <1>3, <1>4, <1>5, <1>6, <1>7, <1>8, <1>9 DEF Next

\* The inductive invariant holds in every reachable state.
THEOREM Invariance == Spec => []IInv
  BY InitIInv, NextIInv, PTL DEF Spec

\* Every table maps keys to well-formed rows.
THEOREM TypeCorrect == Spec => []TypeOK
<1>1. IInv => TypeOK
  BY DEF IInv
<1> QED BY Invariance, <1>1, PTL

\* No row outlives a row it references, whatever sequence of cascades ran.
THEOREM ReferentialIntegrityHolds == Spec => []ReferentialIntegrity
<1>1. IInv => ReferentialIntegrity
  BY DEF IInv
<1> QED BY Invariance, <1>1, PTL

\* The UNIQUE columns hold although the upload and the sign-up look for the
\* person's registry by different columns.
THEOREM UniqueColumnsHold == Spec => []UniqueColumns
<1>1. IInv => UniqueColumns
  BY DEF IInv
<1> QED BY Invariance, <1>1, PTL

\* A membership is only ever linked to an account of its own person.
THEOREM LinkedAccountsArePersons == Spec => []LinkedAccountIsThePerson
<1>1. IInv => LinkedAccountIsThePerson
  BY DEF IInv
<1> QED BY Invariance, <1>1, PTL

\* A membership has an account or one pending invitation, never both, never
\* neither.
THEOREM InvitationsMatchMemberships == Spec => []ResidentHasInviteXorAccount
<1>1. IInv => ResidentHasInviteXorAccount
  BY DEF IInv
<1> QED BY Invariance, <1>1, PTL

\* An invitation is addressed to its membership's person and issued by its
\* membership's condominium.
THEOREM InvitationsAreAddressed == Spec => []InviteAddressesItsMember
<1>1. IInv => InviteAddressesItsMember
  BY DEF IInv
<1> QED BY Invariance, <1>1, PTL

\* Exactly the residents have a community_infos row.
THEOREM InfosAreTheResidents == Spec => []ResidentsHaveInfos
<1>1. IInv => ResidentsHaveInfos
  BY DEF IInv
<1> QED BY Invariance, <1>1, PTL

-----------------------------------------------------------------------------
(* What CondominiumReads claims of the queries.  That the lists agree       *)
(* follows from the invariant alone; that an account has one place needs an *)
(* invariant of its own, since nothing in the schema asks for it.           *)

\* No account is linked twice, and no owner is linked at all.
LinkedOnceOrOwner ==
    /\ \A m, n \in DOMAIN members :
          members[m].user # NoUser /\ members[m].user = members[n].user => m = n
    /\ \A c \in DOMAIN condos, m \in DOMAIN members : condos[c].owner # members[m].user

\* An account that is made in a step is nowhere else, and the cascades only
\* take rows away.
LEMMA LinkedOnceOrOwnerStep ==
  ASSUME IInv, LinkedOnceOrOwner, [Next]_vars
  PROVE  LinkedOnceOrOwner'
<1> USE DEF LinkedOnceOrOwner
<1>0. /\ \A m \in DOMAIN members : members[m].user \in DOMAIN users \cup {NoUser}
      /\ \A c \in DOMAIN condos : condos[c].owner \in DOMAIN users
      /\ NoUser \notin UserId /\ DOMAIN users \subseteq UserId
  BY NullsAreNoValues DEF IInv, ReferentialIntegrity, TypeOK, IsTable
<1>1. ASSUME NEW e \in Email, NEW n \in Cnpj, NEW r \in RegistryId,
             NEW u \in UserId, NEW c \in CondoId, CreateCondominium(e, n, r, u, c)
      PROVE  LinkedOnceOrOwner'
  <2>1. /\ members' = members /\ u \notin DOMAIN users
        /\ DOMAIN condos' = DOMAIN condos \cup {c}
        /\ \A d \in DOMAIN condos : condos'[d] = condos[d]
        /\ c \notin DOMAIN condos /\ condos'[c].owner = u
    BY <1>1 DEF CreateCondominium, InsertCondominium, Condominium, With, Row
  <2> QED BY <1>0, <2>1
<1>2. ASSUME NEW o \in UserId, NEW c \in CondoId, NEW b \in Batches,
             UploadMembers(o, c, b)
      PROVE  LinkedOnceOrOwner'
  <2>1. PICK fresh : CreateMembers(c, b, fresh)
    BY <1>2 DEF UploadMembers
  <2>2. PICK found \in [DOMAIN b -> DOMAIN registries \cup DOMAIN fresh] :
          members' = With(members,
            [m \in DOMAIN b |-> CondominiumMember(Community, found[m], c, NoUser)])
    BY <2>1 DEF CreateMembers
  <2>3. /\ condos' = condos
        /\ DOMAIN members' = DOMAIN members \cup DOMAIN b
        /\ \A m \in DOMAIN members : members'[m] = members[m]
        /\ \A m \in DOMAIN members' \ DOMAIN members : members'[m].user = NoUser
    BY <2>1, <2>2 DEF CreateMembers, CondominiumMember, With
  <2> QED BY <1>0, <2>3
<1>3. ASSUME NEW o \in UserId, NEW c \in CondoId, NEW e \in Email, NEW p \in Cpf,
             NEW r \in RegistryId, NEW u \in UserId, NEW m \in MemberId,
             CreateEmployee(o, c, e, p, r, u, m)
      PROVE  LinkedOnceOrOwner'
  <2>1. /\ condos' = condos /\ u \notin DOMAIN users
        /\ DOMAIN members' = DOMAIN members \cup {m}
        /\ \A n \in DOMAIN members : members'[n] = members[n]
        /\ m \notin DOMAIN members /\ members'[m].user = u
    BY <1>3 DEF CreateEmployee, InsertEmployee, CondominiumMember, With, Row
  <2> QED BY <1>0, <2>1
<1>4. ASSUME NEW m \in MemberId, NEW e \in Email, NEW p \in Cpf,
             NEW r \in RegistryId, NEW u \in UserId, SignUp(m, e, p, r, u)
      PROVE  LinkedOnceOrOwner'
  <2>1. /\ condos' = condos /\ u \notin DOMAIN users
        /\ members' = [members EXCEPT ![m].user = u]
    BY <1>4 DEF SignUp, TransferToUser, MembersAfterSignUp
  <2>2. /\ DOMAIN members' = DOMAIN members
        /\ \A n \in DOMAIN members :
              members'[n].user = IF n = m THEN u ELSE members[n].user
    BY <2>1 DEF IInv, TypeOK, IsTable, MemberRow
  <2> QED BY <1>0, <2>1, <2>2
<1>5. ASSUME NEW rids, NEW cids, NEW mids, DeleteRows(rids, cids, mids)
      PROVE  LinkedOnceOrOwner'
  <2>1. /\ DOMAIN condos' \subseteq DOMAIN condos
        /\ \A c \in DOMAIN condos' : condos'[c] = condos[c]
        /\ DOMAIN members' \subseteq DOMAIN members
        /\ \A m \in DOMAIN members' : members'[m] = members[m]
    BY <1>5 DEF DeleteRows, Without, Restrict
  <2> QED BY <2>1
<1>6. CASE UNCHANGED vars
  BY <1>6 DEF vars
<1>7. ASSUME NEW u \in UserId, DeleteUser(u) PROVE LinkedOnceOrOwner'
  BY <1>5, <1>7 DEF DeleteUser
<1>8. ASSUME NEW o \in UserId, NEW c \in CondoId, NEW u \in UserId,
             RemoveEmployee(o, c, u)
      PROVE  LinkedOnceOrOwner'
  BY <1>5, <1>8 DEF RemoveEmployee
<1>9. ASSUME NEW a \in UserId, NEW c \in CondoId, NEW m \in MemberId,
             RemoveMember(a, c, m)
      PROVE  LinkedOnceOrOwner'
  BY <1>5, <1>9 DEF RemoveMember, RemoveMemberRow
<1>10. ASSUME NEW o \in UserId, NEW c \in CondoId, DeleteCondominium(o, c)
       PROVE  LinkedOnceOrOwner'
  BY <1>5, <1>10 DEF DeleteCondominium
<1> QED BY <1>1, <1>2, <1>3, <1>4, <1>6, <1>7, <1>8, <1>9, <1>10 DEF Next

\* The three lists of one's own account have one entry at most.
LEMMA PlacesAreLinks == IInv /\ LinkedOnceOrOwner => OneAccountOnePlace
<1> SUFFICES ASSUME IInv, LinkedOnceOrOwner, NEW u \in DOMAIN users,
                    NEW p \in Places(u), NEW q \in Places(u)
             PROVE  p = q
  BY DEF OneAccountOnePlace
<1> DEFINE owned  == {c \in DOMAIN condos : condos[c].owner = u}
           linked == {m \in DOMAIN members : members[m].user = u}
<1>1. u # NoUser
  BY NullsAreNoValues DEF IInv, TypeOK, IsTable
<1>2. /\ \A c, d \in owned : c = d
      /\ \A m, n \in linked : m = n
      /\ owned = {} \/ linked = {}
  BY <1>1 DEF IInv, UniqueColumns, LinkedOnceOrOwner
<1>3. /\ \/ \E c \in owned : p = <<"owner", c>>
         \/ \E m \in linked : members[m].role = Community /\ p = <<"resident", m>>
         \/ \E m \in linked : members[m].role = Employee /\ p = <<"employee", m>>
      /\ \/ \E c \in owned : q = <<"owner", c>>
         \/ \E m \in linked : members[m].role = Community /\ q = <<"resident", m>>
         \/ \E m \in linked : members[m].role = Employee /\ q = <<"employee", m>>
  BY DEF Places, GetCondominiumsByOwnerId, GetCommunityRelations,
         GetEmployeeRelations, Residents, Employees
<1>4. Community # Employee
  BY DEF Community, Employee
<1> HIDE DEF owned, linked
<1> QED BY <1>2, <1>3, <1>4

\* An account has one place at most, for any number of condominiums.
THEOREM OneAccountOnePlaceHolds == Spec => []OneAccountOnePlace
<1>1. Init => LinkedOnceOrOwner
  BY DEF Init, LinkedOnceOrOwner, EmptyTable
<1>2. IInv /\ LinkedOnceOrOwner /\ [Next]_vars => LinkedOnceOrOwner'
  BY LinkedOnceOrOwnerStep
<1> QED BY <1>1, <1>2, Invariance, PlacesAreLinks, PTL DEF Spec

\* The lists, the guards and the invitations agree about every membership.
LEMMA IInvListsAgree == IInv => ListsAgree
<1> SUFFICES ASSUME IInv, NEW m \in DOMAIN members
             PROVE  LET row == members[m] email == registries[row.registry].email IN
        /\ {c \in DOMAIN condos : m \in GetCommunityGroup(c)} =
              IF row.role = Community THEN {row.condo} ELSE {}
        /\ {c \in DOMAIN condos : m \in GetEmployeeGroup(c)} =
              IF row.role = Employee THEN {row.condo} ELSE {}
        /\ ~GetCommunityMemberFails(m)
        /\ IF row.user = NoUser
           THEN {i \in FindInvites(email) : invites[i].condo = row.condo} = {m}
           ELSE /\ FindUserByEmail(email) = {row.user}
                /\ row.role = Community => PassesMemberGuard(row.user, row.condo)
                /\ row.role = Employee => IsAdmin(row.user, row.condo)
  BY DEF ListsAgree
<1> DEFINE row   == members[m]
           email == registries[row.registry].email
<1>1. /\ row.registry \in DOMAIN registries /\ row.condo \in DOMAIN condos
      /\ row.user \in DOMAIN users \cup {NoUser}
      /\ row.role \in {Community, Employee} /\ Community # Employee
      /\ m \in infos <=> row.role = Community
      /\ m \in DOMAIN invites <=> row.user = NoUser
  BY DEF IInv, TypeOK, IsTable, MemberRow, ReferentialIntegrity, ResidentsHaveInfos,
         ResidentHasInviteXorAccount, Community, Employee
<1>2. row.role = Employee => row.user \in DOMAIN users
  BY <1>1 DEF IInv, InviteAddressesItsMember
<1>3. {c \in DOMAIN condos : m \in GetCommunityGroup(c)} =
         IF row.role = Community THEN {row.condo} ELSE {}
  BY <1>1 DEF GetCommunityGroup, Residents
<1>4. {c \in DOMAIN condos : m \in GetEmployeeGroup(c)} =
         IF row.role = Employee THEN {row.condo} ELSE {}
  BY <1>1, <1>2 DEF GetEmployeeGroup, Employees
<1>5. \A u \in DOMAIN users : FindUser(u) = {u}
  BY DEF FindUser, IInv, ReferentialIntegrity
<1>6. ~GetCommunityMemberFails(m)
  BY <1>1, <1>5 DEF GetCommunityMemberFails, CommunityMember, UserData
<1>7. ASSUME row.user = NoUser
      PROVE  {i \in FindInvites(email) : invites[i].condo = row.condo} = {m}
  <2>1. m \in DOMAIN invites /\ invites[m].recipient = email /\ invites[m].condo = row.condo
    BY <1>1, <1>7 DEF IInv, InviteAddressesItsMember
  <2> QED BY <2>1 DEF FindInvites, IInv, UniqueColumns
<1>8. ASSUME row.user # NoUser
      PROVE  /\ FindUserByEmail(email) = {row.user}
             /\ row.role = Community => PassesMemberGuard(row.user, row.condo)
             /\ row.role = Employee => IsAdmin(row.user, row.condo)
  <2>1. row.user \in DOMAIN users /\ users[row.user].registry = row.registry
    BY <1>1, <1>8 DEF IInv, LinkedAccountIsThePerson
  <2>2. FindUserByEmail(email) = {row.user}
    BY <1>1, <2>1 DEF FindUserByEmail, RegistriesOf, IInv, UniqueColumns,
                      ReferentialIntegrity
  <2>3. row.role = Community => PassesMemberGuard(row.user, row.condo)
    BY <1>1, <1>5, <2>1 DEF PassesMemberGuard, FindCondominium,
                            CheckByUserAndCondominiumId, Residents
  <2>4. row.role = Employee => IsAdmin(row.user, row.condo)
    BY DEF IsAdmin
  <2> QED BY <2>2, <2>3, <2>4
<1> QED BY <1>3, <1>4, <1>6, <1>7, <1>8

\* Everyone is listed once, and can do what the list says.
THEOREM ListsAgreeHolds == Spec => []ListsAgree
  BY Invariance, IInvListsAgree, PTL

-----------------------------------------------------------------------------
(* What a request may not do.                                              *)

\* The removals are cascades from an account's registry, a membership or a
\* condominium.
RemovalOfPerson == \E u \in DOMAIN users : DeleteRows({users[u].registry}, {}, {})
RemovalOfMember == \E m \in DOMAIN members : RemoveMemberRow(m)
RemovalOfCondo  == \E c \in DOMAIN condos : DeleteRows({}, {c}, {})
Removals == RemovalOfPerson \/ RemovalOfMember \/ RemovalOfCondo

\* A request that removes nothing and links nothing leaves every row alone.
Additions ==
    /\ \A r \in DOMAIN registries : r \in DOMAIN registries' /\ registries'[r] = registries[r]
    /\ \A u \in DOMAIN users : u \in DOMAIN users' /\ users'[u] = users[u]
    /\ \A c \in DOMAIN condos : c \in DOMAIN condos' /\ condos'[c] = condos[c]
    /\ \A m \in DOMAIN members : m \in DOMAIN members' /\ members'[m] = members[m]
    /\ \A m \in DOMAIN invites : m \in DOMAIN invites' /\ invites'[m] = invites[m]

\* A sign-up: the account is new, one membership is linked, its invitation goes.
Linking(m, u) ==
    /\ m \in DOMAIN invites /\ members[m].user = NoUser /\ u \notin DOMAIN users
    /\ \A r \in DOMAIN registries : r \in DOMAIN registries' /\ registries'[r] = registries[r]
    /\ \A v \in DOMAIN users : v \in DOMAIN users' /\ users'[v] = users[v]
    /\ condos' = condos
    /\ DOMAIN members' = DOMAIN members
    /\ \A n \in DOMAIN members :
          /\ members'[n].registry = members[n].registry
          /\ members'[n].user = IF n = m THEN u ELSE members[n].user
    /\ DOMAIN invites' = DOMAIN invites \ {m}
    /\ \A n \in DOMAIN invites' : invites'[n] = invites[n]

\* Every request adds rows, links one membership, or removes rows.
LEMMA StepKinds ==
  ASSUME IInv, Next
  PROVE  Additions \/ (\E m \in MemberId, u \in UserId : Linking(m, u)) \/ Removals
<1>1. ASSUME NEW e \in Email, NEW n \in Cnpj, NEW r \in RegistryId,
             NEW u \in UserId, NEW c \in CondoId, CreateCondominium(e, n, r, u, c)
      PROVE  Additions
  BY <1>1 DEF CreateCondominium, InsertCondominium, Additions, With, Row
<1>2. ASSUME NEW o \in UserId, NEW c \in CondoId, NEW b \in Batches,
             UploadMembers(o, c, b)
      PROVE  Additions
  <2>1. PICK fresh : CreateMembers(c, b, fresh)
    BY <1>2 DEF UploadMembers
  <2>2. PICK f : members' = With(members, f)
    BY <2>1 DEF CreateMembers
  <2>3. PICK g, h : registries' = With(registries, g) /\ invites' = With(invites, h)
    BY <2>1 DEF CreateMembers, RegistriesAfter
  <2> QED BY <2>1, <2>2, <2>3 DEF CreateMembers, Additions, With
<1>3. ASSUME NEW o \in UserId, NEW c \in CondoId, NEW e \in Email, NEW p \in Cpf,
             NEW r \in RegistryId, NEW u \in UserId, NEW m \in MemberId,
             CreateEmployee(o, c, e, p, r, u, m)
      PROVE  Additions
  BY <1>3 DEF CreateEmployee, InsertEmployee, Additions, With, Row
<1>4. ASSUME NEW m \in MemberId, NEW e \in Email, NEW p \in Cpf,
             NEW r \in RegistryId, NEW u \in UserId, SignUp(m, e, p, r, u)
      PROVE  Linking(m, u)
  <2>1. /\ m \in DOMAIN invites /\ u \notin DOMAIN users /\ condos' = condos
        /\ m \in DOMAIN members /\ members[m].user = NoUser
    BY <1>4 DEF SignUp, TransferToUser, MatchesInvite, IInv, ReferentialIntegrity,
                ResidentHasInviteXorAccount
  <2>2. /\ \A s \in DOMAIN registries : s \in DOMAIN registries' /\ registries'[s] = registries[s]
        /\ \A v \in DOMAIN users : v \in DOMAIN users' /\ users'[v] = users[v]
    BY <1>4 DEF SignUp, TransferToUser, With, Row
  <2>3. members' = [members EXCEPT ![m].user = u]
    BY <1>4 DEF SignUp, TransferToUser, MembersAfterSignUp
  <2>4. /\ DOMAIN members' = DOMAIN members
        /\ \A n \in DOMAIN members :
              /\ members'[n].registry = members[n].registry
              /\ members'[n].user = IF n = m THEN u ELSE members[n].user
    BY <2>1, <2>3 DEF IInv, TypeOK, IsTable, MemberRow
  <2>5. /\ DOMAIN invites' = DOMAIN invites \ {m}
        /\ \A n \in DOMAIN invites' : invites'[n] = invites[n]
    BY <1>4 DEF SignUp, TransferToUser, InvitesAfterSignUp, Without, Restrict
  <2> QED BY <2>1, <2>2, <2>4, <2>5 DEF Linking
<1>5. ASSUME NEW u \in UserId, DeleteUser(u) PROVE Removals
  BY <1>5 DEF DeleteUser, Removals, RemovalOfPerson
<1>6. ASSUME NEW o \in UserId, NEW c \in CondoId, NEW u \in UserId,
             RemoveEmployee(o, c, u)
      PROVE  Removals
  BY <1>6 DEF RemoveEmployee, Removals, RemovalOfPerson
<1>7. ASSUME NEW a \in UserId, NEW c \in CondoId, NEW m \in MemberId,
             RemoveMember(a, c, m)
      PROVE  Removals
  BY <1>7 DEF RemoveMember, Removals, RemovalOfMember
<1>8. ASSUME NEW o \in UserId, NEW c \in CondoId, DeleteCondominium(o, c)
      PROVE  Removals
  BY <1>8 DEF DeleteCondominium, Removals, RemovalOfCondo
<1> QED BY <1>1, <1>2, <1>3, <1>4, <1>5, <1>6, <1>7, <1>8 DEF Next

\* A removal only takes rows away.
LEMMA RemovalsOnlyRemove ==
  ASSUME Removals
  PROVE  /\ \A r \in DOMAIN registries' : r \in DOMAIN registries /\ registries'[r] = registries[r]
         /\ \A u \in DOMAIN users' : u \in DOMAIN users /\ users'[u] = users[u]
         /\ \A m \in DOMAIN members' : m \in DOMAIN members /\ members'[m] = members[m]
         /\ \A m \in DOMAIN invites' : m \in DOMAIN invites /\ invites'[m] = invites[m]
<1>1. PICK rids, cids, mids : DeleteRows(rids, cids, mids)
  BY DEF Removals, RemovalOfPerson, RemovalOfMember, RemovalOfCondo, RemoveMemberRow
<1> QED BY <1>1 DEF DeleteRows, Without, Restrict

\* The kinds of steps the properties are proved for.
Steps == Additions \/ (\E m \in MemberId, u \in UserId : Linking(m, u)) \/ Removals

\* The actions inside the four action properties of CondominiumRegistry.
KeepsUsable ==
    \A m \in DOMAIN invites \cap DOMAIN invites' :
        Usable(m) => Usable(m)' \/ HasAccount(members[m].registry)'

\* LinkingConsumesTheInvite:
LinksWithInvite ==
    \A m \in DOMAIN members \cap DOMAIN members' :
        members'[m].user # members[m].user =>
           /\ members[m].user = NoUser
           /\ members'[m].user \notin DOMAIN users
           /\ m \in DOMAIN invites /\ m \notin DOMAIN invites'

\* DeletedAccountLeavesNothing:
DeletesAll ==
    \A u \in DOMAIN users \ DOMAIN users' :
        /\ users[u].registry \notin DOMAIN registries'
        /\ \A m \in DOMAIN members :
              \/ members[m].registry = users[u].registry
              \/ condos[members[m].condo].owner = u
              => m \notin DOMAIN members' \cup infos' \cup DOMAIN invites'
        /\ \A c \in DOMAIN condos : condos[c].owner = u => c \notin DOMAIN condos'

\* RegisteredMembershipLoss:
LosesMembership ==
    \A m \in DOMAIN members \ DOMAIN members' :
        \/ members[m].user = NoUser
        \/ members[m].user \notin DOMAIN users'
        \/ members[m].condo \notin DOMAIN condos'
        \/ /\ UNCHANGED <<registries, users, condos, invites>>
           /\ members' = Without(members, {m})

\* AccountsKeepTheirAddress:
KeepsAddresses ==
    /\ \E u \in UserId :
          DOMAIN users' \in {DOMAIN users, DOMAIN users \cup {u}, DOMAIN users \ {u}}
    /\ \A u \in DOMAIN users \cap DOMAIN users' : AddressOf(u)' = AddressOf(u)
    /\ \A u, v \in DOMAIN users' : AddressOf(u)' = AddressOf(v)' => u = v

\* No key of a row that stays is written, but the account of the membership that
\* is linked.
LEMMA LinkingStep ==
  ASSUME IInv, Steps
  PROVE  LinksWithInvite
<1> SUFFICES ASSUME NEW m \in DOMAIN members \cap DOMAIN members',
                    members'[m].user # members[m].user
             PROVE  /\ members[m].user = NoUser
                    /\ members'[m].user \notin DOMAIN users
                    /\ m \in DOMAIN invites /\ m \notin DOMAIN invites'
  BY DEF LinksWithInvite
<1>1. PICK n \in MemberId, u \in UserId : Linking(n, u)
  BY RemovalsOnlyRemove DEF Steps, Additions
<1>2. m = n /\ members'[m].user = u
  BY <1>1 DEF Linking
<1> QED BY <1>1, <1>2 DEF Linking

\* Rows only go with the removal of a person, of a membership or a condominium.
LEMMA OnlyRemovalsRemove ==
  ASSUME Steps, ~Removals
  PROVE  /\ DOMAIN users \subseteq DOMAIN users'
         /\ DOMAIN members \subseteq DOMAIN members'
  BY DEF Steps, Additions, Linking

\* An account goes only with its registry, and the cascade from there takes all
\* that is named in DeletedAccountLeavesNothing.
LEMMA DeletedAccountStep ==
  ASSUME IInv, Steps
  PROVE  DeletesAll
<1> SUFFICES ASSUME NEW u \in DOMAIN users \ DOMAIN users'
             PROVE  /\ users[u].registry \notin DOMAIN registries'
                    /\ \A m \in DOMAIN members :
                          \/ members[m].registry = users[u].registry
                          \/ condos[members[m].condo].owner = u
                          => m \notin DOMAIN members' \cup infos' \cup DOMAIN invites'
                    /\ \A c \in DOMAIN condos :
                          condos[c].owner = u => c \notin DOMAIN condos'
  BY DEF DeletesAll
<1>1. Removals
  BY OnlyRemovalsRemove
<1>2. ~RemovalOfCondo
  BY DEF RemovalOfCondo, DeleteRows, GoneUsers, Without, Restrict
<1>3. ~RemovalOfMember
  BY DEF RemovalOfMember, RemoveMemberRow, DeleteRows, GoneUsers, HasAccount, Without, Restrict
<1>4. PICK v \in DOMAIN users : DeleteRows({users[v].registry}, {}, {})
  BY <1>1, <1>2, <1>3 DEF Removals, RemovalOfPerson
<1> DEFINE r == users[v].registry
<1>5. users[u].registry = r /\ u \in GoneUsers({r})
  BY <1>4 DEF DeleteRows, GoneUsers, Without, Restrict
<1>6. r \notin DOMAIN registries'
  BY <1>4 DEF DeleteRows, Without, Restrict
<1>7. \A c \in DOMAIN condos : condos[c].owner = u => c \in GoneCondos({r}, {})
  BY <1>5 DEF GoneCondos
<1>8. ASSUME NEW m \in DOMAIN members,
             members[m].registry = r \/ condos[members[m].condo].owner = u
      PROVE  m \in GoneMembers({r}, {}, {})
  BY <1>7, <1>8 DEF GoneMembers, IInv, ReferentialIntegrity
<1>9. \A m \in GoneMembers({r}, {}, {}) :
         m \notin DOMAIN members' \cup infos' \cup DOMAIN invites'
  BY <1>4 DEF DeleteRows, GoneInfos, GoneInvites, Without, Restrict
<1>10. \A c \in GoneCondos({r}, {}) : c \notin DOMAIN condos'
  BY <1>4 DEF DeleteRows, Without, Restrict
<1> QED BY <1>5, <1>6, <1>7, <1>8, <1>9, <1>10

\* Deleting no rows from a table leaves it.
LEMMA WithoutNothing ==
  ASSUME NEW K, NEW R, NEW t, IsTable(t, K, R), NEW S, S \cap DOMAIN t = {}
  PROVE  Without(t, S) = t
<1>1. DOMAIN t \ S = DOMAIN t
  OBVIOUS
<1> QED BY <1>1 DEF IsTable, Without, Restrict

\* A linked membership goes with its account, with its condominium, or alone.
LEMMA MembershipLossStep ==
  ASSUME IInv, Steps
  PROVE  LosesMembership
<1> SUFFICES ASSUME NEW m \in DOMAIN members \ DOMAIN members',
                    members[m].user # NoUser,
                    members[m].user \in DOMAIN users',
                    members[m].condo \in DOMAIN condos'
             PROVE  /\ UNCHANGED <<registries, users, condos, invites>>
                    /\ members' = Without(members, {m})
  BY DEF LosesMembership
<1>1. Removals
  BY OnlyRemovalsRemove
<1>2. /\ members[m].user \in DOMAIN users
      /\ users[members[m].user].registry = members[m].registry
  BY DEF IInv, ReferentialIntegrity, LinkedAccountIsThePerson
<1>3. ASSUME NEW rids, NEW cids, NEW mids, DeleteRows(rids, cids, mids)
      PROVE  members[m].registry \notin rids /\ m \in mids
  <2>1. /\ members[m].user \notin GoneUsers(rids)
        /\ members[m].condo \notin GoneCondos(rids, cids)
        /\ m \in GoneMembers(rids, cids, mids)
    BY <1>3 DEF DeleteRows, Without, Restrict
  <2>2. members[m].registry \notin rids
    BY <1>2, <2>1 DEF GoneUsers
  <2> QED BY <2>1, <2>2 DEF GoneMembers
<1>4. PICK n \in DOMAIN members : RemoveMemberRow(n)
  <2>1. ASSUME NEW u \in DOMAIN users, DeleteRows({users[u].registry}, {}, {})
        PROVE  FALSE
    <3>1. m \in {}
      BY <1>3, <2>1
    <3> QED BY <3>1
  <2>2. ASSUME NEW c \in DOMAIN condos, DeleteRows({}, {c}, {})
        PROVE  FALSE
    <3>1. m \in {}
      BY <1>3, <2>2
    <3> QED BY <3>1
  <2> QED BY <1>1, <2>1, <2>2 DEF Removals, RemovalOfPerson, RemovalOfMember, RemovalOfCondo
<1>5. n = m /\ DeleteRows({}, {}, {m})
  BY <1>2, <1>3, <1>4 DEF RemoveMemberRow, HasAccount
<1>6. /\ GoneUsers({}) = {} /\ GoneCondos({}, {}) = {}
  BY DEF GoneUsers, GoneCondos
<1>7. GoneMembers({}, {}, {m}) = {m}
  BY <1>6 DEF GoneMembers, IInv
<1>8. GoneInvites({}, {}, {m}) = {}
  BY <1>6, <1>7 DEF GoneInvites, IInv, ResidentHasInviteXorAccount
<1>9. /\ registries' = registries /\ users' = users /\ condos' = condos
      /\ invites' = invites
  <2>1. /\ registries' = Without(registries, {}) /\ users' = Without(users, {})
        /\ condos' = Without(condos, {}) /\ invites' = Without(invites, {})
    BY <1>5, <1>6, <1>8 DEF DeleteRows
  <2>2. /\ IsTable(registries, RegistryId, RegistryRow) /\ IsTable(users, UserId, UserRow)
        /\ IsTable(condos, CondoId, CondoRow) /\ IsTable(invites, MemberId, InviteRow)
    BY DEF IInv, TypeOK
  <2> QED BY <2>1, <2>2, WithoutNothing
<1> QED BY <1>5, <1>7, <1>9 DEF DeleteRows

\* Whether an invitation can be used is a matter of its person's registry alone.
UsableByRegistry ==
    \A m \in DOMAIN invites :
        LET r == members[m].registry
        IN  Usable(m) <=> registries[r].cpf = invites[m].cpf /\ ~HasAccount(r)

\* InviteGuard and the handler ask for nothing else.
LEMMA UsableMeans == IInv => UsableByRegistry
<1> SUFFICES ASSUME IInv, NEW m \in DOMAIN invites
             PROVE  LET r == members[m].registry
                    IN  Usable(m) <=> registries[r].cpf = invites[m].cpf /\ ~HasAccount(r)
  BY DEF UsableByRegistry
<1>1. m \in DOMAIN members /\ members[m].registry \in RegistriesOf(invites[m].recipient)
  BY DEF IInv, ReferentialIntegrity, InviteAddressesItsMember, RegistriesOf
<1>2. \A r \in RegistriesOf(invites[m].recipient) : r = members[m].registry
  BY <1>1 DEF IInv, UniqueColumns, RegistriesOf
<1> QED BY <1>1, <1>2 DEF Usable, SignUpRegistries

\* What makes an invitation usable is in rows that nobody writes.
LEMMA UsableStep ==
  ASSUME IInv, IInv', Steps
  PROVE  KeepsUsable
<1> SUFFICES ASSUME NEW m \in DOMAIN invites \cap DOMAIN invites', Usable(m)
             PROVE  Usable(m)' \/ HasAccount(members[m].registry)'
  BY DEF KeepsUsable
<1> DEFINE r == members[m].registry
<1>1. m \in DOMAIN members /\ m \in DOMAIN members' /\ r \in DOMAIN registries
  BY DEF IInv, ReferentialIntegrity
<1>2. members'[m].registry = r /\ r \in DOMAIN registries'
  BY <1>1, RemovalsOnlyRemove DEF Steps, Additions, Linking, IInv, ReferentialIntegrity
<1>3. registries'[r] = registries[r] /\ invites'[m] = invites[m]
  BY <1>1, <1>2, RemovalsOnlyRemove DEF Steps, Additions, Linking
<1>4. registries[r].cpf = invites[m].cpf
  BY UsableMeans DEF UsableByRegistry
<1>5. UsableByRegistry'
  BY UsableMeans, PTL
<1> QED BY <1>2, <1>3, <1>4, <1>5 DEF UsableByRegistry

\* A deletion takes one account at most: only its registry deletes it, and a
\* registry has one.
LEMMA OneAccountGoes ==
  ASSUME IInv, Removals
  PROVE  \E u \in UserId : DOMAIN users' \in {DOMAIN users, DOMAIN users \ {u}}
<1>1. /\ DOMAIN users \subseteq UserId
      /\ \A c \in DOMAIN condos : condos[c].owner \in UserId
      /\ \A m \in DOMAIN members : members[m].condo \in DOMAIN condos
  BY DEF IInv, TypeOK, IsTable, CondoRow, ReferentialIntegrity
<1>2. \A rids, cids, mids : DeleteRows(rids, cids, mids) =>
         DOMAIN users' = DOMAIN users \ GoneUsers(rids)
  BY DEF DeleteRows, GoneUsers, Without, Restrict
<1>3. GoneUsers({}) = {}
  BY DEF GoneUsers
<1>4. CASE RemovalOfPerson
  <2>1. PICK u \in DOMAIN users : DeleteRows({users[u].registry}, {}, {})
    BY <1>4 DEF RemovalOfPerson
  <2>2. GoneUsers({users[u].registry}) = {u}
    BY DEF GoneUsers, IInv, UniqueColumns
  <2> QED BY <1>1, <1>2, <2>1, <2>2
<1>5. CASE RemovalOfMember
  <2>1. PICK m \in DOMAIN members : RemoveMemberRow(m)
    BY <1>5 DEF RemovalOfMember
  <2>2. PICK rids \in {{}, {members[m].registry}} :
          DeleteRows(rids, {}, {m}) /\ (rids # {} => ~HasAccount(members[m].registry))
    BY <2>1 DEF RemoveMemberRow
  <2>3. GoneUsers(rids) = {}
    BY <2>2 DEF GoneUsers, HasAccount
  <2>4. DOMAIN users' = DOMAIN users
    BY <1>2, <2>2, <2>3
  <2> QED BY <1>1, <2>4
<1>6. CASE RemovalOfCondo
  <2>1. PICK c \in DOMAIN condos : DeleteRows({}, {c}, {})
    BY <1>6 DEF RemovalOfCondo
  <2>2. DOMAIN users' = DOMAIN users
    BY <1>2, <1>3, <2>1
  <2> QED BY <1>1, <2>2
<1> QED BY <1>4, <1>5, <1>6 DEF Removals

\* A request that inserts rows inserts one account at most, a late sign-up
\* without its invitation included.
LEMMA OneAccountComes ==
  ASSUME IInv, Next \/ AccountWithoutMembership, ~Removals
  PROVE  \E u \in UserId : DOMAIN users' \in {DOMAIN users, DOMAIN users \cup {u}}
<1> DEFINE One == \E u \in UserId : DOMAIN users' \in {DOMAIN users, DOMAIN users \cup {u}}
<1>1. ASSUME NEW u \in UserId, NEW row, users' = With(users, Row(u, row))
      PROVE  One
  BY <1>1 DEF With, Row
<1>2. ASSUME NEW e \in Email, NEW n \in Cnpj, NEW r \in RegistryId,
             NEW u \in UserId, NEW c \in CondoId, CreateCondominium(e, n, r, u, c)
      PROVE  One
  BY <1>1, <1>2 DEF CreateCondominium, InsertCondominium
<1>3. ASSUME NEW o \in UserId, NEW c \in CondoId, NEW b \in Batches, UploadMembers(o, c, b)
      PROVE  One
  BY <1>3 DEF UploadMembers, CreateMembers
<1>4. ASSUME NEW o \in UserId, NEW c \in CondoId, NEW e \in Email, NEW p \in Cpf,
             NEW r \in RegistryId, NEW u \in UserId, NEW m \in MemberId,
             CreateEmployee(o, c, e, p, r, u, m)
      PROVE  One
  BY <1>1, <1>4 DEF CreateEmployee, InsertEmployee
<1>5. ASSUME NEW m \in MemberId, NEW e \in Email, NEW p \in Cpf,
             NEW r \in RegistryId, NEW u \in UserId, SignUp(m, e, p, r, u)
      PROVE  One
  BY <1>1, <1>5 DEF SignUp, TransferToUser
<1>6. CASE AccountWithoutMembership
  BY <1>1, <1>6 DEF AccountWithoutMembership
<1>7. ASSUME Next PROVE One
  <2>1. \A u \in UserId : ~DeleteUser(u)
    BY DEF DeleteUser, Removals, RemovalOfPerson
  <2>2. \A o \in UserId, c \in CondoId, u \in UserId : ~RemoveEmployee(o, c, u)
    BY DEF RemoveEmployee, Removals, RemovalOfPerson
  <2>3. \A a \in UserId, c \in CondoId, m \in MemberId : ~RemoveMember(a, c, m)
    BY DEF RemoveMember, Removals, RemovalOfMember
  <2>4. \A o \in UserId, c \in CondoId : ~DeleteCondominium(o, c)
    BY DEF DeleteCondominium, Removals, RemovalOfCondo
  <2> QED BY <1>2, <1>3, <1>4, <1>5, <1>7, <2>1, <2>2, <2>3, <2>4 DEF Next
<1> QED BY <1>6, <1>7

\* Nothing writes the registry of an account or the address of a registry, and
\* both columns are UNIQUE.
LEMMA AddressesStep ==
  ASSUME IInv, IInv', Steps, Next \/ AccountWithoutMembership
  PROVE  KeepsAddresses
<1>1. \E u \in UserId :
         DOMAIN users' \in {DOMAIN users, DOMAIN users \cup {u}, DOMAIN users \ {u}}
  <2>1. CASE Removals
    BY <2>1, OneAccountGoes
  <2>2. CASE ~Removals
    BY <2>2, OneAccountComes
  <2> QED BY <2>1, <2>2
<1>2. ASSUME NEW u \in DOMAIN users \cap DOMAIN users'
      PROVE  AddressOf(u)' = AddressOf(u)
  <2> DEFINE r == users[u].registry
  <2>1. users'[u] = users[u]
    BY RemovalsOnlyRemove DEF Steps, Additions, Linking
  <2>2. r \in DOMAIN registries /\ r \in DOMAIN registries'
    BY <2>1 DEF IInv, ReferentialIntegrity
  <2>3. registries'[r] = registries[r]
    BY <2>2, RemovalsOnlyRemove DEF Steps, Additions, Linking
  <2> QED BY <2>1, <2>3 DEF AddressOf
<1>3. ASSUME NEW u \in DOMAIN users', NEW v \in DOMAIN users', AddressOf(u)' = AddressOf(v)'
      PROVE  u = v
  BY <1>3 DEF AddressOf, IInv, ReferentialIntegrity, UniqueColumns
<1> QED BY <1>1, <1>2, <1>3 DEF KeepsAddresses

\* Every request is one of the kinds of steps, and ends in the invariant.
LEMMA NextSteps ==
  ASSUME IInv, [Next]_vars
  PROVE  IInv' /\ (Steps \/ UNCHANGED vars)
  BY StepKinds, NextIInv DEF Steps

\* An invitation stays usable until it is consumed or withdrawn, or its addressee
\* has an account, for any number of persons, condominiums and invitations.
THEOREM UsableUntilRegisteredHolds == Spec => UsableUntilRegistered
<1>1. IInv /\ [Next]_vars => [KeepsUsable]_vars
  BY NextSteps, UsableStep
<1> QED BY <1>1, Invariance, PTL DEF Spec, UsableUntilRegistered, KeepsUsable

\* Memberships are linked by the sign-up with their own invitation, once.
THEOREM LinkingConsumesTheInviteHolds == Spec => LinkingConsumesTheInvite
<1>1. IInv /\ [Next]_vars => [LinksWithInvite]_vars
  BY NextSteps, LinkingStep
<1> QED BY <1>1, Invariance, PTL DEF Spec, LinkingConsumesTheInvite, LinksWithInvite

\* Deleting an account reaches everything of the person, through every cascade.
THEOREM DeletedAccountLeavesNothingHolds == Spec => DeletedAccountLeavesNothing
<1>1. IInv /\ [Next]_vars => [DeletesAll]_vars
  BY NextSteps, DeletedAccountStep
<1> QED BY <1>1, Invariance, PTL DEF Spec, DeletedAccountLeavesNothing, DeletesAll

\* Nobody with an account loses a membership by what happens to others.
THEOREM RegisteredMembershipLossHolds == Spec => RegisteredMembershipLoss
<1>1. IInv /\ [Next]_vars => [LosesMembership]_vars
  BY NextSteps, MembershipLossStep
<1> QED BY <1>1, Invariance, PTL DEF Spec, RegisteredMembershipLoss, LosesMembership

-----------------------------------------------------------------------------
(***************************************************************************)
(* What is proved of requests in one step holds of guards and handlers     *)
(* apart, for any number of requests that wait: a handler, however late,   *)
(* takes a step of CondominiumRegistry, or makes an account without a      *)
(* membership.  What is needed of the waiting requests is that an approved *)
(* invitation still says what it said: the addressee of a membership never *)
(* changes, and no row gets a key that a request still names.              *)
(***************************************************************************)

\* An approved invitation is that of its membership, while either exists.
ApprovedInvitesMatch ==
    \A m \in MemberId, e \in Email, p \in Cpf : Invited(m, e, p) \in approvals =>
        /\ m \in DOMAIN members => registries[members[m].registry].email = e
        /\ m \in DOMAIN invites => invites[m].recipient = e /\ invites[m].cpf = p

\* The inductive invariant.
GInv == IInv /\ LinkedOnceOrOwner /\ ApprovedInvitesMatch

\* No row gets the key of an invitation that a sign-up was let through with.
LEMMA NamedIsNotFresh ==
  ASSUME NEW m, NEW e, NEW p, Invited(m, e, p) \in approvals
  PROVE  m \notin FreshKeys(MemberId)
<1> DEFINE a == Invited(m, e, p)
<1>1. "member" \in DOMAIN a \ {"by"} /\ a["member"] = m
  BY DEF Invited
<1>2. a \in approvals /\ m \in {a[f] : f \in DOMAIN a \ {"by"}}
  BY <1>1
<1> HIDE DEF a
<1> QED BY <1>2 DEF FreshKeys

-----------------------------------------------------------------------------
(* A sign-up whose invitation is gone.                                     *)

\* If the invitation is gone but the membership is not, the person has signed
\* up, and has no registry left to sign up with.
LEMMA LateSignUpWithoutInvite ==
  ASSUME GInv, NEW m \in MemberId, NEW e \in Email, NEW p \in Cpf,
         NEW r \in RegistryId, NEW u \in UserId,
         LateSignUp(m, e, p, r, u), m \notin DOMAIN invites
  PROVE  AccountWithoutMembership
<1> USE DEF GInv
<1>1. /\ Invited(m, e, p) \in approvals /\ u \notin DOMAIN users
      /\ r \in SignUpRegistries(e, p)
  BY DEF LateSignUp, Uses, TransferToUser
<1>2. m \notin DOMAIN members
  <2> SUFFICES ASSUME m \in DOMAIN members PROVE FALSE
    OBVIOUS
  <2> DEFINE s == members[m].registry
  <2>1. s \in RegistriesOf(e)
    BY <1>1 DEF ApprovedInvitesMatch, IInv, ReferentialIntegrity, RegistriesOf
  <2>2. HasAccount(s)
    BY DEF HasAccount, IInv, ReferentialIntegrity, ResidentHasInviteXorAccount,
           LinkedAccountIsThePerson
  <2>3. r = s
    BY <1>1, <2>1 DEF SignUpRegistries, IInv, UniqueColumns, RegistriesOf
  <2> QED BY <1>1, <2>2, <2>3 DEF SignUpRegistries
<1>3. members' = members
  BY <1>2 DEF LateSignUp, TransferToUser, MembersAfterSignUp, IInv, TypeOK, IsTable
<1>4. invites' = invites
  <2>1. invites' = Without(invites, {m})
    BY DEF LateSignUp, TransferToUser, InvitesAfterSignUp
  <2> QED BY <2>1, WithoutNothing DEF IInv, TypeOK
<1> QED BY <1>1, <1>3, <1>4 DEF LateSignUp, TransferToUser, AccountWithoutMembership

\* The account nobody has a use for breaks nothing: it is new, and so is its
\* registry, or the registry had no account.
LEMMA AccountWithoutMembershipStep ==
  ASSUME IInv, LinkedOnceOrOwner, AccountWithoutMembership
  PROVE  IInv' /\ LinkedOnceOrOwner' /\ Additions
<1> USE DEF IInv, UniqueRegistry, User
<1>1. PICK u \in UserId \ DOMAIN users, r \in RegistryId, e \in Email, p \in Cpf :
        /\ r \in SignUpRegistries(e, p)
        /\ registries' = With(registries, Row(r, UniqueRegistry(e, p)))
        /\ users' = With(users, Row(u, User(r)))
        /\ UNCHANGED <<condos, members, infos, invites>>
  BY DEF AccountWithoutMembership
<1>2. /\ condos' = condos /\ members' = members
      /\ infos' = infos /\ invites' = invites
  BY <1>1
<1>3. /\ DOMAIN registries' = DOMAIN registries \cup {r}
      /\ \A s \in DOMAIN registries : registries'[s] = registries[s]
      /\ r \notin DOMAIN registries =>
            registries'[r].email = e /\ RegistriesOf(e) = {}
      /\ ~HasAccount(r)
  BY <1>1 DEF SignUpRegistries, RegistriesOf, With, Row
<1>4. /\ DOMAIN users' = DOMAIN users \cup {u}
      /\ \A v \in DOMAIN users : users'[v] = users[v]
      /\ users'[u] = [registry |-> r]
  BY <1>1 DEF With, Row
<1>5. TypeOK'
  <2>1. IsTable(registries', RegistryId, RegistryRow)
    BY <1>1, InsertType, [email |-> e, cpf |-> p] \in RegistryRow DEF TypeOK, RegistryRow
  <2>2. IsTable(users', UserId, UserRow)
    BY <1>1, InsertType, [registry |-> r] \in UserRow DEF TypeOK, UserRow
  <2> QED BY <1>2, <2>1, <2>2 DEF TypeOK
<1>6. ReferentialIntegrity'
  BY <1>2, <1>3, <1>4 DEF ReferentialIntegrity
<1>7. UniqueColumns'
  BY <1>2, <1>3, <1>4 DEF UniqueColumns, HasAccount, RegistriesOf
<1>8. LinkedAccountIsThePerson'
  BY <1>1, <1>2, <1>4 DEF LinkedAccountIsThePerson, ReferentialIntegrity
<1>9. /\ ResidentHasInviteXorAccount' /\ ResidentsHaveInfos'
      /\ InviteAddressesItsMember'
  BY <1>2, <1>3
  DEF ResidentHasInviteXorAccount, ResidentsHaveInfos, InviteAddressesItsMember,
      ReferentialIntegrity
<1>10. LinkedOnceOrOwner'
  BY <1>2 DEF LinkedOnceOrOwner
<1>11. Additions
  BY <1>2, <1>3, <1>4 DEF Additions
<1> QED BY <1>5, <1>6, <1>7, <1>8, <1>9, <1>10, <1>11

-----------------------------------------------------------------------------
(* A handler does what somebody could ask for when it runs.                *)

\* A condominium has an owner, who could ask for whatever a late request of a
\* former owner does; a member's condominium likewise.
LEMMA LateStep ==
  ASSUME GInv, GuardedNext
  PROVE  Next \/ AccountWithoutMembership \/ UNCHANGED vars
<1> USE DEF GInv
<1>1. \A c \in DOMAIN condos : condos[c].owner \in DOMAIN users /\ condos[c].owner \in UserId
  BY DEF IInv, ReferentialIntegrity, TypeOK, IsTable
<1>2. CASE \/ \E o \in UserId, c \in CondoId : SuperAdminJwt(o, c)
           \/ \E a \in UserId, c \in CondoId : AdminJwt(a, c)
           \/ \E u \in UserId : JwtGuard(u)
           \/ \E m \in MemberId, e \in Email, p \in Cpf : InviteGuard(m, e, p)
           \/ \E a \in approvals : Forget(a)
  BY <1>2 DEF SuperAdminJwt, AdminJwt, JwtGuard, InviteGuard, Approve, Forget
<1>3. ASSUME CreateCondominiumUnguarded PROVE Next
  BY <1>3 DEF CreateCondominiumUnguarded, FreshKeys, Next
<1>4. ASSUME NEW c \in CondoId, NEW b \in Batches, LateUploadMembers(c, b) PROVE Next
  <2>1. c \in DOMAIN condos
    BY <1>4 DEF LateUploadMembers, CondominiumExists
  <2>2. UploadMembers(condos[c].owner, c, b)
    BY <1>1, <1>4, <2>1 DEF LateUploadMembers, UploadMembers, IsOwner
  <2> QED BY <1>1, <2>1, <2>2 DEF Next
<1>5. ASSUME NEW c \in CondoId, NEW e \in Email, NEW p \in Cpf, NEW r \in RegistryId,
             NEW u \in FreshKeys(UserId), NEW m \in FreshKeys(MemberId),
             LateCreateEmployee(c, e, p, r, u, m)
      PROVE  Next
  <2>1. c \in DOMAIN condos /\ u \in UserId /\ m \in MemberId
    BY <1>5 DEF LateCreateEmployee, CondominiumExists, FreshKeys
  <2>2. CreateEmployee(condos[c].owner, c, e, p, r, u, m)
    BY <1>1, <1>5, <2>1 DEF LateCreateEmployee, CreateEmployee, IsOwner
  <2> QED BY <1>1, <2>1, <2>2 DEF Next
<1>6. ASSUME NEW c \in CondoId, NEW u \in UserId, LateRemoveEmployee(c, u) PROVE Next
  BY <1>6 DEF LateRemoveEmployee, DeleteUser, Next
<1>7. ASSUME NEW c \in CondoId, LateDeleteCondominium(c) PROVE Next
  <2>1. c \in DOMAIN condos
    BY <1>7 DEF LateDeleteCondominium
  <2>2. DeleteCondominium(condos[c].owner, c)
    BY <1>1, <1>7, <2>1 DEF LateDeleteCondominium, DeleteCondominium, IsOwner
  <2> QED BY <1>1, <2>1, <2>2 DEF Next
<1>8. ASSUME NEW m \in MemberId, LateRemoveMember(m) PROVE Next
  <2> DEFINE c == members[m].condo
  <2>1. m \in DOMAIN members /\ RemoveMemberRow(m)
    BY <1>8 DEF LateRemoveMember
  <2>2. c \in DOMAIN condos /\ c \in CondoId
    BY <2>1 DEF IInv, ReferentialIntegrity, TypeOK, IsTable
  <2>3. RemoveMember(condos[c].owner, c, m)
    BY <1>1, <2>1, <2>2 DEF RemoveMember, IsAdmin, IsOwner
  <2> QED BY <1>1, <2>2, <2>3 DEF Next
<1>9. ASSUME NEW u \in UserId, LateDeleteUser(u) PROVE Next
  BY <1>9 DEF LateDeleteUser, DeleteUser, Next
<1>10. ASSUME NEW m \in MemberId, NEW e \in Email, NEW p \in Cpf, NEW r \in RegistryId,
              NEW u \in FreshKeys(UserId), LateSignUp(m, e, p, r, u)
       PROVE  Next \/ AccountWithoutMembership
  <2>1. u \in UserId
    BY DEF FreshKeys
  <2>2. ASSUME m \in DOMAIN invites PROVE SignUp(m, e, p, r, u)
    BY <1>10, <2>2 DEF LateSignUp, Uses, ApprovedInvitesMatch, MatchesInvite, SignUp
  <2>3. ASSUME m \notin DOMAIN invites PROVE AccountWithoutMembership
    BY <1>10, <2>1, <2>3, LateSignUpWithoutInvite
  <2> QED BY <2>1, <2>2, <2>3 DEF Next
<1> QED BY <1>2, <1>3, <1>4, <1>5, <1>6, <1>7, <1>8, <1>9, <1>10 DEF GuardedNext

\* The keys of memberships and invitations that are made in a step are fresh.
LEMMA NewKeysAreFresh ==
  ASSUME GInv, GuardedNext
  PROVE  /\ DOMAIN members' \ DOMAIN members \subseteq FreshKeys(MemberId)
         /\ DOMAIN invites' \ DOMAIN invites \subseteq FreshKeys(MemberId)
<1> DEFINE Fresh == /\ DOMAIN members' \ DOMAIN members \subseteq FreshKeys(MemberId)
                    /\ DOMAIN invites' \ DOMAIN invites \subseteq FreshKeys(MemberId)
<1>1. ASSUME UNCHANGED <<members, invites>> PROVE Fresh
  BY <1>1
<1>2. ASSUME NEW rids, NEW cids, NEW mids, DeleteRows(rids, cids, mids) PROVE Fresh
  BY <1>2 DEF DeleteRows, Without, Restrict
<1>3. CASE \/ \E o \in UserId, c \in CondoId : SuperAdminJwt(o, c)
           \/ \E a \in UserId, c \in CondoId : AdminJwt(a, c)
           \/ \E u \in UserId : JwtGuard(u)
           \/ \E m \in MemberId, e \in Email, p \in Cpf : InviteGuard(m, e, p)
           \/ \E a \in approvals : Forget(a)
  BY <1>1, <1>3 DEF SuperAdminJwt, AdminJwt, JwtGuard, InviteGuard, Approve, Forget, vars
<1>4. CASE CreateCondominiumUnguarded
  BY <1>1, <1>4 DEF CreateCondominiumUnguarded, CreateCondominium, InsertCondominium
<1>5. ASSUME NEW c \in CondoId, NEW b \in Batches, LateUploadMembers(c, b) PROVE Fresh
  <2>1. PICK fresh : CreateMembers(c, b, fresh)
    BY <1>5 DEF LateUploadMembers
  <2>2. PICK f : members' = With(members, [m \in DOMAIN b |-> f[m]])
    <3>1. PICK found \in [DOMAIN b -> DOMAIN registries \cup DOMAIN fresh] :
            members' = With(members,
               [m \in DOMAIN b |-> CondominiumMember(Community, found[m], c, NoUser)])
      BY <2>1 DEF CreateMembers
    <3> DEFINE g == [m \in DOMAIN b |-> CondominiumMember(Community, found[m], c, NoUser)]
    <3>2. g = [m \in DOMAIN b |-> g[m]]
      OBVIOUS
    <3> HIDE DEF g
    <3>3. members' = With(members, [m \in DOMAIN b |-> g[m]])
      BY <3>1, <3>2 DEF g
    <3> QED BY <3>3
  <2>3. DOMAIN members' = DOMAIN members \cup DOMAIN b
    BY <2>2 DEF With
  <2>4. DOMAIN invites' = DOMAIN invites \cup DOMAIN b
    BY <2>1 DEF CreateMembers, With
  <2> QED BY <1>5, <2>3, <2>4 DEF LateUploadMembers
<1>6. ASSUME NEW c \in CondoId, NEW e \in Email, NEW p \in Cpf, NEW r \in RegistryId,
             NEW u \in FreshKeys(UserId), NEW m \in FreshKeys(MemberId),
             LateCreateEmployee(c, e, p, r, u, m)
      PROVE  Fresh
  BY <1>6 DEF LateCreateEmployee, InsertEmployee, With, Row
<1>7. ASSUME NEW c \in CondoId, NEW u \in UserId, LateRemoveEmployee(c, u) PROVE Fresh
  BY <1>2, <1>7 DEF LateRemoveEmployee
<1>8. ASSUME NEW c \in CondoId, LateDeleteCondominium(c) PROVE Fresh
  BY <1>2, <1>8 DEF LateDeleteCondominium
<1>9. ASSUME NEW m \in MemberId, LateRemoveMember(m) PROVE Fresh
  BY <1>2, <1>9 DEF LateRemoveMember, RemoveMemberRow
<1>10. ASSUME NEW u \in UserId, LateDeleteUser(u) PROVE Fresh
  BY <1>2, <1>10 DEF LateDeleteUser
<1>11. ASSUME NEW m \in MemberId, NEW e \in Email, NEW p \in Cpf, NEW r \in RegistryId,
              NEW u \in FreshKeys(UserId), LateSignUp(m, e, p, r, u)
       PROVE  Fresh
  BY <1>11 DEF LateSignUp, TransferToUser, MembersAfterSignUp, InvitesAfterSignUp,
               Without, Restrict
<1> QED BY <1>3, <1>4, <1>5, <1>6, <1>7, <1>8, <1>9, <1>10, <1>11 DEF GuardedNext

\* An invitation is approved of by InviteGuard alone, which has just read it.
LEMMA OnlyTheGuardApproves ==
  ASSUME GuardedNext, NEW m, NEW e, NEW p,
         Invited(m, e, p) \in approvals' \ approvals
  PROVE  MatchesInvite(m, e, p) /\ UNCHANGED vars
<1>1. ASSUME NEW a, Uses(a) PROVE FALSE
  BY <1>1 DEF Uses
<1>2. ASSUME NEW a, Approve(a) PROVE Invited(m, e, p) = a
  BY <1>2 DEF Approve
<1>3. /\ \A c : Invited(m, e, p) # OwnerOf(c)
      /\ \A u : Invited(m, e, p) # Bearer(u)
      /\ Invited(m, e, p) # AnyAdmin
  <2>1. Invited(m, e, p).by = "InviteGuard"
    BY DEF Invited
  <2>2. \A c : OwnerOf(c).by = "SuperAdminJwt"
    BY DEF OwnerOf
  <2>3. \A u : Bearer(u).by = "JwtGuard"
    BY DEF Bearer
  <2>4. AnyAdmin.by = "AdminJwt"
    BY DEF AnyAdmin
  <2> QED BY <2>1, <2>2, <2>3, <2>4
<1>4. ASSUME NEW n \in MemberId, NEW f \in Email, NEW q \in Cpf, InviteGuard(n, f, q)
      PROVE  MatchesInvite(m, e, p) /\ UNCHANGED vars
  <2>1. Invited(m, e, p) = Invited(n, f, q)
    BY <1>2, <1>4 DEF InviteGuard
  <2>2. m = n /\ e = f /\ p = q
    BY <2>1 DEF Invited
  <2> QED BY <1>4, <2>2 DEF InviteGuard, Approve
<1>5. ASSUME NEW o \in UserId, NEW c \in CondoId, SuperAdminJwt(o, c) PROVE FALSE
  BY <1>2, <1>3, <1>5 DEF SuperAdminJwt
<1>6. ASSUME NEW a \in UserId, NEW c \in CondoId, AdminJwt(a, c) PROVE FALSE
  BY <1>2, <1>3, <1>6 DEF AdminJwt
<1>7. ASSUME NEW u \in UserId, JwtGuard(u) PROVE FALSE
  BY <1>2, <1>3, <1>7 DEF JwtGuard
<1>8. ASSUME approvals' \subseteq approvals PROVE FALSE
  BY <1>8
<1> QED BY <1>1, <1>4, <1>5, <1>6, <1>7, <1>8
        DEF GuardedNext, CreateCondominiumUnguarded, LateUploadMembers,
            LateCreateEmployee, LateRemoveEmployee, LateDeleteCondominium,
            LateRemoveMember, LateDeleteUser, LateSignUp, Forget

\* Rows keep their addressees while they stay, so a waiting invitation still
\* matches; rows that come have other keys.
LEMMA ApprovedInvitesMatchStep ==
  ASSUME GInv, IInv', GuardedNext, Steps \/ UNCHANGED vars
  PROVE  ApprovedInvitesMatch'
<1> SUFFICES ASSUME NEW m \in MemberId, NEW e \in Email, NEW p \in Cpf,
                    Invited(m, e, p) \in approvals'
             PROVE  /\ m \in DOMAIN members' => registries'[members'[m].registry].email = e
                    /\ m \in DOMAIN invites' => invites'[m].recipient = e /\ invites'[m].cpf = p
  BY DEF ApprovedInvitesMatch, Invited
<1>1. CASE Invited(m, e, p) \in approvals
  <2>1. /\ m \in DOMAIN members => registries[members[m].registry].email = e
        /\ m \in DOMAIN invites => invites[m].recipient = e /\ invites[m].cpf = p
    BY <1>1 DEF GInv, ApprovedInvitesMatch
  <2>2. /\ m \in DOMAIN members' => m \in DOMAIN members
        /\ m \in DOMAIN invites' => m \in DOMAIN invites
    BY <1>1, NamedIsNotFresh, NewKeysAreFresh
  <2>3. ASSUME m \in DOMAIN members'
        PROVE  /\ members'[m].registry = members[m].registry
               /\ registries'[members[m].registry] = registries[members[m].registry]
    <3>1. m \in DOMAIN members /\ members[m].registry \in DOMAIN registries
      BY <2>2, <2>3 DEF GInv, IInv, ReferentialIntegrity
    <3>2. members'[m].registry = members[m].registry
      BY <2>3, <3>1, RemovalsOnlyRemove DEF Steps, Additions, Linking, vars
    <3>3. members[m].registry \in DOMAIN registries'
      BY <2>3, <3>2 DEF IInv, ReferentialIntegrity
    <3> QED BY <3>1, <3>2, <3>3, RemovalsOnlyRemove DEF Steps, Additions, Linking, vars
  <2>4. m \in DOMAIN invites' => invites'[m] = invites[m]
    BY <2>2, RemovalsOnlyRemove DEF Steps, Additions, Linking, vars
  <2> QED BY <2>1, <2>2, <2>3, <2>4
<1>2. CASE Invited(m, e, p) \notin approvals
  <2>1. MatchesInvite(m, e, p) /\ UNCHANGED vars
    BY <1>2, OnlyTheGuardApproves
  <2>2. /\ m \in DOMAIN members /\ invites[m].recipient = e /\ invites[m].cpf = p
        /\ registries[members[m].registry].email = e
    BY <2>1 DEF MatchesInvite, GInv, IInv, ReferentialIntegrity, InviteAddressesItsMember
  <2> QED BY <2>1, <2>2 DEF vars
<1> QED BY <1>1, <1>2

-----------------------------------------------------------------------------
(* The theorems.                                                           *)

\* A step with guards and handlers apart ends in the invariant, and is of a
\* kind the properties are proved for.
LEMMA GuardedSteps ==
  ASSUME GInv, [GuardedNext]_guardedVars
  PROVE  /\ GInv'
         /\ Steps \/ UNCHANGED vars
         /\ Next \/ AccountWithoutMembership \/ UNCHANGED vars
<1>1. CASE UNCHANGED guardedVars
  <2>1. [Next]_vars /\ UNCHANGED vars /\ approvals' = approvals
    BY <1>1 DEF guardedVars
  <2>2. IInv' /\ LinkedOnceOrOwner'
    BY <2>1, NextIInv, LinkedOnceOrOwnerStep DEF GInv
  <2>3. ApprovedInvitesMatch'
    BY <2>1 DEF GInv, ApprovedInvitesMatch, vars, Invited
  <2> QED BY <2>1, <2>2, <2>3 DEF GInv
<1>2. CASE GuardedNext
  <2>1. Next \/ AccountWithoutMembership \/ UNCHANGED vars
    BY <1>2, LateStep
  <2>2. IInv' /\ LinkedOnceOrOwner' /\ (Steps \/ UNCHANGED vars)
    <3>1. CASE [Next]_vars
      BY <3>1, NextSteps, LinkedOnceOrOwnerStep DEF GInv
    <3>2. CASE AccountWithoutMembership
      BY <3>2, AccountWithoutMembershipStep DEF GInv, Steps
    <3> QED BY <2>1, <3>1, <3>2
  <2>3. ApprovedInvitesMatch'
    BY <1>2, <2>2, ApprovedInvitesMatchStep
  <2> QED BY <2>1, <2>2, <2>3 DEF GInv
<1> QED BY <1>1, <1>2

\* The invariant of the tables, of the accounts' places and of the waiting
\* invitations holds however long requests wait.
THEOREM GuardedInvariance == GuardedSpec => []GInv
<1>1. GuardedInit => GInv
  <2>1. Init => LinkedOnceOrOwner
    BY DEF Init, LinkedOnceOrOwner, EmptyTable
  <2>2. approvals = {} => ApprovedInvitesMatch
    BY DEF ApprovedInvitesMatch
  <2> QED BY InitIInv, <2>1, <2>2 DEF GuardedInit, GInv
<1>2. GInv /\ [GuardedNext]_guardedVars => GInv'
  BY GuardedSteps
<1> QED BY <1>1, <1>2, PTL DEF GuardedSpec

\* A late handler does what somebody entitled to it could ask for when it runs,
\* or makes an account whose invitation is gone, for any number of waiting
\* requests.
THEOREM LateRequestsActLikePromptOnesHolds == GuardedSpec => LateRequestsActLikePromptOnes
<1>1. GInv /\ [GuardedNext]_guardedVars => [Next \/ AccountWithoutMembership]_vars
  BY GuardedSteps
<1> QED BY <1>1, GuardedInvariance, PTL DEF GuardedSpec, LateRequestsActLikePromptOnes

\* No cascade leaves a dangling row, whatever the requests that waited meanwhile
\* were let through for.
THEOREM GuardedReferentialIntegrity == GuardedSpec => []ReferentialIntegrity
<1>1. GInv => ReferentialIntegrity
  BY DEF GInv, IInv
<1> QED BY GuardedInvariance, <1>1, PTL

\* A membership is linked to an account of its own person, although the guard
\* read the invitation before the handler looked for the person's registry.
THEOREM GuardedLinkedAccounts == GuardedSpec => []LinkedAccountIsThePerson
<1>1. GInv => LinkedAccountIsThePerson
  BY DEF GInv, IInv
<1> QED BY GuardedInvariance, <1>1, PTL

\* A membership has an account or an invitation, although a sign-up may answer
\* after its invitation has gone.
THEOREM GuardedInvitations == GuardedSpec => []ResidentHasInviteXorAccount
<1>1. GInv => ResidentHasInviteXorAccount
  BY DEF GInv, IInv
<1> QED BY GuardedInvariance, <1>1, PTL

\* An invitation is addressed to the person of its membership, although an
\* upload may answer after the person's registry has come, gone or come back.
THEOREM GuardedAddresses == GuardedSpec => []InviteAddressesItsMember
<1>1. GInv => InviteAddressesItsMember
  BY DEF GInv, IInv
<1> QED BY GuardedInvariance, <1>1, PTL

\* Lists, guards and invitations agree between any two of the waiting requests.
THEOREM GuardedLists == GuardedSpec => []ListsAgree
<1>1. GInv => ListsAgree
  BY IInvListsAgree DEF GInv
<1> QED BY GuardedInvariance, <1>1, PTL

\* An account has one place at most, late sign-ups included.
THEOREM GuardedPlaces == GuardedSpec => []OneAccountOnePlace
<1>1. GInv => OneAccountOnePlace
  BY PlacesAreLinks DEF GInv
<1> QED BY GuardedInvariance, <1>1, PTL

\* The sign-up of somebody else, however late, spoils no invitation.
THEOREM GuardedUsable == GuardedSpec => UsableUntilRegistered
<1>1. GInv /\ GInv' /\ [GuardedNext]_guardedVars => [KeepsUsable]_vars
  BY GuardedSteps, UsableStep DEF GInv
<1> QED BY <1>1, GuardedInvariance, PTL DEF GuardedSpec, UsableUntilRegistered, KeepsUsable

\* A late sign-up links its own membership, with the invitation still there, or
\* none.
THEOREM GuardedLinking == GuardedSpec => LinkingConsumesTheInvite
<1>1. GInv /\ [GuardedNext]_guardedVars => [LinksWithInvite]_vars
  BY GuardedSteps, LinkingStep DEF GInv
<1> QED BY <1>1, GuardedInvariance, PTL DEF GuardedSpec, LinkingConsumesTheInvite, LinksWithInvite

\* An account deleted late takes all that is the person's by then.
THEOREM GuardedDeletion == GuardedSpec => DeletedAccountLeavesNothing
<1>1. GInv /\ [GuardedNext]_guardedVars => [DeletesAll]_vars
  BY GuardedSteps, DeletedAccountStep DEF GInv
<1> QED BY <1>1, GuardedInvariance, PTL DEF GuardedSpec, DeletedAccountLeavesNothing, DeletesAll

\* The removal of an employee or a resident that waited takes from others what
\* such a removal may take, and no more.
THEOREM GuardedMembershipLoss == GuardedSpec => RegisteredMembershipLoss
<1>1. GInv /\ [GuardedNext]_guardedVars => [LosesMembership]_vars
  BY GuardedSteps, MembershipLossStep DEF GInv
<1> QED BY <1>1, GuardedInvariance, PTL DEF GuardedSpec, RegisteredMembershipLoss, LosesMembership

\* The registry gives LoginSessions the accounts it takes for granted, however
\* late the requests that make and delete them.
THEOREM GuardedAccounts == GuardedSpec => AccountsKeepTheirAddress
<1>1. GInv /\ [GuardedNext]_guardedVars => [KeepsAddresses]_vars
  <2> SUFFICES ASSUME GInv, [GuardedNext]_guardedVars, ~UNCHANGED vars
               PROVE  KeepsAddresses
    OBVIOUS
  <2>1. IInv' /\ Steps /\ (Next \/ AccountWithoutMembership)
    BY GuardedSteps DEF GInv
  <2> QED BY <2>1, AddressesStep DEF GInv
<1> QED BY <1>1, GuardedInvariance, PTL DEF GuardedSpec, AccountsKeepTheirAddress, KeepsAddresses
=============================================================================
