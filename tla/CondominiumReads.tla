-------------------------- MODULE CondominiumReads --------------------------
(***************************************************************************)
(* What the requests that only read make of the tables of                  *)
(* CondominiumRegistry.  They change nothing, so each is a state function:  *)
(* the set of rows its query selects.  The queries join different tables   *)
(* and go by different columns (the account, the registry, the e-mail, the *)
(* role); the properties say that they agree.                              *)
(***************************************************************************)
EXTENDS CondominiumRegistry

\* userRepo.find, by the id or by the e-mail: INNER JOIN unique_registries.
FindUser(u) ==
    {v \in DOMAIN users : v = u /\ users[v].registry \in DOMAIN registries}

FindUserByEmail(e) == {u \in DOMAIN users : users[u].registry \in RegistriesOf(e)}

FindCondominium(c) == {d \in DOMAIN condos : d = c}

\* inviteRepo.find: every invitation to this address.
FindInvites(e) == {m \in DOMAIN invites : invites[m].recipient = e}

\* condominium_members INNER JOIN community_infos WHERE role = 0.
Residents == {m \in DOMAIN members \cap infos : members[m].role = Community}

\* condominium_members INNER JOIN users INNER JOIN unique_registries
\* WHERE role = 1.
Employees ==
    {m \in DOMAIN members : /\ members[m].role = Employee
                            /\ members[m].user \in DOMAIN users
                            /\ members[m].registry \in DOMAIN registries}

CheckByUserAndCondominiumId(u, c) ==
    {m \in Residents : members[m].user = u /\ members[m].condo = c}

\* GET /condominium/my.
GetCondominiumsByOwnerId(u) == {c \in DOMAIN condos : condos[c].owner = u}

\* GET /user/me/community-member-section.
GetCommunityRelations(u) == {m \in Residents : members[m].user = u}

\* GET /user/me/enterprise-user-section, and an employee for the administrators.
GetEmployeeRelations(u) == {m \in Employees : members[m].user = u}

\* GET .../community-member/all, for the administrators and for the residents.
\* The slip joins users, as the query for the employees does.
GetCommunityGroup_Mut(c) ==
    {m \in Residents : /\ members[m].condo = c
                       /\ members[m].registry \in DOMAIN registries
                       /\ members[m].user \in DOMAIN users}

GetCommunityGroup(c) ==
    {m \in Residents : /\ members[m].condo = c
                       /\ members[m].registry \in DOMAIN registries}

\* GET .../enterprise-user/all.
GetEmployeeGroup(c) == {m \in Employees : members[m].condo = c}

\* GET .../community-member/:memberId.  A member that is not found is an empty
\* answer; a linked account that is not found makes the request fail.
UserData(m) == IF members[m].user = NoUser THEN {} ELSE FindUser(members[m].user)

CommunityMember(m) == {n \in Residents : n = m /\ members[n].registry \in DOMAIN registries}

GetCommunityMemberFails(m) ==
    \E n \in CommunityMember(m) : members[n].user # NoUser /\ UserData(n) = {}

\* CondominiumMemberGuard, for the requests of residents.
PassesMemberGuard(u, c) ==
    /\ FindUser(u) # {} /\ FindCondominium(c) # {}
    /\ CheckByUserAndCondominiumId(u, c) # {}

-----------------------------------------------------------------------------

\* Everyone with a membership appears in exactly the list for the role, under
\* a registry that exists and with an account that can be read; a linked
\* account gets through the guard of its role, and is found again by the
\* e-mail of the membership's registry; whoever is not linked has, among the
\* invitations to that e-mail, exactly one of this condominium.
ListsAgree ==
    \A m \in DOMAIN members :
        LET row == members[m] email == registries[row.registry].email IN
        /\ {c \in DOMAIN condos : m \in GetCommunityGroup(c)} =
              IF row.role = Community THEN {row.condo} ELSE {}
        /\ {c \in DOMAIN condos : m \in GetEmployeeGroup(c)} =
              IF row.role = Employee THEN {row.condo} ELSE {}
        /\ ~GetCommunityMemberFails(m)
        /\ IF row.user = NoUser
           THEN {i \in FindInvites(email) : invites[i].condo = row.condo} = {m}
           ELSE /\ FindUserByEmail(email) = {row.user}
                /\ row.role = Community => PassesMemberGuard(row.user, row.condo)
                /\ row.role = Employee => IsAdmin(row.user, row.condo)

\* The requests about one's own account answer lists (condominiums owned,
\* memberships as a resident, memberships as an employee), but an account has
\* one place at most, in one condominium and in one of the three roles: only
\* the request that makes an account gives it a place.  Removing an employee
\* from a condominium deletes the account, and would take any other place of it
\* along.
Places(u) ==
    {<<"owner", c>> : c \in GetCondominiumsByOwnerId(u)} \cup
    {<<"resident", m>> : m \in GetCommunityRelations(u)} \cup
    {<<"employee", m>> : m \in GetEmployeeRelations(u)}

OneAccountOnePlace == \A u \in DOMAIN users : \A p, q \in Places(u) : p = q
=============================================================================
