--------------------------- MODULE GuardedRequests ---------------------------
(***************************************************************************)
(* The requests of CondominiumRegistry in two steps.  A guard reads the    *)
(* tables and approves of a request; its handler runs later, when other    *)
(* requests have changed the tables, and does not look at the approval     *)
(* again: SuperAdminJwt, AdminJwt, JwtGuard and InviteGuard read outside   *)
(* the transactions.                                                       *)
(***************************************************************************)
EXTENDS CondominiumRegistry

CONSTANT MaxApprovals \* bound: different approvals that wait for their handlers

VARIABLE approvals    \* what guards have approved of and no handler has done

guardedVars == <<vars, approvals>>

OwnerOf(c)  == [by |-> "SuperAdminJwt", condo |-> c]
AnyAdmin    == [by |-> "AdminJwt"]
Bearer(u)   == [by |-> "JwtGuard", user |-> u]
Invited(m, e, cpf) == [by |-> "InviteGuard", member |-> m, email |-> e, cpf |-> cpf]

GuardedInit == Init /\ approvals = {}

-----------------------------------------------------------------------------
(* Guards.                                                                 *)

Approve(a) ==
    /\ Cardinality(approvals \cup {a}) <= MaxApprovals
    /\ approvals' = approvals \cup {a}
    /\ UNCHANGED vars

SuperAdminJwt(o, c) ==
    o \in DOMAIN users /\ c \in DOMAIN condos /\ IsOwner(o, c) /\ Approve(OwnerOf(c))

\* The handler behind it goes by the membership alone.
AdminJwt(a, c) ==
    a \in DOMAIN users /\ c \in DOMAIN condos /\ IsAdmin(a, c) /\ Approve(AnyAdmin)

JwtGuard(u) == u \in DOMAIN users /\ Approve(Bearer(u))

InviteGuard(m, e, cpf) == MatchesInvite(m, e, cpf) /\ Approve(Invited(m, e, cpf))

-----------------------------------------------------------------------------
(* Handlers.                                                               *)

\* The handler of one request with this approval answers; there may be more.
Uses(a) == a \in approvals /\ approvals' \in {approvals, approvals \ {a}}

\* Keys are random: no row gets a key that a request still names.
FreshKeys(Keys) == Keys \ UNION {{a[f] : f \in DOMAIN a \ {"by"}} : a \in approvals}

\* condominium_members.condominium_id references the condominium; the slip
\* trusts the guard.
CondominiumExists_Mut(c) == TRUE

CondominiumExists(c) == c \in DOMAIN condos

\* POST /condominium has no guard.
CreateCondominiumUnguarded ==
    /\ \E e \in Email, n \in Cnpj, r \in RegistryId, u \in FreshKeys(UserId), c \in FreshKeys(CondoId) :
          CreateCondominium(e, n, r, u, c)
    /\ UNCHANGED approvals

LateUploadMembers(c, b) ==
    /\ Uses(OwnerOf(c)) /\ CondominiumExists(c) /\ DOMAIN b \subseteq FreshKeys(MemberId)
    /\ LET strangers == {m \in DOMAIN b : RegistriesOf(b[m].email) = {}} IN
       \E S \in SUBSET (RegistryId \ DOMAIN registries) :
          \E fresh \in Bijection(S, strangers) : CreateMembers(c, b, fresh)

LateCreateEmployee(c, e, p, r, u, m) ==
    /\ Uses(OwnerOf(c)) /\ CondominiumExists(c)
    /\ r \notin DOMAIN registries /\ u \notin DOMAIN users /\ m \notin DOMAIN members
    /\ InsertEmployee(r, UniqueRegistry(e, p), u, User(r), m, CondominiumMember(Employee, r, c, u))

\* The employee is read again, by id, whoever's employee it is by now.
LateRemoveEmployee(c, u) ==
    /\ Uses(OwnerOf(c))
    /\ u \in DOMAIN users /\ DeleteRows({users[u].registry}, {}, {})

LateDeleteCondominium(c) ==
    /\ Uses(OwnerOf(c))
    /\ c \in DOMAIN condos /\ DeleteRows({}, {c}, {})

LateRemoveMember(m) ==
    /\ Uses(AnyAdmin)
    /\ m \in DOMAIN members /\ RemoveMemberRow(m)

LateDeleteUser(u) ==
    /\ Uses(Bearer(u))
    /\ u \in DOMAIN users /\ DeleteRows({users[u].registry}, {}, {})

\* Neither the DELETE of the invitation nor the UPDATE of the membership fails
\* when the row is gone.
LateSignUp(m, e, cpf, r, u) ==
    /\ Uses(Invited(m, e, cpf))
    /\ u \notin DOMAIN users
    /\ TransferToUser(m, e, cpf, r, u)

\* The request is refused, or finds nothing to do.
Forget(a) == a \in approvals /\ approvals' = approvals \ {a} /\ UNCHANGED vars

GuardedNext ==
    \/ \E o \in UserId, c \in CondoId : SuperAdminJwt(o, c)
    \/ \E a \in UserId, c \in CondoId : AdminJwt(a, c)
    \/ \E u \in UserId : JwtGuard(u)
    \/ \E m \in MemberId, e \in Email, p \in Cpf : InviteGuard(m, e, p)
    \/ CreateCondominiumUnguarded
    \/ \E c \in CondoId, b \in Batches : LateUploadMembers(c, b)
    \/ \E c \in CondoId, e \in Email, p \in Cpf, r \in RegistryId,
          u \in FreshKeys(UserId), m \in FreshKeys(MemberId) :
          LateCreateEmployee(c, e, p, r, u, m)
    \/ \E c \in CondoId, u \in UserId : LateRemoveEmployee(c, u)
    \/ \E c \in CondoId : LateDeleteCondominium(c)
    \/ \E m \in MemberId : LateRemoveMember(m)
    \/ \E u \in UserId : LateDeleteUser(u)
    \/ \E m \in MemberId, e \in Email, p \in Cpf, r \in RegistryId, u \in FreshKeys(UserId) :
          LateSignUp(m, e, p, r, u)
    \/ \E a \in approvals : Forget(a)

GuardedSpec == GuardedInit /\ [][GuardedNext]_guardedVars

-----------------------------------------------------------------------------

\* An account, and nothing else but perhaps its registry, comes.
AccountWithoutMembership ==
    \E u \in UserId \ DOMAIN users, r \in RegistryId, e \in Email, cpf \in Cpf :
        /\ r \in SignUpRegistries(e, cpf)
        /\ registries' = With(registries, Row(r, UniqueRegistry(e, cpf)))
        /\ users' = With(users, Row(u, User(r)))
        /\ UNCHANGED <<condos, members, infos, invites>>

\* However long a request waits between its guard and its handler, and whoever
\* has been removed meanwhile, the tables go on as with requests in one step:
\* what it does, somebody entitled to it could ask for at this moment.  The one
\* exception is a sign-up whose invitation is gone: its account is made all the
\* same.
LateRequestsActLikePromptOnes == [][Next \/ AccountWithoutMembership]_vars
=============================================================================
