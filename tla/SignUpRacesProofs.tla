-------------------------- MODULE SignUpRacesProofs --------------------------
(***************************************************************************)
(* The invariants of SignUpRaces for any number of sign-ups, removals and  *)
(* uploads.  The argument is the one of two-phase locking: what a          *)
(* transaction has read and relies on until it commits is locked, and      *)
(* whoever could change it would hold a lock that conflicts.  So the       *)
(* invariant says, request by request, what its uncommitted writes are at  *)
(* each statement and which locks protect them.                            *)
(***************************************************************************)
EXTENDS SignUpRaces, FiniteSetTheorems, TLAPS

\* Request p has a row locked.
Holds(p, row, mode) == [row |-> row, mode |-> mode, by |-> p] \in locks

\* Two requests share a row only to read it.
LocksAreSafe ==
    \A k, l \in locks :
        /\ l.by \in Request
        /\ k.row = l.row /\ k.by # l.by => k.mode # "exclusive" /\ l.mode # "exclusive"

\* No transaction that is still open will insert a membership with key m.
OldMember(m) == m \in Memberships \/ pc[m] = "done"

\* What is committed: one person with one account, the memberships linked to it
\* or invited, and no key of a request that has not ended.
TablesInv ==
    /\ TypeOK
    /\ \A r, s \in registries : r = s
    /\ \A u, v \in DOMAIN accounts : u = v
    /\ InvitationXorAccount
    /\ \A u \in DOMAIN accounts : pc[u] = "done"
    /\ \A r \in registries : r = FirstRegistry \/ pc[r] = "done"
    /\ \A m \in DOMAIN members : OldMember(m)

\* A registry that is not committed is the only one there will be.
InsertsRegistry(p) ==
    work[p].registry # None =>
        /\ work[p].registry = p /\ registry[p] = p
        /\ registries = {}
        /\ Holds(p, EmailEntry, "exclusive")

\* A row that refers to a registry keeps it, committed or the request's own.
RefersTo(p) ==
    /\ registry[p] \in registries \cup {work[p].registry}
    /\ Holds(p, RegistryRow(registry[p]), "shared")

\* The account that p will commit is the first of its registry, and nobody else
\* can insert one.
InsertsAccount(p) ==
    work[p].account # None =>
        /\ work[p].account = registry[p]
        /\ RefersTo(p)
        /\ \A u \in DOMAIN accounts : accounts[u] # registry[p]
        /\ Holds(p, AccountEntry(registry[p]), "exclusive")

\* A membership that p will commit has its registry.
InsertsMember(p) == work[p].member # None => work[p].member = registry[p] /\ RefersTo(p)

\* The writes of a sign-up at each of its statements.
SignUpInv(p) ==
    LET w == work[p]
        deleted == [NoWork EXCEPT !.gone = {InviteRow(target[p])}]
    IN
    /\ pc[p] # "start" => target[p] \in MemberId /\ OldMember(target[p])
    /\ \/ pc[p] \in {"start", "delete invite", "done", "failed"} /\ w = NoWork
       \/ pc[p] \in {"find registry", "insert registry"} /\ w = deleted
       \/ /\ pc[p] = "insert account" /\ registry[p] \in RegistryId
          /\ w = [deleted EXCEPT !.registry = w.registry]
       \/ /\ pc[p] = "link member" /\ registry[p] \in RegistryId
          /\ w = [deleted EXCEPT !.registry = w.registry, !.account = registry[p]]
       \/ /\ pc[p] = "commit" /\ registry[p] \in RegistryId
          /\ w = [deleted EXCEPT !.registry = w.registry, !.account = registry[p],
                                 !.linked = w.linked]
          /\ w.linked \in BOOLEAN /\ (w.linked \/ target[p] \notin DOMAIN members)

\* Those of an upload.
UploadInv(p) ==
    LET w == work[p] IN
    \/ pc[p] \in {"start", "insert registry", "done", "failed"} /\ w = NoWork
    \/ /\ pc[p] = "insert member" /\ registry[p] \in RegistryId
       /\ w = [NoWork EXCEPT !.registry = w.registry]
    \/ /\ pc[p] = "commit" /\ registry[p] \in RegistryId
       /\ w = [NoWork EXCEPT !.registry = w.registry, !.member = registry[p]]

\* Those of a removal: with a registry everything that refers to it goes, and
\* without one the membership and its invitation alone.
RemovalInv(p) ==
    LET w == work[p]
        m == target[p]
    IN
    /\ w = [NoWork EXCEPT !.gone = w.gone]
    /\ pc[p] # "start" => /\ m \in MemberId /\ OldMember(m)
                          /\ registry[p] \in RegistryId
    /\ \/ /\ pc[p] \in {"start", "look for account", "delete registry", "done", "failed"}
          /\ w.gone = {}
       \/ pc[p] = "cascade" /\ w.gone = {RegistryRow(registry[p])}
       \/ pc[p] = "delete member"
       \/ pc[p] = "cascade member" /\ MemberRow(m) \in w.gone
       \/ pc[p] = "commit" /\ MemberRow(m) \in w.gone /\ InviteRow(m) \in w.gone
    /\ \A r \in RegistryId : RegistryRow(r) \in w.gone =>
          /\ r = registry[p] /\ Holds(p, RegistryRow(r), "exclusive")
          /\ pc[p] = "cascade" \/ ChildRows(r) \subseteq w.gone
    /\ \A u \in UserId : AccountRow(u) \in w.gone =>
          /\ pc[u] = "done"
          /\ u \in DOMAIN accounts => RegistryRow(accounts[u]) \in w.gone
    /\ \A n \in MemberId : MemberRow(n) \in w.gone =>
          /\ OldMember(n)
          /\ n \in DOMAIN members => n = m \/ RegistryRow(members[n].registry) \in w.gone
    /\ \A n \in MemberId : InviteRow(n) \in w.gone => MemberRow(n) \in w.gone

\* Each kind of request, and what any kind may insert.
RequestInv(p) ==
    /\ p \in SignUps => SignUpInv(p)
    /\ p \in Uploads => UploadInv(p)
    /\ p \in Removals => RemovalInv(p)
    /\ InsertsRegistry(p) /\ InsertsAccount(p) /\ InsertsMember(p)

\* The inductive invariant.
IInv ==
    /\ DOMAIN pc = Request /\ DOMAIN target = Request
    /\ DOMAIN registry = Request /\ DOMAIN work = Request
    /\ LocksAreSafe
    /\ TablesInv
    /\ \A p \in Request : RequestInv(p)

-----------------------------------------------------------------------------
(* Locks.                                                                  *)

\* Nobody holds anything of a row that another request will write.
LEMMA Conflict ==
  ASSUME LocksAreSafe, NEW p, NEW q, p # q, NEW row, NEW mode,
         Holds(p, row, "exclusive"), Holds(q, row, mode)
  PROVE  FALSE
<1> DEFINE k == [row |-> row, mode |-> "exclusive", by |-> p]
           l == [row |-> row, mode |-> mode, by |-> q]
<1>1. k \in locks /\ l \in locks
  BY DEF Holds
<1>2. k.row = l.row /\ k.by # l.by /\ k.mode = "exclusive"
  OBVIOUS
<1> QED BY <1>1, <1>2 DEF LocksAreSafe

\* What the statements that later steps rely on lock.
LEMMA NeedsAt ==
  ASSUME NEW p
  PROVE  /\ pc[p] = "insert registry" =>
              [row |-> EmailEntry, mode |-> "exclusive"] \in Needs(p)
         /\ pc[p] = "insert account" =>
              /\ [row |-> RegistryRow(registry[p]), mode |-> "shared"] \in Needs(p)
              /\ [row |-> AccountEntry(registry[p]), mode |-> "exclusive"] \in Needs(p)
         /\ pc[p] = "insert member" =>
              [row |-> RegistryRow(registry[p]), mode |-> "shared"] \in Needs(p)
         /\ pc[p] = "delete registry" /\ registry[p] \in registries =>
              [row |-> RegistryRow(registry[p]), mode |-> "exclusive"] \in Needs(p)
         /\ pc[p] \in {"start", "commit", "done", "failed"} => Needs(p) = {}
<1>1. ASSUME pc[p] = "insert registry" PROVE Needs(p) = Exclusive({EmailEntry})
  BY <1>1 DEF Needs
<1>2. ASSUME pc[p] = "insert account"
      PROVE  Needs(p) = Shared({RegistryRow(registry[p])}) \cup Exclusive({AccountEntry(registry[p])})
  BY <1>2 DEF Needs
<1>3. ASSUME pc[p] = "insert member" PROVE Needs(p) = Shared({RegistryRow(registry[p])})
  BY <1>3 DEF Needs
<1>4. ASSUME pc[p] = "delete registry", registry[p] \in registries
      PROVE  [row |-> RegistryRow(registry[p]), mode |-> "exclusive"] \in Needs(p)
  <2> DEFINE here == registries \cap {registry[p]}
  <2>1. Needs(p) = Exclusive({RegistryRow(registry[p]) : s \in here} \cup {EmailEntry : s \in here})
    BY <1>4 DEF Needs
  <2>2. RegistryRow(registry[p]) \in {RegistryRow(registry[p]) : s \in here}
    BY <1>4
  <2> QED BY <2>1, <2>2 DEF Exclusive
<1>5. ASSUME pc[p] \in {"start", "commit", "done", "failed"} PROVE Needs(p) = {}
  BY <1>5 DEF Needs
<1> QED BY <1>1, <1>2, <1>3, <1>4, <1>5 DEF Shared, Exclusive

\* A statement that is not blocked adds locks that nobody's are in the way of.
LEMMA StatementLocks ==
  ASSUME LocksAreSafe, NEW p \in Request, NEW name, NEW next, Statement(p, name, next)
  PROVE  /\ LocksAreSafe'
         /\ locks \subseteq locks'
         /\ \A n \in Needs(p) : Holds(p, n.row, n.mode)'
         /\ pc[p] = name /\ pc' = [pc EXCEPT ![p] = next]
<1> DEFINE new == {[row |-> n.row, mode |-> n.mode, by |-> p] : n \in Needs(p)}
<1>1. locks' = locks \cup new /\ Blockers(p) = {}
      /\ pc[p] = name /\ pc' = [pc EXCEPT ![p] = next]
  BY DEF Statement
<1>2. \A l \in new : l.by = p /\ \E n \in Needs(p) : l.row = n.row /\ l.mode = n.mode
  OBVIOUS
<1>3. ASSUME NEW k \in locks, k.by # p, NEW l \in new, k.row = l.row
      PROVE  k.mode # "exclusive" /\ l.mode # "exclusive"
  <2>1. k.by \in Request \ {p}
    BY <1>3 DEF LocksAreSafe
  <2>2. PICK n \in Needs(p) : l.row = n.row /\ l.mode = n.mode
    BY <1>2
  <2>3. k.by \notin Blockers(p)
    BY <1>1
  <2> QED BY <1>3, <2>1, <2>2, <2>3 DEF Blockers
<1>4. LocksAreSafe'
  <2> SUFFICES ASSUME NEW k \in locks', NEW l \in locks'
               PROVE  /\ l.by \in Request
                      /\ k.row = l.row /\ k.by # l.by =>
                            k.mode # "exclusive" /\ l.mode # "exclusive"
    BY DEF LocksAreSafe
  <2> HIDE DEF new
  <2>1. CASE k \in locks /\ l \in locks
    BY <2>1 DEF LocksAreSafe
  <2>2. CASE k \in new /\ l \in new
    BY <1>2, <2>2
  <2>3. CASE k \in locks /\ l \in new
    BY <1>2, <1>3, <2>3
  <2>4. CASE k \in new /\ l \in locks
    <3>1. l.by \in Request
      BY <2>4 DEF LocksAreSafe
    <3>2. k.by = p
      BY <1>2, <2>4
    <3> QED BY <1>3, <2>4, <3>1, <3>2
  <2> QED BY <1>1, <2>1, <2>2, <2>3, <2>4
<1>5. \A n \in Needs(p) : Holds(p, n.row, n.mode)'
  BY <1>1 DEF Holds
<1> QED BY <1>1, <1>4, <1>5

\* The end of a transaction releases its locks and no other's.
LEMMA ReleasedLocks ==
  ASSUME LocksAreSafe, NEW p, locks' = {l \in locks : l.by # p}
  PROVE  /\ LocksAreSafe'
         /\ \A q, row, mode : q # p /\ Holds(q, row, mode) => Holds(q, row, mode)'
<1>1. LocksAreSafe'
  BY DEF LocksAreSafe
<1>2. ASSUME NEW q, NEW row, NEW mode, q # p, Holds(q, row, mode)
      PROVE  Holds(q, row, mode)'
  BY <1>2 DEF Holds
<1> QED BY <1>1, <1>2

-----------------------------------------------------------------------------
(* Steps that leave the tables alone.                                      *)

\* Committed data is in order as long as it is not written.
LEMMA TablesStay ==
  ASSUME TablesInv, UNCHANGED tables,
         \A q \in Request : pc[q] = "done" => pc'[q] = "done"
  PROVE  TablesInv'
<1>1. /\ registries' = registries /\ accounts' = accounts
      /\ members' = members /\ invites' = invites
  BY DEF tables
<1>2. /\ registries \subseteq RegistryId /\ DOMAIN accounts \subseteq UserId
      /\ DOMAIN members \subseteq MemberId
  BY DEF TablesInv, TypeOK, IsTable
<1>3. \A u \in DOMAIN accounts : pc'[u] = "done"
  BY <1>2 DEF TablesInv, UserId, Request
<1>4. \A r \in registries : r = FirstRegistry \/ pc'[r] = "done"
  BY <1>2 DEF TablesInv, RegistryId, Request
<1>5. \A m \in DOMAIN members : OldMember(m)'
  BY <1>2 DEF TablesInv, OldMember, MemberId, Request
<1>6. TypeOK' /\ InvitationXorAccount'
  BY <1>1 DEF TablesInv, TypeOK, InvitationXorAccount
<1> QED BY <1>1, <1>3, <1>4, <1>5, <1>6 DEF TablesInv

\* A request does not notice what others do to their own work and locks.
LEMMA RequestStays ==
  ASSUME IInv, NEW q \in Request, RequestInv(q), UNCHANGED tables,
         \A x \in Request : pc[x] = "done" => pc'[x] = "done",
         pc'[q] = pc[q], target'[q] = target[q], registry'[q] = registry[q],
         work'[q] = work[q],
         \A row, mode : Holds(q, row, mode) => Holds(q, row, mode)'
  PROVE  RequestInv(q)'
<1>1. /\ registries' = registries /\ accounts' = accounts
      /\ members' = members /\ invites' = invites
  BY DEF tables
<1>2. \A m \in MemberId : OldMember(m) => OldMember(m)'
  BY DEF OldMember, MemberId, Request
<1>3. InsertsRegistry(q)'
  BY <1>1 DEF RequestInv, InsertsRegistry
<1>4. InsertsAccount(q)' /\ InsertsMember(q)'
  BY <1>1 DEF RequestInv, InsertsAccount, InsertsMember, RefersTo
<1>5. ASSUME q \in SignUps PROVE SignUpInv(q)'
  BY <1>1, <1>2, <1>5 DEF RequestInv, SignUpInv
<1>6. ASSUME q \in Uploads PROVE UploadInv(q)'
  BY <1>6 DEF RequestInv, UploadInv
<1>7. ASSUME q \in Removals PROVE RemovalInv(q)'
  <2>1. RemovalInv(q)
    BY <1>7 DEF RequestInv
  <2>2. \A r : ChildRows(r)' = ChildRows(r)
    BY <1>1 DEF ChildRows
  <2>3. \A u \in UserId : pc[u] = "done" => pc'[u] = "done"
    BY DEF UserId, Request
  <2> QED BY <1>1, <1>2, <2>1, <2>2, <2>3 DEF RemovalInv
<1> QED BY <1>3, <1>4, <1>5, <1>6, <1>7 DEF RequestInv

\* Only p's own variables change.
OnlyMoves(p) ==
    /\ DOMAIN pc' = Request /\ DOMAIN target' = Request
    /\ DOMAIN registry' = Request /\ DOMAIN work' = Request
    /\ UNCHANGED tables
    /\ \A q \in Request \ {p} :
          /\ pc'[q] = pc[q] /\ target'[q] = target[q]
          /\ registry'[q] = registry[q] /\ work'[q] = work[q]
          /\ \A row, mode : Holds(q, row, mode) => Holds(q, row, mode)'

\* Such a step is about p's part of the invariant only.
LEMMA OwnStep ==
  ASSUME IInv, NEW p \in Request, pc[p] # "done", OnlyMoves(p),
         LocksAreSafe', RequestInv(p)'
  PROVE  IInv'
<1>1. \A x \in Request : pc[x] = "done" => pc'[x] = "done"
  BY DEF OnlyMoves
<1>2. TablesInv'
  BY <1>1, TablesStay DEF IInv, OnlyMoves
<1>3. ASSUME NEW q \in Request, q # p PROVE RequestInv(q)'
  <2>1. RequestInv(q)
    BY DEF IInv
  <2>2. UNCHANGED tables
    BY DEF OnlyMoves
  <2>3. /\ pc'[q] = pc[q] /\ target'[q] = target[q]
        /\ registry'[q] = registry[q] /\ work'[q] = work[q]
        /\ \A row, mode : Holds(q, row, mode) => Holds(q, row, mode)'
    BY <1>3 DEF OnlyMoves
  <2> QED BY <1>1, <2>1, <2>2, <2>3, RequestStays
<1>4. \A q \in Request : RequestInv(q)'
  BY <1>3
<1> QED BY <1>2, <1>4 DEF IInv, OnlyMoves

\* A statement that takes its locks moves only its own request.
LEMMA StatementMoves ==
  ASSUME IInv, NEW p \in Request, NEW name, NEW next, Statement(p, name, next),
         UNCHANGED tables, DOMAIN target' = Request, DOMAIN registry' = Request,
         DOMAIN work' = Request,
         \A q \in Request \ {p} :
            /\ target'[q] = target[q] /\ registry'[q] = registry[q] /\ work'[q] = work[q]
  PROVE  /\ OnlyMoves(p) /\ LocksAreSafe'
         /\ pc[p] = name /\ pc'[p] = next
         /\ \A n \in Needs(p) : Holds(p, n.row, n.mode)'
         /\ \A row, mode : Holds(p, row, mode) => Holds(p, row, mode)'
<1>1. /\ LocksAreSafe' /\ locks \subseteq locks'
      /\ \A n \in Needs(p) : Holds(p, n.row, n.mode)'
      /\ pc[p] = name /\ pc' = [pc EXCEPT ![p] = next]
  BY StatementLocks DEF IInv
<1>2. \A q, row, mode : Holds(q, row, mode) => Holds(q, row, mode)'
  BY <1>1 DEF Holds
<1>3. /\ DOMAIN pc' = Request /\ pc'[p] = next
      /\ \A q \in Request \ {p} : pc'[q] = pc[q]
  BY <1>1 DEF IInv
<1> QED BY <1>1, <1>2, <1>3 DEF OnlyMoves

\* A request that has written nothing.
LEMMA EmptyWork ==
  /\ NoWork.gone = {} /\ NoWork.registry = None /\ NoWork.account = None
  /\ NoWork.member = None /\ NoWork.linked = FALSE
  /\ NoWork = [NoWork EXCEPT !.gone = NoWork.gone]
  BY DEF NoWork

\* A request that has ended, and so has nothing to commit.
LEMMA EndedRequest ==
  ASSUME IInv, NEW p \in Request, pc[p] # "start", pc'[p] \in {"done", "failed"},
         work'[p] = NoWork, target'[p] = target[p], registry'[p] = registry[p],
         \A m \in MemberId : OldMember(m) => OldMember(m)'
  PROVE  RequestInv(p)'
<1>1. /\ work'[p].registry = None /\ work'[p].account = None
      /\ work'[p].member = None /\ work'[p].gone = {}
      /\ work'[p] = [NoWork EXCEPT !.gone = work'[p].gone]
  BY EmptyWork
<1>2. RequestInv(p)
  BY DEF IInv
<1>3. InsertsRegistry(p)' /\ InsertsAccount(p)' /\ InsertsMember(p)'
  BY <1>1 DEF InsertsRegistry, InsertsAccount, InsertsMember
<1>4. ASSUME p \in SignUps PROVE SignUpInv(p)'
  BY <1>2, <1>4 DEF RequestInv, SignUpInv
<1>5. ASSUME p \in Uploads PROVE UploadInv(p)'
  BY DEF UploadInv
<1>6. ASSUME p \in Removals PROVE RemovalInv(p)'
  BY <1>1, <1>2, <1>6 DEF RequestInv, RemovalInv
<1> QED BY <1>3, <1>4, <1>5, <1>6 DEF RequestInv

\* Rolling back a request that has begun keeps the invariant.
LEMMA FailStep ==
  ASSUME IInv, NEW p \in Request, Fail(p), pc[p] \notin {"start", "done"}
  PROVE  IInv'
<1>1. /\ LocksAreSafe'
      /\ \A q, row, mode : q # p /\ Holds(q, row, mode) => Holds(q, row, mode)'
  BY ReleasedLocks DEF IInv, Fail
<1>2. OnlyMoves(p) /\ pc'[p] = "failed" /\ work'[p] = NoWork
  BY <1>1 DEF Fail, IInv, OnlyMoves
<1>3. target'[p] = target[p] /\ registry'[p] = registry[p]
  BY DEF Fail
<1>4. \A m \in MemberId : OldMember(m) => OldMember(m)'
  BY <1>2 DEF OldMember, MemberId, Request, OnlyMoves
<1>5. RequestInv(p)'
  BY <1>2, <1>3, <1>4, EndedRequest
<1> QED BY <1>1, <1>2, <1>5, OwnStep

\* Nothing has begun, or nothing has committed.
LEMMA InitIInv == Init => IInv
<1> SUFFICES ASSUME Init PROVE IInv
  OBVIOUS
<1>1. /\ registries = {FirstRegistry} /\ accounts = EmptyTable
      /\ members = [m \in Memberships |-> [registry |-> FirstRegistry, user |-> None]]
      /\ invites = Memberships /\ locks = {}
  BY DEF Init
<1>2. LocksAreSafe
  BY <1>1 DEF LocksAreSafe
<1>3. TablesInv
  BY <1>1 DEF TablesInv, TypeOK, InvitationXorAccount, OldMember, IsTable, EmptyTable,
              RegistryId, MemberId
<1>4. ASSUME NEW p \in Request PROVE RequestInv(p)
  <2>1. /\ pc[p] = "start" /\ work[p] = NoWork
    BY DEF Init
  <2>2. /\ NoWork.registry = None /\ NoWork.account = None /\ NoWork.member = None
        /\ NoWork.gone = {} /\ NoWork = [NoWork EXCEPT !.gone = NoWork.gone]
    BY EmptyWork
  <2>3. InsertsRegistry(p) /\ InsertsAccount(p) /\ InsertsMember(p)
    BY <2>1, <2>2 DEF InsertsRegistry, InsertsAccount, InsertsMember
  <2>4. SignUpInv(p) /\ UploadInv(p) /\ RemovalInv(p)
    BY <2>1, <2>2 DEF SignUpInv, UploadInv, RemovalInv
  <2> QED BY <2>3, <2>4 DEF RequestInv
<1> QED BY <1>2, <1>3, <1>4 DEF IInv, Init

\* No key becomes new again.
LEMMA OldMembersStay ==
  ASSUME NEW p \in Request, pc[p] # "done", OnlyMoves(p)
  PROVE  \A m \in MemberId : OldMember(m) => OldMember(m)'
  BY DEF OldMember, MemberId, Request, OnlyMoves

\* What a request inserts stays protected while its work and the tables stay.
LEMMA InsertsStay ==
  ASSUME IInv, NEW p \in Request, OnlyMoves(p), registry'[p] = registry[p],
         \A row, mode : Holds(p, row, mode) => Holds(p, row, mode)',
         work'[p].registry = work[p].registry, work'[p].account = work[p].account,
         work'[p].member = work[p].member
  PROVE  InsertsRegistry(p)' /\ InsertsAccount(p)' /\ InsertsMember(p)'
<1>1. /\ registries' = registries /\ accounts' = accounts
  BY DEF OnlyMoves, tables
<1>2. InsertsRegistry(p) /\ InsertsAccount(p) /\ InsertsMember(p)
  BY DEF IInv, RequestInv
<1>3. InsertsRegistry(p)'
  BY <1>1, <1>2 DEF InsertsRegistry
<1> QED BY <1>1, <1>2, <1>3 DEF InsertsAccount, InsertsMember, RefersTo

\* The inserts of a request that has none.
LEMMA NoInserts ==
  ASSUME NEW p, work'[p].registry = None, work'[p].account = None, work'[p].member = None
  PROVE  InsertsRegistry(p)' /\ InsertsAccount(p)' /\ InsertsMember(p)'
  BY DEF InsertsRegistry, InsertsAccount, InsertsMember

-----------------------------------------------------------------------------
(* The statements of a sign-up.                                            *)

\* InviteGuard has seen the invitation of a membership that is there.
LEMMA PassInviteGuardStep ==
  ASSUME IInv, NEW p \in SignUps, PassInviteGuard(p)
  PROVE  IInv'
<1>1. p \in Request /\ p \notin Uploads /\ p \notin Removals
  BY RequestsAreApart DEF Request
<1>2. PICK m \in invites : target' = [target EXCEPT ![p] = m]
  BY DEF PassInviteGuard
<1>3. /\ pc[p] = "start" /\ pc' = [pc EXCEPT ![p] = "delete invite"]
      /\ UNCHANGED <<tables, registry, work, locks>>
  BY DEF PassInviteGuard
<1>4. OnlyMoves(p) /\ LocksAreSafe' /\ pc'[p] = "delete invite" /\ target'[p] = m
      /\ work'[p] = work[p]
  BY <1>1, <1>2, <1>3 DEF OnlyMoves, IInv, Holds, LocksAreSafe
<1>5. m \in MemberId /\ OldMember(m)'
  <2>1. m \in DOMAIN members /\ m \in MemberId
    BY DEF IInv, TablesInv, TypeOK, IsTable
  <2>2. OldMember(m)
    BY <2>1 DEF IInv, TablesInv
  <2> QED BY <1>1, <1>3, <1>4, <2>1, <2>2, OldMembersStay
<1>6. work[p] = NoWork
  BY <1>1, <1>3 DEF IInv, RequestInv, SignUpInv
<1>7. RequestInv(p)'
  <2>1. InsertsRegistry(p)' /\ InsertsAccount(p)' /\ InsertsMember(p)'
    BY <1>4, <1>6, NoInserts, EmptyWork
  <2>2. SignUpInv(p)'
    BY <1>4, <1>5, <1>6 DEF SignUpInv
  <2> QED BY <1>1, <2>1, <2>2 DEF RequestInv
<1> QED BY <1>1, <1>3, <1>4, <1>7, OwnStep

\* The sign-up deletes its invitation, and nothing else so far.
LEMMA DeleteInviteStep ==
  ASSUME IInv, NEW p \in SignUps, DeleteInvite(p)
  PROVE  IInv'
<1>1. p \in Request /\ p \notin Uploads /\ p \notin Removals
  BY RequestsAreApart DEF Request
<1>2. /\ Statement(p, "delete invite", "find registry")
      /\ work' = [work EXCEPT ![p] = Gone(p, {InviteRow(target[p])})]
      /\ UNCHANGED <<tables, target, registry>>
  BY DEF DeleteInvite, Writes
<1>3. /\ OnlyMoves(p) /\ LocksAreSafe'
      /\ pc[p] = "delete invite" /\ pc'[p] = "find registry"
      /\ target'[p] = target[p] /\ work'[p] = Gone(p, {InviteRow(target[p])})
  BY <1>1, <1>2, StatementMoves DEF IInv
<1>4. /\ work[p] = NoWork /\ target[p] \in MemberId /\ OldMember(target[p])
  BY <1>1, <1>3 DEF IInv, RequestInv, SignUpInv
<1>5. work'[p] = [NoWork EXCEPT !.gone = {InviteRow(target[p])}]
  <2>1. NoWork.gone \cup {InviteRow(target[p])} = {InviteRow(target[p])}
    BY EmptyWork
  <2> QED BY <1>3, <1>4, <2>1 DEF Gone
<1>6. RequestInv(p)'
  <2>1. InsertsRegistry(p)' /\ InsertsAccount(p)' /\ InsertsMember(p)'
    BY <1>5, NoInserts DEF NoWork
  <2>2. OldMember(target[p])'
    BY <1>1, <1>3, <1>4, OldMembersStay
  <2>3. SignUpInv(p)'
    BY <1>3, <1>4, <1>5, <2>2 DEF SignUpInv, InviteRow
  <2> QED BY <1>1, <2>1, <2>3 DEF RequestInv
<1> QED BY <1>1, <1>3, <1>6, OwnStep

\* The registry is found, or there is none and there will be an insert.
LEMMA FindRegistryForSignUpStep ==
  ASSUME IInv, NEW p \in SignUps, FindRegistryForSignUp(p)
  PROVE  IInv'
<1> DEFINE next == IF registries = {} THEN "insert registry" ELSE "insert account"
<1>1. p \in Request /\ p \notin Uploads /\ p \notin Removals
  BY RequestsAreApart DEF Request
<1>2. /\ Statement(p, "find registry", next)
      /\ registry' = IF registries = {} THEN registry
                     ELSE [registry EXCEPT ![p] = CHOOSE r \in registries : TRUE]
      /\ UNCHANGED <<tables, target, work>>
  BY DEF FindRegistryForSignUp
<1>3. /\ OnlyMoves(p) /\ LocksAreSafe' /\ pc[p] = "find registry" /\ pc'[p] = next
  <2>1. /\ DOMAIN registry' = Request
        /\ \A q \in Request \ {p} : registry'[q] = registry[q]
    BY <1>1, <1>2 DEF IInv
  <2> HIDE DEF next
  <2> QED BY <1>1, <1>2, <2>1, StatementMoves DEF IInv
<1>4. /\ work[p] = [NoWork EXCEPT !.gone = {InviteRow(target[p])}]
      /\ target[p] \in MemberId /\ OldMember(target[p])
  BY <1>1, <1>3 DEF IInv, RequestInv, SignUpInv
<1>5. work'[p] = work[p] /\ target'[p] = target[p]
  BY <1>2
<1>6. work'[p].registry = None /\ work'[p].account = None /\ work'[p].member = None
  BY <1>4, <1>5 DEF NoWork
<1>7. registries # {} => registry'[p] \in RegistryId
  <2>1. registries \subseteq RegistryId
    BY DEF IInv, TablesInv, TypeOK
  <2>2. registries # {} => (CHOOSE r \in registries : TRUE) \in registries
    OBVIOUS
  <2> QED BY <1>1, <1>2, <2>1, <2>2 DEF IInv
<1>8. RequestInv(p)'
  <2>1. InsertsRegistry(p)' /\ InsertsAccount(p)' /\ InsertsMember(p)'
    BY <1>6, NoInserts
  <2>2. OldMember(target[p])'
    BY <1>1, <1>3, <1>4, <1>5, OldMembersStay
  <2>3. work'[p] = [[NoWork EXCEPT !.gone = {InviteRow(target[p])}]
                      EXCEPT !.registry = work'[p].registry]
    BY <1>4, <1>5, <1>6 DEF NoWork
  <2>4. SignUpInv(p)'
    BY <1>3, <1>4, <1>5, <1>7, <2>2, <2>3 DEF SignUpInv, InviteRow
  <2> QED BY <1>1, <2>1, <2>4 DEF RequestInv
<1> QED BY <1>1, <1>3, <1>8, OwnStep

\* The registry of a request that finds none; a second one fails.
LEMMA InsertRegistryStep ==
  ASSUME IInv, NEW p \in SignUps \cup Uploads, NEW next, InsertRegistry(p, next),
         next = IF p \in SignUps THEN "insert account" ELSE "insert member"
  PROVE  IInv'
<1>1. p \in Request /\ p \notin Removals /\ p \in RegistryId
      /\ (p \in SignUps => p \notin Uploads)
  BY RequestsAreApart DEF Request, RegistryId
<1>2. CASE Fail(p) /\ pc[p] = "insert registry"
  BY <1>1, <1>2, FailStep
<1>3. CASE /\ registries = {}
           /\ Statement(p, "insert registry", next)
           /\ work' = [work EXCEPT ![p] = [work[p] EXCEPT !.registry = p]]
           /\ registry' = [registry EXCEPT ![p] = p]
           /\ UNCHANGED <<tables, target>>
  <2>1. /\ OnlyMoves(p) /\ LocksAreSafe'
        /\ pc[p] = "insert registry" /\ pc'[p] = next
        /\ \A n \in Needs(p) : Holds(p, n.row, n.mode)'
        /\ target'[p] = target[p] /\ registry'[p] = p
        /\ work'[p] = [work[p] EXCEPT !.registry = p]
    BY <1>1, <1>3, StatementMoves DEF IInv
  <2>2. Holds(p, EmailEntry, "exclusive")'
    <3>1. [row |-> EmailEntry, mode |-> "exclusive"] \in Needs(p)
      BY <2>1, NeedsAt
    <3>2. Holds(p, [row |-> EmailEntry, mode |-> "exclusive"].row,
                   [row |-> EmailEntry, mode |-> "exclusive"].mode)'
      BY <2>1, <3>1
    <3> QED BY <3>2
  <2>3. registries' = {}
    BY <1>3 DEF tables
  <2>4. ASSUME p \in SignUps
        PROVE  SignUpInv(p)' /\ work'[p].registry = p
               /\ work'[p].account = None /\ work'[p].member = None
    <3>1. /\ work[p] = [NoWork EXCEPT !.gone = {InviteRow(target[p])}]
          /\ target[p] \in MemberId /\ OldMember(target[p])
      BY <1>1, <2>1, <2>4 DEF IInv, RequestInv, SignUpInv
    <3>2. /\ work'[p] = [[NoWork EXCEPT !.gone = {InviteRow(target[p])}] EXCEPT !.registry = p]
          /\ work'[p].registry = p /\ work'[p].account = None /\ work'[p].member = None
      BY <2>1, <3>1 DEF NoWork
    <3>3. OldMember(target[p])'
      BY <1>1, <2>1, <3>1, OldMembersStay
    <3>4. SignUpInv(p)'
      BY <1>1, <2>1, <2>4, <3>1, <3>2, <3>3 DEF SignUpInv, InviteRow
    <3> QED BY <3>2, <3>4
  <2>5. ASSUME p \notin SignUps
        PROVE  UploadInv(p)' /\ work'[p].registry = p
               /\ work'[p].account = None /\ work'[p].member = None
    <3>1. work[p] = NoWork
      BY <1>1, <2>1, <2>5 DEF IInv, RequestInv, UploadInv
    <3>2. work'[p] = [NoWork EXCEPT !.registry = p]
      BY <2>1, <3>1
    <3>3. work'[p].registry = p /\ work'[p].account = None /\ work'[p].member = None
      BY <3>2 DEF NoWork
    <3>4. UploadInv(p)'
      BY <1>1, <2>1, <2>5, <3>2, <3>3 DEF UploadInv
    <3> QED BY <3>3, <3>4
  <2>6. InsertsRegistry(p)' /\ InsertsAccount(p)' /\ InsertsMember(p)'
    BY <2>1, <2>2, <2>3, <2>4, <2>5 DEF InsertsRegistry, InsertsAccount, InsertsMember
  <2>7. RequestInv(p)'
    BY <1>1, <2>4, <2>5, <2>6 DEF RequestInv
  <2> QED BY <1>1, <2>1, <2>7, OwnStep
<1> QED BY <1>2, <1>3 DEF InsertRegistry, Writes

\* An account of the registry that is found, or nothing.
LEMMA InsertAccountStep ==
  ASSUME IInv, NEW p \in SignUps, InsertAccount(p)
  PROVE  IInv'
<1> DEFINE taken == \E u \in DOMAIN accounts : accounts[u] = registry[p]
<1>1. p \in Request /\ p \notin Uploads /\ p \notin Removals
  BY RequestsAreApart DEF Request
<1>2. CASE Fail(p) /\ pc[p] = "insert account"
  BY <1>1, <1>2, FailStep
<1>3. CASE /\ HasRegistry(p) /\ ~taken
           /\ Statement(p, "insert account", "link member")
           /\ work' = [work EXCEPT ![p] = [work[p] EXCEPT !.account = registry[p]]]
           /\ UNCHANGED <<tables, target, registry>>
  <2>1. /\ OnlyMoves(p) /\ LocksAreSafe'
        /\ pc[p] = "insert account" /\ pc'[p] = "link member"
        /\ \A n \in Needs(p) : Holds(p, n.row, n.mode)'
        /\ \A row, mode : Holds(p, row, mode) => Holds(p, row, mode)'
        /\ target'[p] = target[p] /\ registry'[p] = registry[p]
        /\ work'[p] = [work[p] EXCEPT !.account = registry[p]]
    BY <1>1, <1>3, StatementMoves DEF IInv
  <2>2. /\ Holds(p, RegistryRow(registry[p]), "shared")'
        /\ Holds(p, AccountEntry(registry[p]), "exclusive")'
    <3> DEFINE s == [row |-> RegistryRow(registry[p]), mode |-> "shared"]
               e == [row |-> AccountEntry(registry[p]), mode |-> "exclusive"]
    <3>1. s \in Needs(p) /\ e \in Needs(p)
      BY <2>1, NeedsAt
    <3>2. Holds(p, s.row, s.mode)' /\ Holds(p, e.row, e.mode)'
      BY <2>1, <3>1
    <3> QED BY <2>1, <3>2
  <2>3. registries' = registries /\ accounts' = accounts
    BY <1>3 DEF tables
  <2>4. /\ work[p] = [[NoWork EXCEPT !.gone = {InviteRow(target[p])}]
                        EXCEPT !.registry = work[p].registry]
        /\ target[p] \in MemberId /\ OldMember(target[p]) /\ registry[p] \in RegistryId
    BY <1>1, <2>1 DEF IInv, RequestInv, SignUpInv
  <2>5. /\ work'[p] = [[NoWork EXCEPT !.gone = {InviteRow(target[p])}]
                         EXCEPT !.registry = work[p].registry, !.account = registry[p]]
        /\ work'[p].registry = work[p].registry /\ work'[p].account = registry[p]
        /\ work'[p].member = None
    BY <2>1, <2>4 DEF NoWork
  <2>6. OldMember(target[p])'
    BY <1>1, <2>1, <2>4, OldMembersStay
  <2>7. SignUpInv(p)'
    BY <2>1, <2>4, <2>5, <2>6 DEF SignUpInv, InviteRow
  <2>8. InsertsRegistry(p)'
    <3>1. InsertsRegistry(p)
      BY <1>1 DEF IInv, RequestInv
    <3> QED BY <2>1, <2>3, <2>5, <3>1 DEF InsertsRegistry
  <2>9. InsertsAccount(p)' /\ InsertsMember(p)'
    BY <1>3, <2>1, <2>2, <2>3, <2>5 DEF InsertsAccount, InsertsMember, RefersTo, HasRegistry
  <2>10. RequestInv(p)'
    BY <1>1, <2>7, <2>8, <2>9 DEF RequestInv
  <2> QED BY <1>1, <2>1, <2>10, OwnStep
<1> QED BY <1>2, <1>3 DEF InsertAccount, Writes

\* The membership is linked if it is still there.
LEMMA LinkMemberStep ==
  ASSUME IInv, NEW p \in SignUps, LinkMember(p)
  PROVE  IInv'
<1> DEFINE found == target[p] \in DOMAIN members
<1>1. p \in Request /\ p \notin Uploads /\ p \notin Removals
  BY RequestsAreApart DEF Request
<1>2. /\ Statement(p, "link member", "commit")
      /\ work' = [work EXCEPT ![p] = [work[p] EXCEPT !.linked = found]]
      /\ UNCHANGED <<tables, target, registry>>
  BY DEF LinkMember, Writes
<1> HIDE DEF found
<1>3. /\ OnlyMoves(p) /\ LocksAreSafe'
      /\ pc[p] = "link member" /\ pc'[p] = "commit"
      /\ \A row, mode : Holds(p, row, mode) => Holds(p, row, mode)'
      /\ target'[p] = target[p] /\ registry'[p] = registry[p]
      /\ work'[p] = [work[p] EXCEPT !.linked = found]
  BY <1>1, <1>2, StatementMoves DEF IInv
<1>4. /\ work[p] = [[NoWork EXCEPT !.gone = {InviteRow(target[p])}]
                      EXCEPT !.registry = work[p].registry, !.account = registry[p]]
      /\ target[p] \in MemberId /\ OldMember(target[p]) /\ registry[p] \in RegistryId
  BY <1>1, <1>3 DEF IInv, RequestInv, SignUpInv
<1>5. /\ work'[p] = [[NoWork EXCEPT !.gone = {InviteRow(target[p])}]
                       EXCEPT !.registry = work[p].registry, !.account = registry[p],
                              !.linked = found]
      /\ work'[p].registry = work[p].registry /\ work'[p].account = work[p].account
      /\ work'[p].member = work[p].member /\ work'[p].linked = found
  BY <1>3, <1>4 DEF NoWork
<1>6. OldMember(target[p])'
  BY <1>1, <1>3, <1>4, OldMembersStay
<1>7. found \in BOOLEAN /\ (found \/ target'[p] \notin DOMAIN members')
  <2>1. found \in BOOLEAN
    BY DEF found
  <2>2. target' = target /\ members' = members
    BY <1>2 DEF tables
  <2>3. found \/ target'[p] \notin DOMAIN members'
    BY <2>2 DEF found
  <2> QED BY <2>1, <2>3
<1>8. SignUpInv(p)'
  BY <1>3, <1>4, <1>5, <1>6, <1>7 DEF SignUpInv, InviteRow
<1>9. RequestInv(p)'
  BY <1>1, <1>3, <1>5, <1>8, InsertsStay DEF RequestInv
<1> QED BY <1>1, <1>3, <1>9, OwnStep

-----------------------------------------------------------------------------
(* The statements of an upload.                                            *)

\* The upload goes on with the registry it sees, or with none.
LEMMA FindRegistryForUploadStep ==
  ASSUME IInv, NEW p \in Uploads, FindRegistryForUpload(p)
  PROVE  IInv'
<1>1. p \in Request /\ p \notin SignUps /\ p \notin Removals
  BY RequestsAreApart DEF Request
<1>2. /\ pc[p] = "start" /\ locks' = locks /\ work' = work /\ UNCHANGED tables
      /\ target' = [target EXCEPT ![p] = p]
      /\ \/ pc' = [pc EXCEPT ![p] = "insert registry"] /\ registry' = registry
         \/ \E r \in registries : /\ pc' = [pc EXCEPT ![p] = "insert member"]
                                  /\ registry' = [registry EXCEPT ![p] = r]
  BY DEF FindRegistryForUpload
<1>3. OnlyMoves(p) /\ LocksAreSafe' /\ work'[p] = work[p]
      /\ \/ pc'[p] = "insert registry"
         \/ pc'[p] = "insert member" /\ registry'[p] \in registries
  BY <1>1, <1>2 DEF OnlyMoves, IInv, Holds, LocksAreSafe
<1>4. work[p] = NoWork /\ registries \subseteq RegistryId
  BY <1>1, <1>2 DEF IInv, RequestInv, UploadInv, TablesInv, TypeOK
<1>5. work'[p] = [NoWork EXCEPT !.registry = work'[p].registry]
  BY <1>3, <1>4 DEF NoWork
<1>6. UploadInv(p)'
  BY <1>3, <1>4, <1>5 DEF UploadInv
<1>7. InsertsRegistry(p)' /\ InsertsAccount(p)' /\ InsertsMember(p)'
  BY <1>3, <1>4, NoInserts, EmptyWork
<1>8. RequestInv(p)'
  BY <1>1, <1>6, <1>7 DEF RequestInv
<1> QED BY <1>1, <1>2, <1>3, <1>8, OwnStep

\* The membership refers to a registry that is there, or the upload fails.
LEMMA InsertMemberStep ==
  ASSUME IInv, NEW p \in Uploads, InsertMember(p)
  PROVE  IInv'
<1>1. p \in Request /\ p \notin SignUps /\ p \notin Removals
  BY RequestsAreApart DEF Request
<1>2. CASE Fail(p) /\ pc[p] = "insert member"
  BY <1>1, <1>2, FailStep
<1>3. CASE /\ HasRegistry(p)
           /\ Statement(p, "insert member", "commit")
           /\ work' = [work EXCEPT ![p] = [work[p] EXCEPT !.member = registry[p]]]
           /\ UNCHANGED <<tables, target, registry>>
  <2>1. /\ OnlyMoves(p) /\ LocksAreSafe'
        /\ pc[p] = "insert member" /\ pc'[p] = "commit"
        /\ \A n \in Needs(p) : Holds(p, n.row, n.mode)'
        /\ \A row, mode : Holds(p, row, mode) => Holds(p, row, mode)'
        /\ registry'[p] = registry[p]
        /\ work'[p] = [work[p] EXCEPT !.member = registry[p]]
    BY <1>1, <1>3, StatementMoves DEF IInv
  <2>2. Holds(p, RegistryRow(registry[p]), "shared")'
    <3> DEFINE s == [row |-> RegistryRow(registry[p]), mode |-> "shared"]
    <3>1. s \in Needs(p)
      BY <2>1, NeedsAt
    <3>2. Holds(p, s.row, s.mode)'
      BY <2>1, <3>1
    <3> QED BY <2>1, <3>2
  <2>3. registries' = registries
    BY <1>3 DEF tables
  <2>4. /\ work[p] = [NoWork EXCEPT !.registry = work[p].registry]
        /\ registry[p] \in RegistryId
    BY <1>1, <2>1 DEF IInv, RequestInv, UploadInv
  <2>5. /\ work'[p] = [NoWork EXCEPT !.registry = work[p].registry, !.member = registry[p]]
        /\ work'[p].registry = work[p].registry /\ work'[p].account = None
        /\ work'[p].member = registry[p]
    BY <2>1, <2>4 DEF NoWork
  <2>6. UploadInv(p)'
    BY <2>1, <2>4, <2>5 DEF UploadInv
  <2>7. InsertsRegistry(p)'
    <3>1. InsertsRegistry(p)
      BY <1>1 DEF IInv, RequestInv
    <3> QED BY <2>1, <2>3, <2>5, <3>1 DEF InsertsRegistry
  <2>8. InsertsAccount(p)' /\ InsertsMember(p)'
    BY <1>3, <2>1, <2>2, <2>3, <2>5 DEF InsertsAccount, InsertsMember, RefersTo, HasRegistry
  <2>9. RequestInv(p)'
    BY <1>1, <2>6, <2>7, <2>8 DEF RequestInv
  <2> QED BY <1>1, <2>1, <2>9, OwnStep
<1> QED BY <1>2, <1>3 DEF InsertMember, Writes

-----------------------------------------------------------------------------
(* The statements of a removal.                                            *)

\* Rows of different tables, and of different keys, are different rows.
LEMMA RowsDiffer ==
  /\ \A a, b : /\ RegistryRow(a) # AccountRow(b) /\ RegistryRow(a) # MemberRow(b)
               /\ RegistryRow(a) # InviteRow(b) /\ AccountRow(a) # MemberRow(b)
               /\ AccountRow(a) # InviteRow(b) /\ MemberRow(a) # InviteRow(b)
  /\ \A a, b : RegistryRow(a) = RegistryRow(b) => a = b
  /\ \A a, b : AccountRow(a) = AccountRow(b) => a = b
  /\ \A a, b : MemberRow(a) = MemberRow(b) => a = b
  /\ \A a, b : InviteRow(a) = InviteRow(b) => a = b
  BY DEF RegistryRow, AccountRow, MemberRow, InviteRow

\* What refers to a registry.
LEMMA ChildRowsAre ==
  ASSUME TypeOK, NEW r
  PROVE  /\ \A s : RegistryRow(s) \notin ChildRows(r)
         /\ \A u : AccountRow(u) \in ChildRows(r) <=> u \in DOMAIN accounts /\ accounts[u] = r
         /\ \A m : MemberRow(m) \in ChildRows(r) <=> m \in DOMAIN members /\ members[m].registry = r
         /\ \A m : InviteRow(m) \in ChildRows(r) <=> m \in invites /\ members[m].registry = r
  BY RowsDiffer DEF ChildRows

\* A removal has inserted nothing, and its writes are the rows that go.
LEMMA RemovalWork ==
  ASSUME IInv, NEW p \in Removals
  PROVE  /\ p \in Request /\ p \notin SignUps /\ p \notin Uploads
         /\ RemovalInv(p)
         /\ work[p] = [NoWork EXCEPT !.gone = work[p].gone]
         /\ work[p].registry = None /\ work[p].account = None /\ work[p].member = None
<1>1. p \in Request /\ p \notin SignUps /\ p \notin Uploads
  BY RequestsAreApart DEF Request
<1>2. RemovalInv(p) /\ work[p] = [NoWork EXCEPT !.gone = work[p].gone]
  BY <1>1 DEF IInv, RequestInv, RemovalInv
<1>3. work[p].registry = None /\ work[p].account = None /\ work[p].member = None
  BY <1>2 DEF NoWork
<1> QED BY <1>1, <1>2, <1>3

\* Rows that go are added to those that went already.
LEMMA GoneRows ==
  ASSUME IInv, NEW p \in Removals, NEW rows, work'[p] = Gone(p, rows)
  PROVE  /\ work'[p].gone = work[p].gone \cup rows
         /\ work'[p] = [NoWork EXCEPT !.gone = work'[p].gone]
         /\ InsertsRegistry(p)' /\ InsertsAccount(p)' /\ InsertsMember(p)'
<1>1. work'[p] = [[NoWork EXCEPT !.gone = work[p].gone] EXCEPT !.gone = work[p].gone \cup rows]
  BY RemovalWork DEF Gone
<1>2. /\ work'[p].gone = work[p].gone \cup rows
      /\ work'[p].registry = None /\ work'[p].account = None /\ work'[p].member = None
  BY <1>1 DEF NoWork
<1>3. work'[p] = [NoWork EXCEPT !.gone = work'[p].gone]
  BY <1>1, <1>2 DEF NoWork
<1> QED BY <1>2, <1>3, NoInserts

\* The membership that a removal is about is there when it begins.
LEMMA ReadMemberStep ==
  ASSUME IInv, NEW p \in Removals, ReadMember(p)
  PROVE  IInv'
<1>1. p \in Request /\ p \notin SignUps /\ p \notin Uploads
  BY RemovalWork
<1>2. PICK m \in DOMAIN members : /\ target' = [target EXCEPT ![p] = m]
                                  /\ registry' = [registry EXCEPT ![p] = members[m].registry]
  BY DEF ReadMember
<1>3. /\ pc[p] = "start" /\ pc' = [pc EXCEPT ![p] = "look for account"]
      /\ UNCHANGED <<tables, work, locks>>
  BY DEF ReadMember
<1>4. /\ OnlyMoves(p) /\ LocksAreSafe' /\ pc'[p] = "look for account" /\ target'[p] = m
      /\ registry'[p] = members[m].registry /\ work'[p] = work[p]
  BY <1>1, <1>2, <1>3 DEF OnlyMoves, IInv, Holds, LocksAreSafe
<1>5. m \in MemberId /\ OldMember(m)' /\ members[m].registry \in RegistryId
  <2>1. m \in MemberId /\ members[m].registry \in RegistryId
    BY DEF IInv, TablesInv, TypeOK, IsTable
  <2>2. OldMember(m)
    BY DEF IInv, TablesInv
  <2> QED BY <1>1, <1>3, <1>4, <2>1, <2>2, OldMembersStay
<1>6. /\ work'[p].gone = {} /\ work'[p] = [NoWork EXCEPT !.gone = work'[p].gone]
      /\ work'[p].registry = None /\ work'[p].account = None /\ work'[p].member = None
  <2>1. work[p].gone = {}
    BY <1>3, RemovalWork DEF RemovalInv
  <2> QED BY <1>4, <2>1, RemovalWork
<1>7. RemovalInv(p)'
  BY <1>4, <1>5, <1>6 DEF RemovalInv
<1>8. RequestInv(p)'
  BY <1>1, <1>6, <1>7, NoInserts DEF RequestInv
<1> QED BY <1>1, <1>3, <1>4, <1>8, OwnStep

\* What a removal knows of the rows that go, at the next statement.
LEMMA GoneRowsStay ==
  ASSUME IInv, NEW p \in Removals, OnlyMoves(p), pc[p] \notin {"done", "cascade"},
         target'[p] = target[p], registry'[p] = registry[p],
         \A row, mode : Holds(p, row, mode) => Holds(p, row, mode)'
  PROVE  /\ \A r \in RegistryId : RegistryRow(r) \in work[p].gone =>
               /\ r = registry'[p] /\ Holds(p, RegistryRow(r), "exclusive")'
               /\ ChildRows(r)' \subseteq work[p].gone
         /\ \A u \in UserId : AccountRow(u) \in work[p].gone =>
               /\ pc'[u] = "done"
               /\ u \in DOMAIN accounts' => RegistryRow(accounts'[u]) \in work[p].gone
         /\ \A n \in MemberId : MemberRow(n) \in work[p].gone =>
               /\ OldMember(n)'
               /\ n \in DOMAIN members' =>
                     n = target'[p] \/ RegistryRow(members'[n].registry) \in work[p].gone
         /\ \A n \in MemberId : InviteRow(n) \in work[p].gone => MemberRow(n) \in work[p].gone
<1>1. RemovalInv(p) /\ p \in Request
  BY RemovalWork
<1>2. /\ registries' = registries /\ accounts' = accounts
      /\ members' = members /\ invites' = invites
  BY DEF OnlyMoves, tables
<1>3. \A r : ChildRows(r)' = ChildRows(r)
  BY <1>2 DEF ChildRows
<1>4. \A n \in MemberId : OldMember(n) => OldMember(n)'
  BY <1>1, OldMembersStay
<1>5. \A u \in UserId : pc[u] = "done" => pc'[u] = "done"
  BY <1>1 DEF OnlyMoves, UserId, Request
<1> QED BY <1>1, <1>2, <1>3, <1>4, <1>5 DEF RemovalInv

\* The removal looks for an account and writes nothing.
LEMMA LookForAccountStep ==
  ASSUME IInv, NEW p \in Removals, LookForAccount(p)
  PROVE  IInv'
<1> DEFINE next == IF \E u \in DOMAIN accounts : accounts[u] = registry[p]
                   THEN "delete member" ELSE "delete registry"
<1>1. p \in Request /\ p \notin SignUps /\ p \notin Uploads
  BY RemovalWork
<1>2. Statement(p, "look for account", next) /\ UNCHANGED <<tables, target, registry, work>>
  BY DEF LookForAccount
<1>3. next \in {"delete member", "delete registry"}
  OBVIOUS
<1> HIDE DEF next
<1>4. /\ OnlyMoves(p) /\ LocksAreSafe' /\ pc[p] = "look for account" /\ pc'[p] = next
      /\ \A row, mode : Holds(p, row, mode) => Holds(p, row, mode)'
      /\ target'[p] = target[p] /\ registry'[p] = registry[p] /\ work'[p] = work[p]
  BY <1>1, <1>2, StatementMoves DEF IInv
<1>5. RemovalInv(p) /\ work[p].gone = {}
  BY <1>4, RemovalWork DEF RemovalInv
<1>6. OldMember(target[p]) /\ target[p] \in MemberId /\ OldMember(target[p])'
  <2>1. OldMember(target[p]) /\ target[p] \in MemberId
    BY <1>4, <1>5 DEF RemovalInv
  <2> QED BY <1>1, <1>4, <2>1, OldMembersStay
<1>7. RemovalInv(p)'
  BY <1>3, <1>4, <1>5, <1>6 DEF RemovalInv
<1>8. RequestInv(p)'
  BY <1>1, <1>4, <1>7, InsertsStay DEF RequestInv
<1> QED BY <1>1, <1>4, <1>8, OwnStep

\* The registry goes, locked, and what refers to it will.
LEMMA DeleteRegistryStep ==
  ASSUME IInv, NEW p \in Removals, DeleteRegistry(p)
  PROVE  IInv'
<1> DEFINE found == registry[p] \in registries
           next == IF found THEN "cascade" ELSE "delete member"
           w == IF found THEN Gone(p, {RegistryRow(registry[p])}) ELSE work[p]
<1>1. p \in Request /\ p \notin SignUps /\ p \notin Uploads
  BY RemovalWork
<1>2. /\ Statement(p, "delete registry", next) /\ work' = [work EXCEPT ![p] = w]
      /\ UNCHANGED <<tables, target, registry>>
  BY DEF DeleteRegistry, Writes
<1>3. /\ OnlyMoves(p) /\ LocksAreSafe' /\ pc[p] = "delete registry" /\ pc'[p] = next
      /\ \A n \in Needs(p) : Holds(p, n.row, n.mode)'
      /\ \A row, mode : Holds(p, row, mode) => Holds(p, row, mode)'
      /\ target'[p] = target[p] /\ registry'[p] = registry[p] /\ work'[p] = w
  <2> HIDE DEF next, w
  <2> QED BY <1>1, <1>2, StatementMoves DEF IInv
<1>4. /\ work[p].gone = {} /\ target[p] \in MemberId /\ registry[p] \in RegistryId
      /\ OldMember(target[p])
  BY <1>3, RemovalWork DEF RemovalInv
<1>5. OldMember(target[p])'
  BY <1>1, <1>3, <1>4, OldMembersStay
<1>6. CASE ~found
  <2>1. work'[p] = work[p] /\ pc'[p] = "delete member"
    BY <1>3, <1>6
  <2>2. RemovalInv(p)'
    BY <1>3, <1>4, <1>5, <2>1, RemovalWork DEF RemovalInv
  <2>3. RequestInv(p)'
    BY <1>1, <1>3, <2>1, <2>2, InsertsStay DEF RequestInv
  <2> QED BY <1>1, <1>3, <2>3, OwnStep
<1>7. CASE found
  <2>1. work'[p] = Gone(p, {RegistryRow(registry[p])}) /\ pc'[p] = "cascade"
    BY <1>3, <1>7
  <2>2. /\ work'[p].gone = {RegistryRow(registry[p])}
        /\ work'[p] = [NoWork EXCEPT !.gone = work'[p].gone]
        /\ InsertsRegistry(p)' /\ InsertsAccount(p)' /\ InsertsMember(p)'
    BY <1>4, <2>1, GoneRows
  <2>3. Holds(p, RegistryRow(registry[p]), "exclusive")'
    <3> DEFINE x == [row |-> RegistryRow(registry[p]), mode |-> "exclusive"]
    <3>1. x \in Needs(p)
      BY <1>3, <1>7, NeedsAt
    <3>2. Holds(p, x.row, x.mode)'
      BY <1>3, <3>1
    <3> QED BY <1>3, <3>2
  <2>4. /\ \A r : RegistryRow(r) \in work'[p].gone => r = registry[p]
        /\ \A x : /\ AccountRow(x) \notin work'[p].gone /\ MemberRow(x) \notin work'[p].gone
                  /\ InviteRow(x) \notin work'[p].gone
    BY <2>2, RowsDiffer
  <2>5. RegistryRow(registry'[p]) = RegistryRow(registry[p])
    BY <1>3
  <2>6. RemovalInv(p)'
    BY <1>3, <1>4, <1>5, <2>1, <2>2, <2>3, <2>4, <2>5 DEF RemovalInv
  <2>7. RequestInv(p)'
    BY <1>1, <2>2, <2>6 DEF RequestInv
  <2> QED BY <1>1, <1>3, <2>7, OwnStep
<1> QED BY <1>6, <1>7

\* With the registry goes everything that refers to it.
LEMMA CascadeStep ==
  ASSUME IInv, NEW p \in Removals, Cascade(p)
  PROVE  IInv'
<1> DEFINE r == registry[p]
<1>1. p \in Request /\ p \notin SignUps /\ p \notin Uploads
  BY RemovalWork
<1>2. /\ Statement(p, "cascade", "delete member")
      /\ work' = [work EXCEPT ![p] = Gone(p, ChildRows(r))]
      /\ UNCHANGED <<tables, target, registry>>
  BY DEF Cascade, Writes
<1>3. /\ OnlyMoves(p) /\ LocksAreSafe' /\ pc[p] = "cascade" /\ pc'[p] = "delete member"
      /\ \A row, mode : Holds(p, row, mode) => Holds(p, row, mode)'
      /\ target'[p] = target[p] /\ registry'[p] = r /\ work'[p] = Gone(p, ChildRows(r))
  <2> HIDE DEF r
  <2>1. /\ OnlyMoves(p) /\ LocksAreSafe' /\ pc[p] = "cascade" /\ pc'[p] = "delete member"
        /\ \A row, mode : Holds(p, row, mode) => Holds(p, row, mode)'
    BY <1>1, <1>2, StatementMoves DEF IInv
  <2>2. work'[p] = Gone(p, ChildRows(r))
    BY <1>1, <1>2 DEF IInv
  <2> QED BY <1>2, <2>1, <2>2 DEF r
<1>4. /\ target[p] \in MemberId /\ r \in RegistryId /\ OldMember(target[p])
      /\ Holds(p, RegistryRow(r), "exclusive")
      /\ work[p].gone = {RegistryRow(r)}
  BY <1>3, RemovalWork DEF RemovalInv
<1>5. /\ work'[p].gone = {RegistryRow(r)} \cup ChildRows(r)
      /\ work'[p] = [NoWork EXCEPT !.gone = work'[p].gone]
      /\ InsertsRegistry(p)' /\ InsertsAccount(p)' /\ InsertsMember(p)'
  BY <1>3, <1>4, GoneRows
<1>6. /\ registries' = registries /\ accounts' = accounts
      /\ members' = members /\ invites' = invites
  BY <1>2 DEF tables
<1>7. \A s : ChildRows(s)' = ChildRows(s)
  BY <1>6 DEF ChildRows
<1>8. TypeOK /\ TablesInv
  BY DEF IInv, TablesInv
<1>9. \A s : RegistryRow(s) \in work'[p].gone => s = r
  BY <1>5, <1>8, ChildRowsAre, RowsDiffer
<1>10. \A u \in UserId : AccountRow(u) \in work'[p].gone =>
          pc'[u] = "done" /\ u \in DOMAIN accounts /\ accounts[u] = r
  <2> SUFFICES ASSUME NEW u \in UserId, AccountRow(u) \in work'[p].gone
               PROVE  pc'[u] = "done" /\ u \in DOMAIN accounts /\ accounts[u] = r
    OBVIOUS
  <2>1. AccountRow(u) \in ChildRows(r)
    BY <1>5, RowsDiffer
  <2>2. u \in DOMAIN accounts /\ accounts[u] = r
    BY <1>8, <2>1, ChildRowsAre
  <2>3. pc[u] = "done" /\ u \in Request /\ u # p
    BY <1>3, <1>8, <2>2 DEF TablesInv, UserId, Request
  <2> QED BY <1>3, <2>2, <2>3 DEF OnlyMoves
<1>11. \A n \in MemberId : MemberRow(n) \in work'[p].gone =>
          OldMember(n)' /\ n \in DOMAIN members /\ members[n].registry = r
  <2> SUFFICES ASSUME NEW n \in MemberId, MemberRow(n) \in work'[p].gone
               PROVE  OldMember(n)' /\ n \in DOMAIN members /\ members[n].registry = r
    OBVIOUS
  <2>1. MemberRow(n) \in ChildRows(r)
    BY <1>5, RowsDiffer
  <2>2. n \in DOMAIN members /\ members[n].registry = r
    BY <1>8, <2>1, ChildRowsAre
  <2>3. OldMember(n)
    BY <1>8, <2>2 DEF TablesInv
  <2> QED BY <1>1, <1>3, <2>2, <2>3, OldMembersStay
<1>12. \A n \in MemberId : InviteRow(n) \in work'[p].gone => MemberRow(n) \in work'[p].gone
  <2> SUFFICES ASSUME NEW n \in MemberId, InviteRow(n) \in work'[p].gone
               PROVE  MemberRow(n) \in work'[p].gone
    OBVIOUS
  <2>1. InviteRow(n) \in ChildRows(r)
    BY <1>5, RowsDiffer
  <2>2. n \in invites /\ members[n].registry = r
    BY <1>8, <2>1, ChildRowsAre
  <2>3. n \in DOMAIN members
    BY <1>8, <2>2 DEF TypeOK
  <2>4. MemberRow(n) \in ChildRows(r)
    BY <1>8, <2>2, <2>3, ChildRowsAre
  <2> QED BY <1>5, <2>4
<1>13. OldMember(target[p])'
  BY <1>1, <1>3, <1>4, OldMembersStay
<1>14. RemovalInv(p)'
  <2> HIDE DEF r
  <2>1. \A s \in RegistryId : RegistryRow(s) \in work'[p].gone =>
           /\ s = registry'[p] /\ Holds(p, RegistryRow(s), "exclusive")'
           /\ ChildRows(s)' \subseteq work'[p].gone
    BY <1>3, <1>4, <1>5, <1>7, <1>9
  <2>2. RegistryRow(r) \in work'[p].gone
    BY <1>5
  <2> QED BY <1>3, <1>4, <1>5, <1>6, <1>10, <1>11, <1>12, <1>13, <2>1, <2>2 DEF RemovalInv
<1>15. RequestInv(p)'
  BY <1>1, <1>5, <1>14 DEF RequestInv
<1> QED BY <1>1, <1>3, <1>15, OwnStep

\* The membership of the request goes, and then its invitation.
LEMMA DeleteMemberStep ==
  ASSUME IInv, NEW p \in Removals, DeleteMember(p)
  PROVE  IInv'
<1> DEFINE m == target[p]
<1>1. p \in Request /\ p \notin SignUps /\ p \notin Uploads
  BY RemovalWork
<1>2. /\ Statement(p, "delete member", "cascade member")
      /\ work' = [work EXCEPT ![p] = Gone(p, {MemberRow(m)})]
      /\ UNCHANGED <<tables, target, registry>>
  BY DEF DeleteMember, Writes
<1>3. /\ OnlyMoves(p) /\ LocksAreSafe'
      /\ pc[p] = "delete member" /\ pc'[p] = "cascade member"
      /\ \A row, mode : Holds(p, row, mode) => Holds(p, row, mode)'
      /\ target'[p] = m /\ registry'[p] = registry[p]
      /\ work'[p] = Gone(p, {MemberRow(m)})
  BY <1>1, <1>2, StatementMoves DEF IInv
<1>4. /\ m \in MemberId /\ registry[p] \in RegistryId /\ OldMember(m)
  BY <1>3, RemovalWork DEF RemovalInv
<1>5. /\ work'[p].gone = work[p].gone \cup {MemberRow(m)}
      /\ work'[p] = [NoWork EXCEPT !.gone = work'[p].gone]
      /\ InsertsRegistry(p)' /\ InsertsAccount(p)' /\ InsertsMember(p)'
  BY <1>3, GoneRows
<1>6. OldMember(m)'
  BY <1>1, <1>3, <1>4, OldMembersStay
<1>7. /\ \A x : RegistryRow(x) \in work'[p].gone <=> RegistryRow(x) \in work[p].gone
      /\ \A x : AccountRow(x) \in work'[p].gone <=> AccountRow(x) \in work[p].gone
      /\ \A x : MemberRow(x) \in work'[p].gone <=> MemberRow(x) \in work[p].gone \/ x = m
      /\ \A x : InviteRow(x) \in work'[p].gone <=> InviteRow(x) \in work[p].gone
      /\ work[p].gone \subseteq work'[p].gone
  BY <1>5, RowsDiffer
<1>8. RemovalInv(p)'
  <2>1. /\ \A r \in RegistryId : RegistryRow(r) \in work'[p].gone =>
              /\ r = registry'[p] /\ Holds(p, RegistryRow(r), "exclusive")'
              /\ ChildRows(r)' \subseteq work'[p].gone
        /\ \A u \in UserId : AccountRow(u) \in work'[p].gone =>
              /\ pc'[u] = "done"
              /\ u \in DOMAIN accounts' => RegistryRow(accounts'[u]) \in work'[p].gone
        /\ \A n \in MemberId : MemberRow(n) \in work'[p].gone =>
              /\ OldMember(n)'
              /\ n \in DOMAIN members' =>
                    n = target'[p] \/ RegistryRow(members'[n].registry) \in work'[p].gone
        /\ \A n \in MemberId : InviteRow(n) \in work'[p].gone => MemberRow(n) \in work'[p].gone
    BY <1>3, <1>6, <1>7, GoneRowsStay
  <2> QED BY <1>3, <1>4, <1>5, <1>6, <1>7, <2>1 DEF RemovalInv
<1>9. RequestInv(p)'
  BY <1>1, <1>5, <1>8 DEF RequestInv
<1> QED BY <1>1, <1>3, <1>9, OwnStep

\* The invitation goes with its membership.
LEMMA CascadeMemberStep ==
  ASSUME IInv, NEW p \in Removals, CascadeMember(p)
  PROVE  IInv'
<1> DEFINE m == target[p]
<1>1. p \in Request /\ p \notin SignUps /\ p \notin Uploads
  BY RemovalWork
<1>2. /\ Statement(p, "cascade member", "commit")
      /\ work' = [work EXCEPT ![p] = Gone(p, {InviteRow(m)})]
      /\ UNCHANGED <<tables, target, registry>>
  BY DEF CascadeMember, Writes
<1>3. /\ OnlyMoves(p) /\ LocksAreSafe'
      /\ pc[p] = "cascade member" /\ pc'[p] = "commit"
      /\ \A row, mode : Holds(p, row, mode) => Holds(p, row, mode)'
      /\ target'[p] = m /\ registry'[p] = registry[p]
      /\ work'[p] = Gone(p, {InviteRow(m)})
  BY <1>1, <1>2, StatementMoves DEF IInv
<1>4. /\ m \in MemberId /\ registry[p] \in RegistryId /\ OldMember(m)
      /\ MemberRow(m) \in work[p].gone
  BY <1>3, RemovalWork DEF RemovalInv
<1>5. /\ work'[p].gone = work[p].gone \cup {InviteRow(m)}
      /\ work'[p] = [NoWork EXCEPT !.gone = work'[p].gone]
      /\ InsertsRegistry(p)' /\ InsertsAccount(p)' /\ InsertsMember(p)'
  BY <1>3, GoneRows
<1>6. OldMember(m)'
  BY <1>1, <1>3, <1>4, OldMembersStay
<1>7. /\ \A x : RegistryRow(x) \in work'[p].gone <=> RegistryRow(x) \in work[p].gone
      /\ \A x : AccountRow(x) \in work'[p].gone <=> AccountRow(x) \in work[p].gone
      /\ \A x : MemberRow(x) \in work'[p].gone <=> MemberRow(x) \in work[p].gone
      /\ \A x : InviteRow(x) \in work'[p].gone <=> InviteRow(x) \in work[p].gone \/ x = m
      /\ work[p].gone \subseteq work'[p].gone
  BY <1>5, RowsDiffer
<1>8. RemovalInv(p)'
  <2>1. /\ \A r \in RegistryId : RegistryRow(r) \in work'[p].gone =>
              /\ r = registry'[p] /\ Holds(p, RegistryRow(r), "exclusive")'
              /\ ChildRows(r)' \subseteq work'[p].gone
        /\ \A u \in UserId : AccountRow(u) \in work'[p].gone =>
              /\ pc'[u] = "done"
              /\ u \in DOMAIN accounts' => RegistryRow(accounts'[u]) \in work'[p].gone
        /\ \A n \in MemberId : MemberRow(n) \in work'[p].gone =>
              /\ OldMember(n)'
              /\ n \in DOMAIN members' =>
                    n = target'[p] \/ RegistryRow(members'[n].registry) \in work'[p].gone
        /\ \A n \in MemberId : InviteRow(n) \in work'[p].gone => MemberRow(n) \in work'[p].gone
    BY <1>3, <1>4, <1>7, GoneRowsStay
  <2> QED BY <1>3, <1>4, <1>5, <1>6, <1>7, <2>1 DEF RemovalInv
<1>9. RequestInv(p)'
  BY <1>1, <1>5, <1>8 DEF RequestInv
<1> QED BY <1>1, <1>3, <1>9, OwnStep

-----------------------------------------------------------------------------
(* Failures.                                                               *)

\* Only a request that waits for a row is ended to break a deadlock.
LEMMA BreakDeadlockStep ==
  ASSUME IInv, NEW p \in Request, BreakDeadlock(p)
  PROVE  IInv'
<1>1. PICK S \in SUBSET Request : p \in S /\ IsCycle(S)
  BY DEF BreakDeadlock
<1>2. Needs(p) # {}
  BY <1>1 DEF IsCycle, Blockers
<1>3. pc[p] \notin {"start", "done"}
  BY <1>2, NeedsAt
<1> QED BY <1>3, FailStep DEF BreakDeadlock

\* The end of the process rolls everything back.
LEMMA CrashStep ==
  ASSUME IInv, Crash
  PROVE  IInv'
<1>1. /\ pc' = [p \in Request |-> IF Active(p) THEN "failed" ELSE pc[p]]
      /\ work' = [p \in Request |-> NoWork] /\ locks' = {}
      /\ UNCHANGED <<tables, target, registry>>
  BY DEF Crash
<1>2. \A p \in Request : pc[p] = "done" => pc'[p] = "done"
  BY <1>1 DEF Active, Ended
<1>3. TablesInv'
  BY <1>1, <1>2, TablesStay DEF IInv
<1>4. \A m \in MemberId : OldMember(m) => OldMember(m)'
  BY <1>2 DEF OldMember, MemberId, Request
<1>5. ASSUME NEW p \in Request PROVE RequestInv(p)'
  <2>1. /\ work'[p] = NoWork /\ target'[p] = target[p] /\ registry'[p] = registry[p]
    BY <1>1
  <2>2. CASE pc[p] # "start"
    <3>1. pc'[p] \in {"done", "failed"}
      BY <1>1, <2>2 DEF Active, Ended
    <3> QED BY <1>4, <2>1, <2>2, <3>1, EndedRequest
  <2>3. CASE pc[p] = "start"
    <3>1. pc'[p] = "start"
      BY <1>1, <2>3 DEF Active
    <3>2. /\ work'[p].registry = None /\ work'[p].account = None
          /\ work'[p].member = None /\ work'[p].gone = {}
          /\ work'[p] = [NoWork EXCEPT !.gone = work'[p].gone]
      BY <2>1, EmptyWork
    <3>3. SignUpInv(p)' /\ UploadInv(p)' /\ RemovalInv(p)'
      BY <2>1, <3>1, <3>2 DEF SignUpInv, UploadInv, RemovalInv
    <3> QED BY <3>2, <3>3, NoInserts DEF RequestInv
  <2> QED BY <2>2, <2>3
<1>6. LocksAreSafe'
  BY <1>1 DEF LocksAreSafe
<1> QED BY <1>1, <1>3, <1>5, <1>6 DEF IInv

-----------------------------------------------------------------------------
(* Commits.                                                                *)

\* All that another request can see of the commit of p, and the locks under
\* which p wrote it.
CommitOf(p) ==
    /\ \A r \in registries' : r \in registries \/ Holds(p, EmailEntry, "exclusive")
    /\ \A r \in registries \ registries' : Holds(p, RegistryRow(r), "exclusive")
    /\ \A u \in DOMAIN accounts' :
          \/ u \in DOMAIN accounts /\ accounts'[u] = accounts[u]
          \/ /\ u = p /\ Holds(p, RegistryRow(accounts'[u]), "shared")
             /\ Holds(p, AccountEntry(accounts'[u]), "exclusive")
    /\ \A m \in DOMAIN members' :
          \/ m \in DOMAIN members /\ members'[m].registry = members[m].registry
          \/ /\ m = p /\ p \in Uploads
             /\ Holds(p, RegistryRow(members'[m].registry), "shared")
    /\ \A m \in invites' : m \in invites \/ (m = p /\ p \in Uploads)
    /\ invites' \subseteq DOMAIN members'

\* The end of the transaction, besides the tables.
LEMMA CommitEnds ==
  ASSUME IInv, NEW p \in Request, Commit(p)
  PROVE  /\ pc[p] = "commit" /\ pc'[p] = "done" /\ work'[p] = NoWork
         /\ target' = target /\ registry' = registry
         /\ DOMAIN pc' = Request /\ DOMAIN work' = Request
         /\ \A q \in Request \ {p} : pc'[q] = pc[q] /\ work'[q] = work[q]
         /\ \A q \in Request : pc[q] = "done" => pc'[q] = "done"
         /\ \A m \in MemberId : OldMember(m) => OldMember(m)'
         /\ LocksAreSafe'
         /\ \A q, row, mode : q # p /\ Holds(q, row, mode) => Holds(q, row, mode)'
         /\ RequestInv(p)'
<1>1. /\ pc[p] = "commit" /\ pc' = [pc EXCEPT ![p] = "done"]
      /\ work' = [work EXCEPT ![p] = NoWork] /\ locks' = {l \in locks : l.by # p}
      /\ target' = target /\ registry' = registry
  BY DEF Commit
<1>2. /\ pc'[p] = "done" /\ work'[p] = NoWork
      /\ DOMAIN pc' = Request /\ DOMAIN work' = Request
      /\ \A q \in Request \ {p} : pc'[q] = pc[q] /\ work'[q] = work[q]
      /\ \A q \in Request : pc[q] = "done" => pc'[q] = "done"
  BY <1>1 DEF IInv
<1>3. \A m \in MemberId : OldMember(m) => OldMember(m)'
  BY <1>2 DEF OldMember, MemberId, Request
<1>4. RequestInv(p)'
  BY <1>1, <1>2, <1>3, EndedRequest
<1>5. LocksAreSafe
  BY DEF IInv
<1>6. /\ LocksAreSafe'
      /\ \A q, row, mode : q # p /\ Holds(q, row, mode) => Holds(q, row, mode)'
  BY <1>1, <1>5, ReleasedLocks
<1> QED BY <1>1, <1>2, <1>3, <1>4, <1>6

\* What q relies on was not for p to write.
LEMMA OthersRely ==
  ASSUME IInv, NEW p \in Request, Commit(p), CommitOf(p),
         NEW q \in Request, q # p
  PROVE  RequestInv(q)'
<1>1. /\ pc'[q] = pc[q] /\ work'[q] = work[q]
      /\ target'[q] = target[q] /\ registry'[q] = registry[q]
      /\ \A row, mode : Holds(q, row, mode) => Holds(q, row, mode)'
  BY CommitEnds
<1>2. RequestInv(q) /\ LocksAreSafe
  BY DEF IInv
<1>3. InsertsRegistry(q)'
  <2>1. ASSUME work[q].registry # None PROVE registries' = {}
    <3>1. registries = {} /\ Holds(q, EmailEntry, "exclusive")
      BY <1>2, <2>1 DEF RequestInv, InsertsRegistry
    <3>2. ~Holds(p, EmailEntry, "exclusive")
      BY <1>2, <3>1, Conflict
    <3> QED BY <3>1, <3>2 DEF CommitOf
  <2> QED BY <1>1, <1>2, <2>1 DEF RequestInv, InsertsRegistry
<1>4. ASSUME RefersTo(q) PROVE RefersTo(q)'
  <2>1. Holds(q, RegistryRow(registry[q]), "shared")
    BY <1>4 DEF RefersTo
  <2>2. ~Holds(p, RegistryRow(registry[q]), "exclusive")
    BY <1>2, <2>1, Conflict
  <2>3. registry[q] \in registries => registry[q] \in registries'
    BY <2>2 DEF CommitOf
  <2>4. Holds(q, RegistryRow(registry[q]), "shared")'
    BY <1>1, <2>1
  <2> QED BY <1>1, <1>4, <2>3, <2>4 DEF RefersTo
<1>5. InsertsMember(q)'
  BY <1>1, <1>2, <1>4 DEF RequestInv, InsertsMember
<1>6. InsertsAccount(q)'
  <2>1. ASSUME work[q].account # None
        PROVE  /\ \A u \in DOMAIN accounts' : accounts'[u] # registry[q]
               /\ Holds(q, AccountEntry(registry[q]), "exclusive")'
    <3>1. /\ Holds(q, AccountEntry(registry[q]), "exclusive")
          /\ \A u \in DOMAIN accounts : accounts[u] # registry[q]
      BY <1>2, <2>1 DEF RequestInv, InsertsAccount
    <3>2. ~Holds(p, AccountEntry(registry[q]), "exclusive")
      BY <1>2, <3>1, Conflict
    <3>3. Holds(q, AccountEntry(registry[q]), "exclusive")'
      BY <1>1, <3>1
    <3>4. \A u \in DOMAIN accounts' : accounts'[u] # registry[q]
      BY <3>1, <3>2 DEF CommitOf
    <3> QED BY <1>1, <3>3, <3>4
  <2> QED BY <1>1, <1>2, <1>4, <2>1 DEF RequestInv, InsertsAccount
<1>7. \A m \in MemberId : OldMember(m) => OldMember(m)' /\ ~(m = p /\ p \in Uploads)
  <2>1. p \in Uploads => p \notin Memberships
    BY RequestsAreApart
  <2> QED BY <2>1, CommitEnds DEF OldMember
<1>8. ASSUME q \in SignUps PROVE SignUpInv(q)'
  <2>1. SignUpInv(q)
    BY <1>2, <1>8 DEF RequestInv
  <2>2. pc[q] # "start" => target[q] \in MemberId /\ OldMember(target[q])
    BY <2>1 DEF SignUpInv
  <2>3. pc[q] # "start" => OldMember(target[q])' /\ target'[q] \in MemberId
    BY <1>1, <1>7, <2>2
  <2>4. pc[q] = "commit" /\ target[q] \notin DOMAIN members => target'[q] \notin DOMAIN members'
    BY <1>1, <1>7, <2>2 DEF CommitOf
  <2> QED BY <1>1, <2>1, <2>3, <2>4 DEF SignUpInv
<1>9. ASSUME q \in Uploads PROVE UploadInv(q)'
  BY <1>1, <1>2, <1>9 DEF RequestInv, UploadInv
<1>10. ASSUME q \in Removals PROVE RemovalInv(q)'
  <2>1. RemovalInv(q)
    BY <1>2, <1>10 DEF RequestInv
  <2>2. \A u \in UserId : pc[u] = "done" =>
           pc'[u] = "done" /\ (u \in DOMAIN accounts' => /\ u \in DOMAIN accounts
                                                         /\ accounts'[u] = accounts[u])
    BY CommitEnds DEF CommitOf, UserId, Request
  <2>3. \A n \in MemberId : OldMember(n) =>
           OldMember(n)' /\ (n \in DOMAIN members' => /\ n \in DOMAIN members
                                                      /\ members'[n].registry = members[n].registry)
    BY <1>7 DEF CommitOf
  <2>4. ASSUME NEW r \in RegistryId, Holds(q, RegistryRow(r), "exclusive")
        PROVE  ChildRows(r)' \subseteq ChildRows(r)
    <3>1. ~Holds(p, RegistryRow(r), "shared")
      BY <1>2, <2>4, Conflict
    <3>2. \A u \in DOMAIN accounts' : accounts'[u] = r =>
             u \in DOMAIN accounts /\ accounts[u] = r
      BY <3>1 DEF CommitOf
    <3>3. \A m \in DOMAIN members' : members'[m].registry = r =>
             m \in DOMAIN members /\ members[m].registry = r
      BY <3>1 DEF CommitOf
    <3>4. \A m \in invites' : members'[m].registry = r => m \in invites /\ members[m].registry = r
      <4>1. p \in Uploads => p \notin DOMAIN members
        BY <1>7 DEF IInv, TablesInv, TypeOK, IsTable
      <4> QED BY <3>3, <4>1 DEF CommitOf
    <3> QED BY <3>2, <3>3, <3>4 DEF ChildRows
  <2> QED BY <1>1, <2>1, <2>2, <2>3, <2>4 DEF RemovalInv
<1> QED BY <1>3, <1>5, <1>6, <1>8, <1>9, <1>10 DEF RequestInv

\* A table whose rows are all there is to it.
IsFcn(t) == t = [k \in DOMAIN t |-> t[k]]

\* A table is a function, row by row.
LEMMA TableIs ==
  ASSUME NEW t, NEW K, NEW R, IsFcn(t), DOMAIN t \subseteq K,
         \A k \in DOMAIN t : t[k] \in R
  PROVE  IsTable(t, K, R)
  BY DEF IsTable, IsFcn

\* The tables after the commit of a sign-up.
LEMMA SignUpCommit ==
  ASSUME IInv, NEW p \in SignUps, Commit(p)
  PROVE  /\ registries' = registries \cup {r \in {p} : work[p].registry = p}
         /\ registry[p] \in registries'
         /\ DOMAIN accounts = {} /\ DOMAIN accounts' = {p} /\ accounts'[p] = registry[p]
         /\ IsFcn(accounts)'
         /\ DOMAIN members' = DOMAIN members
         /\ IsFcn(members)'
         /\ \A m \in DOMAIN members :
               members'[m] = IF m = target[p] THEN [members[m] EXCEPT !.user = p] ELSE members[m]
         /\ invites' = invites \ {target[p]}
         /\ Holds(p, RegistryRow(registry[p]), "shared")
         /\ Holds(p, AccountEntry(registry[p]), "exclusive")
         /\ work[p].registry = p => registries = {} /\ Holds(p, EmailEntry, "exclusive")
<1>1. p \in Request /\ None # p
  BY RequestsAreApart DEF Request, RegistryId
<1>2. /\ pc[p] = "commit" /\ registry[p] \in RegistryId
      /\ work[p] = [[NoWork EXCEPT !.gone = {InviteRow(target[p])}]
                      EXCEPT !.registry = work[p].registry, !.account = registry[p],
                             !.linked = work[p].linked]
      /\ work[p].linked \in BOOLEAN
      /\ work[p].linked \/ target[p] \notin DOMAIN members
  BY <1>1 DEF IInv, RequestInv, SignUpInv, Commit
<1>3. /\ work[p].gone = {InviteRow(target[p])} /\ work[p].account = registry[p]
      /\ work[p].member = None
  BY <1>2 DEF NoWork
<1>4. registry[p] # None
  BY <1>2, RequestsAreApart
<1>5. /\ work[p].registry # None => /\ work[p].registry = p /\ registries = {}
                                    /\ Holds(p, EmailEntry, "exclusive")
      /\ RefersTo(p) /\ Holds(p, AccountEntry(registry[p]), "exclusive")
      /\ \A u \in DOMAIN accounts : accounts[u] # registry[p]
  BY <1>1, <1>3, <1>4 DEF IInv, RequestInv, InsertsRegistry, InsertsAccount
<1>6. /\ \A k : <<"registry", k>> \notin work[p].gone
      /\ \A k : <<"invite", k>> \in work[p].gone <=> k = target[p]
  BY <1>3 DEF InviteRow
<1>7. registries' = registries \cup {r \in {p} : work[p].registry = p}
  BY <1>1, <1>5, <1>6 DEF Commit
<1>8. registry[p] \in registries'
  BY <1>1, <1>4, <1>5, <1>7 DEF RefersTo
<1>9. DOMAIN accounts = {}
  <2>1. /\ \A u \in DOMAIN accounts : accounts[u] \in registries
        /\ \A r, s \in registries : r = s
    BY DEF IInv, TablesInv, TypeOK, IsTable
  <2>2. registry[p] \in registries \/ registries = {}
    BY <1>4, <1>5 DEF RefersTo
  <2>3. \A u : u \notin DOMAIN accounts
    BY <1>5, <2>1, <2>2
  <2> QED BY <2>3
<1>10. DOMAIN accounts' = {p} /\ accounts'[p] = registry[p] /\ IsFcn(accounts)'
  <2>1. accounts' = With(accounts, Row(p, registry[p])) /\ p \notin DOMAIN accounts
    BY <1>3, <1>4, <1>9 DEF Commit
  <2>2. /\ DOMAIN accounts' = DOMAIN accounts \cup {p} /\ IsFcn(accounts')
        /\ accounts'[p] = registry[p]
    BY <2>1 DEF With, Row, IsFcn
  <2> QED BY <1>9, <2>2 DEF IsFcn
<1>11. /\ DOMAIN members' = DOMAIN members
       /\ IsFcn(members)'
       /\ \A m \in DOMAIN members :
             members'[m] = IF m = target[p] THEN [members[m] EXCEPT !.user = p] ELSE members[m]
  <2> DEFINE linked == IF work[p].linked /\ target[p] \in DOMAIN members
                       THEN [members EXCEPT ![target[p]].user = p] ELSE members
             gone == {k \in DOMAIN members : <<"member", k>> \in work[p].gone}
  <2>1. members' = Without(linked, gone)
    BY <1>3 DEF Commit
  <2>2. gone = {}
    BY <1>3 DEF InviteRow
  <2>3. /\ DOMAIN linked = DOMAIN members
        /\ \A m \in DOMAIN members :
              linked[m] = IF m = target[p] THEN [members[m] EXCEPT !.user = p] ELSE members[m]
    BY <1>2
  <2> HIDE DEF linked, gone
  <2>4. /\ DOMAIN members' = DOMAIN linked \ gone
        /\ IsFcn(members') /\ \A x \in DOMAIN members' : members'[x] = linked[x]
    BY <2>1 DEF Without, Restrict, IsFcn
  <2>5. DOMAIN members' = DOMAIN members
    BY <2>2, <2>3, <2>4
  <2>6. IsFcn(members)'
    BY <2>4 DEF IsFcn
  <2> QED BY <2>3, <2>4, <2>5, <2>6
<1>12. invites' = invites \ {target[p]}
  BY <1>3, <1>6 DEF Commit
<1> QED BY <1>1, <1>5, <1>7, <1>8, <1>9, <1>10, <1>11, <1>12 DEF RefersTo

\* What follows for the committed tables, whatever request commits.
LEMMA CommittedTables ==
  ASSUME IInv, NEW p \in Request, Commit(p), CommitOf(p),
         registries' \subseteq registries \cup {p},
         p \in registries' \ registries => registries = {} /\ p \in RegistryId,
         IsFcn(accounts)', DOMAIN accounts' \subseteq UserId,
         \A u \in DOMAIN accounts' : accounts'[u] \in registries',
         \A u, v \in DOMAIN accounts' : u = v,
         IsFcn(members)',
         \A m \in DOMAIN members' :
            members'[m] \in [registry : registries', user : DOMAIN accounts' \cup {None}],
         InvitationXorAccount'
  PROVE  TablesInv'
<1>1. pc'[p] = "done" /\ \A q \in Request : pc[q] = "done" => pc'[q] = "done"
  BY CommitEnds
<1>2. /\ TypeOK /\ \A r, s \in registries : r = s
      /\ \A u \in DOMAIN accounts : pc[u] = "done"
      /\ \A r \in registries : r = FirstRegistry \/ pc[r] = "done"
      /\ \A m \in DOMAIN members : OldMember(m)
  BY DEF IInv, TablesInv
<1>3. /\ registries \subseteq RegistryId /\ DOMAIN accounts \subseteq UserId
      /\ DOMAIN members \subseteq MemberId
  BY <1>2 DEF TypeOK, IsTable
<1>4. registries' \subseteq RegistryId /\ \A r, s \in registries' : r = s
  BY <1>2, <1>3
<1>5. DOMAIN members' \subseteq MemberId
  BY <1>3 DEF CommitOf, MemberId
<1>6. TypeOK'
  <2>1. IsTable(accounts, UserId, registries)'
    BY TableIs
  <2>2. IsTable(members, MemberId, [registry : registries, user : DOMAIN accounts \cup {None}])'
    BY <1>5, TableIs
  <2> QED BY <1>4, <2>1, <2>2 DEF TypeOK, CommitOf
<1>7. \A u \in DOMAIN accounts' : pc'[u] = "done"
  BY <1>1, <1>2, <1>3 DEF CommitOf, UserId, Request
<1>8. \A r \in registries' : r = FirstRegistry \/ pc'[r] = "done"
  BY <1>1, <1>2, <1>3 DEF RegistryId, Request
<1>9. \A m \in DOMAIN members' : OldMember(m)'
  <2>1. \A m \in MemberId : OldMember(m) => OldMember(m)'
    BY CommitEnds
  <2>2. OldMember(p)'
    BY <1>1 DEF OldMember
  <2> QED BY <1>2, <1>3, <2>1, <2>2 DEF CommitOf
<1> QED BY <1>4, <1>6, <1>7, <1>8, <1>9 DEF TablesInv

\* A sign-up commits the person's first account, and with it the membership that
\* its invitation stood for, if that is still there.
LEMMA SignUpCommitStep ==
  ASSUME IInv, NEW p \in SignUps, Commit(p)
  PROVE  CommitOf(p) /\ TablesInv'
<1>1. p \in Request /\ p \in UserId /\ p \in RegistryId
  BY DEF Request, UserId, RegistryId
<1>2. /\ registries' = registries \cup {r \in {p} : work[p].registry = p}
      /\ registry[p] \in registries'
      /\ DOMAIN accounts = {} /\ DOMAIN accounts' = {p} /\ accounts'[p] = registry[p]
      /\ IsFcn(accounts)'
      /\ DOMAIN members' = DOMAIN members
      /\ IsFcn(members)'
      /\ \A m \in DOMAIN members :
            members'[m] = IF m = target[p] THEN [members[m] EXCEPT !.user = p] ELSE members[m]
      /\ invites' = invites \ {target[p]}
      /\ Holds(p, RegistryRow(registry[p]), "shared")
      /\ Holds(p, AccountEntry(registry[p]), "exclusive")
      /\ work[p].registry = p => registries = {} /\ Holds(p, EmailEntry, "exclusive")
  BY SignUpCommit
<1>3. /\ TypeOK /\ InvitationXorAccount /\ \A r, s \in registries : r = s
  BY DEF IInv, TablesInv
<1>4. /\ \A m \in DOMAIN members :
            members[m] \in [registry : registries, user : {None}] /\ m \in invites
      /\ invites \subseteq DOMAIN members
  <2>1. \A m \in DOMAIN members :
           members[m] \in [registry : registries, user : DOMAIN accounts \cup {None}]
    BY <1>3 DEF TypeOK, IsTable
  <2>2. \A m \in DOMAIN members : members[m] \in [registry : registries, user : {None}]
    BY <1>2, <2>1
  <2> QED BY <1>3, <2>2 DEF TypeOK, InvitationXorAccount
<1>5. \A m \in DOMAIN members : /\ members'[m].registry = members[m].registry
                                /\ members'[m].registry \in registries'
                                /\ members'[m].user = IF m = target[p] THEN p ELSE None
                                /\ members'[m] \in [registry : registries', user : {p, None}]
  BY <1>2, <1>4
<1>6. CommitOf(p)
  BY <1>2, <1>4, <1>5 DEF CommitOf
<1>7. p # None
  BY <1>1, RequestsAreApart
<1>8. \A m \in DOMAIN members : members[m].registry = registry[p]
  BY <1>2, <1>3, <1>4
<1>9. InvitationXorAccount'
  BY <1>2, <1>4, <1>5, <1>7, <1>8 DEF InvitationXorAccount
<1>10. TablesInv'
  BY <1>1, <1>2, <1>5, <1>6, <1>9, CommittedTables
<1> QED BY <1>6, <1>10

\* The tables after the commit of an upload.
LEMMA UploadCommit ==
  ASSUME IInv, NEW p \in Uploads, Commit(p)
  PROVE  /\ registries' = registries \cup {r \in {p} : work[p].registry = p}
         /\ registry[p] \in registries'
         /\ DOMAIN accounts' = DOMAIN accounts /\ IsFcn(accounts)'
         /\ \A u \in DOMAIN accounts : accounts'[u] = accounts[u]
         /\ p \notin DOMAIN members
         /\ DOMAIN members' = DOMAIN members \cup {p} /\ IsFcn(members)'
         /\ members'[p] = [registry |-> registry[p], user |-> None]
         /\ \A m \in DOMAIN members : members'[m] = members[m]
         /\ invites' = invites \cup {p}
         /\ Holds(p, RegistryRow(registry[p]), "shared")
         /\ work[p].registry = p => registries = {} /\ Holds(p, EmailEntry, "exclusive")
<1>1. /\ p \in Request /\ None # p /\ p \notin Memberships
      /\ p \notin SignUps /\ p \notin Removals
  BY RequestsAreApart DEF Request, RegistryId
<1>2. /\ pc[p] = "commit" /\ registry[p] \in RegistryId
      /\ work[p] = [NoWork EXCEPT !.registry = work[p].registry, !.member = registry[p]]
  BY <1>1 DEF IInv, RequestInv, UploadInv, Commit
<1>3. /\ work[p].gone = {} /\ work[p].account = None /\ work[p].linked = FALSE
      /\ work[p].member = registry[p] /\ registry[p] # None
  <2>1. /\ work[p].gone = {} /\ work[p].account = None /\ work[p].linked = FALSE
        /\ work[p].member = registry[p]
    BY <1>2 DEF NoWork
  <2> QED BY <1>2, <2>1, RequestsAreApart
<1>4. /\ work[p].registry # None => /\ work[p].registry = p /\ registries = {}
                                    /\ Holds(p, EmailEntry, "exclusive")
      /\ RefersTo(p)
  BY <1>1, <1>3 DEF IInv, RequestInv, InsertsRegistry, InsertsMember
<1>5. p \notin DOMAIN members
  BY <1>1, <1>2 DEF IInv, TablesInv, OldMember
<1>6. registries' = registries \cup {r \in {p} : work[p].registry = p}
  BY <1>1, <1>3, <1>4 DEF Commit
<1>7. registry[p] \in registries'
  BY <1>1, <1>3, <1>4, <1>6 DEF RefersTo
<1>8. /\ DOMAIN accounts' = DOMAIN accounts /\ IsFcn(accounts)'
      /\ \A u \in DOMAIN accounts : accounts'[u] = accounts[u]
  <2>1. accounts' = Without(accounts, {u \in DOMAIN accounts : <<"account", u>> \in work[p].gone})
    BY <1>3 DEF Commit
  <2> QED BY <1>3, <2>1 DEF Without, Restrict, IsFcn
<1>9. /\ DOMAIN members' = DOMAIN members \cup {p} /\ IsFcn(members)'
      /\ members'[p] = [registry |-> registry[p], user |-> None]
      /\ \A m \in DOMAIN members : members'[m] = members[m]
  <2>1. members' = With(members, Row(p, [registry |-> registry[p], user |-> None]))
    BY <1>3 DEF Commit
  <2> QED BY <1>5, <2>1 DEF With, Row, IsFcn
<1>10. invites' = invites \cup {p}
  BY <1>3 DEF Commit
<1> QED BY <1>1, <1>4, <1>5, <1>6, <1>7, <1>8, <1>9, <1>10 DEF RefersTo

\* An upload commits one more membership, which waits on its invitation.
LEMMA UploadCommitStep ==
  ASSUME IInv, NEW p \in Uploads, Commit(p)
  PROVE  CommitOf(p) /\ TablesInv'
<1>1. p \in Request /\ p \in RegistryId
  BY DEF Request, RegistryId
<1>2. /\ registries' = registries \cup {r \in {p} : work[p].registry = p}
      /\ registry[p] \in registries'
      /\ DOMAIN accounts' = DOMAIN accounts /\ IsFcn(accounts)'
      /\ \A u \in DOMAIN accounts : accounts'[u] = accounts[u]
      /\ p \notin DOMAIN members
      /\ DOMAIN members' = DOMAIN members \cup {p} /\ IsFcn(members)'
      /\ members'[p] = [registry |-> registry[p], user |-> None]
      /\ \A m \in DOMAIN members : members'[m] = members[m]
      /\ invites' = invites \cup {p}
      /\ Holds(p, RegistryRow(registry[p]), "shared")
      /\ work[p].registry = p => registries = {} /\ Holds(p, EmailEntry, "exclusive")
  BY UploadCommit
<1>3. /\ TypeOK /\ InvitationXorAccount /\ \A u, v \in DOMAIN accounts : u = v
  BY DEF IInv, TablesInv
<1>4. /\ invites \subseteq DOMAIN members
      /\ DOMAIN accounts \subseteq UserId
      /\ \A u \in DOMAIN accounts : accounts[u] \in registries
      /\ \A m \in DOMAIN members :
            members[m] \in [registry : registries, user : DOMAIN accounts \cup {None}]
  BY <1>3 DEF TypeOK, IsTable
<1>5. CommitOf(p)
  <2>1. /\ members'[p].registry = registry[p]
        /\ \A m \in DOMAIN members : members'[m].registry = members[m].registry
    BY <1>2
  <2>2. Holds(p, RegistryRow(members'[p].registry), "shared")
    BY <1>2, <2>1
  <2> QED BY <1>2, <1>4, <2>1, <2>2 DEF CommitOf
<1>6. \A m \in DOMAIN members' :
         members'[m] \in [registry : registries', user : DOMAIN accounts' \cup {None}]
  <2>1. members'[p] \in [registry : registries', user : DOMAIN accounts' \cup {None}]
    BY <1>2
  <2>2. \A m \in DOMAIN members :
           members'[m] \in [registry : registries', user : DOMAIN accounts' \cup {None}]
    BY <1>2, <1>4
  <2> QED BY <1>2, <2>1, <2>2
<1>7. InvitationXorAccount'
  <2>1. ASSUME NEW m \in DOMAIN members
        PROVE  IF members'[m].user = None THEN m \in invites'
               ELSE m \notin invites' /\ accounts'[members'[m].user] = members'[m].registry
    <3>1. IF members[m].user = None THEN m \in invites
          ELSE m \notin invites /\ accounts[members[m].user] = members[m].registry
      BY <1>3 DEF InvitationXorAccount
    <3>2. members[m].user \in DOMAIN accounts \cup {None} /\ m # p
      BY <1>2, <1>4
    <3> QED BY <1>2, <3>1, <3>2
  <2>2. members'[p].user = None /\ p \in invites'
    BY <1>2
  <2> QED BY <1>2, <2>1, <2>2 DEF InvitationXorAccount
<1>8. TablesInv'
  BY <1>1, <1>2, <1>3, <1>4, <1>5, <1>6, <1>7, CommittedTables
<1> QED BY <1>5, <1>8

\* The tables after the commit of a removal, and what else is gone with a row.
LEMMA RemovalCommit ==
  ASSUME IInv, NEW p \in Removals, Commit(p)
  PROVE  LET gone == work[p].gone IN
         /\ registries' = {r \in registries : RegistryRow(r) \notin gone}
         /\ DOMAIN accounts' = {u \in DOMAIN accounts : AccountRow(u) \notin gone}
         /\ IsFcn(accounts)' /\ \A u \in DOMAIN accounts' : accounts'[u] = accounts[u]
         /\ DOMAIN members' = {m \in DOMAIN members : MemberRow(m) \notin gone}
         /\ IsFcn(members)' /\ \A m \in DOMAIN members' : members'[m] = members[m]
         /\ invites' = {m \in invites : InviteRow(m) \notin gone}
         /\ \A r \in RegistryId : RegistryRow(r) \in gone =>
               /\ r = registry[p] /\ Holds(p, RegistryRow(r), "exclusive")
               /\ ChildRows(r) \subseteq gone
         /\ \A u \in DOMAIN accounts : AccountRow(u) \in gone =>
               RegistryRow(accounts[u]) \in gone
         /\ \A n \in DOMAIN members : MemberRow(n) \in gone =>
               n = target[p] \/ RegistryRow(members[n].registry) \in gone
         /\ MemberRow(target[p]) \in gone /\ InviteRow(target[p]) \in gone
         /\ \A n \in MemberId : InviteRow(n) \in gone => MemberRow(n) \in gone
<1> DEFINE gone == work[p].gone
<1>1. /\ RemovalInv(p) /\ work[p] = [NoWork EXCEPT !.gone = work[p].gone]
      /\ work[p].registry = None /\ work[p].account = None /\ work[p].member = None
  BY RemovalWork
<1>2. pc[p] = "commit" /\ work[p].linked = FALSE
  BY <1>1 DEF Commit, NoWork
<1>3. DOMAIN accounts \subseteq UserId /\ DOMAIN members \subseteq MemberId
  BY DEF IInv, TablesInv, TypeOK, IsTable
<1>4. registries' = {r \in registries : RegistryRow(r) \notin gone}
  BY <1>1 DEF Commit, RegistryRow
<1>5. /\ DOMAIN accounts' = {u \in DOMAIN accounts : AccountRow(u) \notin gone}
      /\ IsFcn(accounts)' /\ \A u \in DOMAIN accounts' : accounts'[u] = accounts[u]
  <2>1. accounts' = Without(accounts, {u \in DOMAIN accounts : AccountRow(u) \in gone})
    BY <1>1 DEF Commit, AccountRow
  <2> QED BY <2>1 DEF Without, Restrict, IsFcn
<1>6. /\ DOMAIN members' = {m \in DOMAIN members : MemberRow(m) \notin gone}
      /\ IsFcn(members)' /\ \A m \in DOMAIN members' : members'[m] = members[m]
  <2>1. members' = Without(members, {m \in DOMAIN members : MemberRow(m) \in gone})
    BY <1>1, <1>2 DEF Commit, MemberRow
  <2> QED BY <2>1 DEF Without, Restrict, IsFcn
<1>7. invites' = {m \in invites : InviteRow(m) \notin gone}
  BY <1>1 DEF Commit, InviteRow
<1>8. /\ \A r \in RegistryId : RegistryRow(r) \in gone =>
            /\ r = registry[p] /\ Holds(p, RegistryRow(r), "exclusive")
            /\ ChildRows(r) \subseteq gone
      /\ \A u \in DOMAIN accounts : AccountRow(u) \in gone =>
            RegistryRow(accounts[u]) \in gone
      /\ \A n \in DOMAIN members : MemberRow(n) \in gone =>
            n = target[p] \/ RegistryRow(members[n].registry) \in gone
      /\ MemberRow(target[p]) \in gone /\ InviteRow(target[p]) \in gone
      /\ \A n \in MemberId : InviteRow(n) \in gone => MemberRow(n) \in gone
  BY <1>1, <1>2, <1>3 DEF RemovalInv
<1> QED BY <1>4, <1>5, <1>6, <1>7, <1>8

\* A removal commits the deletion of a registry with all that refers to it, or of
\* the membership and its invitation alone.
LEMMA RemovalCommitStep ==
  ASSUME IInv, NEW p \in Removals, Commit(p)
  PROVE  CommitOf(p) /\ TablesInv'
<1> DEFINE gone == work[p].gone
<1>1. p \in Request
  BY DEF Request
<1>2. /\ registries' = {r \in registries : RegistryRow(r) \notin gone}
      /\ DOMAIN accounts' = {u \in DOMAIN accounts : AccountRow(u) \notin gone}
      /\ IsFcn(accounts)' /\ \A u \in DOMAIN accounts' : accounts'[u] = accounts[u]
      /\ DOMAIN members' = {m \in DOMAIN members : MemberRow(m) \notin gone}
      /\ IsFcn(members)' /\ \A m \in DOMAIN members' : members'[m] = members[m]
      /\ invites' = {m \in invites : InviteRow(m) \notin gone}
  BY RemovalCommit
<1>3. /\ \A r \in RegistryId : RegistryRow(r) \in gone =>
            Holds(p, RegistryRow(r), "exclusive") /\ ChildRows(r) \subseteq gone
      /\ \A u \in DOMAIN accounts : AccountRow(u) \in gone =>
            RegistryRow(accounts[u]) \in gone
      /\ \A n \in DOMAIN members : MemberRow(n) \in gone =>
            InviteRow(n) \in gone \/ RegistryRow(members[n].registry) \in gone
      /\ \A n \in MemberId : InviteRow(n) \in gone => MemberRow(n) \in gone
  BY RemovalCommit
<1>4. /\ TypeOK /\ InvitationXorAccount /\ \A u, v \in DOMAIN accounts : u = v
  BY DEF IInv, TablesInv
<1>5. /\ registries \subseteq RegistryId /\ invites \subseteq DOMAIN members
      /\ DOMAIN accounts \subseteq UserId /\ DOMAIN members \subseteq MemberId
      /\ \A u \in DOMAIN accounts : accounts[u] \in registries
      /\ \A m \in DOMAIN members :
            members[m] \in [registry : registries, user : DOMAIN accounts \cup {None}]
  BY <1>4 DEF TypeOK, IsTable
<1> HIDE DEF gone
<1>6. \A u \in DOMAIN accounts' : accounts'[u] \in registries'
  <2> SUFFICES ASSUME NEW u \in DOMAIN accounts, AccountRow(u) \notin gone
               PROVE  RegistryRow(accounts[u]) \notin gone
    BY <1>5, <1>2, <1>2
  <2>1. AccountRow(u) \in ChildRows(accounts[u])
    BY <1>4, ChildRowsAre
  <2> QED BY <1>3, <1>5, <2>1
<1>7. ASSUME NEW m \in DOMAIN members, MemberRow(m) \notin gone
       PROVE  RegistryRow(members[m].registry) \notin gone
  <2>1. MemberRow(m) \in ChildRows(members[m].registry)
    BY <1>4, ChildRowsAre
  <2> QED BY <1>3, <1>5, <1>7, <2>1
<1>8. \A m \in DOMAIN members' :
          members'[m] \in [registry : registries', user : DOMAIN accounts' \cup {None}]
  <2> SUFFICES ASSUME NEW m \in DOMAIN members, MemberRow(m) \notin gone
               PROVE  members[m] \in [registry : registries', user : DOMAIN accounts' \cup {None}]
    BY <1>2
  <2>1. members[m].registry \in registries'
    BY <1>5, <1>2, <1>7
  <2>2. ASSUME members[m].user # None PROVE members[m].user \in DOMAIN accounts'
    <3>1. /\ members[m].user \in DOMAIN accounts
          /\ accounts[members[m].user] = members[m].registry
      BY <1>4, <1>5, <2>2 DEF InvitationXorAccount
    <3>2. AccountRow(members[m].user) \notin gone
      BY <1>3, <1>5, <1>7, <3>1
    <3> QED BY <1>2, <3>1, <3>2
  <2> QED BY <1>5, <2>1, <2>2
<1>9. invites' \subseteq DOMAIN members'
  <2> SUFFICES ASSUME NEW n \in invites, InviteRow(n) \notin gone, MemberRow(n) \in gone
               PROVE  FALSE
    BY <1>5, <1>2, <1>2
  <2>1. n \in DOMAIN members /\ n \in MemberId
    BY <1>5
  <2>2. RegistryRow(members[n].registry) \in gone /\ members[n].registry \in RegistryId
    BY <1>3, <1>5, <2>1
  <2>3. InviteRow(n) \in ChildRows(members[n].registry)
    BY <1>4, ChildRowsAre
  <2> QED BY <1>3, <2>2, <2>3
<1>10. CommitOf(p)
  BY <1>3, <1>5, <1>2, <1>9 DEF CommitOf
<1>11. InvitationXorAccount'
  <2> SUFFICES ASSUME NEW m \in DOMAIN members'
               PROVE  IF members'[m].user = None THEN m \in invites'
                      ELSE m \notin invites' /\ accounts'[members'[m].user] = members'[m].registry
    BY DEF InvitationXorAccount
  <2>1. m \in DOMAIN members /\ MemberRow(m) \notin gone /\ members'[m] = members[m]
    BY <1>2
  <2>2. IF members[m].user = None THEN m \in invites
        ELSE m \notin invites /\ accounts[members[m].user] = members[m].registry
    BY <1>4, <2>1 DEF InvitationXorAccount
  <2>3. InviteRow(m) \notin gone
    BY <1>3, <1>5, <2>1
  <2>4. members[m].user # None => accounts'[members[m].user] = accounts[members[m].user]
    BY <1>2, <1>8, <2>1
  <2> QED BY <1>2, <2>1, <2>2, <2>3, <2>4
<1>12. TablesInv'
  BY <1>1, <1>4, <1>5, <1>2, <1>6, <1>8, <1>10, <1>11, CommittedTables
<1> QED BY <1>10, <1>12

\* A commit of any request.
LEMMA CommitStep ==
  ASSUME IInv, NEW p \in Request, Commit(p)
  PROVE  IInv'
<1>1. CommitOf(p) /\ TablesInv'
  BY SignUpCommitStep, UploadCommitStep, RemovalCommitStep DEF Request
<1>2. \A q \in Request : RequestInv(q)'
  <2> SUFFICES ASSUME NEW q \in Request PROVE RequestInv(q)'
    OBVIOUS
  <2>1. CASE q = p
    BY <2>1, CommitEnds
  <2>2. CASE q # p
    BY <1>1, <2>2, OthersRely
  <2> QED BY <2>1, <2>2
<1>3. /\ DOMAIN pc' = Request /\ DOMAIN work' = Request
      /\ target' = target /\ registry' = registry /\ LocksAreSafe'
  BY CommitEnds
<1> QED BY <1>1, <1>2, <1>3 DEF IInv

-----------------------------------------------------------------------------
(* The theorems.                                                           *)

\* Statement, commit or deadlock.
LEMMA StepKeepsIInv ==
  ASSUME IInv, NEW p \in Request, Step(p)
  PROVE  IInv'
<1>1. CASE p \in SignUps /\ SignUp(p)
  BY <1>1, PassInviteGuardStep, DeleteInviteStep, FindRegistryForSignUpStep,
     InsertRegistryStep, InsertAccountStep, LinkMemberStep DEF SignUp
<1>2. CASE p \in Removals /\ Removal(p)
  BY <1>2, ReadMemberStep, LookForAccountStep, DeleteRegistryStep, CascadeStep,
     DeleteMemberStep, CascadeMemberStep DEF Removal
<1>3. CASE p \in Uploads /\ Upload(p)
  <2>1. p \notin SignUps
    BY <1>3, RequestsAreApart
  <2> QED BY <1>3, <2>1, FindRegistryForUploadStep, InsertRegistryStep, InsertMemberStep DEF Upload
<1>4. CASE Commit(p)
  BY <1>4, CommitStep
<1>5. CASE BreakDeadlock(p)
  BY <1>5, BreakDeadlockStep
<1> QED BY <1>1, <1>2, <1>3, <1>4, <1>5 DEF Step

\* The invariant holds of every reachable state.
LEMMA Invariance == Spec => []IInv
<1>1. Init => IInv
  BY InitIInv
<1>2. IInv /\ [Next]_vars => IInv'
  <2> SUFFICES ASSUME IInv, [Next]_vars PROVE IInv'
    OBVIOUS
  <2>1. CASE UNCHANGED vars
    <3>1. /\ pc' = pc /\ target' = target /\ registry' = registry /\ work' = work
          /\ locks' = locks /\ UNCHANGED tables
      BY <2>1 DEF vars
    <3>2. TablesInv' /\ LocksAreSafe'
      BY <3>1, TablesStay DEF IInv, LocksAreSafe
    <3>3. ASSUME NEW q \in Request PROVE RequestInv(q)'
      <4>1. \A row, mode : Holds(q, row, mode) => Holds(q, row, mode)'
        BY <3>1 DEF Holds
      <4>2. RequestInv(q)
        BY DEF IInv
      <4> QED BY <3>1, <4>1, <4>2, RequestStays
    <3> QED BY <3>1, <3>2, <3>3 DEF IInv
  <2> QED BY <2>1, StepKeepsIInv, CrashStep DEF Next
<1> QED BY <1>1, <1>2, PTL DEF Spec

\* What is committed is well formed, and every reference is resolved.
THEOREM TypeCorrect == Spec => []TypeOK
<1>1. IInv => TypeOK
  BY DEF IInv, TablesInv
<1> QED BY <1>1, Invariance, PTL

\* Any number of sign-ups and uploads for one e-mail leave one registry and one
\* account.
THEOREM OnePersonOneAccountHolds == Spec => []OnePersonOneAccount
<1>1. ASSUME NEW S, \A x, y \in S : x = y
      PROVE  Cardinality(S) <= 1
  <2>1. CASE S = {}
    BY <2>1, FS_EmptySet
  <2>2. CASE S # {}
    <3>1. \E x : S = {x}
      BY <1>1, <2>2
    <3> QED BY <3>1, FS_Singleton
  <2> QED BY <2>1, <2>2
<1>2. IInv => OnePersonOneAccount
  BY <1>1 DEF IInv, TablesInv, OnePersonOneAccount
<1> QED BY <1>2, Invariance, PTL

\* Whatever overlaps with a sign-up, its invitation is used up exactly when the
\* membership is linked to the account.
THEOREM InvitationXorAccountHolds == Spec => []InvitationXorAccount
<1>1. IInv => InvitationXorAccount
  BY DEF IInv, TablesInv
<1> QED BY <1>1, Invariance, PTL

-----------------------------------------------------------------------------
(* Refinement: a commit does what the whole request does at once.  What has *)
(* to be known besides is that a removal deletes the registry of a member,  *)
(* or of an account, and spares it only where there is an account.          *)

\* No transaction that is still open will insert a registry with key r.
OldRegistry(r) == r = FirstRegistry \/ pc[r] = "done"

\* The removal has gone on without deleting the registry.
HasSeenAnAccount(p) == pc[p] \in {"delete member", "cascade member", "commit"}
                          /\ RegistryRow(registry[p]) \notin work[p].gone

\* The registry a removal goes by is the one of its membership, if that is still
\* there.  While there is a registry and no account, the membership is there and
\* the removal has not passed the registry by.
FoundBy(p) ==
    pc[p] # "start" =>
       /\ OldRegistry(registry[p])
       /\ target[p] \in DOMAIN members => members[target[p]].registry = registry[p]
       /\ registry[p] \in registries /\ DOMAIN accounts = {} =>
             target[p] \in DOMAIN members /\ ~HasSeenAnAccount(p)

\* What every removal knows.
RefinementInv == \A p \in Removals : FoundBy(p)

\* A statement writes no table, and nobody else's variables.
Works(p) ==
    /\ pc[p] # "done" /\ UNCHANGED tables
    /\ \A q \in Request \ {p} : /\ pc'[q] = pc[q] /\ target'[q] = target[q]
                                /\ registry'[q] = registry[q] /\ work'[q] = work[q]

\* A rollback is a statement of that kind.
LEMMA FailWorks ==
  ASSUME IInv, NEW p \in Request, Fail(p), pc[p] # "done"
  PROVE  Works(p)
  BY DEF IInv, Works, Fail

\* So is every statement of a sign-up before its commit,
LEMMA SignUpWorks ==
  ASSUME IInv, NEW p \in SignUps, SignUp(p)
  PROVE  Works(p)
<1>1. p \in Request
  BY DEF Request
<1>2. CASE PassInviteGuard(p)
  BY <1>1, <1>2 DEF IInv, Works, PassInviteGuard
<1>3. CASE DeleteInvite(p)
  BY <1>1, <1>3 DEF IInv, Works, DeleteInvite, Statement, Writes
<1>4. CASE FindRegistryForSignUp(p)
  BY <1>1, <1>4 DEF IInv, Works, FindRegistryForSignUp, Statement
<1>5. CASE InsertRegistry(p, "insert account")
  BY <1>1, <1>5, FailWorks DEF IInv, Works, InsertRegistry, Statement, Writes
<1>6. CASE InsertAccount(p)
  BY <1>1, <1>6, FailWorks DEF IInv, Works, InsertAccount, Statement, Writes
<1>7. CASE LinkMember(p)
  BY <1>1, <1>7 DEF IInv, Works, LinkMember, Statement, Writes
<1> QED BY <1>2, <1>3, <1>4, <1>5, <1>6, <1>7 DEF SignUp

\* of an upload,
LEMMA UploadWorks ==
  ASSUME IInv, NEW p \in Uploads, Upload(p)
  PROVE  Works(p)
<1>1. p \in Request
  BY DEF Request
<1>2. CASE FindRegistryForUpload(p)
  BY <1>1, <1>2 DEF IInv, Works, FindRegistryForUpload
<1>3. CASE InsertRegistry(p, "insert member")
  BY <1>1, <1>3, FailWorks DEF IInv, Works, InsertRegistry, Statement, Writes
<1>4. CASE InsertMember(p)
  BY <1>1, <1>4, FailWorks DEF IInv, Works, InsertMember, Statement, Writes
<1> QED BY <1>2, <1>3, <1>4 DEF Upload

\* and of a removal.
LEMMA RemovalWorks ==
  ASSUME IInv, NEW p \in Removals, Removal(p)
  PROVE  Works(p)
<1>1. p \in Request
  BY DEF Request
<1>2. CASE ReadMember(p)
  BY <1>1, <1>2 DEF IInv, Works, ReadMember
<1>3. CASE LookForAccount(p)
  BY <1>1, <1>3 DEF IInv, Works, LookForAccount, Statement
<1>4. CASE DeleteRegistry(p)
  BY <1>1, <1>4 DEF IInv, Works, DeleteRegistry, Statement, Writes
<1>5. CASE Cascade(p)
  BY <1>1, <1>5 DEF IInv, Works, Cascade, Statement, Writes
<1>6. CASE DeleteMember(p)
  BY <1>1, <1>6 DEF IInv, Works, DeleteMember, Statement, Writes
<1>7. CASE CascadeMember(p)
  BY <1>1, <1>7 DEF IInv, Works, CascadeMember, Statement, Writes
<1> QED BY <1>2, <1>3, <1>4, <1>5, <1>6, <1>7 DEF Removal

\* Others find what they found.
LEMMA OthersFind ==
  ASSUME IInv, NEW p \in Request, Works(p), NEW q \in Removals, q # p, FoundBy(q)
  PROVE  FoundBy(q)'
<1>1. /\ registries' = registries /\ accounts' = accounts /\ members' = members
      /\ pc'[q] = pc[q] /\ target'[q] = target[q]
      /\ registry'[q] = registry[q] /\ work'[q] = work[q]
  BY DEF Works, tables, Request
<1>2. \A r \in RegistryId : OldRegistry(r) => OldRegistry(r)'
  BY DEF OldRegistry, RegistryId, Works, Request
<1>3. pc[q] # "start" => registry[q] \in RegistryId
  BY RemovalWork DEF RemovalInv
<1>4. RegistryRow(registry[q])' = RegistryRow(registry[q])
  BY <1>1
<1>5. pc'[q] # "start" => OldRegistry(registry[q])'
  BY <1>1, <1>2, <1>3 DEF FoundBy
<1>6. HasSeenAnAccount(q)' <=> HasSeenAnAccount(q)
  BY <1>1, <1>4 DEF HasSeenAnAccount
<1> QED BY <1>1, <1>5, <1>6 DEF FoundBy

\* A statement of a removal that does not begin it finds the same.
LEMMA RemovalGoesOn ==
  ASSUME IInv, NEW p \in Removals, Works(p), FoundBy(p), pc[p] # "start",
         target'[p] = target[p], registry'[p] = registry[p],
         HasSeenAnAccount(p)' => HasSeenAnAccount(p) \/ DOMAIN accounts # {}
                                                   \/ registry[p] \notin registries
  PROVE  FoundBy(p)'
<1>1. registries' = registries /\ accounts' = accounts /\ members' = members
  BY DEF Works, tables
<1>2. registry[p] \in RegistryId /\ OldRegistry(registry[p])
  BY RemovalWork DEF RemovalInv, FoundBy
<1>3. OldRegistry(registry[p])'
  BY <1>2 DEF OldRegistry, RegistryId, Works, Request
<1> QED BY <1>1, <1>3 DEF FoundBy

\* The removal itself: it reads the registry off the membership, and passes it by
\* for an account it sees, or because it is gone.
LEMMA RemovalFinds ==
  ASSUME IInv, NEW p \in Removals, FoundBy(p), Removal(p)
  PROVE  FoundBy(p)'
<1>1. p \in Request /\ Works(p)
  BY RemovalWorks DEF Request
<1>2. CASE ReadMember(p)
  <2>1. PICK m \in DOMAIN members : /\ target' = [target EXCEPT ![p] = m]
                                    /\ registry' = [registry EXCEPT ![p] = members[m].registry]
    BY <1>2 DEF ReadMember
  <2>2. /\ pc[p] = "start" /\ pc' = [pc EXCEPT ![p] = "look for account"]
        /\ registries' = registries /\ accounts' = accounts /\ members' = members
    BY <1>2 DEF ReadMember, tables
  <2>3. target'[p] = m /\ registry'[p] = members[m].registry /\ pc'[p] = "look for account"
    BY <1>1, <2>1, <2>2 DEF IInv
  <2>4. members[m].registry \in registries /\ members[m].registry \in RegistryId
    BY DEF IInv, TablesInv, TypeOK, IsTable
  <2>5. OldRegistry(members[m].registry)
    BY <2>4 DEF IInv, TablesInv, OldRegistry
  <2>6. OldRegistry(registry[p])'
    BY <1>1, <2>2, <2>3, <2>4, <2>5 DEF OldRegistry, RegistryId, Request, IInv
  <2>7. ~HasSeenAnAccount(p)'
    BY <2>3 DEF HasSeenAnAccount
  <2> QED BY <2>2, <2>3, <2>6, <2>7 DEF FoundBy
<1>3. CASE LookForAccount(p)
  <2>1. /\ pc[p] = "look for account" /\ target' = target /\ registry' = registry
        /\ pc'[p] = IF \E u \in DOMAIN accounts : accounts[u] = registry[p]
                    THEN "delete member" ELSE "delete registry"
    BY <1>1, <1>3 DEF LookForAccount, Statement, IInv
  <2>2. HasSeenAnAccount(p)' => DOMAIN accounts # {}
    BY <2>1 DEF HasSeenAnAccount
  <2> QED BY <1>1, <2>1, <2>2, RemovalGoesOn
<1>4. CASE DeleteRegistry(p)
  <2>1. /\ pc[p] = "delete registry" /\ target' = target /\ registry' = registry
        /\ pc'[p] = IF registry[p] \in registries THEN "cascade" ELSE "delete member"
    BY <1>1, <1>4 DEF DeleteRegistry, Statement, IInv
  <2>2. HasSeenAnAccount(p)' => registry[p] \notin registries
    BY <2>1 DEF HasSeenAnAccount
  <2> QED BY <1>1, <2>1, <2>2, RemovalGoesOn
<1>5. CASE Cascade(p)
  <2>1. /\ pc[p] = "cascade" /\ target' = target /\ registry' = registry
        /\ work'[p] = Gone(p, ChildRows(registry[p]))
    BY <1>1, <1>5 DEF Cascade, Statement, Writes, IInv
  <2>2. work[p].gone = {RegistryRow(registry[p])}
    BY <2>1, RemovalWork DEF RemovalInv
  <2>3. RegistryRow(registry'[p]) \in work'[p].gone
    <3>1. work'[p].gone = work[p].gone \cup ChildRows(registry[p])
      BY <2>1, GoneRows
    <3> QED BY <2>1, <2>2, <3>1
  <2>4. ~HasSeenAnAccount(p)'
    BY <2>3 DEF HasSeenAnAccount, RegistryRow
  <2> QED BY <1>1, <2>1, <2>4, RemovalGoesOn
<1>6. CASE DeleteMember(p) \/ CascadeMember(p)
  <2>1. /\ pc[p] \in {"delete member", "cascade member"}
        /\ target' = target /\ registry' = registry
        /\ \E rows : work'[p] = Gone(p, rows)
    <3>1. CASE DeleteMember(p)
      <4>1. /\ pc[p] = "delete member" /\ target' = target /\ registry' = registry
            /\ work'[p] = Gone(p, {MemberRow(target[p])})
        BY <1>1, <3>1 DEF DeleteMember, Statement, Writes, IInv
      <4> QED BY <4>1
    <3>2. CASE CascadeMember(p)
      <4>1. /\ pc[p] = "cascade member" /\ target' = target /\ registry' = registry
            /\ work'[p] = Gone(p, {InviteRow(target[p])})
        BY <1>1, <3>2 DEF CascadeMember, Statement, Writes, IInv
      <4> QED BY <4>1
    <3> QED BY <1>6, <3>1, <3>2
  <2>2. work[p].gone \subseteq work'[p].gone
    BY <2>1, GoneRows
  <2>3. HasSeenAnAccount(p)' => HasSeenAnAccount(p)
    BY <2>1, <2>2 DEF HasSeenAnAccount, RegistryRow
  <2> QED BY <1>1, <2>1, <2>3, RemovalGoesOn
<1> QED BY <1>2, <1>3, <1>4, <1>5, <1>6 DEF Removal

\* A statement keeps what all removals found.
LEMMA StatementsKeepFindings ==
  ASSUME IInv, RefinementInv, NEW p \in Request, Works(p),
         p \in Removals => FoundBy(p)'
  PROVE  RefinementInv'
  BY OthersFind DEF RefinementInv

\* A removal that fails has seen nothing.
LEMMA FailureKeepsFindings ==
  ASSUME IInv, RefinementInv, NEW p \in Request, Fail(p), pc[p] \notin {"start", "done"}
  PROVE  RefinementInv'
<1>1. Works(p) /\ pc'[p] = "failed" /\ target' = target /\ registry' = registry
  BY FailWorks DEF Fail, IInv
<1>2. ~HasSeenAnAccount(p)'
  BY <1>1 DEF HasSeenAnAccount
<1>3. p \in Removals => FoundBy(p)'
  BY <1>1, <1>2, RemovalGoesOn DEF RefinementInv
<1> QED BY <1>1, <1>3, StatementsKeepFindings

\* Nor does the end of the process disturb what they found.
LEMMA CrashKeepsFindings ==
  ASSUME IInv, RefinementInv, Crash
  PROVE  RefinementInv'
<1> SUFFICES ASSUME NEW p \in Removals PROVE FoundBy(p)'
  BY DEF RefinementInv
<1>1. /\ pc' = [q \in Request |-> IF Active(q) THEN "failed" ELSE pc[q]]
      /\ registries' = registries /\ accounts' = accounts /\ members' = members
      /\ target' = target /\ registry' = registry
  BY DEF Crash, tables
<1>2. /\ pc'[p] \in {"start", "done", "failed"} /\ (pc'[p] # "start" => pc[p] # "start")
      /\ p \in Request
  BY <1>1 DEF Active, Ended, Request
<1>3. ~HasSeenAnAccount(p)'
  BY <1>2 DEF HasSeenAnAccount
<1>4. pc[p] # "start" => registry[p] \in RegistryId /\ OldRegistry(registry[p])
  BY RemovalWork DEF RemovalInv, RefinementInv, FoundBy
<1>5. pc[p] # "start" => OldRegistry(registry[p])'
  BY <1>1, <1>4 DEF OldRegistry, RegistryId, Request, Active, Ended
<1> QED BY <1>1, <1>2, <1>3, <1>5 DEF RefinementInv, FoundBy

\* A commit keeps what others found, if the registry stays in use.
LEMMA CommitKeepsFindings ==
  ASSUME IInv, RefinementInv, NEW p \in Request, Commit(p), CommitOf(p),
         registries' \subseteq registries \cup {p},
         registries' # {} /\ DOMAIN accounts' = {} =>
            DOMAIN accounts = {} /\ DOMAIN members \subseteq DOMAIN members'
  PROVE  RefinementInv'
<1> SUFFICES ASSUME NEW q \in Removals PROVE FoundBy(q)'
  BY DEF RefinementInv
<1>1. /\ pc[p] = "commit" /\ pc'[p] = "done" /\ target' = target /\ registry' = registry
      /\ \A x \in Request \ {p} : pc'[x] = pc[x] /\ work'[x] = work[x]
      /\ \A x \in Request : pc[x] = "done" => pc'[x] = "done"
  BY CommitEnds
<1>2. q \in Request /\ RemovalInv(q) /\ FoundBy(q)
  BY RemovalWork DEF RefinementInv
<1>3. SUFFICES ASSUME pc[q] # "start"
               PROVE  FoundBy(q)'
  BY <1>1, <1>2 DEF FoundBy
<1>4. /\ registry[q] \in RegistryId /\ OldRegistry(registry[q])
      /\ target[q] \in MemberId /\ OldMember(target[q])
  BY <1>2, <1>3 DEF FoundBy, RemovalInv
<1>5. OldRegistry(registry[q])'
  BY <1>1, <1>4 DEF OldRegistry, RegistryId, Request
<1>6. registry[q] # p
  BY <1>1, <1>4, RequestsAreApart DEF OldRegistry, Request
<1>7. target[q] \in DOMAIN members' =>
         target[q] \in DOMAIN members /\ members'[target[q]].registry = members[target[q]].registry
  <2>1. p \in Uploads => target[q] # p
    BY <1>1, <1>4, RequestsAreApart DEF OldMember
  <2> QED BY <2>1 DEF CommitOf
<1>8. HasSeenAnAccount(q)' => HasSeenAnAccount(q)
  <2>1. q # p => pc'[q] = pc[q] /\ work'[q] = work[q] /\ registry'[q] = registry[q]
    BY <1>1, <1>2
  <2> QED BY <1>1, <2>1 DEF HasSeenAnAccount, RegistryRow
<1>9. registry[q] \in registries' => registry[q] \in registries
  BY <1>6
<1>10. target'[q] = target[q] /\ registry'[q] = registry[q]
  BY <1>1
<1> QED BY <1>2, <1>3, <1>5, <1>7, <1>8, <1>9, <1>10 DEF FoundBy

-----------------------------------------------------------------------------
(* The steps of CondominiumRegistry that the commits are.                  *)

\* A sign-up commits as one step, with its membership or after the removal of it.
LEMMA SignUpRefines ==
  ASSUME IInv, NEW p \in SignUps, Commit(p)
  PROVE  SignUpAtOnce \/ SignUpAfterRemoval
<1> SUFFICES ASSUME NEW m, m = target[p], NEW r, r = registry[p]
             PROVE  SignUpAtOnce \/ SignUpAfterRemoval
  OBVIOUS
<1>1. /\ p \in Request /\ p \in UserId /\ p \in RegistryId
      /\ p \notin Uploads /\ p \notin Removals
  BY RequestsAreApart DEF Request, UserId, RegistryId
<1>2. /\ registries' = registries \cup {x \in {p} : work[p].registry = p}
      /\ r \in registries'
      /\ DOMAIN accounts = {} /\ DOMAIN accounts' = {p} /\ accounts'[p] = r
      /\ DOMAIN members' = DOMAIN members
      /\ invites' = invites \ {m}
      /\ work[p].registry = p => registries = {}
  BY SignUpCommit
<1>3. \A x \in DOMAIN members :
         members'[x] = IF x = m THEN [members[x] EXCEPT !.user = p] ELSE members[x]
  <2>1. \A x \in DOMAIN members :
           members'[x] = IF x = target[p] THEN [members[x] EXCEPT !.user = p] ELSE members[x]
    BY SignUpCommit
  <2> QED BY <2>1
<1>4. m \in MemberId /\ r \in RegistryId
  <2>1. pc[p] = "commit" /\ SignUpInv(p)
    BY <1>1 DEF Commit, IInv, RequestInv
  <2> QED BY <2>1 DEF SignUpInv
<1>5. /\ invites \subseteq DOMAIN members
      /\ \A x \in DOMAIN members : members[x] \in [registry : registries, user : {None}]
      /\ \A x \in DOMAIN members : x \in invites
  <2>1. TypeOK /\ InvitationXorAccount
    BY DEF IInv, TablesInv
  <2>2. \A x \in DOMAIN members : members[x] \in [registry : registries, user : {None}]
    BY <1>2, <2>1 DEF TypeOK, IsTable
  <2> QED BY <2>1, <2>2 DEF TypeOK, InvitationXorAccount
<1>6. r \in registries \/ (r = p /\ registries = {})
  BY <1>2
<1>7. r \in Registry!SignUpRegistries(Person.email, Person.cpf)
  BY <1>2, <1>4, <1>6 DEF Registry!SignUpRegistries, Registry!RegistriesOf, Registry!HasAccount, Person
<1>8. Registry!TransferToUser(m, Person.email, Person.cpf, r, p)
  <2>1. [x \in registries |-> Person]'
           = Registry!With([x \in registries |-> Person],
                           Registry!Row(r, Registry!UniqueRegistry(Person.email, Person.cpf)))
    <3>1. Registry!UniqueRegistry(Person.email, Person.cpf) = Person
      BY DEF Registry!UniqueRegistry, Person
    <3>2. [x \in registries' |-> Person]
             = Registry!With([x \in registries |-> Person], Registry!Row(r, Person))
      BY <1>2, <1>6 DEF Registry!With, Registry!Row
    <3> QED BY <3>1, <3>2
  <2>2. [u \in DOMAIN accounts |-> [registry |-> accounts[u]]]'
           = Registry!With([u \in DOMAIN accounts |-> [registry |-> accounts[u]]],
                           Registry!Row(p, Registry!User(r)))
    BY <1>2 DEF Registry!With, Registry!Row, Registry!User
  <2>3. [x \in invites |-> [condo |-> x, recipient |-> Person.email, cpf |-> Person.cpf]]'
           = Registry!InvitesAfterSignUp(m)
    BY <1>2 DEF Registry!InvitesAfterSignUp, Registry!Without, Registry!Restrict
  <2>4. [x \in DOMAIN members |->
           [role |-> "community", registry |-> members[x].registry,
            condo |-> x, user |-> members[x].user]]'
           = Registry!MembersAfterSignUp(m, p)
    <3> DEFINE row(x) == [role |-> "community", registry |-> members[x].registry,
                          condo |-> x, user |-> members[x].user]
               linked(x) == IF x = m THEN [row(x) EXCEPT !.user = p] ELSE row(x)
    <3>1. \A x \in DOMAIN members : /\ members'[x].registry = members[x].registry
                                    /\ members'[x].user = IF x = m THEN p ELSE members[x].user
      BY <1>3, <1>5
    <3>2. Registry!MembersAfterSignUp(m, p) = [x \in DOMAIN members |-> linked(x)]
      BY DEF Registry!MembersAfterSignUp
    <3>3. ASSUME NEW x \in DOMAIN members
          PROVE  [role |-> "community", registry |-> members'[x].registry,
                  condo |-> x, user |-> members'[x].user] = linked(x)
      BY <3>1
    <3> HIDE DEF linked
    <3>4. [x \in DOMAIN members |->
             [role |-> "community", registry |-> members'[x].registry,
              condo |-> x, user |-> members'[x].user]]
             = [x \in DOMAIN members |-> linked(x)]
      BY <3>3
    <3> QED BY <1>2, <3>2, <3>4
  <2>5. UNCHANGED <<[c \in MemberId |-> [owner |-> None, cnpj |-> None]], DOMAIN members>>
    BY <1>2
  <2> QED BY <1>7, <2>1, <2>2, <2>3, <2>4, <2>5 DEF Registry!TransferToUser
<1>9. CASE m \in DOMAIN members
  <2>1. Registry!MatchesInvite(m, Person.email, Person.cpf)
    BY <1>5, <1>9 DEF Registry!MatchesInvite
  <2>2. Registry!SignUp(m, Person.email, Person.cpf, r, p)
    BY <1>2, <1>8, <2>1 DEF Registry!SignUp
  <2> QED BY <1>1, <1>4, <2>2 DEF SignUpAtOnce
<1>10. CASE m \notin DOMAIN members
  BY <1>1, <1>4, <1>8, <1>10 DEF SignUpAfterRemoval
<1> QED BY <1>9, <1>10

\* An upload commits as one step, with a registry of its own or the one it found.
LEMMA UploadRefines ==
  ASSUME IInv, NEW p \in Uploads, Commit(p)
  PROVE  UploadAtOnce
<1> SUFFICES ASSUME NEW r, r = registry[p]
             PROVE  UploadAtOnce
  OBVIOUS
<1>1. /\ registries' = registries \cup {x \in {p} : work[p].registry = p}
      /\ r \in registries'
      /\ DOMAIN accounts' = DOMAIN accounts
      /\ \A u \in DOMAIN accounts : accounts'[u] = accounts[u]
      /\ p \notin DOMAIN members
      /\ DOMAIN members' = DOMAIN members \cup {p}
      /\ members'[p] = [registry |-> r, user |-> None]
      /\ \A m \in DOMAIN members : members'[m] = members[m]
      /\ invites' = invites \cup {p}
  BY UploadCommit
<1>2. invites \subseteq DOMAIN members
  BY DEF IInv, TablesInv, TypeOK
<1>3. p \notin invites
  BY <1>1, <1>2
<1> DEFINE b == Row(p, Person)
<1>4. DOMAIN b = {p} /\ b[p] = Person
  BY DEF Row
<1> HIDE DEF b
<1>5. \E fresh \in {EmptyTable, Row(p, p)} :
         /\ [x \in registries |-> Person]' = Registry!RegistriesAfter(b, fresh)
         /\ registries' = registries \cup DOMAIN fresh
  <2>1. CASE work[p].registry # p
    <3>1. DOMAIN EmptyTable = {} /\ registries' = registries
      BY <1>1, <2>1 DEF EmptyTable
    <3>2. [x \in registries' |-> Person] = Registry!RegistriesAfter(b, EmptyTable)
      BY <3>1 DEF Registry!RegistriesAfter, Registry!With
    <3> QED BY <3>1, <3>2
  <2>2. CASE work[p].registry = p
    <3>1. DOMAIN Row(p, p) = {p} /\ Row(p, p)[p] = p /\ registries' = registries \cup {p}
      BY <1>1, <2>2 DEF Row
    <3>2. [x \in registries' |-> Person] = Registry!RegistriesAfter(b, Row(p, p))
      BY <1>4, <3>1 DEF Registry!RegistriesAfter, Registry!With
    <3> QED BY <3>1, <3>2
  <2> QED BY <2>1, <2>2
<1>6. PICK fresh \in {EmptyTable, Row(p, p)} :
         /\ [x \in registries |-> Person]' = Registry!RegistriesAfter(b, fresh)
         /\ registries' = registries \cup DOMAIN fresh
  BY <1>5
<1>7. Registry!CreateMembers(p, b, fresh)
  <2>1. \A i \in invites : i # p
    BY <1>3
  <2> DEFINE found == [m \in {p} |-> r]
             row(m) == [role |-> "community", registry |-> members[m].registry,
                        condo |-> m, user |-> members[m].user]
  <2>2. found \in [DOMAIN b -> registries \cup DOMAIN fresh] /\ found[p] = r
    BY <1>1, <1>4, <1>6
  <2>3. [x \in registries |-> Person]'[r] = Person
    BY <1>1
  <2>4. Registry!IsFoundBy([x \in registries |-> Person]'[found[p]], b[p])
    BY <1>4, <2>2, <2>3 DEF Registry!IsFoundBy
  <2>5. [m \in DOMAIN members |-> row(m)]'
           = Registry!With([m \in DOMAIN members |-> row(m)],
                [m \in DOMAIN b |->
                   Registry!CondominiumMember(Registry!Community, found[m], p, None)])
    <3>1. Registry!CondominiumMember(Registry!Community, r, p, None)
             = [role |-> "community", registry |-> r, condo |-> p, user |-> None]
      BY DEF Registry!CondominiumMember, Registry!Community
    <3> QED BY <1>1, <1>4, <2>2, <3>1 DEF Registry!With
  <2>6. (DOMAIN members)' = DOMAIN members \cup DOMAIN b
    BY <1>1, <1>4
  <2>7. [m \in invites |-> [condo |-> m, recipient |-> Person.email, cpf |-> Person.cpf]]'
           = Registry!With(
                [m \in invites |-> [condo |-> m, recipient |-> Person.email, cpf |-> Person.cpf]],
                [m \in DOMAIN b |-> Registry!Invite(p, b[m].email, b[m].cpf)])
    BY <1>1, <1>3, <1>4 DEF Registry!With, Registry!Invite
  <2>8. UNCHANGED <<[u \in DOMAIN accounts |-> [registry |-> accounts[u]]],
                    [c \in MemberId |-> [owner |-> None, cnpj |-> None]]>>
    BY <1>1
  <2> QED BY <1>4, <1>6, <2>1, <2>2, <2>4, <2>5, <2>6, <2>7, <2>8 DEF Registry!CreateMembers
<1> QED BY <1>6, <1>7 DEF UploadAtOnce, b

\* Deleting the only registry deletes everything.
LEMMA DeletesAll ==
  ASSUME IInv, NEW rids, registries \subseteq rids, NEW mids,
         registries' = {}, DOMAIN accounts' = {}, DOMAIN members' = {}, invites' = {}
  PROVE  Registry!DeleteRows(rids, {}, mids)
<1> DEFINE mem == [m \in DOMAIN members |->
                     [role |-> "community", registry |-> members[m].registry,
                      condo |-> m, user |-> members[m].user]]
           inv == [m \in invites |->
                     [condo |-> m, recipient |-> Person.email, cpf |-> Person.cpf]]
           users == [u \in DOMAIN accounts |-> [registry |-> accounts[u]]]
           condos == [c \in MemberId |-> [owner |-> None, cnpj |-> None]]
           goneMembers == Registry!GoneMembers(rids, {}, mids)
           goneInvites == Registry!GoneInvites(rids, {}, mids)
<1>1. /\ \A u \in DOMAIN accounts : accounts[u] \in registries
      /\ \A m \in DOMAIN members : members[m].registry \in registries
      /\ DOMAIN accounts \subseteq UserId /\ invites \subseteq DOMAIN members
  BY DEF IInv, TablesInv, TypeOK, IsTable
<1>2. None \notin DOMAIN accounts
  BY <1>1, RequestsAreApart DEF UserId, RegistryId
<1>3. Registry!GoneUsers(rids) = DOMAIN accounts
  BY <1>1 DEF Registry!GoneUsers
<1>4. Registry!GoneCondos(rids, {}) = {}
  BY <1>2, <1>3 DEF Registry!GoneCondos
<1>5. DOMAIN members \subseteq goneMembers
  BY <1>1 DEF Registry!GoneMembers
<1>6. invites \subseteq goneInvites
  BY <1>1, <1>5 DEF Registry!GoneInvites
<1>7. [r \in registries |-> Person]' = Registry!Without([r \in registries |-> Person], rids)
  BY DEF Registry!Without, Registry!Restrict
<1>8. users' = Registry!Without(users, Registry!GoneUsers(rids))
  BY <1>3 DEF Registry!Without, Registry!Restrict
<1>9. condos' = Registry!Without(condos, Registry!GoneCondos(rids, {}))
  BY <1>4 DEF Registry!Without, Registry!Restrict
<1> HIDE DEF goneMembers, goneInvites
<1>10. mem' = Registry!Without(mem, goneMembers)
  BY <1>5 DEF Registry!Without, Registry!Restrict
<1>11. (DOMAIN members)' = DOMAIN members \ Registry!GoneInfos(rids, {}, mids)
  BY <1>5 DEF Registry!GoneInfos, goneMembers
<1>12. inv' = Registry!Without(inv, goneInvites)
  BY <1>6 DEF Registry!Without, Registry!Restrict
<1> QED BY <1>7, <1>8, <1>9, <1>10, <1>11, <1>12
     DEF Registry!DeleteRows, goneMembers, goneInvites

\* Deleting a membership alone deletes its invitation.
LEMMA DeletesOne ==
  ASSUME IInv, NEW m \in DOMAIN members,
         registries' = registries, DOMAIN accounts' = DOMAIN accounts,
         \A u \in DOMAIN accounts : accounts'[u] = accounts[u],
         DOMAIN members' = DOMAIN members \ {m},
         \A n \in DOMAIN members' : members'[n] = members[n],
         invites' = invites \ {m}
  PROVE  Registry!DeleteRows({}, {}, {m})
<1> DEFINE mem == [n \in DOMAIN members |->
                     [role |-> "community", registry |-> members[n].registry,
                      condo |-> n, user |-> members[n].user]]
           inv == [n \in invites |->
                     [condo |-> n, recipient |-> Person.email, cpf |-> Person.cpf]]
           users == [u \in DOMAIN accounts |-> [registry |-> accounts[u]]]
           condos == [c \in MemberId |-> [owner |-> None, cnpj |-> None]]
<1>1. Registry!GoneUsers({}) = {}
  BY DEF Registry!GoneUsers
<1>2. Registry!GoneCondos({}, {}) = {}
  BY <1>1 DEF Registry!GoneCondos
<1>3. Registry!GoneMembers({}, {}, {m}) = {m}
  BY <1>1, <1>2 DEF Registry!GoneMembers
<1>4. Registry!GoneInvites({}, {}, {m}) = invites \cap {m}
  BY <1>2, <1>3 DEF Registry!GoneInvites
<1>5. [r \in registries |-> Person]' = Registry!Without([r \in registries |-> Person], {})
  BY DEF Registry!Without, Registry!Restrict
<1>6. users' = Registry!Without(users, Registry!GoneUsers({}))
  BY <1>1 DEF Registry!Without, Registry!Restrict
<1>7. condos' = Registry!Without(condos, Registry!GoneCondos({}, {}))
  BY <1>2 DEF Registry!Without, Registry!Restrict
<1>8. mem' = Registry!Without(mem, Registry!GoneMembers({}, {}, {m}))
  BY <1>3 DEF Registry!Without, Registry!Restrict
<1>9. (DOMAIN members)' = DOMAIN members \ Registry!GoneInfos({}, {}, {m})
  BY <1>3 DEF Registry!GoneInfos
<1>10. inv' = Registry!Without(inv, Registry!GoneInvites({}, {}, {m}))
  BY <1>4 DEF Registry!Without, Registry!Restrict
<1> QED BY <1>5, <1>6, <1>7, <1>8, <1>9, <1>10 DEF Registry!DeleteRows

\* With the registry everything goes; without it one membership at most, and the
\* person has an account.
LEMMA RemovalDeletes ==
  ASSUME IInv, NEW p \in Removals, FoundBy(p), Commit(p)
  PROVE  \/ /\ registries' = {} /\ DOMAIN accounts' = {}
            /\ DOMAIN members' = {} /\ invites' = {}
            /\ DOMAIN accounts = {} => target[p] \in DOMAIN members
            /\ registries # {}
         \/ /\ registries' = registries /\ DOMAIN accounts' = DOMAIN accounts
            /\ DOMAIN members' = DOMAIN members \ {target[p]}
            /\ invites' = invites \ {target[p]}
            /\ target[p] \in DOMAIN members => DOMAIN accounts # {}
<1> DEFINE gone == work[p].gone
           m == target[p]
<1>1. /\ registries' = {r \in registries : RegistryRow(r) \notin gone}
      /\ DOMAIN accounts' = {u \in DOMAIN accounts : AccountRow(u) \notin gone}
      /\ DOMAIN members' = {n \in DOMAIN members : MemberRow(n) \notin gone}
      /\ invites' = {n \in invites : InviteRow(n) \notin gone}
      /\ \A r \in RegistryId : RegistryRow(r) \in gone =>
            r = registry[p] /\ ChildRows(r) \subseteq gone
      /\ \A u \in DOMAIN accounts : AccountRow(u) \in gone => RegistryRow(accounts[u]) \in gone
      /\ \A n \in DOMAIN members : MemberRow(n) \in gone =>
            n = m \/ RegistryRow(members[n].registry) \in gone
      /\ MemberRow(m) \in gone /\ InviteRow(m) \in gone
      /\ \A n \in MemberId : InviteRow(n) \in gone => MemberRow(n) \in gone
  BY RemovalCommit
<1>2. pc[p] = "commit"
  BY DEF Commit
<1>3. TypeOK /\ \A r, s \in registries : r = s
  BY DEF IInv, TablesInv
<1>4. /\ registries \subseteq RegistryId /\ invites \subseteq DOMAIN members
      /\ DOMAIN members \subseteq MemberId
      /\ \A u \in DOMAIN accounts : accounts[u] \in registries
      /\ \A n \in DOMAIN members : members[n].registry \in registries
  BY <1>3 DEF TypeOK, IsTable
<1> HIDE DEF gone
<1>5. CASE \E r \in registries : RegistryRow(r) \in gone
  <2>1. PICK r \in registries : RegistryRow(r) \in gone
    BY <1>5
  <2>2. registries = {r} /\ r = registry[p] /\ ChildRows(r) \subseteq gone
    BY <1>1, <1>3, <1>4, <2>1
  <2>3. registries' = {}
    BY <1>1, <2>1, <2>2
  <2>4. \A u \in DOMAIN accounts : AccountRow(u) \in gone
    BY <1>3, <1>4, <2>2, ChildRowsAre
  <2>5. \A n \in DOMAIN members : MemberRow(n) \in gone
    BY <1>3, <1>4, <2>2, ChildRowsAre
  <2>6. \A n \in invites : InviteRow(n) \in gone
    BY <1>3, <1>4, <2>2, ChildRowsAre
  <2>7. DOMAIN accounts = {} => m \in DOMAIN members
    BY <1>2, <2>2 DEF FoundBy
  <2> QED BY <1>1, <2>1, <2>3, <2>4, <2>5, <2>6, <2>7
<1>6. CASE \A r \in registries : RegistryRow(r) \notin gone
  <2>1. registries' = registries
    BY <1>1, <1>6
  <2>2. DOMAIN accounts' = DOMAIN accounts
    BY <1>1, <1>4, <1>6
  <2>3. \A n \in DOMAIN members : MemberRow(n) \in gone <=> n = m
    BY <1>1, <1>4, <1>6
  <2>4. \A n \in invites : InviteRow(n) \in gone <=> n = m
    BY <1>1, <1>4, <2>3
  <2>5. m \in DOMAIN members => DOMAIN accounts # {}
    <3>1. m \in DOMAIN members => registry[p] \in registries
      BY <1>2, <1>4 DEF FoundBy
    <3>2. registry[p] \in registries => HasSeenAnAccount(p)
      BY <1>2, <1>6 DEF HasSeenAnAccount, gone
    <3> QED BY <1>2, <3>1, <3>2 DEF FoundBy
  <2> QED BY <1>1, <2>1, <2>2, <2>3, <2>4, <2>5
<1> QED BY <1>5, <1>6

\* What a removal leaves in a table is as it was.
LEMMA RemovalKeepsRows ==
  ASSUME IInv, NEW p \in Removals, Commit(p)
  PROVE  /\ \A u \in DOMAIN accounts' : accounts'[u] = accounts[u]
         /\ \A m \in DOMAIN members' : members'[m] = members[m]
         /\ IsFcn(accounts)' /\ IsFcn(members)'
  BY RemovalCommit

\* A removal commits as one step: the one it is, the deletion of the person's
\* account, or, when everything is gone already, none.
LEMMA RemovalRefines ==
  ASSUME IInv, NEW p \in Removals, FoundBy(p), Commit(p)
  PROVE  RemovalAtOnce \/ RemovalAfterSignUp \/ UNCHANGED tables
<1> SUFFICES ASSUME NEW m, m = target[p]
             PROVE  RemovalAtOnce \/ RemovalAfterSignUp \/ UNCHANGED tables
  OBVIOUS
<1>1. /\ \A r, s \in registries : r = s
      /\ \A u \in DOMAIN accounts : accounts[u] \in registries /\ u \in UserId
      /\ \A n \in DOMAIN members : members[n].registry \in registries
      /\ invites \subseteq DOMAIN members
  BY DEF IInv, TablesInv, TypeOK, IsTable
<1>2. CASE /\ registries' = {} /\ DOMAIN accounts' = {}
           /\ DOMAIN members' = {} /\ invites' = {}
           /\ DOMAIN accounts = {} => m \in DOMAIN members
  <2>1. CASE DOMAIN accounts = {}
    <3>1. m \in DOMAIN members
      BY <1>2, <2>1
    <3> DEFINE r == members[m].registry
    <3>2. registries \subseteq {r}
      BY <1>1, <3>1
    <3> HIDE DEF r
    <3>3. Registry!DeleteRows({r}, {}, {m})
      BY <1>2, <3>2, DeletesAll
    <3>4. ~Registry!HasAccount(r)
      BY <2>1 DEF Registry!HasAccount
    <3>5. Registry!RemoveMemberRow(m)
      BY <3>1, <3>3, <3>4 DEF Registry!RemoveMemberRow, r
    <3> QED BY <3>1, <3>5 DEF RemovalAtOnce
  <2>2. CASE DOMAIN accounts # {}
    <3>1. PICK u \in DOMAIN accounts : TRUE
      BY <2>2
    <3>2. registries \subseteq {accounts[u]} /\ u \in UserId
      BY <1>1
    <3>3. Registry!DeleteRows({accounts[u]}, {}, {})
      BY <1>2, <3>2, DeletesAll
    <3>4. Registry!DeleteUser(u)
      BY <3>3 DEF Registry!DeleteUser
    <3> QED BY <3>2, <3>4 DEF RemovalAfterSignUp
  <2> QED BY <2>1, <2>2
<1>3. CASE /\ registries' = registries /\ DOMAIN accounts' = DOMAIN accounts
           /\ DOMAIN members' = DOMAIN members \ {m} /\ invites' = invites \ {m}
           /\ m \in DOMAIN members => DOMAIN accounts # {}
  <2>1. /\ \A u \in DOMAIN accounts : accounts'[u] = accounts[u]
        /\ \A n \in DOMAIN members' : members'[n] = members[n]
        /\ IsFcn(accounts)' /\ IsFcn(members)'
    BY <1>3, RemovalKeepsRows
  <2>2. CASE m \in DOMAIN members
    <3> DEFINE r == members[m].registry
    <3>1. PICK u \in DOMAIN accounts : accounts[u] = r
      BY <1>1, <1>3, <2>2
    <3>2. Registry!HasAccount(r)
      BY <3>1 DEF Registry!HasAccount
    <3>3. Registry!DeleteRows({}, {}, {m})
      BY <1>3, <2>1, <2>2, DeletesOne
    <3>4. Registry!RemoveMemberRow(m)
      BY <2>2, <3>2, <3>3 DEF Registry!RemoveMemberRow
    <3> QED BY <2>2, <3>4 DEF RemovalAtOnce
  <2>3. CASE m \notin DOMAIN members
    <3>1. IsFcn(accounts) /\ IsFcn(members)
      BY DEF IInv, TablesInv, TypeOK, IsTable, IsFcn
    <3>2. DOMAIN members' = DOMAIN members /\ invites' = invites
      BY <1>1, <1>3, <2>3
    <3>3. accounts' = accounts
      BY <1>3, <2>1, <3>1 DEF IsFcn
    <3>4. members' = members
      BY <2>1, <3>1, <3>2 DEF IsFcn
    <3> QED BY <1>3, <3>2, <3>3, <3>4 DEF tables
  <2> QED BY <2>2, <2>3
<1> QED BY <1>2, <1>3, RemovalDeletes

-----------------------------------------------------------------------------
(* The refinement, from Init on.                                           *)

\* A commit keeps what the other removals found: it ends with an account, with
\* no registry, or with every membership that had no account in place.
LEMMA CommitFindings ==
  ASSUME IInv, RefinementInv, NEW p \in Request, Commit(p)
  PROVE  RefinementInv'
<1>1. CommitOf(p)
  BY SignUpCommitStep, UploadCommitStep, RemovalCommitStep DEF Request
<1>2. CASE p \in SignUps
  <2>1. registries' = registries \cup {r \in {p} : work[p].registry = p}
    BY <1>2, SignUpCommit
  <2>2. DOMAIN accounts' = {p}
    BY <1>2, SignUpCommit
  <2>3. registries' \subseteq registries \cup {p}
    BY <2>1
  <2> QED BY <1>1, <2>2, <2>3, CommitKeepsFindings
<1>3. CASE p \in Uploads
  <2>1. registries' = registries \cup {r \in {p} : work[p].registry = p}
    BY <1>3, UploadCommit
  <2>2. DOMAIN accounts' = DOMAIN accounts /\ DOMAIN members' = DOMAIN members \cup {p}
    BY <1>3, UploadCommit
  <2>3. registries' \subseteq registries \cup {p}
    BY <2>1
  <2> QED BY <1>1, <2>2, <2>3, CommitKeepsFindings
<1>4. CASE p \in Removals
  <2>1. \/ registries' = {}
        \/ /\ registries' = registries /\ DOMAIN accounts' = DOMAIN accounts
           /\ DOMAIN members' = DOMAIN members \ {target[p]}
           /\ target[p] \in DOMAIN members => DOMAIN accounts # {}
    BY <1>4, RemovalDeletes DEF RefinementInv
  <2>2. registries' # {} /\ DOMAIN accounts' = {} =>
           DOMAIN accounts = {} /\ DOMAIN members \subseteq DOMAIN members'
    BY <2>1
  <2>3. registries' \subseteq registries \cup {p}
    BY <2>1
  <2> QED BY <1>1, <2>2, <2>3, CommitKeepsFindings
<1> QED BY <1>2, <1>3, <1>4 DEF Request

\* The statements of a request, or its deadlock, write no table; its commit is
\* the request.
LEMMA StepIsRequest ==
  ASSUME IInv, RefinementInv, NEW p \in Request, Step(p)
  PROVE  /\ RefinementInv'
         /\ \/ UNCHANGED tables
            \/ SignUpAtOnce \/ RemovalAtOnce \/ UploadAtOnce
            \/ SignUpAfterRemoval \/ RemovalAfterSignUp
<1>1. CASE p \in SignUps /\ SignUp(p)
  <2>1. p \notin Removals
    BY <1>1, RequestsAreApart
  <2>2. Works(p)
    BY <1>1, SignUpWorks
  <2>3. RefinementInv'
    BY <2>1, <2>2, StatementsKeepFindings
  <2> QED BY <2>2, <2>3 DEF Works
<1>2. CASE p \in Removals /\ Removal(p)
  <2>1. Works(p) /\ FoundBy(p)'
    BY <1>2, RemovalWorks, RemovalFinds DEF RefinementInv
  <2>2. RefinementInv'
    BY <2>1, StatementsKeepFindings
  <2> QED BY <2>1, <2>2 DEF Works
<1>3. CASE p \in Uploads /\ Upload(p)
  <2>1. p \notin Removals
    BY <1>3, RequestsAreApart
  <2>2. Works(p)
    BY <1>3, UploadWorks
  <2>3. RefinementInv'
    BY <2>1, <2>2, StatementsKeepFindings
  <2> QED BY <2>2, <2>3 DEF Works
<1>4. CASE Commit(p)
  <2>1. RefinementInv'
    BY <1>4, CommitFindings
  <2>2. CASE p \in SignUps
    BY <1>4, <2>1, <2>2, SignUpRefines
  <2>3. CASE p \in Uploads
    BY <1>4, <2>1, <2>3, UploadRefines
  <2>4. CASE p \in Removals
    BY <1>4, <2>1, <2>4, RemovalRefines DEF RefinementInv
  <2> QED BY <2>2, <2>3, <2>4 DEF Request
<1>5. CASE BreakDeadlock(p)
  <2>1. PICK S \in SUBSET Request : p \in S /\ IsCycle(S)
    BY <1>5 DEF BreakDeadlock
  <2>2. Needs(p) # {}
    BY <2>1 DEF IsCycle, Blockers
  <2>3. pc[p] \notin {"start", "done"}
    BY <2>2, NeedsAt
  <2>4. Fail(p)
    BY <1>5 DEF BreakDeadlock
  <2>5. RefinementInv'
    BY <2>3, <2>4, FailureKeepsFindings
  <2> QED BY <2>4, <2>5 DEF Fail
<1> QED BY <1>1, <1>2, <1>3, <1>4, <1>5 DEF Step

\* The same of every step, the end of the process included.
LEMMA NextIsRequest ==
  ASSUME IInv, RefinementInv, [Next]_vars
  PROVE  /\ RefinementInv'
         /\ \/ UNCHANGED tables
            \/ SignUpAtOnce \/ RemovalAtOnce \/ UploadAtOnce
            \/ SignUpAfterRemoval \/ RemovalAfterSignUp
<1>1. CASE \E p \in Request : Step(p)
  BY <1>1, StepIsRequest
<1>2. CASE Crash
  <2>1. UNCHANGED tables
    BY <1>2 DEF Crash
  <2> QED BY <1>2, <2>1, CrashKeepsFindings
<1>3. CASE UNCHANGED vars
  <2>1. /\ UNCHANGED tables /\ pc' = pc /\ target' = target /\ registry' = registry
        /\ work' = work
    BY <1>3 DEF vars
  <2>2. registries' = registries /\ accounts' = accounts /\ members' = members
    BY <2>1 DEF tables
  <2>3. RefinementInv'
    BY <2>1, <2>2 DEF RefinementInv, FoundBy, OldRegistry, HasSeenAnAccount, RegistryRow
  <2> QED BY <2>1, <2>3
<1> QED BY <1>1, <1>2, <1>3 DEF Next

\* What the removals know holds of every reachable state.
LEMMA RefinementInvariance == Spec => []RefinementInv
<1>1. Init => RefinementInv
  BY DEF Init, RefinementInv, FoundBy, Request
<1>2. IInv /\ RefinementInv /\ [Next]_vars => RefinementInv'
  BY NextIsRequest
<1> QED BY <1>1, <1>2, Invariance, PTL DEF Spec

\* A request that commits has done to the tables what CondominiumRegistry takes
\* as one step, whatever the others did between its statements; the exceptions
\* are the two that the property names.
THEOREM CommitsAreRequestsHolds == Spec => CommitsAreRequests
<1>1. IInv /\ RefinementInv /\ [Next]_vars =>
        [\/ SignUpAtOnce \/ RemovalAtOnce \/ UploadAtOnce
         \/ SignUpAfterRemoval \/ RemovalAfterSignUp]_tables
  BY NextIsRequest
<1> QED BY <1>1, Invariance, RefinementInvariance, PTL DEF Spec, CommitsAreRequests

-----------------------------------------------------------------------------
(* Waiting: what liveness rests on and can be said without fairness.        *)

\* A step of p brings p nearer to its end and moves nobody else; it takes locks
\* for p, or it ends p and releases them.
Advances(p) ==
    /\ StepsLeft(p)' < StepsLeft(p)
    /\ \A q \in Request \ {p} : pc'[q] = pc[q]
    /\ \/ Active(p)' /\ \A l \in locks' \ locks : l.by = p
       \/ Ended(p)' /\ locks' = {l \in locks : l.by # p}

\* A request that has ended takes no more steps.
LEMMA StepsFromEnd == StepsFrom("done") = 0 /\ StepsFrom("failed") = 0
  BY DEF StepsFrom

\* The number of steps is a natural number.
LEMMA StepsFromNatural == \A statement : StepsFrom(statement) \in Nat
  BY DEF StepsFrom

\* A request may go on from one statement to another, and may fail at one.
GoesOn(name, next) ==
    next \notin {"start", "done", "failed"} /\ StepsFrom(next) < StepsFrom(name)

MayFail(name) == StepsFrom(name) > 0

\* The ways a request takes, and where it may fail.
LEMMA WaysOfRequests ==
  /\ \A next \in {"delete invite", "look for account", "insert registry", "insert member"} :
        GoesOn("start", next)
  /\ GoesOn("delete invite", "find registry")
  /\ \A next \in {"insert registry", "insert account"} : GoesOn("find registry", next)
  /\ \A next \in {"insert account", "insert member"} : GoesOn("insert registry", next)
  /\ GoesOn("insert account", "link member") /\ GoesOn("link member", "commit")
  /\ \A next \in {"delete member", "delete registry"} : GoesOn("look for account", next)
  /\ \A next \in {"cascade", "delete member"} : GoesOn("delete registry", next)
  /\ GoesOn("cascade", "delete member") /\ GoesOn("delete member", "cascade member")
  /\ GoesOn("cascade member", "commit") /\ GoesOn("insert member", "commit")
  /\ \A name \in {"delete invite", "find registry", "insert registry", "insert account",
                  "insert member", "link member", "delete registry", "cascade",
                  "delete member", "cascade member"} : MayFail(name)
  BY DEF GoesOn, MayFail, StepsFrom

\* A statement of a request that is not its last.
LEMMA StatementAdvances ==
  ASSUME IInv, NEW p \in Request, NEW name, NEW next, Statement(p, name, next),
         GoesOn(name, next)
  PROVE  Advances(p)
<1>1. /\ pc[p] = name /\ pc' = [pc EXCEPT ![p] = next]
      /\ locks' = locks \cup {[row |-> n.row, mode |-> n.mode, by |-> p] : n \in Needs(p)}
  BY DEF Statement
<1>2. pc'[p] = next /\ \A q \in Request \ {p} : pc'[q] = pc[q]
  BY <1>1 DEF IInv
<1>3. Active(p)'
  BY <1>2 DEF Active, Ended, GoesOn
<1>4. \A l \in locks' \ locks : l.by = p
  BY <1>1
<1>5. StepsLeft(p)' < StepsLeft(p)
  BY <1>1, <1>2 DEF StepsLeft, GoesOn
<1> QED BY <1>2, <1>3, <1>4, <1>5 DEF Advances

\* A rollback ends the request, which had steps left.
LEMMA FailAdvances ==
  ASSUME IInv, NEW p \in Request, Fail(p), MayFail(pc[p])
  PROVE  Advances(p)
<1>1. /\ pc'[p] = "failed" /\ \A q \in Request \ {p} : pc'[q] = pc[q]
      /\ locks' = {l \in locks : l.by # p}
  BY DEF Fail, IInv
<1>2. Ended(p)'
  BY <1>1 DEF Ended
<1>3. StepsLeft(p)' < StepsLeft(p)
  BY <1>1, StepsFromEnd DEF StepsLeft, MayFail
<1> QED BY <1>1, <1>2, <1>3 DEF Advances

\* The first step of a request waits for nothing and locks nothing.
LEMMA StartAdvances ==
  ASSUME IInv, NEW p \in Request, pc[p] = "start",
         NEW next \in {"delete invite", "look for account", "insert registry", "insert member"},
         pc' = [pc EXCEPT ![p] = next], locks' = locks
  PROVE  Advances(p)
<1>1. pc'[p] = next /\ \A q \in Request \ {p} : pc'[q] = pc[q]
  BY DEF IInv
<1>2. Active(p)'
  BY <1>1 DEF Active, Ended
<1>3. StepsLeft(p)' < StepsLeft(p)
  BY <1>1, WaysOfRequests DEF StepsLeft, GoesOn
<1> QED BY <1>1, <1>2, <1>3 DEF Advances

\* The statement that sign-ups and uploads share.
LEMMA InsertRegistryAdvances ==
  ASSUME IInv, NEW p \in Request, NEW next \in {"insert account", "insert member"},
         InsertRegistry(p, next)
  PROVE  Advances(p)
<1>1. \/ Statement(p, "insert registry", next)
      \/ pc[p] = "insert registry" /\ Fail(p)
  BY DEF InsertRegistry
<1> QED BY <1>1, WaysOfRequests, StatementAdvances, FailAdvances

\* The statements of a sign-up,
LEMMA SignUpAdvances ==
  ASSUME IInv, NEW p \in SignUps, SignUp(p)
  PROVE  Advances(p)
<1> p \in Request
  BY DEF Request
<1>1. CASE PassInviteGuard(p)
  BY <1>1, StartAdvances DEF PassInviteGuard
<1>2. CASE DeleteInvite(p)
  <2>1. Statement(p, "delete invite", "find registry")
    BY <1>2 DEF DeleteInvite
  <2> QED BY <2>1, WaysOfRequests, StatementAdvances
<1>3. CASE FindRegistryForSignUp(p)
  <2>1. PICK next \in {"insert registry", "insert account"} : Statement(p, "find registry", next)
    BY <1>3 DEF FindRegistryForSignUp
  <2> QED BY <2>1, WaysOfRequests, StatementAdvances
<1>4. CASE InsertRegistry(p, "insert account")
  BY <1>4, InsertRegistryAdvances
<1>5. CASE InsertAccount(p)
  <2>1. \/ Statement(p, "insert account", "link member")
        \/ pc[p] = "insert account" /\ Fail(p)
    BY <1>5 DEF InsertAccount
  <2> QED BY <2>1, WaysOfRequests, StatementAdvances, FailAdvances
<1>6. CASE LinkMember(p)
  <2>1. Statement(p, "link member", "commit")
    BY <1>6 DEF LinkMember
  <2> QED BY <2>1, WaysOfRequests, StatementAdvances
<1> QED BY <1>1, <1>2, <1>3, <1>4, <1>5, <1>6 DEF SignUp

\* of a removal,
LEMMA RemovalAdvances ==
  ASSUME IInv, NEW p \in Removals, Removal(p)
  PROVE  Advances(p)
<1> p \in Request
  BY DEF Request
<1>1. CASE ReadMember(p)
  BY <1>1, StartAdvances DEF ReadMember
<1>2. CASE LookForAccount(p)
  <2>1. PICK next \in {"delete member", "delete registry"} : Statement(p, "look for account", next)
    BY <1>2 DEF LookForAccount
  <2> QED BY <2>1, WaysOfRequests, StatementAdvances
<1>3. CASE DeleteRegistry(p)
  <2>1. PICK next \in {"cascade", "delete member"} : Statement(p, "delete registry", next)
    BY <1>3 DEF DeleteRegistry
  <2> QED BY <2>1, WaysOfRequests, StatementAdvances
<1>4. CASE Cascade(p)
  <2>1. Statement(p, "cascade", "delete member")
    BY <1>4 DEF Cascade
  <2> QED BY <2>1, WaysOfRequests, StatementAdvances
<1>5. CASE DeleteMember(p)
  <2>1. Statement(p, "delete member", "cascade member")
    BY <1>5 DEF DeleteMember
  <2> QED BY <2>1, WaysOfRequests, StatementAdvances
<1>6. CASE CascadeMember(p)
  <2>1. Statement(p, "cascade member", "commit")
    BY <1>6 DEF CascadeMember
  <2> QED BY <2>1, WaysOfRequests, StatementAdvances
<1> QED BY <1>1, <1>2, <1>3, <1>4, <1>5, <1>6 DEF Removal

\* and of an upload.
LEMMA UploadAdvances ==
  ASSUME IInv, NEW p \in Uploads, Upload(p)
  PROVE  Advances(p)
<1> p \in Request
  BY DEF Request
<1>1. CASE FindRegistryForUpload(p)
  <2>1. PICK next \in {"insert registry", "insert member"} : pc' = [pc EXCEPT ![p] = next]
    BY <1>1 DEF FindRegistryForUpload
  <2> QED BY <1>1, <2>1, StartAdvances DEF FindRegistryForUpload
<1>2. CASE InsertRegistry(p, "insert member")
  BY <1>2, InsertRegistryAdvances
<1>3. CASE InsertMember(p)
  <2>1. \/ Statement(p, "insert member", "commit")
        \/ pc[p] = "insert member" /\ Fail(p)
    BY <1>3 DEF InsertMember
  <2> QED BY <2>1, WaysOfRequests, StatementAdvances, FailAdvances
<1> QED BY <1>1, <1>2, <1>3 DEF Upload

\* Every step of a request, its commit and its deadlock included.
LEMMA StepAdvances ==
  ASSUME IInv, NEW p \in Request, Step(p)
  PROVE  Advances(p)
<1>1. CASE p \in SignUps /\ SignUp(p)
  BY <1>1, SignUpAdvances
<1>2. CASE p \in Removals /\ Removal(p)
  BY <1>2, RemovalAdvances
<1>3. CASE p \in Uploads /\ Upload(p)
  BY <1>3, UploadAdvances
<1>4. CASE Commit(p)
  <2>1. /\ pc[p] = "commit" /\ pc'[p] = "done" /\ locks' = {l \in locks : l.by # p}
        /\ \A q \in Request \ {p} : pc'[q] = pc[q]
    BY <1>4 DEF Commit, IInv
  <2>2. Ended(p)'
    BY <2>1 DEF Ended
  <2>3. StepsLeft(p)' < StepsLeft(p)
    BY <2>1 DEF StepsLeft, StepsFrom
  <2> QED BY <2>1, <2>2, <2>3 DEF Advances
<1>5. CASE BreakDeadlock(p)
  <2>1. PICK S \in SUBSET Request : p \in S /\ IsCycle(S)
    BY <1>5 DEF BreakDeadlock
  <2>2. Needs(p) # {}
    BY <2>1 DEF IsCycle, Blockers
  <2>3. pc[p] \in {"delete invite", "find registry", "insert registry", "insert account",
                   "insert member", "link member", "delete registry", "cascade",
                   "delete member", "cascade member"}
    BY <2>2 DEF Needs
  <2>4. MayFail(pc[p])
    BY <2>3, WaysOfRequests
  <2> QED BY <1>5, <2>4, FailAdvances DEF BreakDeadlock
<1> QED BY <1>1, <1>2, <1>3, <1>4, <1>5 DEF Step

\* For any number of requests, each takes at most seven steps, and every step
\* anybody takes leaves everybody at least as near to the end.
THEOREM RequestsGoForwardHolds == Spec => RequestsGoForward
<1>1. ASSUME IInv, [Next]_vars, NEW p \in Request
      PROVE  \/ UNCHANGED vars
             \/ /\ StepsLeft(p)' <= StepsLeft(p)
                /\ Step(p) => StepsLeft(p)' < StepsLeft(p)
  <2>1. StepsLeft(p) \in Nat /\ StepsLeft(p)' \in Nat
    BY StepsFromNatural DEF StepsLeft
  <2>2. Step(p) => StepsLeft(p)' < StepsLeft(p)
    BY <1>1, StepAdvances DEF Advances
  <2>3. ASSUME NEW q \in Request, Step(q), q # p
        PROVE  StepsLeft(p)' = StepsLeft(p)
    BY <1>1, <2>3, StepAdvances DEF Advances, StepsLeft
  <2>4. ASSUME Crash
        PROVE  StepsLeft(p)' <= StepsLeft(p)
    <3>1. pc'[p] \in {"failed", pc[p]}
      BY <2>4 DEF Crash
    <3>2. pc'[p] = "failed" => StepsLeft(p)' = 0
      BY StepsFromEnd DEF StepsLeft
    <3>3. pc'[p] = pc[p] => StepsLeft(p)' = StepsLeft(p)
      BY DEF StepsLeft
    <3> QED BY <2>1, <3>1, <3>2, <3>3
  <2> QED BY <1>1, <2>1, <2>2, <2>3, <2>4 DEF Next
<1>2. ASSUME IInv, [Next]_vars
      PROVE  [\A p \in Request : /\ StepsLeft(p)' <= StepsLeft(p)
                                 /\ Step(p) => StepsLeft(p)' < StepsLeft(p)]_vars
  BY <1>1, <1>2
<1> QED BY <1>2, Invariance, PTL DEF Spec, RequestsGoForward

\* Only requests in progress hold locks, and at any moment they are finitely
\* many, however many requests there will ever be.
WaitInv ==
    /\ \A l \in locks : Active(l.by)
    /\ IsFiniteSet({p \in Request : Active(p)})

\* A step keeps both.
LEMMA NextWaitInv ==
  ASSUME IInv, WaitInv, [Next]_vars
  PROVE  WaitInv'
<1> DEFINE active == {p \in Request : Active(p)}
<1>1. \A l \in locks : l.by \in Request
  BY DEF IInv, LocksAreSafe
<1>2. ASSUME NEW p \in Request, Step(p)
      PROVE  WaitInv'
  <2>1. Advances(p)
    BY <1>2, StepAdvances
  <2>2. \A q \in Request \ {p} : Active(q)' <=> Active(q)
    BY <2>1 DEF Advances, Active, Ended
  <2>3. active' \in SUBSET (active \cup {p})
    BY <2>2
  <2>4. IsFiniteSet(active')
    BY <2>3, FS_AddElement, FS_Subset DEF WaitInv
  <2>5. ASSUME NEW l \in locks' PROVE Active(l.by)'
    <3>1. CASE l.by = p
      <4>1. CASE Active(p)'
        BY <3>1, <4>1
      <4>2. CASE locks' = {k \in locks : k.by # p}
        BY <3>1, <4>2
      <4> QED BY <2>1, <4>1, <4>2 DEF Advances
    <3>2. CASE l.by # p
      <4>1. l \in locks
        BY <2>1, <3>2 DEF Advances
      <4> QED BY <1>1, <2>2, <3>2, <4>1 DEF WaitInv
    <3> QED BY <3>1, <3>2
  <2> QED BY <2>4, <2>5 DEF WaitInv
<1>3. CASE Crash
  <2>1. locks' = {} /\ \A p \in Request : pc'[p] \in {"failed", pc[p]}
    BY <1>3 DEF Crash
  <2>2. active' \in SUBSET active
    BY <2>1 DEF Active, Ended
  <2>3. IsFiniteSet(active')
    BY <2>2, FS_Subset DEF WaitInv
  <2> QED BY <2>1, <2>3 DEF WaitInv
<1>4. CASE UNCHANGED vars
  BY <1>4 DEF vars, WaitInv, Active, Ended
<1> QED BY <1>2, <1>3, <1>4 DEF Next

\* Requests in progress, finitely many and each blocked by another of them: some
\* of them are a cycle.  It is the smallest set in which everybody is blocked,
\* for whoever blocks nobody in it can be left out.
LEMMA SomeCycle ==
  ASSUME NEW A \in SUBSET Request, IsFiniteSet(A), A # {},
         \A p \in A : Blockers(p) \cap A # {}
  PROVE  \E T \in SUBSET A : T # {} /\ IsCycle(T)
<1> DEFINE Blocked(T) == T # {} /\ \A p \in T : Blockers(p) \cap T # {}
           all == {T \in SUBSET A : Blocked(T)}
<1>1. IsWellFoundedOn(StrictSubsetOrdering(A), SUBSET A)
  BY FS_StrictSubsetOrderingWellFounded, FS_FiniteSubsetsOfFinite
<1>2. all \subseteq SUBSET A /\ A \in all
  OBVIOUS
<1>3. PICK T \in all : \A U \in all : <<U, T>> \notin StrictSubsetOrdering(A)
  <2> HIDE DEF all
  <2> QED BY <1>1, <1>2, WFMin
<1>4. T \in SUBSET A /\ Blocked(T)
  OBVIOUS
<1>5. ASSUME NEW p \in T, \A q \in T : p \notin Blockers(q)
      PROVE  FALSE
  <2> DEFINE U == T \ {p}
  <2>1. U # {}
    BY <1>4, <1>5
  <2>2. \A q \in U : Blockers(q) \cap U # {}
    BY <1>4, <1>5
  <2>3. U \in all
    BY <1>4, <2>1, <2>2
  <2>4. <<U, T>> \in StrictSubsetOrdering(A)
    BY <1>4 DEF StrictSubsetOrdering
  <2> QED BY <1>3, <2>3, <2>4
<1>6. IsCycle(T)
  BY <1>4, <1>5 DEF IsCycle
<1> QED BY <1>4, <1>6

\* However many requests wait for whatever rows, one of those in each other's way
\* can go on: it is blocked by nobody, or the database breaks its cycle.
THEOREM WaitsEndHolds == Spec => []WaitsEnd
<1>1. Init => WaitInv
  <2> SUFFICES ASSUME Init PROVE WaitInv
    OBVIOUS
  <2>1. locks = {} /\ \A p \in Request : pc[p] = "start"
    BY DEF Init
  <2>2. {p \in Request : Active(p)} = {}
    BY <2>1 DEF Active
  <2> QED BY <2>1, <2>2, FS_EmptySet DEF WaitInv
<1>2. ASSUME IInv, WaitInv
      PROVE  WaitsEnd
  <2> SUFFICES ASSUME NEW S \in SUBSET Request, \E p \in S : Active(p),
                      \A p \in S : Blockers(p) \subseteq S
               PROVE  \E p \in S :
                         /\ Active(p)
                         /\ \/ Blockers(p) = {}
                            \/ \E T \in SUBSET S : p \in T /\ IsCycle(T)
    BY DEF WaitsEnd
  <2> DEFINE A == {p \in S : Active(p)}
  <2>1. A \in SUBSET Request /\ A # {} /\ IsFiniteSet(A)
    <3>1. A \in SUBSET {p \in Request : Active(p)}
      OBVIOUS
    <3> QED BY <1>2, <3>1, FS_Subset DEF WaitInv
  <2>2. CASE \E p \in A : Blockers(p) = {}
    BY <2>2
  <2>3. CASE \A p \in A : Blockers(p) # {}
    <3>1. ASSUME NEW p \in A, NEW q \in Blockers(p) PROVE q \in A
      <4>1. \E l \in locks : l.by = q
        BY <3>1 DEF Blockers
      <4> QED BY <1>2, <3>1, <4>1 DEF WaitInv
    <3>2. \A p \in A : Blockers(p) \cap A # {}
      BY <2>3, <3>1
    <3>3. PICK T \in SUBSET A : T # {} /\ IsCycle(T)
      <4> HIDE DEF A
      <4> QED BY <2>1, <3>2, SomeCycle
    <3> QED BY <3>3
  <2> QED BY <2>2, <2>3
<1>3. IInv /\ WaitInv /\ [Next]_vars => WaitInv'
  BY NextWaitInv
<1>4. IInv /\ WaitInv => WaitsEnd
  BY <1>2
<1> QED BY <1>1, <1>3, <1>4, Invariance, PTL DEF Spec
=============================================================================
