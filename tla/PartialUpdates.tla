---------------------------- MODULE PartialUpdates ----------------------------
(***************************************************************************)
(* The PATCH requests: some columns of a user, a condominium, or the infos *)
(* of a community member.  Each takes a guard, one UPDATE of the columns   *)
(* that were sent, and for one's own account tokens that show the account  *)
(* as the guard read it, with the sent values on top.                      *)
(*                                                                         *)
(* A value is falsy (0, an empty text, null) or not.  Columns that no      *)
(* PATCH writes, and updated_at, are left out, and so are values that a    *)
(* column cannot hold, which its statement refuses (NumberColumns).  Every *)
(* statement commits by itself.                                            *)
(***************************************************************************)
EXTENDS Tables

CONSTANTS
    User, Condo, Member,    \* primary keys of users, condominiums, community_infos
    Storable,               \* column -> the values it may have
    Falsy,                  \* the falsy value
    Request                 \* requests that run at the same time

RowId == User \cup Condo \cup Member

ASSUME KeysAreDisjoint ==
    User \cap Condo = {} /\ User \cap Member = {} /\ Condo \cap Member = {}

ASSUME NeverFalsy == \A c \in {"name", "CEP"} : Falsy \notin Storable[c]

VARIABLES
    rows,       \* primary key -> row
    request     \* requests under way

vars == <<rows, request>>

Columns(x) ==
    CASE x \in User   -> {"name", "phoneNumber"}
      [] x \in Condo  -> {"name", "CEP", "num"}
      [] x \in Member -> {"apartmentNumber", "block"}

\* The DTOs let 0 pass for the two numbers and the empty text for the block;
\* an account may be without a phone, but no request takes it away.
Sendable(c) ==
    IF c \in {"num", "apartmentNumber", "block"} THEN Storable[c] ELSE Storable[c] \ {Falsy}

RowOf(x) ==
    {row \in [Columns(x) -> UNION {Storable[c] : c \in Columns(x)}] :
        \A c \in Columns(x) : row[c] \in Storable[c]}

Body(x) ==
    UNION {{b \in [C -> UNION {Storable[c] : c \in C}] : \A c \in C : b[c] \in Sendable(c)} :
              C \in SUBSET Columns(x)}

\* The PATCH requests for a row, and the answer to the first of them.
Stages(x) ==
    IF x \in User THEN {"user", "employee", "tokens"}
    ELSE IF x \in Condo THEN {"condominium"} ELSE {"member"}

\* user: of a PATCH of one's own account, the object the guard has put into the
\* request.  touched is there to state a property: columns that others have
\* written since.
NoUser == [c \in {} |-> Falsy]
NoBody == [c \in {} |-> Falsy]
RequestRow(x) ==
    [stage   : Stages(x),
     row     : {x},
     body    : Body(x),
     user    : RowOf(x) \cup {NoUser},
     touched : SUBSET Columns(x)]
Idle == [stage |-> "idle"]

\* UNIQUE name and UNIQUE CEP of the condominiums.
UniqueColumns(t) ==
    \A x, y \in DOMAIN t \cap Condo :
        x # y => t[x]["name"] # t[y]["name"] /\ t[x]["CEP"] # t[y]["CEP"]

StartWith(X) ==
    /\ rows \in {t \in [X -> UNION {RowOf(x) : x \in X}] :
                    (\A x \in X : t[x] \in RowOf(x)) /\ UniqueColumns(t)}
    /\ request = [r \in Request |-> Idle]

Init == \E X \in SUBSET RowId : StartWith(X)

-----------------------------------------------------------------------------
(* The UPDATE.                                                             *)

\* Falsy values are not passed on.
Modifications(body) == Restrict(body, {c \in DOMAIN body : body[c] # Falsy})

Overwritten(row, writes) ==
    [c \in DOMAIN row |-> IF c \in DOMAIN writes THEN writes[c] ELSE row[c]]

\* UPDATE ... SET the modifications WHERE id = row, of no row if it is gone.
Updated(q) ==
    [x \in DOMAIN rows |->
        IF x = q.row THEN Overwritten(rows[x], Modifications(q.body)) ELSE rows[x]]

\* The request has written; others that hold a copy of the row do not know.
Touched(q, written) ==
    IF q.stage \in {"user", "tokens"} /\ q.row = written.row
    THEN [q EXCEPT !.touched = @ \cup DOMAIN Modifications(written.body)]
    ELSE q

Goes(r, q) ==
    request' = [p \in Request |-> IF p = r THEN q ELSE Touched(request[p], request[r])]

-----------------------------------------------------------------------------
(* Requests arrive, with what their guards have read.                      *)

Arrives(r, stage, x, body, user) ==
    /\ request[r] = Idle
    /\ request' = [request EXCEPT ![r] =
         [stage |-> stage, row |-> x, body |-> body, user |-> user, touched |-> {}]]
    /\ UNCHANGED rows

\* PATCH /user.
PatchUser(r, u, body) == u \in DOMAIN rows /\ Arrives(r, "user", u, body, rows[u])

\* The guard of the next two reads the administrator, not the row.
PatchEmployee(r, u, body) == Arrives(r, "employee", u, body, NoUser)
PatchCommunityMember(r, m, body) == Arrives(r, "member", m, body, NoUser)

\* The guard reads the condominium, to find its owner.
PatchCondominium(r, c, body) ==
    c \in DOMAIN rows /\ Arrives(r, "condominium", c, body, NoUser)

-----------------------------------------------------------------------------
(* Services and repositories.                                              *)

\* The slip saves the account as the guard has read it.
UpdateUser_Mut(r) ==
    LET q == request[r]
        after == Overwritten(q.user, Modifications(q.body))
    IN /\ q.stage = "user"
       /\ rows' = [x \in DOMAIN rows |-> IF x = q.row THEN after ELSE rows[x]]
       /\ Goes(r, [q EXCEPT !.stage = "tokens", !.body = NoBody, !.user = after,
                            !.touched = @ \ DOMAIN Modifications(q.body)])

\* The slip answers tokens for the account as the guard has read it.
UpdateUser_Mut2(r) ==
    LET q == request[r]
    IN /\ q.stage = "user"
       /\ rows' = Updated(q)
       /\ Goes(r, [q EXCEPT !.stage = "tokens", !.body = NoBody,
                            !.touched = @ \ DOMAIN Modifications(q.body)])

\* Without modifications there is no statement.
UpdateUser(r) ==
    LET q == request[r]
    IN /\ q.stage = "user"
       /\ rows' = Updated(q)
       /\ Goes(r, [q EXCEPT !.stage = "tokens", !.body = NoBody,
                            !.user = Overwritten(@, Modifications(q.body)),
                            !.touched = @ \ DOMAIN Modifications(q.body)])

CreateToken(r) ==
    /\ request[r].stage = "tokens"
    /\ request' = [request EXCEPT ![r] = Idle]
    /\ UNCHANGED rows

\* Without modifications there is no statement.
UpdateEmployee(r) ==
    /\ request[r].stage = "employee"
    /\ rows' = Updated(request[r])
    /\ Goes(r, Idle)

UpdateCommunityMember(r) ==
    /\ request[r].stage = "member"
    /\ rows' = Updated(request[r])
    /\ Goes(r, Idle)

\* Without modifications the statement sets updated_at.
UpdateCondominium(r) ==
    /\ request[r].stage = "condominium"
    /\ UniqueColumns(Updated(request[r]))
    /\ rows' = Updated(request[r])
    /\ Goes(r, Idle)

\* A name or a CEP is in use.
Refused(r) ==
    /\ request[r].stage = "condominium"
    /\ ~UniqueColumns(Updated(request[r]))
    /\ request' = [request EXCEPT ![r] = Idle]
    /\ UNCHANGED rows

\* The row is deleted, by any of the requests of CondominiumRegistry.
Delete(x) ==
    /\ x \in DOMAIN rows
    /\ rows' = Without(rows, {x})
    /\ UNCHANGED request

Crash == request' = [r \in Request |-> Idle] /\ UNCHANGED rows

Next ==
    \/ \E r \in Request :
          \/ \E u \in User : \E body \in Body(u) : PatchUser(r, u, body) \/ PatchEmployee(r, u, body)
          \/ \E c \in Condo : \E body \in Body(c) : PatchCondominium(r, c, body)
          \/ \E m \in Member : \E body \in Body(m) : PatchCommunityMember(r, m, body)
          \/ UpdateUser(r) \/ CreateToken(r)
          \/ UpdateEmployee(r) \/ UpdateCommunityMember(r)
          \/ UpdateCondominium(r) \/ Refused(r)
    \/ \E x \in RowId : Delete(x)
    \/ Crash

Spec == Init /\ [][Next]_vars

-----------------------------------------------------------------------------

\* Rows have their columns, and the UNIQUE columns stay so; a request holds a
\* copy of an account exactly if it is about one's own.
TypeOK ==
    /\ DOMAIN rows \subseteq RowId
    /\ \A x \in DOMAIN rows : rows[x] \in RowOf(x)
    /\ UniqueColumns(rows)
    /\ DOMAIN request = Request
    /\ \A r \in Request : request[r] # Idle =>
          /\ \E x \in RowId : request[r] \in RequestRow(x)
          /\ request[r].user # NoUser <=> request[r].stage \in {"user", "tokens"}

\* The tokens answered to a PATCH of one's own account show what is stored, in
\* every column that nobody else has written since the guard read it, although
\* they are built of that copy and of what was sent, without another look.
TokensShowTheAccount ==
    \A r \in Request :
        LET q == request[r] IN
        q.stage = "tokens" /\ q.row \in DOMAIN rows =>
            \A c \in Columns(q.row) \ q.touched : q.user[c] = rows[q.row][c]

\* No update empties a column: whatever two requests send, a name, a phone, a
\* CEP is there as long as its row.  (Nor does it set a number to 0.)
NothingIsErased ==
    [][\A x \in DOMAIN rows \cap DOMAIN rows' : \A c \in Columns(x) :
          rows'[x][c] = Falsy => rows[x][c] = Falsy]_vars

\* What a request has still to write.
StillToDo(q) ==
    IF q.stage \in {"idle", "tokens"} THEN Idle
    ELSE [row |-> q.row, writes |-> Modifications(q.body)]

Asks == UNION {[row : {x}, writes : {Modifications(b) : b \in Body(x)}] : x \in RowId}

Atomic == INSTANCE AtomicUpdates WITH
    Ask <- Asks, NoAsk <- Idle,
    cells <- rows, asked <- [r \in Request |-> StillToDo(request[r])]

\* No update is lost, torn or applied to what it did not name: the columns sent
\* with a value that is not falsy are written at one instant, or none is.
UpdatesAreAtomic == Atomic!Spec
=============================================================================
