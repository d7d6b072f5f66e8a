------------------------- MODULE PartialUpdatesProofs -------------------------
(***************************************************************************)
(* What PartialUpdates claims holds for any tables, values and requests;   *)
(* above all, it implements AtomicUpdates.  The invariant adds to the      *)
(* types that the copy of an account a request holds is right, before the  *)
(* update as well as after it, wherever nobody else has written.           *)
(***************************************************************************)
EXTENDS PartialUpdates, TLAPS

\* What a request remembers of the row it read.
CopiesAreRight ==
    \A r \in Request :
        LET q == request[r] IN
        q.stage \in {"user", "tokens"} /\ q.row \in DOMAIN rows =>
            \A c \in Columns(q.row) \ q.touched : q.user[c] = rows[q.row][c]

\* The inductive invariant.
IInv == TypeOK /\ CopiesAreRight

-----------------------------------------------------------------------------

\* What is sent and not falsy can be stored.
LEMMA ModificationsType ==
  ASSUME NEW x \in RowId, NEW body \in Body(x)
  PROVE  /\ DOMAIN Modifications(body) \subseteq Columns(x)
         /\ \A c \in DOMAIN Modifications(body) :
               /\ Modifications(body)[c] = body[c]
               /\ Modifications(body)[c] \in Storable[c]
               /\ Modifications(body)[c] # Falsy
<1>1. PICK C \in SUBSET Columns(x) :
        body \in {b \in [C -> UNION {Storable[c] : c \in C}] : \A c \in C : b[c] \in Sendable(c)}
  BY DEF Body
<1>2. DOMAIN body = C /\ \A c \in C : body[c] \in Storable[c]
  BY <1>1 DEF Sendable
<1> QED BY <1>2 DEF Modifications, Restrict

\* A row whose columns have been written is a row.
LEMMA OverwrittenType ==
  ASSUME NEW x \in RowId, NEW body \in Body(x), NEW row \in RowOf(x)
  PROVE  /\ Overwritten(row, Modifications(body)) \in RowOf(x)
         /\ \A c \in Columns(x) :
               Overwritten(row, Modifications(body))[c] =
                  IF c \in DOMAIN Modifications(body) THEN Modifications(body)[c] ELSE row[c]
<1>1. /\ DOMAIN row = Columns(x)
      /\ \A c \in Columns(x) : row[c] \in Storable[c]
  BY DEF RowOf
<1>2. \A c \in DOMAIN Modifications(body) : Modifications(body)[c] \in Storable[c]
  BY ModificationsType
<1> QED BY <1>1, <1>2 DEF Overwritten, RowOf

\* A row is never mistaken for no row, nor a request for none.
LEMMA NothingIsSomething ==
  ASSUME NEW x \in RowId
  PROVE  /\ \A row \in RowOf(x) : row # NoUser
         /\ NoBody \in Body(x)
         /\ \A q \in RequestRow(x) : q # Idle
<1>1. Columns(x) # {}
  BY DEF RowId, Columns
<1>2. \A row \in RowOf(x) : row # NoUser
  BY <1>1 DEF RowOf, NoUser
<1>3. NoBody \in Body(x)
  <2>1. NoBody \in {b \in [{} -> UNION {Storable[c] : c \in {}}] : \A c \in {} : b[c] \in Sendable(c)}
    BY DEF NoBody
  <2> QED BY <2>1 DEF Body
<1>4. \A q \in RequestRow(x) : q # Idle
  BY DEF RequestRow, Idle
<1> QED BY <1>2, <1>3, <1>4

-----------------------------------------------------------------------------

\* No request is under way, and the tables are sound.
LEMMA InitIInv == Init => IInv
<1> SUFFICES ASSUME Init PROVE IInv
  OBVIOUS
<1>1. PICK X \in SUBSET RowId : StartWith(X)
  BY DEF Init
<1>2. /\ DOMAIN rows = X /\ \A x \in X : rows[x] \in RowOf(x)
      /\ UniqueColumns(rows)
      /\ request = [r \in Request |-> Idle]
  BY <1>1 DEF StartWith
<1> QED BY <1>2 DEF IInv, TypeOK, CopiesAreRight, Idle

\* A request arrives: with a copy of the row as it is, or without a copy.
LEMMA ArrivesStep ==
  ASSUME IInv, NEW r \in Request, NEW x \in RowId, NEW body \in Body(x),
         NEW stage \in Stages(x) \ {"tokens"}, NEW user,
         \/ stage = "user" /\ x \in DOMAIN rows /\ user = rows[x]
         \/ stage # "user" /\ user = NoUser,
         Arrives(r, stage, x, body, user)
  PROVE  IInv'
<1> DEFINE q == [stage |-> stage, row |-> x, body |-> body, user |-> user, touched |-> {}]
<1>1. /\ q \in RequestRow(x)
      /\ q.user # NoUser <=> q.stage \in {"user", "tokens"}
  BY NothingIsSomething DEF RequestRow, Stages, IInv, TypeOK
<1>2. /\ rows' = rows /\ DOMAIN request' = Request
      /\ \A p \in Request : request'[p] = IF p = r THEN q ELSE request[p]
  BY DEF Arrives, IInv, TypeOK
<1>3. TypeOK'
  <2>1. ASSUME NEW p \in Request, request'[p] # Idle
        PROVE  /\ \E y \in RowId : request'[p] \in RequestRow(y)
               /\ request'[p].user # NoUser <=> request'[p].stage \in {"user", "tokens"}
    <3>1. CASE p = r
      BY <1>1, <1>2, <3>1
    <3>2. CASE p # r
      BY <1>2, <2>1, <3>2 DEF IInv, TypeOK
    <3> QED BY <3>1, <3>2
  <2> QED BY <1>2, <2>1 DEF IInv, TypeOK, UniqueColumns
<1>4. CopiesAreRight'
  BY <1>2 DEF IInv, CopiesAreRight
<1> QED BY <1>3, <1>4 DEF IInv

\* A request ends, or all do, and the rows stay as they are.
LEMMA EndStep ==
  ASSUME IInv, UNCHANGED rows, DOMAIN request' = Request,
         \A r \in Request : request'[r] \in {Idle, request[r]}
  PROVE  IInv'
<1>1. TypeOK'
  BY DEF IInv, TypeOK, UniqueColumns
<1>2. CopiesAreRight'
  BY DEF IInv, CopiesAreRight, Idle
<1> QED BY <1>1, <1>2 DEF IInv

\* A row goes.
LEMMA DeleteStep ==
  ASSUME IInv, NEW x \in RowId, Delete(x)
  PROVE  IInv'
<1>1. /\ DOMAIN rows' = DOMAIN rows \ {x} /\ request' = request
      /\ \A y \in DOMAIN rows' : rows'[y] = rows[y]
  BY DEF Delete, Without, Restrict
<1>2. TypeOK'
  BY <1>1 DEF IInv, TypeOK, UniqueColumns
<1>3. CopiesAreRight'
  BY <1>1 DEF IInv, CopiesAreRight
<1> QED BY <1>2, <1>3 DEF IInv

\* An UPDATE and what it does to the requests under way; q is what becomes of
\* the request that makes it.
LEMMA UpdateStep ==
  ASSUME IInv, NEW r \in Request, request[r] # Idle, NEW q,
         rows' = Updated(request[r]), UniqueColumns(rows'), Goes(r, q),
         \/ q = Idle
         \/ /\ request[r].stage = "user"
            /\ q = [request[r] EXCEPT !.stage = "tokens", !.body = NoBody,
                      !.user = Overwritten(@, Modifications(request[r].body)),
                      !.touched = @ \ DOMAIN Modifications(request[r].body)]
  PROVE  IInv'
<1> DEFINE mods == Modifications(request[r].body)
<1>1. PICK x \in RowId : request[r] \in RequestRow(x)
  BY DEF IInv, TypeOK
<1>2. request[r].row = x /\ request[r].body \in Body(x)
  BY <1>1 DEF RequestRow
<1>3. /\ DOMAIN rows' = DOMAIN rows
      /\ \A y \in DOMAIN rows : y # x => rows'[y] = rows[y]
      /\ x \in DOMAIN rows => rows'[x] = Overwritten(rows[x], mods)
  BY <1>2 DEF Updated
<1>4. x \in DOMAIN rows =>
        /\ rows'[x] \in RowOf(x)
        /\ \A c \in Columns(x) :
              rows'[x][c] = IF c \in DOMAIN mods THEN mods[c] ELSE rows[x][c]
  BY <1>2, <1>3, OverwrittenType DEF IInv, TypeOK
<1>5. /\ DOMAIN request' = Request /\ request'[r] = q
      /\ \A p \in Request \ {r} : request'[p] = Touched(request[p], request[r])
  BY DEF Goes
<1>6. ASSUME NEW p \in Request \ {r}, request'[p] # Idle
      PROVE  /\ \E y \in RowId : request'[p] \in RequestRow(y)
             /\ request'[p].user # NoUser <=> request'[p].stage \in {"user", "tokens"}
  <2>1. request[p] # Idle
    BY <1>5, <1>6 DEF Touched, Idle
  <2>2. PICK y \in RowId : request[p] \in RequestRow(y)
    BY <2>1 DEF IInv, TypeOK
  <2>3. DOMAIN mods \subseteq Columns(x)
    BY <1>2, ModificationsType
  <2>4. Touched(request[p], request[r]) \in RequestRow(y)
    BY <1>2, <2>2, <2>3 DEF Touched, RequestRow
  <2>5. /\ Touched(request[p], request[r]).user = request[p].user
        /\ Touched(request[p], request[r]).stage = request[p].stage
    BY <2>2 DEF Touched, RequestRow
  <2> QED BY <1>5, <2>1, <2>4, <2>5 DEF IInv, TypeOK
<1>7. ASSUME q # Idle
      PROVE  /\ q \in RequestRow(x) /\ q.user # NoUser /\ q.stage = "tokens" /\ q.row = x
             /\ q.touched = request[r].touched \ DOMAIN mods
             /\ request[r].user \in RowOf(x)
             /\ \A c \in Columns(x) :
                   q.user[c] = IF c \in DOMAIN mods THEN mods[c] ELSE request[r].user[c]
  <2>1. request[r].user # NoUser /\ request[r].stage = "user"
    BY <1>7 DEF IInv, TypeOK
  <2>2. request[r].user \in RowOf(x)
    BY <1>1, <2>1 DEF RequestRow
  <2>3. /\ q.user = Overwritten(request[r].user, mods) /\ q.row = x
        /\ q.stage = "tokens" /\ q.body = NoBody
        /\ q.touched = request[r].touched \ DOMAIN mods
    BY <1>1, <1>7 DEF RequestRow
  <2>4. /\ q.user \in RowOf(x)
        /\ \A c \in Columns(x) :
              q.user[c] = IF c \in DOMAIN mods THEN mods[c] ELSE request[r].user[c]
    BY <1>2, <2>2, <2>3, OverwrittenType
  <2>5. q \in RequestRow(x)
    BY <1>1, <1>7, <2>3, <2>4, NothingIsSomething DEF RequestRow, Stages
  <2> QED BY <2>2, <2>3, <2>4, <2>5, NothingIsSomething
<1>8. TypeOK'
  BY <1>3, <1>4, <1>5, <1>6, <1>7 DEF IInv, TypeOK
<1>9. ASSUME NEW p \in Request, request'[p].stage \in {"user", "tokens"},
             request'[p].row \in DOMAIN rows',
             NEW c \in Columns(request'[p].row) \ request'[p].touched
      PROVE  request'[p].user[c] = rows'[request'[p].row][c]
  <2>1. CASE p = r
    <3>1. q # Idle
      BY <1>5, <1>9, <2>1 DEF Idle
    <3>2. /\ x \in DOMAIN rows /\ c \in Columns(x)
          /\ c \in DOMAIN mods \/ c \notin request[r].touched
      BY <1>3, <1>5, <1>7, <1>9, <2>1, <3>1
    <3>3. c \notin DOMAIN mods => request[r].user[c] = rows[x][c]
      BY <1>2, <1>7, <3>1, <3>2 DEF IInv, CopiesAreRight
    <3> QED BY <1>4, <1>5, <1>7, <2>1, <3>1, <3>2, <3>3
  <2>2. CASE p # r
    <3>1. request[p] # Idle
      BY <1>5, <1>9, <2>2 DEF Touched, Idle
    <3>2. PICK y \in RowId : request[p] \in RequestRow(y)
      BY <3>1 DEF IInv, TypeOK
    <3>3. /\ request'[p].stage = request[p].stage /\ request'[p].row = y
          /\ request[p].row = y
          /\ request'[p].user = request[p].user
          /\ request'[p].touched = IF request[p].stage \in {"user", "tokens"} /\ y = x
                                   THEN request[p].touched \cup DOMAIN mods
                                   ELSE request[p].touched
      BY <1>2, <1>5, <2>2, <3>2 DEF Touched, RequestRow
    <3>4. request[p].user[c] = rows[y][c]
      BY <1>3, <1>9, <3>3 DEF IInv, CopiesAreRight
    <3> QED BY <1>3, <1>4, <1>9, <3>3, <3>4
  <2> QED BY <2>1, <2>2
<1>10. CopiesAreRight'
  BY <1>9 DEF CopiesAreRight
<1> QED BY <1>8, <1>10 DEF IInv

\* The kinds of step there are: a request arrives, one ends with or without an
\* UPDATE, a row goes, the process ends.
LEMMA Steps ==
  ASSUME Next
  PROVE  \/ \E r \in Request, x \in RowId : \E body \in Body(x) :
               \/ x \in User \cap DOMAIN rows /\ Arrives(r, "user", x, body, rows[x])
               \/ \E stage \in Stages(x) \ {"user", "tokens"} :
                     Arrives(r, stage, x, body, NoUser)
         \/ \E r \in Request : UpdateUser(r)
         \/ \E r \in Request :
               /\ request[r].stage \in {"employee", "member", "condominium"}
               /\ request[r].stage = "condominium" => UniqueColumns(rows')
               /\ rows' = Updated(request[r]) /\ Goes(r, Idle)
         \/ \E r \in Request : CreateToken(r) \/ Refused(r)
         \/ \E x \in RowId : Delete(x)
         \/ Crash
<1>1. ASSUME NEW r \in Request, NEW u \in User, NEW body \in Body(u),
             PatchUser(r, u, body) \/ PatchEmployee(r, u, body)
      PROVE  \/ u \in DOMAIN rows /\ Arrives(r, "user", u, body, rows[u])
             \/ Arrives(r, "employee", u, body, NoUser)
  BY <1>1 DEF PatchUser, PatchEmployee
<1>2. ASSUME NEW r \in Request, NEW c \in Condo, NEW body \in Body(c),
             PatchCondominium(r, c, body)
      PROVE  Arrives(r, "condominium", c, body, NoUser)
  BY <1>2 DEF PatchCondominium
<1>3. ASSUME NEW r \in Request, NEW m \in Member, NEW body \in Body(m),
             PatchCommunityMember(r, m, body)
      PROVE  Arrives(r, "member", m, body, NoUser)
  BY <1>3 DEF PatchCommunityMember
<1>4. ASSUME NEW r \in Request,
             UpdateEmployee(r) \/ UpdateCommunityMember(r) \/ UpdateCondominium(r)
      PROVE  /\ request[r].stage \in {"employee", "member", "condominium"}
             /\ request[r].stage = "condominium" => UniqueColumns(rows')
             /\ rows' = Updated(request[r]) /\ Goes(r, Idle)
  BY <1>4 DEF UpdateEmployee, UpdateCommunityMember, UpdateCondominium
<1>5. /\ \A u \in User : "employee" \in Stages(u) \ {"user", "tokens"}
      /\ \A c \in Condo : "condominium" \in Stages(c) \ {"user", "tokens"}
      /\ \A m \in Member : "member" \in Stages(m) \ {"user", "tokens"}
  BY KeysAreDisjoint DEF Stages
<1> QED BY <1>1, <1>2, <1>3, <1>4, <1>5 DEF Next, RowId

\* An UPDATE of another table leaves the UNIQUE columns of the condominiums
\* alone.
LEMMA OtherTables ==
  ASSUME IInv, NEW r \in Request, request[r] # Idle, rows' = Updated(request[r]),
         request[r].stage # "condominium"
  PROVE  UniqueColumns(rows')
<1>1. PICK x \in RowId : request[r] \in RequestRow(x)
  BY DEF IInv, TypeOK
<1>2. x \notin Condo
  BY <1>1, KeysAreDisjoint DEF RequestRow, Stages
<1>3. request[r].row = x
  BY <1>1 DEF RequestRow
<1>4. /\ DOMAIN rows' = DOMAIN rows
      /\ \A y \in DOMAIN rows \cap Condo : rows'[y] = rows[y]
  BY <1>2, <1>3 DEF Updated
<1> QED BY <1>4 DEF UniqueColumns, IInv, TypeOK

\* Every step keeps the invariant.
LEMMA NextIInv == IInv /\ [Next]_vars => IInv'
<1> SUFFICES ASSUME IInv, [Next]_vars PROVE IInv'
  OBVIOUS
<1>1. ASSUME NEW r \in Request, NEW x \in User \cap DOMAIN rows, NEW body \in Body(x),
             Arrives(r, "user", x, body, rows[x])
      PROVE  IInv'
  <2>1. x \in RowId /\ "user" \in Stages(x) \ {"tokens"}
    BY DEF RowId, Stages
  <2> QED BY <1>1, <2>1, ArrivesStep
<1>2. ASSUME NEW r \in Request, NEW x \in RowId, NEW body \in Body(x),
             NEW stage \in Stages(x) \ {"user", "tokens"},
             Arrives(r, stage, x, body, NoUser)
      PROVE  IInv'
  BY <1>2, ArrivesStep
<1>3. ASSUME NEW r \in Request, UpdateUser(r)
      PROVE  IInv'
  <2>1. request[r] # Idle /\ request[r].stage # "condominium" /\ rows' = Updated(request[r])
    BY <1>3 DEF UpdateUser, Idle
  <2>2. UniqueColumns(rows')
    BY <2>1, OtherTables
  <2> QED BY <1>3, <2>1, <2>2, UpdateStep DEF UpdateUser
<1>4. ASSUME NEW r \in Request, request[r].stage \in {"employee", "member", "condominium"},
             request[r].stage = "condominium" => UniqueColumns(rows'),
             rows' = Updated(request[r]), Goes(r, Idle)
      PROVE  IInv'
  <2>1. request[r] # Idle
    BY <1>4 DEF Idle
  <2>2. UniqueColumns(rows')
    BY <1>4, <2>1, OtherTables
  <2> QED BY <1>4, <2>1, <2>2, UpdateStep
<1>5. ASSUME NEW r \in Request, CreateToken(r) \/ Refused(r)
      PROVE  IInv'
  BY <1>5, EndStep DEF CreateToken, Refused, IInv, TypeOK
<1>6. ASSUME NEW x \in RowId, Delete(x)
      PROVE  IInv'
  BY <1>6, DeleteStep
<1>7. CASE Crash
  BY <1>7, EndStep DEF Crash
<1>8. CASE UNCHANGED vars
  BY <1>8, EndStep DEF vars, IInv, TypeOK
<1> QED BY <1>1, <1>2, <1>3, <1>4, <1>5, <1>6, <1>7, <1>8, Steps

\* Rows keep their columns and the condominiums their UNIQUE ones, whatever
\* is sent.
THEOREM TypeCorrect == Spec => []TypeOK
<1>1. IInv => TypeOK
  BY DEF IInv
<1> QED BY InitIInv, NextIInv, <1>1, PTL DEF Spec

\* The tokens answered to a PATCH of one's own account show what is stored.
THEOREM TokensShowIt == Spec => []TokensShowTheAccount
<1>1. IInv => TokensShowTheAccount
  BY DEF IInv, CopiesAreRight, TokensShowTheAccount
<1> QED BY InitIInv, NextIInv, <1>1, PTL DEF Spec

-----------------------------------------------------------------------------

\* An UPDATE writes no falsy value.
LEMMA UpdateErasesNothing ==
  ASSUME IInv, NEW r \in Request, request[r] # Idle, rows' = Updated(request[r]),
         NEW x \in DOMAIN rows, NEW c \in Columns(x), rows'[x][c] = Falsy
  PROVE  rows[x][c] = Falsy
<1>1. PICK y \in RowId : request[r] \in RequestRow(y)
  BY DEF IInv, TypeOK
<1>2. request[r].row = y /\ request[r].body \in Body(y)
  BY <1>1 DEF RequestRow
<1>3. CASE x = y
  <2>1. x \in RowId /\ rows[x] \in RowOf(x)
    BY DEF IInv, TypeOK
  <2>2. rows'[x] = Overwritten(rows[x], Modifications(request[r].body))
    BY <1>2, <1>3 DEF Updated
  <2> QED BY <1>2, <1>3, <2>1, <2>2, OverwrittenType, ModificationsType
<1>4. CASE x # y
  BY <1>2, <1>4 DEF Updated
<1> QED BY <1>3, <1>4

\* No step empties a column.
LEMMA NothingIsErasedStep ==
  ASSUME IInv, [Next]_vars, NEW x \in DOMAIN rows \cap DOMAIN rows', NEW c \in Columns(x),
         rows'[x][c] = Falsy
  PROVE  rows[x][c] = Falsy
<1>1. ASSUME NEW r \in Request, rows' = Updated(request[r]),
             request[r].stage \in {"user", "employee", "member", "condominium"}
      PROVE  rows[x][c] = Falsy
  BY <1>1, UpdateErasesNothing DEF Idle
<1>2. ASSUME NEW y \in RowId, Delete(y)
      PROVE  rows[x][c] = Falsy
  BY <1>2 DEF Delete, Without, Restrict
<1>3. CASE UNCHANGED rows
  BY <1>3
<1> QED BY <1>1, <1>2, <1>3, Steps DEF Arrives, UpdateUser, CreateToken, Refused, Crash, vars

\* A column that has a value keeps one, whatever is sent.
THEOREM NothingErased == Spec => NothingIsErased
<1>1. IInv /\ [Next]_vars =>
        [\A x \in DOMAIN rows \cap DOMAIN rows' : \A c \in Columns(x) :
            rows'[x][c] = Falsy => rows[x][c] = Falsy]_vars
  BY NothingIsErasedStep
<1> QED BY InitIInv, NextIInv, <1>1, PTL DEF Spec, NothingIsErased

-----------------------------------------------------------------------------

\* A request that has still to write asks for something that can be asked.
LEMMA AskIsSomething ==
  ASSUME NEW q, q.stage \notin {"idle", "tokens"}, NEW x \in RowId,
         q.row = x, q.body \in Body(x)
  PROVE  /\ StillToDo(q) # Idle /\ StillToDo(q) \in Asks
         /\ StillToDo(q).row = x /\ StillToDo(q).writes = Modifications(q.body)
<1>1. StillToDo(q) = [row |-> x, writes |-> Modifications(q.body)]
  BY DEF StillToDo
<1>2. StillToDo(q) \in [row : {x}, writes : {Modifications(b) : b \in Body(x)}]
  BY <1>1
<1>3. StillToDo(q) \in Asks
  BY <1>2 DEF Asks
<1>4. StillToDo(q) # Idle
  BY <1>1 DEF Idle
<1> QED BY <1>1, <1>3, <1>4

\* What others have written does not change what a request has to do.
LEMMA TouchedAsksTheSame ==
  ASSUME IInv, NEW p \in Request, NEW q
  PROVE  StillToDo(Touched(request[p], q)) = StillToDo(request[p])
<1>1. CASE request[p] = Idle
  BY <1>1 DEF Touched, Idle
<1>2. CASE request[p] # Idle
  <2>1. PICK y \in RowId : request[p] \in RequestRow(y)
    BY <1>2 DEF IInv, TypeOK
  <2>2. /\ Touched(request[p], q).stage = request[p].stage
        /\ Touched(request[p], q).row = request[p].row
        /\ Touched(request[p], q).body = request[p].body
    BY <2>1 DEF Touched, RequestRow
  <2> QED BY <2>2 DEF StillToDo
<1> QED BY <1>1, <1>2

\* A request that arrives asks for something.
LEMMA ArrivesBegins ==
  ASSUME IInv, NEW r \in Request, NEW x \in RowId, NEW body \in Body(x),
         NEW stage \in Stages(x) \ {"tokens"}, NEW user, Arrives(r, stage, x, body, user)
  PROVE  Atomic!Begin(r)
<1> DEFINE q == [stage |-> stage, row |-> x, body |-> body, user |-> user, touched |-> {}]
<1>1. /\ request[r] = Idle /\ rows' = rows
      /\ \A p \in Request : request'[p] = IF p = r THEN q ELSE request[p]
  BY DEF Arrives, IInv, TypeOK
<1>2. StillToDo(request[r]) = Idle
  BY <1>1 DEF StillToDo, Idle
<1>3. StillToDo(q) \in Asks
  <2>1. q.stage \notin {"idle", "tokens"} /\ q.row = x /\ q.body = body
    BY DEF Stages
  <2> QED BY <2>1, AskIsSomething
<1> QED BY <1>1, <1>2, <1>3 DEF Atomic!Begin

\* An UPDATE writes what was asked for.
LEMMA UpdateWrites ==
  ASSUME IInv, NEW r \in Request, NEW q, StillToDo(q) = Idle,
         request[r].stage \in {"user", "employee", "member", "condominium"},
         rows' = Updated(request[r]), Goes(r, q)
  PROVE  Atomic!Write(r)
<1>1. PICK x \in RowId : request[r] \in RequestRow(x)
  BY DEF IInv, TypeOK, Idle
<1>2. request[r].row = x /\ request[r].body \in Body(x)
  BY <1>1 DEF RequestRow
<1>3. /\ StillToDo(request[r]) # Idle /\ StillToDo(request[r]).row = x
      /\ StillToDo(request[r]).writes = Modifications(request[r].body)
  BY <1>2, AskIsSomething
<1>4. rows' = [y \in DOMAIN rows |->
         IF y = StillToDo(request[r]).row
         THEN Atomic!Overwritten(rows[y], StillToDo(request[r]).writes) ELSE rows[y]]
  BY <1>2, <1>3 DEF Updated, Overwritten, Atomic!Overwritten
<1>5. \A p \in Request :
         StillToDo(request'[p]) = IF p = r THEN Idle ELSE StillToDo(request[p])
  BY TouchedAsksTheSame DEF Goes
<1> QED BY <1>3, <1>4, <1>5 DEF Atomic!Write

\* Every step is a step of AtomicUpdates, or changes nothing there.
LEMMA StepsAreAtomic == IInv /\ [Next]_vars => [Atomic!Next]_(Atomic!vars)
<1> SUFFICES ASSUME IInv, [Next]_vars PROVE Atomic!Next \/ UNCHANGED Atomic!vars
  OBVIOUS
<1>1. ASSUME NEW r \in Request, NEW x \in RowId, NEW body \in Body(x),
             NEW stage \in Stages(x) \ {"tokens"}, NEW user,
             Arrives(r, stage, x, body, user)
      PROVE  Atomic!Next
  BY <1>1, ArrivesBegins DEF Atomic!Next
<1>2. ASSUME NEW r \in Request, UpdateUser(r)
      PROVE  Atomic!Next
  <2>1. PICK q : /\ q = [request[r] EXCEPT !.stage = "tokens", !.body = NoBody,
                            !.user = Overwritten(@, Modifications(request[r].body)),
                            !.touched = @ \ DOMAIN Modifications(request[r].body)]
                 /\ Goes(r, q) /\ rows' = Updated(request[r]) /\ request[r].stage = "user"
    BY <1>2 DEF UpdateUser
  <2>2. PICK x \in RowId : request[r] \in RequestRow(x)
    BY <2>1 DEF IInv, TypeOK, Idle
  <2>3. q.stage = "tokens"
    BY <2>1, <2>2 DEF RequestRow
  <2>4. StillToDo(q) = Idle
    BY <2>3 DEF StillToDo
  <2> QED BY <2>1, <2>4, UpdateWrites DEF Atomic!Next
<1>3. ASSUME NEW r \in Request, request[r].stage \in {"employee", "member", "condominium"},
             rows' = Updated(request[r]), Goes(r, Idle)
      PROVE  Atomic!Next
  <2>1. StillToDo(Idle) = Idle
    BY DEF StillToDo, Idle
  <2> QED BY <1>3, <2>1, UpdateWrites DEF Atomic!Next
<1>4. ASSUME NEW R \in SUBSET Request, UNCHANGED rows, DOMAIN request' = Request,
             \A r \in Request : request'[r] = IF r \in R THEN Idle ELSE request[r]
      PROVE  Atomic!Next
  <2>1. \A r \in Request :
           StillToDo(request'[r]) = IF r \in R THEN Idle ELSE StillToDo(request[r])
    BY <1>4 DEF StillToDo, Idle
  <2>2. Atomic!GiveUp(R)
    BY <1>4, <2>1 DEF Atomic!GiveUp
  <2> QED BY <2>2 DEF Atomic!Next
<1>5. ASSUME NEW r \in Request, CreateToken(r) \/ Refused(r)
      PROVE  Atomic!Next
  <2>1. /\ UNCHANGED rows /\ DOMAIN request' = Request
        /\ \A p \in Request : request'[p] = IF p \in {r} THEN Idle ELSE request[p]
    BY <1>5 DEF CreateToken, Refused, IInv, TypeOK
  <2> QED BY <1>4, <2>1
<1>6. ASSUME Crash
      PROVE  Atomic!Next
  <2>1. /\ UNCHANGED rows /\ DOMAIN request' = Request
        /\ \A p \in Request : request'[p] = IF p \in Request THEN Idle ELSE request[p]
    BY <1>6 DEF Crash
  <2> QED BY <1>4, <2>1
<1>7. ASSUME NEW x \in RowId, Delete(x)
      PROVE  Atomic!Next
  BY <1>7 DEF Delete, Without, Restrict, Atomic!Remove, Atomic!Without, Atomic!Restrict,
              Atomic!Next
<1>8. ASSUME UNCHANGED vars
      PROVE  UNCHANGED Atomic!vars
  BY <1>8 DEF vars, Atomic!vars
<1>9. \A x \in User : "user" \in Stages(x) \ {"tokens"} /\ x \in RowId
  BY DEF Stages, RowId
<1> QED BY <1>1, <1>2, <1>3, <1>5, <1>6, <1>7, <1>8, <1>9, Steps

\* Guard, service, repository and answer together are an atomic update of the
\* columns that were sent.
THEOREM UpdatesImplementAtomic == Spec => UpdatesAreAtomic
<1>1. Init => Atomic!Init
  <2> SUFFICES ASSUME Init PROVE Atomic!Init
    OBVIOUS
  <2>1. PICK X \in SUBSET RowId : StartWith(X)
    BY DEF Init
  <2>2. DOMAIN rows = X /\ request = [r \in Request |-> Idle]
    BY <2>1 DEF StartWith
  <2> QED BY <2>2 DEF Atomic!Init, StillToDo, Idle
<1> QED BY InitIInv, NextIInv, StepsAreAtomic, <1>1, PTL DEF Spec, UpdatesAreAtomic, Atomic!Spec
=============================================================================
