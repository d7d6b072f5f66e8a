---------------------------- MODULE LoginSessions ----------------------------
(***************************************************************************)
(* Logging in: with a password, with a two-factor code, with a refresh     *)
(* token, by signing up, by updating one's account.  A request reads its   *)
(* account in the guard and goes on with what it read; meanwhile accounts  *)
(* are deleted, and their e-mail addresses registered again under a new    *)
(* uuid.  Codes and refresh tokens find the account by the address, access *)
(* tokens by the uuid.                                                     *)
(*                                                                         *)
(* Which signatures and expiry times are good is the subject of            *)
(* SigningKeys; here a guard may refuse any code or token at any time,     *)
(* since no request has to be made.  How accounts come and go with the     *)
(* condominiums is the subject of CondominiumRegistry.                     *)
(***************************************************************************)
EXTENDS Tables

CONSTANTS
    UserId,     \* uuids of accounts, never used twice
    Email,      \* addresses
    Request,    \* requests that run at the same time
    NoUser      \* no account

ASSUME NoUserIsNoAccount == NoUser \notin UserId

VARIABLES
    address,    \* every uuid ever used -> the address it was registered with
    accounts,   \* the accounts that exist
    twoFactor,  \* accounts with users.tfa = 1
    request,    \* the requests under way
    codes,      \* two-factor codes that were sent
    access,     \* access tokens that were answered, by their "sub"
    refresh     \* refresh tokens that were answered

tables == <<address, accounts, twoFactor>>
sent   == <<codes, access, refresh>>
vars   == <<tables, request, sent>>

\* What a request does next, for which account it has read; asked is there to
\* state a property: after a code, the account whose password led to the code.
Stages == {"idle", "code", "tokens", "update", "delete"}
RequestRow == [stage : Stages, user : UserId \cup {NoUser}, asked : UserId \cup {NoUser}]

Idle == [stage |-> "idle", user |-> NoUser, asked |-> NoUser]
Doing(stage, u) == [stage |-> stage, user |-> u, asked |-> NoUser]

Code == [sub : Email, user : UserId, asked : UserId]

Init ==
    /\ address = EmptyTable
    /\ accounts = {} /\ twoFactor = {}
    /\ request = [r \in Request |-> Idle]
    /\ codes = {} /\ access = {} /\ refresh = {}

\* What the handlers of the three logins do next: TfaController and
\* RefreshTokenController answer tokens, StartLoginController does so if the
\* account has no second factor.
Login(u, asked) == [stage |-> "tokens", user |-> u, asked |-> asked]
RefreshToken(u) == Doing("tokens", u)
LaunchTFA(u) == Doing(IF u \in twoFactor THEN "code" ELSE "tokens", u)

\* userRepo.find, by id or by e-mail.
FindById(u) == accounts \cap {u}
FindByEmail(e) == {u \in accounts : address[u] = e}

NewCode(u, asked) == [sub |-> address[u], user |-> u, asked |-> asked]

Goes(r, row) == request' = [request EXCEPT ![r] = row]

-----------------------------------------------------------------------------
(* Accounts.                                                               *)

\* An address has one registry, and a registry one account.
InsertUser(u, e) ==
    /\ u \notin DOMAIN address /\ FindByEmail(e) = {}
    /\ address' = With(address, Row(u, e))
    /\ accounts' = accounts \cup {u}
    /\ UNCHANGED twoFactor

\* POST /user and POST /condominium answer tokens for the new account.
CreateUser(r, u, e) ==
    /\ request[r] = Idle
    /\ InsertUser(u, e)
    /\ Goes(r, Doing("tokens", u))
    /\ UNCHANGED sent

\* The employee's account is made by the owner, who gets no tokens for it.
CreateEmployee(u, e) == InsertUser(u, e) /\ UNCHANGED <<request, sent>>

\* No request writes users.tfa; an operator does.
SwitchTwoFactor(u) ==
    /\ u \in accounts
    /\ twoFactor' = IF u \in twoFactor THEN twoFactor \ {u} ELSE twoFactor \cup {u}
    /\ UNCHANGED <<address, accounts, request, sent>>

DeleteAccount(u) ==
    /\ accounts' = accounts \ {u} /\ twoFactor' = twoFactor \ {u}
    /\ UNCHANGED address

\* The owner removes an employee.
RemoveEmployee(u) ==
    /\ u \in accounts
    /\ DeleteAccount(u)
    /\ UNCHANGED <<request, sent>>

-----------------------------------------------------------------------------
(* Guards: each reads the account once and starts its request.             *)

\* POST /login.
CheckPassword(r, e) ==
    /\ request[r] = Idle
    /\ \E u \in FindByEmail(e) : Goes(r, LaunchTFA(u))
    /\ UNCHANGED <<tables, sent>>

\* The code is a signature of the account's id, address and creation time.
Signs_Mut(c, u) == c.sub = address[u]

Signs(c, u) == c.user = u /\ c.sub = address[u]

\* GET /login/tfa.  A code can be used again.
CheckTFACode(r, c) ==
    /\ request[r] = Idle /\ c \in codes
    /\ \E u \in FindByEmail(c.sub) :
          /\ Signs(c, u)
          /\ Goes(r, Login(u, c.asked))
    /\ UNCHANGED <<tables, sent>>

\* GET /refresh-tokens: whoever has the address now.  The slip takes the
\* account from the token.
RefreshTokens_Mut(r, t) ==
    /\ request[r] = Idle /\ t \in refresh
    /\ Goes(r, RefreshToken(t.sub))
    /\ UNCHANGED <<tables, sent>>

RefreshTokens(r, t) ==
    /\ request[r] = Idle /\ t \in refresh
    /\ \E u \in FindByEmail(t.email) : Goes(r, RefreshToken(u))
    /\ UNCHANGED <<tables, sent>>

\* JwtGuard, of PATCH /user and DELETE /user.
JwtGuard(r, u) ==
    /\ request[r] = Idle /\ u \in access
    /\ FindById(u) # {}
    /\ \E stage \in {"update", "delete"} : Goes(r, Doing(stage, u))
    /\ UNCHANGED <<tables, sent>>

-----------------------------------------------------------------------------
(* Handlers.                                                               *)

\* GenTFAService reads the account again, by its id: the request fails if it
\* is gone.  The slip waits for it instead.
GenTFA(r) ==
    /\ request[r].stage = "code"
    /\ codes' = codes \cup {NewCode(u, request[r].user) : u \in FindById(request[r].user)}
    /\ Goes(r, Idle)
    /\ UNCHANGED <<tables, access, refresh>>

\* PATCH /user writes columns nobody logs in with, in no row if the account is
\* gone, and goes on to the tokens.
UpdateUser(r) ==
    /\ request[r].stage = "update"
    /\ Goes(r, Doing("tokens", request[r].user))
    /\ UNCHANGED <<tables, sent>>

DeleteUser(r) ==
    /\ request[r].stage = "delete"
    /\ DeleteAccount(request[r].user)
    /\ Goes(r, Idle)
    /\ UNCHANGED sent

\* createToken, with what the guard read.
CreateToken(r) ==
    /\ request[r].stage = "tokens"
    /\ access' = access \cup {request[r].user}
    /\ refresh' = refresh \cup
         {[sub |-> request[r].user, email |-> address[request[r].user]]}
    /\ Goes(r, Idle)
    /\ UNCHANGED <<tables, codes>>

\* The process ends: the requests under way are lost.
Crash ==
    /\ request' = [r \in Request |-> Idle]
    /\ UNCHANGED <<tables, sent>>

-----------------------------------------------------------------------------

Handle(r) == GenTFA(r) \/ UpdateUser(r) \/ DeleteUser(r) \/ CreateToken(r)

Next ==
    \/ \E r \in Request :
          \/ \E u \in UserId, e \in Email : CreateUser(r, u, e)
          \/ \E e \in Email : CheckPassword(r, e)
          \/ \E c \in codes : CheckTFACode(r, c)
          \/ \E t \in refresh : RefreshTokens(r, t)
          \/ \E u \in access : JwtGuard(r, u)
          \/ Handle(r)
    \/ \E u \in UserId, e \in Email : CreateEmployee(u, e)
    \/ \E u \in UserId : SwitchTwoFactor(u) \/ RemoveEmployee(u)
    \/ Crash

Spec == Init /\ [][Next]_vars

-----------------------------------------------------------------------------

\* Accounts have an address of their own, and what was sent names accounts
\* that were registered with the address it names.
TypeOK ==
    /\ IsTable(address, UserId, Email)
    /\ accounts \subseteq DOMAIN address /\ twoFactor \subseteq accounts
    /\ \A u, v \in accounts : address[u] = address[v] => u = v
    /\ request \in [Request -> RequestRow]
    /\ \A r \in Request : request[r] # Idle => request[r].user \in DOMAIN address
    /\ codes \subseteq Code
    /\ access \subseteq DOMAIN address
    /\ refresh \subseteq {[sub |-> u, email |-> address[u]] : u \in DOMAIN address}

\* The two steps of a two-factor login are one account's: the account a code
\* logs in is the one whose password was checked, although the service reads
\* it again in between, the code finds it by the address, and the address may
\* have changed hands twice.
TwoStepsOneAccount ==
    \A r \in Request : request[r].asked # NoUser => request[r].user = request[r].asked

\* A deleted account is out: whatever code, refresh token or access token is
\* left of it, no request is started for it again.  Requests that were past
\* their guard go on with it, and answer tokens that let nobody in.  (This is
\* about the account that is gone: one that is registered with its address later
\* is another, which an old refresh token finds by that address.)
DeletedStaysOut ==
    [][\A u \in DOMAIN address \ accounts, r \in Request :
          request'[r].user = u => request[r].user = u]_vars
=============================================================================
