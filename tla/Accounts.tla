------------------------------- MODULE Accounts -------------------------------
(***************************************************************************)
(* Users, roles, sessions and merchants (platform/identity.py,             *)
(* platform/api/auth.py, the account routes of platform/api/routes.py,     *)
(* platform/commerce.py): who may do what, while requests overlap.         *)
(*                                                                         *)
(* A request is one transaction under READ COMMITTED.  It authenticates    *)
(* first, by reading its session row, and goes on with what it read.       *)
(* Requests that only insert rows with unique keys, or write columns that  *)
(* no other request reads before it writes them, have the same effect in   *)
(* one step, and are one.  The rest begin, and finish later; merchants     *)
(* among them, whose age, set when they are inserted, tells which counts.  *)
(***************************************************************************)
EXTENDS UnitOfWork, Naturals, FiniteSets, FiniteSetsExt

CONSTANTS
  Users,         \* emails; a row of users is known by its email
  Tokens,        \* session tokens, each issued once at most
  Merchants,     \* merchant ids
  Requests,      \* API requests in progress at one time
  Servers,       \* processes that start the API
  SigningKeys,   \* keys of the OIDC provider
  AdminEmail,    \* settings.bootstrap_admin_email
  InternalRoles, \* settings.internal_roles
  Modes,         \* values of settings.auth_mode
  PlatformKey,   \* the X-Platform-Key header with settings.api_key
  NoCredential,  \* none, or one that means nothing to the API
  None,          \* a row, user or request that does not exist
  SessionTtl,    \* settings.session_ttl_hours, in ticks
  KeyTtl,        \* 300 seconds in _get_jwks, in ticks
  Horizon,       \* bound of the clock
  MaxWork        \* bound of the logins, edits and requests of two steps

Roles == {"buyer", "merchant", "analyst", "operator", "admin"}
MerchantStatuses == {"pending", "active", "suspended", "closed"}
Time == 0 .. Horizon

ASSUME AccountsAssumption ==
  /\ AdminEmail \in Users
  /\ InternalRoles \subseteq Roles
  /\ Modes \subseteq {"disabled", "api_key", "oidc"}
  /\ None \notin Users \cup Tokens \cup Merchants \cup Requests
  /\ IsFiniteSet(Merchants) /\ IsFiniteSet(Requests)
  /\ SessionTtl \in Nat \ {0} /\ KeyTtl \in Nat \ {0} /\ Horizon \in Nat
  /\ MaxWork \in Nat

VARIABLES
  now,       \* the clock
  mode,      \* settings.auth_mode, fixed when the API is deployed
  user,      \* rows of users with their user_roles
  auth,      \* rows of auth_sessions
  merchant,  \* rows of merchants
  request,   \* requests in progress
  server,    \* API processes
  seeded,    \* whether the reference rows are there
  published, \* the key the OIDC provider signs with
  retired,   \* when it stopped to publish each of the others
  jwks,      \* _JWKS_CACHE
  raced,     \* history: users whose merchants became visible in another order
             \* than they were inserted
  spent      \* logins, edits and requests so far

accountVars == <<user, merchant>>
deployVars == <<server, seeded>>
oidcVars == <<published, retired, jwks>>
vars == <<now, mode, user, auth, merchant, request, server, seeded,
          published, retired, jwks, raced, spent>>

UserRow == [status: {"active", "disabled"}, roles: SUBSET Roles]
NewBuyer == [status |-> "active", roles |-> {"buyer"}]
SessionRow == [owner: Users, expires: Nat, revoked: BOOLEAN]
MerchantRow == [owner: Users \cup {None}, created: Nat, status: MerchantStatuses]

\* An API process, with what it read of the reference rows and of the admin.
Server == [phase: {"down", "starting", "up"}, seeded: BOOLEAN, admin: UserRow \cup {None}]
Down == [phase |-> "down", seeded |-> FALSE, admin |-> None]
Up == [Down EXCEPT !.phase = "up"]

IdToken == [key: SigningKeys, roles: {{"operator"}, {"buyer"}}]
Credential == Tokens \cup {PlatformKey, NoCredential} \cup IdToken

\* Principal of auth.py: the user of a session, None for staff known otherwise.
Principal == [user: Users \cup {None}, roles: SUBSET Roles, internal: BOOLEAN]
DevelopmentPrincipal == [user |-> None, roles |-> InternalRoles, internal |-> TRUE]
KeyPrincipal == [user |-> None, roles |-> {"admin"}, internal |-> TRUE]
SessionPrincipal(t) ==
  LET roles == user[auth[t].owner].roles
  IN  [user |-> auth[t].owner, roles |-> roles, internal |-> roles \cap InternalRoles # {}]

\* A request of two steps in progress: its session with the row it loaded, if
\* it has one; for an application or a creation the user, the merchant found or
\* inserted and when, and the role to insert.  The last two operations are
\* those of Catalogue.
Request ==
  [op: {"read", "logout", "create", "apply", "applied", "quick", "publish"},
   session: Tokens \cup {None}, loaded: SessionRow \cup {None},
   by: Users \cup {None}, roles: SUBSET Roles, target: Merchants \cup {None}, created: Nat]

\* None is no row, no request and no time, and a credential is of one kind.
ASSUME RowAssumption ==
  /\ None \notin UserRow \cup MerchantRow
  /\ None \notin SessionRow /\ None \notin Request /\ None \notin Nat
  /\ \A c \in IdToken : c \notin Tokens /\ c # PlatformKey

AccountsTypeOK ==
  /\ now \in Time
  /\ mode \in Modes
  /\ user \in [Users -> UserRow \cup {None}]
  /\ auth \in [Tokens -> SessionRow \cup {None}]
  /\ merchant \in [Merchants -> MerchantRow \cup {None}]
  /\ request \in [Requests -> Request \cup {None}]
  /\ server \in [Servers -> Server]
  /\ seeded \in BOOLEAN
  /\ published \in SigningKeys
  /\ retired \in [SigningKeys -> Time \cup {None}]
  /\ jwks \in [keys: SUBSET SigningKeys, until: Nat]
  /\ raced \subseteq Users
  /\ spent \in 0 .. MaxWork

-----------------------------------------------------------------------------
(***************************************************************************)
(* Authentication.  A header key counts alone; a session token that is not *)
(* valid any more is tried as whatever else auth_mode allows.              *)
(***************************************************************************)
SessionValid(t) ==
  /\ auth[t] # None
  /\ ~auth[t].revoked /\ auth[t].expires > now
  /\ user[auth[t].owner].status = "active"

\* Mutant: the keys that were fetched once are kept.
KeysFetchedOnce == IF jwks.keys # {} THEN jwks ELSE [keys |-> {published}, until |-> now + KeyTtl]

\* The keys an ID token is checked against: the cached ones while they last.
CurrentKeys == IF jwks.until > now THEN jwks ELSE [keys |-> {published}, until |-> now + KeyTtl]

OidcPrincipal(c) == [user |-> None, roles |-> c.roles, internal |-> TRUE]
OidcAccepts(c) == c.key \in CurrentKeys.keys /\ c.roles \cap InternalRoles # {}

\* The principal of a credential, or none when the API answers 401 or 403.
Authenticated(c) ==
  CASE c \in Tokens /\ SessionValid(c)         -> {SessionPrincipal(c)}
    [] c = PlatformKey                         -> IF mode = "api_key" THEN {KeyPrincipal} ELSE {}
    [] c \in IdToken /\ mode = "oidc"          -> {OidcPrincipal(x) : x \in {y \in {c} : OidcAccepts(y)}}
    [] OTHER                                   -> IF mode = "disabled" THEN {DevelopmentPrincipal} ELSE {}

\* Checking an ID token stores the keys it had to fetch.
KeepKeys(c) == jwks' = IF c \in IdToken /\ mode = "oidc" THEN CurrentKeys ELSE jwks

SessionOf(c) == IF c \in Tokens /\ SessionValid(c) THEN auth[c] ELSE None

StaffWith(p, allowed) == p.internal /\ p.roles \cap allowed # {}
IsCustomer(p) == p.user # None /\ ~p.internal

-----------------------------------------------------------------------------
\* A first deployment, or one that had no bootstrap administrator before and
\* where the address was registered by a buyer.
Init ==
  /\ now = 0
  /\ mode \in Modes
  /\ seeded \in BOOLEAN
  /\ user = [e \in Users |-> IF seeded /\ e = AdminEmail THEN NewBuyer ELSE None]
  /\ auth = [t \in Tokens |-> None]
  /\ merchant = [m \in Merchants |-> None]
  /\ request = [q \in Requests |-> None]
  /\ server = [p \in Servers |-> Down]
  /\ published \in SigningKeys
  /\ retired = [k \in SigningKeys |-> None]
  /\ jwks = [keys |-> {}, until |-> 0]
  /\ raced = {}
  /\ spent = 0

Serving == \E p \in Servers : server[p] = Up

Spend == spent < MaxWork /\ spent' = spent + 1

(***************************************************************************)
(* Start of an API process: reference rows and the first administrator, in *)
(* one transaction.  What another process inserted since it was read       *)
(* violates a unique key; the process dies and is started again.           *)
(***************************************************************************)
StartServer(p) ==
  /\ server[p] = Down
  /\ server' = [server EXCEPT ![p] = [phase |-> "starting", seeded |-> seeded, admin |-> user[AdminEmail]]]
  /\ UNCHANGED <<now, mode, user, auth, merchant, request, seeded, oidcVars, raced, spent>>

Conflicts(read) ==
  \/ seeded /\ ~read.seeded
  \/ read.admin = None /\ user[AdminEmail] # None
  \/ /\ read.admin # None /\ "admin" \notin read.admin.roles
     /\ "admin" \in user[AdminEmail].roles

\* Mutant: an address that is registered already is left alone.
WithAdminIfNew(row) ==
  IF row = None THEN [status |-> "active", roles |-> {"admin"}] ELSE row

WithAdmin(row) ==
  IF row = None THEN [status |-> "active", roles |-> {"admin"}]
  ELSE [row EXCEPT !.roles = @ \cup {"admin"}]

FinishStart(p) ==
  /\ server[p].phase = "starting"
  /\ IF Conflicts(server[p])
     THEN /\ server' = [server EXCEPT ![p] = Down]
          /\ UNCHANGED <<user, seeded>>
     ELSE /\ server' = [server EXCEPT ![p] = Up]
          /\ seeded' = TRUE
          /\ user' = [user EXCEPT ![AdminEmail] = WithAdmin(@)]
  /\ UNCHANGED <<now, mode, auth, merchant, request, oidcVars, raced, spent>>

-----------------------------------------------------------------------------
\* A session of a user who just proved who they are.
Issue(t, e) ==
  /\ auth[t] = None
  /\ auth' = [auth EXCEPT ![t] = [owner |-> e, expires |-> now + SessionTtl,
                                  revoked |-> FALSE]]

Register(e, t) ==
  /\ Serving /\ user[e] = None
  /\ user' = [user EXCEPT ![e] = NewBuyer]
  /\ Issue(t, e)
  /\ Spend
  /\ UNCHANGED <<now, mode, merchant, request, deployVars, oidcVars, raced>>

Login(e, t) ==
  /\ Serving /\ user[e] # None /\ user[e].status = "active"
  /\ Issue(t, e)
  /\ Spend
  /\ UNCHANGED <<now, mode, accountVars, request, deployVars, oidcVars, raced>>

\* POST /internal/v1/users, for administrators.
CreateUser(c, e, roles) ==
  /\ Serving /\ \E p \in Authenticated(c) : StaffWith(p, {"admin"})
  /\ user[e] = None /\ roles # {}
  /\ user' = [user EXCEPT ![e] = [status |-> "active", roles |-> roles]]
  /\ KeepKeys(c)
  /\ Spend
  /\ UNCHANGED <<now, mode, auth, merchant, request, deployVars, published, retired, raced>>

-----------------------------------------------------------------------------
(***************************************************************************)
(* Merchants.  owner_user_id is not unique: a user's merchant is the       *)
(* oldest row.                                                             *)
(***************************************************************************)
OwnedRows(e) == {m \in Merchants : merchant[m] # None /\ merchant[m].owner = e}
\* Mutant: the latest row counts.
Newest(e) == CHOOSE m \in OwnedRows(e) :
               \A n \in OwnedRows(e) : merchant[n].created <= merchant[m].created
Oldest(e) == CHOOSE m \in OwnedRows(e) :
               \A n \in OwnedRows(e) : merchant[m].created <= merchant[n].created
OwnedMerchant(e) == IF OwnedRows(e) = {} THEN None ELSE Oldest(e)

\* Requests that inserted a merchant and did not commit yet, or found one.
Pending == {q \in Requests : request[q] # None /\ request[q].op \in {"create", "applied"}}
Unused == {m \in Merchants : merchant[m] = None /\ \A q \in Pending : request[q].target # m}

\* created_at is the time of the flush, and flushes are told apart by it.
Stamp == 1 + Max({0} \cup {merchant[m].created : m \in {n \in Merchants : merchant[n] # None}}
                     \cup {request[q].created : q \in Pending})

\* A merchant that was inserted before q's for the same user is not yet there.
Overtakes(q) ==
  /\ request[q].by # None
  /\ \E r \in Pending \ {q} :
       /\ request[r].by = request[q].by
       /\ 0 < request[r].created /\ request[r].created < request[q].created

\* The row q inserted becomes visible.
ShowMerchant(q, status) ==
  /\ merchant' = [merchant EXCEPT ![request[q].target] =
       [owner |-> request[q].by, created |-> request[q].created, status |-> status]]
  /\ raced' = IF Overtakes(q) THEN raced \cup {request[q].by} ELSE raced

\* POST /internal/v1/merchants/{id}/status, for operators.
UpdateMerchantStatus(c, m, status) ==
  /\ Serving /\ \E p \in Authenticated(c) : StaffWith(p, {"admin", "operator"})
  /\ merchant[m] # None
  /\ merchant' = [merchant EXCEPT ![m].status = status]
  /\ KeepKeys(c)
  /\ Spend
  /\ UNCHANGED <<now, mode, auth, user, request, deployVars, published, retired, raced>>

-----------------------------------------------------------------------------
\* A request authenticates, reads, and may insert a merchant; it commits, or is
\* rolled back, later.
BeginWith(q, op, c, by, roles, target, created) ==
  /\ Serving /\ request[q] = None
  /\ request' = [request EXCEPT ![q] =
       [op |-> op, session |-> IF SessionOf(c) = None THEN None ELSE c,
        loaded |-> SessionOf(c), by |-> by, roles |-> roles,
        target |-> target, created |-> created]]
  /\ KeepKeys(c)
  /\ Spend
  /\ UNCHANGED <<now, mode, accountVars, auth, deployVars, published, retired, raced>>

Begin(q, op, c, by, roles, target) == BeginWith(q, op, c, by, roles, target, 0)

\* Mutant: the row is written as it was loaded.
FlushedWhole(work) ==
  LET new == [work.loaded EXCEPT !.revoked = @ \/ work.op = "logout"]
  IN  IF work.loaded = None THEN auth ELSE [auth EXCEPT ![work.session] = new]

\* The session row at the commit.  Every request writes last_seen_at, which
\* nothing reads and which is left out here; a logout writes revoked_at, unless
\* the row is revoked already when it is selected again.
Flushed(work) ==
  LET new == [work.loaded EXCEPT !.revoked = @ \/ work.op = "logout"]
  IN  IF work.loaded = None THEN auth
      ELSE [auth EXCEPT ![work.session] = Columns(@, work.loaded, new)]

End(q) == request' = [request EXCEPT ![q] = None]

\* Any request whose other effects do not depend on what it read.
BeginRead(q, t) == \E p \in Authenticated(t) : Begin(q, "read", t, None, {}, None)
BeginLogout(q, t) == \E p \in Authenticated(t) : Begin(q, "logout", t, None, {}, None)

FinishRead(q) ==
  /\ request[q] # None /\ request[q].op \in {"read", "logout"}
  /\ auth' = Flushed(request[q])
  /\ End(q)
  /\ UNCHANGED <<now, mode, accountVars, deployVars, oidcVars, raced, spent>>

\* A request that needs no rows, or whose ID token is refused, may still have
\* the keys fetched.
FetchKeys(c) ==
  /\ Serving /\ KeepKeys(c) /\ jwks' # jwks
  /\ UNCHANGED <<now, mode, accountVars, auth, request, deployVars, published, retired, raced, spent>>

\* POST /internal/v1/merchants, for operators: insert the row, ...
BeginCreate(q, c, m, owner) ==
  /\ \E p \in Authenticated(c) : StaffWith(p, {"admin", "operator"})
  /\ m \in Unused /\ (owner # None => user[owner] # None)
  /\ BeginWith(q, "create", c, owner, {}, m, Stamp)

\* ... and commit it.  Another status than this one is UpdateMerchantStatus's.
FinishCreate(q) ==
  /\ request[q] # None /\ request[q].op = "create"
  /\ ShowMerchant(q, "active")
  /\ auth' = Flushed(request[q])
  /\ End(q)
  /\ UNCHANGED <<now, mode, user, deployVars, oidcVars, spent>>

\* POST /v1/seller/apply: look for the merchant, ...
BeginApply(q, c) ==
  \E p \in Authenticated(c) :
    /\ IsCustomer(p)
    /\ Begin(q, "apply", c, p.user, p.roles, OwnedMerchant(p.user))

\* ... insert one unless there was, and see whether the role is missing.  The
\* session's user, with the roles read at the authentication, may or may not
\* still be in the identity map, which holds unmodified rows weakly.
InsertMerchant(q) ==
  /\ request[q] # None /\ request[q].op = "apply"
  /\ \E known \in {request[q].roles, user[request[q].by].roles} :
     \E m \in IF request[q].target = None THEN Unused ELSE {request[q].target} :
       request' = [request EXCEPT
         ![q].op = "applied", ![q].target = m,
         ![q].created = IF request[q].target = None THEN Stamp ELSE 0,
         ![q].roles = {"merchant"} \ known]
  /\ UNCHANGED <<now, mode, accountVars, auth, deployVars, oidcVars, raced, spent>>

\* The commit, unless the role was inserted by another request meanwhile.
FinishApply(q) ==
  /\ request[q] # None /\ request[q].op = "applied"
  /\ LET work == request[q]
         e    == work.by
     IN  /\ work.roles \cap user[e].roles = {}
         /\ user' = [user EXCEPT ![e].roles = @ \cup work.roles]
         /\ IF work.created = 0 THEN UNCHANGED <<merchant, raced>>
            ELSE ShowMerchant(q, "pending")
         /\ auth' = Flushed(work)
  /\ End(q)
  /\ UNCHANGED <<now, mode, deployVars, oidcVars, spent>>

\* The request raises, or its process dies.
AbortRequest(q) ==
  /\ request[q] # None
  /\ End(q)
  /\ UNCHANGED <<now, mode, accountVars, auth, deployVars, oidcVars, raced, spent>>

-----------------------------------------------------------------------------
Tick ==
  /\ now < Horizon /\ now' = now + 1
  /\ UNCHANGED <<mode, accountVars, auth, request, deployVars, oidcVars, raced, spent>>

\* users.status has no handler: operators change it in the database.
SetUserStatus(e, status) ==
  /\ user[e] # None /\ user[e].status # status
  /\ user' = [user EXCEPT ![e].status = status]
  /\ Spend
  /\ UNCHANGED <<now, mode, merchant, auth, request, deployVars, oidcVars, raced>>

RotateKey(k) ==
  /\ mode = "oidc" /\ k # published /\ retired[k] = None
  /\ published' = k
  /\ retired' = [retired EXCEPT ![published] = now]
  /\ UNCHANGED <<now, mode, accountVars, auth, request, deployVars, jwks, raced, spent>>

ServerNext == \E p \in Servers : StartServer(p) \/ FinishStart(p)

StaffNext ==
  \E c \in Credential :
    \/ \E e \in Users, roles \in {{"merchant"}, {"operator"}} : CreateUser(c, e, roles)
    \/ \E q \in Requests, m \in Merchants, owner \in Users \cup {None} : BeginCreate(q, c, m, owner)
    \/ \E m \in Merchants, status \in {"active", "suspended"} : UpdateMerchantStatus(c, m, status)

RequestNext ==
  \E q \in Requests :
    \/ \E t \in Tokens : BeginRead(q, t) \/ BeginLogout(q, t)
    \/ \E c \in Credential : BeginApply(q, c)
    \/ FinishRead(q) \/ FinishCreate(q) \/ InsertMerchant(q) \/ FinishApply(q)

UserNext == \E e \in Users, t \in Tokens : Register(e, t) \/ Login(e, t)

OutsideNext ==
  \/ Tick
  \/ \E e \in Users, status \in {"active", "disabled"} : SetUserStatus(e, status)
  \/ \E k \in SigningKeys : RotateKey(k)
  \/ \E c \in IdToken : FetchKeys(c)

Next ==
  \/ ServerNext \/ StaffNext \/ RequestNext \/ UserNext \/ OutsideNext
  \/ \E q \in Requests : AbortRequest(q)

Spec == Init /\ [][Next]_vars

-----------------------------------------------------------------------------
\* A session that was logged out stays so, although requests that began with
\* it before write its row when they commit.
RevokedForGood ==
  [][\A t \in Tokens : auth[t] # None /\ auth[t].revoked => auth'[t].revoked]_vars

\* The merchant a user's seller requests are for does not change, however many
\* are created for them, unless one that was inserted before another one became
\* visible after it.
SellerKeepsMerchant ==
  [][\A e \in Users : OwnedMerchant(e) # None /\ e \notin raced' =>
                      OwnedMerchant(e)' = OwnedMerchant(e)]_vars

\* A key the OIDC provider stopped to publish is accepted no longer than the
\* cache keeps it.
RetiredKeysExpire ==
  \A c \in IdToken : mode = "oidc" /\ Authenticated(c) # {} =>
    c.key = published \/ (retired[c.key] # None /\ now < retired[c.key] + KeyTtl)

\* Who serves requests has the reference rows and an administrator, even when
\* several processes start at once and the address was registered before.
AdminInPlace ==
  Serving => seeded /\ user[AdminEmail] # None /\ "admin" \in user[AdminEmail].roles
=============================================================================
