---------------------------- MODULE CatalogueProofs ----------------------------
(***************************************************************************)
(* What Accounts and Catalogue keep, for any users, sessions, merchants,   *)
(* requests, API processes and items.                                      *)
(***************************************************************************)
EXTENDS Catalogue, FiniteSetTheorems, TLAPS

-----------------------------------------------------------------------------
(***************************************************************************)
(* The oldest and the newest of finitely many.  A set of subsets that has  *)
(* none has a smallest member, and that member has one.                    *)
(***************************************************************************)
LEMMA SmallestSubset ==
  ASSUME NEW S, IsFiniteSet(S), NEW Bad \in SUBSET SUBSET S, Bad # {}
  PROVE  \E T \in Bad : \A U \in Bad : U \subseteq T => U = T
<1>1. FiniteSubsetsOf(S) = SUBSET S
  BY FS_FiniteSubsetsOfFinite
<1>2. IsWellFoundedOn(StrictSubsetOrdering(S), FiniteSubsetsOf(S))
  BY FS_StrictSubsetOrderingWellFounded
<1>3. PICK T \in Bad : \A U \in Bad : ~ (<<U, T>> \in StrictSubsetOrdering(S))
  BY <1>1, <1>2, WFMin
<1>4. \A U \in Bad : U \subseteq T => U = T
  BY <1>3 DEF StrictSubsetOrdering
<1>. QED
  BY <1>4

LEMMA Extremes ==
  ASSUME NEW S, IsFiniteSet(S), S # {}, NEW f \in [S -> Nat]
  PROVE  /\ \E x \in S : \A y \in S : f[x] <= f[y]
         /\ \E x \in S : \A y \in S : f[y] <= f[x]
<1>. DEFINE Has(T) == /\ \E x \in T : \A y \in T : f[x] <= f[y]
                      /\ \E x \in T : \A y \in T : f[y] <= f[x]
            Bad == {T \in SUBSET S : T # {} /\ ~ Has(T)}
<1>1. SUFFICES ASSUME Bad # {}
               PROVE  FALSE
  OBVIOUS
<1>2. PICK T \in Bad : \A U \in Bad : U \subseteq T => U = T
  <2>1. Bad \in SUBSET SUBSET S
    OBVIOUS
  <2>. HIDE DEF Bad
  <2>. QED
    BY <1>1, <2>1, SmallestSubset
<1>3. PICK z \in T : TRUE
  BY <1>2
<1>4. CASE T = {z}
  BY <1>2, <1>3, <1>4
<1>5. CASE T # {z}
  <2>1. T \ {z} \in SUBSET S /\ T \ {z} # {} /\ T \ {z} # T
    BY <1>2, <1>3, <1>5
  <2>2. Has(T \ {z})
    BY <1>2, <2>1
  <2>3. PICK low \in T \ {z} : \A y \in T \ {z} : f[low] <= f[y]
    BY <2>2
  <2>4. PICK high \in T \ {z} : \A y \in T \ {z} : f[y] <= f[high]
    BY <2>2
  <2>5. \A y \in T : f[y] \in Nat
    BY <1>2
  <2>6. \E x \in T : \A y \in T : f[x] <= f[y]
    <3>1. CASE f[z] <= f[low]
      BY <1>3, <2>3, <2>5, <3>1
    <3>2. CASE f[low] <= f[z]
      BY <1>3, <2>3, <2>5, <3>2
    <3>. QED
      BY <1>3, <2>3, <2>5, <3>1, <3>2
  <2>7. \E x \in T : \A y \in T : f[y] <= f[x]
    <3>1. CASE f[z] <= f[high]
      BY <1>3, <2>4, <2>5, <3>1
    <3>2. CASE f[high] <= f[z]
      BY <1>3, <2>4, <2>5, <3>2
    <3>. QED
      BY <1>3, <2>4, <2>5, <3>1, <3>2
  <2>. QED
    BY <1>2, <2>6, <2>7
<1>. QED
  BY <1>4, <1>5

LEMMA MaxOf ==
  ASSUME NEW S \in SUBSET Nat, IsFiniteSet(S), S # {}
  PROVE  Max(S) \in S /\ \A y \in S : y <= Max(S)
<1>. DEFINE f == [x \in S |-> x]
<1>1. \E x \in S : \A y \in S : f[y] <= f[x]
  <2>1. f \in [S -> Nat]
    OBVIOUS
  <2>. HIDE DEF f
  <2>. QED
    BY <2>1, Extremes
<1>2. \E x \in S : \A y \in S : x >= y
  BY <1>1
<1>. QED
  BY <1>2 DEF Max

-----------------------------------------------------------------------------
(***************************************************************************)
(* Types.  Rows refer to rows that exist: sessions to their users,         *)
(* requests to the session they were made with, to the applicant and the   *)
(* merchant, drafts to the rows they were read from, and listings and live *)
(* orders to the item.                                                     *)
(***************************************************************************)
RequestLinked(q) ==
  /\ request[q].loaded # None =>
       request[q].session \in Tokens /\ auth[request[q].session] # None
  /\ request[q].op \in {"apply", "applied"} =>
       request[q].by \in Users /\ user[request[q].by] # None
  /\ request[q].op \in {"create", "applied", "quick"} => request[q].target \in Merchants
  /\ request[q].op = "create" => request[q].created > 0

DraftLinked(q) ==
  /\ draft[q] # None /\ draft[q].stock # None /\ draft[q].page # None
  /\ item[draft[q].item] # None /\ page[draft[q].item] # None

Linked ==
  /\ \A t \in Tokens : auth[t] # None => user[auth[t].owner] # None
  /\ \A q \in Requests : request[q] # None => RequestLinked(q)
  /\ \A q \in Requests : request[q] # None /\ request[q].op = "publish" => DraftLinked(q)
  /\ \A i \in Items : page[i] # None \/ held[i] > 0 => page[i] # None /\ item[i] # None

TypeInv == CatalogueTypeOK /\ Linked

\* What rows are once they are there.
LEMMA Rows ==
  ASSUME CatalogueTypeOK
  PROVE  /\ \A e \in Users : user[e] # None => user[e] \in UserRow
         /\ \A t \in Tokens : auth[t] # None => auth[t] \in SessionRow
         /\ \A m \in Merchants : merchant[m] # None => merchant[m] \in MerchantRow
         /\ \A q \in Requests : request[q] # None => request[q] \in Request
         /\ \A q \in Requests : draft[q] # None => draft[q] \in Draft
         /\ \A i \in Items : item[i] # None => item[i] \in ItemRow
         /\ \A i \in Items : page[i] # None => page[i] \in PageRow
BY DEF CatalogueTypeOK, AccountsTypeOK

-----------------------------------------------------------------------------
(***************************************************************************)
(* Merchants by their age.                                                 *)
(***************************************************************************)
LEMMA StampNew ==
  ASSUME CatalogueTypeOK
  PROVE  /\ Stamp \in Nat /\ Stamp > 0
         /\ \A m \in Merchants : merchant[m] # None => merchant[m].created < Stamp
         /\ \A q \in Pending : request[q].created < Stamp
<1>. DEFINE there == {n \in Merchants : merchant[n] # None}
            M == {merchant[m].created : m \in there}
            P == {request[q].created : q \in Pending}
            f == [m \in there |-> merchant[m].created]
            g == [q \in Pending |-> request[q].created]
<1>1. M \in SUBSET Nat /\ P \in SUBSET Nat
  BY Rows DEF MerchantRow, Request, Pending
<1>2. IsFiniteSet(M)
  <2>1. IsFiniteSet(there)
    BY FS_Subset, AccountsAssumption
  <2>2. f \in Surjection(there, M)
    BY DEF Surjection
  <2>. QED
    BY <2>1, <2>2, FS_Surjection
<1>3. IsFiniteSet(P)
  <2>1. IsFiniteSet(Pending)
    <3>1. Pending \in SUBSET Requests
      BY DEF Pending
    <3>. QED
      BY <3>1, FS_Subset, AccountsAssumption
  <2>2. g \in Surjection(Pending, P)
    BY DEF Surjection
  <2>. QED
    BY <2>1, <2>2, FS_Surjection
<1>. DEFINE A == {0} \cup M \cup P
<1>4. A \in SUBSET Nat /\ IsFiniteSet(A) /\ A # {}
  <2>. HIDE DEF M, P
  <2>1. IsFiniteSet({0} \cup M)
    BY <1>2, FS_Singleton, FS_Union
  <2>2. IsFiniteSet(A)
    BY <1>3, <2>1, FS_Union
  <2>. QED
    BY <1>1, <2>2
<1>5. /\ \A m \in Merchants : merchant[m] # None => merchant[m].created \in A
      /\ \A q \in Pending : request[q].created \in A
  OBVIOUS
<1>6. Stamp = 1 + Max(A)
  BY DEF Stamp
<1>. HIDE DEF A
<1>7. Max(A) \in Nat /\ \A y \in A : y <= Max(A)
  BY <1>4, MaxOf
<1>8. \A y \in A : y \in Nat
  BY <1>4
<1>. QED
  BY <1>5, <1>6, <1>7, <1>8

LEMMA OldestOf ==
  ASSUME CatalogueTypeOK, NEW e, OwnedRows(e) # {}
  PROVE  Oldest(e) \in OwnedRows(e)
<1>. DEFINE f == [m \in OwnedRows(e) |-> merchant[m].created]
<1>1. OwnedRows(e) \in SUBSET Merchants /\ \A m \in OwnedRows(e) : merchant[m] # None
  BY DEF OwnedRows
<1>2. IsFiniteSet(OwnedRows(e))
  BY <1>1, FS_Subset, AccountsAssumption
<1>3. f \in [OwnedRows(e) -> Nat]
  BY <1>1, Rows DEF MerchantRow
<1>4. \E m \in OwnedRows(e) : \A n \in OwnedRows(e) : f[m] <= f[n]
  <2>. HIDE DEF f
  <2>. QED
    BY <1>2, <1>3, Extremes
<1>5. \E m \in OwnedRows(e) : \A n \in OwnedRows(e) : merchant[m].created <= merchant[n].created
  BY <1>4
<1>. QED
  BY <1>5 DEF Oldest

LEMMA OwnedOf ==
  ASSUME CatalogueTypeOK, NEW e
  PROVE  /\ OwnedMerchant(e) = None <=> OwnedRows(e) = {}
         /\ OwnedMerchant(e) \in Merchants \cup {None}
<1>1. OwnedRows(e) \subseteq Merchants
  BY DEF OwnedRows
<1>. QED
  BY <1>1, OldestOf, AccountsAssumption DEF OwnedMerchant

\* Who gets a further merchant keeps the one they had.
LEMMA OldestKept ==
  ASSUME CatalogueTypeOK, NEW e, OwnedRows(e) # {}, OwnedRows(e) \subseteq OwnedRows(e)',
         \A m \in OwnedRows(e) : merchant'[m].created = merchant[m].created,
         \A n \in OwnedRows(e)' \ OwnedRows(e) : \A m \in OwnedRows(e) :
           merchant'[n].created > merchant[m].created,
         \A n \in OwnedRows(e)' : merchant'[n].created \in Nat
  PROVE  OwnedMerchant(e)' = OwnedMerchant(e)
<1>. DEFINE First(x) == x \in OwnedRows(e) /\ \A n \in OwnedRows(e) : merchant[x].created <= merchant[n].created
            FirstNow(x) == x \in OwnedRows(e)' /\ \A n \in OwnedRows(e)' : merchant'[x].created <= merchant'[n].created
<1>1. \A m \in OwnedRows(e) : merchant[m].created \in Nat
  OBVIOUS
<1>2. ASSUME NEW x, First(x)
      PROVE  FirstNow(x)
  BY <1>1, <1>2
<1>3. ASSUME NEW x, FirstNow(x)
      PROVE  First(x)
  <2>1. x \in OwnedRows(e)
    BY <1>1, <1>3
  <2>. QED
    BY <1>3, <2>1
<1>4. \A x : First(x) <=> FirstNow(x)
  BY <1>2, <1>3
<1>5. (CHOOSE x : First(x)) = (CHOOSE x : FirstNow(x))
  <2>. HIDE DEF First, FirstNow
  <2>. QED
    BY <1>4
<1>6. Oldest(e) = CHOOSE x : First(x)
  BY DEF Oldest
<1>7. Oldest(e)' = CHOOSE x : FirstNow(x)
  BY DEF Oldest
<1>8. OwnedRows(e)' # {}
  OBVIOUS
<1>. QED
  BY <1>5, <1>6, <1>7, <1>8 DEF OwnedMerchant

-----------------------------------------------------------------------------
(***************************************************************************)
(* What steps do to the rows of users, sessions, merchants and requests.   *)
(***************************************************************************)
LEMMA UserEffect ==
  ASSUME [CatalogueNext]_catalogueVars
  PROVE  \/ user' = user
         \/ user' = [user EXCEPT ![AdminEmail] = WithAdmin(@)]
         \/ \E e \in Users, row \in UserRow : user[e] = None /\ user' = [user EXCEPT ![e] = row]
         \/ \E e \in Users, status \in {"active", "disabled"} :
              user[e] # None /\ user' = [user EXCEPT ![e].status = status]
         \/ \E q \in Requests :
              /\ request[q] # None /\ request[q].op = "applied"
              /\ user' = [user EXCEPT ![request[q].by].roles = @ \cup request[q].roles]
<1>1. CASE CatalogueStep
  BY <1>1, ZenonT(60) DEF CatalogueStep, CreateItem, CreateListing, OperatorStep, BeginQuick, BeginPublish,
              Begin, BeginWith, FinishPublish, FinishQuick, Abort, AbortRequest, Reserve, Release, vars, accountVars
<1>2. CASE ServerNext
  BY <1>2 DEF ServerNext, StartServer, FinishStart
<1>3. CASE StaffNext
  <2>1. ASSUME NEW c \in Credential, NEW e \in Users, NEW roles \in {{"merchant"}, {"operator"}},
               CreateUser(c, e, roles)
        PROVE  \E row \in UserRow : user[e] = None /\ user' = [user EXCEPT ![e] = row]
    <3>1. [status |-> "active", roles |-> roles] \in UserRow
      BY <2>1 DEF UserRow, Roles
    <3>. QED
      BY <2>1, <3>1 DEF CreateUser
  <2>. QED
    BY <1>3, <2>1 DEF StaffNext, BeginCreate, BeginWith, accountVars, UpdateMerchantStatus
<1>4. CASE RequestNext
  BY <1>4 DEF RequestNext, BeginRead, BeginLogout, BeginApply, Begin, BeginWith, FinishRead, FinishCreate, InsertMerchant,
              FinishApply, accountVars
<1>5. CASE UserNext
  <2>1. NewBuyer \in UserRow
    BY DEF NewBuyer, UserRow, Roles
  <2>. QED
    BY <1>5, <2>1 DEF UserNext, Register, Login, accountVars
<1>6. CASE OutsideNext
  BY <1>6 DEF OutsideNext, Tick, SetUserStatus, RotateKey, FetchKeys, accountVars
<1>7. CASE UNCHANGED catalogueVars
  BY <1>7 DEF catalogueVars, vars, accountVars
<1>. QED
  BY <1>1, <1>2, <1>3, <1>4, <1>5, <1>6, <1>7 DEF CatalogueNext, AccountsStep

LEMMA AuthEffect ==
  ASSUME CatalogueTypeOK, [CatalogueNext]_catalogueVars
  PROVE  \/ auth' = auth
         \/ \E e \in Users, t \in Tokens : Issue(t, e) /\ user'[e] # None
         \/ \E q \in Requests : request[q] # None /\ auth' = Flushed(request[q])
<1>1. CASE CatalogueStep
  <2>1. ASSUME NEW q \in Requests, FinishPublish(q) \/ Abort(q) \/ \E i \in Items : FinishQuick(q, i)
        PROVE  auth' = auth \/ (request[q] # None /\ auth' = Flushed(request[q]))
    BY <2>1 DEF FinishPublish, FinishQuick, Abort, AbortRequest
  <2>2. ASSUME NEW q \in Requests, NEW c \in Credential,
               BeginQuick(q, c) \/ \E i \in Items : BeginPublish(q, c, i)
        PROVE  auth' = auth
    BY <2>2 DEF BeginQuick, BeginPublish, Begin, BeginWith
  <2>3. ASSUME NEW i \in Items, Reserve(i) \/ Release(i)
        PROVE  auth' = auth
    BY <2>3 DEF Reserve, Release, vars
  <2>4. ASSUME NEW c \in Credential, NEW i \in Items, NEW m \in Merchants,
               CreateListing(c, i, m) \/ \E status \in ItemStatuses : CreateItem(c, i, m, status)
        PROVE  auth' = auth
    BY <2>4 DEF CreateItem, CreateListing, OperatorStep
  <2>. QED
    BY <1>1, <2>1, <2>2, <2>3, <2>4 DEF CatalogueStep
<1>2. CASE ServerNext
  BY <1>2 DEF ServerNext, StartServer, FinishStart
<1>3. CASE StaffNext
  BY <1>3 DEF StaffNext, CreateUser, BeginCreate, BeginWith, UpdateMerchantStatus
<1>4. CASE RequestNext
  <2>1. ASSUME NEW q \in Requests, FinishRead(q) \/ FinishCreate(q) \/ FinishApply(q)
        PROVE  request[q] # None /\ auth' = Flushed(request[q])
    BY <2>1 DEF FinishRead, FinishCreate, FinishApply
  <2>2. ASSUME NEW q \in Requests, InsertMerchant(q)
        PROVE  auth' = auth
    BY <2>2 DEF InsertMerchant
  <2>3. ASSUME NEW q \in Requests, NEW c \in Credential, BeginApply(q, c)
        PROVE  auth' = auth
    BY <2>3 DEF BeginApply, Begin, BeginWith
  <2>4. ASSUME NEW q \in Requests, NEW t \in Tokens, BeginRead(q, t) \/ BeginLogout(q, t)
        PROVE  auth' = auth
    BY <2>4 DEF BeginRead, BeginLogout, Begin, BeginWith
  <2>. QED
    BY <1>4, <2>1, <2>2, <2>3, <2>4 DEF RequestNext
<1>5. CASE UserNext
  <2>1. NewBuyer # None
    BY RowAssumption DEF NewBuyer, UserRow, Roles
  <2>2. user \in [Users -> UserRow \cup {None}]
    BY DEF CatalogueTypeOK, AccountsTypeOK
  <2>. QED
    BY <1>5, <2>1, <2>2 DEF UserNext, Register, Login, accountVars
<1>6. CASE OutsideNext
  BY <1>6 DEF OutsideNext, Tick, SetUserStatus, RotateKey, FetchKeys
<1>7. CASE UNCHANGED catalogueVars
  BY <1>7 DEF catalogueVars, vars
<1>. QED
  BY <1>1, <1>2, <1>3, <1>4, <1>5, <1>6, <1>7 DEF CatalogueNext, AccountsStep

\* A merchant that was inserted, and that becomes visible with the commit.
Inserts(q) ==
  /\ request[q] # None /\ request[q].op \in {"create", "applied"} /\ request[q].created > 0

Shows(q) == Inserts(q) /\ End(q) /\ \E status \in MerchantStatuses : ShowMerchant(q, status)

LEMMA MerchantEffect ==
  ASSUME TypeInv, [CatalogueNext]_catalogueVars
  PROVE  \/ merchant' = merchant /\ raced' = raced
         \/ \E m \in Merchants, status \in {"active", "suspended"} :
              /\ merchant[m] # None /\ merchant' = [merchant EXCEPT ![m].status = status]
              /\ raced' = raced
         \/ \E q \in Requests : Shows(q)
<1>1. CASE CatalogueStep
  BY <1>1, ZenonT(60) DEF CatalogueStep, CreateItem, CreateListing, OperatorStep, BeginQuick, BeginPublish,
              Begin, BeginWith, FinishPublish, FinishQuick, Abort, AbortRequest, Reserve, Release, vars, accountVars
<1>2. CASE ServerNext
  BY <1>2 DEF ServerNext, StartServer, FinishStart
<1>3. CASE StaffNext
  BY <1>3 DEF StaffNext, CreateUser, BeginCreate, BeginWith, UpdateMerchantStatus, accountVars
<1>4. CASE RequestNext
  <2>1. ASSUME NEW q \in Requests, FinishCreate(q)
        PROVE  Shows(q)
    <3>1. request[q].created > 0
      BY <2>1 DEF FinishCreate, TypeInv, Linked, RequestLinked
    <3>. QED
      BY <2>1, <3>1 DEF FinishCreate, Shows, Inserts, MerchantStatuses
  <2>2. ASSUME NEW q \in Requests, FinishApply(q), request[q].created # 0
        PROVE  Shows(q)
    <3>1. request[q] \in Request
      BY <2>2, Rows DEF FinishApply, TypeInv
    <3>2. request[q].created > 0
      BY <2>2, <3>1 DEF Request
    <3>. QED
      BY <2>2, <3>2 DEF FinishApply, Shows, Inserts, MerchantStatuses
  <2>3. ASSUME NEW q \in Requests, FinishApply(q), request[q].created = 0
        PROVE  merchant' = merchant /\ raced' = raced
    BY <2>3 DEF FinishApply
  <2>. QED
    BY <1>4, <2>1, <2>2, <2>3 DEF RequestNext, BeginRead, BeginLogout, BeginApply, Begin, BeginWith,
                                  FinishRead, InsertMerchant, accountVars
<1>5. CASE UserNext
  BY <1>5 DEF UserNext, Register, Login, accountVars
<1>6. CASE OutsideNext
  BY <1>6 DEF OutsideNext, Tick, SetUserStatus, RotateKey, FetchKeys, accountVars
<1>7. CASE UNCHANGED catalogueVars
  BY <1>7 DEF catalogueVars, vars, accountVars
<1>. QED
  BY <1>1, <1>2, <1>3, <1>4, <1>5, <1>6, <1>7 DEF CatalogueNext, AccountsStep

\* The row that becomes visible.
LEMMA ShownRow ==
  ASSUME TypeInv, NEW q \in Requests, Shows(q)
  PROVE  \E row \in MerchantRow :
           /\ row.owner = request[q].by /\ row.created = request[q].created
           /\ request[q].target \in Merchants
           /\ merchant' = [merchant EXCEPT ![request[q].target] = row]
<1>1. PICK status \in MerchantStatuses : ShowMerchant(q, status)
  BY DEF Shows
<1>. DEFINE row == [owner |-> request[q].by, created |-> request[q].created, status |-> status]
<1>2. request[q] \in Request /\ request[q].target \in Merchants
  BY Rows DEF Shows, Inserts, TypeInv, Linked, RequestLinked
<1>3. row \in MerchantRow
  BY <1>2 DEF Request, MerchantRow
<1>4. merchant' = [merchant EXCEPT ![request[q].target] = row]
  BY <1>1 DEF ShowMerchant
<1>. QED
  BY <1>2, <1>3, <1>4

\* What a request is made with.
Began(q) ==
  \E op \in {"read", "logout", "create", "apply", "quick", "publish"}, c \in Credential,
     by \in Users \cup {None}, roles \in SUBSET Roles, target \in Merchants \cup {None},
     created \in Nat :
    /\ BeginWith(q, op, c, by, roles, target, created)
    /\ op = "create" => target \in Unused /\ created = Stamp
    /\ op # "create" => created = 0
    /\ op = "apply" => /\ by \in Users /\ user[by] # None
                       /\ target = OwnedMerchant(by)
    /\ op = "quick" => target \in Merchants
    /\ op = "publish" => \E i \in Items :
         /\ Publishable(i)
         /\ draft' = [draft EXCEPT ![q] = [item |-> i, stock |-> item[i], page |-> page[i]]]
    /\ op # "publish" => draft' = draft

\* A principal with a user is the user of a session.
LEMMA Customers ==
  ASSUME TypeInv, NEW c, NEW p \in Authenticated(c), IsCustomer(p)
  PROVE  /\ c \in Tokens /\ p.user \in Users /\ user[p.user] # None
         /\ p.roles \in SUBSET Roles
<1>1. p.user # None
  BY DEF IsCustomer
<1>2. c \in Tokens /\ SessionValid(c) /\ p = SessionPrincipal(c)
  BY <1>1 DEF Authenticated, KeyPrincipal, DevelopmentPrincipal, OidcPrincipal
<1>3. auth[c] # None /\ auth[c] \in SessionRow
  BY <1>2, Rows DEF SessionValid, TypeInv
<1>4. auth[c].owner \in Users /\ user[auth[c].owner] # None
  BY <1>2, <1>3 DEF SessionRow, TypeInv, Linked
<1>5. user[auth[c].owner] \in UserRow
  BY <1>4, Rows DEF TypeInv
<1>. QED
  BY <1>2, <1>4, <1>5 DEF SessionPrincipal, UserRow

LEMMA RequestEffect ==
  ASSUME TypeInv, [CatalogueNext]_catalogueVars
  PROVE  \/ request' = request /\ draft' = draft
         \/ \E q \in Requests : Began(q) /\ UNCHANGED <<user, auth, merchant, item, page>>
         \/ \E q \in Requests : InsertMerchant(q) /\ draft' = draft
         \/ \E q \in Requests :
              /\ request[q] # None /\ End(q)
              /\ \/ draft' = draft /\ request[q].op # "publish"
                 \/ draft' = [draft EXCEPT ![q] = None]
<1>0. {"read", "logout", "create", "apply", "quick", "publish"} # {} /\ 0 \in Nat /\ None \in Merchants \cup {None}
      /\ {} \in SUBSET Roles /\ None \in Users \cup {None} /\ Tokens \subseteq Credential
  BY DEF Credential
<1>1. ASSUME NEW q \in Requests, NEW c \in Credential, BeginQuick(q, c)
      PROVE  Began(q) /\ UNCHANGED <<user, auth, merchant, item, page>>
  <2>1. PICK m \in UNION {ListsFor(p) : p \in Authenticated(c)} :
          /\ IsActive(m) /\ Begin(q, "quick", c, None, {}, m)
          /\ UNCHANGED <<item, page, draft>>
    BY <1>1 DEF BeginQuick
  <2>2. m \in Merchants
    BY <2>1, OwnedOf DEF IsActive, ListsFor, TypeInv
  <2>. QED
    BY <1>0, <2>1, <2>2, ZenonT(60) DEF Began, Begin, BeginWith, accountVars
<1>2. ASSUME NEW q \in Requests, NEW c \in Credential, NEW i \in Items, BeginPublish(q, c, i)
      PROVE  Began(q) /\ UNCHANGED <<user, auth, merchant, item, page>>
  <2>1. /\ Publishable(i) /\ Begin(q, "publish", c, None, {}, None)
        /\ draft' = [draft EXCEPT ![q] = [item |-> i, stock |-> item[i], page |-> page[i]]]
        /\ UNCHANGED <<item, page>>
    BY <1>2 DEF BeginPublish
  <2>2. BeginWith(q, "publish", c, None, {}, None, 0)
    BY <2>1 DEF Begin
  <2>3. UNCHANGED <<user, auth, merchant, item, page>>
    BY <2>1, <2>2 DEF BeginWith, accountVars
  <2>. QED
    BY <1>0, <2>1, <2>2, <2>3, ZenonT(60) DEF Began
<1>3. ASSUME NEW q \in Requests, NEW c \in Credential, BeginApply(q, c), UNCHANGED <<item, page, draft>>
      PROVE  Began(q) /\ UNCHANGED <<user, auth, merchant, item, page>>
  <2>1. PICK p \in Authenticated(c) :
          IsCustomer(p) /\ Begin(q, "apply", c, p.user, p.roles, OwnedMerchant(p.user))
    BY <1>3 DEF BeginApply
  <2>2. p.user \in Users /\ user[p.user] # None /\ p.roles \in SUBSET Roles
    BY <2>1, Customers
  <2>3. OwnedMerchant(p.user) \in Merchants \cup {None}
    BY OwnedOf DEF TypeInv
  <2>. QED
    BY <1>0, <1>3, <2>1, <2>2, <2>3, ZenonT(60) DEF Began, Begin, BeginWith, accountVars
<1>4. ASSUME NEW q \in Requests, NEW t \in Tokens, BeginRead(q, t) \/ BeginLogout(q, t),
             UNCHANGED <<item, page, draft>>
      PROVE  Began(q) /\ UNCHANGED <<user, auth, merchant, item, page>>
  <2>1. PICK op \in {"read", "logout"} : Begin(q, op, t, None, {}, None)
    BY <1>4 DEF BeginRead, BeginLogout
  <2>2. BeginWith(q, op, t, None, {}, None, 0)
    BY <2>1 DEF Begin
  <2>3. UNCHANGED <<user, auth, merchant, item, page>>
    BY <1>4, <2>2 DEF BeginWith, accountVars
  <2>. QED
    BY <1>0, <1>4, <2>2, <2>3, ZenonT(60) DEF Began
<1>12. ASSUME NEW q \in Requests, NEW c \in Credential, NEW m \in Merchants,
              NEW owner \in Users \cup {None}, BeginCreate(q, c, m, owner), UNCHANGED <<item, page, draft>>
       PROVE  Began(q) /\ UNCHANGED <<user, auth, merchant, item, page>>
  <2>1. BeginWith(q, "create", c, owner, {}, m, Stamp) /\ m \in Unused
    BY <1>12 DEF BeginCreate
  <2>2. Stamp \in Nat
    BY StampNew DEF TypeInv
  <2>. QED
    BY <1>0, <1>12, <2>1, <2>2, ZenonT(60) DEF Began, BeginWith, accountVars
<1>5. CASE CatalogueStep
  <2>1. ASSUME NEW q \in Requests, FinishPublish(q) \/ Abort(q) \/ \E i \in Items : FinishQuick(q, i)
        PROVE  /\ request[q] # None /\ End(q)
               /\ \/ draft' = draft /\ request[q].op # "publish"
                  \/ draft' = [draft EXCEPT ![q] = None]
    <3>1. CASE FinishPublish(q) \/ Abort(q)
      <4>1. /\ request[q] # None /\ End(q)
            /\ draft' = [draft EXCEPT ![q] = None]
        BY <3>1 DEF FinishPublish, Abort, AbortRequest
      <4>. QED
        BY <4>1
    <3>2. CASE \E i \in Items : FinishQuick(q, i)
      BY <3>2 DEF FinishQuick
    <3>. QED
      BY <2>1, <3>1, <3>2
  <2>2. ASSUME NEW c \in Credential, NEW i \in Items, NEW m \in Merchants,
               CreateListing(c, i, m) \/ \E status \in ItemStatuses : CreateItem(c, i, m, status)
        PROVE  request' = request /\ draft' = draft
    BY <2>2 DEF CreateItem, CreateListing, OperatorStep
  <2>3. ASSUME NEW i \in Items, Reserve(i) \/ Release(i)
        PROVE  request' = request /\ draft' = draft
    BY <2>3 DEF Reserve, Release, vars
  <2>. QED
    BY <1>1, <1>2, <1>5, <2>1, <2>2, <2>3 DEF CatalogueStep
<1>6. CASE ServerNext /\ UNCHANGED draft
  BY <1>6 DEF ServerNext, StartServer, FinishStart
<1>7. CASE StaffNext /\ UNCHANGED <<item, page, draft>>
  BY <1>7, <1>12 DEF StaffNext, CreateUser, UpdateMerchantStatus
<1>8. CASE RequestNext /\ UNCHANGED <<item, page, draft>>
  <2>1. ASSUME NEW q \in Requests, FinishRead(q) \/ FinishCreate(q) \/ FinishApply(q)
        PROVE  request[q] # None /\ End(q) /\ request[q].op # "publish"
    BY <2>1 DEF FinishRead, FinishCreate, FinishApply
  <2>. QED
    BY <1>3, <1>4, <1>8, <2>1 DEF RequestNext
<1>9. CASE UserNext /\ UNCHANGED draft
  BY <1>9 DEF UserNext, Register, Login
<1>10. CASE OutsideNext /\ UNCHANGED draft
  BY <1>10 DEF OutsideNext, Tick, SetUserStatus, RotateKey, FetchKeys
<1>11. CASE UNCHANGED catalogueVars
  BY <1>11 DEF catalogueVars, vars
<1>. QED
  BY <1>5, <1>6, <1>7, <1>8, <1>9, <1>10, <1>11 DEF CatalogueNext, AccountsStep

-----------------------------------------------------------------------------
(***************************************************************************)
(* Rows once inserted stay, with their types.                              *)
(***************************************************************************)
LEMMA UserKept ==
  ASSUME TypeInv, [CatalogueNext]_catalogueVars
  PROVE  /\ user' \in [Users -> UserRow \cup {None}]
         /\ \A e \in Users : user[e] # None =>
              user'[e] # None /\ user[e].roles \subseteq user'[e].roles
<1>1. user \in [Users -> UserRow \cup {None}] /\ None \notin UserRow
  BY RowAssumption DEF TypeInv, CatalogueTypeOK, AccountsTypeOK
<1>. DEFINE Kept(e) == /\ user'[e] \in UserRow \cup {None}
                       /\ user[e] # None => user'[e] \in UserRow /\ user[e].roles \subseteq user'[e].roles
<1>. SUFFICES user' = [e \in Users |-> user'[e]] /\ \A e \in Users : Kept(e)
  BY <1>1
<1>2. CASE user' = [user EXCEPT ![AdminEmail] = WithAdmin(@)]
  <2>1. WithAdmin(user[AdminEmail]) \in UserRow
        /\ (user[AdminEmail] # None => user[AdminEmail].roles \subseteq WithAdmin(user[AdminEmail]).roles)
    <3>1. user[AdminEmail] \in UserRow \cup {None}
      BY <1>1, AccountsAssumption
    <3>. QED
      BY <3>1 DEF WithAdmin, UserRow, Roles
  <2>. QED
    BY <1>1, <1>2, <2>1
<1>3. CASE \E e \in Users, row \in UserRow : user[e] = None /\ user' = [user EXCEPT ![e] = row]
  BY <1>1, <1>3
<1>4. CASE \E e \in Users, status \in {"active", "disabled"} :
             user[e] # None /\ user' = [user EXCEPT ![e].status = status]
  <2>1. PICK e \in Users, status \in {"active", "disabled"} :
             user[e] # None /\ user' = [user EXCEPT ![e].status = status]
    BY <1>4
  <2>2. [user[e] EXCEPT !.status = status] \in UserRow
        /\ [user[e] EXCEPT !.status = status].roles = user[e].roles
    BY <1>1, <2>1 DEF UserRow
  <2>. QED
    BY <1>1, <2>1, <2>2
<1>5. CASE \E q \in Requests :
             /\ request[q] # None /\ request[q].op = "applied"
             /\ user' = [user EXCEPT ![request[q].by].roles = @ \cup request[q].roles]
  <2>1. PICK q \in Requests :
             /\ request[q] # None /\ request[q].op = "applied"
             /\ user' = [user EXCEPT ![request[q].by].roles = @ \cup request[q].roles]
    BY <1>5
  <2>2. request[q].roles \in SUBSET Roles /\ request[q].by \in Users /\ user[request[q].by] # None
    BY <2>1, Rows DEF Request, TypeInv, Linked, RequestLinked
  <2>. DEFINE row == [user[request[q].by] EXCEPT !.roles = @ \cup request[q].roles]
  <2>3. row \in UserRow /\ user[request[q].by].roles \subseteq row.roles
    BY <1>1, <2>2 DEF UserRow
  <2>4. user' = [user EXCEPT ![request[q].by] = row]
    BY <2>1
  <2>. HIDE DEF row
  <2>. QED
    BY <1>1, <2>2, <2>3, <2>4
<1>6. CASE user' = user
  BY <1>1, <1>6
<1>. QED
  BY <1>2, <1>3, <1>4, <1>5, <1>6, UserEffect

\* What the commit of a request makes of its session.
LEMMA FlushedRow ==
  ASSUME TypeInv, NEW q \in Requests, request[q] # None
  PROVE  \/ Flushed(request[q]) = auth
         \/ \E t \in Tokens, revoked \in BOOLEAN :
              /\ auth[t] # None /\ (auth[t].revoked => revoked)
              /\ Flushed(request[q]) = [auth EXCEPT ![t] =
                   [owner |-> auth[t].owner, expires |-> auth[t].expires, revoked |-> revoked]]
<1>1. CASE request[q].loaded = None
  BY <1>1 DEF Flushed
<1>2. CASE request[q].loaded # None
  <2>. DEFINE t == request[q].session
              old == request[q].loaded
              new == [old EXCEPT !.revoked = @ \/ request[q].op = "logout"]
              row == Columns(auth[t], old, new)
  <2>1. t \in Tokens /\ auth[t] # None /\ auth[t] \in SessionRow /\ old \in SessionRow
    BY <1>2, Rows DEF TypeInv, Linked, RequestLinked, Request
  <2>2. DOMAIN auth[t] = {"owner", "expires", "revoked"}
    BY <2>1 DEF SessionRow
  <2>3. new \in SessionRow /\ new.owner = old.owner /\ new.expires = old.expires
        /\ (new.revoked # old.revoked => new.revoked)
    BY <2>1 DEF SessionRow
  <2>4. row = [owner |-> row.owner, expires |-> row.expires, revoked |-> row.revoked]
        /\ row.owner = auth[t].owner /\ row.expires = auth[t].expires
        /\ row.revoked \in BOOLEAN /\ (auth[t].revoked => row.revoked)
    <3>. HIDE DEF new, old, t
    <3>1. row = [c \in {"owner", "expires", "revoked"} |-> Column(auth[t][c], old[c], new[c])]
      BY <2>2 DEF Columns
    <3>2. row.owner = auth[t].owner /\ row.expires = auth[t].expires
      BY <2>3, <3>1 DEF Column
    <3>3. row.revoked \in BOOLEAN /\ (auth[t].revoked => row.revoked)
      BY <2>1, <2>3, <3>1 DEF Column, SessionRow
    <3>. QED
      BY <3>1, <3>2, <3>3
  <2>5. Flushed(request[q]) = [auth EXCEPT ![t] = row]
    BY <1>2 DEF Flushed
  <2>. HIDE DEF row, t
  <2>. QED
    BY <2>1, <2>4, <2>5
<1>. QED
  BY <1>1, <1>2

LEMMA AuthKept ==
  ASSUME TypeInv, [CatalogueNext]_catalogueVars
  PROVE  /\ auth' \in [Tokens -> SessionRow \cup {None}]
         /\ \A t \in Tokens : auth[t] # None =>
              /\ auth'[t] # None /\ auth'[t].owner = auth[t].owner
              /\ auth[t].revoked => auth'[t].revoked
         /\ \A t \in Tokens : auth'[t] # None => user'[auth'[t].owner] # None
<1>1. auth \in [Tokens -> SessionRow \cup {None}] /\ None \notin SessionRow
  BY RowAssumption DEF TypeInv, CatalogueTypeOK, AccountsTypeOK
<1>2. \A t \in Tokens : auth[t] # None => auth[t] \in SessionRow /\ user'[auth[t].owner] # None
  BY <1>1, UserKept DEF TypeInv, Linked, SessionRow
<1>3. CASE auth' = auth
  BY <1>1, <1>2, <1>3
<1>4. ASSUME NEW e \in Users, NEW t \in Tokens, Issue(t, e), user'[e] # None
      PROVE  /\ auth' \in [Tokens -> SessionRow \cup {None}]
             /\ \A x \in Tokens : auth[x] # None =>
                  /\ auth'[x] # None /\ auth'[x].owner = auth[x].owner
                  /\ auth[x].revoked => auth'[x].revoked
             /\ \A x \in Tokens : auth'[x] # None => user'[auth'[x].owner] # None
  <2>. DEFINE row == [owner |-> e, expires |-> now + SessionTtl, revoked |-> FALSE]
  <2>1. auth[t] = None /\ auth' = [auth EXCEPT ![t] = row]
    BY <1>4 DEF Issue
  <2>2. row \in SessionRow /\ row.owner = e
    BY AccountsAssumption DEF SessionRow, TypeInv, CatalogueTypeOK, AccountsTypeOK, Time
  <2>. HIDE DEF row
  <2>. QED
    BY <1>1, <1>2, <1>4, <2>1, <2>2
<1>5. CASE \E q \in Requests : request[q] # None /\ auth' = Flushed(request[q])
  <2>1. CASE \E t \in Tokens, revoked \in BOOLEAN :
              /\ auth[t] # None /\ (auth[t].revoked => revoked)
              /\ auth' = [auth EXCEPT ![t] =
                   [owner |-> auth[t].owner, expires |-> auth[t].expires, revoked |-> revoked]]
    <3>1. PICK t \in Tokens, revoked \in BOOLEAN :
              /\ auth[t] # None /\ (auth[t].revoked => revoked)
              /\ auth' = [auth EXCEPT ![t] =
                   [owner |-> auth[t].owner, expires |-> auth[t].expires, revoked |-> revoked]]
      BY <2>1
    <3>. DEFINE row == [owner |-> auth[t].owner, expires |-> auth[t].expires, revoked |-> revoked]
    <3>2. row \in SessionRow /\ row.owner = auth[t].owner /\ row.revoked = revoked
      BY <1>2, <3>1 DEF SessionRow
    <3>3. auth' = [auth EXCEPT ![t] = row]
      BY <3>1
    <3>. HIDE DEF row
    <3>. QED
      BY <1>1, <1>2, <3>1, <3>2, <3>3
  <2>. QED
    BY <1>3, <1>5, <2>1, FlushedRow
<1>. QED
  BY <1>3, <1>4, <1>5, AuthEffect DEF TypeInv

LEMMA MerchantTyped ==
  ASSUME TypeInv, [CatalogueNext]_catalogueVars
  PROVE  merchant' \in [Merchants -> MerchantRow \cup {None}]
<1>1. merchant \in [Merchants -> MerchantRow \cup {None}]
  BY DEF TypeInv, CatalogueTypeOK, AccountsTypeOK
<1>2. CASE \E m \in Merchants, status \in {"active", "suspended"} :
             merchant[m] # None /\ merchant' = [merchant EXCEPT ![m].status = status]
  BY <1>1, <1>2 DEF MerchantRow, MerchantStatuses
<1>3. ASSUME NEW q \in Requests, Shows(q)
      PROVE  merchant' \in [Merchants -> MerchantRow \cup {None}]
  BY <1>1, <1>3, ShownRow
<1>. QED
  BY <1>1, <1>2, <1>3, MerchantEffect

\* A request as it begins: well-formed, and of a session that is there.
LEMMA BeganTyped ==
  ASSUME TypeInv, NEW q \in Requests, Began(q)
  PROVE  \E work \in Request :
           /\ request[q] = None /\ request' = [request EXCEPT ![q] = work]
           /\ work.loaded # None => work.session \in Tokens /\ auth[work.session] # None
           /\ work.op \in {"apply", "applied"} => work.by \in Users /\ user[work.by] # None
           /\ work.op \in {"create", "quick"} => work.target \in Merchants
           /\ work.op = "create" => work.target \in Unused /\ work.created = Stamp
           /\ work.op # "applied"
           /\ work.op = "apply" => work.target = OwnedMerchant(work.by)
           /\ work.op = "publish" => \E i \in Items :
                /\ Publishable(i)
                /\ draft' = [draft EXCEPT ![q] = [item |-> i, stock |-> item[i], page |-> page[i]]]
           /\ work.op # "publish" => draft' = draft
<1>1. PICK op \in {"read", "logout", "create", "apply", "quick", "publish"}, c \in Credential,
           by \in Users \cup {None}, roles \in SUBSET Roles, target \in Merchants \cup {None},
           created \in Nat :
        /\ BeginWith(q, op, c, by, roles, target, created)
        /\ op = "create" => target \in Unused /\ created = Stamp
        /\ op = "apply" => by \in Users /\ user[by] # None /\ target = OwnedMerchant(by)
        /\ op = "quick" => target \in Merchants
        /\ op = "publish" => \E i \in Items :
             /\ Publishable(i)
             /\ draft' = [draft EXCEPT ![q] = [item |-> i, stock |-> item[i], page |-> page[i]]]
        /\ op # "publish" => draft' = draft
  BY DEF Began
<1>. DEFINE work == [op |-> op, session |-> IF SessionOf(c) = None THEN None ELSE c,
                     loaded |-> SessionOf(c), by |-> by, roles |-> roles,
                     target |-> target, created |-> created]
<1>2. request[q] = None /\ request' = [request EXCEPT ![q] = work]
  BY <1>1 DEF BeginWith
<1>3. SessionOf(c) # None => c \in Tokens /\ SessionOf(c) = auth[c]
  BY DEF SessionOf
<1>4. SessionOf(c) # None => SessionOf(c) \in SessionRow
  BY <1>3, Rows DEF TypeInv
<1>5. work \in Request
  BY <1>1, <1>3, <1>4 DEF Request
<1>6. /\ work.op = op /\ work.by = by /\ work.target = target /\ work.created = created
      /\ work.loaded = SessionOf(c) /\ work.session = IF SessionOf(c) = None THEN None ELSE c
  OBVIOUS
<1>7. Unused \subseteq Merchants
  BY DEF Unused
<1>. HIDE DEF work
<1>. QED
  BY <1>1, <1>2, <1>3, <1>5, <1>6, <1>7

\* The second half of an application.
LEMMA Inserted ==
  ASSUME TypeInv, NEW q \in Requests, InsertMerchant(q)
  PROVE  \E work \in Request :
           /\ request[q] # None /\ request[q].op = "apply"
           /\ request' = [request EXCEPT ![q] = work]
           /\ work.op = "applied" /\ work.target \in Merchants
           /\ work.session = request[q].session /\ work.loaded = request[q].loaded
           /\ work.by = request[q].by
           /\ request[q].target = None => work.target \in Unused /\ work.created = Stamp
           /\ request[q].target # None => work.created = 0
<1>1. PICK known \in {request[q].roles, user[request[q].by].roles} :
           \E m \in IF request[q].target = None THEN Unused ELSE {request[q].target} :
             request' = [request EXCEPT
               ![q].op = "applied", ![q].target = m,
               ![q].created = IF request[q].target = None THEN Stamp ELSE 0,
               ![q].roles = {"merchant"} \ known]
  BY DEF InsertMerchant
<1>2. PICK m \in IF request[q].target = None THEN Unused ELSE {request[q].target} :
             request' = [request EXCEPT
               ![q].op = "applied", ![q].target = m,
               ![q].created = IF request[q].target = None THEN Stamp ELSE 0,
               ![q].roles = {"merchant"} \ known]
  BY <1>1
<1>. DEFINE work == [request[q] EXCEPT
               !.op = "applied", !.target = m,
               !.created = IF request[q].target = None THEN Stamp ELSE 0,
               !.roles = {"merchant"} \ known]
<1>3. request[q] # None /\ request[q].op = "apply" /\ request[q] \in Request
  BY Rows DEF InsertMerchant, TypeInv
<1>4. m \in Merchants
  BY <1>2, <1>3 DEF Unused, Request
<1>5. Stamp \in Nat
  BY StampNew DEF TypeInv
<1>6. /\ work \in Request /\ work.session = request[q].session /\ work.loaded = request[q].loaded
      /\ work.by = request[q].by /\ work.target = m /\ work.op = "applied"
      /\ work.created = IF request[q].target = None THEN Stamp ELSE 0
  BY <1>3, <1>4, <1>5 DEF Request, Roles
<1>7. request \in [Requests -> Request \cup {None}]
  BY DEF TypeInv, CatalogueTypeOK, AccountsTypeOK
<1>8. request' = [request EXCEPT ![q] = work]
  BY <1>2, <1>7
<1>. HIDE DEF work
<1>. QED
  BY <1>2, <1>3, <1>4, <1>6, <1>8

LEMMA RequestKept ==
  ASSUME TypeInv, [CatalogueNext]_catalogueVars
  PROVE  /\ request' \in [Requests -> Request \cup {None}]
         /\ \A q \in Requests : request'[q] # None => RequestLinked(q)'
<1>1. request \in [Requests -> Request \cup {None}] /\ None \notin Request
  BY RowAssumption DEF TypeInv, CatalogueTypeOK, AccountsTypeOK
<1>. DEFINE Ok(work) ==
       /\ work \in Request
       /\ work.loaded # None => work.session \in Tokens /\ auth[work.session] # None
       /\ work.op \in {"apply", "applied"} => work.by \in Users /\ user[work.by] # None
       /\ work.op \in {"create", "applied", "quick"} => work.target \in Merchants
       /\ work.op = "create" => work.created > 0
<1>2. \A q \in Requests : request[q] # None => Ok(request[q])
  BY <1>1 DEF TypeInv, Linked, RequestLinked
<1>. SUFFICES /\ request' = [q \in Requests |-> request'[q]]
              /\ \A q \in Requests : request'[q] = None \/ Ok(request'[q])
  <2>1. \A t \in Tokens : auth[t] # None => auth'[t] # None
    BY AuthKept
  <2>2. \A e \in Users : user[e] # None => user'[e] # None
    BY UserKept
  <2>. QED
    BY <1>1, <2>1, <2>2 DEF RequestLinked
<1>3. CASE request' = request
  BY <1>1, <1>2, <1>3
<1>4. ASSUME NEW q \in Requests, Began(q)
      PROVE  /\ request' = [r \in Requests |-> request'[r]]
             /\ \A r \in Requests : request'[r] = None \/ Ok(request'[r])
  <2>1. Stamp > 0
    BY StampNew DEF TypeInv
  <2>2. PICK work \in Request : Ok(work) /\ request' = [request EXCEPT ![q] = work]
    BY <1>4, <2>1, BeganTyped
  <2>. HIDE DEF Ok
  <2>. QED
    BY <1>1, <1>2, <2>2
<1>5. ASSUME NEW q \in Requests, InsertMerchant(q)
      PROVE  /\ request' = [r \in Requests |-> request'[r]]
             /\ \A r \in Requests : request'[r] = None \/ Ok(request'[r])
  <2>1. PICK work \in Request :
          /\ request' = [request EXCEPT ![q] = work]
          /\ work.session = request[q].session /\ work.loaded = request[q].loaded
          /\ work.op = "applied" /\ work.by = request[q].by /\ work.target \in Merchants
    BY <1>5, Inserted
  <2>2. Ok(request[q]) /\ request[q].op = "apply"
    BY <1>2, <1>5 DEF InsertMerchant
  <2>3. Ok(work)
    BY <2>1, <2>2
  <2>. HIDE DEF Ok
  <2>. QED
    BY <1>1, <1>2, <2>1, <2>3
<1>6. ASSUME NEW q \in Requests, End(q)
      PROVE  /\ request' = [r \in Requests |-> request'[r]]
             /\ \A r \in Requests : request'[r] = None \/ Ok(request'[r])
  <2>. HIDE DEF Ok
  <2>. QED
    BY <1>1, <1>2, <1>6 DEF End
<1>. QED
  BY <1>3, <1>4, <1>5, <1>6, RequestEffect

-----------------------------------------------------------------------------
(***************************************************************************)
(* What steps do to items and listings.                                    *)
(***************************************************************************)
LEMMA StockEffect ==
  ASSUME [CatalogueNext]_catalogueVars
  PROVE  \/ UNCHANGED <<item, page, held, disturbed>>
         \/ \E i \in Items, m \in Merchants, status \in ItemStatuses :
              /\ item[i] = None /\ item' = [item EXCEPT ![i] = [merchant |-> m, status |-> status]]
              /\ UNCHANGED <<page, held, disturbed>>
         \/ \E i \in Items, m \in Merchants :
              /\ item[i] # None
              /\ page' = [page EXCEPT ![i] = [merchant |-> m, status |-> "draft"]]
              /\ UNCHANGED <<item, held, disturbed>>
         \/ \E q \in Requests, i \in Items : FinishQuick(q, i)
         \/ \E q \in Requests : FinishPublish(q)
         \/ \E i \in Items : Reserve(i)
         \/ \E i \in Items : Release(i)
<1>1. CASE CatalogueStep
  BY <1>1 DEF CatalogueStep, CreateItem, CreateListing, BeginQuick, BeginPublish, Abort
<1>2. CASE AccountsStep
  <2>1. UNCHANGED <<item, page, held, disturbed>>
    BY <1>2 DEF AccountsStep
  <2>. QED
    BY <2>1
<1>3. CASE UNCHANGED catalogueVars
  BY <1>3 DEF catalogueVars
<1>. QED
  BY <1>1, <1>2, <1>3 DEF CatalogueNext

\* What the commit of a publication makes of the listing and the item.
LEMMA Published ==
  ASSUME TypeInv, NEW q \in Requests, FinishPublish(q)
  PROVE  \E i \in Items, p \in PageStatuses, s \in StockStatuses :
           /\ i = draft[q].item /\ item[i] # None /\ page[i] # None
           /\ draft[q] \in Draft /\ draft[q].page \in PageRow /\ draft[q].stock \in ItemRow
           /\ page' = [page EXCEPT ![i] = [merchant |-> page[i].merchant, status |-> p]]
           /\ item' = [item EXCEPT ![i] = [merchant |-> item[i].merchant, status |-> s]]
           /\ p = Column(page[i].status, draft[q].page.status, "active")
           /\ s = Column(item[i].status, draft[q].stock.status,
                         IF draft[q].stock.status = "reserved" THEN "available"
                         ELSE draft[q].stock.status)
<1>. DEFINE d == draft[q]
            i == d.item
            newPage == [d.page EXCEPT !.status = "active"]
            newItem == Republished(d.stock)
            p == Columns(page[i], d.page, newPage)
            s == Columns(item[i], d.stock, newItem)
<1>1. d \in Draft /\ d.stock \in ItemRow /\ d.page \in PageRow /\ i \in Items
      /\ item[i] \in ItemRow /\ page[i] \in PageRow /\ item[i] # None /\ page[i] # None
  <2>1. request[q] # None /\ request[q].op = "publish"
    BY DEF FinishPublish
  <2>2. DraftLinked(q)
    BY <2>1 DEF TypeInv, Linked
  <2>3. d \in Draft
    BY <2>2, Rows DEF DraftLinked, TypeInv
  <2>4. i \in Items /\ d.stock \in ItemRow /\ d.page \in PageRow
    BY <2>2, <2>3 DEF DraftLinked, Draft
  <2>. QED
    BY <2>2, <2>3, <2>4, Rows DEF DraftLinked, TypeInv
<1>2. /\ page' = [page EXCEPT ![i] = p]
      /\ item' = [item EXCEPT ![i] = s]
  BY DEF FinishPublish
<1>3. /\ newPage.merchant = d.page.merchant /\ newPage.status = "active"
      /\ newItem.merchant = d.stock.merchant
      /\ newItem.status = IF d.stock.status = "reserved" THEN "available" ELSE d.stock.status
  BY <1>1 DEF ItemRow, PageRow, Republished
<1>4. DOMAIN page[i] = {"merchant", "status"} /\ DOMAIN item[i] = {"merchant", "status"}
  BY <1>1 DEF ItemRow, PageRow
<1>5. /\ p = [c \in {"merchant", "status"} |-> Column(page[i][c], d.page[c], newPage[c])]
      /\ s = [c \in {"merchant", "status"} |-> Column(item[i][c], d.stock[c], newItem[c])]
  BY <1>4 DEF Columns
<1>. HIDE DEF newPage, newItem, p, s
<1>6. /\ p = [merchant |-> page[i].merchant, status |-> Column(page[i].status, d.page.status, "active")]
      /\ s = [merchant |-> item[i].merchant,
              status |-> Column(item[i].status, d.stock.status,
                                IF d.stock.status = "reserved" THEN "available" ELSE d.stock.status)]
  BY <1>3, <1>5 DEF Column
<1>7. /\ Column(page[i].status, d.page.status, "active") \in PageStatuses
      /\ Column(item[i].status, d.stock.status,
                IF d.stock.status = "reserved" THEN "available" ELSE d.stock.status) \in StockStatuses
  BY <1>1 DEF Column, ItemRow, PageRow, StockStatuses, PageStatuses
<1>. QED
  BY <1>1, <1>2, <1>6, <1>7

\* The listing and the item are typed, stay, and the listing has its item.
StockKeeps ==
  /\ item' \in [Items -> ItemRow \cup {None}]
  /\ page' \in [Items -> PageRow \cup {None}]
  /\ held' \in [Items -> 0 .. MaxOrders]
  /\ disturbed' \subseteq Items
  /\ \A i \in Items : /\ item[i] # None => item'[i] # None
                      /\ page[i] # None => page'[i] # None
                      /\ page'[i] # None \/ held'[i] > 0 => page'[i] # None /\ item'[i] # None

LEMMA StockKept ==
  ASSUME TypeInv, [CatalogueNext]_catalogueVars
  PROVE  StockKeeps
<1>1. /\ item \in [Items -> ItemRow \cup {None}] /\ page \in [Items -> PageRow \cup {None}]
      /\ held \in [Items -> 0 .. MaxOrders] /\ disturbed \subseteq Items
      /\ None \notin ItemRow /\ None \notin PageRow /\ MaxOrders \in Nat
      /\ \A i \in Items : page[i] # None \/ held[i] > 0 => page[i] # None /\ item[i] # None
  BY CatalogueRowAssumption, CatalogueAssumption DEF TypeInv, Linked, CatalogueTypeOK
<1>2. CASE UNCHANGED <<item, page, held, disturbed>>
  BY <1>1, <1>2 DEF StockKeeps
<1>3. ASSUME NEW i \in Items, NEW m \in Merchants, NEW status \in ItemStatuses,
             item[i] = None, item' = [item EXCEPT ![i] = [merchant |-> m, status |-> status]],
             UNCHANGED <<page, held, disturbed>>
      PROVE  StockKeeps
  <2>1. [merchant |-> m, status |-> status] \in ItemRow
    BY CatalogueAssumption DEF ItemRow
  <2>. QED
    BY <1>1, <1>3, <2>1 DEF StockKeeps
<1>4. ASSUME NEW i \in Items, NEW m \in Merchants, item[i] # None,
             page' = [page EXCEPT ![i] = [merchant |-> m, status |-> "draft"]],
             UNCHANGED <<item, held, disturbed>>
      PROVE  StockKeeps
  <2>1. [merchant |-> m, status |-> "draft"] \in PageRow
    BY DEF PageRow, PageStatuses
  <2>. QED
    BY <1>1, <1>4, <2>1 DEF StockKeeps
<1>5. ASSUME NEW q \in Requests, NEW i \in Items, FinishQuick(q, i)
      PROVE  StockKeeps
  <2>1. request[q].target \in Merchants
    BY <1>5 DEF FinishQuick, TypeInv, Linked, RequestLinked
  <2>2. /\ [merchant |-> request[q].target, status |-> "available"] \in ItemRow
        /\ [merchant |-> request[q].target, status |-> "active"] \in PageRow
    BY <2>1 DEF ItemRow, PageRow, StockStatuses, PageStatuses
  <2>3. /\ item' = [item EXCEPT ![i] = [merchant |-> request[q].target, status |-> "available"]]
        /\ page' = [page EXCEPT ![i] = [merchant |-> request[q].target, status |-> "active"]]
        /\ UNCHANGED <<held, disturbed>>
    BY <1>5 DEF FinishQuick
  <2>. QED
    BY <1>1, <2>2, <2>3 DEF StockKeeps
<1>6. ASSUME NEW q \in Requests, FinishPublish(q)
      PROVE  StockKeeps
  <2>1. PICK i \in Items, p \in PageStatuses, s \in StockStatuses :
           /\ i = draft[q].item /\ item[i] # None /\ page[i] # None
           /\ page' = [page EXCEPT ![i] = [merchant |-> page[i].merchant, status |-> p]]
           /\ item' = [item EXCEPT ![i] = [merchant |-> item[i].merchant, status |-> s]]
    BY <1>6, Published
  <2>2. [merchant |-> page[i].merchant, status |-> p] \in PageRow
        /\ [merchant |-> item[i].merchant, status |-> s] \in ItemRow
    BY <1>1, <2>1 DEF PageRow, ItemRow
  <2>3. held' = held /\ disturbed' \subseteq Items
    BY <1>1, <1>6, <2>1 DEF FinishPublish
  <2>. QED
    BY <1>1, <2>1, <2>2, <2>3 DEF StockKeeps
<1>7. ASSUME NEW i \in Items, NEW p \in PageStatuses, NEW s \in StockStatuses, NEW h \in 0 .. MaxOrders,
             page[i] # None, item[i] # None,
             page' = [page EXCEPT ![i].status = p], item' = [item EXCEPT ![i].status = s],
             held' = [held EXCEPT ![i] = h], disturbed' = disturbed
      PROVE  StockKeeps
  <2>1. [page[i] EXCEPT !.status = p] \in PageRow /\ [item[i] EXCEPT !.status = s] \in ItemRow
    BY <1>1, <1>7 DEF PageRow, ItemRow
  <2>. QED
    BY <1>1, <1>7, <2>1 DEF StockKeeps
<1>8. CASE \E i \in Items : Reserve(i)
  <2>1. PICK i \in Items : Reserve(i)
    BY <1>8
  <2>2. /\ page[i] # None /\ item[i] # None
        /\ page' = [page EXCEPT ![i].status = "reserved"]
        /\ item' = [item EXCEPT ![i].status = "reserved"]
        /\ held' = [held EXCEPT ![i] = held[i] + 1] /\ disturbed' = disturbed
        /\ held[i] + 1 \in 0 .. MaxOrders
    BY <1>1, <2>1 DEF Reserve
  <2>3. "reserved" \in PageStatuses /\ "reserved" \in StockStatuses
    BY DEF PageStatuses, StockStatuses
  <2>. QED
    BY <1>7, <2>2, <2>3
<1>9. CASE \E i \in Items : Release(i)
  <2>1. PICK i \in Items : Release(i)
    BY <1>9
  <2>. DEFINE p == IF page[i].status = "reserved" THEN "active" ELSE page[i].status
              s == IF item[i].status = "reserved" THEN "available" ELSE item[i].status
  <2>2. page[i] # None /\ item[i] # None
    BY <1>1, <2>1 DEF Release
  <2>3. p \in PageStatuses /\ s \in StockStatuses
    BY <1>1, <2>2 DEF PageRow, ItemRow, PageStatuses, StockStatuses
  <2>4. /\ page' = [page EXCEPT ![i].status = p] /\ item' = [item EXCEPT ![i].status = s]
        /\ held' = [held EXCEPT ![i] = held[i] - 1] /\ disturbed' = disturbed
        /\ held[i] - 1 \in 0 .. MaxOrders
    BY <1>1, <2>1 DEF Release
  <2>. HIDE DEF p, s
  <2>. QED
    BY <1>7, <2>2, <2>3, <2>4
<1>. QED
  BY <1>2, <1>3, <1>4, <1>5, <1>6, <1>8, <1>9, StockEffect

-----------------------------------------------------------------------------
LEMMA DraftKept ==
  ASSUME TypeInv, [CatalogueNext]_catalogueVars
  PROVE  /\ draft' \in [Requests -> Draft \cup {None}]
         /\ \A q \in Requests : request'[q] # None /\ request'[q].op = "publish" => DraftLinked(q)'
<1>1. /\ draft \in [Requests -> Draft \cup {None}] /\ request \in [Requests -> Request \cup {None}]
      /\ None \notin Request
  BY RowAssumption DEF TypeInv, CatalogueTypeOK, AccountsTypeOK
<1>. DEFINE Ok(d) == d # None /\ d \in Draft /\ d.stock # None /\ d.page # None
                     /\ item[d.item] # None /\ page[d.item] # None
<1>2. \A q \in Requests : request[q] # None /\ request[q].op = "publish" => Ok(draft[q])
  BY <1>1 DEF TypeInv, Linked, DraftLinked
<1>. SUFFICES /\ draft' \in [Requests -> Draft \cup {None}]
              /\ \A q \in Requests : request'[q] # None /\ request'[q].op = "publish" => Ok(draft'[q])
  BY StockKept DEF StockKeeps, DraftLinked, Draft
<1>3. CASE request' = request /\ draft' = draft
  BY <1>1, <1>2, <1>3
<1>4. ASSUME NEW q \in Requests, Began(q)
      PROVE  /\ draft' \in [Requests -> Draft \cup {None}]
             /\ \A r \in Requests : request'[r] # None /\ request'[r].op = "publish" => Ok(draft'[r])
  <2>1. PICK work \in Request :
           /\ request' = [request EXCEPT ![q] = work]
           /\ work.op = "publish" => \E i \in Items :
                /\ Publishable(i)
                /\ draft' = [draft EXCEPT ![q] = [item |-> i, stock |-> item[i], page |-> page[i]]]
           /\ work.op # "publish" => draft' = draft
    BY <1>4, BeganTyped
  <2>2. CASE work.op # "publish"
    <3>. HIDE DEF Ok
    <3>. QED
      BY <1>1, <1>2, <2>1, <2>2
  <2>3. CASE work.op = "publish"
    <3>1. PICK i \in Items :
            /\ Publishable(i)
            /\ draft' = [draft EXCEPT ![q] = [item |-> i, stock |-> item[i], page |-> page[i]]]
      BY <2>1, <2>3
    <3>. DEFINE d == [item |-> i, stock |-> item[i], page |-> page[i]]
    <3>2. page[i] # None /\ item[i] # None
      BY <3>1 DEF Publishable, TypeInv, Linked
    <3>3. d \in Draft
      BY <3>2, Rows DEF Draft, TypeInv
    <3>4. Ok(d)
      BY <3>2, <3>3, CatalogueRowAssumption
    <3>. HIDE DEF d, Ok
    <3>5. draft' = [draft EXCEPT ![q] = d]
      BY <3>1 DEF d
    <3>. QED
      BY <1>1, <1>2, <2>1, <3>3, <3>4, <3>5
  <2>. QED
    BY <2>2, <2>3
<1>5. ASSUME NEW q \in Requests, InsertMerchant(q), draft' = draft
      PROVE  /\ draft' \in [Requests -> Draft \cup {None}]
             /\ \A r \in Requests : request'[r] # None /\ request'[r].op = "publish" => Ok(draft'[r])
  <2>1. /\ \A r \in Requests \ {q} : request'[r] = request[r]
        /\ request[q] # None /\ request[q] \in Request
    BY <1>1, <1>5, Rows DEF InsertMerchant, TypeInv
  <2>2. request'[q].op = "applied"
    BY <1>1, <1>5, <2>1 DEF InsertMerchant, Request
  <2>. HIDE DEF Ok
  <2>. QED
    BY <1>1, <1>2, <1>5, <2>1, <2>2
<1>6. ASSUME NEW q \in Requests, request[q] # None, End(q),
             \/ draft' = draft /\ request[q].op # "publish"
             \/ draft' = [draft EXCEPT ![q] = None]
      PROVE  /\ draft' \in [Requests -> Draft \cup {None}]
             /\ \A r \in Requests : request'[r] # None /\ request'[r].op = "publish" => Ok(draft'[r])
  <2>. HIDE DEF Ok
  <2>. QED
    BY <1>1, <1>2, <1>6 DEF End
<1>. QED
  BY <1>3, <1>4, <1>5, <1>6, RequestEffect

LEMMA ServersKept ==
  ASSUME CatalogueTypeOK, [CatalogueNext]_catalogueVars
  PROVE  /\ server' \in [Servers -> Server] /\ seeded' \in BOOLEAN
         /\ seeded => seeded'
<1>1. /\ server \in [Servers -> Server] /\ seeded \in BOOLEAN
      /\ user[AdminEmail] \in UserRow \cup {None}
      /\ Down \in Server /\ Up \in Server
  BY AccountsAssumption DEF CatalogueTypeOK, AccountsTypeOK, Down, Up, Server
<1>2. ASSUME NEW p \in Servers, StartServer(p) \/ FinishStart(p)
      PROVE  server' \in [Servers -> Server] /\ seeded' \in BOOLEAN /\ (seeded => seeded')
  <2>1. [phase |-> "starting", seeded |-> seeded, admin |-> user[AdminEmail]] \in Server
    BY <1>1 DEF Server
  <2>2. CASE StartServer(p)
    BY <1>1, <2>1, <2>2 DEF StartServer
  <2>3. CASE FinishStart(p)
    BY <1>1, <2>3 DEF FinishStart
  <2>. QED
    BY <1>2, <2>2, <2>3
<1>3. CASE UNCHANGED <<server, seeded>>
  BY <1>1, <1>3
<1>4. CASE CatalogueStep
  <2>1. UNCHANGED <<server, seeded>>
    BY <1>4, ZenonT(60) DEF CatalogueStep, CreateItem, CreateListing, OperatorStep, BeginQuick, BeginPublish,
                Begin, BeginWith, FinishPublish, FinishQuick, Abort, AbortRequest, Reserve, Release, vars, deployVars
  <2>. QED
    BY <1>3, <2>1
<1>5. CASE ServerNext
  BY <1>2, <1>5 DEF ServerNext
<1>6. CASE StaffNext
  <2>1. UNCHANGED <<server, seeded>>
    BY <1>6 DEF StaffNext, CreateUser, BeginCreate, BeginWith, UpdateMerchantStatus, deployVars
  <2>. QED
    BY <1>3, <2>1
<1>7. CASE RequestNext
  <2>1. UNCHANGED <<server, seeded>>
    BY <1>7 DEF RequestNext, BeginRead, BeginLogout, BeginApply, Begin, BeginWith, FinishRead, FinishCreate, InsertMerchant,
                FinishApply, deployVars
  <2>. QED
    BY <1>3, <2>1
<1>8. CASE UserNext
  <2>1. UNCHANGED <<server, seeded>>
    BY <1>8 DEF UserNext, Register, Login, deployVars
  <2>. QED
    BY <1>3, <2>1
<1>9. CASE OutsideNext
  <2>1. UNCHANGED <<server, seeded>>
    BY <1>9 DEF OutsideNext, Tick, SetUserStatus, RotateKey, FetchKeys, deployVars
  <2>. QED
    BY <1>3, <2>1
<1>10. CASE UNCHANGED catalogueVars
  BY <1>3, <1>10 DEF catalogueVars, vars
<1>. QED
  BY <1>4, <1>5, <1>6, <1>7, <1>8, <1>9, <1>10 DEF CatalogueNext, AccountsStep

\* What steps do to the keys of the OIDC provider, the cache and the clock.
LEMMA KeyEffect ==
  ASSUME [CatalogueNext]_catalogueVars
  PROVE  /\ mode' = mode
         /\ \/ UNCHANGED <<now, published, retired>> /\ jwks' \in {jwks, CurrentKeys}
            \/ /\ now < Horizon /\ now' = now + 1
               /\ UNCHANGED <<published, retired, jwks>>
            \/ /\ \E k \in SigningKeys :
                    /\ k # published /\ retired[k] = None /\ published' = k
                    /\ retired' = [retired EXCEPT ![published] = now]
               /\ UNCHANGED <<now, jwks>>
<1>1. CASE CatalogueStep
  BY <1>1, ZenonT(60) DEF CatalogueStep, CreateItem, CreateListing, OperatorStep, BeginQuick, BeginPublish, KeepKeys,
              Begin, BeginWith, FinishPublish, FinishQuick, Abort, AbortRequest, Reserve, Release, vars, oidcVars
<1>2. CASE ServerNext
  BY <1>2 DEF ServerNext, StartServer, FinishStart, oidcVars
<1>3. CASE StaffNext
  BY <1>3 DEF StaffNext, CreateUser, BeginCreate, BeginWith, UpdateMerchantStatus, KeepKeys
<1>4. CASE RequestNext
  BY <1>4 DEF RequestNext, BeginRead, BeginLogout, BeginApply, Begin, BeginWith, FinishRead, FinishCreate, InsertMerchant,
              FinishApply, oidcVars, KeepKeys
<1>5. CASE UserNext
  BY <1>5 DEF UserNext, Register, Login, oidcVars
<1>6. CASE OutsideNext
  BY <1>6 DEF OutsideNext, Tick, SetUserStatus, RotateKey, FetchKeys, oidcVars, KeepKeys
<1>7. CASE UNCHANGED catalogueVars
  BY <1>7 DEF catalogueVars, vars
<1>. QED
  BY <1>1, <1>2, <1>3, <1>4, <1>5, <1>6, <1>7 DEF CatalogueNext, AccountsStep

LEMMA KeysTyped ==
  ASSUME CatalogueTypeOK, [CatalogueNext]_catalogueVars
  PROVE  /\ now' \in Time /\ mode' \in Modes /\ published' \in SigningKeys
         /\ retired' \in [SigningKeys -> Time \cup {None}]
         /\ jwks' \in [keys: SUBSET SigningKeys, until: Nat]
<1>1. /\ now \in Time /\ mode \in Modes /\ published \in SigningKeys
      /\ retired \in [SigningKeys -> Time \cup {None}]
      /\ jwks \in [keys: SUBSET SigningKeys, until: Nat]
      /\ Horizon \in Nat /\ KeyTtl \in Nat
  BY AccountsAssumption DEF CatalogueTypeOK, AccountsTypeOK
<1>2. CurrentKeys \in [keys: SUBSET SigningKeys, until: Nat]
  BY <1>1 DEF CurrentKeys, Time
<1>3. now < Horizon => now + 1 \in Time
  BY <1>1 DEF Time
<1>. QED
  BY <1>1, <1>2, <1>3, KeyEffect

LEMMA HistoryTyped ==
  ASSUME TypeInv, [CatalogueNext]_catalogueVars
  PROVE  raced' \subseteq Users /\ spent' \in 0 .. MaxWork
<1>1. raced \subseteq Users /\ spent \in 0 .. MaxWork /\ MaxWork \in Nat
  BY AccountsAssumption DEF TypeInv, CatalogueTypeOK, AccountsTypeOK
<1>2. Spend => spent' \in 0 .. MaxWork
  BY <1>1 DEF Spend
<1>3. raced' \subseteq Users
  <2>1. ASSUME NEW q \in Requests, Shows(q)
        PROVE  raced' \subseteq Users
    <3>1. request[q].by \in Users \cup {None}
      BY <2>1, Rows DEF Shows, Inserts, TypeInv, Request
    <3>2. raced' = raced \/ (request[q].by # None /\ raced' = raced \cup {request[q].by})
      BY <2>1 DEF Shows, ShowMerchant, Overtakes
    <3>. QED
      BY <1>1, <3>1, <3>2
  <2>. QED
    BY <1>1, <2>1, MerchantEffect
<1>4. CASE CatalogueStep
  BY <1>1, <1>2, <1>4, ZenonT(60) DEF CatalogueStep, CreateItem, CreateListing, OperatorStep, BeginQuick, BeginPublish,
              Begin, BeginWith, FinishPublish, FinishQuick, Abort, AbortRequest, Reserve, Release, vars
<1>5. CASE ServerNext
  BY <1>1, <1>2, <1>5 DEF ServerNext, StartServer, FinishStart
<1>6. CASE StaffNext
  <2>1. Spend
    BY <1>6, ZenonT(60) DEF StaffNext, CreateUser, BeginCreate, BeginWith, UpdateMerchantStatus
  <2>. QED
    BY <1>2, <1>3, <2>1
<1>7. CASE RequestNext
  <2>1. ASSUME NEW q \in Requests, FinishRead(q) \/ FinishCreate(q) \/ InsertMerchant(q) \/ FinishApply(q)
        PROVE  spent' = spent
    BY <2>1, ZenonT(60) DEF FinishRead, FinishCreate, InsertMerchant, FinishApply
  <2>2. ASSUME NEW q \in Requests,
               \/ \E t \in Tokens : BeginRead(q, t) \/ BeginLogout(q, t)
               \/ \E c \in Credential : BeginApply(q, c)
        PROVE  Spend
    BY <2>2, ZenonT(60) DEF BeginRead, BeginLogout, BeginApply, Begin, BeginWith
  <2>. QED
    BY <1>1, <1>2, <1>3, <1>7, <2>1, <2>2, ZenonT(60) DEF RequestNext
<1>8. CASE UserNext
  BY <1>1, <1>2, <1>8 DEF UserNext, Register, Login
<1>9. CASE OutsideNext
  BY <1>1, <1>2, <1>9 DEF OutsideNext, Tick, SetUserStatus, RotateKey, FetchKeys
<1>10. CASE UNCHANGED catalogueVars
  BY <1>1, <1>10 DEF catalogueVars, vars
<1>. QED
  BY <1>3, <1>4, <1>5, <1>6, <1>7, <1>8, <1>9, <1>10 DEF CatalogueNext, AccountsStep

LEMMA TypeInit ==
  ASSUME CatalogueInit
  PROVE  TypeInv
<1>1. /\ user \in [Users -> UserRow \cup {None}] /\ auth = [t \in Tokens |-> None]
      /\ request = [q \in Requests |-> None] /\ server \in [Servers -> Server]
      /\ retired \in [SigningKeys -> Time \cup {None}]
  BY DEF CatalogueInit, Init, NewBuyer, UserRow, Roles, Down, Server
<1>2. /\ now \in Time /\ 0 \in 0 .. MaxWork /\ 0 \in 0 .. MaxOrders
      /\ jwks \in [keys: SUBSET SigningKeys, until: Nat]
  BY AccountsAssumption, CatalogueAssumption DEF CatalogueInit, Init, Time
<1>3. AccountsTypeOK
  BY <1>1, <1>2 DEF CatalogueInit, Init, AccountsTypeOK
<1>4. CatalogueTypeOK
  BY <1>2, <1>3 DEF CatalogueInit, CatalogueTypeOK
<1>5. Linked
  BY <1>1 DEF CatalogueInit, Linked
<1>. QED
  BY <1>4, <1>5 DEF TypeInv

LEMMA TypeStep ==
  ASSUME TypeInv, [CatalogueNext]_catalogueVars
  PROVE  TypeInv'
<1>1. CatalogueTypeOK
  BY DEF TypeInv
<1>2. AccountsTypeOK'
  BY <1>1, UserKept, AuthKept, MerchantTyped, RequestKept, ServersKept, KeysTyped, HistoryTyped
     DEF AccountsTypeOK
<1>3. CatalogueTypeOK'
  BY <1>2, StockKept, DraftKept DEF CatalogueTypeOK, StockKeeps
<1>4. Linked'
  BY AuthKept, RequestKept, StockKept, DraftKept DEF Linked, StockKeeps
<1>. QED
  BY <1>3, <1>4 DEF TypeInv

\* Every row, request and draft is one, and refers to rows that are there: what
\* the other theorems rest on.
THEOREM CatalogueTyped == CatalogueSpec => []TypeInv
<1>1. TypeInv /\ [CatalogueNext]_catalogueVars => TypeInv'
  BY TypeStep
<1>. QED
  BY <1>1, TypeInit, PTL DEF CatalogueSpec

-----------------------------------------------------------------------------
\* A session that was logged out stays so, whatever requests that loaded it
\* before write when they commit.
THEOREM RevocationHolds == CatalogueSpec => RevokedForGood
<1>1. TypeInv /\ [CatalogueNext]_catalogueVars =>
        [\A t \in Tokens : auth[t] # None /\ auth[t].revoked => auth'[t].revoked]_vars
  BY AuthKept
<1>. QED
  BY <1>1, CatalogueTyped, PTL DEF CatalogueSpec, RevokedForGood

\* Whoever serves has the reference rows and an administrator.
THEOREM AdminThere == CatalogueSpec => []AdminInPlace
<1>1. CatalogueInit => AdminInPlace
  BY DEF CatalogueInit, Init, AdminInPlace, Serving, Up, Down
<1>2. TypeInv /\ AdminInPlace /\ [CatalogueNext]_catalogueVars => AdminInPlace'
  <2>. SUFFICES ASSUME TypeInv, AdminInPlace, [CatalogueNext]_catalogueVars
                PROVE  AdminInPlace'
    OBVIOUS
  <2>. DEFINE There == seeded /\ user[AdminEmail] # None /\ "admin" \in user[AdminEmail].roles
  <2>1. There => There'
    BY UserKept, ServersKept, AccountsAssumption DEF TypeInv
  <2>2. CASE \E p \in Servers : FinishStart(p) /\ server'[p] = Up
    <3>1. PICK p \in Servers : FinishStart(p) /\ server'[p] = Up
      BY <2>2
    <3>2. seeded' /\ user' = [user EXCEPT ![AdminEmail] = WithAdmin(@)]
      BY <3>1 DEF FinishStart, Up, Down, TypeInv, CatalogueTypeOK, AccountsTypeOK
    <3>3. user[AdminEmail] \in UserRow \cup {None} /\ user \in [Users -> UserRow \cup {None}]
      BY AccountsAssumption DEF TypeInv, CatalogueTypeOK, AccountsTypeOK
    <3>4. WithAdmin(user[AdminEmail]) \in UserRow /\ "admin" \in WithAdmin(user[AdminEmail]).roles
      BY <3>3 DEF WithAdmin, UserRow, Roles
    <3>5. user'[AdminEmail] = WithAdmin(user[AdminEmail])
      BY <3>2, <3>3, AccountsAssumption
    <3>. QED
      BY <3>2, <3>4, <3>5, RowAssumption DEF AdminInPlace
  <2>3. CASE ~ \E p \in Servers : FinishStart(p) /\ server'[p] = Up
    <3>1. Serving' => Serving
      <4>1. server' = server \/ (\E p \in Servers : StartServer(p) \/ FinishStart(p))
        BY ZenonT(60) DEF CatalogueNext, AccountsStep, CatalogueStep, CreateItem, CreateListing, OperatorStep,
               BeginQuick, BeginPublish, Begin, BeginWith, FinishPublish, FinishQuick, Abort, AbortRequest,
               Reserve, Release, vars, deployVars, catalogueVars, ServerNext, StaffNext, CreateUser,
               BeginCreate, UpdateMerchantStatus, RequestNext, BeginRead, BeginLogout, BeginApply,
               FinishRead, FinishCreate, InsertMerchant, FinishApply, UserNext, Register, Login, OutsideNext,
               Tick, SetUserStatus, RotateKey, FetchKeys
      <4>2. server \in [Servers -> Server]
        BY DEF TypeInv, CatalogueTypeOK, AccountsTypeOK
      <4>3. ASSUME NEW p \in Servers, StartServer(p) \/ FinishStart(p), server'[p] # Up
            PROVE  Serving' => Serving
        <5>1. \A x \in Servers \ {p} : server'[x] = server[x]
          BY <4>2, <4>3 DEF StartServer, FinishStart
        <5>. QED
          BY <4>3, <5>1 DEF Serving
      <4>4. ASSUME NEW p \in Servers, StartServer(p)
            PROVE  server'[p] # Up
        BY <4>2, <4>4 DEF StartServer, Up, Down
      <4>. QED
        BY <2>3, <4>1, <4>3, <4>4 DEF Serving
    <3>. QED
      BY <2>1, <3>1 DEF AdminInPlace
  <2>. QED
    BY <2>2, <2>3
<1>. QED
  BY <1>1, <1>2, CatalogueTyped, PTL DEF CatalogueSpec

-----------------------------------------------------------------------------
(***************************************************************************)
(* Keys.  The cache lasts no longer than KeyTtl from now, and no longer    *)
(* than that from the retirement of any key in it.                         *)
(***************************************************************************)
KeyInv ==
  /\ jwks.until <= now + KeyTtl
  /\ retired[published] = None
  /\ \A k \in jwks.keys :
       k = published \/ (retired[k] # None /\ jwks.until <= retired[k] + KeyTtl)

LEMMA KeyStep ==
  ASSUME TypeInv, KeyInv, [CatalogueNext]_catalogueVars
  PROVE  KeyInv'
<1>1. /\ now \in Nat /\ published \in SigningKeys /\ None \notin Nat
      /\ retired \in [SigningKeys -> Nat \cup {None}]
      /\ jwks.keys \subseteq SigningKeys /\ jwks.until \in Nat
      /\ KeyTtl \in Nat
  BY AccountsAssumption, RowAssumption DEF TypeInv, CatalogueTypeOK, AccountsTypeOK, Time
<1>2. CASE UNCHANGED <<now, published, retired, jwks>>
  BY <1>2 DEF KeyInv
<1>3. CASE UNCHANGED <<now, published, retired>> /\ jwks' = [keys |-> {published}, until |-> now + KeyTtl]
  BY <1>1, <1>3 DEF KeyInv
<1>4. CASE now' = now + 1 /\ UNCHANGED <<published, retired, jwks>>
  <2>1. jwks.until <= now + 1 + KeyTtl
    BY <1>1 DEF KeyInv
  <2>. QED
    BY <1>4, <2>1 DEF KeyInv
<1>5. ASSUME NEW k \in SigningKeys, k # published, retired[k] = None, published' = k,
             retired' = [retired EXCEPT ![published] = now], UNCHANGED <<now, jwks>>
      PROVE  KeyInv'
  <2>1. retired'[published'] = None
    BY <1>1, <1>5
  <2>2. ASSUME NEW x \in jwks.keys
        PROVE  x = published' \/ (retired'[x] # None /\ jwks.until <= retired'[x] + KeyTtl)
    BY <1>1, <1>5, <2>2 DEF KeyInv
  <2>. QED
    BY <1>5, <2>1, <2>2 DEF KeyInv
<1>. QED
  BY <1>2, <1>3, <1>4, <1>5, KeyEffect DEF CurrentKeys

\* No key is accepted longer than KeyTtl after the provider retired it.
THEOREM KeysExpire == CatalogueSpec => []RetiredKeysExpire
<1>1. CatalogueInit => KeyInv
  <2>. SUFFICES ASSUME CatalogueInit
                PROVE  KeyInv
    OBVIOUS
  <2>1. /\ jwks.until = 0 /\ jwks.keys = {} /\ now = 0 /\ published \in SigningKeys
        /\ retired = [k \in SigningKeys |-> None]
    BY DEF CatalogueInit, Init
  <2>. QED
    BY <2>1, AccountsAssumption DEF KeyInv
<1>2. TypeInv /\ KeyInv => RetiredKeysExpire
  <2>. SUFFICES ASSUME TypeInv, KeyInv, NEW c \in IdToken, mode = "oidc", Authenticated(c) # {}
                PROVE  c.key = published \/ (retired[c.key] # None /\ now < retired[c.key] + KeyTtl)
    BY DEF RetiredKeysExpire
  <2>1. c \notin Tokens /\ c # PlatformKey
    BY RowAssumption
  <2>2. OidcAccepts(c)
    BY <2>1 DEF Authenticated
  <2>3. c.key \in CurrentKeys.keys
    BY <2>2 DEF OidcAccepts
  <2>4. /\ now \in Nat /\ None \notin Nat /\ c.key \in SigningKeys
        /\ retired \in [SigningKeys -> Nat \cup {None}] /\ jwks.until \in Nat /\ KeyTtl \in Nat
    BY AccountsAssumption, RowAssumption DEF TypeInv, CatalogueTypeOK, AccountsTypeOK, Time, IdToken
  <2>5. CASE jwks.until > now
    BY <2>3, <2>4, <2>5 DEF CurrentKeys, KeyInv
  <2>6. CASE ~ (jwks.until > now)
    BY <2>3, <2>6 DEF CurrentKeys
  <2>. QED
    BY <2>5, <2>6
<1>3. TypeInv /\ KeyInv /\ [CatalogueNext]_catalogueVars => KeyInv'
  BY KeyStep
<1>. QED
  BY <1>1, <1>2, <1>3, CatalogueTyped, PTL DEF CatalogueSpec

-----------------------------------------------------------------------------
(***************************************************************************)
(* Offers.  Reserving and releasing change the listing and the item alike; *)
(* a publication writes over what it read, of an item that was for sale.   *)
(***************************************************************************)
Together(i) ==
  page[i] # None /\ i \notin disturbed =>
    /\ page[i].status = "active" => item[i].status = "available"
    /\ page[i].status = "reserved" => item[i].status = "reserved"

ReadForSale(q) ==
  request[q] # None /\ request[q].op = "publish" =>
    draft[q].stock.status \in {"available", "reserved"}

OfferInv == (\A i \in Items : Together(i)) /\ (\A q \in Requests : ReadForSale(q))

LEMMA TogetherStep ==
  ASSUME TypeInv, OfferInv, [CatalogueNext]_catalogueVars
  PROVE  \A i \in Items : Together(i)'
<1>1. /\ item \in [Items -> ItemRow \cup {None}] /\ page \in [Items -> PageRow \cup {None}]
      /\ None \notin ItemRow /\ None \notin PageRow
      /\ \A i \in Items : page[i] # None => item[i] # None
      /\ \A i \in Items : Together(i)
  BY CatalogueRowAssumption DEF TypeInv, Linked, CatalogueTypeOK, OfferInv
<1>2. CASE UNCHANGED <<item, page, held, disturbed>>
  BY <1>1, <1>2 DEF Together
<1>3. ASSUME NEW i \in Items, NEW m \in Merchants, NEW status \in ItemStatuses,
             item[i] = None, item' = [item EXCEPT ![i] = [merchant |-> m, status |-> status]],
             UNCHANGED <<page, held, disturbed>>
      PROVE  \A j \in Items : Together(j)'
  BY <1>1, <1>3 DEF Together
<1>4. ASSUME NEW i \in Items, NEW m \in Merchants, item[i] # None,
             page' = [page EXCEPT ![i] = [merchant |-> m, status |-> "draft"]],
             UNCHANGED <<item, held, disturbed>>
      PROVE  \A j \in Items : Together(j)'
  BY <1>1, <1>4 DEF Together
<1>5. ASSUME NEW q \in Requests, NEW i \in Items, FinishQuick(q, i)
      PROVE  \A j \in Items : Together(j)'
  BY <1>1, <1>5 DEF FinishQuick, Together
<1>6. ASSUME NEW q \in Requests, FinishPublish(q)
      PROVE  \A j \in Items : Together(j)'
  <2>1. PICK i \in Items, p \in PageStatuses, s \in StockStatuses :
           /\ i = draft[q].item /\ item[i] # None /\ page[i] # None
           /\ page' = [page EXCEPT ![i] = [merchant |-> page[i].merchant, status |-> p]]
           /\ item' = [item EXCEPT ![i] = [merchant |-> item[i].merchant, status |-> s]]
           /\ p = Column(page[i].status, draft[q].page.status, "active")
           /\ s = Column(item[i].status, draft[q].stock.status,
                         IF draft[q].stock.status = "reserved" THEN "available"
                         ELSE draft[q].stock.status)
    BY <1>6, Published
  <2>2. disturbed' = IF <<page[i], item[i]>> # <<draft[q].page, draft[q].stock>>
                     THEN disturbed \cup {i} ELSE disturbed
    BY <1>6, <2>1 DEF FinishPublish
  <2>3. draft[q].stock.status \in {"available", "reserved"}
    BY <1>6 DEF OfferInv, ReadForSale, FinishPublish
  <2>4. ASSUME i \notin disturbed'
        PROVE  p = "active" /\ s = "available"
    <3>1. page[i] = draft[q].page /\ item[i] = draft[q].stock
      BY <2>2, <2>4
    <3>. QED
      BY <2>1, <2>3, <3>1 DEF Column
  <2>5. page'[i].status = p /\ item'[i].status = s
    BY <1>1, <2>1
  <2>6. Together(i)'
    BY <2>4, <2>5 DEF Together
  <2>7. ASSUME NEW j \in Items, j # i
        PROVE  Together(j)'
    BY <1>1, <2>1, <2>2, <2>7 DEF Together
  <2>. QED
    BY <2>6, <2>7
<1>7. ASSUME NEW i \in Items, Reserve(i)
      PROVE  \A j \in Items : Together(j)'
  BY <1>1, <1>7 DEF Reserve, Together, ItemRow, PageRow
<1>8. ASSUME NEW i \in Items, Release(i)
      PROVE  \A j \in Items : Together(j)'
  <2>1. \A j \in Items \ {i} : page'[j] = page[j] /\ item'[j] = item[j]
    BY <1>1, <1>8 DEF Release
  <2>2. page[i] # None /\ item[i] # None /\ page[i] \in PageRow /\ item[i] \in ItemRow
    BY <1>1, <1>8 DEF Release, TypeInv, Linked
  <2>3. /\ page'[i].status = IF page[i].status = "reserved" THEN "active" ELSE page[i].status
        /\ item'[i].status = IF item[i].status = "reserved" THEN "available" ELSE item[i].status
    BY <1>1, <1>8, <2>2 DEF Release, ItemRow, PageRow
  <2>4. disturbed' = disturbed
    BY <1>8 DEF Release
  <2>5. Together(i)'
    BY <1>1, <2>2, <2>3, <2>4 DEF Together
  <2>6. ASSUME NEW j \in Items, j # i
        PROVE  Together(j)'
    BY <1>1, <2>1, <2>4, <2>6 DEF Together
  <2>. QED
    BY <2>5, <2>6
<1>. QED
  BY <1>2, <1>3, <1>4, <1>5, <1>6, <1>7, <1>8, StockEffect

LEMMA ReadStep ==
  ASSUME TypeInv, OfferInv, [CatalogueNext]_catalogueVars
  PROVE  \A q \in Requests : ReadForSale(q)'
<1>1. /\ draft \in [Requests -> Draft \cup {None}] /\ request \in [Requests -> Request \cup {None}]
      /\ \A q \in Requests : ReadForSale(q)
  BY DEF TypeInv, CatalogueTypeOK, AccountsTypeOK, OfferInv
<1>2. CASE request' = request /\ draft' = draft
  BY <1>1, <1>2 DEF ReadForSale
<1>3. ASSUME NEW q \in Requests, Began(q)
      PROVE  \A r \in Requests : ReadForSale(r)'
  <2>1. PICK work \in Request :
           /\ request' = [request EXCEPT ![q] = work]
           /\ work.op = "publish" => \E i \in Items :
                /\ Publishable(i)
                /\ draft' = [draft EXCEPT ![q] = [item |-> i, stock |-> item[i], page |-> page[i]]]
           /\ work.op # "publish" => draft' = draft
    BY <1>3, BeganTyped
  <2>2. CASE work.op # "publish"
    BY <1>1, <2>1, <2>2 DEF ReadForSale
  <2>3. CASE work.op = "publish"
    <3>1. PICK i \in Items :
            /\ Publishable(i)
            /\ draft' = [draft EXCEPT ![q] = [item |-> i, stock |-> item[i], page |-> page[i]]]
      BY <2>1, <2>3
    <3>2. draft'[q].stock.status \in {"available", "reserved"}
      BY <1>1, <3>1 DEF Publishable
    <3>. QED
      BY <1>1, <2>1, <3>1, <3>2 DEF ReadForSale
  <2>. QED
    BY <2>2, <2>3
<1>4. ASSUME NEW q \in Requests, InsertMerchant(q), draft' = draft
      PROVE  \A r \in Requests : ReadForSale(r)'
  <2>1. PICK work \in Request :
          request' = [request EXCEPT ![q] = work] /\ work.op = "applied"
    BY <1>4, Inserted
  <2>. QED
    BY <1>1, <1>4, <2>1 DEF ReadForSale
<1>5. ASSUME NEW q \in Requests, End(q),
             draft' = draft \/ draft' = [draft EXCEPT ![q] = None]
      PROVE  \A r \in Requests : ReadForSale(r)'
  BY <1>1, <1>5 DEF ReadForSale, End
<1>. QED
  BY <1>2, <1>3, <1>4, <1>5, RequestEffect

\* What buyers are offered is for sale, but for publications over a change.
THEOREM OffersSafe == CatalogueSpec => []OffersSellable
<1>1. CatalogueInit => OfferInv
  BY DEF CatalogueInit, Init, OfferInv, Together, ReadForSale
<1>2. TypeInv /\ OfferInv /\ [CatalogueNext]_catalogueVars => OfferInv'
  BY TogetherStep, ReadStep DEF OfferInv
<1>3. OfferInv => OffersSellable
  BY DEF OfferInv, Together, OffersSellable, Offered
<1>. QED
  BY <1>1, <1>2, <1>3, CatalogueTyped, PTL DEF CatalogueSpec

-----------------------------------------------------------------------------
(***************************************************************************)
(* Merchants of sellers.  A merchant that was inserted and is not visible  *)
(* yet has a row and an age of its own, and is younger than those its user *)
(* has, unless another one overtook it.                                    *)
(***************************************************************************)
Younger(q) ==
  request[q].by \in Users /\ request[q].by \notin raced =>
    \A m \in OwnedRows(request[q].by) : merchant[m].created < request[q].created

MerchantInv ==
  /\ \A q \in Requests : Inserts(q) => merchant[request[q].target] = None /\ Younger(q)
  /\ \A q \in Requests : \A r \in Requests \ {q} :
       Inserts(q) /\ Inserts(r) =>
         request[q].target # request[r].target /\ request[q].created # request[r].created

\* Who raced is not forgotten.
LEMMA RacedStays ==
  ASSUME TypeInv, [CatalogueNext]_catalogueVars
  PROVE  raced \subseteq raced'
BY MerchantEffect DEF Shows, ShowMerchant

\* The merchants of everybody after each step that changes a merchant.
LEMMA StatusOnly ==
  ASSUME CatalogueTypeOK,
         merchant' = merchant \/ \E m \in Merchants, status \in {"active", "suspended"} :
           merchant[m] # None /\ merchant' = [merchant EXCEPT ![m].status = status]
  PROVE  /\ \A e : OwnedRows(e)' = OwnedRows(e)
         /\ \A m \in Merchants : merchant[m] = None <=> merchant'[m] = None
         /\ \A m \in Merchants : merchant[m] # None => merchant'[m].created = merchant[m].created
<1>1. merchant \in [Merchants -> MerchantRow \cup {None}] /\ None \notin MerchantRow
  BY RowAssumption DEF CatalogueTypeOK, AccountsTypeOK
<1>2. CASE merchant' = merchant
  BY <1>2 DEF OwnedRows
<1>3. ASSUME NEW m \in Merchants, NEW status \in {"active", "suspended"},
             merchant[m] # None, merchant' = [merchant EXCEPT ![m].status = status]
      PROVE  /\ \A e : OwnedRows(e)' = OwnedRows(e)
             /\ \A n \in Merchants : merchant[n] = None <=> merchant'[n] = None
             /\ \A n \in Merchants : merchant[n] # None => merchant'[n].created = merchant[n].created
  <2>. DEFINE row == [merchant[m] EXCEPT !.status = status]
  <2>1. row \in MerchantRow /\ row.owner = merchant[m].owner /\ row.created = merchant[m].created
    BY <1>1, <1>3 DEF MerchantRow, MerchantStatuses
  <2>2. merchant' = [merchant EXCEPT ![m] = row]
    BY <1>1, <1>3
  <2>. HIDE DEF row
  <2>. QED
    BY <1>1, <1>3, <2>1, <2>2 DEF OwnedRows
<1>. QED
  BY <1>2, <1>3

LEMMA NewRow ==
  ASSUME CatalogueTypeOK, NEW m \in Merchants, merchant[m] = None, NEW row \in MerchantRow,
         merchant' = [merchant EXCEPT ![m] = row]
  PROVE  \A e : OwnedRows(e)' = IF row.owner = e THEN OwnedRows(e) \cup {m} ELSE OwnedRows(e)
<1>1. merchant \in [Merchants -> MerchantRow \cup {None}] /\ None \notin MerchantRow
  BY RowAssumption DEF CatalogueTypeOK, AccountsTypeOK
<1>. QED
  BY <1>1 DEF OwnedRows

\* A request begins, inserts a merchant or ends, and no merchant is shown.
LEMMA OtherRequest ==
  ASSUME TypeInv, MerchantInv, raced' = raced, \A e : OwnedRows(e)' = OwnedRows(e),
         \A m \in Merchants : merchant[m] = None <=> merchant'[m] = None,
         \A m \in Merchants : merchant[m] # None => merchant'[m].created = merchant[m].created,
         NEW q \in Requests, NEW work \in Request \cup {None},
         request' = [request EXCEPT ![q] = work],
         work # None /\ work.op \in {"create", "applied"} /\ work.created > 0 =>
           work.target \in Unused /\ work.created = Stamp
  PROVE  MerchantInv'
<1>1. request'[q] = work /\ \A r \in Requests \ {q} : request'[r] = request[r]
  BY DEF TypeInv, CatalogueTypeOK, AccountsTypeOK
<1>2. \A r \in Requests \ {q} : Inserts(r)' <=> Inserts(r)
  BY <1>1 DEF Inserts
<1>3. \A r \in Requests : Inserts(r) => r \in Pending /\ request[r].target \in Merchants
                                      /\ request[r].created < Stamp
  <2>1. \A r \in Requests : Inserts(r) => r \in Pending
    BY DEF Inserts, Pending
  <2>2. \A r \in Requests : Inserts(r) => request[r].target \in Merchants
    BY DEF Inserts, TypeInv, Linked, RequestLinked
  <2>. QED
    BY <2>1, <2>2, StampNew DEF TypeInv
<1>4. Inserts(q)' => work.target \in Unused /\ work.created = Stamp
  BY <1>1 DEF Inserts
<1>5. \A e : \A m \in OwnedRows(e) : m \in Merchants /\ merchant[m] # None
  BY DEF OwnedRows
<1>6. ASSUME NEW r \in Requests \ {q}, Inserts(r)'
      PROVE  merchant'[request'[r].target] = None /\ Younger(r)'
  <2>1. Inserts(r) /\ request'[r] = request[r] /\ merchant[request[r].target] = None /\ Younger(r)
    BY <1>1, <1>2, <1>6 DEF MerchantInv
  <2>. QED
    BY <1>3, <1>5, <2>1 DEF Younger
<1>7. ASSUME Inserts(q)'
      PROVE  merchant'[request'[q].target] = None /\ Younger(q)'
  <2>1. work.target \in Merchants /\ merchant[work.target] = None
    BY <1>4, <1>7 DEF Unused
  <2>2. \A e : \A m \in OwnedRows(e) : merchant'[m].created < Stamp
    BY <1>5, StampNew DEF TypeInv
  <2>. QED
    BY <1>1, <1>4, <1>7, <2>1, <2>2 DEF Younger
<1>8. ASSUME NEW r \in Requests \ {q}, Inserts(q)', Inserts(r)'
      PROVE  work.target # request[r].target /\ work.created # request[r].created
  <2>1. r \in Pending /\ request[r].created < Stamp /\ request[r].created \in Nat /\ Stamp \in Nat
    BY <1>2, <1>3, <1>8, Rows, StampNew DEF Inserts, TypeInv, Request
  <2>. QED
    BY <1>4, <1>8, <2>1 DEF Unused
<1>9. ASSUME NEW r \in Requests, NEW s \in Requests \ {r}, Inserts(r)', Inserts(s)'
      PROVE  /\ request'[r].target # request'[s].target
             /\ request'[r].created # request'[s].created
  <2>1. CASE r = q
    BY <1>1, <1>8, <1>9, <2>1
  <2>2. CASE s = q
    BY <1>1, <1>8, <1>9, <2>2
  <2>3. CASE r # q /\ s # q
    BY <1>1, <1>2, <1>9, <2>3 DEF MerchantInv
  <2>. QED
    BY <2>1, <2>2, <2>3
<1>10. \A r \in Requests : Inserts(r)' => merchant'[request'[r].target] = None /\ Younger(r)'
  BY <1>6, <1>7
<1>. QED
  BY <1>9, <1>10 DEF MerchantInv

\* The merchant that becomes visible is not the one of another request, and is
\* older than those of its user that are not, unless it overtook one.
LEMMA AfterShown ==
  ASSUME TypeInv, MerchantInv, NEW q \in Requests, Shows(q)
  PROVE  MerchantInv'
<1>1. PICK row \in MerchantRow :
        /\ row.owner = request[q].by /\ row.created = request[q].created
        /\ request[q].target \in Merchants
        /\ merchant' = [merchant EXCEPT ![request[q].target] = row]
  BY ShownRow
<1>2. /\ request'[q] = None /\ \A r \in Requests \ {q} : request'[r] = request[r]
      /\ None \notin Request /\ merchant \in [Merchants -> MerchantRow \cup {None}]
  BY RowAssumption DEF Shows, End, TypeInv, CatalogueTypeOK, AccountsTypeOK
<1>3. \A r \in Requests : Inserts(r)' => r # q /\ Inserts(r)
  BY <1>2 DEF Inserts
<1>4. Inserts(q) /\ merchant[request[q].target] = None
  BY DEF Shows, MerchantInv
<1>5. \A e : OwnedRows(e)' = IF row.owner = e THEN OwnedRows(e) \cup {request[q].target} ELSE OwnedRows(e)
  BY <1>1, <1>4, NewRow, ZenonT(60) DEF TypeInv
<1>6. raced \subseteq raced' /\ (Overtakes(q) => request[q].by \in raced')
  BY DEF Shows, ShowMerchant
<1>7. ASSUME NEW r \in Requests, Inserts(r)'
      PROVE  merchant'[request'[r].target] = None /\ Younger(r)'
  <2>1. r # q /\ Inserts(r) /\ request'[r] = request[r] /\ request[r].target # request[q].target
        /\ request[r].created # request[q].created /\ merchant[request[r].target] = None /\ Younger(r)
    BY <1>2, <1>3, <1>4, <1>7 DEF MerchantInv
  <2>2. request[r].target \in Merchants /\ request[r].created \in Nat /\ request[q].created \in Nat
    BY <1>4, <2>1, Rows DEF Inserts, TypeInv, Linked, RequestLinked, Request
  <2>3. merchant'[request'[r].target] = None
    BY <1>1, <1>2, <2>1, <2>2
  <2>4. ASSUME NEW e \in Users, e = request[r].by, e \notin raced', NEW m \in OwnedRows(e)'
        PROVE  merchant'[m].created < request[r].created
    <3>1. CASE m \in OwnedRows(e)
      <4>1. merchant[m].created < request[r].created
        BY <1>6, <2>1, <2>4, <3>1 DEF Younger
      <4>2. m # request[q].target
        BY <1>4, <3>1 DEF OwnedRows
      <4>3. merchant'[m] = merchant[m]
        BY <1>1, <1>2, <3>1, <4>2 DEF OwnedRows
      <4>. QED
        BY <4>1, <4>3
    <3>2. CASE m \notin OwnedRows(e)
      <4>1. m = request[q].target /\ request[q].by = request[r].by
        BY <1>1, <1>5, <2>4, <3>2
      <4>2. ~ Overtakes(q)
        BY <1>6, <2>4, <4>1
      <4>3. r \in Pending \ {q} /\ 0 < request[r].created /\ request[q].by # None
        BY <2>1, <2>4, <4>1, AccountsAssumption DEF Inserts, Pending
      <4>4. request[q].created < request[r].created
        BY <2>1, <2>2, <4>1, <4>2, <4>3 DEF Overtakes
      <4>. QED
        BY <1>1, <1>2, <4>1, <4>4
    <3>. QED
      BY <3>1, <3>2
  <2>. QED
    BY <2>1, <2>3, <2>4 DEF Younger
<1>8. \A r \in Requests : \A s \in Requests \ {r} : Inserts(r)' /\ Inserts(s)' =>
        request'[r].target # request'[s].target /\ request'[r].created # request'[s].created
  BY <1>2, <1>3 DEF MerchantInv
<1>. QED
  BY <1>7, <1>8 DEF MerchantInv

LEMMA MerchantStep ==
  ASSUME TypeInv, MerchantInv, [CatalogueNext]_catalogueVars
  PROVE  MerchantInv'
<1>1. CASE \E q \in Requests : Shows(q)
  BY <1>1, AfterShown
<1>2. ASSUME merchant' = merchant \/ \E m \in Merchants, status \in {"active", "suspended"} :
               merchant[m] # None /\ merchant' = [merchant EXCEPT ![m].status = status],
             raced' = raced
      PROVE  MerchantInv'
  <2>1. /\ \A e : OwnedRows(e)' = OwnedRows(e)
        /\ \A m \in Merchants : merchant[m] = None <=> merchant'[m] = None
        /\ \A m \in Merchants : merchant[m] # None => merchant'[m].created = merchant[m].created
    BY <1>2, StatusOnly DEF TypeInv
  <2>2. CASE request' = request
    <3>1. \A q \in Requests : Inserts(q) => request[q].target \in Merchants
      BY DEF Inserts, TypeInv, Linked, RequestLinked
    <3>2. \A e : \A m \in OwnedRows(e) : m \in Merchants /\ merchant[m] # None
      BY DEF OwnedRows
    <3>3. \A q \in Requests : Inserts(q)' <=> Inserts(q)
      BY <2>2 DEF Inserts
    <3>4. \A q \in Requests : Younger(q) => Younger(q)'
      BY <1>2, <2>1, <2>2, <3>2 DEF Younger
    <3>. QED
      BY <2>1, <2>2, <3>1, <3>3, <3>4 DEF MerchantInv
  <2>3. ASSUME NEW q \in Requests, Began(q)
        PROVE  MerchantInv'
    <3>1. PICK work \in Request :
            /\ request' = [request EXCEPT ![q] = work]
            /\ work.op = "create" => work.target \in Unused /\ work.created = Stamp
            /\ work.op # "applied"
      BY <2>3, BeganTyped
    <3>. QED
      BY <1>2, <2>1, <3>1, OtherRequest
  <2>4. ASSUME NEW q \in Requests, InsertMerchant(q)
        PROVE  MerchantInv'
    <3>1. PICK work \in Request :
            /\ request' = [request EXCEPT ![q] = work]
            /\ request[q].target = None => work.target \in Unused /\ work.created = Stamp
            /\ request[q].target # None => work.created = 0
      BY <2>4, Inserted
    <3>2. work.created > 0 => work.target \in Unused /\ work.created = Stamp
      BY <3>1
    <3>. QED
      BY <1>2, <2>1, <3>1, <3>2, OtherRequest
  <2>5. ASSUME NEW q \in Requests, End(q)
        PROVE  MerchantInv'
    BY <1>2, <2>1, <2>5, OtherRequest DEF End
  <2>. QED
    BY <2>2, <2>3, <2>4, <2>5, RequestEffect
<1>. QED
  BY <1>1, <1>2, MerchantEffect

\* A further merchant does not become the oldest, but for who raced.
LEMMA SellerStep ==
  ASSUME TypeInv, MerchantInv, [CatalogueNext]_catalogueVars,
         NEW e \in Users, OwnedMerchant(e) # None, e \notin raced'
  PROVE  OwnedMerchant(e)' = OwnedMerchant(e)
<1>1. CatalogueTypeOK /\ OwnedRows(e) # {} /\ e \notin raced
  BY OwnedOf, RacedStays DEF TypeInv
<1>2. merchant \in [Merchants -> MerchantRow \cup {None}] /\ None \notin MerchantRow
  BY <1>1, RowAssumption DEF CatalogueTypeOK, AccountsTypeOK
<1>3. \A m \in OwnedRows(e) : m \in Merchants /\ merchant[m] \in MerchantRow
                              /\ merchant[m].created \in Nat
  BY <1>2 DEF OwnedRows, MerchantRow
<1>4. ASSUME merchant' = merchant \/ \E m \in Merchants, status \in {"active", "suspended"} :
               merchant[m] # None /\ merchant' = [merchant EXCEPT ![m].status = status]
      PROVE  OwnedMerchant(e)' = OwnedMerchant(e)
  <2>1. OwnedRows(e)' = OwnedRows(e) /\ \A m \in OwnedRows(e) : merchant'[m].created = merchant[m].created
    BY <1>1, <1>4, StatusOnly DEF OwnedRows
  <2>. QED
    BY <1>1, <1>3, <2>1, OldestKept
<1>5. ASSUME NEW q \in Requests, Shows(q)
      PROVE  OwnedMerchant(e)' = OwnedMerchant(e)
  <2>1. PICK row \in MerchantRow :
           /\ row.owner = request[q].by /\ row.created = request[q].created
           /\ request[q].target \in Merchants
           /\ merchant' = [merchant EXCEPT ![request[q].target] = row]
    BY <1>5, ShownRow
  <2>2. merchant[request[q].target] = None /\ Younger(q)
    BY <1>5 DEF MerchantInv, Shows
  <2>3. OwnedRows(e)' = IF row.owner = e THEN OwnedRows(e) \cup {request[q].target} ELSE OwnedRows(e)
    BY <1>1, <2>1, <2>2, NewRow, ZenonT(60)
  <2>4. \A n \in OwnedRows(e) : merchant'[n].created = merchant[n].created /\ n # request[q].target
    BY <1>2, <2>1, <2>2 DEF OwnedRows
  <2>5. CASE row.owner # e
    BY <1>1, <1>3, <2>3, <2>4, <2>5, OldestKept
  <2>6. CASE row.owner = e
    <3>1. /\ merchant'[request[q].target].created = request[q].created
          /\ request[q].created \in Nat
      BY <1>2, <2>1 DEF MerchantRow
    <3>2. \A n \in OwnedRows(e) : request[q].created > merchant[n].created
      BY <1>1, <1>3, <2>1, <2>2, <2>6, <3>1 DEF Younger
    <3>. QED
      BY <1>1, <1>3, <2>3, <2>4, <2>6, <3>1, <3>2, OldestKept
  <2>. QED
    BY <2>5, <2>6
<1>. QED
  BY <1>4, <1>5, MerchantEffect

\* The merchant of a seller stays theirs, however many are created for them,
\* unless one that was inserted earlier becomes visible later.
THEOREM MerchantKept == CatalogueSpec => SellerKeepsMerchant
<1>1. CatalogueInit => MerchantInv
  BY DEF CatalogueInit, Init, MerchantInv, Inserts
<1>2. TypeInv /\ MerchantInv /\ [CatalogueNext]_catalogueVars => MerchantInv'
  BY MerchantStep
<1>3. TypeInv /\ MerchantInv /\ [CatalogueNext]_catalogueVars =>
        [\A e \in Users : OwnedMerchant(e) # None /\ e \notin raced' =>
           OwnedMerchant(e)' = OwnedMerchant(e)]_vars
  BY SellerStep
<1>. QED
  BY <1>1, <1>2, <1>3, CatalogueTyped, PTL DEF CatalogueSpec, SellerKeepsMerchant
=============================================================================
