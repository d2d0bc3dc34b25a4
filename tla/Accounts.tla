------------------------------ MODULE Accounts ------------------------------
(***************************************************************************)
(* Organizations, users and sessions (internal/service: organization,      *)
(* user, auth; internal/server: their handlers and the middleware).        *)
(*                                                                         *)
(* The server keeps no session: an access token says for AccessTTL who its *)
(* bearer is, whatever happens to the row meanwhile, and a refresh token   *)
(* is traded for a new pair.  A client is a browser with its two cookies.  *)
(* A thread is one handler; it captures the claims of the token, or a row, *)
(* and uses them a few statements later.                                   *)
(*                                                                         *)
(* Time is relative, so that it needs no bound: a token says how long it   *)
(* is still valid, a request how long it may still take, and for every     *)
(* user there is the time since the role last changed, up to Forgotten.    *)
(***************************************************************************)
EXTENDS Naturals, FiniteSets

CONSTANTS
    Orgs,          \* ids of organizations
    Users,         \* ids of users
    Owners,        \* the users with the role owner, put in by hand
    Emails,        \* e-mail addresses of users
    Invitees,      \* e-mail addresses of people who are invited
    INNs,          \* taxpayer numbers
    Clients,       \* browsers
    Threads,       \* handlers running at a time
    None,          \* NULL, uuid.Nil, no cookie
    AccessTTL,     \* AccessTokenTTL
    RefreshTTL,    \* RefreshTokenTTL
    HandlerTime    \* how long a request may take

ASSUME TimesAssumption ==
    /\ {AccessTTL, RefreshTTL, HandlerTime} \subseteq Nat
    /\ AccessTTL > 0 /\ RefreshTTL > 0
ASSUME OwnersAssumption == Owners \subseteq Users
ASSUME IdsAssumption == None \notin Orgs \cup Users \cup Emails \cup INNs

VARIABLES
    org,       \* rows of organizations
    user,      \* rows of users
    invited,   \* rows of user_invitations, by organization and e-mail address
    cookie,    \* the cookies of every client
    thread,    \* the local state of every handler
    unchanged  \* time since the role of a user last changed (history)

rows == <<org, user, invited>>
vars == <<org, user, invited, cookie, thread, unchanged>>

\* Longer than any stale claim may matter: one token and two requests.
Forgotten == AccessTTL + 2 * HandlerTime

Organization == [state : {"unused", "live", "deleted"}, inn : INNs \cup {None}]

\* users_owner_org_chk: the owner is the one user without an organization.
User ==
    {r \in [role : {"unused", "deleted", "owner", "admin", "member"},
            org : Orgs \cup {None}, email : Emails \cup {None}, active : BOOLEAN] :
        r.role \in {"admin", "member"} <=> r.org # None}

AccessClaims == [user : Users, org : Orgs \cup {None}, role : {"owner", "admin", "member"},
                 left : 1 .. AccessTTL]
RefreshClaims == [user : Users, left : 1 .. RefreshTTL]

Thread ==
    [pc : {"idle", "createOrg", "createUser", "commit", "loginOrg", "issue", "act"},
     client : Clients \cup {None}, user : Users \cup {None}, org : Orgs \cup {None},
     role : {"none", "owner", "admin", "member"},
     email : Emails \cup {None}, inn : INNs \cup {None}, left : 0 .. HandlerTime]

IdleThread == [pc |-> "idle", client |-> None, user |-> None, org |-> None, role |-> "none",
               email |-> None, inn |-> None, left |-> HandlerTime]

NoCookies == [access |-> None, refresh |-> None]
NoUser(role) == [role |-> role, org |-> None, email |-> None, active |-> FALSE]

TypeOK ==
    /\ org \in [Orgs -> Organization]
    /\ user \in [Users -> User]
    /\ invited \subseteq Orgs \X Invitees
    /\ cookie \in [Clients -> [access : AccessClaims \cup {None}, refresh : RefreshClaims \cup {None}]]
    /\ thread \in [Threads -> Thread]
    /\ unchanged \in [Users -> 0 .. Forgotten]

Init ==
    /\ org = [o \in Orgs |-> [state |-> "unused", inn |-> None]]
    /\ user = [u \in Users |->
                 IF u \in Owners THEN [NoUser("owner") EXCEPT !.active = TRUE] ELSE NoUser("unused")]
    /\ invited = {}
    /\ cookie = [c \in Clients |-> NoCookies]
    /\ thread = [t \in Threads |-> IdleThread]
    /\ unchanged = [u \in Users |-> Forgotten]

-----------------------------------------------------------------------------
(* Rows and unique keys *)

LiveOrg(o) == org[o].state = "live"
LiveUser(u) == user[u].role \in {"owner", "admin", "member"}
Members(o) == {u \in Users : LiveUser(u) /\ user[u].org = o}

\* Keys of committed rows, and keys that another transaction has inserted and
\* not yet committed: an INSERT of one of these waits for that transaction.
UsedEmails == {user[u].email : u \in {v \in Users : LiveUser(v)}} \ {None}
UsedINNs == {org[o].inn : o \in {p \in Orgs : LiveOrg(p)}} \ {None}
InTransaction(t) == thread[t].pc \in {"createUser", "commit"}
HeldEmails(t) == {thread[s].email : s \in {r \in Threads \ {t} : thread[r].pc = "commit"}}
HeldINNs(t) == {thread[s].inn : s \in {r \in Threads \ {t} : InTransaction(r)}} \ {None}

\* Ids are generated, so no two requests have the same.
FreshOrg(o) == org[o].state = "unused" /\ \A t \in Threads : thread[t].org # o
FreshUser(u) == user[u].role = "unused" /\ \A t \in Threads : thread[t].user # u

Become(t, state) == thread' = [thread EXCEPT ![t] = state]
Finish(t) == Become(t, IdleThread)
Goto(t, pc) == thread' = [thread EXCEPT ![t].pc = pc]

-----------------------------------------------------------------------------
(* POST /auth/register *)

Register(t, c, o, u, e, n) ==
    /\ thread[t].pc = "idle"
    /\ FreshOrg(o) /\ FreshUser(u)
    /\ Become(t, [pc |-> "createOrg", client |-> c, user |-> u, org |-> o, role |-> "admin",
                  email |-> e, inn |-> n, left |-> HandlerTime])
    /\ UNCHANGED <<rows, cookie, unchanged>>

\* Plausible bug: the organization is inserted outside of the transaction.
CreateOrganization_Committed(t) ==
    /\ thread[t].pc = "createOrg"
    /\ thread[t].inn \notin HeldINNs(t) \cup UsedINNs
    /\ org' = [org EXCEPT ![thread[t].org] = [state |-> "live", inn |-> thread[t].inn]]
    /\ Goto(t, "createUser")
    /\ UNCHANGED <<user, invited, cookie, unchanged>>

\* The first INSERT of the transaction: "INN already in use" rolls it back.
CreateOrganization(t) ==
    /\ thread[t].pc = "createOrg"
    /\ thread[t].inn \notin HeldINNs(t)
    /\ IF thread[t].inn \in UsedINNs THEN Finish(t) ELSE Goto(t, "createUser")
    /\ UNCHANGED <<rows, cookie, unchanged>>

\* The second: "email already in use" rolls it back.
CreateFirstUser(t) ==
    /\ thread[t].pc = "createUser"
    /\ thread[t].email \notin HeldEmails(t)
    /\ IF thread[t].email \in UsedEmails THEN Finish(t) ELSE Goto(t, "commit")
    /\ UNCHANGED <<rows, cookie, unchanged>>

\* ExecTx commits both rows at once.
Commit(t) ==
    /\ thread[t].pc = "commit"
    /\ org' = [org EXCEPT ![thread[t].org] = [state |-> "live", inn |-> thread[t].inn]]
    /\ user' = [user EXCEPT ![thread[t].user] =
                  [role |-> "admin", org |-> thread[t].org, email |-> thread[t].email, active |-> TRUE]]
    /\ unchanged' = [unchanged EXCEPT ![thread[t].user] = 0]
    /\ Goto(t, "issue")
    /\ UNCHANGED <<invited, cookie>>

\* The request is cancelled: a transaction is rolled back, a row stays.
Abort(t) ==
    /\ thread[t].pc # "idle"
    /\ Finish(t)
    /\ UNCHANGED <<rows, cookie, unchanged>>

-----------------------------------------------------------------------------
(* POST /auth/login, /auth/refresh, /auth/logout *)

Session(t, c, u, pc) ==
    Become(t, [IdleThread EXCEPT !.pc = pc, !.client = c, !.user = u, !.org = user[u].org,
                                 !.role = user[u].role])

\* Login reads the user; the password is right.  The owner has no
\* organization to look at.
Login(t, c, u) ==
    /\ thread[t].pc = "idle"
    /\ LiveUser(u) /\ user[u].active
    /\ Session(t, c, u, IF user[u].role = "owner" THEN "issue" ELSE "loginOrg")
    /\ UNCHANGED <<rows, cookie, unchanged>>

\* The organization must exist.  It must be active, too, but nothing in the
\* program ever sets is_active of an organization.
LoginOrg(t) ==
    /\ thread[t].pc = "loginOrg"
    /\ IF LiveOrg(thread[t].org) THEN Goto(t, "issue") ELSE Finish(t)
    /\ UNCHANGED <<rows, cookie, unchanged>>

\* GenerateTokens and setAuthCookies: a pair of tokens with the claims the
\* handler has, which count from this moment.
GenerateTokens(t) ==
    LET th == thread[t] IN
    /\ th.pc = "issue"
    /\ cookie' = [cookie EXCEPT ![th.client] =
                    [access |-> [user |-> th.user, org |-> th.org, role |-> th.role, left |-> AccessTTL],
                     refresh |-> [user |-> th.user, left |-> RefreshTTL]]]
    /\ Finish(t)
    /\ UNCHANGED <<rows, unchanged>>


\* Plausible bug: the claims of the old access token are used again.
RefreshTokens_OldClaims(t, c) ==
    LET access == cookie[c].access IN
    /\ thread[t].pc = "idle"
    /\ cookie[c].refresh # None /\ access # None
    /\ Become(t, [IdleThread EXCEPT !.pc = "issue", !.client = c, !.user = access.user,
                                    !.org = access.org, !.role = access.role])
    /\ UNCHANGED <<rows, cookie, unchanged>>

\* "Re-fetch the user to pick up any role / org changes since the token was
\* issued."  ResolveUserForRefresh looks at no other column; if the user is gone
\* the cookies are cleared.
RefreshTokens(t, c) ==
    LET token == cookie[c].refresh IN
    /\ thread[t].pc = "idle"
    /\ token # None
    /\ IF LiveUser(token.user)
       THEN Session(t, c, token.user, "issue") /\ UNCHANGED cookie
       ELSE cookie' = [cookie EXCEPT ![c] = NoCookies] /\ UNCHANGED thread
    /\ UNCHANGED <<rows, unchanged>>

Logout(c) ==
    /\ cookie[c] # NoCookies
    /\ cookie' = [cookie EXCEPT ![c] = NoCookies]
    /\ UNCHANGED <<rows, thread, unchanged>>

-----------------------------------------------------------------------------
(* Administration.  AuthMiddleware puts the claims into the context of the  *)
(* request; AdminOnly, OwnerOnly and requireAdminOrOwner look at the claims *)
(* and never at the row.                                                    *)

AuthMiddleware(t, c) ==
    LET token == cookie[c].access IN
    /\ thread[t].pc = "idle"
    /\ token # None
    /\ token.role \in {"owner", "admin"}
    /\ Become(t, [IdleThread EXCEPT !.pc = "act", !.client = c, !.user = token.user,
                                    !.org = token.org, !.role = token.role])
    /\ UNCHANGED <<rows, cookie, unchanged>>

Acting(t) == thread[t].pc = "act"
AdminOnly(t) == Acting(t) /\ thread[t].role = "admin"
OwnerOnly(t) == Acting(t) /\ thread[t].role = "owner"

\* isOwner(c) or the organization of the token.
OwnOrAny(t, o) == Acting(t) /\ (thread[t].role = "owner" \/ thread[t].org = o)

\* UserService.Create: the foreign key refuses a deleted organization, the
\* unique key an e-mail address in use.
CreateUser(t, u, e, role) ==
    /\ AdminOnly(t)
    /\ FreshUser(u)
    /\ e \notin HeldEmails(t)
    /\ IF LiveOrg(thread[t].org) /\ e \notin UsedEmails
       THEN /\ user' = [user EXCEPT ![u] =
                          [role |-> role, org |-> thread[t].org, email |-> e, active |-> TRUE]]
            /\ unchanged' = [unchanged EXCEPT ![u] = 0]
       ELSE UNCHANGED <<user, unchanged>>
    /\ Finish(t)
    /\ UNCHANGED <<org, invited, cookie>>

\* Plausible bug: WHERE id = $1.
UpdateUser_AnyOrg(u, o, role, active) ==
    IF LiveUser(u) /\ user[u].org # None
    THEN /\ user' = [user EXCEPT ![u].role = role, ![u].active = active]
         /\ unchanged' = IF role = user[u].role THEN unchanged ELSE [unchanged EXCEPT ![u] = 0]
    ELSE UNCHANGED <<user, unchanged>>

\* The query UpdateUser: WHERE id = $1 AND organization_id = $2, which no owner
\* satisfies.  A field that is not sent keeps its value.
UpdateUser(u, o, role, active) ==
    IF LiveUser(u) /\ user[u].org = o
    THEN /\ user' = [user EXCEPT ![u].role = role, ![u].active = active]
         /\ unchanged' = IF role = user[u].role THEN unchanged ELSE [unchanged EXCEPT ![u] = 0]
    ELSE UNCHANGED <<user, unchanged>>

\* PATCH and DELETE /users/:id: "cannot modify your own account".
AdminUpdateUser(t, u, role, active) ==
    /\ AdminOnly(t)
    /\ u # thread[t].user
    /\ UpdateUser(u, thread[t].org, role, active)
    /\ Finish(t)
    /\ UNCHANGED <<org, invited, cookie>>

\* PATCH and DELETE /organizations/:id/users/:user_id.
OwnerUpdateOrganizationUser(t, o, u, role, active) ==
    /\ OwnerOnly(t)
    /\ UpdateUser(u, o, role, active)
    /\ Finish(t)
    /\ UNCHANGED <<org, invited, cookie>>

\* PATCH /organizations/:id: an INN in use is refused.
UpdateOrganization(t, o, n) ==
    /\ OwnOrAny(t, o)
    /\ n \notin HeldINNs(t)
    /\ IF LiveOrg(o) /\ n \notin UsedINNs \ {org[o].inn}
       THEN org' = [org EXCEPT ![o].inn = n]
       ELSE UNCHANGED org
    /\ Finish(t)
    /\ UNCHANGED <<user, invited, cookie, unchanged>>

\* Plausible bug: ON DELETE SET NULL, now that organization_id may be NULL.
DeleteOrganization_SetNull(t, o) ==
    /\ OwnOrAny(t, o)
    /\ LiveOrg(o)
    /\ org' = [org EXCEPT ![o] = [state |-> "deleted", inn |-> None]]
    /\ user' = [u \in Users |-> IF u \in Members(o) THEN [user[u] EXCEPT !.org = None] ELSE user[u]]
    /\ cookie' = [cookie EXCEPT ![thread[t].client] = NoCookies]
    /\ Finish(t)
    /\ UNCHANGED <<invited, unchanged>>

\* DELETE /organizations/:id: the users and the invitations go with it (ON DELETE
\* CASCADE), and the cookies of the caller are cleared.
DeleteOrganization(t, o) ==
    /\ OwnOrAny(t, o)
    /\ IF LiveOrg(o)
       THEN /\ org' = [org EXCEPT ![o] = [state |-> "deleted", inn |-> None]]
            /\ user' = [u \in Users |-> IF u \in Members(o) THEN NoUser("deleted") ELSE user[u]]
            /\ invited' = {i \in invited : i[1] # o}
            /\ unchanged' = [u \in Users |-> IF u \in Members(o) THEN 0 ELSE unchanged[u]]
            /\ cookie' = [cookie EXCEPT ![thread[t].client] = NoCookies]
       ELSE UNCHANGED <<rows, unchanged, cookie>>
    /\ Finish(t)

\* POST /invitations: the unique key takes every invitation that was not
\* accepted for active, an expired one too, and none is ever accepted, because
\* nothing calls InvitationService.Accept.  So there is one per organization and
\* e-mail address.  Whether that address has a user already is not looked at.
CreateInvitation(t, e) ==
    /\ AdminOnly(t)
    /\ IF LiveOrg(thread[t].org)
       THEN invited' = invited \cup {<<thread[t].org, e>>}
       ELSE UNCHANGED invited
    /\ Finish(t)
    /\ UNCHANGED <<org, user, cookie, unchanged>>

\* DELETE /invitations/:id: WHERE id = $1 AND organization_id = $2.
DeleteInvitation(t, i) ==
    /\ AdminOnly(t)
    /\ invited' = IF i[1] = thread[t].org THEN invited \ {i} ELSE invited
    /\ Finish(t)
    /\ UNCHANGED <<org, user, cookie, unchanged>>

-----------------------------------------------------------------------------

\* One unit less of a token; at the end it is no longer accepted, and the cookie,
\* whose age is limited to the same time, is gone.
Older(token) == IF token = None \/ token.left = 1 THEN None ELSE [token EXCEPT !.left = @ - 1]

\* Time passes, as long as no request has used up its own.
Tick ==
    /\ \A t \in Threads : thread[t].pc # "idle" => thread[t].left > 0
    /\ cookie' = [c \in Clients |->
                    [access |-> Older(cookie[c].access), refresh |-> Older(cookie[c].refresh)]]
    /\ thread' = [t \in Threads |->
                    IF thread[t].pc = "idle" THEN thread[t] ELSE [thread[t] EXCEPT !.left = @ - 1]]
    /\ unchanged' = [u \in Users |-> IF unchanged[u] = Forgotten THEN Forgotten ELSE unchanged[u] + 1]
    /\ UNCHANGED rows

Request(t, c) ==
    \/ \E o \in Orgs, u \in Users, e \in Emails, n \in INNs \cup {None} : Register(t, c, o, u, e, n)
    \/ \E u \in Users : Login(t, c, u)
    \/ RefreshTokens(t, c)
    \/ AuthMiddleware(t, c)

Administer(t) ==
    \/ \E u \in Users, role \in {"admin", "member"} :
          \/ \E e \in Emails : CreateUser(t, u, e, role)
          \/ \E active \in BOOLEAN :
                \/ AdminUpdateUser(t, u, role, active)
                \/ \E o \in Orgs : OwnerUpdateOrganizationUser(t, o, u, role, active)
    \/ \E e \in Invitees : CreateInvitation(t, e)
    \/ \E i \in invited : DeleteInvitation(t, i)
    \/ \E o \in Orgs : DeleteOrganization(t, o) \/ \E n \in INNs \cup {None} : UpdateOrganization(t, o, n)

Next ==
    \/ \E t \in Threads, c \in Clients : Request(t, c)
    \/ \E t \in Threads :
          \/ CreateOrganization(t) \/ CreateFirstUser(t) \/ Commit(t)
          \/ LoginOrg(t) \/ GenerateTokens(t) \/ Abort(t) \/ Administer(t)
    \/ \E c \in Clients : Logout(c)
    \/ Tick

Spec == Init /\ [][Next]_vars

-----------------------------------------------------------------------------
(* Properties *)

\* A registration leaves an organization with its first user or nothing, in
\* whichever step it fails and whoever takes its e-mail address or INN
\* meanwhile; a user never outlives the organization, and no two users share an
\* e-mail address.
OrganizationsHaveUsers ==
    /\ \A o \in Orgs : LiveOrg(o) <=> Members(o) # {}
    /\ \A i \in invited : LiveOrg(i[1])
    /\ \A u, v \in Users : LiveUser(u) /\ LiveUser(v) /\ u # v =>
          user[u].email # user[v].email \/ user[u].role = "owner"

\* The claims of a session that keeps being refreshed follow the row: an access
\* token that disagrees with it, or survives it, does so for no longer than it
\* takes a token to expire and a request that read the old row to end.
ClaimsFollowRow ==
    \A c \in Clients :
        LET token == cookie[c].access IN
        token # None =>
            \/ token.role = user[token.user].role /\ token.org = user[token.user].org
            \/ unchanged[token.user] < HandlerTime + AccessTTL

\* An administrator of the organization, or the owner, now or a moment ago.
Authorized(t, o) ==
    LET u == thread[t].user IN
    \/ user[u].role = "owner"
    \/ thread[t].org = o /\ (user[u].role = "admin" \/ unchanged[u] < Forgotten)

ActsOn(t, o) == Acting(t) /\ thread'[t] # thread[t] /\ Authorized(t, o)

\* Whoever has users or invitations of a tenant changed is its administrator or
\* the owner, or was until a moment ago: the window is one token and the two
\* requests that issued and used it (AdminOnly and OwnerOnly look at claims).
ChangedByAdmin ==
    [][/\ \A u \in Users : LiveUser(u) /\ user'[u] # user[u] =>
             \E t \in Threads : ActsOn(t, user[u].org)
       /\ \A o \in Orgs, e \in Invitees : (<<o, e>> \in invited) # (<<o, e>> \in invited') =>
             \E t \in Threads : ActsOn(t, o)]_vars

=============================================================================
