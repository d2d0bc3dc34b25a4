--------------------------- MODULE AccountsProofs ---------------------------
(***************************************************************************)
(* Proofs about Accounts for any number of organizations, users, browsers  *)
(* and handlers, and for any times.                                        *)
(*                                                                         *)
(* Claims are copied from a row to a handler, from the handler to a token  *)
(* and from the token to the next handler.  A copy that no longer agrees   *)
(* with the row can be no older than the change: SessionOK and TokenOK     *)
(* bound the time since the change plus the time the copy has left, and    *)
(* each hand-over adds the lifetime of the next holder.  A registration    *)
(* has its two ids, and from its second INSERT its e-mail address, for     *)
(* itself (HeldBy, Apart).                                                 *)
(***************************************************************************)
EXTENDS Accounts, TLAPS

USE TimesAssumption, OwnersAssumption, IdsAssumption

Registering == {"createOrg", "createUser", "commit"}

\* What claims of a token or a handler say of a user, at any age.
Describes(c) ==
    /\ c.user \in Users /\ c.org \in Orgs \cup {None} /\ c.role \in {"owner", "admin", "member"}
    /\ c.role = "owner" <=> c.org = None
    /\ c.role = "owner" => user[c.user].role = "owner"

Matches(c) == c.role = user[c.user].role /\ c.org = user[c.user].org

TokenOK(k) ==
    /\ Describes(k)
    /\ Matches(k) \/ unchanged[k.user] + k.left <= HandlerTime + AccessTTL

TokensOK == \A c \in Clients : cookie[c].access # None => TokenOK(cookie[c].access)

\* A handler that has read a row or a token.
SessionOK(s) ==
    /\ s.pc # "idle" => s.client \in Clients
    /\ s.pc \in {"loginOrg", "issue"} =>
          Describes(s) /\ (Matches(s) \/ unchanged[s.user] + s.left <= HandlerTime)
    /\ s.pc = "loginOrg" => s.role # "owner"
    /\ s.pc = "act" =>
          /\ Describes(s) /\ s.role # "member"
          /\ Matches(s) \/ unchanged[s.user] + s.left < Forgotten

\* A handler that registers an organization.
HeldBy(s) ==
    s.pc \in Registering =>
        /\ s.org \in Orgs /\ org[s.org].state = "unused"
        /\ s.user \in Users /\ user[s.user].role = "unused"
        /\ s.email \in Emails /\ s.role = "admin"
        /\ s.pc = "commit" => \A u \in Users : LiveUser(u) => user[u].email # s.email

Apart ==
    \A t, u \in Threads : t # u =>
        /\ thread[t].pc \in Registering /\ thread[u].pc \in Registering =>
              thread[t].user # thread[u].user /\ thread[t].org # thread[u].org
        /\ thread[t].pc = "commit" /\ thread[u].pc = "commit" => thread[t].email # thread[u].email

ThreadsOK == \A t \in Threads : SessionOK(thread[t]) /\ HeldBy(thread[t])

\* Only an owner has no e-mail address.
RowsOK ==
    /\ OrganizationsHaveUsers
    /\ \A u \in Users : user[u].role \in {"admin", "member"} => user[u].email # None

IInv ==
    /\ TypeOK
    /\ RowsOK
    /\ TokensOK
    /\ ThreadsOK
    /\ Apart

-----------------------------------------------------------------------------
(* How a row may change under claims that were copied from it *)

\* Apart from the passing of time: what the claims say of a row stays, or the
\* time of the change is noted; an owner's row stays.
Moves ==
    \A u \in Users :
        \/ /\ user'[u].role = user[u].role /\ user'[u].org = user[u].org
           /\ unchanged'[u] = unchanged[u]
        \/ unchanged'[u] = 0 /\ user[u].role # "owner"

\* A token stays within its bound.
LEMMA TokenKept ==
    ASSUME IInv, Moves, NEW k \in AccessClaims, TokenOK(k)
    PROVE  TokenOK(k)'
<1>1. k.user \in Users /\ k.left \in Nat /\ k.left <= AccessTTL
  BY DEF AccessClaims
<1>2. Describes(k)'
  BY <1>1 DEF Moves, TokenOK, Describes
<1>3. (Matches(k) \/ unchanged[k.user] + k.left <= HandlerTime + AccessTTL)'
  <2>1. CASE unchanged'[k.user] = 0
    BY <1>1, <2>1
  <2>2. CASE /\ user'[k.user].role = user[k.user].role /\ user'[k.user].org = user[k.user].org
             /\ unchanged'[k.user] = unchanged[k.user]
    BY <2>2 DEF TokenOK, Matches
  <2> QED
    BY <1>1, <2>1, <2>2 DEF Moves
<1> QED
  BY <1>2, <1>3 DEF TokenOK

\* So does a handler.
LEMMA SessionKept ==
    ASSUME IInv, Moves, NEW s \in Thread, SessionOK(s)
    PROVE  SessionOK(s)'
<1>1. s.left \in Nat /\ s.left <= HandlerTime
  BY DEF Thread
<1>2. ASSUME Describes(s) PROVE Describes(s)'
  BY <1>2 DEF Moves, Describes
<1>3. ASSUME Describes(s), NEW bound \in Nat, HandlerTime <= bound,
             Matches(s) \/ unchanged[s.user] + s.left <= bound
      PROVE  (Matches(s) \/ unchanged[s.user] + s.left <= bound)'
  <2>1. s.user \in Users
    BY <1>3 DEF Describes
  <2>2. CASE unchanged'[s.user] = 0
    BY <1>1, <1>3, <2>2
  <2>3. CASE /\ user'[s.user].role = user[s.user].role /\ user'[s.user].org = user[s.user].org
             /\ unchanged'[s.user] = unchanged[s.user]
    BY <1>3, <2>3 DEF Matches
  <2> QED
    BY <2>1, <2>2, <2>3 DEF Moves
<1>4. s.pc \in {"loginOrg", "issue"} =>
        (Describes(s) /\ (Matches(s) \/ unchanged[s.user] + s.left <= HandlerTime))'
  BY <1>2, <1>3 DEF SessionOK
<1>5. s.pc = "act" => (Describes(s) /\ (Matches(s) \/ unchanged[s.user] + s.left < Forgotten))'
  <2> SUFFICES ASSUME s.pc = "act"
               PROVE  (Describes(s) /\ (Matches(s) \/ unchanged[s.user] + s.left < Forgotten))'
    OBVIOUS
  <2>1. Describes(s) /\ (Matches(s) \/ unchanged[s.user] + s.left < Forgotten)
    BY DEF SessionOK
  <2>2. s.user \in Users
    BY <2>1 DEF Describes
  <2>3. CASE unchanged'[s.user] = 0
    BY <1>1, <1>2, <2>1, <2>3 DEF Forgotten
  <2>4. CASE /\ user'[s.user].role = user[s.user].role /\ user'[s.user].org = user[s.user].org
             /\ unchanged'[s.user] = unchanged[s.user]
    BY <1>2, <2>1, <2>4 DEF Matches
  <2> QED
    BY <2>2, <2>3, <2>4 DEF Moves
<1> QED
  BY <1>4, <1>5 DEF SessionOK

\* The tokens of the browsers stay within their bound while no cookie is set.
LEMMA TokensKept ==
    ASSUME IInv, Moves, UNCHANGED cookie
    PROVE  TokensOK'
<1> SUFFICES ASSUME NEW c \in Clients, cookie[c].access # None PROVE TokenOK(cookie[c].access)'
  BY DEF TokensOK
<1>1. cookie[c].access \in AccessClaims /\ TokenOK(cookie[c].access)
  BY DEF IInv, TypeOK, TokensOK
<1>2. PICK k \in AccessClaims : k = cookie[c].access /\ TokenOK(k)
  BY <1>1
<1>3. TokenOK(k)'
  BY <1>2, TokenKept
<1>4. cookie'[c].access = k
  BY <1>2
<1> QED
  BY <1>3, <1>4

\* Clearing the cookies of a browser is always allowed.
LEMMA TokensCleared ==
    ASSUME IInv, Moves, NEW c, cookie' = [cookie EXCEPT ![c] = NoCookies]
    PROVE  /\ cookie' \in [Clients -> [access : AccessClaims \cup {None}, refresh : RefreshClaims \cup {None}]]
           /\ TokensOK'
<1>1. NoCookies \in [access : AccessClaims \cup {None}, refresh : RefreshClaims \cup {None}]
      /\ NoCookies.access = None
  BY DEF NoCookies
<1>2. cookie \in [Clients -> [access : AccessClaims \cup {None}, refresh : RefreshClaims \cup {None}]]
  BY DEF IInv, TypeOK
<1>3. TokensOK'
  <2> SUFFICES ASSUME NEW b \in Clients, cookie'[b].access # None PROVE TokenOK(cookie[b].access)'
    BY DEF TokensOK
  <2>1. cookie'[b] = cookie[b]
    BY <1>1, <1>2
  <2>2. PICK k \in AccessClaims : k = cookie[b].access /\ TokenOK(k)
    BY <1>2, <2>1 DEF IInv, TokensOK
  <2>3. TokenOK(k)'
    BY <2>2, TokenKept
  <2>4. cookie'[b].access = k
    BY <2>1, <2>2
  <2> QED
    BY <2>3, <2>4
<1> QED
  BY <1>1, <1>2, <1>3

-----------------------------------------------------------------------------
(* What a step has to show *)

\* A handler t takes a step to s, and leaves the ids and e-mail addresses of
\* other registrations alone.
LEMMA Assemble ==
    ASSUME IInv, TypeOK', Moves, RowsOK', TokensOK',
           NEW t \in Threads, NEW s \in Thread, thread' = [thread EXCEPT ![t] = s],
           SessionOK(s)', HeldBy(s)',
           s.pc \in Registering =>
               \/ thread[t].pc \in Registering /\ s.user = thread[t].user /\ s.org = thread[t].org
               \/ FreshUser(s.user) /\ FreshOrg(s.org),
           s.pc = "commit" => s.email \notin HeldEmails(t),
           \A v \in Threads \ {t} : thread[v].pc \in Registering =>
               /\ org'[thread[v].org].state = "unused"
               /\ user'[thread[v].user].role = "unused"
               /\ thread[v].pc = "commit" =>
                     \A u \in Users : LiveUser(u)' => user'[u].email # thread[v].email
    PROVE  IInv'
<1>1. thread \in [Threads -> Thread]
  BY DEF IInv, TypeOK
<1>2. thread'[t] = s /\ \A v \in Threads : v # t => thread'[v] = thread[v]
  BY <1>1
<1>3. ThreadsOK'
  <2> SUFFICES ASSUME NEW v \in Threads PROVE (SessionOK(thread[v]) /\ HeldBy(thread[v]))'
    BY DEF ThreadsOK
  <2>1. CASE v = t
    BY <1>2, <2>1
  <2>2. CASE v # t
    <3>1. PICK w \in Thread : w = thread[v] /\ SessionOK(w) /\ HeldBy(w)
      BY <1>1 DEF IInv, ThreadsOK
    <3>2. SessionOK(w)'
      BY <3>1, SessionKept
    <3>3. HeldBy(w)'
      BY <2>2, <3>1 DEF HeldBy
    <3>4. thread'[v] = w
      BY <1>2, <2>2, <3>1
    <3> QED
      BY <3>2, <3>3, <3>4
  <2> QED
    BY <2>1, <2>2
<1>4. ASSUME NEW v \in Threads, v # t
      PROVE  /\ s.pc \in Registering /\ thread[v].pc \in Registering =>
                   s.user # thread[v].user /\ s.org # thread[v].org
             /\ s.pc = "commit" /\ thread[v].pc = "commit" => s.email # thread[v].email
  <2>1. s.pc \in Registering /\ thread[v].pc \in Registering =>
           s.user # thread[v].user /\ s.org # thread[v].org
    BY <1>4 DEF IInv, Apart, FreshUser, FreshOrg
  <2>2. s.pc = "commit" /\ thread[v].pc = "commit" => s.email # thread[v].email
    BY <1>4 DEF HeldEmails
  <2> QED
    BY <2>1, <2>2
<1>5. Apart'
  <2> SUFFICES ASSUME NEW v \in Threads, NEW w \in Threads, v # w
               PROVE  /\ thread'[v].pc \in Registering /\ thread'[w].pc \in Registering =>
                            thread'[v].user # thread'[w].user /\ thread'[v].org # thread'[w].org
                      /\ thread'[v].pc = "commit" /\ thread'[w].pc = "commit" =>
                            thread'[v].email # thread'[w].email
    BY DEF Apart
  <2>1. CASE v = t
    BY <1>2, <1>4, <2>1
  <2>2. CASE w = t
    BY <1>2, <1>4, <2>2
  <2>3. CASE v # t /\ w # t
    BY <1>2, <2>3 DEF IInv, Apart
  <2> QED
    BY <2>1, <2>2, <2>3
<1> QED
  BY <1>3, <1>5 DEF IInv

\* No row is written.
LEMMA RowsKept ==
    ASSUME IInv, UNCHANGED <<rows, unchanged>>
    PROVE  Moves /\ RowsOK'
<1>1. UNCHANGED <<org, user, invited, unchanged>>
  BY DEF rows
<1>2. Moves
  BY <1>1 DEF Moves
<1> QED
  BY <1>1, <1>2 DEF IInv, RowsOK, OrganizationsHaveUsers, Members, LiveUser, LiveOrg

\* Ids and e-mail addresses of other registrations, if no row is written.
LEMMA HeldKept ==
    ASSUME IInv, UNCHANGED <<rows, unchanged>>, NEW t \in Threads
    PROVE  \A v \in Threads \ {t} : thread[v].pc \in Registering =>
               /\ org'[thread[v].org].state = "unused"
               /\ user'[thread[v].user].role = "unused"
               /\ thread[v].pc = "commit" =>
                     \A u \in Users : LiveUser(u)' => user'[u].email # thread[v].email
BY DEF rows, IInv, ThreadsOK, HeldBy, LiveUser

\* A handler only reads.
LEMMA ReadStep ==
    ASSUME IInv, UNCHANGED <<rows, cookie, unchanged>>,
           NEW t \in Threads, NEW s \in Thread, thread' = [thread EXCEPT ![t] = s],
           SessionOK(s), HeldBy(s),
           s.pc \in Registering =>
               \/ thread[t].pc \in Registering /\ s.user = thread[t].user /\ s.org = thread[t].org
               \/ FreshUser(s.user) /\ FreshOrg(s.org),
           s.pc = "commit" => s.email \notin HeldEmails(t)
    PROVE  IInv'
<1>1. UNCHANGED <<org, user, invited, cookie, unchanged>>
  BY DEF rows
<1>2. Moves /\ RowsOK'
  BY RowsKept
<1>3. TypeOK'
  BY <1>1 DEF IInv, TypeOK
<1>4. TokensOK'
  BY <1>2, TokensKept
<1>5. SessionOK(s)'
  BY <1>2, SessionKept
<1>6. HeldBy(s)'
  BY <1>1 DEF HeldBy, LiveUser
<1>7. \A v \in Threads \ {t} : thread[v].pc \in Registering =>
        /\ org'[thread[v].org].state = "unused"
        /\ user'[thread[v].user].role = "unused"
        /\ thread[v].pc = "commit" => \A u \in Users : LiveUser(u)' => user'[u].email # thread[v].email
  BY HeldKept
<1> QED
  BY <1>2, <1>3, <1>4, <1>5, <1>6, <1>7, Assemble

\* An idle handler knows and holds nothing.
LEMMA IdleOK ==
    /\ IdleThread \in Thread /\ IdleThread.pc = "idle"
    /\ SessionOK(IdleThread) /\ HeldBy(IdleThread)
    /\ SessionOK(IdleThread)' /\ HeldBy(IdleThread)'
<1>1. IdleThread \in Thread /\ IdleThread.pc = "idle"
  BY DEF IdleThread, Thread
<1> QED
  BY <1>1 DEF SessionOK, HeldBy, Registering

\* Goto changes the place of a handler and nothing else of it.
LEMMA GotoThread ==
    ASSUME IInv, NEW t \in Threads,
           NEW pc \in {"createUser", "commit", "issue"}, Goto(t, pc)
    PROVE  \E s \in Thread :
               /\ thread' = [thread EXCEPT ![t] = s]
               /\ s.pc = pc /\ s.client = thread[t].client /\ s.user = thread[t].user
               /\ s.org = thread[t].org /\ s.role = thread[t].role /\ s.email = thread[t].email
               /\ s.inn = thread[t].inn /\ s.left = thread[t].left
<1>1. thread \in [Threads -> Thread] /\ thread[t] \in Thread
  BY DEF IInv, TypeOK
<1>2. PICK s : s = [thread[t] EXCEPT !.pc = pc]
  OBVIOUS
<1>3. /\ s \in Thread /\ s.pc = pc /\ s.client = thread[t].client /\ s.user = thread[t].user
      /\ s.org = thread[t].org /\ s.role = thread[t].role /\ s.email = thread[t].email
      /\ s.inn = thread[t].inn /\ s.left = thread[t].left
  BY <1>1, <1>2 DEF Thread
<1>4. thread' = [thread EXCEPT ![t] = s]
  BY <1>1, <1>2 DEF Goto
<1> QED
  BY <1>3, <1>4

-----------------------------------------------------------------------------
(* Handlers that read *)

\* A registration begins with ids nobody has.
LEMMA RegisterStep ==
    ASSUME IInv, NEW t \in Threads, NEW c \in Clients, NEW o \in Orgs, NEW u \in Users,
           NEW e \in Emails, NEW n \in INNs \cup {None}, Register(t, c, o, u, e, n)
    PROVE  IInv'
<1>1. PICK s : s = [pc |-> "createOrg", client |-> c, user |-> u, org |-> o, role |-> "admin",
                    email |-> e, inn |-> n, left |-> HandlerTime]
  OBVIOUS
<1>2. /\ thread' = [thread EXCEPT ![t] = s] /\ FreshOrg(o) /\ FreshUser(u)
      /\ UNCHANGED <<rows, cookie, unchanged>>
  BY <1>1 DEF Register, Become
<1>3. s \in Thread
  BY <1>1 DEF Thread
<1>4. SessionOK(s) /\ HeldBy(s)
  BY <1>1, <1>2 DEF SessionOK, HeldBy, FreshOrg, FreshUser, Registering
<1> QED
  BY <1>1, <1>2, <1>3, <1>4, ReadStep

\* Any handler may end.
LEMMA FinishStep ==
    ASSUME IInv, NEW t \in Threads, Finish(t), UNCHANGED <<rows, cookie, unchanged>>
    PROVE  IInv'
<1>1. thread' = [thread EXCEPT ![t] = IdleThread]
  BY DEF Finish, Become
<1> QED
  BY <1>1, IdleOK, ReadStep DEF Registering

\* The first INSERT of a registration.
LEMMA CreateOrganizationStep ==
    ASSUME IInv, NEW t \in Threads, CreateOrganization(t)
    PROVE  IInv'
<1>1. thread[t].pc = "createOrg" /\ UNCHANGED <<rows, cookie, unchanged>>
  BY DEF CreateOrganization
<1>2. CASE Finish(t)
  BY <1>1, <1>2, FinishStep
<1>3. CASE Goto(t, "createUser")
  <2>1. PICK s \in Thread :
          /\ thread' = [thread EXCEPT ![t] = s]
          /\ s.pc = "createUser" /\ s.client = thread[t].client /\ s.user = thread[t].user
          /\ s.org = thread[t].org /\ s.role = thread[t].role /\ s.email = thread[t].email
    BY <1>3, GotoThread
  <2>2. SessionOK(thread[t]) /\ HeldBy(thread[t])
    BY DEF IInv, ThreadsOK
  <2>3. SessionOK(s) /\ HeldBy(s)
    BY <1>1, <2>1, <2>2 DEF SessionOK, HeldBy, Registering
  <2> QED
    BY <1>1, <2>1, <2>3, ReadStep DEF Registering
<1> QED
  BY <1>2, <1>3 DEF CreateOrganization

\* The second INSERT takes the e-mail address.
LEMMA CreateFirstUserStep ==
    ASSUME IInv, NEW t \in Threads, CreateFirstUser(t)
    PROVE  IInv'
<1>1. /\ thread[t].pc = "createUser" /\ thread[t].email \notin HeldEmails(t)
      /\ UNCHANGED <<rows, cookie, unchanged>>
  BY DEF CreateFirstUser
<1>2. CASE Finish(t)
  BY <1>1, <1>2, FinishStep
<1>3. CASE Goto(t, "commit") /\ thread[t].email \notin UsedEmails
  <2>1. PICK s \in Thread :
          /\ thread' = [thread EXCEPT ![t] = s]
          /\ s.pc = "commit" /\ s.client = thread[t].client /\ s.user = thread[t].user
          /\ s.org = thread[t].org /\ s.role = thread[t].role /\ s.email = thread[t].email
    BY <1>3, GotoThread
  <2>2. SessionOK(thread[t]) /\ HeldBy(thread[t])
    BY DEF IInv, ThreadsOK
  <2>3. thread[t].email \in Emails
    BY <1>1, <2>2 DEF HeldBy, Registering
  <2>4. \A u \in Users : LiveUser(u) => user[u].email # thread[t].email
    BY <1>3, <2>3 DEF UsedEmails
  <2>5. SessionOK(s) /\ HeldBy(s)
    BY <1>1, <2>1, <2>2, <2>4 DEF SessionOK, HeldBy, Registering
  <2> QED
    BY <1>1, <2>1, <2>5, ReadStep DEF Registering
<1> QED
  BY <1>2, <1>3 DEF CreateFirstUser

\* What a row says of a user.
LEMMA RowDescribes ==
    ASSUME IInv, NEW u \in Users, LiveUser(u)
    PROVE  /\ user[u].role \in {"owner", "admin", "member"} /\ user[u].org \in Orgs \cup {None}
           /\ user[u].role = "owner" <=> user[u].org = None
BY DEF IInv, TypeOK, User, LiveUser

\* A handler reads the row of a user.
LEMMA SessionStep ==
    ASSUME IInv, NEW t \in Threads, NEW c \in Clients, NEW u \in Users, LiveUser(u),
           NEW pc \in {"loginOrg", "issue"}, pc = "loginOrg" => user[u].role # "owner",
           Session(t, c, u, pc), UNCHANGED <<rows, cookie, unchanged>>
    PROVE  IInv'
<1>1. PICK s : s = [IdleThread EXCEPT !.pc = pc, !.client = c, !.user = u, !.org = user[u].org,
                                      !.role = user[u].role]
  OBVIOUS
<1>2. thread' = [thread EXCEPT ![t] = s]
  BY <1>1 DEF Session, Become
<1>3. /\ user[u].role \in {"owner", "admin", "member"} /\ user[u].org \in Orgs \cup {None}
      /\ user[u].role = "owner" <=> user[u].org = None
  BY RowDescribes
<1>4. /\ s \in Thread /\ s.pc = pc /\ s.client = c /\ s.user = u /\ s.org = user[u].org
      /\ s.role = user[u].role
  BY <1>1, <1>3, IdleOK DEF Thread
<1>5. Describes(s) /\ Matches(s)
  BY <1>3, <1>4 DEF Describes, Matches
<1>6. SessionOK(s) /\ HeldBy(s)
  BY <1>4, <1>5 DEF SessionOK, HeldBy, Registering
<1> QED
  BY <1>2, <1>4, <1>6, ReadStep DEF Registering

\* Login reads the user.
LEMMA LoginStep ==
    ASSUME IInv, NEW t \in Threads, NEW c \in Clients, NEW u \in Users, Login(t, c, u)
    PROVE  IInv'
<1>1. LiveUser(u) /\ UNCHANGED <<rows, cookie, unchanged>>
  BY DEF Login
<1>2. CASE user[u].role = "owner"
  <2>1. Session(t, c, u, "issue")
    BY <1>2 DEF Login
  <2> QED
    BY <1>1, <2>1, SessionStep
<1>3. CASE user[u].role # "owner"
  <2>1. Session(t, c, u, "loginOrg")
    BY <1>3 DEF Login
  <2> QED
    BY <1>1, <1>3, <2>1, SessionStep
<1> QED
  BY <1>2, <1>3

\* Login looks at the organization.
LEMMA LoginOrgStep ==
    ASSUME IInv, NEW t \in Threads, LoginOrg(t)
    PROVE  IInv'
<1>1. thread[t].pc = "loginOrg" /\ UNCHANGED <<rows, cookie, unchanged>>
  BY DEF LoginOrg
<1>2. CASE Finish(t)
  BY <1>1, <1>2, FinishStep
<1>3. CASE Goto(t, "issue")
  <2>1. PICK s \in Thread :
          /\ thread' = [thread EXCEPT ![t] = s]
          /\ s.pc = "issue" /\ s.client = thread[t].client /\ s.user = thread[t].user
          /\ s.org = thread[t].org /\ s.role = thread[t].role /\ s.left = thread[t].left
    BY <1>3, GotoThread
  <2>2. SessionOK(thread[t])
    BY DEF IInv, ThreadsOK
  <2>3. SessionOK(s) /\ HeldBy(s)
    BY <1>1, <2>1, <2>2 DEF SessionOK, HeldBy, Registering, Describes, Matches
  <2> QED
    BY <1>1, <2>1, <2>3, ReadStep DEF Registering
<1> QED
  BY <1>2, <1>3 DEF LoginOrg

\* AuthMiddleware takes the claims of the token.
LEMMA AuthMiddlewareStep ==
    ASSUME IInv, NEW t \in Threads, NEW c \in Clients, AuthMiddleware(t, c)
    PROVE  IInv'
<1>1. PICK k : k = cookie[c].access
  OBVIOUS
<1>2. k # None /\ k.role \in {"owner", "admin"} /\ UNCHANGED <<rows, cookie, unchanged>>
  BY <1>1 DEF AuthMiddleware
<1>3. k \in AccessClaims /\ TokenOK(k)
  BY <1>1, <1>2 DEF IInv, TypeOK, TokensOK
<1>4. PICK s : s = [IdleThread EXCEPT !.pc = "act", !.client = c, !.user = k.user,
                                      !.org = k.org, !.role = k.role]
  OBVIOUS
<1>5. thread' = [thread EXCEPT ![t] = s]
  BY <1>1, <1>4 DEF AuthMiddleware, Become
<1>6. /\ s \in Thread /\ s.pc = "act" /\ s.client = c /\ s.user = k.user /\ s.org = k.org
      /\ s.role = k.role /\ s.left = HandlerTime
  <2>1. IdleThread.left = HandlerTime
    BY DEF IdleThread
  <2>2. k.user \in Users /\ k.org \in Orgs \cup {None} /\ k.role \in {"owner", "admin", "member"}
    BY <1>3 DEF AccessClaims
  <2> QED
    BY <1>4, <2>1, <2>2, IdleOK DEF Thread
<1>7. Describes(s)
  BY <1>3, <1>6 DEF TokenOK, Describes
<1>8. Matches(s) \/ unchanged[s.user] + s.left < Forgotten
  <2>1. CASE Matches(k)
    BY <1>6, <2>1 DEF Matches
  <2>2. CASE unchanged[k.user] + k.left <= HandlerTime + AccessTTL
    <3>1. k.left \in Nat /\ k.left >= 1
      BY <1>3 DEF AccessClaims
    <3>2. unchanged[k.user] \in Nat
      BY <1>3 DEF IInv, TypeOK, AccessClaims, Forgotten
    <3> QED
      BY <1>6, <2>2, <3>1, <3>2 DEF Forgotten
  <2> QED
    BY <1>3, <2>1, <2>2 DEF TokenOK
<1>9. SessionOK(s) /\ HeldBy(s)
  BY <1>2, <1>6, <1>7, <1>8 DEF SessionOK, HeldBy, Registering
<1> QED
  BY <1>2, <1>5, <1>6, <1>9, ReadStep DEF Registering

-----------------------------------------------------------------------------
(* Cookies *)

\* Only the cookies of a browser are cleared.
LEMMA LogoutStep ==
    ASSUME IInv, NEW c, cookie' = [cookie EXCEPT ![c] = NoCookies],
           UNCHANGED <<rows, thread, unchanged>>
    PROVE  IInv'
<1>1. UNCHANGED <<org, user, invited, thread, unchanged>>
  BY DEF rows
<1>2. Moves /\ RowsOK'
  BY RowsKept
<1>3. /\ cookie' \in [Clients -> [access : AccessClaims \cup {None}, refresh : RefreshClaims \cup {None}]]
      /\ TokensOK'
  BY <1>2, TokensCleared
<1>4. TypeOK'
  BY <1>1, <1>3 DEF IInv, TypeOK
<1>5. ThreadsOK' /\ Apart'
  BY <1>1 DEF IInv, ThreadsOK, SessionOK, HeldBy, Describes, Matches, LiveUser, Apart
<1> QED
  BY <1>2, <1>3, <1>4, <1>5 DEF IInv

\* A refresh reads the row again, or clears the cookies.
LEMMA RefreshTokensStep ==
    ASSUME IInv, NEW t \in Threads, NEW c \in Clients, RefreshTokens(t, c)
    PROVE  IInv'
<1>1. cookie[c].refresh # None /\ UNCHANGED <<rows, unchanged>>
  BY DEF RefreshTokens
<1>2. cookie[c].refresh \in RefreshClaims
  BY <1>1 DEF IInv, TypeOK
<1>3. cookie[c].refresh.user \in Users
  BY <1>2 DEF RefreshClaims
<1>4. CASE LiveUser(cookie[c].refresh.user)
  <2>1. Session(t, c, cookie[c].refresh.user, "issue") /\ UNCHANGED cookie
    BY <1>4 DEF RefreshTokens
  <2> QED
    BY <1>1, <1>3, <1>4, <2>1, SessionStep
<1>5. CASE ~LiveUser(cookie[c].refresh.user)
  <2>1. cookie' = [cookie EXCEPT ![c] = NoCookies] /\ UNCHANGED thread
    BY <1>5 DEF RefreshTokens
  <2> QED
    BY <1>1, <2>1, LogoutStep
<1> QED
  BY <1>4, <1>5

\* A token counts from the moment it is issued.
LEMMA GenerateTokensStep ==
    ASSUME IInv, NEW t \in Threads, GenerateTokens(t)
    PROVE  IInv'
<1>1. thread[t].pc = "issue" /\ UNCHANGED <<rows, unchanged>> /\ thread' = [thread EXCEPT ![t] = IdleThread]
  BY DEF GenerateTokens, Finish, Become
<1>2. UNCHANGED <<org, user, invited, unchanged>>
  BY <1>1 DEF rows
<1>3. thread[t] \in Thread /\ SessionOK(thread[t])
  BY DEF IInv, TypeOK, ThreadsOK
<1>4. /\ thread[t].client \in Clients /\ Describes(thread[t])
      /\ Matches(thread[t]) \/ unchanged[thread[t].user] + thread[t].left <= HandlerTime
  BY <1>1, <1>3 DEF SessionOK
<1>5. PICK k : k = [user |-> thread[t].user, org |-> thread[t].org, role |-> thread[t].role, left |-> AccessTTL]
  OBVIOUS
<1>6. PICK r : r = [user |-> thread[t].user, left |-> RefreshTTL]
  OBVIOUS
<1>7. k \in AccessClaims /\ r \in RefreshClaims
  BY <1>4, <1>5, <1>6 DEF AccessClaims, RefreshClaims, Describes
<1>8. cookie' = [cookie EXCEPT ![thread[t].client] = [access |-> k, refresh |-> r]]
  BY <1>5, <1>6 DEF GenerateTokens
<1>9. cookie \in [Clients -> [access : AccessClaims \cup {None}, refresh : RefreshClaims \cup {None}]]
  BY DEF IInv, TypeOK
<1>10. Moves /\ RowsOK'
  BY <1>1, RowsKept
<1>11. TypeOK'
  <2>1. cookie' \in [Clients -> [access : AccessClaims \cup {None}, refresh : RefreshClaims \cup {None}]]
    BY <1>7, <1>8, <1>9
  <2> QED
    BY <1>1, <1>2, <2>1, IdleOK DEF IInv, TypeOK
<1>12. TokenOK(k)
  <2>1. Describes(k)
    BY <1>4, <1>5 DEF Describes
  <2>2. CASE Matches(thread[t])
    BY <1>5, <2>1, <2>2 DEF TokenOK, Matches
  <2>3. CASE unchanged[thread[t].user] + thread[t].left <= HandlerTime
    <3>1. thread[t].left \in Nat /\ unchanged[thread[t].user] \in Nat
      BY <1>3, <1>4 DEF Thread, Describes, IInv, TypeOK, Forgotten
    <3> QED
      BY <1>5, <2>1, <2>3, <3>1 DEF TokenOK
  <2> QED
    BY <1>4, <2>2, <2>3
<1>13. TokensOK'
  <2> SUFFICES ASSUME NEW b \in Clients, cookie'[b].access # None PROVE TokenOK(cookie[b].access)'
    BY DEF TokensOK
  <2>1. PICK l \in AccessClaims : l = cookie'[b].access /\ TokenOK(l)
    <3>1. CASE b = thread[t].client
      BY <1>7, <1>8, <1>9, <1>12, <3>1
    <3>2. CASE b # thread[t].client
      BY <1>8, <1>9, <3>2 DEF IInv, TokensOK
    <3> QED
      BY <3>1, <3>2
  <2>2. TokenOK(l)'
    BY <1>10, <2>1, TokenKept
  <2> QED
    BY <2>1, <2>2
<1>14. \A v \in Threads \ {t} : thread[v].pc \in Registering =>
        /\ org'[thread[v].org].state = "unused"
        /\ user'[thread[v].user].role = "unused"
        /\ thread[v].pc = "commit" => \A u \in Users : LiveUser(u)' => user'[u].email # thread[v].email
  BY <1>1, HeldKept
<1> QED
  BY <1>1, <1>10, <1>11, <1>13, <1>14, IdleOK, Assemble DEF Registering

-----------------------------------------------------------------------------
(* Handlers that write *)

\* A user is added, to an organization that exists or that is created with it.
LEMMA AddUser ==
    ASSUME IInv, NEW x \in Users, user[x].role = "unused", NEW o \in Orgs,
           NEW role \in {"admin", "member"}, NEW e \in Emails,
           \A v \in Users : LiveUser(v) => user[v].email # e,
           org' \in [Orgs -> Organization], org'[o].state = "live", \A p \in Orgs : p # o => org'[p] = org[p],
           user' = [user EXCEPT ![x] = [role |-> role, org |-> o, email |-> e, active |-> TRUE]],
           unchanged' = [unchanged EXCEPT ![x] = 0], UNCHANGED invited
    PROVE  /\ user' \in [Users -> User] /\ unchanged' \in [Users -> 0 .. Forgotten]
           /\ user'[x].role = role /\ user'[x].org = o /\ user'[x].email = e
           /\ \A v \in Users : v # x => user'[v] = user[v]
           /\ Moves /\ RowsOK'
<1>1. org \in [Orgs -> Organization] /\ user \in [Users -> User] /\ unchanged \in [Users -> 0 .. Forgotten]
  BY DEF IInv, TypeOK
<1>2. PICK row : row = [role |-> role, org |-> o, email |-> e, active |-> TRUE]
  OBVIOUS
<1>3. row \in User /\ row.role = role /\ row.org = o /\ row.email = e
  BY <1>2 DEF User
<1>4. user' \in [Users -> User] /\ user'[x] = row /\ \A v \in Users : v # x => user'[v] = user[v]
  BY <1>1, <1>2, <1>3
<1>5. unchanged' \in [Users -> 0 .. Forgotten] /\ unchanged'[x] = 0
      /\ \A v \in Users : v # x => unchanged'[v] = unchanged[v]
  <2>1. 0 \in 0 .. Forgotten
    BY DEF Forgotten
  <2> QED
    BY <1>1, <2>1
<1>6. LiveOrg(o)' /\ \A p \in Orgs : p # o => org'[p] = org[p]
  BY DEF LiveOrg
<1>7. Moves
  BY <1>4, <1>5 DEF Moves
<1>8. \A v \in Users : v # x => LiveUser(v)' = LiveUser(v)
  BY <1>4 DEF LiveUser
<1>9. LiveUser(x)' /\ ~LiveUser(x)
  BY <1>3, <1>4 DEF LiveUser
<1>10. \A p \in Orgs : LiveOrg(p)' <=> Members(p)' # {}
  <2> SUFFICES ASSUME NEW p \in Orgs PROVE LiveOrg(p)' <=> Members(p)' # {}
    OBVIOUS
  <2>1. CASE p = o
    <3>1. x \in Members(p)'
      BY <1>3, <1>4, <1>9, <2>1 DEF Members
    <3> QED
      BY <1>6, <2>1, <3>1
  <2>2. CASE p # o
    <3>1. LiveOrg(p)' = LiveOrg(p)
      BY <1>6, <2>2 DEF LiveOrg
    <3>2. Members(p)' = Members(p)
      BY <1>3, <1>4, <1>8, <1>9, <2>2 DEF Members
    <3> QED
      BY <3>1, <3>2 DEF IInv, RowsOK, OrganizationsHaveUsers
  <2> QED
    BY <2>1, <2>2
<1>11. \A i \in invited' : LiveOrg(i[1])'
  <2> SUFFICES ASSUME NEW i \in invited PROVE LiveOrg(i[1])'
    OBVIOUS
  <2>1. LiveOrg(i[1]) /\ i[1] \in Orgs
    BY DEF IInv, TypeOK, RowsOK, OrganizationsHaveUsers
  <2> QED
    BY <1>6, <2>1 DEF LiveOrg
<1>12. \A v \in Users : user'[v].role \in {"admin", "member"} => user'[v].email # None
  BY <1>3, <1>4 DEF IInv, RowsOK
<1>13. \A u, v \in Users : LiveUser(u)' /\ LiveUser(v)' /\ u # v =>
          user'[u].email # user'[v].email \/ user'[u].role = "owner"
  <2> SUFFICES ASSUME NEW u \in Users, NEW v \in Users, LiveUser(u)', LiveUser(v)', u # v
               PROVE  user'[u].email # user'[v].email \/ user'[u].role = "owner"
    OBVIOUS
  <2>1. CASE u = x
    BY <1>3, <1>4, <1>8, <2>1
  <2>2. CASE v = x
    BY <1>3, <1>4, <1>8, <2>2
  <2>3. CASE u # x /\ v # x
    BY <1>4, <1>8, <2>3 DEF IInv, RowsOK, OrganizationsHaveUsers
  <2> QED
    BY <2>1, <2>2, <2>3
<1>14. RowsOK'
  BY <1>10, <1>11, <1>12, <1>13 DEF RowsOK, OrganizationsHaveUsers
<1> QED
  BY <1>3, <1>4, <1>5, <1>6, <1>7, <1>14

\* ExecTx commits the organization and its first user.
LEMMA CommitStep ==
    ASSUME IInv, NEW t \in Threads, Commit(t)
    PROVE  IInv'
<1> DEFINE o == thread[t].org
           x == thread[t].user
           e == thread[t].email
<1>1. /\ thread[t].pc = "commit" /\ UNCHANGED <<invited, cookie>> /\ Goto(t, "issue")
      /\ org' = [org EXCEPT ![o] = [state |-> "live", inn |-> thread[t].inn]]
      /\ user' = [user EXCEPT ![x] = [role |-> "admin", org |-> o, email |-> e, active |-> TRUE]]
      /\ unchanged' = [unchanged EXCEPT ![x] = 0]
  BY DEF Commit
<1>2. thread[t] \in Thread /\ SessionOK(thread[t]) /\ HeldBy(thread[t])
  BY DEF IInv, TypeOK, ThreadsOK
<1>3. /\ o \in Orgs /\ org[o].state = "unused" /\ x \in Users /\ user[x].role = "unused"
      /\ e \in Emails /\ thread[t].role = "admin" /\ thread[t].client \in Clients
      /\ \A u \in Users : LiveUser(u) => user[u].email # e
  BY <1>1, <1>2 DEF HeldBy, SessionOK, Registering
<1>4. thread[t].inn \in INNs \cup {None}
  BY <1>2 DEF Thread
<1>5. PICK s \in Thread :
        /\ thread' = [thread EXCEPT ![t] = s]
        /\ s.pc = "issue" /\ s.client = thread[t].client /\ s.user = x
        /\ s.org = o /\ s.role = thread[t].role
  BY <1>1, GotoThread
<1> HIDE DEF o, x, e
<1>6. /\ org' \in [Orgs -> Organization] /\ \A p \in Orgs : p # o => org'[p] = org[p]
      /\ user' \in [Users -> User] /\ unchanged' \in [Users -> 0 .. Forgotten]
      /\ user'[x].role = "admin" /\ user'[x].org = o /\ user'[x].email = e
      /\ \A v \in Users : v # x => user'[v] = user[v]
      /\ Moves /\ RowsOK'
  <2>1. [state |-> "live", inn |-> thread[t].inn] \in Organization
    BY <1>4 DEF Organization
  <2>2. /\ org' \in [Orgs -> Organization] /\ org'[o].state = "live"
        /\ \A p \in Orgs : p # o => org'[p] = org[p]
    BY <1>1, <1>3, <2>1 DEF IInv, TypeOK
  <2>3. PICK p \in Orgs, y \in Users, f \in Emails : p = o /\ y = x /\ f = e
    BY <1>3
  <2>4. /\ user[y].role = "unused" /\ \A u \in Users : LiveUser(u) => user[u].email # f
        /\ org'[p].state = "live" /\ \A q \in Orgs : q # p => org'[q] = org[q]
        /\ user' = [user EXCEPT ![y] = [role |-> "admin", org |-> p, email |-> f, active |-> TRUE]]
        /\ unchanged' = [unchanged EXCEPT ![y] = 0]
    BY <1>1, <1>3, <2>2, <2>3
  <2>5. /\ user' \in [Users -> User] /\ unchanged' \in [Users -> 0 .. Forgotten]
        /\ user'[y].role = "admin" /\ user'[y].org = p /\ user'[y].email = f
        /\ \A v \in Users : v # y => user'[v] = user[v]
        /\ Moves /\ RowsOK'
    BY <1>1, <2>2, <2>4, AddUser
  <2> QED
    BY <2>2, <2>3, <2>5
<1>7. TypeOK'
  BY <1>1, <1>5, <1>6 DEF IInv, TypeOK
<1>8. TokensOK'
  BY <1>1, <1>6, TokensKept
<1>9. Describes(s)' /\ Matches(s)'
  BY <1>3, <1>5, <1>6 DEF Describes, Matches
<1>10. SessionOK(s)' /\ HeldBy(s)'
  BY <1>3, <1>5, <1>9 DEF SessionOK, HeldBy, Registering
<1>11. ASSUME NEW v \in Threads \ {t}, thread[v].pc \in Registering
       PROVE  /\ org'[thread[v].org].state = "unused"
              /\ user'[thread[v].user].role = "unused"
              /\ thread[v].pc = "commit" =>
                    \A u \in Users : LiveUser(u)' => user'[u].email # thread[v].email
  <2>1. HeldBy(thread[v])
    BY DEF IInv, ThreadsOK
  <2>2. /\ thread[v].user # x /\ thread[v].org # o
        /\ thread[v].pc = "commit" => thread[v].email # e
    BY <1>1, <1>11 DEF IInv, Apart, Registering, x, o, e
  <2>3. /\ org'[thread[v].org].state = "unused" /\ user'[thread[v].user].role = "unused"
    BY <1>6, <1>11, <2>1, <2>2 DEF HeldBy
  <2>4. ASSUME thread[v].pc = "commit", NEW u \in Users, LiveUser(u)'
        PROVE  user'[u].email # thread[v].email
    <3>1. CASE u = x
      BY <1>6, <2>2, <2>4, <3>1
    <3>2. CASE u # x
      BY <1>6, <1>11, <2>1, <2>4, <3>2 DEF HeldBy, LiveUser
    <3> QED
      BY <3>1, <3>2
  <2> QED
    BY <2>3, <2>4
<1> QED
  BY <1>5, <1>6, <1>7, <1>8, <1>10, <1>11, Assemble DEF Registering

\* What a handler that acts on claims knows of them.
LEMMA ActThread ==
    ASSUME IInv, NEW t \in Threads, Acting(t)
    PROVE  /\ thread[t].role \in {"owner", "admin"} /\ thread[t].user \in Users
           /\ thread[t].role = "owner" => user[thread[t].user].role = "owner"
           /\ thread[t].role = "admin" =>
                 /\ thread[t].org \in Orgs
                 /\ user[thread[t].user].role = "admin" \/ unchanged[thread[t].user] < Forgotten
<1>1. thread[t] \in Thread /\ SessionOK(thread[t]) /\ thread[t].pc = "act"
  BY DEF IInv, TypeOK, ThreadsOK, Acting
<1>2. Describes(thread[t]) /\ thread[t].role # "member"
  BY <1>1 DEF SessionOK
<1>3. thread[t].role = "admin" => user[thread[t].user].role = "admin" \/ unchanged[thread[t].user] < Forgotten
  <2>1. thread[t].left \in Nat /\ unchanged[thread[t].user] \in Nat
    BY <1>1, <1>2 DEF Thread, Describes, IInv, TypeOK, Forgotten
  <2>2. CASE Matches(thread[t])
    BY <2>2 DEF Matches
  <2>3. CASE unchanged[thread[t].user] + thread[t].left < Forgotten
    BY <2>1, <2>3 DEF Forgotten
  <2> QED
    BY <1>1, <2>2, <2>3 DEF SessionOK
<1> QED
  BY <1>2, <1>3 DEF Describes

\* An administrator adds a user.
LEMMA CreateUserStep ==
    ASSUME IInv, NEW t \in Threads, NEW x \in Users, NEW e \in Emails, NEW role \in {"admin", "member"},
           CreateUser(t, x, e, role)
    PROVE  IInv'
<1>1. /\ Acting(t) /\ thread[t].role = "admin" /\ FreshUser(x) /\ e \notin HeldEmails(t)
      /\ Finish(t) /\ thread' = [thread EXCEPT ![t] = IdleThread]
      /\ UNCHANGED <<org, invited, cookie>>
  BY DEF CreateUser, AdminOnly, Finish, Become
<1>2. CASE UNCHANGED <<user, unchanged>>
  BY <1>1, <1>2, FinishStep DEF rows
<1>3. CASE /\ LiveOrg(thread[t].org) /\ e \notin UsedEmails
           /\ user' = [user EXCEPT ![x] = [role |-> role, org |-> thread[t].org, email |-> e, active |-> TRUE]]
           /\ unchanged' = [unchanged EXCEPT ![x] = 0]
  <2>1. thread[t].org \in Orgs
    BY <1>1, ActThread
  <2>2. user[x].role = "unused" /\ \A v \in Threads : thread[v].user # x
    BY <1>1 DEF FreshUser
  <2>3. \A v \in Users : LiveUser(v) => user[v].email # e
    BY <1>3 DEF UsedEmails
  <2>4. /\ user' \in [Users -> User] /\ unchanged' \in [Users -> 0 .. Forgotten]
        /\ user'[x].role = role /\ user'[x].email = e
        /\ \A v \in Users : v # x => user'[v] = user[v]
        /\ Moves /\ RowsOK'
    <3>1. PICK o \in Orgs : o = thread[t].org
      BY <2>1
    <3>2. org' \in [Orgs -> Organization] /\ org'[o].state = "live" /\ \A p \in Orgs : p # o => org'[p] = org[p]
      BY <1>1, <1>3, <3>1 DEF IInv, TypeOK, LiveOrg
    <3>3. /\ user' = [user EXCEPT ![x] = [role |-> role, org |-> o, email |-> e, active |-> TRUE]]
          /\ unchanged' = [unchanged EXCEPT ![x] = 0]
      BY <1>3, <3>1
    <3>4. user[x].role = "unused" /\ UNCHANGED invited
      BY <1>1, <2>2
    <3> QED
      BY <2>3, <3>2, <3>3, <3>4, AddUser
  <2>5. TypeOK'
    BY <1>1, <2>4, IdleOK DEF IInv, TypeOK
  <2>6. TokensOK'
    BY <1>1, <2>4, TokensKept
  <2>7. ASSUME NEW v \in Threads \ {t}, thread[v].pc \in Registering
        PROVE  /\ org'[thread[v].org].state = "unused"
               /\ user'[thread[v].user].role = "unused"
               /\ thread[v].pc = "commit" =>
                     \A u \in Users : LiveUser(u)' => user'[u].email # thread[v].email
    <3>1. HeldBy(thread[v])
      BY DEF IInv, ThreadsOK
    <3>2. org'[thread[v].org].state = "unused" /\ user'[thread[v].user].role = "unused"
      BY <1>1, <2>2, <2>4, <2>7, <3>1 DEF HeldBy
    <3>3. ASSUME thread[v].pc = "commit", NEW u \in Users, LiveUser(u)'
          PROVE  user'[u].email # thread[v].email
      <4>1. thread[v].email # e
        BY <1>1, <3>3 DEF HeldEmails
      <4>2. CASE u = x
        BY <2>4, <4>1, <4>2
      <4>3. CASE u # x
        BY <2>4, <2>7, <3>1, <3>3, <4>3 DEF HeldBy, LiveUser
      <4> QED
        BY <4>2, <4>3
    <3> QED
      BY <3>2, <3>3
  <2> QED
    BY <1>1, <2>4, <2>5, <2>6, <2>7, IdleOK, Assemble DEF Registering
<1> QED
  BY <1>2, <1>3 DEF CreateUser

\* The query UpdateUser changes the role of a user of an organization.
LEMMA UpdateUserStep ==
    ASSUME IInv, NEW t \in Threads, NEW x \in Users, NEW o \in Orgs, NEW role \in {"admin", "member"},
           NEW active \in BOOLEAN, UpdateUser(x, o, role, active), Finish(t),
           UNCHANGED <<org, invited, cookie>>
    PROVE  IInv'
<1>1. thread' = [thread EXCEPT ![t] = IdleThread]
  BY DEF Finish, Become
<1>2. CASE UNCHANGED <<user, unchanged>>
  BY <1>2, FinishStep DEF rows
<1>3. CASE /\ LiveUser(x) /\ user[x].org = o
           /\ user' = [user EXCEPT ![x].role = role, ![x].active = active]
           /\ unchanged' = IF role = user[x].role THEN unchanged ELSE [unchanged EXCEPT ![x] = 0]
  <2>1. user \in [Users -> User] /\ unchanged \in [Users -> 0 .. Forgotten] /\ user[x] \in User
    BY DEF IInv, TypeOK
  <2>2. PICK row : row = [user[x] EXCEPT !.role = role, !.active = active]
    OBVIOUS
  <2>3. row \in User /\ row.role = role /\ row.org = o /\ row.email = user[x].email
    BY <1>3, <2>1, <2>2 DEF User
  <2>4. user' = [user EXCEPT ![x] = row]
    BY <1>3, <2>1, <2>2 DEF User
  <2>5. user' \in [Users -> User] /\ user'[x] = row /\ \A v \in Users : v # x => user'[v] = user[v]
    BY <2>1, <2>3, <2>4
  <2>6. user[x].role \in {"admin", "member"}
    BY <1>3, <2>1 DEF User
  <2>7. /\ unchanged' \in [Users -> 0 .. Forgotten]
        /\ \A v \in Users : v # x => unchanged'[v] = unchanged[v]
        /\ role # user[x].role => unchanged'[x] = 0
        /\ role = user[x].role => unchanged'[x] = unchanged[x]
    <3>1. 0 \in 0 .. Forgotten
      BY DEF Forgotten
    <3> QED
      BY <1>3, <2>1, <3>1
  <2>8. \A v \in Users : /\ user'[v].org = user[v].org /\ user'[v].email = user[v].email
                         /\ LiveUser(v)' = LiveUser(v)
                         /\ user'[v].role = "owner" <=> user[v].role = "owner"
                         /\ user'[v].role = "unused" <=> user[v].role = "unused"
                         /\ user'[v].role \in {"admin", "member"} <=> user[v].role \in {"admin", "member"}
    BY <1>3, <2>3, <2>5, <2>6 DEF LiveUser
  <2>9. Moves
    BY <2>3, <2>5, <2>6, <2>7, <2>8 DEF Moves
  <2>10. \A p \in Orgs : Members(p)' = Members(p) /\ LiveOrg(p)' = LiveOrg(p)
    BY <2>8 DEF Members, LiveOrg
  <2>11. \A i \in invited' : LiveOrg(i[1])'
    BY <2>10 DEF IInv, TypeOK, RowsOK, OrganizationsHaveUsers
  <2>12. RowsOK'
    BY <2>8, <2>10, <2>11 DEF IInv, RowsOK, OrganizationsHaveUsers
  <2>13. TypeOK'
    BY <1>1, <2>5, <2>7, IdleOK DEF IInv, TypeOK
  <2>14. TokensOK'
    BY <2>9, TokensKept
  <2>15. \A v \in Threads \ {t} : thread[v].pc \in Registering =>
            /\ org'[thread[v].org].state = "unused"
            /\ user'[thread[v].user].role = "unused"
            /\ thread[v].pc = "commit" => \A u \in Users : LiveUser(u)' => user'[u].email # thread[v].email
    BY <2>8 DEF IInv, ThreadsOK, HeldBy
  <2> QED
    BY <1>1, <2>9, <2>12, <2>13, <2>14, <2>15, IdleOK, Assemble DEF Registering
<1> QED
  BY <1>2, <1>3 DEF UpdateUser

\* PATCH /organizations/:id.
LEMMA UpdateOrganizationStep ==
    ASSUME IInv, NEW t \in Threads, NEW o \in Orgs, NEW n \in INNs \cup {None}, UpdateOrganization(t, o, n)
    PROVE  IInv'
<1>1. /\ thread' = [thread EXCEPT ![t] = IdleThread] /\ Finish(t)
      /\ UNCHANGED <<user, invited, cookie, unchanged>>
  BY DEF UpdateOrganization, Finish, Become
<1>2. CASE UNCHANGED org
  BY <1>1, <1>2, FinishStep DEF rows
<1>3. CASE org' = [org EXCEPT ![o].inn = n]
  <2>1. org \in [Orgs -> Organization]
    BY DEF IInv, TypeOK
  <2>2. org' \in [Orgs -> Organization] /\ \A p \in Orgs : org'[p].state = org[p].state
    BY <1>3, <2>1 DEF Organization
  <2>3. Moves
    BY <1>1 DEF Moves
  <2>4. \A p \in Orgs : Members(p)' = Members(p) /\ LiveOrg(p)' = LiveOrg(p)
    BY <1>1, <2>2 DEF Members, LiveOrg, LiveUser
  <2>5. \A i \in invited' : LiveOrg(i[1])'
    BY <1>1, <2>4 DEF IInv, TypeOK, RowsOK, OrganizationsHaveUsers
  <2>6. RowsOK'
    BY <1>1, <2>4, <2>5 DEF IInv, RowsOK, OrganizationsHaveUsers, LiveUser
  <2>7. TypeOK'
    BY <1>1, <2>2, IdleOK DEF IInv, TypeOK
  <2>8. TokensOK'
    BY <1>1, <2>3, TokensKept
  <2>9. \A v \in Threads \ {t} : thread[v].pc \in Registering =>
            /\ org'[thread[v].org].state = "unused"
            /\ user'[thread[v].user].role = "unused"
            /\ thread[v].pc = "commit" => \A u \in Users : LiveUser(u)' => user'[u].email # thread[v].email
    BY <1>1, <2>2 DEF IInv, ThreadsOK, HeldBy, LiveUser
  <2> QED
    BY <1>1, <2>3, <2>6, <2>7, <2>8, <2>9, IdleOK, Assemble DEF Registering
<1> QED
  BY <1>2, <1>3 DEF UpdateOrganization

\* DELETE /organizations/:id, with everything the foreign keys do.
LEMMA DeleteOrganizationStep ==
    ASSUME IInv, NEW t \in Threads, NEW o \in Orgs, DeleteOrganization(t, o)
    PROVE  IInv'
<1>1. thread' = [thread EXCEPT ![t] = IdleThread] /\ Finish(t)
  BY DEF DeleteOrganization, Finish, Become
<1>2. CASE UNCHANGED <<rows, unchanged, cookie>>
  BY <1>1, <1>2, FinishStep
<1>3. CASE /\ LiveOrg(o)
           /\ org' = [org EXCEPT ![o] = [state |-> "deleted", inn |-> None]]
           /\ user' = [u \in Users |-> IF u \in Members(o) THEN NoUser("deleted") ELSE user[u]]
           /\ invited' = {i \in invited : i[1] # o}
           /\ unchanged' = [u \in Users |-> IF u \in Members(o) THEN 0 ELSE unchanged[u]]
           /\ cookie' = [cookie EXCEPT ![thread[t].client] = NoCookies]
  <2>1. org \in [Orgs -> Organization] /\ user \in [Users -> User] /\ unchanged \in [Users -> 0 .. Forgotten]
    BY DEF IInv, TypeOK
  <2>2. /\ NoUser("deleted") \in User /\ NoUser("deleted").role = "deleted"
        /\ [state |-> "deleted", inn |-> None] \in Organization
    BY DEF NoUser, User, Organization
  <2>3. /\ org' \in [Orgs -> Organization] /\ org'[o].state = "deleted"
        /\ \A p \in Orgs : p # o => org'[p] = org[p]
    BY <1>3, <2>1, <2>2
  <2>4. /\ user' \in [Users -> User]
        /\ \A u \in Users : u \in Members(o) => user'[u].role = "deleted"
        /\ \A u \in Users : u \notin Members(o) => user'[u] = user[u]
    BY <1>3, <2>1, <2>2
  <2>5. /\ unchanged' \in [Users -> 0 .. Forgotten]
        /\ \A u \in Users : u \in Members(o) => unchanged'[u] = 0
        /\ \A u \in Users : u \notin Members(o) => unchanged'[u] = unchanged[u]
    <3>1. 0 \in 0 .. Forgotten
      BY DEF Forgotten
    <3> QED
      BY <1>3, <2>1, <3>1
  <2>6. \A u \in Users : u \in Members(o) <=> LiveUser(u) /\ user[u].org = o
    BY DEF Members
  <2>7. \A u \in Members(o) : user[u].role \in {"admin", "member"}
    BY <2>1 DEF User, LiveUser, Members
  <2>8. Moves
    BY <2>4, <2>5, <2>7 DEF Moves
  <2>9. \A u \in Users : LiveUser(u)' <=> LiveUser(u) /\ u \notin Members(o)
    BY <2>4 DEF LiveUser
  <2>10. \A p \in Orgs : LiveOrg(p)' <=> Members(p)' # {}
    <3> SUFFICES ASSUME NEW p \in Orgs PROVE LiveOrg(p)' <=> Members(p)' # {}
      OBVIOUS
    <3>1. CASE p = o
      <4>1. Members(p)' = {}
        BY <2>4, <2>6, <2>9, <3>1 DEF Members
      <4> QED
        BY <2>3, <3>1, <4>1 DEF LiveOrg
    <3>2. CASE p # o
      <4>1. Members(p)' = Members(p)
        BY <2>4, <2>6, <2>9, <3>2 DEF Members
      <4> QED
        BY <2>3, <3>2, <4>1 DEF LiveOrg, IInv, RowsOK, OrganizationsHaveUsers
    <3> QED
      BY <3>1, <3>2
  <2>11. invited' \subseteq invited /\ \A i \in invited' : LiveOrg(i[1])'
    BY <1>3, <2>3 DEF IInv, TypeOK, RowsOK, OrganizationsHaveUsers, LiveOrg
  <2>12. \A u \in Users : user'[u].role \in {"admin", "member"} => user'[u].email # None
    BY <2>4 DEF IInv, RowsOK
  <2>13. \A u, v \in Users : LiveUser(u)' /\ LiveUser(v)' /\ u # v =>
            user'[u].email # user'[v].email \/ user'[u].role = "owner"
    BY <2>4, <2>9 DEF IInv, RowsOK, OrganizationsHaveUsers
  <2>14. RowsOK'
    BY <2>10, <2>11, <2>12, <2>13 DEF RowsOK, OrganizationsHaveUsers
  <2>15. /\ cookie' \in [Clients -> [access : AccessClaims \cup {None}, refresh : RefreshClaims \cup {None}]]
         /\ TokensOK'
    BY <1>3, <2>8, TokensCleared
  <2>16. TypeOK'
    BY <1>1, <2>3, <2>4, <2>5, <2>11, <2>15, IdleOK DEF IInv, TypeOK
  <2>17. \A v \in Threads \ {t} : thread[v].pc \in Registering =>
            /\ org'[thread[v].org].state = "unused"
            /\ user'[thread[v].user].role = "unused"
            /\ thread[v].pc = "commit" => \A u \in Users : LiveUser(u)' => user'[u].email # thread[v].email
    <3> SUFFICES ASSUME NEW v \in Threads, thread[v].pc \in Registering
                 PROVE  /\ org'[thread[v].org].state = "unused"
                        /\ user'[thread[v].user].role = "unused"
                        /\ thread[v].pc = "commit" =>
                              \A u \in Users : LiveUser(u)' => user'[u].email # thread[v].email
      OBVIOUS
    <3>1. HeldBy(thread[v])
      BY DEF IInv, ThreadsOK
    <3>2. thread[v].org # o /\ thread[v].user \notin Members(o)
      BY <1>3, <2>7, <3>1 DEF HeldBy, LiveOrg
    <3> QED
      BY <2>3, <2>4, <2>9, <3>1, <3>2 DEF HeldBy
  <2> QED
    BY <1>1, <2>8, <2>14, <2>15, <2>16, <2>17, IdleOK, Assemble DEF Registering
<1> QED
  BY <1>2, <1>3 DEF DeleteOrganization

\* Invitations are made for an organization that exists.
LEMMA InvitationStep ==
    ASSUME IInv, NEW t \in Threads, Finish(t), UNCHANGED <<org, user, cookie, unchanged>>,
           invited' \subseteq Orgs \X Invitees,
           \A i \in invited' : i \in invited \/ LiveOrg(i[1])
    PROVE  IInv'
<1>1. thread' = [thread EXCEPT ![t] = IdleThread]
  BY DEF Finish, Become
<1>2. Moves
  BY DEF Moves
<1>3. RowsOK'
  BY DEF IInv, RowsOK, OrganizationsHaveUsers, Members, LiveUser, LiveOrg
<1>4. TypeOK'
  BY <1>1, IdleOK DEF IInv, TypeOK
<1>5. TokensOK'
  BY <1>2, TokensKept
<1>6. \A v \in Threads \ {t} : thread[v].pc \in Registering =>
        /\ org'[thread[v].org].state = "unused"
        /\ user'[thread[v].user].role = "unused"
        /\ thread[v].pc = "commit" => \A u \in Users : LiveUser(u)' => user'[u].email # thread[v].email
  BY DEF IInv, ThreadsOK, HeldBy, LiveUser
<1> QED
  BY <1>1, <1>2, <1>3, <1>4, <1>5, <1>6, IdleOK, Assemble DEF Registering

-----------------------------------------------------------------------------
(* Time *)

\* The time since a change grows by no more than what a copy loses.
LEMMA TickTime ==
    ASSUME IInv, Tick
    PROVE  /\ unchanged' \in [Users -> 0 .. Forgotten]
           /\ \A u \in Users : unchanged[u] \in Nat /\ unchanged'[u] \in Nat /\ unchanged'[u] <= unchanged[u] + 1
<1>1. unchanged \in [Users -> 0 .. Forgotten] /\ Forgotten \in Nat
  BY DEF IInv, TypeOK, Forgotten
<1>2. unchanged' = [u \in Users |-> IF unchanged[u] = Forgotten THEN Forgotten ELSE unchanged[u] + 1]
  BY DEF Tick
<1> HIDE DEF Forgotten
<1>3. \A u \in Users : unchanged'[u] \in 0 .. Forgotten /\ unchanged[u] \in Nat /\ unchanged'[u] <= unchanged[u] + 1
  BY <1>1, <1>2
<1>4. unchanged' \in [Users -> 0 .. Forgotten]
  BY <1>2, <1>3
<1> QED
  BY <1>1, <1>3, <1>4

\* A token grows older.
LEMMA TickToken ==
    ASSUME IInv, Tick, NEW k \in AccessClaims, TokenOK(k), k.left # 1
    PROVE  [k EXCEPT !.left = @ - 1] \in AccessClaims /\ TokenOK([k EXCEPT !.left = @ - 1])'
<1>1. k.left \in 1 .. AccessTTL /\ k.user \in Users
  BY DEF AccessClaims
<1>2. PICK l : l = [k EXCEPT !.left = @ - 1]
  OBVIOUS
<1>3. k.left - 1 \in 1 .. AccessTTL
  BY <1>1
<1>4. l = [k EXCEPT !.left = k.left - 1]
  BY <1>2 DEF AccessClaims
<1>5. l \in AccessClaims /\ l.user = k.user /\ l.org = k.org /\ l.role = k.role /\ l.left = k.left - 1
  BY <1>3, <1>4 DEF AccessClaims
<1>6. UNCHANGED user
  BY DEF Tick, rows
<1>7. Describes(l)'
  BY <1>5, <1>6 DEF TokenOK, Describes
<1>8. unchanged[k.user] \in Nat /\ unchanged'[k.user] \in Nat /\ unchanged'[k.user] <= unchanged[k.user] + 1
  BY <1>1, TickTime
<1>9. (Matches(l) \/ unchanged[l.user] + l.left <= HandlerTime + AccessTTL)'
  <2>1. CASE Matches(k)
    BY <1>5, <1>6, <2>1 DEF Matches
  <2>2. CASE unchanged[k.user] + k.left <= HandlerTime + AccessTTL
    BY <1>1, <1>5, <1>8, <2>2
  <2> QED
    BY <2>1, <2>2 DEF TokenOK
<1> QED
  BY <1>2, <1>5, <1>7, <1>9 DEF TokenOK

\* A handler uses up its time.
LEMMA TickThread ==
    ASSUME IInv, Tick, NEW t \in Threads
    PROVE  /\ thread'[t] \in Thread /\ SessionOK(thread[t])' /\ HeldBy(thread[t])'
           /\ thread'[t].pc = thread[t].pc /\ thread'[t].user = thread[t].user
           /\ thread'[t].org = thread[t].org /\ thread'[t].email = thread[t].email
<1>1. thread[t] \in Thread /\ SessionOK(thread[t]) /\ HeldBy(thread[t])
  BY DEF IInv, TypeOK, ThreadsOK
<1>2. UNCHANGED <<org, user>>
  BY DEF Tick, rows
<1>3. PICK s : s = thread'[t]
  OBVIOUS
<1>4. CASE thread[t].pc = "idle"
  <2>1. s = thread[t]
    BY <1>3, <1>4 DEF Tick
  <2>2. SessionOK(s)' /\ HeldBy(s)'
    BY <1>4, <2>1 DEF SessionOK, HeldBy, Registering
  <2> QED
    BY <1>1, <1>3, <2>1, <2>2
<1>5. CASE thread[t].pc # "idle"
  <2>1. thread[t].left > 0 /\ thread[t].left \in 0 .. HandlerTime
    BY <1>1, <1>5 DEF Tick, Thread
  <2>2. s = [thread[t] EXCEPT !.left = thread[t].left - 1]
    BY <1>1, <1>3, <1>5 DEF Tick, Thread
  <2>3. thread[t].left - 1 \in 0 .. HandlerTime
    BY <2>1
  <2>4. /\ s \in Thread /\ s.pc = thread[t].pc /\ s.client = thread[t].client /\ s.user = thread[t].user
        /\ s.org = thread[t].org /\ s.role = thread[t].role /\ s.email = thread[t].email
        /\ s.left = thread[t].left - 1
    BY <1>1, <2>2, <2>3 DEF Thread
  <2>5. HeldBy(s)'
    BY <1>1, <1>2, <2>4 DEF HeldBy, LiveUser
  <2>6. Describes(thread[t]) => Describes(s)' /\ (Matches(thread[t]) => Matches(s)')
    BY <1>2, <2>4 DEF Describes, Matches
  <2>7. ASSUME Describes(thread[t])
        PROVE  /\ unchanged[thread[t].user] \in Nat /\ unchanged'[s.user] \in Nat
               /\ unchanged'[s.user] + s.left <= unchanged[thread[t].user] + thread[t].left
    <3>1. thread[t].user \in Users
      BY <2>7 DEF Describes
    <3>2. /\ unchanged[thread[t].user] \in Nat /\ unchanged'[s.user] \in Nat
          /\ unchanged'[s.user] <= unchanged[thread[t].user] + 1
      BY <2>4, <3>1, TickTime
    <3> QED
      BY <2>1, <2>4, <3>2
  <2>8. s.pc \in {"loginOrg", "issue"} =>
          (Describes(s) /\ (Matches(s) \/ unchanged[s.user] + s.left <= HandlerTime))'
    <3> SUFFICES ASSUME s.pc \in {"loginOrg", "issue"}
                 PROVE  (Describes(s) /\ (Matches(s) \/ unchanged[s.user] + s.left <= HandlerTime))'
      OBVIOUS
    <3>1. /\ Describes(thread[t])
          /\ Matches(thread[t]) \/ unchanged[thread[t].user] + thread[t].left <= HandlerTime
      BY <1>1, <2>4 DEF SessionOK
    <3> QED
      BY <2>1, <2>4, <2>6, <2>7, <3>1
  <2>9. s.pc = "act" => (Describes(s) /\ (Matches(s) \/ unchanged[s.user] + s.left < Forgotten))'
    <3> SUFFICES ASSUME s.pc = "act"
                 PROVE  (Describes(s) /\ (Matches(s) \/ unchanged[s.user] + s.left < Forgotten))'
      OBVIOUS
    <3>1. /\ Describes(thread[t])
          /\ Matches(thread[t]) \/ unchanged[thread[t].user] + thread[t].left < Forgotten
      BY <1>1, <2>4 DEF SessionOK
    <3>2. Forgotten \in Nat
      BY DEF Forgotten
    <3> QED
      BY <2>1, <2>4, <2>6, <2>7, <3>1, <3>2
  <2>10. SessionOK(s)'
    BY <1>1, <1>5, <2>4, <2>8, <2>9 DEF SessionOK
  <2> QED
    BY <1>3, <2>4, <2>5, <2>10
<1> QED
  BY <1>4, <1>5

\* Time passes.
LEMMA TickStep ==
    ASSUME IInv, Tick
    PROVE  IInv'
<1>1. UNCHANGED <<org, user, invited>>
  BY DEF Tick, rows
<1>2. RowsOK'
  BY <1>1 DEF IInv, RowsOK, OrganizationsHaveUsers, Members, LiveUser, LiveOrg
<1>3. cookie \in [Clients -> [access : AccessClaims \cup {None}, refresh : RefreshClaims \cup {None}]]
  BY DEF IInv, TypeOK
<1>4. \A c \in Clients : cookie'[c].access = Older(cookie[c].access) /\ cookie'[c].refresh = Older(cookie[c].refresh)
  BY DEF Tick
<1>5. ASSUME NEW c \in Clients
      PROVE  /\ cookie'[c].access \in AccessClaims \cup {None}
             /\ cookie'[c].access # None => TokenOK(cookie[c].access)'
  <2>1. CASE Older(cookie[c].access) = None
    BY <1>4, <2>1
  <2>2. CASE Older(cookie[c].access) # None
    <3>1. PICK k : k = cookie[c].access
      OBVIOUS
    <3>2. k # None /\ k.left # 1 /\ Older(k) = [k EXCEPT !.left = @ - 1]
      BY <2>2, <3>1 DEF Older
    <3>3. k \in AccessClaims /\ TokenOK(k)
      BY <1>3, <3>1, <3>2 DEF IInv, TokensOK
    <3>4. PICK l : l = [k EXCEPT !.left = @ - 1]
      OBVIOUS
    <3>5. l \in AccessClaims /\ TokenOK(l)'
      BY <3>2, <3>3, <3>4, TickToken
    <3>6. cookie'[c].access = l
      BY <1>4, <3>1, <3>2, <3>4
    <3> QED
      BY <3>5, <3>6
  <2> QED
    BY <2>1, <2>2
<1>6. ASSUME NEW c \in Clients PROVE cookie'[c].refresh \in RefreshClaims \cup {None}
  <2>1. PICK k : k = cookie[c].refresh /\ k \in RefreshClaims \cup {None}
    BY <1>3
  <2>2. CASE k = None \/ k.left = 1
    BY <1>4, <2>1, <2>2 DEF Older
  <2>3. CASE k # None /\ k.left # 1
    <3>1. k \in RefreshClaims /\ k.left - 1 \in 1 .. RefreshTTL
      BY <2>1, <2>3 DEF RefreshClaims
    <3>2. [k EXCEPT !.left = @ - 1] \in RefreshClaims
      BY <3>1 DEF RefreshClaims
    <3> QED
      BY <1>4, <2>1, <2>3, <3>2 DEF Older
  <2> QED
    BY <2>2, <2>3
<1>7. cookie' \in [Clients -> [access : AccessClaims \cup {None}, refresh : RefreshClaims \cup {None}]]
  <2>1. cookie' = [c \in Clients |-> [access |-> Older(cookie[c].access), refresh |-> Older(cookie[c].refresh)]]
    BY DEF Tick
  <2> QED
    BY <1>4, <1>5, <1>6, <2>1
<1>8. TokensOK'
  BY <1>5 DEF TokensOK
<1>9. \A t \in Threads :
        /\ thread'[t] \in Thread /\ SessionOK(thread[t])' /\ HeldBy(thread[t])'
        /\ thread'[t].pc = thread[t].pc /\ thread'[t].user = thread[t].user
        /\ thread'[t].org = thread[t].org /\ thread'[t].email = thread[t].email
  BY TickThread
<1>10. ThreadsOK' /\ Apart'
  BY <1>9 DEF IInv, ThreadsOK, Apart
<1>11. thread' \in [Threads -> Thread]
  <2>1. thread' = [t \in Threads |->
                     IF thread[t].pc = "idle" THEN thread[t] ELSE [thread[t] EXCEPT !.left = @ - 1]]
    BY DEF Tick
  <2>2. thread' = [t \in Threads |-> thread'[t]]
    BY <2>1
  <2> QED
    BY <1>9, <2>2
<1>12. TypeOK'
  BY <1>1, <1>7, <1>11, TickTime DEF IInv, TypeOK
<1> QED
  BY <1>2, <1>8, <1>10, <1>12 DEF IInv

-----------------------------------------------------------------------------
(* The invariant *)

\* At first there are the owners.
LEMMA InitIInv == Init => IInv
<1> SUFFICES ASSUME Init PROVE IInv
  OBVIOUS
<1>1. Forgotten \in Nat /\ Forgotten \in 0 .. Forgotten
  BY DEF Forgotten
<1>2. /\ NoUser("unused") \in User /\ NoUser("unused").role = "unused"
      /\ [NoUser("owner") EXCEPT !.active = TRUE] \in User
      /\ [NoUser("owner") EXCEPT !.active = TRUE].role = "owner"
      /\ [NoUser("owner") EXCEPT !.active = TRUE].org = None
  BY DEF NoUser, User
<1>3. /\ [state |-> "unused", inn |-> None] \in Organization
      /\ NoCookies \in [access : AccessClaims \cup {None}, refresh : RefreshClaims \cup {None}]
      /\ NoCookies.access = None
  BY DEF Organization, NoCookies
<1>4. TypeOK
  BY <1>1, <1>2, <1>3, IdleOK DEF Init, TypeOK
<1>5. \A u \in Users : user[u].role \in {"unused", "owner"} /\ user[u].org = None
  BY <1>2 DEF Init, NoUser
<1>6. \A o \in Orgs : ~LiveOrg(o) /\ Members(o) = {}
  BY <1>5 DEF Init, LiveOrg, Members
<1>7. RowsOK
  BY <1>5, <1>6 DEF Init, RowsOK, OrganizationsHaveUsers, LiveUser
<1>8. TokensOK
  BY <1>3 DEF Init, TokensOK
<1>9. ThreadsOK /\ Apart
  BY IdleOK DEF Init, ThreadsOK, Apart, Registering
<1> QED
  BY <1>4, <1>7, <1>8, <1>9 DEF IInv

\* The requests of an administrator or the owner keep the invariant.
LEMMA AdministerStep ==
    ASSUME IInv, NEW t \in Threads, Administer(t)
    PROVE  IInv'
<1>1. CASE \E u \in Users, role \in {"admin", "member"}, e \in Emails : CreateUser(t, u, e, role)
  BY <1>1, CreateUserStep
<1>2. ASSUME NEW u \in Users, NEW role \in {"admin", "member"}, NEW active \in BOOLEAN,
             AdminUpdateUser(t, u, role, active)
      PROVE  IInv'
  <2>1. /\ Acting(t) /\ thread[t].role = "admin" /\ UpdateUser(u, thread[t].org, role, active)
        /\ Finish(t) /\ UNCHANGED <<org, invited, cookie>>
    BY <1>2 DEF AdminUpdateUser, AdminOnly
  <2>2. PICK o \in Orgs : o = thread[t].org
    BY <2>1, ActThread
  <2> QED
    BY <2>1, <2>2, UpdateUserStep
<1>3. ASSUME NEW u \in Users, NEW role \in {"admin", "member"}, NEW active \in BOOLEAN, NEW o \in Orgs,
             OwnerUpdateOrganizationUser(t, o, u, role, active)
      PROVE  IInv'
  BY <1>3, UpdateUserStep DEF OwnerUpdateOrganizationUser
<1>4. ASSUME NEW e \in Invitees, CreateInvitation(t, e) PROVE IInv'
  <2>1. /\ Acting(t) /\ thread[t].role = "admin"
        /\ Finish(t) /\ UNCHANGED <<org, user, cookie, unchanged>>
    BY <1>4 DEF CreateInvitation, AdminOnly
  <2>2. thread[t].org \in Orgs
    BY <2>1, ActThread
  <2>3. invited' \subseteq Orgs \X Invitees /\ \A i \in invited' : i \in invited \/ LiveOrg(i[1])
    BY <1>4, <2>2 DEF CreateInvitation, IInv, TypeOK
  <2> QED
    BY <2>1, <2>3, InvitationStep
<1>5. ASSUME NEW i \in invited, DeleteInvitation(t, i) PROVE IInv'
  <2>1. Finish(t) /\ UNCHANGED <<org, user, cookie, unchanged>> /\ invited' \subseteq invited
    BY <1>5 DEF DeleteInvitation
  <2> QED
    BY <2>1, InvitationStep DEF IInv, TypeOK
<1>6. CASE \E o \in Orgs : DeleteOrganization(t, o)
  BY <1>6, DeleteOrganizationStep
<1>7. CASE \E o \in Orgs, n \in INNs \cup {None} : UpdateOrganization(t, o, n)
  BY <1>7, UpdateOrganizationStep
<1> QED
  BY <1>1, <1>2, <1>3, <1>4, <1>5, <1>6, <1>7 DEF Administer

\* Every step keeps the invariant.
LEMMA NextIInv == IInv /\ [Next]_vars => IInv'
<1> SUFFICES ASSUME IInv, [Next]_vars PROVE IInv'
  OBVIOUS
<1>1. CASE UNCHANGED vars
  <2>1. UNCHANGED <<org, user, invited, cookie, thread, unchanged>>
    BY <1>1 DEF vars
  <2>2. TypeOK'
    BY <2>1 DEF IInv, TypeOK
  <2>3. RowsOK'
    BY <2>1, RowsKept DEF rows
  <2>4. TokensOK'
    BY <2>1 DEF IInv, TokensOK, TokenOK, Describes, Matches
  <2>5. ThreadsOK' /\ Apart'
    BY <2>1 DEF IInv, ThreadsOK, SessionOK, HeldBy, Describes, Matches, LiveUser, Apart
  <2> QED
    BY <2>2, <2>3, <2>4, <2>5 DEF IInv
<1>2. ASSUME NEW t \in Threads, NEW c \in Clients, Request(t, c) PROVE IInv'
  BY <1>2, RegisterStep, LoginStep, RefreshTokensStep, AuthMiddlewareStep DEF Request
<1>3. ASSUME NEW t \in Threads,
             CreateOrganization(t) \/ CreateFirstUser(t) \/ Commit(t) \/ LoginOrg(t) \/ GenerateTokens(t)
      PROVE  IInv'
  BY <1>3, CreateOrganizationStep, CreateFirstUserStep, CommitStep, LoginOrgStep, GenerateTokensStep
<1>4. ASSUME NEW t \in Threads, Abort(t) PROVE IInv'
  BY <1>4, FinishStep DEF Abort
<1>5. ASSUME NEW t \in Threads, Administer(t) PROVE IInv'
  BY <1>5, AdministerStep
<1>6. ASSUME NEW c \in Clients, Logout(c) PROVE IInv'
  BY <1>6, LogoutStep DEF Logout
<1>7. CASE Tick
  BY <1>7, TickStep
<1> QED
  BY <1>1, <1>2, <1>3, <1>4, <1>5, <1>6, <1>7 DEF Next

\* Rows, tokens and handlers stay consistent.
THEOREM Inductive == Spec => []IInv
<1>1. Init => IInv
  BY InitIInv
<1>2. IInv /\ [Next]_vars => IInv'
  BY NextIInv
<1> QED
  BY <1>1, <1>2, PTL DEF Spec

\* Every variable of the accounts keeps its type; a row with the role admin or
\* member has an organization, and no other row has.
THEOREM TypeCorrect == Spec => []TypeOK
<1>1. IInv => TypeOK
  BY DEF IInv
<1> QED
  BY <1>1, Inductive, PTL

\* An organization and its users come and go together, and no two users have
\* one e-mail address, whatever requests run at a time.
THEOREM RegistrationIsWhole == Spec => []OrganizationsHaveUsers
<1>1. IInv => OrganizationsHaveUsers
  BY DEF IInv, RowsOK
<1> QED
  BY <1>1, Inductive, PTL

\* An access token that disagrees with the row of its user is no older than the
\* change, one request and one token's lifetime.
THEOREM StaleClaimsExpire == Spec => []ClaimsFollowRow
<1>1. IInv => ClaimsFollowRow
  <2> SUFFICES ASSUME IInv, NEW c \in Clients, cookie[c].access # None
               PROVE  LET token == cookie[c].access IN
                      \/ token.role = user[token.user].role /\ token.org = user[token.user].org
                      \/ unchanged[token.user] < HandlerTime + AccessTTL
    BY DEF ClaimsFollowRow
  <2>1. PICK k : k = cookie[c].access /\ k \in AccessClaims /\ TokenOK(k)
    BY DEF IInv, TypeOK, TokensOK
  <2>2. k.left \in Nat /\ k.left >= 1 /\ k.user \in Users
    BY <2>1 DEF AccessClaims
  <2>3. unchanged[k.user] \in Nat
    BY <2>2 DEF IInv, TypeOK, Forgotten
  <2>4. CASE Matches(k)
    BY <2>1, <2>4 DEF Matches
  <2>5. CASE unchanged[k.user] + k.left <= HandlerTime + AccessTTL
    BY <2>1, <2>2, <2>3, <2>5
  <2> QED
    BY <2>1, <2>4, <2>5 DEF TokenOK
<1> QED
  BY <1>1, Inductive, PTL

-----------------------------------------------------------------------------
(* Who may change a tenant *)

\* What a step changes of the rows of users and of the invitations.
ChangeAuthorized ==
    /\ \A u \in Users : LiveUser(u) /\ user'[u] # user[u] => \E t \in Threads : ActsOn(t, user[u].org)
    /\ \A o \in Orgs, e \in Invitees : (<<o, e>> \in invited) # (<<o, e>> \in invited') =>
          \E t \in Threads : ActsOn(t, o)

\* A handler that acts may act on its organization, the owner's on any.
LEMMA ActsOnOwn ==
    ASSUME IInv, NEW t \in Threads, Acting(t), Finish(t), NEW o,
           thread[t].role = "owner" \/ thread[t].org = o
    PROVE  ActsOn(t, o)
<1>1. thread'[t] # thread[t]
  <2>1. thread'[t] = IdleThread
    BY DEF Finish, Become, IInv, TypeOK
  <2> QED
    BY <2>1, IdleOK DEF Acting
<1>2. Authorized(t, o)
  BY ActThread DEF Authorized
<1> QED
  BY <1>1, <1>2 DEF ActsOn

\* Only the handlers that act change the rows of live users and invitations.
LEMMA NextAuthorized == IInv /\ [Next]_vars => ChangeAuthorized
<1> SUFFICES ASSUME IInv, [Next]_vars PROVE ChangeAuthorized
  OBVIOUS
<1>1. CASE UNCHANGED <<user, invited>>
  BY <1>1 DEF ChangeAuthorized
<1>2. ASSUME NEW t \in Threads, Commit(t) PROVE ChangeAuthorized
  <2>1. HeldBy(thread[t]) /\ thread[t].pc = "commit" /\ UNCHANGED invited
    BY <1>2 DEF IInv, ThreadsOK, Commit
  <2>2. user[thread[t].user].role = "unused"
    BY <2>1 DEF HeldBy, Registering
  <2>3. \A u \in Users : u # thread[t].user => user'[u] = user[u]
    BY <1>2 DEF Commit, IInv, TypeOK
  <2> QED
    BY <2>1, <2>2, <2>3 DEF ChangeAuthorized, LiveUser
<1>3. ASSUME NEW t \in Threads, NEW x \in Users, NEW e \in Emails, NEW role \in {"admin", "member"},
             CreateUser(t, x, e, role)
      PROVE  ChangeAuthorized
  <2>1. user[x].role = "unused" /\ UNCHANGED invited
    BY <1>3 DEF CreateUser, FreshUser
  <2>2. \A u \in Users : u # x => user'[u] = user[u]
    BY <1>3 DEF CreateUser, IInv, TypeOK
  <2> QED
    BY <2>1, <2>2 DEF ChangeAuthorized, LiveUser
<1>4. ASSUME NEW t \in Threads, NEW x \in Users, NEW role, NEW active, NEW o,
             Acting(t), Finish(t), thread[t].role = "owner" \/ thread[t].org = o,
             UpdateUser(x, o, role, active), UNCHANGED invited
      PROVE  ChangeAuthorized
  <2>1. ASSUME NEW u \in Users, user'[u] # user[u] PROVE u = x /\ user[x].org = o
    BY <1>4, <2>1 DEF UpdateUser, IInv, TypeOK
  <2>2. ActsOn(t, o)
    BY <1>4, ActsOnOwn
  <2> QED
    BY <1>4, <2>1, <2>2 DEF ChangeAuthorized
<1>5. ASSUME NEW t \in Threads, NEW o \in Orgs, DeleteOrganization(t, o) PROVE ChangeAuthorized
  <2>1. Acting(t) /\ (thread[t].role = "owner" \/ thread[t].org = o) /\ Finish(t)
    BY <1>5 DEF DeleteOrganization, OwnOrAny
  <2>2. ActsOn(t, o)
    BY <2>1, ActsOnOwn
  <2>3. ASSUME NEW u \in Users, user'[u] # user[u] PROVE user[u].org = o
    BY <1>5, <2>3 DEF DeleteOrganization, Members, rows
  <2>4. ASSUME NEW p \in Orgs, NEW e \in Invitees, (<<p, e>> \in invited) # (<<p, e>> \in invited')
        PROVE  p = o
    BY <1>5, <2>4 DEF DeleteOrganization, rows
  <2> QED
    BY <2>2, <2>3, <2>4 DEF ChangeAuthorized
<1>6. ASSUME NEW t \in Threads, NEW e \in Invitees, CreateInvitation(t, e) PROVE ChangeAuthorized
  <2>1. Acting(t) /\ Finish(t) /\ UNCHANGED user
    BY <1>6 DEF CreateInvitation, AdminOnly
  <2>2. ActsOn(t, thread[t].org)
    BY <2>1, ActsOnOwn
  <2>3. ASSUME NEW p \in Orgs, NEW f \in Invitees, (<<p, f>> \in invited) # (<<p, f>> \in invited')
        PROVE  p = thread[t].org
    BY <1>6, <2>3 DEF CreateInvitation
  <2> QED
    BY <2>1, <2>2, <2>3 DEF ChangeAuthorized
<1>7. ASSUME NEW t \in Threads, NEW i \in invited, DeleteInvitation(t, i) PROVE ChangeAuthorized
  <2>1. Acting(t) /\ Finish(t) /\ UNCHANGED user
    BY <1>7 DEF DeleteInvitation, AdminOnly
  <2>2. ActsOn(t, thread[t].org)
    BY <2>1, ActsOnOwn
  <2>3. ASSUME NEW p \in Orgs, NEW f \in Invitees, (<<p, f>> \in invited) # (<<p, f>> \in invited')
        PROVE  p = thread[t].org
    <3>1. i[1] = thread[t].org /\ <<p, f>> = i
      BY <1>7, <2>3 DEF DeleteInvitation
    <3> QED
      BY <3>1
  <2> QED
    BY <2>1, <2>2, <2>3 DEF ChangeAuthorized
<1>8. ASSUME NEW t \in Threads, Administer(t) PROVE ChangeAuthorized
  <2>1. ASSUME NEW u \in Users, NEW role \in {"admin", "member"}, NEW active \in BOOLEAN,
               AdminUpdateUser(t, u, role, active)
        PROVE  ChangeAuthorized
    BY <1>4, <2>1 DEF AdminUpdateUser, AdminOnly
  <2>2. ASSUME NEW u \in Users, NEW role \in {"admin", "member"}, NEW active \in BOOLEAN, NEW o \in Orgs,
               OwnerUpdateOrganizationUser(t, o, u, role, active)
        PROVE  ChangeAuthorized
    BY <1>4, <2>2 DEF OwnerUpdateOrganizationUser, OwnerOnly
  <2>3. ASSUME NEW o \in Orgs, NEW n, UpdateOrganization(t, o, n) PROVE ChangeAuthorized
    BY <1>1, <2>3 DEF UpdateOrganization
  <2> QED
    BY <1>3, <1>5, <1>6, <1>7, <1>8, <2>1, <2>2, <2>3 DEF Administer
<1>9. CASE \/ \E t \in Threads, c \in Clients : Request(t, c)
           \/ \E t \in Threads : \/ CreateOrganization(t) \/ CreateFirstUser(t)
                                 \/ LoginOrg(t) \/ GenerateTokens(t) \/ Abort(t)
           \/ \E c \in Clients : Logout(c)
           \/ Tick
           \/ UNCHANGED vars
  <2>1. UNCHANGED <<user, invited>>
    BY <1>9 DEF Request, Register, Login, RefreshTokens, AuthMiddleware, CreateOrganization, CreateFirstUser,
                LoginOrg, GenerateTokens, Abort, Logout, Tick, rows, vars
  <2> QED
    BY <1>1, <2>1
<1> QED
  BY <1>2, <1>8, <1>9 DEF Next

\* Whoever changes users or invitations of a tenant is its administrator or the
\* owner, or was until a token and two requests ago.
THEOREM AdminsChange == Spec => ChangedByAdmin
<1>1. IInv /\ [Next]_vars => [ChangeAuthorized]_vars
  BY NextAuthorized
<1> QED
  BY <1>1, Inductive, PTL DEF Spec, ChangedByAdmin, ChangeAuthorized
=============================================================================
