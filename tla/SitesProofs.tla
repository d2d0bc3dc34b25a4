----------------------------- MODULE SitesProofs -----------------------------
(***************************************************************************)
(* Proofs about Sites for any number of tenants, sites, documents and      *)
(* handlers, and for any times.                                            *)
(*                                                                         *)
(* Ancestors(s) is the least set that holds s and is closed under parent,  *)
(* so every fact about it is shown by giving one closed set.  A site is    *)
(* made under an id nothing refers to, so the ancestors of no other site   *)
(* change; a deleted site only cuts the tree.  The tenant of a parent is   *)
(* checked by the trigger and its existence, later, by the foreign key:    *)
(* in between the parent may be deleted, but it changes its tenant never.  *)
(* A trigger that writes an older time over a newer one is off by no more  *)
(* than its statement took, because no document is newer than the clock.   *)
(***************************************************************************)
EXTENDS Sites, TLAPS

USE BoundsAssumption, IdsAssumption

Statements == {"site", "document", "request"}

\* A handler that is going to insert a site.
Building(s) == s.pc = "site" \/ (s.pc = "begin" /\ s.then = "site")

ThreadOK(s) ==
    /\ s.pc = "begin" => s.then \in {"site", "document"}
    /\ s.pc \in {"begin", "site", "document"} => s.org \in Orgs
    /\ s.pc \in Statements => s.start <= now /\ now <= s.start + StatementTime
    /\ Building(s) => s.site \in Sites /\ owner[s.site] = "unused"
    /\ s.pc = "site" /\ s.parent # None => owner[s.parent] \in {s.org, "deleted"}
    /\ s.pc \in {"begin", "document", "request"} /\ ~Building(s) => s.doc \in Docs

\* A row keeps its tenant until it is deleted, and stays deleted.
Ages == \A x \in Sites : owner[x] # "unused" => owner'[x] \in {owner[x], "deleted"}

ThreadsOK == \A t \in Threads : ThreadOK(thread[t])

\* No two handlers insert the same site.
Apart ==
    \A t, u \in Threads : t # u /\ Building(thread[t]) /\ Building(thread[u]) =>
        thread[t].site # thread[u].site

\* Only what exists has a parent, and documents lie on sites that exist.
References ==
    /\ \A s \in Sites : parent[s] # None => Live(s)
    /\ \A d \in Docs : doc[d].site # None => Live(doc[d].site)

\* No document is newer than the clock.
NotNewer == \A d \in Docs : doc[d].at <= now

TablesOK ==
    /\ SiteForest
    /\ References
    /\ NotNewer
    /\ ActivityCoversSubtree

IInv ==
    /\ TypeOK
    /\ TablesOK
    /\ ThreadsOK
    /\ Apart

-----------------------------------------------------------------------------
(* The tree *)

\* The ancestors of a site lie in every closed set the site lies in.
LEMMA AncestorsLeast ==
    ASSUME NEW s, NEW S \in SUBSET Sites, s \in S,
           \A y \in S : parent[y] # None => parent[y] \in S
    PROVE  Ancestors(s) \subseteq S
BY DEF Ancestors

\* They are such a set themselves.
LEMMA AncestorsClosed ==
    ASSUME TypeOK, NEW s \in Sites
    PROVE  /\ Ancestors(s) \subseteq Sites /\ s \in Ancestors(s)
           /\ \A y \in Ancestors(s) : parent[y] # None => parent[y] \in Ancestors(s)
<1>1. Ancestors(s) \subseteq Sites /\ s \in Ancestors(s)
  BY DEF Ancestors
<1>2. ASSUME NEW y \in Ancestors(s), parent[y] # None PROVE parent[y] \in Ancestors(s)
  <2>1. y \in Sites /\ parent[y] \in Sites
    BY <1>1, <1>2 DEF TypeOK
  <2> SUFFICES ASSUME NEW S \in SUBSET Sites, s \in S, \A z \in S : parent[z] # None => parent[z] \in S
               PROVE  parent[y] \in S
    BY <2>1 DEF Ancestors
  <2>2. y \in S
    BY <1>2, AncestorsLeast
  <2> QED
    BY <1>2, <2>2
<1> QED
  BY <1>1, <1>2

\* No ancestors are added where no parent is given.
LEMMA AncestorsShrink ==
    ASSUME TypeOK, NEW s \in Sites, \A y \in Ancestors(s) : parent'[y] \in {parent[y], None}
    PROVE  Ancestors(s)' \subseteq Ancestors(s)
<1>1. PICK A : A = Ancestors(s)
  OBVIOUS
<1>2. A \subseteq Sites /\ s \in A /\ \A y \in A : parent[y] # None => parent[y] \in A
  BY <1>1, AncestorsClosed
<1>3. \A y \in A : parent'[y] # None => parent'[y] \in A
  BY <1>1, <1>2
<1>4. Ancestors(s)' \subseteq A
  BY <1>2, <1>3 DEF Ancestors
<1> QED
  BY <1>1, <1>4

\* A site that does not exist is nobody's ancestor but its own.
LEMMA UnusedAncestor ==
    ASSUME TypeOK, TablesOK, NEW s \in Sites, ~Live(s), NEW x \in Sites, x # s
    PROVE  s \notin Ancestors(x)
<1>1. PICK A : A = Sites \ {s}
  OBVIOUS
<1>2. \A y \in A : parent[y] # None => parent[y] \in A
  <2> SUFFICES ASSUME NEW y \in A, parent[y] # None PROVE parent[y] \in Sites /\ parent[y] # s
    BY <1>1
  <2>1. y \in Sites /\ Live(y) /\ parent[y] \in Sites
    BY <1>1 DEF TablesOK, References, TypeOK
  <2>2. Live(parent[y])
    BY <2>1 DEF TablesOK, SiteForest, Live
  <2> QED
    BY <2>1, <2>2
<1>3. Ancestors(x) \subseteq A
  BY <1>1, <1>2, AncestorsLeast
<1> QED
  BY <1>1, <1>3


-----------------------------------------------------------------------------
(* Steps of a handler *)

\* The parent of a site that is being inserted is of the tenant, or gone.
LEMMA ParentAges ==
    ASSUME Ages, NEW s \in Thread, ThreadOK(s), s.pc = "site", s.parent # None
    PROVE  owner'[s.parent] \in {s.org, "deleted"}
<1>1. s.parent \in Sites /\ s.org \in Orgs /\ owner[s.parent] \in {s.org, "deleted"}
  BY DEF ThreadOK, Thread
<1>2. owner[s.parent] # "unused"
  BY <1>1
<1> QED
  BY <1>1, <1>2 DEF Ages

\* The handler t goes to s.  What it makes was its own already or is Fresh,
\* and what the others are going to make stays unused.
LEMMA Assemble ==
    ASSUME IInv, NEW t \in Threads, NEW s \in Thread,
           thread' = [thread EXCEPT ![t] = s],
           now' = now, Ages, TypeOK', TablesOK', ThreadOK(s)',
           Building(s) => \/ Building(thread[t]) /\ s.site = thread[t].site
                          \/ Fresh(s.site),
           \A u \in Threads \ {t} : Building(thread[u]) => owner'[thread[u].site] = "unused"
    PROVE  IInv'
<1>1. thread'[t] = s /\ \A u \in Threads \ {t} : thread'[u] = thread[u]
  BY DEF IInv, TypeOK
<1>2. ThreadsOK'
  <2> SUFFICES ASSUME NEW u \in Threads PROVE ThreadOK(thread[u])'
    BY DEF ThreadsOK
  <2>1. CASE u = t
    BY <1>1, <2>1 DEF ThreadOK, Building
  <2>2. CASE u # t
    <3>1. ThreadOK(thread[u]) /\ thread'[u] = thread[u]
      BY <1>1, <2>2 DEF IInv, ThreadsOK
    <3>2. Building(thread[u]) => owner'[thread[u].site] = "unused"
      BY <2>2
    <3>3. thread[u] \in Thread
      BY DEF IInv, TypeOK
    <3>4. thread[u].pc = "site" /\ thread[u].parent # None =>
              owner'[thread[u].parent] \in {thread[u].org, "deleted"}
      BY <3>1, <3>3, ParentAges
    <3> QED
      BY <3>1, <3>2, <3>4 DEF ThreadOK, Building
  <2> QED
    BY <2>1, <2>2
<1>3. \A u \in Threads \ {t} : Building(s) /\ Building(thread[u]) => s.site # thread[u].site
  <2> SUFFICES ASSUME NEW u \in Threads \ {t}, Building(s), Building(thread[u])
               PROVE  s.site # thread[u].site
    OBVIOUS
  <2>1. CASE Building(thread[t]) /\ s.site = thread[t].site
    BY <2>1 DEF IInv, Apart
  <2>2. CASE Fresh(s.site)
    BY <2>2 DEF Fresh, Building
  <2> QED
    BY <2>1, <2>2
<1>4. Apart'
  <2> SUFFICES ASSUME NEW u \in Threads, NEW w \in Threads, u # w,
                      Building(thread[u])', Building(thread[w])'
               PROVE  thread'[u].site # thread'[w].site
    BY DEF Apart
  <2>1. CASE u = t
    BY <1>1, <1>3, <2>1 DEF Building
  <2>2. CASE w = t
    BY <1>1, <1>3, <2>2 DEF Building
  <2>3. CASE u # t /\ w # t
    BY <1>1, <2>3 DEF IInv, Apart, Building
  <2> QED
    BY <2>1, <2>2, <2>3
<1> QED
  BY <1>2, <1>4 DEF IInv

\* A handler that only reads.
LEMMA ReadStep ==
    ASSUME IInv, NEW t \in Threads, NEW s \in Thread,
           thread' = [thread EXCEPT ![t] = s],
           UNCHANGED <<now, owner, parent, activity, doc>>, changes' \in 0..MaxChanges,
           ThreadOK(s),
           Building(s) => \/ Building(thread[t]) /\ s.site = thread[t].site
                          \/ Fresh(s.site)
    PROVE  IInv'
<1>1. TypeOK'
  BY DEF IInv, TypeOK
<1>2. TablesOK'
  BY DEF IInv, TablesOK, SiteForest, References, NotNewer, ActivityCoversSubtree,
         Live, Subtree, Ancestors
<1>3. ThreadOK(s)'
  BY DEF ThreadOK
<1>4. \A u \in Threads \ {t} : Building(thread[u]) => owner'[thread[u].site] = "unused"
  BY DEF IInv, ThreadsOK, ThreadOK
<1>5. now' = now /\ Ages
  BY DEF Ages
<1> QED
  BY <1>1, <1>2, <1>3, <1>4, <1>5, Assemble

\* The state a handler that ends goes to.
LEMMA IdleOK == IdleThread \in Thread /\ ThreadOK(IdleThread) /\ ThreadOK(IdleThread)' /\ ~Building(IdleThread)
BY DEF IdleThread, Thread, ThreadOK, Building, Statements

\* The handler of a new site takes a Fresh id.
LEMMA CreateConstructionSiteStep ==
    ASSUME IInv, NEW t \in Threads, NEW o \in Orgs, NEW s \in Sites, NEW p \in Sites \cup {None},
           CreateConstructionSite(t, o, s, p)
    PROVE  IInv'
<1>1. PICK r : r = [IdleThread EXCEPT !.pc = "begin", !.then = "site",
                                      !.org = o, !.site = s, !.parent = p]
  OBVIOUS
<1>2. r \in Thread /\ r.pc = "begin" /\ r.then = "site" /\ r.org = o /\ r.site = s
  BY <1>1, IdleOK DEF Thread, IdleThread
<1>3. ThreadOK(r) /\ Fresh(r.site)
  BY <1>2 DEF ThreadOK, Building, Statements, CreateConstructionSite, Fresh
<1>4. thread' = [thread EXCEPT ![t] = r] /\ UNCHANGED <<now, owner, parent, activity, doc>>
  BY <1>1 DEF CreateConstructionSite
<1>5. changes' \in 0..MaxChanges
  BY DEF CreateConstructionSite, IInv, TypeOK
<1> QED
  BY <1>2, <1>3, <1>4, <1>5, ReadStep

\* The handler of a new document.
LEMMA CreateDocumentStep ==
    ASSUME IInv, NEW t \in Threads, NEW o \in Orgs, NEW d \in Docs, NEW s \in Sites \cup {None},
           CreateDocument(t, o, d, s)
    PROVE  IInv'
<1>1. PICK r : r = [IdleThread EXCEPT !.pc = "begin", !.then = "document",
                                      !.org = o, !.site = s, !.doc = d]
  OBVIOUS
<1>2. r \in Thread /\ r.pc = "begin" /\ r.then = "document" /\ r.org = o /\ r.doc = d
  BY <1>1, IdleOK DEF Thread, IdleThread
<1>3. ThreadOK(r) /\ ~Building(r)
  BY <1>2 DEF ThreadOK, Building, Statements
<1>4. thread' = [thread EXCEPT ![t] = r] /\ UNCHANGED <<now, owner, parent, activity, doc>>
  BY <1>1 DEF CreateDocument
<1>5. changes' \in 0..MaxChanges
  BY DEF CreateDocument, IInv, TypeOK
<1> QED
  BY <1>2, <1>3, <1>4, <1>5, ReadStep

\* A statement on a request begins.
LEMMA BeginRequestStep ==
    ASSUME IInv, NEW t \in Threads, NEW d \in Docs, BeginRequest(t, d)
    PROVE  IInv'
<1>0. now \in 0..MaxTime
  BY DEF IInv, TypeOK
<1>1. PICK r : r = [IdleThread EXCEPT !.pc = "request", !.doc = d, !.start = now]
  OBVIOUS
<1>2. r \in Thread /\ r.pc = "request" /\ r.doc = d /\ r.start = now
  BY <1>0, <1>1, IdleOK DEF Thread, IdleThread
<1>3. ThreadOK(r) /\ ~Building(r)
  BY <1>0, <1>2 DEF ThreadOK, Building, Statements
<1>4. thread' = [thread EXCEPT ![t] = r] /\ UNCHANGED <<now, owner, parent, activity, doc>>
  BY <1>1 DEF BeginRequest
<1>5. changes' \in 0..MaxChanges
  BY DEF BeginRequest, IInv, TypeOK
<1> QED
  BY <1>2, <1>3, <1>4, <1>5, ReadStep

\* The INSERT behind the check of a handler begins, or its trigger refuses it.
LEMMA BeginStep ==
    ASSUME IInv, NEW t \in Threads, Begin(t)
    PROVE  IInv'
<1>0. thread[t] \in Thread /\ now \in 0..MaxTime /\ ThreadOK(thread[t]) /\ thread[t].pc = "begin"
  BY DEF IInv, TypeOK, ThreadsOK, Begin
<1>1. UNCHANGED <<now, owner, parent, activity, doc>> /\ changes' \in 0..MaxChanges
  BY DEF Begin, IInv, TypeOK
<1>2. PICK ok \in BOOLEAN :
          ok <=> \/ /\ thread[t].then = "site"
                    /\ check_site_org_isolation(thread[t].site, thread[t].parent, thread[t].org)
                 \/ thread[t].then = "document" /\ InOrg(thread[t].site, thread[t].org)
  OBVIOUS
<1>3. CASE ok
  <2>1. PICK r : r = [thread[t] EXCEPT !.pc = thread[t].then, !.start = now]
    OBVIOUS
  <2>2. thread[t].then \in {"site", "document"}
    BY <1>0 DEF ThreadOK
  <2>3. /\ r \in Thread /\ r.pc = thread[t].then /\ r.start = now /\ r.parent = thread[t].parent
        /\ r.org = thread[t].org /\ r.site = thread[t].site /\ r.doc = thread[t].doc
    BY <1>0, <2>1, <2>2 DEF Thread
  <2>4. Building(r) <=> Building(thread[t])
    BY <1>0, <2>2, <2>3 DEF Building
  <2>5. r.pc = "site" /\ r.parent # None => owner[r.parent] \in {r.org, "deleted"}
    BY <1>2, <1>3, <2>3 DEF check_site_org_isolation, InOrg
  <2>6. ThreadOK(r)
    BY <1>0, <2>2, <2>3, <2>4, <2>5 DEF ThreadOK, Statements
  <2>7. thread' = [thread EXCEPT ![t] = r]
    BY <1>2, <1>3, <2>1 DEF Begin, IInv, TypeOK
  <2> QED
    BY <1>1, <2>3, <2>4, <2>6, <2>7, ReadStep
<1>4. CASE ~ok
  <2>1. thread' = [thread EXCEPT ![t] = IdleThread]
    BY <1>2, <1>4 DEF Begin, Finish
  <2> QED
    BY <1>1, <2>1, IdleOK, ReadStep
<1> QED
  BY <1>3, <1>4

-----------------------------------------------------------------------------
(* Statements *)

\* A site put in under an unused id: no other site gets an ancestor, and no
\* document lies below the new one.
LEMMA NewSite ==
    ASSUME IInv, NEW s \in Sites, NEW p \in Sites \cup {None}, NEW o \in Orgs, NEW at \in 0..MaxTime,
           owner[s] = "unused", InOrg(p, o),
           owner' = [owner EXCEPT ![s] = o], parent' = [parent EXCEPT ![s] = p],
           activity' = [activity EXCEPT ![s] = at], UNCHANGED <<now, doc>>
    PROVE  TablesOK'
<1>0. TypeOK /\ TablesOK
  BY DEF IInv
<1>1. ~Live(s) /\ Live(s)' /\ owner'[s] = o /\ parent'[s] = p
  BY <1>0 DEF Live, TypeOK
<1>2. \A x \in Sites \ {s} : /\ owner'[x] = owner[x] /\ parent'[x] = parent[x]
                             /\ activity'[x] = activity[x] /\ (Live(x)' <=> Live(x))
  BY <1>0 DEF Live, TypeOK
<1>3. \A d \in Docs : owner'[d] = owner[d] /\ (Live(d)' <=> Live(d)) /\ doc[d].site # s
                      /\ doc[d].site \in Sites \cup {None}
  BY <1>0, <1>1 DEF Live, TypeOK, TablesOK, References, Document
<1>4. ASSUME NEW x \in Sites, x # s PROVE Ancestors(x)' \subseteq Ancestors(x)
  <2>1. s \notin Ancestors(x) /\ Ancestors(x) \subseteq Sites
    BY <1>0, <1>1, <1>4, UnusedAncestor, AncestorsClosed
  <2>2. \A y \in Ancestors(x) : parent'[y] \in {parent[y], None}
    BY <1>2, <2>1
  <2> QED
    BY <1>0, <2>2, AncestorsShrink
<1>5. SiteForest'
  <2> SUFFICES ASSUME NEW x \in Sites, Live(x)', parent'[x] # None
               PROVE  owner'[parent'[x]] = owner'[x] /\ x \notin Ancestors(parent[x])'
    BY DEF SiteForest
  <2>1. CASE x = s
    <3>0. p \in Sites /\ p # s /\ owner[p] = o
      BY <1>1, <2>1 DEF InOrg
    <3>1. p \in Sites /\ p # s /\ owner[p] = o /\ s \notin Ancestors(p)
      BY <1>0, <1>1, <3>0, UnusedAncestor
    <3>2. s \notin Ancestors(p)'
      BY <1>4, <3>1
    <3> QED
      BY <1>1, <1>2, <2>1, <3>1, <3>2 DEF Ancestors
  <2>2. CASE x # s
    <3>1. /\ Live(x) /\ parent'[x] = parent[x] /\ parent[x] \in Sites
          /\ owner[parent[x]] = owner[x] /\ x \notin Ancestors(parent[x])
      BY <1>0, <1>2, <2>2 DEF TablesOK, SiteForest, TypeOK
    <3>2. PICK q \in Sites : q = parent[x]
      BY <3>1
    <3>3. q # s
      BY <1>1, <3>1, <3>2 DEF Live
    <3>4. x \notin Ancestors(q)'
      BY <1>4, <3>1, <3>2, <3>3
    <3> QED
      BY <1>2, <2>2, <3>1, <3>2, <3>3, <3>4 DEF Ancestors
  <2> QED
    BY <2>1, <2>2
<1>6. References'
  <2>1. \A x \in Sites : parent'[x] # None => Live(x)'
    BY <1>0, <1>1, <1>2 DEF TablesOK, References
  <2>2. \A d \in Docs : doc'[d].site # None => Live(doc[d].site)'
    <3> SUFFICES ASSUME NEW d \in Docs, doc[d].site # None PROVE Live(doc[d].site)'
      OBVIOUS
    <3>1. PICK x \in Sites \ {s} : x = doc[d].site
      BY <1>3
    <3>2. Live(x)
      BY <1>0, <3>1 DEF TablesOK, References
    <3>3. owner'[x] \in Orgs /\ doc'[d].site = x
      BY <1>2, <3>1, <3>2 DEF Live
    <3> QED
      BY <3>3 DEF Live
  <2> QED
    BY <2>1, <2>2 DEF References
<1>7. NotNewer'
  BY <1>0 DEF TablesOK, NotNewer
<1>8. ActivityCoversSubtree'
  <2> SUFFICES ASSUME NEW r \in Sites, Live(r)', NEW d \in Docs, Live(d)', doc'[d].site \in Subtree(r)'
               PROVE  doc'[d].at <= activity'[r] + StatementTime
    BY DEF ActivityCoversSubtree
  <2>1. PICK x : x = doc[d].site
    OBVIOUS
  <2>2. x \in Sites /\ x # s /\ Live(x)' /\ r \in Ancestors(x)'
    BY <1>3, <2>1 DEF Subtree
  <2>3. r \in Ancestors(x) /\ Live(x) /\ r # s
    BY <1>0, <1>1, <1>2, <1>4, <2>2, UnusedAncestor
  <2>4. Live(r) /\ Live(d) /\ doc[d].site \in Subtree(r)
    BY <1>2, <1>3, <2>1, <2>2, <2>3 DEF Subtree
  <2>5. doc[d].at <= activity[r] + StatementTime
    BY <1>0, <2>4 DEF TablesOK, ActivityCoversSubtree
  <2> QED
    BY <1>2, <2>3, <2>5
<1> QED
  BY <1>5, <1>6, <1>7, <1>8 DEF TablesOK

\* The document d is written on a site by a statement that began at start:
\* every site above shows start, and what it showed of the other documents is
\* older than the clock, so start lags by no more than the statement took.
LEMMA Propagate ==
    ASSUME IInv, TypeOK', NEW d \in Docs, NEW s \in Sites \cup {None}, NEW start \in 0..MaxTime,
           start <= now, now <= start + StatementTime, now' = now, parent' = parent,
           s # None => Live(s),
           \A x \in Sites : owner'[x] = owner[x],
           \A e \in Docs \ {d} : doc'[e] = doc[e] /\ owner'[e] = owner[e],
           doc'[d].site = s, doc'[d].at = start,
           propagate_site_activity(s, start)
    PROVE  TablesOK'
<1>0. TypeOK /\ TablesOK
  BY DEF IInv
<1>1. \A x \in Sites : (Live(x)' <=> Live(x)) /\ Ancestors(x)' = Ancestors(x)
  BY DEF Live, Ancestors
<1>2. SiteForest'
  <2> SUFFICES ASSUME NEW x \in Sites, Live(x)', parent'[x] # None
               PROVE  owner'[parent'[x]] = owner'[x] /\ x \notin Ancestors(parent[x])'
    BY DEF SiteForest
  <2>1. PICK q \in Sites : q = parent[x]
    BY <1>0 DEF TypeOK
  <2>2. owner[q] = owner[x] /\ x \notin Ancestors(q)
    BY <1>0, <1>1, <2>1 DEF TablesOK, SiteForest
  <2> QED
    BY <1>1, <2>1, <2>2 DEF Ancestors
<1>3. References'
  <2>1. \A x \in Sites : parent'[x] # None => Live(x)'
    BY <1>0, <1>1 DEF TablesOK, References
  <2>2. ASSUME NEW e \in Docs, doc'[e].site # None PROVE Live(doc[e].site)'
    <3>1. PICK x \in Sites : x = doc'[e].site
      BY <2>2 DEF TypeOK, Document
    <3>2. Live(x)
      BY <1>0, <3>1 DEF TablesOK, References
    <3>3. owner'[x] \in Orgs
      BY <3>1, <3>2 DEF Live
    <3> QED
      BY <3>1, <3>3 DEF Live
  <2> QED
    BY <2>1, <2>2 DEF References
<1>4. NotNewer'
  BY <1>0 DEF TablesOK, NotNewer
<1>5. ActivityCoversSubtree'
  <2> SUFFICES ASSUME NEW r \in Sites, Live(r)', NEW e \in Docs, Live(e)', doc'[e].site \in Subtree(r)'
               PROVE  doc'[e].at <= activity'[r] + StatementTime
    BY DEF ActivityCoversSubtree
  <2>0. /\ activity[r] \in Nat /\ activity'[r] \in Nat /\ now \in Nat /\ start \in Nat
        /\ doc[e].at \in Nat /\ doc'[e].at \in Nat
    BY <1>0 DEF TypeOK, Document
  <2>1. PICK x : x = doc'[e].site
    OBVIOUS
  <2>2. x \in Sites /\ Live(x) /\ r \in Ancestors(x)
    BY <1>1, <2>1 DEF Subtree
  <2>3. activity'[r] = start \/ activity'[r] = activity[r]
    BY DEF propagate_site_activity
  <2>4. CASE e = d
    <3>1. activity'[r] = start /\ doc'[e].at = start
      BY <2>1, <2>2, <2>4 DEF propagate_site_activity
    <3> QED
      BY <2>0, <3>1
  <2>5. CASE e # d
    <3>1. doc'[e] = doc[e] /\ Live(e)
      BY <2>5 DEF Live
    <3>2. Live(r) /\ doc[e].site \in Subtree(r)
      BY <1>1, <2>1, <2>2, <3>1 DEF Subtree
    <3>3. doc[e].at <= activity[r] + StatementTime /\ doc[e].at <= now
      BY <1>0, <3>1, <3>2 DEF TablesOK, ActivityCoversSubtree, NotNewer
    <3> QED
      BY <2>0, <2>3, <3>1, <3>3
  <2> QED
    BY <2>4, <2>5
<1> QED
  BY <1>2, <1>3, <1>4, <1>5 DEF TablesOK

\* A statement ends its handler; it uses up no id that another handler holds.
LEMMA FinishStep ==
    ASSUME IInv, NEW t \in Threads, Finish(t), now' = now, Ages, TypeOK', TablesOK',
           \A u \in Threads \ {t} : Building(thread[u]) => owner'[thread[u].site] = "unused"
    PROVE  IInv'
<1>1. thread' = [thread EXCEPT ![t] = IdleThread]
  BY DEF Finish
<1> QED
  BY <1>1, IdleOK, Assemble

\* Tables left as they are stay right.
LEMMA TablesKept ==
    ASSUME TablesOK, UNCHANGED <<now, owner, parent, activity, doc>>
    PROVE  TablesOK'
BY DEF TablesOK, SiteForest, References, NotNewer, ActivityCoversSubtree, Live, Subtree, Ancestors

\* The INSERT of a site, or its refusal by the foreign key.
LEMMA InsertSiteStep ==
    ASSUME IInv, NEW t \in Threads, InsertSite(t)
    PROVE  IInv'
<1>0. TypeOK /\ TablesOK /\ ThreadOK(thread[t]) /\ thread[t] \in Thread /\ thread[t].pc = "site"
  BY DEF IInv, ThreadsOK, InsertSite, TypeOK
<1>1. PICK s, p, o, at : s = thread[t].site /\ p = thread[t].parent /\ o = thread[t].org
                         /\ at = thread[t].start
  OBVIOUS
<1>2. /\ s \in Sites /\ p \in Sites \cup {None} /\ o \in Orgs /\ at \in 0..MaxTime
      /\ owner[s] = "unused" /\ Building(thread[t])
  BY <1>0, <1>1 DEF ThreadOK, Building, Thread
<1>3. UNCHANGED <<now, doc, changes>> /\ Finish(t)
  BY DEF InsertSite
<1>4. thread' \in [Threads -> Thread]
  BY <1>0, <1>3, IdleOK DEF Finish, TypeOK
<1>5. CASE Referenced(p)
  <2>1. /\ owner' = [owner EXCEPT ![s] = o] /\ parent' = [parent EXCEPT ![s] = p]
        /\ activity' = [activity EXCEPT ![s] = at]
    BY <1>1, <1>5 DEF InsertSite
  <2>2. TypeOK'
    BY <1>0, <1>2, <1>3, <1>4, <2>1 DEF TypeOK
  <2>0. InOrg(p, o)
    BY <1>0, <1>1, <1>2, <1>5 DEF ThreadOK, Referenced, Live, InOrg
  <2>3. TablesOK'
    BY <1>2, <1>3, <2>0, <2>1, NewSite
  <2>5. Ages
    BY <1>0, <1>2, <2>1 DEF Ages, TypeOK
  <2>4. \A u \in Threads \ {t} : Building(thread[u]) => owner'[thread[u].site] = "unused"
    <3> SUFFICES ASSUME NEW u \in Threads \ {t}, Building(thread[u])
                 PROVE  owner'[thread[u].site] = "unused"
      OBVIOUS
    <3>1. thread[u].site # s
      BY <1>1, <1>2 DEF IInv, Apart
    <3>2. owner[thread[u].site] = "unused" /\ thread[u].site \in Sites
      BY DEF IInv, ThreadsOK, ThreadOK
    <3> QED
      BY <1>0, <2>1, <3>1, <3>2 DEF TypeOK
  <2> QED
    BY <1>3, <2>2, <2>3, <2>4, <2>5, FinishStep
<1>6. CASE ~Referenced(p)
  <2>1. UNCHANGED <<owner, parent, activity>>
    BY <1>1, <1>6 DEF InsertSite
  <2>2. TypeOK' /\ TablesOK'
    <3>1. TypeOK'
      BY <1>0, <1>3, <1>4, <2>1 DEF TypeOK
    <3>2. UNCHANGED <<now, owner, parent, activity, doc>>
      BY <1>3, <2>1
    <3> QED
      BY <1>0, <3>1, <3>2, TablesKept
  <2>3. \A u \in Threads \ {t} : Building(thread[u]) => owner'[thread[u].site] = "unused"
    BY <2>1 DEF IInv, ThreadsOK, ThreadOK
  <2>4. Ages
    BY <2>1 DEF Ages
  <2> QED
    BY <1>3, <2>2, <2>3, <2>4, FinishStep
<1> QED
  BY <1>5, <1>6

\* What the trigger writes is a time of every site.
LEMMA PropagateType ==
    ASSUME TypeOK, NEW s \in Sites \cup {None}, NEW start \in 0..MaxTime, propagate_site_activity(s, start)
    PROVE  activity' \in [Sites -> 0..MaxTime]
BY DEF TypeOK, propagate_site_activity

\* No handler holds the id of a site that a statement on a document changes.
LEMMA BuildingKept ==
    ASSUME IInv, NEW t \in Threads, \A x \in Sites : owner'[x] = owner[x]
    PROVE  /\ \A u \in Threads \ {t} : Building(thread[u]) => owner'[thread[u].site] = "unused"
           /\ Ages
BY DEF IInv, ThreadsOK, ThreadOK, Ages

\* The INSERT of a document, or its refusal by the foreign key.
LEMMA InsertDocumentStep ==
    ASSUME IInv, NEW t \in Threads, InsertDocument(t)
    PROVE  IInv'
<1>0. TypeOK /\ TablesOK /\ ThreadOK(thread[t]) /\ thread[t] \in Thread /\ thread[t].pc = "document"
  BY DEF IInv, ThreadsOK, InsertDocument, TypeOK
<1>1. PICK s, d, o, start : s = thread[t].site /\ d = thread[t].doc /\ o = thread[t].org
                            /\ start = thread[t].start
  OBVIOUS
<1>2. /\ s \in Sites \cup {None} /\ d \in Docs /\ o \in Orgs /\ start \in 0..MaxTime
      /\ start <= now /\ now <= start + StatementTime
  BY <1>0, <1>1 DEF ThreadOK, Building, Thread, Statements
<1>3. UNCHANGED <<now, parent, changes>> /\ Finish(t)
  BY DEF InsertDocument
<1>4. thread' \in [Threads -> Thread]
  BY <1>0, <1>3, IdleOK DEF Finish, TypeOK
<1>5. CASE Referenced(s)
  <2>1. /\ owner' = [owner EXCEPT ![d] = o]
        /\ doc' = [doc EXCEPT ![d] = [NewDocument EXCEPT !.site = s, !.at = start]]
        /\ propagate_site_activity(s, start)
    BY <1>1, <1>5 DEF InsertDocument
  <2>2. PICK r : r = [NewDocument EXCEPT !.site = s, !.at = start]
    OBVIOUS
  <2>3. r \in Document /\ r.site = s /\ r.at = start
    BY <1>2, <2>2 DEF NewDocument, Document
  <2>4. /\ doc'[d].site = s /\ doc'[d].at = start /\ doc' \in [Docs -> Document]
        /\ \A e \in Docs \ {d} : doc'[e] = doc[e] /\ owner'[e] = owner[e]
        /\ \A x \in Sites : owner'[x] = owner[x]
    BY <1>0, <1>2, <2>1, <2>2, <2>3 DEF TypeOK
  <2>5. TypeOK'
    <3>1. activity' \in [Sites -> 0..MaxTime]
      BY <1>0, <1>2, <2>1, PropagateType
    <3> QED
      BY <1>0, <1>2, <1>3, <1>4, <2>1, <2>4, <3>1 DEF TypeOK
  <2>6. s # None => Live(s)
    BY <1>5 DEF Referenced
  <2>7. TablesOK'
    BY <1>2, <1>3, <2>1, <2>4, <2>5, <2>6, Propagate
  <2>8. /\ \A u \in Threads \ {t} : Building(thread[u]) => owner'[thread[u].site] = "unused"
        /\ Ages
    BY <2>4, BuildingKept
  <2> QED
    BY <1>3, <2>5, <2>7, <2>8, FinishStep
<1>6. CASE ~Referenced(s)
  <2>1. UNCHANGED <<owner, doc, activity>>
    BY <1>1, <1>6 DEF InsertDocument
  <2>2. TypeOK' /\ UNCHANGED <<now, owner, parent, activity, doc>>
    BY <1>0, <1>3, <1>4, <2>1 DEF TypeOK
  <2>3. TablesOK'
    BY <1>0, <2>2, TablesKept
  <2>4. /\ \A u \in Threads \ {t} : Building(thread[u]) => owner'[thread[u].site] = "unused"
        /\ Ages
    BY <2>1, BuildingKept
  <2> QED
    BY <1>3, <2>2, <2>3, <2>4, FinishStep
<1> QED
  BY <1>5, <1>6

\* A request written, unless its document is gone.
LEMMA WriteRequestStep ==
    ASSUME IInv, NEW t \in Threads, WriteRequest(t)
    PROVE  IInv'
<1>0. TypeOK /\ TablesOK /\ ThreadOK(thread[t]) /\ thread[t] \in Thread /\ thread[t].pc = "request"
  BY DEF IInv, ThreadsOK, WriteRequest, TypeOK
<1>1. PICK d, start : d = thread[t].doc /\ start = thread[t].start
  OBVIOUS
<1>2. /\ d \in Docs /\ start \in 0..MaxTime
      /\ start <= now /\ now <= start + StatementTime
  BY <1>0, <1>1 DEF ThreadOK, Building, Thread, Statements
<1>3. UNCHANGED <<now, owner, parent, changes>> /\ Finish(t)
  BY DEF WriteRequest
<1>4. thread' \in [Threads -> Thread]
  BY <1>0, <1>3, IdleOK DEF Finish, TypeOK
<1>7. /\ \A u \in Threads \ {t} : Building(thread[u]) => owner'[thread[u].site] = "unused"
      /\ Ages
  BY <1>3, BuildingKept
<1>5. CASE Live(d)
  <2>0. PICK s : s = doc[d].site
    OBVIOUS
  <2>1. /\ doc' = [doc EXCEPT ![d].at = start]
        /\ propagate_site_activity(s, start)
    BY <1>1, <1>5, <2>0 DEF WriteRequest
  <2>2. doc[d] \in Document /\ s \in Sites \cup {None} /\ (s # None => Live(s))
    BY <1>0, <1>2, <2>0 DEF TypeOK, Document, TablesOK, References
  <2>3. PICK r : r = [doc[d] EXCEPT !.at = start]
    OBVIOUS
  <2>4. r \in Document /\ r.site = s /\ r.at = start
    BY <1>2, <2>0, <2>2, <2>3 DEF Document
  <2>5. doc' = [doc EXCEPT ![d] = r]
    BY <1>0, <1>2, <2>1, <2>3 DEF TypeOK
  <2>6. /\ doc'[d].site = s /\ doc'[d].at = start /\ doc' \in [Docs -> Document]
        /\ \A e \in Docs \ {d} : doc'[e] = doc[e] /\ owner'[e] = owner[e]
        /\ \A x \in Sites : owner'[x] = owner[x]
    BY <1>0, <1>2, <1>3, <2>4, <2>5 DEF TypeOK
  <2>7. TypeOK'
    <3>1. activity' \in [Sites -> 0..MaxTime]
      BY <1>0, <1>2, <2>1, <2>2, PropagateType
    <3> QED
      BY <1>0, <1>3, <1>4, <2>6, <3>1 DEF TypeOK
  <2>8. TablesOK'
    BY <1>2, <1>3, <2>1, <2>2, <2>6, <2>7, Propagate
  <2> QED
    BY <1>3, <1>7, <2>7, <2>8, FinishStep
<1>6. CASE ~Live(d)
  <2>1. UNCHANGED <<doc, activity>>
    BY <1>1, <1>6 DEF WriteRequest
  <2>2. TypeOK' /\ UNCHANGED <<now, owner, parent, activity, doc>>
    BY <1>0, <1>3, <1>4, <2>1 DEF TypeOK
  <2>3. TablesOK'
    BY <1>0, <2>2, TablesKept
  <2> QED
    BY <1>3, <1>7, <2>2, <2>3, FinishStep
<1> QED
  BY <1>5, <1>6

\* A step that only takes rows away, cuts references to them, or lets time pass.
LEMMA Cut ==
    ASSUME IInv, TypeOK', now <= now', thread' = thread, Ages,
           \A t \in Threads : thread[t].pc \in Statements => now' <= thread[t].start + StatementTime,
           \A x \in Sites : /\ owner[x] = "unused" => owner'[x] = "unused"
                            /\ parent'[x] \in {parent[x], None}
                            /\ Live(x)' => owner'[x] = owner[x] /\ activity'[x] = activity[x]
                            /\ parent'[x] # None => Live(x)' /\ owner'[parent[x]] = owner[parent[x]],
           \A d \in Docs : /\ Live(d)' => Live(d)
                           /\ doc'[d].at <= doc[d].at
                           /\ doc'[d].site # None => /\ doc'[d].site = doc[d].site
                                                     /\ owner'[doc[d].site] = owner[doc[d].site]
    PROVE  IInv'
<1>0. TypeOK /\ TablesOK
  BY DEF IInv
<1>1. ASSUME NEW x \in Sites PROVE Ancestors(x)' \subseteq Ancestors(x)
  <2>1. \A y \in Ancestors(x) : parent'[y] \in {parent[y], None}
    BY <1>0, AncestorsClosed
  <2> QED
    BY <1>0, <2>1, AncestorsShrink
<1>2. SiteForest'
  <2> SUFFICES ASSUME NEW x \in Sites, Live(x)', parent'[x] # None
               PROVE  owner'[parent'[x]] = owner'[x] /\ x \notin Ancestors(parent[x])'
    BY DEF SiteForest
  <2>1. PICK q \in Sites : q = parent[x] /\ q = parent'[x]
    BY <1>0 DEF TypeOK
  <2>2. Live(x) /\ owner'[x] = owner[x] /\ owner'[q] = owner[q]
    BY <2>1 DEF Live
  <2>3. owner[q] = owner[x] /\ x \notin Ancestors(q)
    BY <1>0, <2>1, <2>2 DEF TablesOK, SiteForest
  <2>4. x \notin Ancestors(q)'
    BY <1>1, <2>3
  <2> QED
    BY <2>1, <2>2, <2>3, <2>4 DEF Ancestors
<1>3. References'
  <2>1. \A x \in Sites : parent'[x] # None => Live(x)'
    OBVIOUS
  <2>2. ASSUME NEW d \in Docs, doc'[d].site # None PROVE Live(doc[d].site)'
    <3>1. PICK x : x = doc[d].site /\ x = doc'[d].site /\ owner'[x] = owner[x]
      BY <2>2
    <3>2. Live(x)
      BY <1>0, <2>2, <3>1 DEF TablesOK, References
    <3>3. owner'[x] \in Orgs
      BY <3>1, <3>2 DEF Live
    <3> QED
      BY <3>1, <3>3 DEF Live
  <2> QED
    BY <2>1, <2>2 DEF References
<1>4. NotNewer'
  <2> SUFFICES ASSUME NEW d \in Docs PROVE doc'[d].at <= now'
    BY DEF NotNewer
  <2>1. doc'[d].at \in Nat /\ doc[d].at \in Nat /\ now \in Nat /\ now' \in Nat
    BY <1>0 DEF TypeOK, Document
  <2>2. doc[d].at <= now /\ doc'[d].at <= doc[d].at
    BY <1>0 DEF TablesOK, NotNewer
  <2> QED
    BY <2>1, <2>2
<1>5. ActivityCoversSubtree'
  <2> SUFFICES ASSUME NEW r \in Sites, Live(r)', NEW d \in Docs, Live(d)', doc'[d].site \in Subtree(r)'
               PROVE  doc'[d].at <= activity'[r] + StatementTime
    BY DEF ActivityCoversSubtree
  <2>0. doc'[d].at \in Nat /\ doc[d].at \in Nat /\ activity[r] \in Nat
    BY <1>0 DEF TypeOK, Document
  <2>1. PICK x : x = doc'[d].site
    OBVIOUS
  <2>2. x \in Sites /\ Live(x)' /\ r \in Ancestors(x)'
    BY <2>1 DEF Subtree
  <2>3. x = doc[d].site /\ r \in Ancestors(x) /\ Live(x) /\ Live(r) /\ Live(d)
    BY <1>1, <2>1, <2>2 DEF Live
  <2>4. doc[d].at <= activity[r] + StatementTime
    BY <1>0, <2>2, <2>3 DEF TablesOK, ActivityCoversSubtree, Subtree
  <2>5. activity'[r] = activity[r] /\ doc'[d].at <= doc[d].at
    OBVIOUS
  <2> QED
    BY <2>0, <2>4, <2>5
<1>6. ThreadsOK'
  <2> SUFFICES ASSUME NEW t \in Threads PROVE ThreadOK(thread[t])'
    BY DEF ThreadsOK
  <2>1. ThreadOK(thread[t]) /\ thread'[t] = thread[t] /\ thread[t] \in Thread
    BY <1>0 DEF IInv, ThreadsOK, TypeOK
  <2>2. thread[t].pc \in Statements => thread[t].start <= now' /\ now' <= thread[t].start + StatementTime
    <3>1. now \in Nat /\ now' \in Nat /\ thread[t].start \in Nat
      BY <1>0, <2>1 DEF TypeOK, Thread
    <3> QED
      BY <2>1, <3>1 DEF ThreadOK
  <2>3. thread[t].pc = "site" /\ thread[t].parent # None =>
            owner'[thread[t].parent] \in {thread[t].org, "deleted"}
    BY <2>1, ParentAges
  <2> QED
    BY <2>1, <2>2, <2>3 DEF ThreadOK, Building
<1>7. Apart'
  BY DEF IInv, Apart, Building
<1> QED
  BY <1>2, <1>3, <1>4, <1>5, <1>6, <1>7 DEF IInv, TablesOK

\* A running statement has not reached its time limit.
LEMMA InTime ==
    ASSUME IInv
    PROVE  \A t \in Threads : thread[t].pc \in Statements => now <= thread[t].start + StatementTime
BY DEF IInv, ThreadsOK, ThreadOK

\* A row that exists is not unused.
LEMMA LiveUsed ==
    ASSUME NEW o \in Orgs
    PROVE  o # "unused" /\ o # "deleted" /\ o # None
OBVIOUS

\* A site is deleted, and with it every reference to it.
LEMMA DeleteConstructionSiteStep ==
    ASSUME IInv, NEW s \in Sites, NEW o \in Orgs, DeleteConstructionSite(s, o)
    PROVE  IInv'
<1>0. TypeOK /\ TablesOK /\ UNCHANGED <<now, thread, changes>> /\ owner[s] = o
  BY DEF IInv, DeleteConstructionSite
<1>1. /\ owner'[s] = "deleted" /\ \A x \in (Sites \cup Docs) \ {s} : owner'[x] = owner[x]
      /\ \A x \in Sites \ {s} : activity'[x] = activity[x]
      /\ \A x \in Sites : parent'[x] = IF s \in {x, parent[x]} THEN None ELSE parent[x]
  BY <1>0 DEF DeleteConstructionSite, TypeOK
<1>2. \A d \in Docs : /\ doc'[d].site = IF doc[d].site = s THEN None ELSE doc[d].site
                      /\ doc'[d].at = doc[d].at
                      /\ doc'[d] \in Document
  BY <1>0 DEF DeleteConstructionSite, TypeOK, Document
<1>3. TypeOK'
  <2>1. doc' \in [Docs -> Document]
    BY <1>2 DEF DeleteConstructionSite
  <2>2. parent' \in [Sites -> Sites \cup {None}] /\ activity' \in [Sites -> 0..MaxTime]
    BY <1>0 DEF DeleteConstructionSite, TypeOK
  <2> QED
    BY <1>0, <2>1, <2>2 DEF DeleteConstructionSite, TypeOK
<1>4. \A x \in Sites : /\ owner[x] = "unused" => owner'[x] = "unused"
                       /\ parent'[x] \in {parent[x], None}
                       /\ Live(x)' => owner'[x] = owner[x] /\ activity'[x] = activity[x]
                       /\ parent'[x] # None => Live(x)' /\ owner'[parent[x]] = owner[parent[x]]
  <2> SUFFICES ASSUME NEW x \in Sites
               PROVE  /\ owner[x] = "unused" => owner'[x] = "unused"
                      /\ parent'[x] \in {parent[x], None}
                      /\ Live(x)' => owner'[x] = owner[x] /\ activity'[x] = activity[x]
                      /\ parent'[x] # None => Live(x)' /\ owner'[parent[x]] = owner[parent[x]]
    OBVIOUS
  <2>1. parent[x] \in Sites \cup {None} /\ (parent[x] # None => Live(x))
    BY <1>0 DEF TypeOK, TablesOK, References
  <2> QED
    BY <1>0, <1>1, <2>1, LiveUsed DEF Live
<1>5. \A d \in Docs : /\ Live(d)' => Live(d)
                      /\ doc'[d].at <= doc[d].at
                      /\ doc'[d].site # None => /\ doc'[d].site = doc[d].site
                                                /\ owner'[doc[d].site] = owner[doc[d].site]
  <2> SUFFICES ASSUME NEW d \in Docs
               PROVE  /\ Live(d)' => Live(d)
                      /\ doc'[d].at <= doc[d].at
                      /\ doc'[d].site # None => /\ doc'[d].site = doc[d].site
                                                /\ owner'[doc[d].site] = owner[doc[d].site]
    OBVIOUS
  <2>1. doc[d].at \in Nat /\ doc[d].site \in Sites \cup {None}
    BY <1>0 DEF TypeOK, Document
  <2> QED
    BY <1>1, <1>2, <2>1 DEF Live
<1>6. now <= now' /\ \A t \in Threads : thread[t].pc \in Statements => now' <= thread[t].start + StatementTime
  BY <1>0, InTime DEF TypeOK
<1>7. Ages
  BY <1>0, <1>1 DEF Ages
<1> QED
  BY <1>0, <1>3, <1>4, <1>5, <1>6, <1>7, Cut

\* A document is deleted with what hangs on it.
LEMMA DeleteDocumentStep ==
    ASSUME IInv, NEW d \in Docs, NEW o \in Orgs, DeleteDocument(d, o)
    PROVE  IInv'
<1>0. TypeOK /\ TablesOK /\ UNCHANGED <<now, parent, activity, thread, changes>> /\ owner[d] = o
  BY DEF IInv, DeleteDocument
<1>1. owner'[d] = "deleted" /\ \A x \in (Sites \cup Docs) \ {d} : owner'[x] = owner[x]
  BY <1>0 DEF DeleteDocument, TypeOK
<1>2. /\ doc'[d].site = None /\ doc'[d].at = 0 /\ \A e \in Docs \ {d} : doc'[e] = doc[e]
      /\ doc' \in [Docs -> Document]
  BY <1>0 DEF DeleteDocument, TypeOK, Document, NewDocument
<1>3. TypeOK'
  BY <1>0, <1>2 DEF DeleteDocument, TypeOK
<1>4. \A x \in Sites : /\ owner[x] = "unused" => owner'[x] = "unused"
                       /\ parent'[x] \in {parent[x], None}
                       /\ Live(x)' => owner'[x] = owner[x] /\ activity'[x] = activity[x]
                       /\ parent'[x] # None => Live(x)' /\ owner'[parent[x]] = owner[parent[x]]
  BY <1>0, <1>1 DEF TablesOK, References, TypeOK, Live
<1>5. \A e \in Docs : /\ Live(e)' => Live(e)
                      /\ doc'[e].at <= doc[e].at
                      /\ doc'[e].site # None => /\ doc'[e].site = doc[e].site
                                                /\ owner'[doc[e].site] = owner[doc[e].site]
  <2> SUFFICES ASSUME NEW e \in Docs
               PROVE  /\ Live(e)' => Live(e)
                      /\ doc'[e].at <= doc[e].at
                      /\ doc'[e].site # None => /\ doc'[e].site = doc[e].site
                                                /\ owner'[doc[e].site] = owner[doc[e].site]
    OBVIOUS
  <2>1. doc[e].at \in Nat /\ doc[e].site \in Sites \cup {None}
    BY <1>0 DEF TypeOK, Document
  <2> QED
    BY <1>1, <1>2, <2>1, LiveUsed DEF Live
<1>6. now <= now' /\ \A t \in Threads : thread[t].pc \in Statements => now' <= thread[t].start + StatementTime
  BY <1>0, InTime DEF TypeOK
<1>7. Ages
  BY <1>0, <1>1 DEF Ages
<1> QED
  BY <1>0, <1>3, <1>4, <1>5, <1>6, <1>7, Cut

\* Time passes.
LEMMA TickStep ==
    ASSUME IInv, Tick
    PROVE  IInv'
<1>0. TypeOK /\ TablesOK /\ UNCHANGED <<owner, parent, activity, doc, thread, changes>>
  BY DEF IInv, Tick
<1>1. now \in Nat /\ now' = now + 1 /\ now' \in 0..MaxTime
  BY <1>0 DEF TypeOK, Tick
<1>2. TypeOK'
  BY <1>0, <1>1 DEF TypeOK
<1>3. \A t \in Threads : thread[t].pc \in Statements => now' <= thread[t].start + StatementTime
  <2> SUFFICES ASSUME NEW t \in Threads, thread[t].pc \in Statements
               PROVE  now' <= thread[t].start + StatementTime
    OBVIOUS
  <2>1. thread[t].start \in Nat /\ now < thread[t].start + StatementTime
    BY <1>0 DEF TypeOK, Thread, Tick, Statements
  <2> QED
    BY <1>1, <2>1
<1>4. \A x \in Sites : /\ owner[x] = "unused" => owner'[x] = "unused"
                       /\ parent'[x] \in {parent[x], None}
                       /\ Live(x)' => owner'[x] = owner[x] /\ activity'[x] = activity[x]
                       /\ parent'[x] # None => Live(x)' /\ owner'[parent[x]] = owner[parent[x]]
  BY <1>0 DEF TablesOK, References, Live
<1>5. \A e \in Docs : /\ Live(e)' => Live(e)
                      /\ doc'[e].at <= doc[e].at
                      /\ doc'[e].site # None => /\ doc'[e].site = doc[e].site
                                                /\ owner'[doc[e].site] = owner[doc[e].site]
  BY <1>0 DEF Live, TypeOK, Document
<1>6. now <= now' /\ thread' = thread /\ Ages
  BY <1>0, <1>1 DEF Ages
<1> QED
  BY <1>0, <1>2, <1>3, <1>4, <1>5, <1>6, Cut

-----------------------------------------------------------------------------
(* The invariant *)

\* Nothing exists at first.
LEMMA InitIInv == Init => IInv
<1> SUFFICES ASSUME Init PROVE IInv
  OBVIOUS
<1>1. TypeOK
  BY IdleOK DEF Init, TypeOK, NewDocument, Document
<1>2. \A x \in Sites \cup Docs : ~Live(x)
  BY DEF Init, Live
<1>3. TablesOK
  BY <1>2 DEF Init, TablesOK, SiteForest, References, NotNewer, ActivityCoversSubtree, NewDocument
<1>4. ThreadsOK /\ Apart
  BY IdleOK DEF Init, ThreadsOK, Apart
<1> QED
  BY <1>1, <1>3, <1>4 DEF IInv

\* Every step keeps the invariant.
LEMMA NextIInv == IInv /\ [Next]_vars => IInv'
<1> SUFFICES ASSUME IInv, [Next]_vars PROVE IInv'
  OBVIOUS
<1>1. CASE UNCHANGED vars
  BY <1>1 DEF vars, IInv, TypeOK, TablesOK, SiteForest, References, NotNewer, ActivityCoversSubtree,
              Live, Subtree, Ancestors, ThreadsOK, ThreadOK, Building, Apart
<1>2. CASE Tick
  BY <1>2, TickStep
<1>3. CASE \E t \in Threads : Begin(t) \/ InsertSite(t) \/ InsertDocument(t) \/ WriteRequest(t)
  BY <1>3, BeginStep, InsertSiteStep, InsertDocumentStep, WriteRequestStep
<1>4. CASE \E t \in Threads, d \in Docs : BeginRequest(t, d)
  BY <1>4, BeginRequestStep
<1>5. CASE \E t \in Threads, o \in Orgs :
             \/ \E s \in Sites, p \in Sites \cup {None} : CreateConstructionSite(t, o, s, p)
             \/ \E d \in Docs, s \in Sites \cup {None} : CreateDocument(t, o, d, s)
  BY <1>5, CreateConstructionSiteStep, CreateDocumentStep
<1>6. CASE \E o \in Orgs : \/ \E s \in Sites : DeleteConstructionSite(s, o)
                           \/ \E d \in Docs : DeleteDocument(d, o)
  BY <1>6, DeleteConstructionSiteStep, DeleteDocumentStep
<1> QED
  BY <1>1, <1>2, <1>3, <1>4, <1>5, <1>6 DEF Next

\* The strengthened invariant holds in every behaviour of the handlers and the
\* triggers on construction_sites, documents and extraction_requests.
THEOREM Inductive == Spec => []IInv
<1>1. Init => IInv
  BY InitIInv
<1>2. IInv /\ [Next]_vars => IInv'
  BY NextIInv
<1> QED
  BY <1>1, <1>2, PTL DEF Spec

\* Every column of the tables and every local of a handler keeps its type.
THEOREM TypeCorrect == Spec => []TypeOK
<1>1. IInv => TypeOK
  BY DEF IInv
<1> QED
  BY <1>1, Inductive, PTL

\* check_site_org_isolation and the foreign key parent_id keep the sites a
\* forest inside every tenant, whatever is deleted between the check of the
\* handler, the trigger of the INSERT and the check of the key.
THEOREM Forest == Spec => []SiteForest
<1>1. IInv => SiteForest
  BY DEF IInv, TablesOK
<1> QED
  BY <1>1, Inductive, PTL

\* propagate_site_activity reaches every site above a document: none shows a
\* last_activity_at older than it by more than a statement takes.
THEOREM ActivityReachesRoot == Spec => []ActivityCoversSubtree
<1>1. IInv => ActivityCoversSubtree
  BY DEF IInv, TablesOK
<1> QED
  BY <1>1, Inductive, PTL
=============================================================================
