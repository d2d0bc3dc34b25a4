-------------------------------- MODULE Sites --------------------------------
(***************************************************************************)
(* The tree of construction sites and last_activity_at, which triggers on  *)
(* documents and extraction_requests carry up the tree                     *)
(* (handler_construction_site.go, service_construction_site.go,            *)
(* migrations 000001 and 000004).                                          *)
(*                                                                         *)
(* now() is the start of a transaction, here of a statement, and not the   *)
(* moment its trigger writes: a statement that started earlier may write   *)
(* later.  A thread is a handler; "begin" and the execution of its         *)
(* statement are different steps.                                          *)
(***************************************************************************)
EXTENDS Naturals

CONSTANTS
    Orgs,            \* organizations
    Sites,           \* ids of construction sites, never used twice
    Docs,            \* ids of documents, never used twice
    Threads,         \* handlers running at a time
    None,            \* NULL
    StatementTime,   \* the longest a statement takes
    MaxTime,         \* bound: the clock stops here
    MaxChanges       \* bound: statements on requests

ASSUME BoundsAssumption ==
    StatementTime \in Nat /\ MaxTime \in Nat /\ MaxChanges \in Nat
ASSUME IdsAssumption ==
    /\ None \notin Sites \cup Docs \cup Orgs
    /\ Orgs \cap {"unused", "deleted"} = {}
    /\ Sites \cap Docs = {}

VARIABLES
    now,        \* the clock of the database
    owner,      \* organization_id of every site and document
    parent,     \* construction_sites.parent_id
    activity,   \* construction_sites.last_activity_at
    doc,        \* the documents and the activity on them
    thread,     \* the local state of every handler
    changes     \* statements on requests so far

vars == <<now, owner, parent, activity, doc, thread, changes>>

\* at: when the document was put in or one of its requests last got a status.
Document == [site : Sites \cup {None}, at : 0..MaxTime]

Thread == [pc : {"idle", "begin", "site", "document", "request"},
           then : {"site", "document", None}, org : Orgs \cup {None},
           site : Sites \cup {None}, parent : Sites \cup {None}, doc : Docs \cup {None},
           start : 0..MaxTime]

NewDocument == [site |-> None, at |-> 0]

IdleThread == [pc |-> "idle", then |-> None, org |-> None, site |-> None,
               parent |-> None, doc |-> None, start |-> 0]

TypeOK ==
    /\ now \in 0..MaxTime
    /\ owner \in [Sites \cup Docs -> Orgs \cup {"unused", "deleted"}]
    /\ parent \in [Sites -> Sites \cup {None}]
    /\ activity \in [Sites -> 0..MaxTime]
    /\ doc \in [Docs -> Document]
    /\ thread \in [Threads -> Thread]
    /\ changes \in 0..MaxChanges

Init ==
    /\ now = 0
    /\ owner = [x \in Sites \cup Docs |-> "unused"]
    /\ parent = [s \in Sites |-> None]
    /\ activity = [s \in Sites |-> 0]
    /\ doc = [d \in Docs |-> NewDocument]
    /\ thread = [t \in Threads |-> IdleThread]
    /\ changes = 0

-----------------------------------------------------------------------------
(* The tree *)

Live(x) == owner[x] \in Orgs
InOrg(x, o) == x # None => owner[x] = o

\* WITH RECURSIVE ancestors: s and every site above it.
Ancestors(s) ==
    {x \in Sites : \A S \in SUBSET Sites :
        (s \in S /\ \A y \in S : parent[y] # None => parent[y] \in S) => x \in S}

\* s and every site below it.
Subtree(s) == {x \in Sites : Live(x) /\ s \in Ancestors(x)}

\* The BEFORE trigger check_site_org_isolation.
check_site_org_isolation(s, p, o) ==
    p # None => p # s /\ InOrg(p, o) /\ s \notin Ancestors(p)

\* Plausible bug: no foreign key, the trigger is taken to be enough.
Referenced_Unchecked(x) == TRUE

\* The foreign keys parent_id and site_id: a referenced site exists.
Referenced(x) == x # None => Live(x)

-----------------------------------------------------------------------------
(* Statements *)

Finish(t) == thread' = [thread EXCEPT ![t] = IdleThread]

\* Plausible bug: only the site of the document is touched.
propagate_site_activity_OwnSite(s, start) ==
    activity' = IF s = None THEN activity ELSE [activity EXCEPT ![s] = start]

\* The trigger propagate_site_activity, in a statement that began at start.
propagate_site_activity(s, start) ==
    activity' = IF s = None THEN activity
                ELSE [x \in Sites |-> IF x \in Ancestors(s) THEN start ELSE activity[x]]

\* An id of no row that no running handler is going to use.
Fresh(x) ==
    /\ owner[x] = "unused"
    /\ \A t \in Threads : thread[t].pc # "idle" => thread[t].site # x /\ thread[t].doc # x

\* The handler CreateConstructionSite: the parent must be a site of the tenant.
CreateConstructionSite(t, o, s, p) ==
    /\ thread[t].pc = "idle"
    /\ Fresh(s)
    /\ InOrg(p, o)
    /\ thread' = [thread EXCEPT ![t] = [IdleThread EXCEPT !.pc = "begin", !.then = "site",
                                                          !.org = o, !.site = s, !.parent = p]]
    /\ UNCHANGED <<now, owner, parent, activity, doc, changes>>

\* CreateDocument and UploadDocument: the site must be one of the tenant.
CreateDocument(t, o, d, s) ==
    /\ thread[t].pc = "idle"
    /\ Fresh(d)
    /\ InOrg(s, o)
    /\ thread' = [thread EXCEPT ![t] = [IdleThread EXCEPT !.pc = "begin", !.then = "document",
                                                          !.org = o, !.site = s, !.doc = d]]
    /\ UNCHANGED <<now, owner, parent, activity, doc, changes>>

\* The INSERT behind the check begins, and its BEFORE trigger may refuse the row.
Begin(t) ==
    LET s == thread[t] IN
    /\ s.pc = "begin"
    /\ IF \/ s.then = "site" /\ check_site_org_isolation(s.site, s.parent, s.org)
          \/ s.then = "document" /\ InOrg(s.site, s.org)
       THEN thread' = [thread EXCEPT ![t].pc = s.then, ![t].start = now]
       ELSE Finish(t)
    /\ UNCHANGED <<now, owner, parent, activity, doc, changes>>

\* CreateExtractionRequest or SetExtractionRequestStatus begins.
BeginRequest(t, d) ==
    /\ thread[t].pc = "idle"
    /\ changes < MaxChanges
    /\ Live(d)
    /\ thread' = [thread EXCEPT ![t] = [IdleThread EXCEPT !.pc = "request", !.doc = d,
                                                          !.start = now]]
    /\ changes' = changes + 1
    /\ UNCHANGED <<now, owner, parent, activity, doc>>

\* Plausible bug: last_activity_at has no default.
InsertSite_NoDefault(t) ==
    LET s == thread[t].site IN
    /\ thread[t].pc = "site"
    /\ IF Referenced(thread[t].parent)
       THEN /\ owner' = [owner EXCEPT ![s] = thread[t].org]
            /\ parent' = [parent EXCEPT ![s] = thread[t].parent]
            /\ activity' = [activity EXCEPT ![s] = None]
       ELSE UNCHANGED <<owner, parent, activity>>
    /\ Finish(t)
    /\ UNCHANGED <<now, doc, changes>>

\* The query CreateConstructionSite: the row goes in and its foreign key is
\* checked; the parent may be gone since the trigger looked.
InsertSite(t) ==
    LET s == thread[t].site IN
    /\ thread[t].pc = "site"
    /\ IF Referenced(thread[t].parent)
       THEN /\ owner' = [owner EXCEPT ![s] = thread[t].org]
            /\ parent' = [parent EXCEPT ![s] = thread[t].parent]
            /\ activity' = [activity EXCEPT ![s] = thread[t].start]
       ELSE UNCHANGED <<owner, parent, activity>>
    /\ Finish(t)
    /\ UNCHANGED <<now, doc, changes>>

\* The query CreateDocument: the row, its foreign key and its AFTER trigger.
InsertDocument(t) ==
    LET d == thread[t].doc
        s == thread[t].site IN
    /\ thread[t].pc = "document"
    /\ IF Referenced(s)
       THEN /\ owner' = [owner EXCEPT ![d] = thread[t].org]
            /\ doc' = [doc EXCEPT ![d] = [NewDocument EXCEPT !.site = s, !.at = thread[t].start]]
            /\ propagate_site_activity(s, thread[t].start)
       ELSE UNCHANGED <<owner, doc, activity>>
    /\ Finish(t)
    /\ UNCHANGED <<now, parent, changes>>

\* The request is written and the trigger runs; without its document it is gone.
WriteRequest(t) ==
    LET d == thread[t].doc IN
    /\ thread[t].pc = "request"
    /\ IF Live(d)
       THEN /\ doc' = [doc EXCEPT ![d].at = thread[t].start]
            /\ propagate_site_activity(doc[d].site, thread[t].start)
       ELSE UNCHANGED <<doc, activity>>
    /\ Finish(t)
    /\ UNCHANGED <<now, owner, parent, changes>>

\* DeleteConstructionSite: ON DELETE SET NULL of the children and the documents.
DeleteConstructionSite(s, o) ==
    /\ owner[s] = o
    /\ owner' = [owner EXCEPT ![s] = "deleted"]
    /\ parent' = [x \in Sites |-> IF s \in {x, parent[x]} THEN None ELSE parent[x]]
    /\ activity' = [activity EXCEPT ![s] = 0]
    /\ doc' = [d \in Docs |-> [doc[d] EXCEPT !.site = IF @ = s THEN None ELSE @]]
    /\ UNCHANGED <<now, thread, changes>>

\* DeleteDocument, with its tasks and requests.
DeleteDocument(d, o) ==
    /\ owner[d] = o
    /\ owner' = [owner EXCEPT ![d] = "deleted"]
    /\ doc' = [doc EXCEPT ![d] = NewDocument]
    /\ UNCHANGED <<now, parent, activity, thread, changes>>

\* Time passes; a statement takes at most StatementTime.
Tick ==
    /\ now < MaxTime
    /\ \A t \in Threads : thread[t].pc \in {"site", "document", "request"} =>
           now < thread[t].start + StatementTime
    /\ now' = now + 1
    /\ UNCHANGED <<owner, parent, activity, doc, thread, changes>>

Next ==
    \/ Tick
    \/ \E t \in Threads : Begin(t) \/ InsertSite(t) \/ InsertDocument(t) \/ WriteRequest(t)
    \/ \E t \in Threads, d \in Docs : BeginRequest(t, d)
    \/ \E t \in Threads, o \in Orgs :
          \/ \E s \in Sites, p \in Sites \cup {None} : CreateConstructionSite(t, o, s, p)
          \/ \E d \in Docs, s \in Sites \cup {None} : CreateDocument(t, o, d, s)
    \/ \E o \in Orgs : \/ \E s \in Sites : DeleteConstructionSite(s, o)
                       \/ \E d \in Docs : DeleteDocument(d, o)

Spec == Init /\ [][Next]_vars

-----------------------------------------------------------------------------
(* Properties *)

\* last_activity_at: no activity below a site, a document put in or a request
\* created or moved on, is newer than what the site shows, up to the time a
\* statement takes (one that began earlier may write later).
ActivityCoversSubtree ==
    \A s \in Sites : Live(s) =>
        \A d \in Docs : Live(d) /\ doc[d].site \in Subtree(s) =>
            doc[d].at <= activity[s] + StatementTime

\* construction_sites is a forest of existing sites inside a tenant, although
\* the parent may be deleted after the handler, or the trigger, checked it.
SiteForest ==
    \A s \in Sites : Live(s) /\ parent[s] # None =>
        owner[parent[s]] = owner[s] /\ s \notin Ancestors(parent[s])
=============================================================================
