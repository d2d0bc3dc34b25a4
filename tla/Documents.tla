------------------------------ MODULE Documents ------------------------------
(***************************************************************************)
(* The catalogue of a tenant: documents and their artifacts, the object    *)
(* store behind them, the directories of contract kinds and file roles,    *)
(* bundles and comparison sessions (internal/server, internal/service,     *)
(* internal/storage, the tables and triggers of sql/migrations).           *)
(*                                                                         *)
(* Handlers first check what a request refers to and then write, with no   *)
(* transaction around the two; other handlers may delete the row that was  *)
(* checked in between.  A thread is one such handler, each of its          *)
(* statements is a step.  Ids are UUIDs: an id is never used again.        *)
(***************************************************************************)
EXTENDS Naturals, FiniteSets

CONSTANTS
    Orgs,        \* organizations
    Docs,        \* ids of documents, and keys of the objects uploaded for them
    Sites,       \* ids of construction sites
    Kinds,       \* ids of document_contract_kinds
    Roles,       \* ids of document_file_roles
    Sessions,    \* ids of comparison_sessions
    Threads,     \* handlers running at a time
    None,        \* NULL
    MaxFaults    \* bound: failed calls, lost answers, aborted handlers

Entries == Kinds \cup Roles
Ids == Docs \cup Sites \cup Entries \cup Sessions

ASSUME FaultsAssumption == MaxFaults \in Nat
ASSUME IdsAssumption ==
    /\ None \notin Ids \cup Orgs
    /\ Orgs \cap {"unused", "system", "deleted"} = {}
    /\ Docs \cap (Sites \cup Entries \cup Sessions) = {}
    /\ Sites \cap (Entries \cup Sessions) = {}
    /\ Entries \cap Sessions = {}

VARIABLES
    owner,    \* organization_id of every row, or "unused", "deleted", "system"
    doc,      \* the references of every row of documents
    about,    \* contract_kind_id of every comparison session
    members,  \* comparison_session_documents
    objects,  \* keys in the object store
    thread,   \* the local state of every handler
    faults,   \* faults left
    lost,     \* documents whose INSERT was answered with an error though it took place
    leaked    \* objects a fault kept the handler from removing

rows == <<owner, doc, about, members>>
history == <<faults, lost, leaked>>
vars == <<owner, doc, about, members, objects, thread, faults, lost, leaked>>

Document == [site : Sites \cup {None}, parent : Docs \cup {None},
             kind : Kinds \cup {None}, role : Roles \cup {None},
             bundle : Docs \cup {None}, uploaded : BOOLEAN]

Pcs == {"idle", "insert", "upload", "insertUpload", "cleanup",
        "metaRole", "metaBundle", "metaUpdate", "artifact", "session",
        "addMember", "removeMember"}

\* org: the tenant of the access token; doc: the document to write; the other
\* fields are the arguments of the request.
Thread == [pc : Pcs, org : Orgs \cup {None}, doc : Docs \cup {None},
           site : Sites \cup {None}, kind : Kinds \cup {None},
           role : Roles \cup {None}, bundle : Docs \cup {None},
           session : Sessions \cup {None}]

IdleThread == [pc |-> "idle", org |-> None, doc |-> None, site |-> None,
               kind |-> None, role |-> None, bundle |-> None, session |-> None]

NoDocument == [site |-> None, parent |-> None, kind |-> None, role |-> None,
               bundle |-> None, uploaded |-> FALSE]

TypeOK ==
    /\ owner \in [Ids -> Orgs \cup {"unused", "system", "deleted"}]
    /\ doc \in [Docs -> Document]
    /\ about \in [Sessions -> Kinds \cup {None}]
    /\ members \subseteq Sessions \X Docs
    /\ objects \subseteq Docs
    /\ thread \in [Threads -> Thread]
    /\ faults \in Nat
    /\ lost \subseteq Docs
    /\ leaked \subseteq Docs

\* Directory rows of the installation (organization_id IS NULL) are put in by
\* hand; there may be any.
Init ==
    /\ \E system \in SUBSET Entries :
          owner = [x \in Ids |-> IF x \in system THEN "system" ELSE "unused"]
    /\ doc = [d \in Docs |-> NoDocument]
    /\ about = [c \in Sessions |-> None]
    /\ members = {}
    /\ objects = {}
    /\ thread = [t \in Threads |-> IdleThread]
    /\ faults = MaxFaults
    /\ lost = {}
    /\ leaked = {}

-----------------------------------------------------------------------------
(* Rows *)

Live(x) == owner[x] \in Orgs \cup {"system"}

\* GetConstructionSite, GetDocument, GetComparisonSession: WHERE id = $1 AND
\* organization_id = $2.
InOrg(x, o) == x # None => owner[x] = o

\* GetContractKind, GetFileRole: a row of the tenant or of the installation.
VisibleTo(e, o) == e # None => owner[e] \in {o, "system"}

\* A document id that no row has and no running handler is going to use.
Fresh(d) ==
    /\ owner[d] = "unused"
    /\ d \notin objects
    /\ \A t \in Threads : thread[t].pc \in {"insert", "upload", "insertUpload", "cleanup"} =>
           thread[t].doc # d

\* The foreign keys of documents: what a row refers to exists.
ForeignKeys(new) ==
    \A x \in {new.site, new.parent, new.kind, new.role, new.bundle} : x # None => Live(x)

\* The trigger check_document_org_isolation.  A row deleted between it and the
\* check of the key is refused by the key: one statement is one step.
check_document_org_isolation(new, o) == InOrg(new.site, o) /\ InOrg(new.parent, o)

\* The trigger check_document_kind_role_org.
check_document_kind_role_org(new, o) ==
    VisibleTo(new.kind, o) /\ VisibleTo(new.role, o) /\ InOrg(new.bundle, o)

\* Every check the database makes before it stores a document.
Accepted(d, new, o) ==
    /\ ForeignKeys(new)
    /\ check_document_org_isolation(new, o)
    /\ check_document_kind_role_org(new, o)
    /\ new.bundle # d
    /\ new.parent # None => new.kind = None /\ new.role = None /\ new.bundle = None

\* ON DELETE CASCADE of documents.parent_id: d and what was derived from it.
Derived(d) ==
    {x \in Docs : \A S \in SUBSET Docs :
        (d \in S /\ \A y \in Docs : doc[y].parent \in S => y \in S) => x \in S}

\* Plausible bug: site_id is no foreign key, only the trigger looks at it.
Unlink_NoSiteKey(gone) ==
    [d \in Docs |->
        IF d \in gone THEN NoDocument
        ELSE [doc[d] EXCEPT !.kind   = IF @ \in gone THEN None ELSE @,
                            !.role   = IF @ \in gone THEN None ELSE @,
                            !.bundle = IF @ \in gone THEN None ELSE @]]

\* ON DELETE SET NULL of the documents that refer to a deleted row.
Unlink(gone) ==
    [d \in Docs |->
        IF d \in gone THEN NoDocument
        ELSE [doc[d] EXCEPT !.site   = IF @ \in gone THEN None ELSE @,
                            !.kind   = IF @ \in gone THEN None ELSE @,
                            !.role   = IF @ \in gone THEN None ELSE @,
                            !.bundle = IF @ \in gone THEN None ELSE @]]

\* DELETE of a set of rows, with everything the foreign keys do.
DeleteRows(gone) ==
    /\ owner' = [x \in Ids |-> IF x \in gone THEN "deleted" ELSE owner[x]]
    /\ doc' = Unlink(gone)
    /\ about' = [c \in Sessions |-> IF about[c] \in gone THEN None ELSE about[c]]
    /\ members' = {m \in members : m[1] \notin gone /\ m[2] \notin gone}

Become(t, state) == thread' = [thread EXCEPT ![t] = state]
Finish(t) == Become(t, IdleThread)
Goto(t, pc) == thread' = [thread EXCEPT ![t].pc = pc]

-----------------------------------------------------------------------------
(* POST /documents and POST /documents/upload *)

\* CreateDocument: the site is checked, then the row is inserted.
CreateDocument(t, o, d, s) ==
    /\ thread[t].pc = "idle"
    /\ Fresh(d)
    /\ InOrg(s, o)
    /\ Become(t, [IdleThread EXCEPT !.pc = "insert", !.org = o, !.doc = d, !.site = s])
    /\ UNCHANGED <<owner, doc, about, members, objects, history>>

\* UploadDocument: "Validate optional fields BEFORE uploading to avoid
\* orphaned S3 objects."
UploadDocument(t, o, d, s) ==
    /\ thread[t].pc = "idle"
    /\ Fresh(d)
    /\ InOrg(s, o)
    /\ Become(t, [IdleThread EXCEPT !.pc = "upload", !.org = o, !.doc = d, !.site = s])
    /\ UNCHANGED <<owner, doc, about, members, objects, history>>

\* storage.Client.Upload: PutObject under a new key.
Upload(t) ==
    /\ thread[t].pc = "upload"
    /\ objects' = objects \cup {thread[t].doc}
    /\ Goto(t, "insertUpload")
    /\ UNCHANGED <<owner, doc, about, members, history>>

\* PutObject stores the file and fails all the same: the handler has no key to
\* clean up with.
UploadAnswerLost(t) ==
    /\ faults > 0
    /\ thread[t].pc = "upload"
    /\ objects' = objects \cup {thread[t].doc}
    /\ leaked' = leaked \cup {thread[t].doc}
    /\ faults' = faults - 1
    /\ Finish(t)
    /\ UNCHANGED <<owner, doc, about, members, lost>>

\* The parameters both handlers collect for the INSERT.
NewDocument(t) ==
    [NoDocument EXCEPT !.site = thread[t].site, !.uploaded = thread[t].pc = "insertUpload"]

\* Plausible bug: the row is stored without its organization.
StoreDocument_NoTenant(d, new, o) ==
    /\ Accepted(d, new, o)
    /\ owner' = [owner EXCEPT ![d] = None]
    /\ doc' = [doc EXCEPT ![d] = new]
    /\ UNCHANGED <<about, members>>

\* The query CreateDocument.
StoreDocument(d, new, o) ==
    /\ Accepted(d, new, o)
    /\ owner' = [owner EXCEPT ![d] = o]
    /\ doc' = [doc EXCEPT ![d] = new]
    /\ UNCHANGED <<about, members>>

\* Plausible bug: the cleanup is deferred and runs on success, too.
Create_AlwaysCleansUp(t) ==
    /\ thread[t].pc \in {"insert", "insertUpload"}
    /\ StoreDocument(thread[t].doc, NewDocument(t), thread[t].org)
    /\ Goto(t, "cleanup")
    /\ UNCHANGED <<objects, history>>

\* DocumentService.Create succeeds.
Create(t) ==
    /\ thread[t].pc \in {"insert", "insertUpload"}
    /\ StoreDocument(thread[t].doc, NewDocument(t), thread[t].org)
    /\ Finish(t)
    /\ UNCHANGED <<objects, history>>

\* Plausible bug: the error is returned without the cleanup.
AfterError_NoCleanup(t) == Finish(t)

\* What UploadDocument, and what CreateDocument does when Create fails.
AfterError(t) == IF thread[t].pc = "insertUpload" THEN Goto(t, "cleanup") ELSE Finish(t)

\* The database refuses the row: the site was deleted after it was checked.
CreateRefused(t) ==
    /\ thread[t].pc \in {"insert", "insertUpload"}
    /\ ~ Accepted(thread[t].doc, NewDocument(t), thread[t].org)
    /\ AfterError(t)
    /\ UNCHANGED <<owner, doc, about, members, objects, history>>

\* The INSERT takes place and its answer is lost: the handler sees an error.
CreateAnswerLost(t) ==
    /\ faults > 0
    /\ thread[t].pc \in {"insert", "insertUpload"}
    /\ StoreDocument(thread[t].doc, NewDocument(t), thread[t].org)
    /\ AfterError(t)
    /\ faults' = faults - 1
    /\ lost' = lost \cup {thread[t].doc}
    /\ UNCHANGED <<objects, leaked>>

\* "Best-effort cleanup: remove the uploaded object to avoid orphaned S3
\* objects."
Cleanup(t) ==
    /\ thread[t].pc = "cleanup"
    /\ objects' = objects \ {thread[t].doc}
    /\ Finish(t)
    /\ UNCHANGED <<owner, doc, about, members, history>>

\* The object that a thread has stored and not yet made a row for.
HeldObject(t) == {thread[t].doc} \cap objects

\* A call of the handler fails before it has an effect (an INSERT that fails
\* still leads to the cleanup) or the process stops; what was stored stays.
Fail(t) ==
    /\ faults > 0
    /\ thread[t].pc # "idle"
    /\ \/ /\ thread[t].pc = "insertUpload"
          /\ Goto(t, "cleanup")
          /\ UNCHANGED leaked
       \/ /\ Finish(t)
          /\ leaked' = IF thread[t].pc \in {"insertUpload", "cleanup"}
                       THEN leaked \cup HeldObject(t) ELSE leaked
    /\ faults' = faults - 1
    /\ UNCHANGED <<owner, doc, about, members, objects, lost>>

-----------------------------------------------------------------------------
(* PATCH /documents/:id/meta and DELETE /documents/:id *)

\* UpdateDocumentMeta hands every field that is present to UpdateMeta, whose
\* checks are one query each: the kind, the role, and that the bundle is a root
\* document of the tenant.
UpdateDocumentMeta(t, o, d, k, r, b) ==
    /\ thread[t].pc = "idle"
    /\ VisibleTo(k, o)
    /\ Become(t, [IdleThread EXCEPT !.pc = "metaRole", !.org = o, !.doc = d,
                                    !.kind = k, !.role = r, !.bundle = b])
    /\ UNCHANGED <<owner, doc, about, members, objects, history>>

MetaCheck(t, passed, next) ==
    /\ IF passed THEN Goto(t, next) ELSE Finish(t)
    /\ UNCHANGED <<owner, doc, about, members, objects, history>>

UpdateMetaRole(t) ==
    /\ thread[t].pc = "metaRole"
    /\ MetaCheck(t, VisibleTo(thread[t].role, thread[t].org), "metaBundle")

\* Plausible bug: any document of the tenant will do.
UpdateMetaBundle_AnyDocument(t) ==
    /\ thread[t].pc = "metaBundle"
    /\ MetaCheck(t, InOrg(thread[t].bundle, thread[t].org), "metaUpdate")

UpdateMetaBundle(t) ==
    LET b == thread[t].bundle IN
    /\ thread[t].pc = "metaBundle"
    /\ MetaCheck(t, InOrg(b, thread[t].org) /\ (b # None => doc[b].parent = None), "metaUpdate")

\* COALESCE($n, column).
Coalesce(new, old) == IF new = None THEN old ELSE new

WithMeta(t) ==
    LET old == doc[thread[t].doc] IN
    [old EXCEPT !.kind = Coalesce(thread[t].kind, @), !.role = Coalesce(thread[t].role, @),
                !.bundle = Coalesce(thread[t].bundle, @)]

\* The query UpdateDocumentMeta: only a root document of the tenant, and only
\* if the triggers accept what the row becomes.
UpdateMeta(t) ==
    LET d == thread[t].doc IN
    /\ thread[t].pc = "metaUpdate"
    /\ IF owner[d] = thread[t].org /\ doc[d].parent = None /\ Accepted(d, WithMeta(t), thread[t].org)
       THEN doc' = [doc EXCEPT ![d] = WithMeta(t)]
       ELSE UNCHANGED doc
    /\ Finish(t)
    /\ UNCHANGED <<owner, about, members, objects, history>>

\* DeleteDocument removes the row and its artifacts; the objects stay.
DeleteDocument(d, o) ==
    /\ owner[d] = o
    /\ DeleteRows(Derived(d))
    /\ UNCHANGED <<objects, thread, history>>

-----------------------------------------------------------------------------
(* Artifacts: WorkerService.registerConvertArtifacts *)

\* GetDocumentByID of the task's document, kept as a snapshot.
RegisterArtifacts(t, d) ==
    /\ thread[t].pc = "idle"
    /\ owner[d] \in Orgs
    /\ Become(t, [IdleThread EXCEPT !.pc = "artifact", !.org = owner[d], !.doc = d,
                                    !.site = doc[d].site])
    /\ UNCHANGED <<owner, doc, about, members, objects, history>>

\* The unique index idx_documents_artifact_kind (there is one kind here).
ArtifactsOf(d) == {a \in Docs : Live(a) /\ doc[a].parent = d}

ArtifactRow(t) == [NoDocument EXCEPT !.site = thread[t].site, !.parent = thread[t].doc]

\* Plausible bug: a plain INSERT, without the unique index.
CreateArtifactDocument_NoConflict(t) ==
    /\ thread[t].pc = "artifact"
    /\ IF ForeignKeys(ArtifactRow(t)) /\ check_document_org_isolation(ArtifactRow(t), thread[t].org)
       THEN \E a \in Docs : Fresh(a) /\ StoreDocument(a, ArtifactRow(t), thread[t].org)
       ELSE UNCHANGED rows
    /\ Finish(t)
    /\ UNCHANGED <<objects, history>>

\* The query CreateArtifactDocument: ON CONFLICT the existing row keeps its
\* references.  A refused row ends the registration.
CreateArtifactDocument(t) ==
    /\ thread[t].pc = "artifact"
    /\ IF /\ ForeignKeys(ArtifactRow(t)) /\ check_document_org_isolation(ArtifactRow(t), thread[t].org)
          /\ ArtifactsOf(thread[t].doc) = {}
       THEN \E a \in Docs : Fresh(a) /\ StoreDocument(a, ArtifactRow(t), thread[t].org)
       ELSE UNCHANGED rows
    /\ Finish(t)
    /\ UNCHANGED <<objects, history>>

-----------------------------------------------------------------------------
(* Sites, contract kinds and file roles *)

\* The rows other documents refer to.  Names, order and visibility of a
\* directory entry, and everything else of a site, are left out.
CreateRow(x, o) ==
    /\ owner[x] = "unused"
    /\ owner' = [owner EXCEPT ![x] = o]
    /\ UNCHANGED <<doc, about, members, objects, thread, history>>

CreateConstructionSite(s, o) == s \in Sites /\ CreateRow(s, o)
CreateContractKind(k, o) == k \in Kinds /\ CreateRow(k, o)
CreateFileRole(r, o) == r \in Roles /\ CreateRow(r, o)

\* DELETE ... WHERE id = $1 AND organization_id = $2: a row of the installation
\* belongs to no tenant and cannot be deleted.
DeleteRow(x, o) ==
    /\ owner[x] = o
    /\ DeleteRows({x})
    /\ UNCHANGED <<objects, thread, history>>

DeleteConstructionSite(s, o) == s \in Sites /\ DeleteRow(s, o)
DeleteContractKind(k, o) == k \in Kinds /\ DeleteRow(k, o)
DeleteFileRole(r, o) == r \in Roles /\ DeleteRow(r, o)

-----------------------------------------------------------------------------
(* Comparison sessions *)

\* ComparisonSessionService.Create checks the kind and then inserts.
CreateComparisonSession(t, o, c, k) ==
    /\ thread[t].pc = "idle"
    /\ VisibleTo(k, o)
    /\ Become(t, [IdleThread EXCEPT !.pc = "session", !.org = o, !.session = c, !.kind = k])
    /\ UNCHANGED <<owner, doc, about, members, objects, history>>

\* The foreign key asks only that the kind exists.
InsertComparisonSession(t) ==
    LET c == thread[t].session
        k == thread[t].kind IN
    /\ thread[t].pc = "session"
    /\ IF owner[c] = "unused" /\ (k # None => Live(k))
       THEN /\ owner' = [owner EXCEPT ![c] = thread[t].org]
            /\ about' = [about EXCEPT ![c] = k]
       ELSE UNCHANGED <<owner, about>>
    /\ Finish(t)
    /\ UNCHANGED <<doc, members, objects, history>>

\* AddDocumentToSession and RemoveDocumentFromSession: "Verify session belongs
\* to org."
SessionRequest(t, o, c, d, pc) ==
    /\ thread[t].pc = "idle"
    /\ owner[c] = o
    /\ Become(t, [IdleThread EXCEPT !.pc = pc, !.org = o, !.session = c, !.doc = d])
    /\ UNCHANGED <<owner, doc, about, members, objects, history>>

AddDocumentToSession(t, o, c, d) == SessionRequest(t, o, c, d, "addMember")
RemoveDocumentFromSession(t, o, c, d) == SessionRequest(t, o, c, d, "removeMember")

\* Plausible bug: two plain foreign keys instead of fk_csd_doc_org.
AddDocument_PlainKeys(t) ==
    LET c == thread[t].session
        d == thread[t].doc IN
    /\ thread[t].pc = "addMember"
    /\ members' = IF Live(c) /\ Live(d) THEN members \cup {<<c, d>>} ELSE members
    /\ Finish(t)
    /\ UNCHANGED <<owner, doc, about, objects, history>>

\* The keys of comparison_session_documents: the session exists, and the
\* document exists with the tenant of the request (fk_csd_doc_org).
AddDocument(t) ==
    LET c == thread[t].session
        d == thread[t].doc IN
    /\ thread[t].pc = "addMember"
    /\ members' = IF Live(c) /\ owner[d] = thread[t].org
                  THEN members \cup {<<c, d>>} ELSE members
    /\ Finish(t)
    /\ UNCHANGED <<owner, doc, about, objects, history>>

RemoveDocument(t) ==
    /\ thread[t].pc = "removeMember"
    /\ members' = members \ {<<thread[t].session, thread[t].doc>>}
    /\ Finish(t)
    /\ UNCHANGED <<owner, doc, about, objects, history>>

DeleteComparisonSession(c, o) == c \in Sessions /\ DeleteRow(c, o)

-----------------------------------------------------------------------------

Handler(t) ==
    \/ Upload(t) \/ UploadAnswerLost(t) \/ Create(t) \/ CreateRefused(t) \/ CreateAnswerLost(t)
    \/ Cleanup(t) \/ Fail(t)
    \/ UpdateMetaRole(t) \/ UpdateMetaBundle(t) \/ UpdateMeta(t)
    \/ CreateArtifactDocument(t)
    \/ InsertComparisonSession(t) \/ AddDocument(t) \/ RemoveDocument(t)

Request(t, o) ==
    \/ \E d \in Docs, s \in Sites \cup {None} :
          CreateDocument(t, o, d, s) \/ UploadDocument(t, o, d, s)
    \/ \E d \in Docs, k \in Kinds \cup {None}, r \in Roles \cup {None}, b \in Docs \cup {None} :
          UpdateDocumentMeta(t, o, d, k, r, b)
    \/ \E c \in Sessions, k \in Kinds \cup {None} : CreateComparisonSession(t, o, c, k)
    \/ \E c \in Sessions, d \in Docs :
          AddDocumentToSession(t, o, c, d) \/ RemoveDocumentFromSession(t, o, c, d)

Edit(o) ==
    \/ \E d \in Docs : DeleteDocument(d, o)
    \/ \E s \in Sites : CreateConstructionSite(s, o) \/ DeleteConstructionSite(s, o)
    \/ \E k \in Kinds : CreateContractKind(k, o) \/ DeleteContractKind(k, o)
    \/ \E r \in Roles : CreateFileRole(r, o) \/ DeleteFileRole(r, o)
    \/ \E c \in Sessions : DeleteComparisonSession(c, o)

Next ==
    \/ \E t \in Threads : Handler(t)
    \/ \E t \in Threads, o \in Orgs : Request(t, o)
    \/ \E t \in Threads, d \in Docs : RegisterArtifacts(t, d)
    \/ \E o \in Orgs : Edit(o)

Spec == Init /\ [][Next]_vars

-----------------------------------------------------------------------------
(* Properties *)

\* Tenant isolation and referential integrity, whatever was deleted between a
\* check and the write behind it: a document refers only to existing sites,
\* documents and directory entries of its own organization (or entries of the
\* installation), a session only to such a kind and to its own documents.
SameTenant ==
    /\ \A d \in Docs : Live(d) =>
          /\ InOrg(doc[d].site, owner[d])
          /\ InOrg(doc[d].parent, owner[d])
          /\ InOrg(doc[d].bundle, owner[d])
          /\ VisibleTo(doc[d].kind, owner[d])
          /\ VisibleTo(doc[d].role, owner[d])
    /\ \A c \in Sessions : Live(c) => VisibleTo(about[c], owner[c])
    /\ \A m \in members : Live(m[1]) /\ owner[m[2]] = owner[m[1]]

\* What UploadDocument stores is the file of a document that was made, or is
\* being dealt with, or a fault kept it from being removed: a refused row never
\* leaves its object behind.
NoOrphanedUpload ==
    \A k \in objects :
        \/ owner[k] # "unused"
        \/ \E t \in Threads : thread[t].pc \in {"insertUpload", "cleanup"} /\ thread[t].doc = k
        \/ k \in leaked

\* A document that was uploaded has its file, unless its INSERT took place
\* without the handler knowing.
UploadedHasObject ==
    \A d \in Docs : Live(d) /\ doc[d].uploaded => d \in objects \/ d \in lost

\* An artifact belongs to the site of its source, also when the site is deleted
\* between the read of the source and the INSERT of the artifact; a source has
\* one artifact of a kind, however often the worker reports it.
ArtifactFollowsSource ==
    \A d \in Docs : Live(d) =>
        /\ Cardinality(ArtifactsOf(d)) <= 1
        /\ \A a \in ArtifactsOf(d) : doc[a].site = doc[d].site /\ doc[a].bundle = None

\* bundle_id points to a root document, never to an artifact.
BundleIsRoot ==
    \A d \in Docs : Live(d) /\ doc[d].bundle # None => doc[doc[d].bundle].parent = None

=============================================================================
