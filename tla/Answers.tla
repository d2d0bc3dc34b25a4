------------------------------- MODULE Answers -------------------------------
(***************************************************************************)
(* Keys, extracted values and answers: the part of ExtractionService that  *)
(* works on extraction_keys and document_extracted_data.                   *)
(*                                                                         *)
(* A question is answered through three tables that no transaction ties    *)
(* together.  resolve_keys is offered the keys the tenant can see and      *)
(* returns a schema of key names and a list of new keys, which nobody      *)
(* compares with each other or with the keys there are; the callback       *)
(* stores the new keys one by one, then the schema, then starts extract;   *)
(* the extract callback looks the names up again and stores the values it  *)
(* can place; GET /extraction-requests/:id joins all three.  Values belong *)
(* to a document and a key, so the requests of a document share them.      *)
(*                                                                         *)
(* The text a request reads is there already, and its tasks are enqueued   *)
(* and published in one step: module Pipeline has those details.           *)
(***************************************************************************)
EXTENDS Naturals

CONSTANTS
    Orgs,         \* tenants
    System,       \* organization_id IS NULL
    Docs,         \* documents with the text that extract reads
    Owner,        \* the tenant of a document
    Names,        \* key names
    SystemKeys,   \* the names of the keys shared by all tenants
    Requests,     \* extraction_requests that may be created
    Threads,      \* HTTP handlers running at a time
    None,         \* no value
    MaxRepeats,   \* bound: repeated callbacks
    MaxFaults     \* bound: failed statements and aborted handlers

ASSUME KeysAssumption ==
    /\ Owner \in [Docs -> Orgs]
    /\ SystemKeys \subseteq Names
    /\ System \notin Orgs

ASSUME BoundsAssumption == MaxRepeats \in Nat /\ MaxFaults \in Nat

VARIABLES
    key,       \* extraction_keys
    data,      \* document_extracted_data: the request whose extract found it
    request,   \* extraction_requests
    offered,   \* existing_keys in the resolve_keys message of a request
    asked,     \* the schema in the extract message of a request
    answered,  \* the messages that were answered, once or more
    named,     \* history: the new keys stored before extract was started
    delivered, \* history: the names whose values completed a request
    thread,    \* the local state of every handler
    repeats,   \* repeated callbacks left
    faults     \* faults left

tables == <<key, data, request>>
messages == <<offered, asked, answered>>
history == <<named, delivered>>
bounds == <<repeats, faults>>
vars == <<key, data, request, offered, asked, answered, named, delivered, thread, repeats, faults>>

\* A key is identified by its tenant and its name (uq_extraction_keys_org_name).
KeyIds == (Orgs \cup {System}) \X Names

ASSUME NoneAssumption ==
    /\ None \notin Docs \cup Requests
    /\ \A ks \in SUBSET KeyIds : ks # None
    /\ \A names \in SUBSET Names : names # None

Request == [doc : Docs \cup {None}, resolved_schema : SUBSET Names,
            status : {"absent", "pending", "running", "completed", "failed"}]

\* keys: what the handler has listed or looked up; names: the schema or the
\* names of the payload it works on; new: the new keys still to be stored;
\* named: the new keys of the payload, without those that failed.
Thread == [pc : {"idle", "enqueueResolveKeys", "upsertKeys", "enqueueExtract",
                 "lookupKeys", "upsertData", "complete", "fail"},
           req : Requests \cup {None}, keys : SUBSET KeyIds,
           names : SUBSET Names, new : SUBSET Names, named : SUBSET Names]

IdleThread == [pc |-> "idle", req |-> None, keys |-> {}, names |-> {}, new |-> {}, named |-> {}]

Messages == Requests \X {"resolve_keys", "extract"}

TypeOK ==
    /\ key \subseteq KeyIds
    /\ data \in [Docs \X KeyIds -> Requests \cup {None}]
    /\ request \in [Requests -> Request]
    /\ offered \in [Requests -> (SUBSET KeyIds) \cup {None}]
    /\ asked \in [Requests -> (SUBSET Names) \cup {None}]
    /\ answered \subseteq Messages
    /\ named \in [Requests -> SUBSET Names]
    /\ delivered \in [Requests -> SUBSET Names]
    /\ thread \in [Threads -> Thread]
    /\ repeats \in Nat
    /\ faults \in Nat

Init ==
    /\ key = {System} \X SystemKeys
    /\ data = [x \in Docs \X KeyIds |-> None]
    /\ request = [r \in Requests |-> [doc |-> None, resolved_schema |-> {}, status |-> "absent"]]
    /\ offered = [r \in Requests |-> None]
    /\ asked = [r \in Requests |-> None]
    /\ answered = {}
    /\ named = [r \in Requests |-> {}]
    /\ delivered = [r \in Requests |-> {}]
    /\ thread = [p \in Threads |-> IdleThread]
    /\ repeats = MaxRepeats
    /\ faults = MaxFaults

-----------------------------------------------------------------------------
(* Statements *)

OrgOf(r) == Owner[request[r].doc]
NamesOf(ks) == {k[2] : k \in ks}
ReqOf(p) == thread[p].req

\* Plausible bug: the filter on the tenant is forgotten.
Visible_Anyone(org) == key

\* organization_id = $1 OR organization_id IS NULL.
Visible(org) == {k \in key : k[1] \in {org, System}}

ListExtractionKeysByOrg(org) == Visible(org)

\* DISTINCT ON (key_name): one key per name, the tenant's before the shared one.
GetExtractionKeysByNames(org, names) ==
    {k \in Visible(org) : /\ k[2] \in names
                          /\ k[1] = System => <<org, k[2]>> \notin key}

SetExtractionRequestStatus(r, s) == request' = [request EXCEPT ![r].status = s]

Goto(p, pc) == thread' = [thread EXCEPT ![p].pc = pc]

Return(p) == thread' = [thread EXCEPT ![p] = IdleThread]

-----------------------------------------------------------------------------
(* Initiate, Progress and enqueueResolveKeys *)

\* The request is created; Progress finds the text and lists the keys.
Initiate(p, r, d) ==
    /\ thread[p].pc = "idle"
    /\ request[r].status = "absent"
    /\ request' = [request EXCEPT ![r] = [doc |-> d, resolved_schema |-> {}, status |-> "pending"]]
    /\ thread' = [thread EXCEPT ![p] = [IdleThread EXCEPT
                      !.pc = "enqueueResolveKeys", !.req = r,
                      !.keys = ListExtractionKeysByOrg(Owner[d])]]
    /\ UNCHANGED <<key, data, messages, history, bounds>>

\* The message carries the keys as they were listed.
EnqueueResolveKeys(p) ==
    /\ thread[p].pc = "enqueueResolveKeys"
    /\ offered' = [offered EXCEPT ![ReqOf(p)] = thread[p].keys]
    /\ SetExtractionRequestStatus(ReqOf(p), "running")
    /\ Return(p)
    /\ UNCHANGED <<key, data, asked, answered, history, bounds>>

-----------------------------------------------------------------------------
(* The answers of the workers *)

\* resolve_keys returns the key names its questions need and the keys it calls
\* new: any names, the offered ones not excepted.  No schema fails the request.
ResolveKeysCompleted(p, r, schema, new) ==
    /\ thread[p].pc = "idle"
    /\ offered[r] # None
    /\ thread' = [thread EXCEPT ![p] = IF schema = {}
                      THEN [IdleThread EXCEPT !.pc = "fail", !.req = r]
                      ELSE [IdleThread EXCEPT !.pc = "upsertKeys", !.req = r,
                                !.names = schema, !.new = new, !.named = new]]
    /\ UNCHANGED <<tables, offered, asked, history, faults>>

\* extract returns values for some names, asked for or not.
ExtractCompleted(p, r, names) ==
    /\ thread[p].pc = "idle"
    /\ asked[r] # None
    /\ thread' = [thread EXCEPT ![p] = [IdleThread EXCEPT
                      !.pc = "lookupKeys", !.req = r, !.names = names]]
    /\ UNCHANGED <<tables, offered, asked, history, faults>>

\* The first answer to a message, or a repeated one, of which there are few.
Answer(m) ==
    /\ answered' = answered \cup {m}
    /\ m \in answered => repeats > 0
    /\ repeats' = IF m \in answered THEN repeats - 1 ELSE repeats

WorkerAnswer(p, r) ==
    \/ /\ \E schema, new \in SUBSET Names : ResolveKeysCompleted(p, r, schema, new)
       /\ Answer(<<r, "resolve_keys">>)
    \/ /\ \E names \in SUBSET Names : ExtractCompleted(p, r, names)
       /\ Answer(<<r, "extract">>)

-----------------------------------------------------------------------------
(* OnResolveKeysCompleted *)

\* INSERT ... ON CONFLICT DO UPDATE, one new key at a time.
UpsertExtractionKey(p) ==
    /\ thread[p].pc = "upsertKeys"
    /\ \E n \in thread[p].new :
         /\ key' = key \cup {<<OrgOf(ReqOf(p)), n>>}
         /\ thread' = [thread EXCEPT ![p].new = @ \ {n}]
    /\ UNCHANGED <<data, request, messages, history, bounds>>

\* Plausible bug: the extraction is started without waiting for the keys.
KeysStored_Assumed(p) == TRUE

KeysStored(p) == thread[p].new = {}

SetResolvedSchema(p) ==
    /\ thread[p].pc = "upsertKeys"
    /\ KeysStored(p)
    /\ request' = [request EXCEPT ![ReqOf(p)].resolved_schema = thread[p].names]
    /\ Goto(p, "enqueueExtract")
    /\ UNCHANGED <<key, data, messages, history, bounds>>

\* INSERT ... ON CONFLICT DO NOTHING: extract is started once, with the schema
\* of this callback.
EnqueueExtract(p) ==
    /\ thread[p].pc = "enqueueExtract"
    /\ IF asked[ReqOf(p)] = None
       THEN /\ asked' = [asked EXCEPT ![ReqOf(p)] = thread[p].names]
            /\ named' = [named EXCEPT ![ReqOf(p)] = thread[p].named]
       ELSE UNCHANGED <<asked, named>>
    /\ Return(p)
    /\ UNCHANGED <<tables, offered, answered, delivered, bounds>>

-----------------------------------------------------------------------------
(* OnExtractCompleted and persistExtractedData *)

LookupKeys(p) ==
    /\ thread[p].pc = "lookupKeys"
    /\ thread' = [thread EXCEPT ![p].pc = "upsertData",
                      ![p].keys = GetExtractionKeysByNames(OrgOf(ReqOf(p)), thread[p].names)]
    /\ UNCHANGED <<tables, messages, history, bounds>>

\* Plausible bug: a name without a value overwrites what is stored.
Written_WithNulls(p, x) ==
    IF x[1] = request[ReqOf(p)].doc /\ x[2] \in thread[p].keys THEN ReqOf(p)
    ELSE IF x[1] = request[ReqOf(p)].doc /\ x[2][2] \in asked[ReqOf(p)] THEN None
    ELSE data[x]

\* The latest value wins; names without a value or without a key are skipped.
Written(p, x) ==
    IF x[1] = request[ReqOf(p)].doc /\ x[2] \in thread[p].keys THEN ReqOf(p) ELSE data[x]

BatchUpsertExtractedData(p) ==
    /\ thread[p].pc = "upsertData"
    /\ data' = [x \in Docs \X KeyIds |-> Written(p, x)]
    /\ thread' = [thread EXCEPT ![p].pc = "complete", ![p].keys = {}]
    /\ UNCHANGED <<key, request, messages, history, bounds>>

Complete(p) ==
    /\ thread[p].pc = "complete"
    /\ SetExtractionRequestStatus(ReqOf(p), "completed")
    /\ delivered' = [delivered EXCEPT ![ReqOf(p)] = @ \cup thread[p].names]
    /\ Return(p)
    /\ UNCHANGED <<key, data, messages, named, bounds>>

-----------------------------------------------------------------------------
(* Failures *)

\* A statement fails: a key is skipped, anything else fails the request.  What
\* fails inside Initiate, or while the request is being failed, is only logged.
StepError(p) ==
    /\ faults > 0
    /\ faults' = faults - 1
    /\ \/ thread[p].pc = "upsertKeys" /\ \E n \in thread[p].new :
             thread' = [thread EXCEPT ![p].new = @ \ {n}, ![p].named = @ \ {n}]
       \/ /\ thread[p].pc \in {"upsertKeys", "enqueueExtract", "lookupKeys", "upsertData", "complete"}
          /\ thread' = [thread EXCEPT ![p] = [IdleThread EXCEPT !.pc = "fail", !.req = ReqOf(p)]]
       \/ thread[p].pc \in {"enqueueResolveKeys", "fail"} /\ Return(p)
    /\ UNCHANGED <<tables, messages, history, repeats>>

\* Plausible bug: a word that is not a status of a request.
Fail_Error(p) ==
    /\ thread[p].pc = "fail"
    /\ SetExtractionRequestStatus(ReqOf(p), "error")
    /\ Return(p)
    /\ UNCHANGED <<key, data, messages, history, bounds>>

\* MarkRequestFailed.
Fail(p) ==
    /\ thread[p].pc = "fail"
    /\ SetExtractionRequestStatus(ReqOf(p), "failed")
    /\ Return(p)
    /\ UNCHANGED <<key, data, messages, history, bounds>>

\* The process dies in the middle.
Abort(p) ==
    /\ thread[p].pc # "idle"
    /\ faults > 0
    /\ faults' = faults - 1
    /\ Return(p)
    /\ UNCHANGED <<tables, messages, history, repeats>>

Next ==
    \E p \in Threads :
        \/ \E r \in Requests : \/ \E d \in Docs : Initiate(p, r, d)
                               \/ WorkerAnswer(p, r)
        \/ EnqueueResolveKeys(p)
        \/ UpsertExtractionKey(p) \/ SetResolvedSchema(p) \/ EnqueueExtract(p)
        \/ LookupKeys(p) \/ BatchUpsertExtractedData(p) \/ Complete(p)
        \/ StepError(p) \/ Fail(p) \/ Abort(p)

Spec == Init /\ [][Next]_vars

-----------------------------------------------------------------------------
(* Properties *)

\* The rows of a document that belong to keys of these names; all of them are
\* rows of the document's tenant.
ListExtractedDataForKeys(d, names) == {k \in key : data[<<d, k>>] # None /\ k[2] \in names}

\* What GET shows for a request: the values of the keys in its schema.
GetAnswers(r) ==
    IF request[r].resolved_schema = {} THEN {}
    ELSE ListExtractedDataForKeys(request[r].doc, request[r].resolved_schema)

\* The names with a key of their own or a shared one when extract was started:
\* they were offered to resolve_keys, or stored as new keys.
Placeable(r) == NamesOf(offered[r]) \cup named[r]

\* A value that completed a request has a place: each name extract returned a
\* value for shows a value for as long as the schema asks for the name, if the
\* name was offered to resolve_keys or is one of the new keys that were stored
\* before extract was started.  (The value need not be the one this request
\* found: a document has one value per key, and the latest wins.  The other
\* names, which new_keys left out or whose insert failed, are skipped with a
\* warning.)
CompletedIsAnswered ==
    \A r \in Requests : \A n \in delivered[r] \cap request[r].resolved_schema :
        n \in Placeable(r) => n \in NamesOf(GetAnswers(r))

\* Tenants do not learn each other's keys or values: what resolve_keys is
\* offered and what GET shows comes from the tenant's own keys and the shared
\* ones, from a request on the same document, and no tenant's key is shared.
\* So the trigger trg_document_extracted_data_key_org never has to refuse a row.
TenantIsolation ==
    /\ \A r \in Requests : offered[r] # None => \A k \in offered[r] : k[1] \in {OrgOf(r), System}
    /\ \A d \in Docs, k \in KeyIds : data[<<d, k>>] # None =>
          k[1] \in {Owner[d], System} /\ request[data[<<d, k>>]].doc = d
    /\ \A n \in Names : <<System, n>> \in key => n \in SystemKeys

\* An answer, once shown, is not taken back by a later extraction on the same
\* document that finds nothing for the key.
AnswersStay ==
    [][\A r \in Requests : \A k \in GetAnswers(r) :
         k[2] \in request'[r].resolved_schema => k \in GetAnswers(r)']_vars
=============================================================================
