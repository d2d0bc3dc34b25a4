------------------------------- MODULE Pipeline -------------------------------
(***************************************************************************)
(* The extraction pipeline: WorkerService.HandleStatusUpdate and           *)
(* ExtractionService (internal/service), which chain                       *)
(*     convert -> anonymize -> resolve_keys -> extract                     *)
(* through the tables documents, document_tasks and extraction_requests    *)
(* and the Celery queue.                                                   *)
(*                                                                         *)
(* A thread is one HTTP request being served, by any replica.  Each SQL    *)
(* statement and each publication is one step of it, because none of the   *)
(* chaining runs in a transaction: what a thread has read is held in its   *)
(* local state while the tables go on changing.  The Python workers are    *)
(* external: a worker answers a message it received, and the broker may    *)
(* deliver a message again.  The watchdog is reduced to its effect on a    *)
(* stale task (module Watchdog has the details).                           *)
(***************************************************************************)
EXTENDS Naturals

CONSTANTS
    Docs,          \* documents uploaded by users
    Requests,      \* extraction_requests that may be created
    Threads,       \* HTTP handlers running at a time
    Schemas,       \* the schemas resolve_keys may come back with
    None,          \* no value
    MaxRetries,    \* cfg.WatchdogMaxRetries
    MaxRepeats,    \* bound: repeated deliveries and "processing" callbacks
    MaxStale,      \* bound: interventions of the watchdog
    MaxFaults      \* bound: failed statements, failed publishes, aborts

ASSUME BoundsAssumption ==
    /\ MaxRetries \in Nat
    /\ MaxRepeats \in Nat
    /\ MaxStale \in Nat
    /\ MaxFaults \in Nat

Singletons == {"convert", "anonymize"}
PerRequest == {"resolve_keys", "extract"}

\* The unique indexes uq_document_tasks_doc_singleton and
\* uq_document_tasks_request_module: at most one row per document and module,
\* or per request and module.
TaskIds == (Docs \X Singletons) \cup (Requests \X PerRequest)

VARIABLES
    task,      \* document_tasks, one entry per possible row
    request,   \* extraction_requests
    artifact,  \* documents with a parent: the kinds registered for a document
    keys,      \* requests whose new keys are in extraction_keys
    answers,   \* requests whose values, if any, are in document_extracted_data
    queue,     \* messages pushed and not yet answered by a worker
    answered,  \* messages a worker has answered
    pushes,    \* how often a handler pushed a message for a task
    thread,    \* the local state of every handler
    repeats,   \* repeated deliveries left
    stale,     \* watchdog interventions left
    faults,    \* faults left
    stranded   \* history: requests and failed tasks of which no callback tells
               \* them: made after the failure, or waiting at a give-up

tables == <<task, request, artifact, keys, answers>>
broker == <<queue, answered, pushes>>
auxiliary == <<repeats, stale, faults, stranded>>
vars == <<task, request, artifact, keys, answers, queue, answered, pushes,
          thread, repeats, stale, faults, stranded>>

Active == {"pending", "processing"}
TaskStatuses == Active \cup {"absent", "completed", "failed"}
InFlight == {"pending", "running"}
RequestStatuses == InFlight \cup {"absent", "completed", "failed"}
Kinds == {"convert_md", "anonymize_doc", "anonymize_entities"}

\* result_payload: "empty" is {}, the default of the column; "raw" is what a
\* worker sends that did its job (the storage paths, or the extracted values),
\* "final" the form with document ids that replaces it; "malformed" does not
\* parse into the struct its module's callback expects.
Payloads == {"empty", "malformed", "raw", "final"} \cup Schemas

\* What a worker has failed to deliver is not in these.
Useless == {"empty", "malformed"}

\* input is what input_storage_path points to.
Task == [status : TaskStatuses, payload : Payloads,
         input : Kinds \cup {"original"}, retry_count : Nat]

Request == [status : RequestStatuses, doc : Docs \cup {None},
            anonymize : BOOLEAN, resolved_schema : Schemas \cup {None}]

\* kwargs of the Celery message.
Message == [task : TaskIds, kwargs : {"none", "questions"} \cup Schemas]

\* A row of extraction_requests as a thread has it in memory.
Snapshot == [id : Requests, status : InFlight]

ASSUME NoneAssumption ==
    None \notin Docs \cup Requests \cup TaskIds \cup Schemas \cup Snapshot

Pcs == {"idle", "registerConvert", "convertPayload", "triggerAnonymize",
        "registerAnonymize", "registerEntities", "anonymizePayload",
        "listProgress", "loop", "ensureConvert", "ensureAnonymize",
        "createResolveKeys", "setRunning", "publish", "markTaskFailed",
        "markRequestFailed", "upsertKeys", "saveSchema", "findTarget",
        "createExtract", "persist", "complete", "failRequest",
        "listFail", "failLoop"}

\* task, payload: the row UpdateWorkerTaskStatus returned; doc: its document;
\* todo, req: requests to progress and the one being progressed; made: the
\* task this thread inserted and publishes; after: where publishing returns
\* to; lenient: a failed publish leaves the task pending.
Thread == [pc : Pcs, task : TaskIds \cup {None}, payload : Payloads,
           doc : Docs \cup {None}, todo : SUBSET Snapshot,
           req : Snapshot \cup {None}, made : TaskIds \cup {None},
           after : {"loop", "listProgress"}, lenient : BOOLEAN]

IdleThread == [pc |-> "idle", task |-> None, payload |-> "empty", doc |-> None,
               todo |-> {}, req |-> None, made |-> None, after |-> "loop",
               lenient |-> FALSE]

TypeOK ==
    /\ task \in [TaskIds -> Task]
    /\ request \in [Requests -> Request]
    /\ artifact \in [Docs -> SUBSET Kinds]
    /\ keys \subseteq Requests
    /\ answers \subseteq Requests
    /\ queue \subseteq Message
    /\ answered \subseteq Message
    /\ pushes \in [TaskIds -> Nat]
    /\ thread \in [Threads -> Thread]
    /\ repeats \in Nat
    /\ stale \in Nat
    /\ faults \in Nat
    /\ stranded \subseteq Requests \X TaskIds

Init ==
    /\ task = [id \in TaskIds |-> [status |-> "absent", payload |-> "empty",
                                   input |-> "original", retry_count |-> 0]]
    /\ request = [r \in Requests |-> [status |-> "absent", doc |-> None,
                                      anonymize |-> FALSE, resolved_schema |-> None]]
    /\ artifact = [d \in Docs |-> {}]
    /\ keys = {}
    /\ answers = {}
    /\ queue = {}
    /\ answered = {}
    /\ pushes = [id \in TaskIds |-> 0]
    /\ thread = [p \in Threads |-> IdleThread]
    /\ repeats = MaxRepeats
    /\ stale = MaxStale
    /\ faults = MaxFaults
    /\ stranded = {}

-----------------------------------------------------------------------------
(* Statements and helpers *)

Exists(id) == task[id].status # "absent"

DocOf(id) == IF id[2] \in Singletons THEN id[1] ELSE request[id[1]].doc

\* The request a thread's task belongs to (task.ExtractionRequestID).
RequestOf(p) == thread[p].task[1]

\* Plausible bug: the flag is ignored.
Target_PlainText(r) == "convert_md"

\* anonymize_doc when the request wants the anonymized text, else convert_md.
Target(r) == IF request[r].anonymize THEN "anonymize_doc" ELSE "convert_md"

\* The singleton tasks a request on d has to wait for.
Prerequisites(d, anonymize) ==
    IF anonymize THEN {<<d, "convert">>, <<d, "anonymize">>} ELSE {<<d, "convert">>}

\* The tasks whose callback moves request r on, given how far it has come.
Wakers(r) ==
    IF Exists(<<r, "extract">>) THEN {<<r, "extract">>}
    ELSE IF Exists(<<r, "resolve_keys">>) THEN {<<r, "resolve_keys">>}
    ELSE Prerequisites(request[r].doc, request[r].anonymize)

\* UPDATE extraction_requests SET status = $2: no condition on the status.
SetExtractionRequestStatus(r, s) ==
    request' = [request EXCEPT ![r].status = s]

\* Plausible bug: only the running requests are listed.
PendingRequests_RunningOnly(d) ==
    {[id |-> r, status |-> request[r].status] :
        r \in {q \in Requests : request[q].doc = d /\ request[q].status = "running"}}

\* SELECT ... WHERE document_id = $1 AND status IN ('pending', 'running').
PendingRequests(d) ==
    {[id |-> r, status |-> request[r].status] :
        r \in {q \in Requests : request[q].doc = d /\ request[q].status \in InFlight}}

\* INSERT ... ON CONFLICT DO NOTHING, when there is no conflict.
InsertTask(id, in) ==
    task' = [task EXCEPT ![id] = [status |-> "pending", payload |-> "empty",
                                  input |-> in, retry_count |-> 0]]

UpdateTaskResultPayload(id, x) == task' = [task EXCEPT ![id].payload = x]

Goto(p, pc) == thread' = [thread EXCEPT ![p].pc = pc]

\* The handler returns.
Return(p) == thread' = [thread EXCEPT ![p] = IdleThread]

\* Go on with the next request of progressPendingRequests, or return.
Loop(p) ==
    thread' = [thread EXCEPT ![p] =
        IF @.todo = {} THEN IdleThread ELSE [@ EXCEPT !.pc = "loop", !.made = None]]

\* One request less to go through; return after the last.
DropRequest(p, q) ==
    thread' = [thread EXCEPT ![p] =
        IF thread[p].todo = {q} THEN IdleThread
        ELSE [thread[p] EXCEPT !.todo = thread[p].todo \ {q}]]

\* A task was inserted: publish it next.
PublishNext(p, id, pc) ==
    thread' = [thread EXCEPT ![p] = [@ EXCEPT !.pc = pc, !.made = id]]

\* Where the thread goes once the task it made is dealt with.
AfterPublish(p) ==
    IF thread[p].after = "listProgress" THEN Goto(p, "listProgress") ELSE Loop(p)

-----------------------------------------------------------------------------
(* ExtractionService.Initiate and DocumentTaskService.Create *)

\* POST /documents/:id/extract: CreateExtractionRequest; Progress follows with
\* the row that was inserted.
Initiate(p, r, d, anonymize) ==
    /\ thread[p].pc = "idle"
    /\ request[r].status = "absent"
    /\ request' = [request EXCEPT ![r] = [status |-> "pending", doc |-> d,
                       anonymize |-> anonymize, resolved_schema |-> None]]
    /\ thread' = [thread EXCEPT ![p] = [IdleThread EXCEPT
                      !.pc = "loop", !.doc = d,
                      !.todo = {[id |-> r, status |-> "pending"]}]]
    /\ stranded' = stranded \cup
         ({r} \X {id \in Prerequisites(d, anonymize) : task[id].status = "failed"})
    /\ UNCHANGED <<task, artifact, keys, answers, broker, repeats, stale, faults>>

\* POST /tasks: only convert, 409 when the singleton exists.
CreateConvert(p, d) ==
    /\ thread[p].pc = "idle"
    /\ ~Exists(<<d, "convert">>)
    /\ InsertTask(<<d, "convert">>, "original")
    /\ thread' = [thread EXCEPT ![p] = [IdleThread EXCEPT
                      !.pc = "publish", !.made = <<d, "convert">>, !.lenient = TRUE]]
    /\ UNCHANGED <<request, artifact, keys, answers, broker, auxiliary>>

-----------------------------------------------------------------------------
(* WorkerService.HandleStatusUpdate *)

\* COALESCE($4, result_payload): an absent result leaves the row's.
Coalesce(new, old) == IF new = "NULL" THEN old ELSE new

\* The branch HandleStatusUpdate takes after the update of the row.
Branch(module, status, payload) ==
    CASE status = "processing"                          -> "idle"
      [] status = "failed" /\ module \in Singletons     -> "listFail"
      [] status = "failed" /\ module \in PerRequest     -> "failRequest"
      [] status = "completed" /\ module = "convert"     ->
            IF payload = "raw" THEN "registerConvert" ELSE "listProgress"
      [] status = "completed" /\ module = "anonymize"   ->
            IF payload = "raw" THEN "registerAnonymize" ELSE "listProgress"
      [] status = "completed" /\ module = "resolve_keys" ->
            IF payload \in Schemas THEN "upsertKeys" ELSE "failRequest"
      [] status = "completed" /\ module = "extract"     ->
            IF payload \in {"raw", "empty"} THEN "persist" ELSE "failRequest"

\* UpdateWorkerTaskStatus: status unconditionally, result_payload coalesced.
HandleStatusUpdate(p, id, s, new) ==
    LET payload == Coalesce(new, task[id].payload)
        pc      == Branch(id[2], s, payload) IN
    /\ thread[p].pc = "idle"
    /\ task' = [task EXCEPT ![id].status = s, ![id].payload = payload]
    /\ IF pc = "idle"
       THEN UNCHANGED thread
       ELSE thread' = [thread EXCEPT ![p] = [IdleThread EXCEPT
                !.pc = pc, !.task = id, !.payload = payload, !.doc = DocOf(id)]]
    /\ UNCHANGED <<request, artifact, keys, answers, pushes>>

\* result_payload of a "completed" callback: what the module is to deliver, {},
\* something else, or nothing.
Results(id) ==
    (IF id[2] = "resolve_keys" THEN Schemas ELSE {"raw"}) \cup Useless \cup {"NULL"}

\* resolve_keys and extract cannot run without their named arguments.
CanComplete(m) == m.task[2] \in PerRequest => m.kwargs # "none"

\* The first answer to a message: completed or failed.
WorkerAnswer(p, m) ==
    /\ m \in queue
    /\ \/ CanComplete(m) /\ \E x \in Results(m.task) :
             HandleStatusUpdate(p, m.task, "completed", x)
       \/ HandleStatusUpdate(p, m.task, "failed", "NULL")
    /\ queue' = queue \ {m}
    /\ answered' = answered \cup {m}
    /\ UNCHANGED auxiliary

\* A "processing" callback, or the answer to a message delivered once more.
WorkerRepeat(p, m) ==
    /\ repeats > 0
    /\ repeats' = repeats - 1
    /\ \/ m \in queue \cup answered /\ HandleStatusUpdate(p, m.task, "processing", "NULL")
       \/ /\ m \in answered
          /\ \/ CanComplete(m) /\ \E x \in Results(m.task) :
                   HandleStatusUpdate(p, m.task, "completed", x)
             \/ HandleStatusUpdate(p, m.task, "failed", "NULL")
    /\ UNCHANGED <<queue, answered, stale, faults, stranded>>

\* Plausible bug: registration is left to the anonymize callback (the mistake
\* the comment in HandleStatusUpdate warns of).
RegisterConvert_Skipped(p) ==
    /\ thread[p].pc = "registerConvert"
    /\ Goto(p, "convertPayload")
    /\ UNCHANGED <<tables, broker, auxiliary>>

\* registerConvertArtifacts: CreateArtifactDocument, an upsert.
RegisterConvert(p) ==
    /\ thread[p].pc = "registerConvert"
    /\ artifact' = [artifact EXCEPT ![thread[p].doc] = @ \cup {"convert_md"}]
    /\ Goto(p, "convertPayload")
    /\ UNCHANGED <<task, request, keys, answers, broker, auxiliary>>

ConvertPayload(p) ==
    /\ thread[p].pc = "convertPayload"
    /\ UpdateTaskResultPayload(thread[p].task, "final")
    /\ Goto(p, "triggerAnonymize")
    /\ UNCHANGED <<request, artifact, keys, answers, broker, auxiliary>>

\* Plausible bug: an existing task is taken for a new one.
TriggerAnonymize_NoConflict(p) ==
    LET id == <<thread[p].doc, "anonymize">> IN
    /\ thread[p].pc = "triggerAnonymize"
    /\ InsertTask(id, "convert_md")
    /\ thread' = [thread EXCEPT ![p] = [@ EXCEPT
           !.pc = "publish", !.made = id, !.after = "listProgress"]]
    /\ UNCHANGED <<request, artifact, keys, answers, broker, auxiliary>>

\* triggerAnonymize: CreateDocumentTaskSingleton, skipped when it exists.
TriggerAnonymize(p) ==
    LET id == <<thread[p].doc, "anonymize">> IN
    /\ thread[p].pc = "triggerAnonymize"
    /\ IF Exists(id)
       THEN Goto(p, "listProgress") /\ UNCHANGED task
       ELSE /\ InsertTask(id, "convert_md")
            /\ thread' = [thread EXCEPT ![p] = [@ EXCEPT
                   !.pc = "publish", !.made = id, !.after = "listProgress"]]
    /\ UNCHANGED <<request, artifact, keys, answers, broker, auxiliary>>

RegisterAnonymize(p) ==
    /\ thread[p].pc = "registerAnonymize"
    /\ artifact' = [artifact EXCEPT ![thread[p].doc] = @ \cup {"anonymize_doc"}]
    /\ Goto(p, "registerEntities")
    /\ UNCHANGED <<task, request, keys, answers, broker, auxiliary>>

RegisterEntities(p) ==
    /\ thread[p].pc = "registerEntities"
    /\ artifact' = [artifact EXCEPT ![thread[p].doc] = @ \cup {"anonymize_entities"}]
    /\ Goto(p, "anonymizePayload")
    /\ UNCHANGED <<task, request, keys, answers, broker, auxiliary>>

AnonymizePayload(p) ==
    /\ thread[p].pc = "anonymizePayload"
    /\ UpdateTaskResultPayload(thread[p].task, "final")
    /\ Goto(p, "listProgress")
    /\ UNCHANGED <<request, artifact, keys, answers, broker, auxiliary>>

\* progressPendingRequests: the requests as they are now; the loop over them
\* works on this copy.
ListProgress(p) ==
    LET rows == PendingRequests(thread[p].doc) IN
    /\ thread[p].pc = "listProgress"
    /\ thread' = [thread EXCEPT ![p] =
         IF rows = {} THEN IdleThread
         ELSE [@ EXCEPT !.pc = "loop", !.todo = rows, !.made = None, !.after = "loop"]]
    /\ UNCHANGED <<tables, broker, auxiliary>>

\* failPendingRequests: the listing ...
ListFail(p) ==
    LET rows == PendingRequests(thread[p].doc) IN
    /\ thread[p].pc = "listFail"
    /\ thread' = [thread EXCEPT ![p] =
         IF rows = {} THEN IdleThread ELSE [@ EXCEPT !.pc = "failLoop", !.todo = rows]]
    /\ UNCHANGED <<tables, broker, auxiliary>>

\* ... and one MarkRequestFailed per listed request.
FailLoop(p) ==
    /\ thread[p].pc = "failLoop"
    /\ \E q \in thread[p].todo :
         /\ SetExtractionRequestStatus(q.id, "failed")
         /\ DropRequest(p, q)
    /\ UNCHANGED <<task, artifact, keys, answers, broker, auxiliary>>

\* MarkRequestFailed after a failed per-request task or a failed chaining step.
FailRequest(p) ==
    /\ thread[p].pc = "failRequest"
    /\ SetExtractionRequestStatus(RequestOf(p), "failed")
    /\ Return(p)
    /\ UNCHANGED <<task, artifact, keys, answers, broker, auxiliary>>

-----------------------------------------------------------------------------
(* ExtractionService.Progress and the enqueueing of tasks *)

\* The listing of the artifacts and the decision taken on it.  The order of
\* the requests (by created_at) plays no part.
Progress(p) ==
    /\ thread[p].pc = "loop"
    /\ \E q \in thread[p].todo :
         LET found == artifact[thread[p].doc]
             next == IF Target(q.id) \in found THEN "createResolveKeys"
                     ELSE IF request[q.id].anonymize /\ "convert_md" \in found
                     THEN "ensureAnonymize"
                     ELSE "ensureConvert"
         IN thread' = [thread EXCEPT ![p] = [@ EXCEPT
                !.pc = next, !.req = q, !.todo = thread[p].todo \ {q}]]
    /\ UNCHANGED <<tables, broker, auxiliary>>

\* Plausible bug: the status is set to running before the conflict is seen.
CreateResolveKeys_RunsAgain(p) ==
    LET r  == thread[p].req.id
        id == <<r, "resolve_keys">> IN
    /\ thread[p].pc = "createResolveKeys"
    /\ SetExtractionRequestStatus(r, "running")
    /\ IF Exists(id)
       THEN Loop(p) /\ UNCHANGED task
       ELSE InsertTask(id, Target(r)) /\ PublishNext(p, id, "publish")
    /\ UNCHANGED <<artifact, keys, answers, broker, auxiliary>>

\* enqueueResolveKeys: CreateDocumentTaskForRequest, and whether the status is
\* set to running is decided by the copy of the request.
CreateResolveKeys(p) ==
    LET r  == thread[p].req.id
        id == <<r, "resolve_keys">> IN
    /\ thread[p].pc = "createResolveKeys"
    /\ IF Exists(id)
       THEN Loop(p) /\ UNCHANGED task
       ELSE /\ InsertTask(id, Target(r))
            /\ PublishNext(p, id,
                 IF thread[p].req.status = "pending" THEN "setRunning" ELSE "publish")
    /\ UNCHANGED <<request, artifact, keys, answers, broker, auxiliary>>

\* Plausible bug: the word for a running task is written to the request.
SetRunning_Processing(p) ==
    /\ thread[p].pc = "setRunning"
    /\ SetExtractionRequestStatus(thread[p].req.id, "processing")
    /\ Goto(p, "publish")
    /\ UNCHANGED <<task, artifact, keys, answers, broker, auxiliary>>

SetRunning(p) ==
    /\ thread[p].pc = "setRunning"
    /\ SetExtractionRequestStatus(thread[p].req.id, "running")
    /\ Goto(p, "publish")
    /\ UNCHANGED <<task, artifact, keys, answers, broker, auxiliary>>

\* ensureConvertTask and ensureAnonymizeTask.
Ensure(p, pc, module, in) ==
    LET id == <<thread[p].doc, module>> IN
    /\ thread[p].pc = pc
    /\ IF Exists(id)
       THEN Loop(p) /\ UNCHANGED task
       ELSE InsertTask(id, in) /\ PublishNext(p, id, "publish")
    /\ UNCHANGED <<request, artifact, keys, answers, broker, auxiliary>>

EnsureConvert(p) == Ensure(p, "ensureConvert", "convert", "original")
EnsureAnonymize(p) == Ensure(p, "ensureAnonymize", "anonymize", "convert_md")

\* The Kwargs of the ProcessRequest.
Kwargs(p) ==
    CASE thread[p].made[2] = "resolve_keys" -> "questions"
      [] thread[p].made[2] = "extract"      -> thread[p].payload
      [] OTHER                              -> "none"

\* pythonClient.Process: one LPUSH.
Push(p) ==
    /\ queue' = (queue \cup {[task |-> thread[p].made, kwargs |-> Kwargs(p)]})
    /\ pushes' = [pushes EXCEPT ![thread[p].made] = @ + 1]
    /\ UNCHANGED answered

Publish(p) ==
    /\ thread[p].pc = "publish"
    /\ Push(p)
    /\ AfterPublish(p)
    /\ UNCHANGED <<tables, auxiliary>>

\* Process returned an error; the message may have been pushed.
PublishError(p) ==
    /\ thread[p].pc = "publish"
    /\ faults > 0
    /\ faults' = faults - 1
    /\ Push(p) \/ UNCHANGED broker
    /\ IF thread[p].lenient THEN Return(p) ELSE Goto(p, "markTaskFailed")
    /\ UNCHANGED <<tables, repeats, stale, stranded>>

AfterTaskFailed(p) ==
    IF thread[p].made[2] \in PerRequest THEN Goto(p, "markRequestFailed") ELSE AfterPublish(p)

\* markTaskFailed; the owning request of a per-request task fails as well.
MarkTaskFailed(p) ==
    /\ thread[p].pc = "markTaskFailed"
    /\ task' = [task EXCEPT ![thread[p].made].status = "failed"]
    /\ AfterTaskFailed(p)
    /\ UNCHANGED <<request, artifact, keys, answers, broker, auxiliary>>

\* The error of enqueueExtract makes HandleStatusUpdate fail the request once
\* more; that of enqueueResolveKeys is logged.
AfterRequestFailed(p) ==
    IF thread[p].made[2] = "extract" THEN Goto(p, "failRequest") ELSE Loop(p)

MarkRequestFailed(p) ==
    /\ thread[p].pc = "markRequestFailed"
    /\ SetExtractionRequestStatus(thread[p].made[1], "failed")
    /\ AfterRequestFailed(p)
    /\ UNCHANGED <<task, artifact, keys, answers, broker, auxiliary>>

-----------------------------------------------------------------------------
(* ExtractionService.OnResolveKeysCompleted and OnExtractCompleted *)

\* UpsertExtractionKey for the new keys.
UpsertKeys(p) ==
    /\ thread[p].pc = "upsertKeys"
    /\ keys' = keys \cup {RequestOf(p)}
    /\ Goto(p, "saveSchema")
    /\ UNCHANGED <<task, request, artifact, answers, broker, auxiliary>>

\* Plausible bug: the schema is passed on but not stored.
SaveSchema_Skipped(p) ==
    /\ thread[p].pc = "saveSchema"
    /\ Goto(p, "findTarget")
    /\ UNCHANGED <<tables, broker, auxiliary>>

SaveSchema(p) ==
    /\ thread[p].pc = "saveSchema"
    /\ request' = [request EXCEPT ![RequestOf(p)].resolved_schema = thread[p].payload]
    /\ Goto(p, "findTarget")
    /\ UNCHANGED <<task, artifact, keys, answers, broker, auxiliary>>

FindTarget(p) ==
    /\ thread[p].pc = "findTarget"
    /\ Goto(p, IF Target(RequestOf(p)) \in artifact[thread[p].doc]
               THEN "createExtract" ELSE "failRequest")
    /\ UNCHANGED <<tables, broker, auxiliary>>

\* enqueueExtract.
CreateExtract(p) ==
    LET id == <<RequestOf(p), "extract">> IN
    /\ thread[p].pc = "createExtract"
    /\ IF Exists(id)
       THEN Return(p) /\ UNCHANGED task
       ELSE InsertTask(id, Target(RequestOf(p))) /\ PublishNext(p, id, "publish")
    /\ UNCHANGED <<request, artifact, keys, answers, broker, auxiliary>>

\* OnExtractCompleted: an empty result has nothing to store; persistExtractedData
\* skips the values of unknown keys.
Persist(p) ==
    /\ thread[p].pc = "persist"
    /\ answers' = answers \cup
         IF thread[p].payload = "raw" THEN {RequestOf(p)} \cap keys ELSE {RequestOf(p)}
    /\ Goto(p, "complete")
    /\ UNCHANGED <<task, request, artifact, keys, broker, auxiliary>>

Complete(p) ==
    /\ thread[p].pc = "complete"
    /\ SetExtractionRequestStatus(RequestOf(p), "completed")
    /\ Return(p)
    /\ UNCHANGED <<task, artifact, keys, answers, broker, auxiliary>>

-----------------------------------------------------------------------------
(* Failures *)

\* Where a thread goes on when the statement of its step fails.  A key that
\* cannot be stored is logged; a request that cannot be read is an error.
OnError(p) ==
    LET pc == thread[p].pc IN
    \/ pc \in {"registerConvert", "convertPayload"} /\ Goto(p, "triggerAnonymize")
    \/ /\ pc \in {"triggerAnonymize", "registerAnonymize", "registerEntities", "anonymizePayload"}
       /\ Goto(p, "listProgress")
    \/ pc \in {"loop", "failLoop"} /\ \E q \in thread[p].todo : DropRequest(p, q)
    \/ pc \in {"createResolveKeys", "ensureConvert", "ensureAnonymize"} /\ Loop(p)
    \/ pc = "setRunning" /\ Goto(p, "publish")
    \/ pc = "upsertKeys" /\ Goto(p, "saveSchema")
    \/ /\ pc \in {"upsertKeys", "saveSchema", "findTarget", "createExtract", "persist", "complete"}
       /\ Goto(p, "failRequest")
    \/ pc = "markTaskFailed" /\ AfterTaskFailed(p)
    \/ pc = "markRequestFailed" /\ AfterRequestFailed(p)
    \/ pc \in {"listProgress", "listFail", "failRequest"} /\ Return(p)

\* A statement fails (an error of the database, or a deadline that passed).
StepError(p) ==
    /\ faults > 0
    /\ faults' = faults - 1
    /\ OnError(p)
    /\ UNCHANGED <<tables, broker, repeats, stale, stranded>>

\* The process dies, or is killed by a forced shutdown, in the middle.
Abort(p) ==
    /\ thread[p].pc # "idle"
    /\ faults > 0
    /\ faults' = faults - 1
    /\ Return(p)
    /\ UNCHANGED <<tables, broker, repeats, stale, stranded>>

\* The worker that took a message dies, or Redis loses it: nobody answers.
MessageLost(m) ==
    /\ faults > 0
    /\ faults' = faults - 1
    /\ queue' = queue \ {m}
    /\ UNCHANGED <<tables, answered, pushes, thread, repeats, stale, stranded>>

\* Assumed of the configuration, which is only checked to be positive: the
\* staleness threshold lies above the time a handler runs (its timeouts are 30
\* seconds), so a task is not stale while the handler that made it is at work.
CanBeStale(id) ==
    /\ task[id].status \in Active
    /\ \A p \in Threads : thread[p].made # id

\* The watchdog requeues a stale task: the message it pushes has no kwargs.
WatchdogRequeue(id) ==
    /\ stale > 0
    /\ stale' = stale - 1
    /\ CanBeStale(id)
    /\ task[id].retry_count < MaxRetries
    /\ task' = [task EXCEPT ![id].status = "pending", ![id].retry_count = @ + 1]
    /\ queue' = queue \cup {[task |-> id, kwargs |-> "none"]}
    /\ UNCHANGED <<request, artifact, keys, answers, answered, pushes, thread,
                   repeats, faults, stranded>>

\* The watchdog gives a stale task up: only the task is written.
WatchdogFail(id) ==
    /\ stale > 0
    /\ stale' = stale - 1
    /\ CanBeStale(id)
    /\ task[id].retry_count >= MaxRetries
    /\ task' = [task EXCEPT ![id].status = "failed"]
    /\ stranded' = stranded \cup
         ({r \in Requests : request[r].status \in InFlight /\ id \in Wakers(r)} \X {id})
    /\ UNCHANGED <<request, artifact, keys, answers, broker, thread, repeats, faults>>

-----------------------------------------------------------------------------
\* The steps of a handler that is under way and meets no failure.
HandlerStep(p) ==
    \/ RegisterConvert(p) \/ ConvertPayload(p) \/ TriggerAnonymize(p)
    \/ RegisterAnonymize(p) \/ RegisterEntities(p) \/ AnonymizePayload(p)
    \/ ListProgress(p) \/ ListFail(p) \/ FailLoop(p) \/ FailRequest(p)
    \/ Progress(p) \/ CreateResolveKeys(p) \/ SetRunning(p)
    \/ EnsureConvert(p) \/ EnsureAnonymize(p)
    \/ Publish(p) \/ MarkTaskFailed(p) \/ MarkRequestFailed(p)
    \/ UpsertKeys(p) \/ SaveSchema(p) \/ FindTarget(p) \/ CreateExtract(p)
    \/ Persist(p) \/ Complete(p)

NextOf(p) ==
    \/ HandlerStep(p)
    \/ \E r \in Requests, d \in Docs, a \in BOOLEAN : Initiate(p, r, d, a)
    \/ \E d \in Docs : CreateConvert(p, d)
    \/ \E m \in queue : WorkerAnswer(p, m)
    \/ \E m \in queue \cup answered : WorkerRepeat(p, m)
    \/ PublishError(p)
    \/ StepError(p)
    \/ Abort(p)

Next ==
    \/ \E p \in Threads : NextOf(p)
    \/ \E m \in queue : MessageLost(m)
    \/ \E id \in TaskIds : WatchdogRequeue(id) \/ WatchdogFail(id)

Spec == Init /\ [][Next]_vars

\* A handler that started goes on (its goroutine runs under a timeout), and a
\* message in the queue is eventually answered by some worker, through any
\* free thread.  The watchdog scans again and again.  Nobody has to create a
\* request.
Fairness ==
    /\ \A p \in Threads : WF_vars(HandlerStep(p))
    /\ WF_vars(\E p \in Threads : \E m \in queue : WorkerAnswer(p, m))
    /\ WF_vars(\E id \in TaskIds : WatchdogRequeue(id) \/ WatchdogFail(id))

FairSpec == Spec /\ Fairness

-----------------------------------------------------------------------------
(* Properties *)

Quiet == \A p \in Threads : thread[p].pc = "idle"

\* The text a prerequisite is to bring.
TextOf(id) == IF id[2] = "convert" THEN "convert_md" ELSE "anonymize_doc"

\* A prerequisite that was reported completed without the file it was to make
\* (registerConvertArtifacts: "worker did not return a path; skip").
Fruitless(id) ==
    /\ id[2] \in Singletons
    /\ task[id].status = "completed"
    /\ task[id].payload \in Useless
    /\ TextOf(id) \notin artifact[id[1]]

\* No lost wakeup.  Initiate inserts the request and then reads the artifacts,
\* the callback registers the artifact and then lists the requests; whatever
\* the interleaving, when all handlers have returned a request in flight waits
\* for a task that is pending or processing and whose callback will move it.
\* In particular every request that was waiting when a task's failure was
\* reported has been failed.  The code leaves two cases open, and these are the
\* only ones: the task failed without a callback that could tell this request
\* (before it was made, or by the watchdog), or it was completed without its
\* text.
NoLostWakeup ==
    Quiet /\ faults = MaxFaults =>
        \A r \in Requests : request[r].status \in InFlight =>
            \E id \in Wakers(r) :
                \/ task[id].status \in Active
                \/ task[id].status = "failed" /\ <<r, id>> \in stranded
                \/ Fruitless(id)

\* Any number of concurrent calls of Progress and of triggerAnonymize publish
\* a task at most once between them.
PublishedOnce == \A id \in TaskIds : pushes[id] <= 1

\* The privacy promise of a request: its tasks read the text it asked for, and
\* that text existed when the task was made.
TaskReadsTarget ==
    \A r \in Requests : \A m \in PerRequest : Exists(<<r, m>>) =>
        /\ task[<<r, m>>].input \in artifact[request[r].doc]
        /\ task[<<r, m>>].input =
              IF request[r].anonymize THEN "anonymize_doc" ELSE "convert_md"

\* The chain of a request has no gaps: extract is created only after
\* resolve_keys was and its schema was stored, and a request is completed only
\* after extract was created and the values it came back with were stored (unless
\* the best-effort storing of its keys failed).
ChainInOrder ==
    \A r \in Requests :
        /\ Exists(<<r, "extract">>) =>
              Exists(<<r, "resolve_keys">>) /\ request[r].resolved_schema # None
        /\ request[r].status = "completed" =>
              Exists(<<r, "extract">>) /\ (r \in answers \/ r \notin keys \/ faults < MaxFaults)

\* A request that waits for a task under way comes to an end when every handler
\* and every worker does its part: the callback completes it, fails it ("mark
\* them all failed so they don't stay stuck in pending", HandleStatusUpdate)
\* or moves it to the next task; unless a prerequisite is reported completed
\* without its text.
WaitingRequestEnds ==
    \A r \in Requests :
        (request[r].status \in InFlight /\ \E id \in Wakers(r) : task[id].status \in Active)
        ~> \/ request[r].status \in {"completed", "failed"}
           \/ request[r].status \in InFlight /\ \E id \in Wakers(r) : Fruitless(id)

\* The stage of a request, read off the tasks made for it.
Stage(r) ==
    IF request[r].status = "absent" THEN "none"
    ELSE IF Exists(<<r, "extract">>) THEN "extracting"
    ELSE IF Exists(<<r, "resolve_keys">>) THEN "resolving"
    ELSE "submitted"

Flow == INSTANCE ExtractionFlow WITH
    text    <- [d \in Docs |-> artifact[d] \ {"anonymize_entities"}],
    stage   <- [r \in Requests |-> Stage(r)],
    wanted  <- [r \in Requests |->
                  IF request[r].doc = None THEN None ELSE <<request[r].doc, Target(r)>>],
    schema  <- [r \in Requests |-> request[r].resolved_schema],
    outcome <- [r \in Requests |->
                  IF request[r].status \in {"completed", "failed"}
                  THEN request[r].status ELSE "open"]

\* The pipeline implements the life of a request that ExtractionFlow describes:
\* stages in order, the text before the questions, the schema before the
\* extraction, completion by extraction only, and no request opened again once
\* its extraction has begun, for any interleaving of handlers that each work on
\* their own copy of the row.
ImplementsFlow == Flow!Spec

-----------------------------------------------------------------------------
(* What comments of the code say and the code does not do *)

\* "Already exists - Progress will be retried after it completes"
\* (ensureConvertTask), "the next callback will progress it" (Initiate): every
\* request comes to an end, also one that meets a task that has failed, as long
\* as what is completed has brought its text.
RequestsFinish ==
    \A r \in Requests : request[r].status \in InFlight ~>
        \/ request[r].status \in {"completed", "failed"}
        \/ request[r].status \in InFlight /\ \E id \in Wakers(r) : Fruitless(id)
=============================================================================
