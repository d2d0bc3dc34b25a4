---------------------------- MODULE PipelineProofs ----------------------------
(***************************************************************************)
(* Proofs about Pipeline for any number of documents, requests, handlers,  *)
(* schemas and faults, and the proof that it implements ExtractionFlow.    *)
(*                                                                         *)
(* What a handler does next depends on what it read some steps ago.  The   *)
(* argument therefore has two halves: ThreadOK says which of the things a  *)
(* handler remembers still hold in the tables, and Grows says that no      *)
(* statement of anybody takes them back (rows are never deleted, the       *)
(* document and the flag of a request never change, artifacts, keys and    *)
(* schemas stay).  What does not follow from growth, that a new task is    *)
(* published by its maker only and before anybody can answer it, is        *)
(* Unpublished.                                                            *)
(***************************************************************************)
EXTENDS Pipeline, TLAPS

USE BoundsAssumption, NoneAssumption

Publishing == {"setRunning", "publish"}
OnResolved == {"upsertKeys", "saveSchema", "findTarget", "createExtract"}
OnExtracted == {"persist", "complete"}
OnRegistered == {"registerConvert", "convertPayload", "triggerAnonymize",
                 "registerAnonymize", "registerEntities", "anonymizePayload"}
OnMade == {"setRunning", "publish", "markTaskFailed", "markRequestFailed"}
OnRequest == {"createResolveKeys", "setRunning", "ensureConvert", "ensureAnonymize"}

\* The keys of the request are stored, or storing them has failed.
KeysTried(r) == r \in keys \/ faults < MaxFaults

\* A row of extraction_requests has a document, and only a row has a schema.
RequestRows ==
    \A r \in Requests :
        /\ request[r].status # "absent" <=> request[r].doc \in Docs
        /\ request[r].resolved_schema # None => request[r].doc \in Docs

\* A per-request task belongs to a request that exists.
TaskRows ==
    \A r \in Requests : \A m \in PerRequest :
        Exists(<<r, m>>) => request[r].doc \in Docs

\* The chain of a request, and what makes completing it safe: its keys were
\* tried before extract was made.
Chain ==
    \A r \in Requests :
        /\ Exists(<<r, "extract">>) =>
              Exists(<<r, "resolve_keys">>) /\ request[r].resolved_schema # None /\ KeysTried(r)
        /\ request[r].status = "completed" =>
              Exists(<<r, "extract">>) /\ (r \in answers \/ faults < MaxFaults)

\* Only tasks that exist have been published.
Messages ==
    /\ \A m \in queue \cup answered : Exists(m.task)
    /\ \A id \in TaskIds : pushes[id] # 0 => Exists(id)

\* A handler without a document is the one of POST /tasks.
Placed(t) ==
    \/ t.doc \in Docs
    \/ t.pc = "publish" /\ t.lenient /\ t.todo = {} /\ t.after = "loop"

\* What a handler holds wherever it is: tasks that exist, and requests of its
\* document.
Remembers(t) ==
    /\ t.task # None => Exists(t.task)
    /\ t.made # None => Exists(t.made)
    /\ \A q \in t.todo : t.doc \in Docs /\ request[q.id].doc = t.doc
    /\ t.req # None => t.doc \in Docs /\ request[t.req.id].doc = t.doc

\* What OnResolveKeysCompleted has done so far.
ResolvedKnown(t) ==
    t.pc \in OnResolved =>
        /\ t.task \in Requests \X {"resolve_keys"}
        /\ t.payload \in Schemas
        /\ request[t.task[1]].doc = t.doc
        /\ t.pc # "upsertKeys" => KeysTried(t.task[1])
        /\ t.pc \in {"findTarget", "createExtract"} => request[t.task[1]].resolved_schema # None
        /\ t.pc = "createExtract" => Target(t.task[1]) \in artifact[t.doc]

\* What its position calls for besides.
Called(t) ==
    /\ t.pc \in OnRegistered => t.task \in Docs \X Singletons
    /\ t.pc = "failRequest" => t.task \in Requests \X PerRequest
    /\ t.pc \in OnExtracted => t.task \in Requests \X {"extract"}
    /\ t.pc = "complete" => t.task[1] \in answers \/ faults < MaxFaults
    /\ t.pc \in OnMade => t.made \in TaskIds
    /\ t.pc = "setRunning" => t.made = <<t.req.id, "resolve_keys">>
    /\ t.pc = "markRequestFailed" => t.made \in Requests \X PerRequest
    /\ t.pc \in OnMade /\ t.made[2] = "extract" =>
          t.task \in Requests \X PerRequest /\ t.payload \in Schemas
    /\ t.pc \in OnRequest => t.req # None
    /\ t.pc = "createResolveKeys" => Target(t.req.id) \in artifact[t.doc]
    /\ ResolvedKnown(t)

ThreadOK(t) == t.pc # "idle" => Placed(t) /\ Remembers(t) /\ Called(t)

ThreadsOK == \A p \in Threads : ThreadOK(thread[p])

\* A task that its maker has still to publish is known to nobody else: no other
\* handler publishes it, no message names it, no handler answers for it, and
\* what comes after it in the chain does not exist.
Secret(p, id) ==
    /\ pushes[id] = 0
    /\ \A m \in queue \cup answered : m.task # id
    /\ \A q \in Threads :
          /\ thread[q].pc # "idle" => thread[q].task # id
          /\ q # p /\ thread[q].pc \in Publishing => thread[q].made # id
    /\ id[2] = "resolve_keys" => ~Exists(<<id[1], "extract">>)

Unpublished == \A p \in Threads : thread[p].pc \in Publishing => Secret(p, thread[p].made)

TablesOK ==
    /\ RequestRows
    /\ TaskRows
    /\ TaskReadsTarget
    /\ Chain
    /\ Messages
    /\ PublishedOnce

IInv ==
    /\ TypeOK
    /\ faults <= MaxFaults
    /\ TablesOK
    /\ ThreadsOK
    /\ Unpublished

-----------------------------------------------------------------------------
(* What the statements do to the rows *)

\* The tasks of a request.
LEMMA RequestTaskIds ==
    ASSUME NEW r \in Requests
    PROVE  <<r, "resolve_keys">> \in TaskIds /\ <<r, "extract">> \in TaskIds
<1>1. \A m \in PerRequest : <<r, m>> \in TaskIds
  BY DEF TaskIds
<1> QED
  BY <1>1 DEF PerRequest

\* The tasks of a document.
LEMMA DocTaskIds ==
    ASSUME NEW d \in Docs
    PROVE  <<d, "convert">> \in TaskIds /\ <<d, "anonymize">> \in TaskIds
<1>1. \A m \in Singletons : <<d, m>> \in TaskIds
  BY DEF TaskIds
<1> QED
  BY <1>1 DEF Singletons

\* No statement takes back what a handler may rely on.
Grows ==
    /\ \A id \in TaskIds : Exists(id) => Exists(id)'
    /\ \A r \in Requests : request[r].doc \in Docs =>
          /\ request'[r].doc = request[r].doc
          /\ request'[r].anonymize = request[r].anonymize
    /\ \A r \in Requests : request[r].resolved_schema # None => request'[r].resolved_schema # None
    /\ \A d \in Docs : artifact[d] \subseteq artifact'[d]
    /\ keys \subseteq keys'
    /\ answers \subseteq answers'
    /\ faults' \in 0..faults

\* The row of a task after its insertion.
LEMMA InsertTaskRow ==
    ASSUME task \in [TaskIds -> Task], NEW id \in TaskIds, NEW in \in Kinds \cup {"original"},
           InsertTask(id, in)
    PROVE  /\ task' \in [TaskIds -> Task]
           /\ task'[id] = [status |-> "pending", payload |-> "empty", input |-> in, retry_count |-> 0]
           /\ \A x \in TaskIds : x # id => task'[x] = task[x]
BY DEF InsertTask, Task, TaskStatuses, Active, Payloads

\* A new result_payload changes nothing else of any row.
LEMMA PayloadRow ==
    ASSUME task \in [TaskIds -> Task], NEW id \in TaskIds, NEW x \in Payloads,
           UpdateTaskResultPayload(id, x)
    PROVE  /\ task' \in [TaskIds -> Task]
           /\ task'[id].status = task[id].status
           /\ task'[id].input = task[id].input
           /\ task'[id].payload = x
           /\ \A y \in TaskIds : y # id => task'[y] = task[y]
BY DEF UpdateTaskResultPayload, Task

\* UpdateWorkerTaskStatus changes the status and the payload of one row.
LEMMA CallbackRow ==
    ASSUME task \in [TaskIds -> Task], NEW id \in TaskIds, NEW x \in Payloads, NEW s \in TaskStatuses,
           task' = [task EXCEPT ![id].status = s, ![id].payload = x]
    PROVE  /\ task' \in [TaskIds -> Task]
           /\ task'[id].status = s /\ task'[id].payload = x 
           /\ task'[id].input = task[id].input 
           /\ \A y \in TaskIds : y # id => task'[y] = task[y]
BY DEF Task

\* SetExtractionRequestStatus changes the status of one row.
LEMMA StatusRow ==
    ASSUME request \in [Requests -> Request], NEW r \in Requests, NEW s \in RequestStatuses,
           SetExtractionRequestStatus(r, s)
    PROVE  /\ request' \in [Requests -> Request]
           /\ request'[r].status = s
           /\ request'[r].doc = request[r].doc
           /\ request'[r].anonymize = request[r].anonymize
           /\ request'[r].resolved_schema = request[r].resolved_schema
           /\ \A x \in Requests : x # r => request'[x] = request[x]
BY DEF SetExtractionRequestStatus, Request

\* The text a request reads depends on its flag only.
LEMMA TargetFixed ==
    ASSUME NEW r \in Requests, request'[r].anonymize = request[r].anonymize
    PROVE  Target(r)' = Target(r)
BY DEF Target

\* What the handler held is still right after the write.
LEMMA GrowsRemembers ==
    ASSUME Grows, NEW t \in Thread, Remembers(t)
    PROVE  Remembers(t)'
<1>1. \A q \in t.todo : q.id \in Requests
  BY DEF Thread, Snapshot
<1>2. t.req # None => t.req.id \in Requests
  BY DEF Thread, Snapshot
<1> QED
  BY <1>1, <1>2 DEF Remembers, Thread, Grows

\* Faults only happen; what is excused by one stays excused.
LEMMA FaultsDown == ASSUME TypeOK, Grows PROVE faults < MaxFaults => faults' < MaxFaults
BY DEF TypeOK, Grows

\* What a handler knows stays true while others write.
LEMMA GrowsThread ==
    ASSUME TypeOK, Grows, NEW t \in Thread, ThreadOK(t)
    PROVE  ThreadOK(t)'
<1>1. CASE t.pc = "idle"
  BY <1>1 DEF ThreadOK
<1>2. CASE t.pc # "idle"
  <2>1. Placed(t)'
    BY <1>2 DEF ThreadOK, Placed
  <2>2. Remembers(t)'
    BY <1>2, GrowsRemembers DEF ThreadOK
  <2>3. t.pc = "createResolveKeys" => Target(t.req.id)' \in artifact'[t.doc]
    <3> SUFFICES ASSUME t.pc = "createResolveKeys" PROVE Target(t.req.id)' \in artifact'[t.doc]
      OBVIOUS
    <3>1. t.req # None /\ Target(t.req.id) \in artifact[t.doc] /\ t.doc \in Docs /\ request[t.req.id].doc = t.doc
      BY <1>2 DEF ThreadOK, Called, Remembers, OnRequest
    <3>2. t.req.id \in Requests
      BY <3>1 DEF Thread, Snapshot
    <3> QED
      BY <3>1, <3>2, TargetFixed DEF Grows
  <2>4. ResolvedKnown(t)'
    <3> SUFFICES ASSUME t.pc \in OnResolved PROVE ResolvedKnown(t)'
      BY DEF ResolvedKnown
    <3>1. ResolvedKnown(t) /\ t.doc \in Docs /\ t.task[1] \in Requests
      BY <1>2 DEF ThreadOK, Called, Placed, ResolvedKnown, OnResolved
    <3>2. /\ request'[t.task[1]].doc = t.doc
          /\ Target(t.task[1])' = Target(t.task[1])
          /\ request[t.task[1]].resolved_schema # None => request'[t.task[1]].resolved_schema # None
      BY <3>1, TargetFixed DEF ResolvedKnown, Grows
    <3>3. KeysTried(t.task[1]) => KeysTried(t.task[1])'
      BY <3>1 DEF KeysTried, Grows, TypeOK
    <3>4. artifact[t.doc] \subseteq artifact'[t.doc]
      BY <3>1 DEF Grows
    <3> QED
      BY <3>1, <3>2, <3>3, <3>4 DEF ResolvedKnown
  <2>5. Called(t)'
    BY <1>2, <2>3, <2>4, FaultsDown DEF ThreadOK, Called, Grows
  <2> QED
    BY <2>1, <2>2, <2>5 DEF ThreadOK
<1> QED
  BY <1>1, <1>2

-----------------------------------------------------------------------------
(* The statements keep the tables in order *)

\* Faults are only used up.
LEMMA FaultsLeft ==
    ASSUME IInv, faults' \in 0..faults
    PROVE  faults' \in Nat /\ faults' <= MaxFaults /\ (faults < MaxFaults => faults' < MaxFaults)
BY DEF IInv, TypeOK

\* No row is written.
LEMMA NoWrite ==
    ASSUME IInv, UNCHANGED <<tables, pushes>>, faults' \in 0..faults,
           \A m \in queue' \cup answered' : Exists(m.task)
    PROVE  Grows /\ TablesOK'
<1>1. Grows
  BY DEF Grows, tables, Exists
<1>2. RequestRows' /\ TaskRows' /\ TaskReadsTarget'
  BY DEF IInv, TablesOK, RequestRows, TaskRows, TaskReadsTarget, tables, Exists
<1>3. Chain'
  BY FaultsLeft DEF IInv, TablesOK, Chain, KeysTried, tables, Exists
<1>4. Messages' /\ PublishedOnce'
  BY DEF IInv, TablesOK, Messages, PublishedOnce, tables, Exists
<1> QED
  BY <1>1, <1>2, <1>3, <1>4 DEF TablesOK

\* A task that exists is written: by a callback, the watchdog, a payload with
\* document ids or markTaskFailed.
LEMMA TaskWrite ==
    ASSUME IInv, NEW id \in TaskIds, Exists(id),
           task' \in [TaskIds -> Task],
           task'[id].status # "absent",
           task'[id].input = task[id].input,
           \A x \in TaskIds : x # id => task'[x] = task[x],
           UNCHANGED <<request, artifact, keys, answers, pushes>>, faults' \in 0..faults,
           \A m \in queue' \cup answered' : m.task \in TaskIds /\ Exists(m.task)
    PROVE  Grows /\ TablesOK'
<1>0. \A x \in TaskIds : /\ Exists(x)' <=> Exists(x)
                         /\ task'[x].input = task[x].input
  BY DEF Exists
<1>1. Grows
  BY <1>0 DEF Grows
<1>2. \A r \in Requests : \A m \in PerRequest : <<r, m>> \in TaskIds
  BY DEF TaskIds
<1>3. RequestRows' /\ TaskRows' /\ TaskReadsTarget'
  BY <1>0, <1>2 DEF IInv, TablesOK, RequestRows, TaskRows, TaskReadsTarget
<1>4. Chain'
  <2>2. \A r \in Requests : <<r, "extract">> \in TaskIds /\ <<r, "resolve_keys">> \in TaskIds
    BY <1>2 DEF PerRequest
  <2>3. \A r \in Requests : KeysTried(r) => KeysTried(r)'
    BY FaultsLeft DEF KeysTried
  <2> QED
    BY <1>0, <2>2, <2>3, FaultsLeft DEF IInv, TablesOK, Chain
<1>5. Messages' /\ PublishedOnce'
  BY <1>0 DEF IInv, TablesOK, Messages, PublishedOnce
<1> QED
  BY <1>1, <1>3, <1>4, <1>5 DEF TablesOK

\* The status of a request is written: only extract completes it.
LEMMA StatusWrite ==
    ASSUME IInv, NEW r \in Requests, request[r].doc \in Docs,
           NEW s \in RequestStatuses \ {"absent"},
           SetExtractionRequestStatus(r, s),
           s = "completed" => Exists(<<r, "extract">>) /\ (r \in answers \/ faults < MaxFaults),
           UNCHANGED <<task, artifact, keys, answers, broker, faults>>
    PROVE  request' \in [Requests -> Request] /\ Grows /\ TablesOK'
<1>0. /\ request' \in [Requests -> Request]
      /\ request'[r].status = s
      /\ \A x \in Requests : /\ request'[x].doc = request[x].doc
                             /\ request'[x].anonymize = request[x].anonymize
                             /\ request'[x].resolved_schema = request[x].resolved_schema
                             /\ x # r => request'[x].status = request[x].status
  BY StatusRow DEF IInv, TypeOK
<1>1. Grows
  BY <1>0 DEF Grows, Exists, IInv, TypeOK
<1>2. RequestRows' /\ TaskRows'
  BY <1>0 DEF IInv, TablesOK, RequestRows, TaskRows, Exists
<1>3. TaskReadsTarget'
  BY <1>0 DEF IInv, TablesOK, TaskReadsTarget, Exists
<1>4. Chain'
  BY <1>0 DEF IInv, TypeOK, TablesOK, Chain, KeysTried, Exists
<1>5. Messages' /\ PublishedOnce'
  BY <1>0 DEF IInv, TablesOK, Messages, PublishedOnce, Exists, broker
<1> QED
  BY <1>0, <1>1, <1>2, <1>3, <1>4, <1>5 DEF TablesOK

\* A text is registered, or the keys or values of a request are stored.
LEMMA AddRows ==
    ASSUME IInv, artifact' \in [Docs -> SUBSET Kinds],
           \A d \in Docs : artifact[d] \subseteq artifact'[d],
           keys \subseteq keys', answers \subseteq answers',
           UNCHANGED <<task, request, broker, faults>>
    PROVE  Grows /\ TablesOK'
<1>1. Grows
  BY DEF Grows, Exists, IInv, TypeOK
<1>2. RequestRows' /\ TaskRows'
  BY DEF IInv, TablesOK, RequestRows, TaskRows, Exists
<1>3. TaskReadsTarget'
  BY DEF IInv, TablesOK, TaskReadsTarget, TaskRows, Exists
<1>4. Chain'
  BY DEF IInv, TypeOK, TablesOK, Chain, KeysTried, Exists
<1>5. Messages' /\ PublishedOnce'
  BY DEF IInv, TablesOK, Messages, PublishedOnce, Exists, broker
<1> QED
  BY <1>1, <1>2, <1>3, <1>4, <1>5 DEF TablesOK

\* A task is inserted: the chain has come so far, and the text it reads is there.
LEMMA InsertWrite ==
    ASSUME IInv, NEW id \in TaskIds, ~Exists(id), NEW in \in Kinds \cup {"original"},
           InsertTask(id, in),
           id[2] \in PerRequest =>
               request[id[1]].doc \in Docs /\ in = Target(id[1]) /\ in \in artifact[request[id[1]].doc],
           id[2] = "extract" =>
               /\ Exists(<<id[1], "resolve_keys">>)
               /\ request[id[1]].resolved_schema # None
               /\ KeysTried(id[1]),
           UNCHANGED <<request, artifact, keys, answers, broker, faults>>
    PROVE  task' \in [TaskIds -> Task] /\ Exists(id)' /\ Grows /\ TablesOK'
<1>0. /\ task' \in [TaskIds -> Task]
      /\ task'[id] = [status |-> "pending", payload |-> "empty", input |-> in, retry_count |-> 0]
      /\ \A x \in TaskIds : x # id => task'[x] = task[x]
  BY InsertTaskRow DEF IInv, TypeOK
<1>1. \A x \in TaskIds : /\ Exists(x) => Exists(x)'
                         /\ x # id => (Exists(x)' <=> Exists(x))
  BY <1>0 DEF Exists
<1>2. Exists(id)'
  BY <1>0 DEF Exists
<1>3. Grows
  BY <1>1 DEF Grows, IInv, TypeOK
<1>4. \A r \in Requests : \A m \in PerRequest : <<r, m>> \in TaskIds
  BY DEF TaskIds
<1>5. RequestRows' /\ TaskRows'
  <2>1. ASSUME NEW r \in Requests, NEW m \in PerRequest, Exists(<<r, m>>)'
        PROVE  request[r].doc \in Docs
    <3>1. CASE id = <<r, m>>
      BY <3>1
    <3>2. CASE id # <<r, m>>
      BY <1>1, <1>4, <2>1, <3>2 DEF IInv, TablesOK, TaskRows
    <3> QED
      BY <3>1, <3>2
  <2> QED
    BY <2>1 DEF IInv, TablesOK, RequestRows, TaskRows
<1>6. TaskReadsTarget'
  <2> SUFFICES ASSUME NEW r \in Requests, NEW m \in PerRequest, Exists(<<r, m>>)'
               PROVE  /\ task'[<<r, m>>].input \in artifact[request[r].doc]
                      /\ task'[<<r, m>>].input =
                            IF request[r].anonymize THEN "anonymize_doc" ELSE "convert_md"
    BY DEF TaskReadsTarget
  <2>1. CASE id = <<r, m>>
    BY <1>0, <2>1 DEF Target
  <2>2. CASE id # <<r, m>>
    BY <1>0, <1>1, <1>4, <2>2 DEF IInv, TablesOK, TaskReadsTarget
  <2> QED
    BY <2>1, <2>2
<1>7. Chain'
  <2> SUFFICES ASSUME NEW r \in Requests
               PROVE  /\ Exists(<<r, "extract">>)' =>
                            /\ Exists(<<r, "resolve_keys">>)'
                            /\ request[r].resolved_schema # None
                            /\ KeysTried(r)
                      /\ request[r].status = "completed" =>
                            Exists(<<r, "extract">>)' /\ (r \in answers \/ faults < MaxFaults)
    BY DEF Chain, KeysTried
  <2>0. /\ <<r, "extract">> \in TaskIds
        /\ <<r, "resolve_keys">> \in TaskIds
    BY <1>4 DEF PerRequest
  <2>1. CASE id = <<r, "extract">>
    BY <1>0, <1>1, <2>0, <2>1 DEF IInv, TablesOK, Chain
  <2>2. CASE id # <<r, "extract">>
    BY <1>0, <1>1, <2>0, <2>2 DEF IInv, TablesOK, Chain
  <2> QED
    BY <2>1, <2>2
<1>8. Messages' /\ PublishedOnce'
  BY <1>1 DEF IInv, TypeOK, TablesOK, Messages, PublishedOnce, broker, Message
<1> QED
  BY <1>0, <1>2, <1>3, <1>5, <1>6, <1>7, <1>8 DEF TablesOK

\* The schema of a request is stored.
LEMMA SchemaWrite ==
    ASSUME IInv, NEW r \in Requests, request[r].doc \in Docs, NEW x \in Schemas,
           request' = [request EXCEPT ![r].resolved_schema = x],
           UNCHANGED <<task, artifact, keys, answers, broker, faults>>
    PROVE  /\ request' \in [Requests -> Request]
           /\ request'[r].resolved_schema = x
           /\ Grows /\ TablesOK'
<1>0. /\ request' \in [Requests -> Request]
      /\ request'[r].resolved_schema = x
      /\ \A y \in Requests : /\ request'[y].doc = request[y].doc
                             /\ request'[y].anonymize = request[y].anonymize
                             /\ request'[y].status = request[y].status
                             /\ y # r => request'[y].resolved_schema = request[y].resolved_schema
  BY DEF IInv, TypeOK, Request
<1>1. Grows
  BY <1>0 DEF Grows, Exists, IInv, TypeOK
<1>2. RequestRows' /\ TaskRows'
  BY <1>0 DEF IInv, TablesOK, RequestRows, TaskRows, Exists
<1>3. TaskReadsTarget'
  BY <1>0 DEF IInv, TablesOK, TaskReadsTarget, Exists
<1>4. Chain'
  <2>1. x # None
    OBVIOUS
  <2>2. \A y \in Requests : request[y].resolved_schema # None => request'[y].resolved_schema # None
    BY <1>0, <2>1
  <2> QED
    BY <1>0, <2>2 DEF IInv, TablesOK, Chain, KeysTried, Exists
<1>5. Messages' /\ PublishedOnce'
  BY <1>0 DEF IInv, TablesOK, Messages, PublishedOnce, Exists, broker
<1> QED
  BY <1>0, <1>1, <1>2, <1>3, <1>4, <1>5 DEF TablesOK

\* A request is created: nothing was made for it before.
LEMMA RequestWrite ==
    ASSUME IInv, NEW r \in Requests, NEW d \in Docs, NEW a \in BOOLEAN,
           request[r].status = "absent",
           request' = [request EXCEPT ![r] = [status |-> "pending", doc |-> d,
                           anonymize |-> a, resolved_schema |-> None]],
           UNCHANGED <<task, artifact, keys, answers, broker, faults>>
    PROVE  /\ request' \in [Requests -> Request]
           /\ request'[r].doc = d
           /\ Grows /\ TablesOK'
<1>0. /\ request' \in [Requests -> Request]
      /\ request'[r].doc = d /\ request'[r].status = "pending"
      /\ \A y \in Requests : y # r => request'[y] = request[y]
  BY DEF IInv, TypeOK, Request, RequestStatuses, InFlight
<1>1. /\ request[r].doc \notin Docs
      /\ \A m \in PerRequest : ~Exists(<<r, m>>)
  BY DEF IInv, TablesOK, RequestRows, TaskRows
<1>2. Grows
  <2>1. request[r].resolved_schema # None => request'[r].resolved_schema # None
    BY <1>1 DEF IInv, TablesOK, RequestRows
  <2> QED
    BY <1>0, <1>1, <2>1 DEF Grows, Exists, IInv, TypeOK
<1>3. RequestRows' /\ TaskRows'
  BY <1>0, <1>1 DEF IInv, TablesOK, RequestRows, TaskRows, Exists
<1>4. TaskReadsTarget'
  BY <1>0, <1>1 DEF IInv, TablesOK, TaskReadsTarget, Exists
<1>5. Chain'
  BY <1>0, <1>1 DEF IInv, TypeOK, TablesOK, Chain, KeysTried, Exists, PerRequest
<1>6. Messages' /\ PublishedOnce'
  BY <1>0 DEF IInv, TablesOK, Messages, PublishedOnce, Exists, broker
<1> QED
  BY <1>0, <1>2, <1>3, <1>4, <1>5, <1>6 DEF TablesOK

-----------------------------------------------------------------------------
(* What a step of one handler leaves of the invariant *)

\* The invariant after a step of handler p that leaves t of its local state.
LEMMA ThreadStep ==
    ASSUME IInv, NEW p \in Threads, NEW t \in Thread,
           thread' = [thread EXCEPT ![p] = t],
           TypeOK', Grows, TablesOK', ThreadOK(t)', Unpublished'
    PROVE  IInv'
<1>1. faults' <= MaxFaults
  BY FaultsLeft DEF Grows
<1>2. ThreadsOK'
  <2> SUFFICES ASSUME NEW q \in Threads PROVE ThreadOK(thread[q])'
    BY DEF ThreadsOK
  <2>1. thread \in [Threads -> Thread]
    BY DEF IInv, TypeOK
  <2>2. CASE q = p
    <3>1. thread'[q] = t
      BY <2>1, <2>2
    <3> QED
      BY <3>1
  <2>3. CASE q # p
    <3>1. thread'[q] = thread[q] /\ thread[q] \in Thread /\ ThreadOK(thread[q])
      BY <2>1, <2>3 DEF IInv, ThreadsOK
    <3>2. \A u \in Thread : ThreadOK(u) => ThreadOK(u)'
      BY GrowsThread DEF IInv
    <3> QED
      BY <3>1, <3>2
  <2> QED
    BY <2>2, <2>3
<1> QED
  BY <1>1, <1>2 DEF IInv

\* Nothing becomes known of an unpublished task by a step that makes no task and
\* pushes no message, a callback included.
LEMMA UnpublishedKept ==
    ASSUME IInv, NEW p \in Threads, NEW t \in Thread,
           thread' = [thread EXCEPT ![p] = t],
           t.pc \in Publishing => thread[p].pc \in Publishing /\ t.made = thread[p].made,
           \/ t.pc = "idle" \/ t.task = None
           \/ thread[p].pc # "idle" /\ t.task = thread[p].task
           \/ \E m \in queue \cup answered : t.task = m.task,
           pushes' = pushes,
           queue' \cup answered' \subseteq queue \cup answered,
           \A r \in Requests : Exists(<<r, "extract">>)' => Exists(<<r, "extract">>)
    PROVE  Unpublished'
<1>0. /\ thread \in [Threads -> Thread]
      /\ thread'[p] = t
      /\ \A q \in Threads : q # p => thread'[q] = thread[q]
  BY DEF IInv, TypeOK
<1> SUFFICES ASSUME NEW u \in Threads, thread'[u].pc \in Publishing
             PROVE  Secret(u, thread[u].made)'
  BY DEF Unpublished
<1>1. /\ thread[u].pc \in Publishing
      /\ thread'[u].made = thread[u].made
      /\ thread[u].made \in TaskIds
      /\ Secret(u, thread[u].made)
  <2>1. thread[u].pc \in Publishing /\ thread'[u].made = thread[u].made
    BY <1>0
  <2>2. thread[u].made \in TaskIds
    BY <2>1 DEF IInv, ThreadsOK, ThreadOK, Called, Publishing, OnMade
  <2> QED
    BY <2>1, <2>2 DEF IInv, Unpublished
<1> SUFFICES ASSUME NEW id \in TaskIds, Secret(u, id) PROVE Secret(u, id)'
  BY <1>1
<1>2. id[2] = "resolve_keys" => id[1] \in Requests
  BY DEF TaskIds, Singletons, PerRequest
<1>3. t.pc # "idle" => t.task # id
  BY DEF Secret
<1>4. \A q \in Threads :
            /\ thread'[q].pc # "idle" => thread'[q].task # id
            /\ q # u /\ thread'[q].pc \in Publishing => thread'[q].made # id
  BY <1>0, <1>3 DEF Secret
<1> QED
  BY <1>2, <1>4 DEF Secret

\* A task that was just inserted is known to nobody but its maker.
LEMMA UnpublishedMade ==
    ASSUME IInv, NEW p \in Threads, NEW t \in Thread, NEW id \in TaskIds,
           thread' = [thread EXCEPT ![p] = t],
           ~Exists(id), t.made = id,
           t.task = None \/ (thread[p].pc # "idle" /\ t.task = thread[p].task),
           id[2] = "extract" => thread[p].pc # "idle" /\ thread[p].task = <<id[1], "resolve_keys">>,
           UNCHANGED broker,
           \A x \in TaskIds : x # id => (Exists(x)' <=> Exists(x))
    PROVE  Unpublished'
<1>0. /\ thread \in [Threads -> Thread]
      /\ thread'[p] = t
      /\ \A q \in Threads : q # p => thread'[q] = thread[q]
  BY DEF IInv, TypeOK
<1>1. /\ \A q \in Threads : thread[q].pc # "idle" => thread[q].task # id /\ thread[q].made # id
      /\ t.task # id
  <2>1. None # id
    OBVIOUS
  <2>2. \A q \in Threads : thread[q].pc # "idle" =>
            /\ thread[q].task # None => Exists(thread[q].task)
            /\ thread[q].made # None => Exists(thread[q].made)
    BY DEF IInv, ThreadsOK, ThreadOK, Remembers
  <2> QED
    BY <2>1, <2>2
<1>2. Secret(p, id)'
  <2>1. pushes[id] = 0 /\ \A m \in queue \cup answered : m.task # id
    BY DEF IInv, TablesOK, Messages
  <2>2. id[2] = "resolve_keys" => ~Exists(<<id[1], "extract">>)'
    <3> SUFFICES ASSUME id[2] = "resolve_keys" PROVE ~Exists(<<id[1], "extract">>)'
      OBVIOUS
    <3>1. /\ id[1] \in Requests /\ id = <<id[1], "resolve_keys">>
          /\ <<id[1], "extract">> \in TaskIds /\ <<id[1], "extract">> # id
      BY DEF TaskIds, Singletons, PerRequest
    <3>2. ~Exists(<<id[1], "extract">>)
      BY <3>1 DEF IInv, TablesOK, Chain
    <3> QED
      BY <3>1, <3>2
  <2>3. \A q \in Threads :
            /\ thread'[q].pc # "idle" => thread'[q].task # id
            /\ q # p /\ thread'[q].pc \in Publishing => thread'[q].made # id
    BY <1>0, <1>1 DEF Publishing
  <2> QED
    BY <2>1, <2>2, <2>3 DEF Secret, broker
<1> SUFFICES ASSUME NEW u \in Threads, u # p, thread[u].pc \in Publishing
             PROVE  Secret(u, thread[u].made)'
  BY <1>0, <1>2 DEF Unpublished
<1>3. /\ thread[u].made \in TaskIds
      /\ thread[u].made # id
      /\ Secret(u, thread[u].made)
      /\ thread'[u].made = thread[u].made
  BY <1>0, <1>1 DEF IInv, ThreadsOK, ThreadOK, Called, Publishing, OnMade, Unpublished
<1> SUFFICES ASSUME NEW v \in TaskIds, v # id, Secret(u, v) PROVE Secret(u, v)'
  BY <1>3
<1>4. v[2] = "resolve_keys" => ~Exists(<<v[1], "extract">>)'
  <2> SUFFICES ASSUME v[2] = "resolve_keys" PROVE ~Exists(<<v[1], "extract">>)'
    OBVIOUS
  <2>1. /\ v = <<v[1], "resolve_keys">>
        /\ <<v[1], "extract">> \in TaskIds
    BY DEF TaskIds, Singletons, PerRequest
  <2>2. ~Exists(<<v[1], "extract">>)
    BY DEF Secret
  <2>3. <<v[1], "extract">> # id
    BY <2>1 DEF Secret
  <2> QED
    BY <2>1, <2>2, <2>3
<1>5. \A q \in Threads :
          /\ thread'[q].pc # "idle" => thread'[q].task # v
          /\ q # u /\ thread'[q].pc \in Publishing => thread'[q].made # v
  <2>1. t.pc # "idle" => t.task # v
    BY DEF Secret
  <2> QED
    BY <1>0, <2>1 DEF Secret
<1> QED
  BY <1>4, <1>5 DEF Secret, broker

\* The local state t of a handler that goes on with the task it has in hand, or
\* with that of a message.
GoesOn(p, t) ==
    /\ thread' = [thread EXCEPT ![p] = t]
    /\ t.pc \in Publishing => thread[p].pc \in Publishing /\ t.made = thread[p].made
    /\ \/ t.pc = "idle" \/ t.task = None
       \/ thread[p].pc # "idle" /\ t.task = thread[p].task
       \/ \E m \in queue \cup answered : t.task = m.task

\* A step that makes no task and pushes nothing keeps the invariant if it keeps
\* the tables in order.
LEMMA QuietStep ==
    ASSUME IInv, NEW p \in Threads, NEW t \in Thread, GoesOn(p, t),
           TypeOK', Grows, TablesOK', ThreadOK(t) \/ ThreadOK(t)',
           pushes' = pushes, queue' \cup answered' \subseteq queue \cup answered,
           \A r \in Requests : Exists(<<r, "extract">>)' => Exists(<<r, "extract">>)
    PROVE  IInv'
<1>1. ThreadOK(t)'
  BY GrowsThread DEF IInv
<1>2. Unpublished'
  BY UnpublishedKept DEF GoesOn, broker
<1> QED
  BY <1>1, <1>2, ThreadStep DEF GoesOn

\* The handler returns.
LEMMA IdleOK == IdleThread \in Thread /\ IdleThread.pc = "idle" /\ ThreadOK(IdleThread)
BY DEF IdleThread, Thread, Pcs, Payloads, ThreadOK

\* A handler that returns forgets everything.
LEMMA ReturnOK ==
    ASSUME NEW p \in Threads, Return(p)
    PROVE  GoesOn(p, IdleThread)
BY IdleOK DEF Return, GoesOn, Publishing

\* What Goto leaves.
LEMMA GotoThread ==
    ASSUME thread \in [Threads -> Thread], NEW p \in Threads, NEW x \in Pcs, Goto(p, x)
    PROVE  \E t \in Thread :
              /\ thread' = [thread EXCEPT ![p] = t]
              /\ t = [thread[p] EXCEPT !.pc = x]
BY DEF Goto, Thread

\* Loop returns, or goes on with the requests that are left.
LEMMA LoopOK ==
    ASSUME IInv, NEW p \in Threads, thread[p].pc # "idle", Loop(p)
    PROVE  \E t \in Thread : GoesOn(p, t) /\ ThreadOK(t) /\ t.pc \notin Publishing
<1>0. thread[p] \in Thread /\ ThreadOK(thread[p])
  BY DEF IInv, TypeOK, ThreadsOK
<1>1. CASE thread[p].todo = {}
  <2>1. thread' = [thread EXCEPT ![p] = IdleThread]
    BY <1>1 DEF Loop
  <2> QED
    BY <2>1, IdleOK DEF GoesOn, Publishing
<1>2. CASE thread[p].todo # {}
  <2> DEFINE t == [thread[p] EXCEPT !.pc = "loop", !.made = None]
  <2>1. thread' = [thread EXCEPT ![p] = t]
    BY <1>2 DEF Loop
  <2>2. /\ t \in Thread
        /\ t.pc = "loop" /\ t.made = None
        /\ t.task = thread[p].task /\ t.todo = thread[p].todo /\ t.req = thread[p].req
        /\ t.doc = thread[p].doc
    BY <1>0 DEF Thread, Pcs
  <2> HIDE DEF t
  <2>3. thread[p].doc \in Docs
    BY <1>0, <1>2 DEF ThreadOK, Remembers
  <2>4. Placed(t) /\ Remembers(t)
    BY <1>0, <2>2, <2>3 DEF ThreadOK, Placed, Remembers
  <2>5. Called(t)
    BY <2>2 DEF Called, ResolvedKnown, OnResolved, OnRequest, OnRegistered, OnExtracted, OnMade
  <2> QED
    BY <2>1, <2>2, <2>4, <2>5 DEF GoesOn, ThreadOK, Publishing
<1> QED
  BY <1>1, <1>2

\* Two local states that differ in the position only.
SameLocals(t, u) ==
    /\ t.task = u.task /\ t.payload = u.payload /\ t.doc = u.doc /\ t.todo = u.todo
    /\ t.req = u.req /\ t.made = u.made /\ t.after = u.after /\ t.lenient = u.lenient

\* A handler that goes on to x with what it holds.
LEMMA GotoOK ==
    ASSUME IInv, NEW p \in Threads, thread[p].pc # "idle", NEW x \in Pcs \ {"idle"}, Goto(p, x),
           thread[p].doc \in Docs,
           x \in Publishing => thread[p].pc \in Publishing
    PROVE  \E t \in Thread :
              /\ t.pc = x /\ SameLocals(t, thread[p])
              /\ GoesOn(p, t)
              /\ Called(t) => ThreadOK(t)
<1>0. thread \in [Threads -> Thread] /\ thread[p] \in Thread /\ ThreadOK(thread[p])
  BY DEF IInv, TypeOK, ThreadsOK
<1>1. PICK t \in Thread : /\ thread' = [thread EXCEPT ![p] = t]
                          /\ t = [thread[p] EXCEPT !.pc = x]
  BY <1>0, GotoThread
<1>2. t.pc = x /\ SameLocals(t, thread[p])
  BY <1>0, <1>1 DEF Thread, SameLocals
<1>3. GoesOn(p, t)
  BY <1>1, <1>2 DEF GoesOn, SameLocals
<1>4. Called(t) => ThreadOK(t)
  BY <1>0, <1>2 DEF ThreadOK, Placed, Remembers, SameLocals
<1> QED
  BY <1>2, <1>3, <1>4

\* Every handler but that of POST /tasks has a document.
LEMMA HasDoc ==
    ASSUME IInv, NEW p \in Threads, thread[p].pc \notin {"idle", "publish"}
    PROVE  thread[p].doc \in Docs
BY DEF IInv, ThreadsOK, ThreadOK, Placed

-----------------------------------------------------------------------------
(* The actions *)

\* The steps that register a text.
LEMMA RegisterStep ==
    ASSUME IInv, NEW p \in Threads, NEW x \in OnRegistered, NEW k \in Kinds,
           thread[p].pc \in OnRegistered,
           artifact' = [artifact EXCEPT ![thread[p].doc] = @ \cup {k}],
           Goto(p, x),
           UNCHANGED <<task, request, keys, answers, broker, auxiliary>>
    PROVE  IInv'
<1>1. thread[p].pc # "idle" /\ thread[p].pc # "publish" /\ x \in Pcs \ {"idle"} /\ x \notin Publishing
  BY DEF OnRegistered, Pcs, Publishing
<1>2. thread[p].doc \in Docs
  BY <1>1, HasDoc
<1>3. PICK t \in Thread : t.pc = x /\ SameLocals(t, thread[p]) /\ GoesOn(p, t) /\ (Called(t) => ThreadOK(t))
  BY <1>1, <1>2, GotoOK
<1>4. ThreadOK(t)
  <2>1. thread[p].task \in Docs \X Singletons
    BY <1>1 DEF IInv, ThreadsOK, ThreadOK, Called, Remembers
  <2>2. Called(t)
    BY <1>3, <2>1 DEF Called, SameLocals, ResolvedKnown, OnRegistered, OnExtracted, OnMade, OnRequest, OnResolved
  <2> QED
    BY <1>3, <2>2
<1>5. artifact' \in [Docs -> SUBSET Kinds] /\ \A d \in Docs : artifact[d] \subseteq artifact'[d]
  BY <1>2 DEF IInv, TypeOK
<1>6. Grows /\ TablesOK'
  BY <1>5, AddRows DEF auxiliary
<1>7. TypeOK'
  BY <1>3, <1>5 DEF IInv, TypeOK, GoesOn, broker, auxiliary
<1> QED
  BY <1>3, <1>4, <1>6, <1>7, QuietStep DEF Exists, broker

\* The final payload of a convert or anonymize task.
LEMMA PayloadStep ==
    ASSUME IInv, NEW p \in Threads, NEW x \in {"triggerAnonymize", "listProgress"},
           thread[p].pc \in OnRegistered,
           UpdateTaskResultPayload(thread[p].task, "final"),
           Goto(p, x),
           UNCHANGED <<request, artifact, keys, answers, broker, auxiliary>>
    PROVE  IInv'
<1>1. thread[p].pc # "idle" /\ thread[p].pc # "publish" /\ x \in Pcs \ {"idle"} /\ x \notin Publishing
  BY DEF OnRegistered, Pcs, Publishing
<1>2. thread[p].doc \in Docs
  BY <1>1, HasDoc
<1>3. PICK t \in Thread : t.pc = x /\ SameLocals(t, thread[p]) /\ GoesOn(p, t) /\ (Called(t) => ThreadOK(t))
  BY <1>1, <1>2, GotoOK
<1>4. /\ thread[p].task \in Docs \X Singletons
      /\ thread[p].task # None => Exists(thread[p].task)
  BY <1>1 DEF IInv, ThreadsOK, ThreadOK, Called, Remembers
<1>5. ThreadOK(t)
  <2>1. Called(t)
    BY <1>3, <1>4 DEF Called, SameLocals, ResolvedKnown, OnRegistered, OnExtracted, OnMade, OnRequest, OnResolved
  <2> QED
    BY <1>3, <2>1
<1>6. PICK id \in TaskIds : id = thread[p].task /\ Exists(id) /\ id[2] # "extract"
  BY <1>4 DEF TaskIds, Singletons
<1>7. /\ task' \in [TaskIds -> Task]
      /\ task'[id].status = task[id].status
      /\ task'[id].input = task[id].input
      /\ \A y \in TaskIds : y # id => task'[y] = task[y]
  BY <1>6, PayloadRow DEF IInv, TypeOK, Payloads
<1>8. Grows /\ TablesOK'
  <2>1. task'[id].status # "absent"
    BY <1>6, <1>7 DEF Exists
  <2>2. faults' \in 0..faults
    BY DEF auxiliary, IInv, TypeOK
  <2>3. \A m \in queue' \cup answered' : m.task \in TaskIds /\ Exists(m.task)
    BY DEF broker, IInv, TypeOK, TablesOK, Messages, Message
  <2> QED
    BY <1>6, <1>7, <2>1, <2>2, <2>3, TaskWrite DEF broker
<1>9. TypeOK'
  BY <1>3, <1>7 DEF IInv, TypeOK, GoesOn, broker, auxiliary
<1>10. \A r \in Requests : Exists(<<r, "extract">>)' => Exists(<<r, "extract">>)
  BY <1>6, <1>7 DEF Exists, TaskIds, PerRequest
<1> QED
  BY <1>3, <1>5, <1>8, <1>9, <1>10, QuietStep DEF broker

\* A step that writes no row.
LEMMA SilentStep ==
    ASSUME IInv, NEW p \in Threads, NEW t \in Thread, GoesOn(p, t), ThreadOK(t) \/ ThreadOK(t)',
           UNCHANGED <<tables, broker, repeats, stale, stranded>>, faults' \in 0..faults
    PROVE  IInv'
<1>1. Grows /\ TablesOK'
  BY NoWrite DEF broker, IInv, TablesOK, Messages
<1>2. TypeOK'
  BY FaultsLeft DEF IInv, TypeOK, GoesOn, tables, broker
<1> QED
  BY <1>1, <1>2, QuietStep DEF tables, Exists, broker

\* A step that writes the status of a request.
LEMMA StatusStep ==
    ASSUME IInv, NEW p \in Threads, NEW t \in Thread, GoesOn(p, t), ThreadOK(t),
           NEW r \in Requests, request[r].doc \in Docs,
           NEW s \in RequestStatuses \ {"absent"},
           SetExtractionRequestStatus(r, s),
           s = "completed" => Exists(<<r, "extract">>) /\ (r \in answers \/ faults < MaxFaults),
           UNCHANGED <<task, artifact, keys, answers, broker, auxiliary>>
    PROVE  IInv'
<1>1. request' \in [Requests -> Request] /\ Grows /\ TablesOK'
  BY StatusWrite DEF auxiliary
<1>2. TypeOK'
  BY <1>1 DEF IInv, TypeOK, GoesOn, broker, auxiliary
<1> QED
  BY <1>1, <1>2, QuietStep DEF Exists, broker

\* A step that inserts a task, which the handler publishes next.
LEMMA MadeStep ==
    ASSUME IInv, NEW p \in Threads, NEW t \in Thread, NEW id \in TaskIds,
           thread' = [thread EXCEPT ![p] = t],
           ~Exists(id), NEW in \in Kinds \cup {"original"}, InsertTask(id, in),
           id[2] \in PerRequest =>
               request[id[1]].doc \in Docs /\ in = Target(id[1]) /\ in \in artifact[request[id[1]].doc],
           id[2] = "extract" =>
               /\ thread[p].pc # "idle" /\ thread[p].task = <<id[1], "resolve_keys">>
               /\ Exists(<<id[1], "resolve_keys">>)
               /\ request[id[1]].resolved_schema # None
               /\ KeysTried(id[1]),
           t.pc \in Publishing, t.made = id, Placed(t), Called(t),
           \/ t.task = None /\ t.todo = {} /\ t.req = None
           \/ /\ thread[p].pc # "idle" /\ t.task = thread[p].task
              /\ t.todo = thread[p].todo /\ t.req = thread[p].req /\ t.doc = thread[p].doc,
           UNCHANGED <<request, artifact, keys, answers, broker, auxiliary>>
    PROVE  IInv'
<1>1. task' \in [TaskIds -> Task] /\ Exists(id)' /\ Grows /\ TablesOK'
  BY InsertWrite DEF auxiliary
<1>2. TypeOK'
  BY <1>1 DEF IInv, TypeOK, broker, auxiliary
<1>3. ThreadOK(t)'
  <2>1. thread[p] \in Thread /\ ThreadOK(thread[p])
    BY DEF IInv, TypeOK, ThreadsOK
  <2>2. Remembers(t)'
    <3>1. \A q \in t.todo : q.id \in Requests
      BY DEF Thread, Snapshot
    <3>2. t.req # None => t.req.id \in Requests
      BY DEF Thread, Snapshot
    <3>3. t.task # None => Exists(t.task)'
      BY <1>1, <2>1 DEF Thread, ThreadOK, Remembers, Grows
    <3> QED
      BY <1>1, <2>1, <3>1, <3>2, <3>3 DEF ThreadOK, Remembers, Grows
  <2>3. Called(t)'
    BY DEF Called, ResolvedKnown, Publishing, OnResolved, OnExtracted, OnRequest
  <2> QED
    BY <2>2, <2>3 DEF ThreadOK, Placed
<1>4. \A x \in TaskIds : x # id => (Exists(x)' <=> Exists(x))
  BY DEF InsertTask, Exists, IInv, TypeOK
<1>5. Unpublished'
  BY <1>4, UnpublishedMade
<1> QED
  BY <1>1, <1>2, <1>3, <1>5, ThreadStep

\* PublishNext leaves the inserted task to be published.
LEMMA PublishNextThread ==
    ASSUME thread \in [Threads -> Thread], NEW p \in Threads, NEW id \in TaskIds, NEW x \in Pcs,
           PublishNext(p, id, x)
    PROVE  \E t \in Thread :
              /\ thread' = [thread EXCEPT ![p] = t]
              /\ t.pc = x /\ t.made = id
              /\ t.task = thread[p].task /\ t.todo = thread[p].todo /\ t.req = thread[p].req
              /\ t.doc = thread[p].doc /\ t.payload = thread[p].payload
<1> DEFINE t == [thread[p] EXCEPT !.pc = x, !.made = id]
<1>1. thread' = [thread EXCEPT ![p] = t]
  BY DEF PublishNext
<1>2. /\ t \in Thread
      /\ t.pc = x /\ t.made = id
      /\ t.task = thread[p].task /\ t.todo = thread[p].todo /\ t.req = thread[p].req
      /\ t.doc = thread[p].doc /\ t.payload = thread[p].payload
  BY DEF Thread
<1> QED
  BY <1>1, <1>2

\* A new convert or anonymize task needs nothing else.
LEMMA SingletonStep ==
    ASSUME IInv, NEW p \in Threads, NEW t \in Thread,
           NEW d \in Docs, NEW m \in Singletons, ~Exists(<<d, m>>),
           NEW in \in Kinds \cup {"original"}, InsertTask(<<d, m>>, in),
           thread' = [thread EXCEPT ![p] = t],
           t.pc = "publish", t.made = <<d, m>>, Placed(t),
           \/ t.task = None /\ t.todo = {} /\ t.req = None
           \/ /\ thread[p].pc # "idle" /\ t.task = thread[p].task
              /\ t.todo = thread[p].todo /\ t.req = thread[p].req /\ t.doc = thread[p].doc,
           UNCHANGED <<request, artifact, keys, answers, broker, auxiliary>>
    PROVE  IInv'
<1>1. PICK id \in TaskIds : id = <<d, m>> /\ id[2] \notin PerRequest /\ id[2] # "extract"
  BY DEF TaskIds, Singletons, PerRequest
<1>2. Called(t)
  BY <1>1 DEF Called, ResolvedKnown, OnResolved, OnExtracted, OnRequest, OnRegistered
<1> QED
  BY <1>1, <1>2, MadeStep DEF Publishing

\* POST /tasks inserts convert and is the only one to publish it.
LEMMA CreateConvertStep ==
    ASSUME IInv, NEW p \in Threads, NEW d \in Docs, CreateConvert(p, d)
    PROVE  IInv'
<1>1. PICK t \in Thread :
         t = [IdleThread EXCEPT !.pc = "publish", !.made = <<d, "convert">>, !.lenient = TRUE]
  BY DEF IdleThread, Thread, Pcs, Payloads, TaskIds, Singletons
<1>2. /\ t.pc = "publish" /\ t.made = <<d, "convert">> /\ t.task = None /\ t.todo = {}
      /\ t.req = None /\ t.after = "loop" /\ t.lenient
  BY <1>1 DEF IdleThread
<1>3. Placed(t) /\ "convert" \in Singletons
  BY <1>2 DEF Placed, Singletons
<1> QED
  BY <1>1, <1>2, <1>3, SingletonStep DEF CreateConvert

\* The insert of anonymize behind convert, or the conflict that skips it.
LEMMA TriggerAnonymizeStep ==
    ASSUME IInv, NEW p \in Threads, TriggerAnonymize(p)
    PROVE  IInv'
<1>0. /\ thread \in [Threads -> Thread] /\ thread[p] \in Thread
      /\ thread[p].pc = "triggerAnonymize" /\ thread[p].doc \in Docs
  BY HasDoc DEF TriggerAnonymize, IInv, TypeOK
<1>1. CASE Exists(<<thread[p].doc, "anonymize">>)
  <2>1. PICK t \in Thread : t.pc = "listProgress" /\ GoesOn(p, t) /\ (Called(t) => ThreadOK(t))
    BY <1>0, <1>1, GotoOK DEF TriggerAnonymize, Pcs, Publishing
  <2>2. Called(t)
    BY <2>1 DEF Called, ResolvedKnown, OnResolved, OnExtracted, OnRequest, OnRegistered, OnMade
  <2> QED
    BY <1>1, <2>1, <2>2, SilentStep DEF TriggerAnonymize, tables, auxiliary, IInv, TypeOK
<1>2. CASE ~Exists(<<thread[p].doc, "anonymize">>)
  <2> DEFINE t == [thread[p] EXCEPT !.pc = "publish", !.made = <<thread[p].doc, "anonymize">>,
                                    !.after = "listProgress"]
  <2>1. thread' = [thread EXCEPT ![p] = t]
    BY <1>2 DEF TriggerAnonymize
  <2>2. /\ t \in Thread
        /\ t.pc = "publish" /\ t.made = <<thread[p].doc, "anonymize">>
        /\ t.task = thread[p].task /\ t.todo = thread[p].todo /\ t.req = thread[p].req
        /\ t.doc = thread[p].doc
    BY <1>0, DocTaskIds DEF Thread, Pcs
  <2>3. /\ "anonymize" \in Singletons /\ "convert_md" \in Kinds
        /\ InsertTask(<<thread[p].doc, "anonymize">>, "convert_md")
        /\ UNCHANGED <<request, artifact, keys, answers, broker, auxiliary>>
    BY <1>2 DEF TriggerAnonymize, Singletons, Kinds
  <2> HIDE DEF t
  <2>4. Placed(t)
    BY <1>0, <2>2 DEF Placed
  <2> QED
    BY <1>0, <1>2, <2>1, <2>2, <2>3, <2>4, SingletonStep
<1> QED
  BY <1>1, <1>2

\* ensureConvertTask and ensureAnonymizeTask insert the task or find it there.
LEMMA EnsureStep ==
    ASSUME IInv, NEW p \in Threads, NEW m \in Singletons, NEW in \in Kinds \cup {"original"},
           NEW x \in {"ensureConvert", "ensureAnonymize"}, Ensure(p, x, m, in)
    PROVE  IInv'
<1>0. /\ thread \in [Threads -> Thread] /\ thread[p] \in Thread
      /\ thread[p].pc = x /\ thread[p].pc # "idle" /\ thread[p].doc \in Docs
  BY HasDoc DEF Ensure, IInv, TypeOK
<1>1. CASE Exists(<<thread[p].doc, m>>)
  <2>1. PICK t \in Thread : GoesOn(p, t) /\ ThreadOK(t)
    BY <1>0, <1>1, LoopOK DEF Ensure
  <2> QED
    BY <1>1, <2>1, SilentStep DEF Ensure, tables, auxiliary, IInv, TypeOK
<1>2. CASE ~Exists(<<thread[p].doc, m>>)
  <2>1. <<thread[p].doc, m>> \in TaskIds /\ "publish" \in Pcs
    BY <1>0 DEF TaskIds, Pcs
  <2>2. /\ InsertTask(<<thread[p].doc, m>>, in)
        /\ PublishNext(p, <<thread[p].doc, m>>, "publish")
        /\ UNCHANGED <<request, artifact, keys, answers, broker, auxiliary>>
    BY <1>2 DEF Ensure
  <2>3. PICK t \in Thread :
              /\ thread' = [thread EXCEPT ![p] = t]
              /\ t.pc = "publish" /\ t.made = <<thread[p].doc, m>>
              /\ t.task = thread[p].task /\ t.todo = thread[p].todo /\ t.req = thread[p].req
              /\ t.doc = thread[p].doc
    BY <1>0, <2>1, <2>2, PublishNextThread
  <2>4. Placed(t)
    BY <1>0, <2>3 DEF Placed
  <2> QED
    BY <1>0, <1>2, <2>2, <2>3, <2>4, SingletonStep
<1> QED
  BY <1>1, <1>2

\* The insert of resolve_keys with the text of the request as its input.
LEMMA CreateResolveKeysStep ==
    ASSUME IInv, NEW p \in Threads, CreateResolveKeys(p)
    PROVE  IInv'
<1>0. /\ thread \in [Threads -> Thread] /\ thread[p] \in Thread
      /\ thread[p].pc = "createResolveKeys" /\ thread[p].pc # "idle"
      /\ ThreadOK(thread[p])
  BY DEF CreateResolveKeys, IInv, TypeOK, ThreadsOK
<1>1. /\ thread[p].req # None /\ thread[p].doc \in Docs
      /\ request[thread[p].req.id].doc = thread[p].doc
      /\ Target(thread[p].req.id) \in artifact[thread[p].doc]
  BY <1>0 DEF ThreadOK, Called, Remembers, OnRequest
<1>2. PICK r \in Requests : r = thread[p].req.id
  BY <1>0, <1>1 DEF Thread, Snapshot
<1>3. CASE Exists(<<r, "resolve_keys">>)
  <2>1. PICK t \in Thread : GoesOn(p, t) /\ ThreadOK(t)
    BY <1>0, <1>2, <1>3, LoopOK DEF CreateResolveKeys
  <2> QED
    BY <1>2, <1>3, <2>1, SilentStep DEF CreateResolveKeys, tables, auxiliary, IInv, TypeOK
<1>4. CASE ~Exists(<<r, "resolve_keys">>)
  <2>1. PICK id \in TaskIds : id = <<r, "resolve_keys">> /\ id[1] = r /\ id[2] = "resolve_keys"
    BY RequestTaskIds
  <2>2. PICK x \in {"setRunning", "publish"} : PublishNext(p, id, x)
    BY <1>2, <1>4, <2>1 DEF CreateResolveKeys
  <2>3. /\ InsertTask(id, Target(r))
        /\ UNCHANGED <<request, artifact, keys, answers, broker, auxiliary>>
    BY <1>2, <1>4, <2>1 DEF CreateResolveKeys
  <2>4. PICK t \in Thread :
              /\ thread' = [thread EXCEPT ![p] = t]
              /\ t.pc = x /\ t.made = id
              /\ t.task = thread[p].task /\ t.todo = thread[p].todo /\ t.req = thread[p].req
              /\ t.doc = thread[p].doc
    BY <1>0, <2>2, PublishNextThread DEF Pcs
  <2>5. Placed(t)
    BY <1>1, <2>4 DEF Placed
  <2>6. Called(t)
    BY <1>1, <1>2, <2>1, <2>4 DEF Called, ResolvedKnown, OnResolved, OnExtracted, OnRegistered
  <2>7. Target(r) \in Kinds
    BY DEF Target, Kinds
  <2> QED
    BY <1>0, <1>1, <1>2, <1>4, <2>1, <2>3, <2>4, <2>5, <2>6, <2>7, MadeStep DEF Publishing
<1> QED
  BY <1>3, <1>4

\* The insert of extract, once the schema of the request is stored.
LEMMA CreateExtractStep ==
    ASSUME IInv, NEW p \in Threads, CreateExtract(p)
    PROVE  IInv'
<1>0. /\ thread \in [Threads -> Thread] /\ thread[p] \in Thread
      /\ thread[p].pc = "createExtract" /\ thread[p].pc # "idle"
      /\ ThreadOK(thread[p])
  BY DEF CreateExtract, IInv, TypeOK, ThreadsOK
<1>1. PICK r \in Requests : /\ thread[p].task = <<r, "resolve_keys">> /\ RequestOf(p) = r
                            /\ thread[p].payload \in Schemas
                            /\ thread[p].doc \in Docs /\ request[r].doc = thread[p].doc
                            /\ KeysTried(r) /\ request[r].resolved_schema # None
                            /\ Target(r) \in artifact[thread[p].doc]
                            /\ Exists(<<r, "resolve_keys">>)
  <2>1. ResolvedKnown(thread[p]) /\ Remembers(thread[p]) /\ thread[p].doc \in Docs
    BY <1>0 DEF ThreadOK, Called, Placed
  <2>2. PICK r \in Requests : thread[p].task = <<r, "resolve_keys">> /\ thread[p].task[1] = r
    BY <1>0, <2>1 DEF ResolvedKnown, OnResolved
  <2>3. Exists(<<r, "resolve_keys">>)
    BY <2>1, <2>2 DEF Remembers, TaskIds, PerRequest
  <2> QED
    BY <1>0, <2>1, <2>2, <2>3 DEF ResolvedKnown, OnResolved, RequestOf
<1>2. CASE Exists(<<r, "extract">>)
  <2>1. GoesOn(p, IdleThread) /\ IdleThread \in Thread /\ ThreadOK(IdleThread)
    BY <1>1, <1>2, ReturnOK, IdleOK DEF CreateExtract
  <2> QED
    BY <1>1, <1>2, <2>1, SilentStep DEF CreateExtract, tables, auxiliary, IInv, TypeOK
<1>3. CASE ~Exists(<<r, "extract">>)
  <2>1. PICK id \in TaskIds : id = <<r, "extract">> /\ id[1] = r /\ id[2] = "extract"
    BY RequestTaskIds
  <2>2. /\ InsertTask(id, Target(r))
        /\ PublishNext(p, id, "publish")
        /\ UNCHANGED <<request, artifact, keys, answers, broker, auxiliary>>
    BY <1>1, <1>3, <2>1 DEF CreateExtract
  <2>3. PICK t \in Thread :
              /\ thread' = [thread EXCEPT ![p] = t]
              /\ t.pc = "publish" /\ t.made = id
              /\ t.task = thread[p].task /\ t.todo = thread[p].todo /\ t.req = thread[p].req
              /\ t.doc = thread[p].doc /\ t.payload = thread[p].payload
    BY <1>0, <2>2, PublishNextThread DEF Pcs
  <2>4. Placed(t)
    BY <1>1, <2>3 DEF Placed
  <2>5. Called(t)
    BY <1>1, <2>1, <2>3 DEF Called, ResolvedKnown, OnResolved, OnExtracted, OnRegistered, OnRequest, PerRequest
  <2>6. Target(r) \in Kinds
    BY DEF Target, Kinds
  <2> QED
    BY <1>0, <1>1, <1>3, <2>1, <2>2, <2>3, <2>4, <2>5, <2>6, MadeStep DEF Publishing
<1> QED
  BY <1>2, <1>3

\* What a listing returns: requests of the document.
LEMMA PendingRequestsType ==
    ASSUME TypeOK, NEW d \in Docs
    PROVE  /\ PendingRequests(d) \subseteq Snapshot
           /\ \A q \in PendingRequests(d) : request[q.id].doc = d
BY DEF PendingRequests, Snapshot, TypeOK, Request

\* The handler takes the requests of its document into memory.
LEMMA ListProgressStep ==
    ASSUME IInv, NEW p \in Threads, ListProgress(p)
    PROVE  IInv'
<1>0. /\ thread \in [Threads -> Thread] /\ thread[p] \in Thread
      /\ thread[p].pc = "listProgress" /\ thread[p].doc \in Docs
      /\ ThreadOK(thread[p])
  BY HasDoc DEF ListProgress, IInv, TypeOK, ThreadsOK
<1> DEFINE rows == PendingRequests(thread[p].doc)
<1>1. CASE rows = {}
  <2>1. GoesOn(p, IdleThread)
    BY <1>1, IdleOK DEF ListProgress, GoesOn, Publishing
  <2> QED
    BY <2>1, SilentStep, IdleOK DEF ListProgress, auxiliary, IInv, TypeOK
<1>2. CASE rows # {}
  <2> DEFINE t == [thread[p] EXCEPT !.pc = "loop", !.todo = rows, !.made = None, !.after = "loop"]
  <2>1. thread' = [thread EXCEPT ![p] = t]
    BY <1>2 DEF ListProgress
  <2>2. rows \subseteq Snapshot /\ \A q \in rows : request[q.id].doc = thread[p].doc
    BY <1>0, PendingRequestsType DEF IInv
  <2> HIDE DEF rows
  <2>3. /\ t \in Thread
        /\ t.pc = "loop" /\ t.made = None /\ t.todo = rows
        /\ t.task = thread[p].task /\ t.req = thread[p].req /\ t.doc = thread[p].doc
    BY <1>0, <2>2 DEF Thread, Pcs
  <2> HIDE DEF t
  <2>4. ThreadOK(t)
    <3>1. Placed(t) /\ Remembers(t)
      BY <1>0, <2>2, <2>3 DEF ThreadOK, Placed, Remembers
    <3>2. Called(t)
      BY <2>3 DEF Called, ResolvedKnown, OnResolved, OnExtracted, OnRequest, OnRegistered, OnMade
    <3> QED
      BY <3>1, <3>2 DEF ThreadOK
  <2>5. GoesOn(p, t)
    BY <1>0, <2>1, <2>3 DEF GoesOn, Publishing
  <2> QED
    BY <2>3, <2>4, <2>5, SilentStep DEF ListProgress, auxiliary, IInv, TypeOK
<1> QED
  BY <1>1, <1>2

\* So does the handler of a failed task.
LEMMA ListFailStep ==
    ASSUME IInv, NEW p \in Threads, ListFail(p)
    PROVE  IInv'
<1>0. /\ thread \in [Threads -> Thread] /\ thread[p] \in Thread
      /\ thread[p].pc = "listFail" /\ thread[p].doc \in Docs
      /\ ThreadOK(thread[p])
  BY HasDoc DEF ListFail, IInv, TypeOK, ThreadsOK
<1> DEFINE rows == PendingRequests(thread[p].doc)
<1>1. CASE rows = {}
  <2>1. GoesOn(p, IdleThread)
    BY <1>1, IdleOK DEF ListFail, GoesOn, Publishing
  <2> QED
    BY <2>1, SilentStep, IdleOK DEF ListFail, auxiliary, IInv, TypeOK
<1>2. CASE rows # {}
  <2> DEFINE t == [thread[p] EXCEPT !.pc = "failLoop", !.todo = rows]
  <2>1. thread' = [thread EXCEPT ![p] = t]
    BY <1>2 DEF ListFail
  <2>2. rows \subseteq Snapshot /\ \A q \in rows : request[q.id].doc = thread[p].doc
    BY <1>0, PendingRequestsType DEF IInv
  <2> HIDE DEF rows
  <2>3. /\ t \in Thread
        /\ t.pc = "failLoop" /\ t.made = thread[p].made /\ t.todo = rows
        /\ t.task = thread[p].task /\ t.req = thread[p].req /\ t.doc = thread[p].doc
    BY <1>0, <2>2 DEF Thread, Pcs
  <2> HIDE DEF t
  <2>4. ThreadOK(t)
    <3>1. Placed(t) /\ Remembers(t)
      BY <1>0, <2>2, <2>3 DEF ThreadOK, Placed, Remembers
    <3>2. Called(t)
      BY <2>3 DEF Called, ResolvedKnown, OnResolved, OnExtracted, OnRequest, OnRegistered, OnMade
    <3> QED
      BY <3>1, <3>2 DEF ThreadOK
  <2>5. GoesOn(p, t)
    BY <1>0, <2>1, <2>3 DEF GoesOn, Publishing
  <2> QED
    BY <2>3, <2>4, <2>5, SilentStep DEF ListFail, auxiliary, IInv, TypeOK
<1> QED
  BY <1>1, <1>2

\* One request less keeps what the handler knows.
LEMMA DropRequestOK ==
    ASSUME IInv, NEW p \in Threads, NEW q \in thread[p].todo,
           thread[p].pc \in {"loop", "failLoop"}, DropRequest(p, q)
    PROVE  \E t \in Thread : GoesOn(p, t) /\ ThreadOK(t)
<1>0. thread[p] \in Thread /\ ThreadOK(thread[p]) /\ thread[p].pc # "idle"
  BY DEF IInv, TypeOK, ThreadsOK
<1>1. CASE thread[p].todo = {q}
  <2>1. GoesOn(p, IdleThread)
    BY <1>1, IdleOK DEF DropRequest, GoesOn, Publishing
  <2> QED
    BY <2>1, IdleOK
<1>2. CASE thread[p].todo # {q}
  <2> DEFINE t == [thread[p] EXCEPT !.todo = thread[p].todo \ {q}]
  <2>1. thread' = [thread EXCEPT ![p] = t]
    BY <1>2 DEF DropRequest
  <2>2. /\ t \in Thread
        /\ t.pc = thread[p].pc /\ t.made = thread[p].made /\ t.todo \subseteq thread[p].todo
        /\ t.task = thread[p].task /\ t.req = thread[p].req /\ t.doc = thread[p].doc
    BY <1>0 DEF Thread
  <2> HIDE DEF t
  <2>3. Placed(t) /\ Remembers(t)
    BY <1>0, <2>2 DEF ThreadOK, Placed, Remembers
  <2>4. Called(t)
    BY <2>2 DEF Called, ResolvedKnown, OnResolved, OnExtracted, OnRequest, OnRegistered, OnMade
  <2> QED
    BY <1>0, <2>1, <2>2, <2>3, <2>4 DEF GoesOn, ThreadOK, Publishing
<1> QED
  BY <1>1, <1>2

\* Requests behind a failed singleton task are failed one by one.
LEMMA FailLoopStep ==
    ASSUME IInv, NEW p \in Threads, FailLoop(p)
    PROVE  IInv'
<1>0. thread[p] \in Thread /\ ThreadOK(thread[p]) /\ thread[p].pc = "failLoop"
  BY DEF FailLoop, IInv, TypeOK, ThreadsOK
<1>1. PICK q \in thread[p].todo : SetExtractionRequestStatus(q.id, "failed") /\ DropRequest(p, q)
  BY DEF FailLoop
<1>2. PICK t \in Thread : GoesOn(p, t) /\ ThreadOK(t)
  BY <1>0, <1>1, DropRequestOK
<1>3. q.id \in Requests /\ request[q.id].doc \in Docs
  BY <1>0, <1>1 DEF Thread, Snapshot, ThreadOK, Remembers
<1> QED
  BY <1>1, <1>2, <1>3, StatusStep DEF FailLoop, RequestStatuses

\* The request of a per-request task exists.
LEMMA TaskRequest ==
    ASSUME IInv, NEW id \in Requests \X PerRequest, Exists(id)
    PROVE  id[1] \in Requests /\ request[id[1]].doc \in Docs
BY DEF IInv, TablesOK, TaskRows

\* The request of a failed task is failed.
LEMMA FailRequestStep ==
    ASSUME IInv, NEW p \in Threads, FailRequest(p)
    PROVE  IInv'
<1>0. thread[p] \in Thread /\ ThreadOK(thread[p]) /\ thread[p].pc = "failRequest"
  BY DEF FailRequest, IInv, TypeOK, ThreadsOK
<1>1. thread[p].task \in Requests \X PerRequest /\ Exists(thread[p].task)
  BY <1>0 DEF ThreadOK, Called, Remembers, TaskIds
<1>2. RequestOf(p) \in Requests /\ request[RequestOf(p)].doc \in Docs
  BY <1>1, TaskRequest DEF RequestOf
<1> QED
  BY <1>2, ReturnOK, IdleOK, StatusStep DEF FailRequest, RequestStatuses

\* Progress decides on the artifacts it reads where the request goes.
LEMMA ProgressStep ==
    ASSUME IInv, NEW p \in Threads, Progress(p)
    PROVE  IInv'
<1>0. /\ thread[p] \in Thread /\ ThreadOK(thread[p]) /\ thread[p].pc = "loop"
      /\ UNCHANGED <<tables, broker, auxiliary>>
  BY DEF Progress, IInv, TypeOK, ThreadsOK
<1>1. PICK q \in thread[p].todo, x \in {"createResolveKeys", "ensureAnonymize", "ensureConvert"} :
         /\ x = "createResolveKeys" => Target(q.id) \in artifact[thread[p].doc]
         /\ thread' = [thread EXCEPT ![p] = [thread[p] EXCEPT
                !.pc = x, !.req = q, !.todo = thread[p].todo \ {q}]]
  BY DEF Progress
<1> DEFINE t == [thread[p] EXCEPT !.pc = x, !.req = q, !.todo = thread[p].todo \ {q}]
<1>2. /\ t \in Thread
      /\ t.pc = x /\ t.made = thread[p].made /\ t.todo \subseteq thread[p].todo
      /\ t.task = thread[p].task /\ t.req = q /\ t.doc = thread[p].doc
  BY <1>0, <1>1 DEF Thread, Pcs
<1>3. thread' = [thread EXCEPT ![p] = t]
  BY <1>1
<1> HIDE DEF t
<1>4. Placed(t) /\ Remembers(t)
  BY <1>0, <1>2 DEF ThreadOK, Placed, Remembers
<1>5. q # None
  BY <1>0 DEF Thread, Snapshot
<1>6. Called(t)
  BY <1>1, <1>2, <1>5 DEF Called, ResolvedKnown, OnResolved, OnExtracted, OnRegistered, OnMade
<1>7. GoesOn(p, t) /\ ThreadOK(t)
  BY <1>0, <1>2, <1>3, <1>4, <1>6 DEF GoesOn, ThreadOK, Publishing
<1> QED
  BY <1>0, <1>2, <1>7, SilentStep DEF auxiliary, IInv, TypeOK

\* The request is marked running before resolve_keys is published.
LEMMA SetRunningStep ==
    ASSUME IInv, NEW p \in Threads, SetRunning(p)
    PROVE  IInv'
<1>0. /\ thread[p] \in Thread /\ ThreadOK(thread[p]) /\ thread[p].pc = "setRunning"
      /\ thread[p].doc \in Docs
  BY HasDoc DEF SetRunning, IInv, TypeOK, ThreadsOK
<1>1. /\ thread[p].req # None
      /\ request[thread[p].req.id].doc \in Docs
      /\ thread[p].made \in TaskIds /\ thread[p].made = <<thread[p].req.id, "resolve_keys">>
  BY <1>0 DEF ThreadOK, Called, Remembers, OnRequest, OnMade
<1>2. thread[p].req.id \in Requests
  BY <1>0, <1>1 DEF Thread, Snapshot
<1>3. PICK t \in Thread : t.pc = "publish" /\ SameLocals(t, thread[p]) /\ GoesOn(p, t) /\ (Called(t) => ThreadOK(t))
  BY <1>0, GotoOK DEF SetRunning, Pcs, Publishing
<1>4. ThreadOK(t)
  <2>1. t.made \in TaskIds /\ t.made[2] # "extract"
    BY <1>1, <1>3 DEF SameLocals
  <2>2. Called(t)
    BY <1>3, <2>1 DEF Called, ResolvedKnown, OnResolved, OnExtracted, OnRegistered, OnRequest
  <2> QED
    BY <1>3, <2>2
<1> QED
  BY <1>1, <1>2, <1>3, <1>4, StatusStep DEF SetRunning, RequestStatuses, InFlight

\* Where a handler goes once the task it made is dealt with.
LEMMA AfterPublishOK ==
    ASSUME IInv, NEW p \in Threads, thread[p].pc \in {"publish", "markTaskFailed"}, AfterPublish(p)
    PROVE  \E t \in Thread : GoesOn(p, t) /\ ThreadOK(t) /\ t.pc \notin Publishing
<1>0. thread[p] \in Thread /\ ThreadOK(thread[p]) /\ thread[p].pc # "idle"
  BY DEF IInv, TypeOK, ThreadsOK
<1>1. CASE thread[p].after = "listProgress"
  <2>1. thread[p].doc \in Docs
    BY <1>0, <1>1 DEF ThreadOK, Placed
  <2>2. PICK t \in Thread : t.pc = "listProgress" /\ GoesOn(p, t) /\ (Called(t) => ThreadOK(t))
    BY <1>0, <1>1, <2>1, GotoOK DEF AfterPublish, Pcs, Publishing
  <2>3. Called(t)
    BY <2>2 DEF Called, ResolvedKnown, OnResolved, OnExtracted, OnRequest, OnRegistered, OnMade
  <2> QED
    BY <2>2, <2>3 DEF Publishing
<1>2. CASE thread[p].after # "listProgress"
  BY <1>0, <1>2, LoopOK DEF AfterPublish
<1> QED
  BY <1>1, <1>2

\* The task of a message is pushed for the first time by its maker.
LEMMA PushStep ==
    ASSUME IInv, NEW p \in Threads, NEW t \in Thread, thread[p].pc = "publish",
           GoesOn(p, t), ThreadOK(t), t.pc \notin Publishing, Push(p),
           UNCHANGED <<tables, repeats, stale, stranded>>, faults' \in 0..faults
    PROVE  IInv'
<1>0. /\ thread \in [Threads -> Thread]
      /\ thread'[p] = t
      /\ \A q \in Threads : q # p => thread'[q] = thread[q]
  BY DEF IInv, TypeOK, GoesOn
<1>1. PICK id \in TaskIds : /\ id = thread[p].made
                            /\ Exists(id)
                            /\ id[2] = "extract" => thread[p].payload \in Schemas
                            /\ Secret(p, id)
  BY DEF IInv, ThreadsOK, ThreadOK, Called, Remembers, OnMade, Unpublished, Publishing
<1>2. PICK m \in Message : m = [task |-> id, kwargs |-> Kwargs(p)]
  <2>1. Kwargs(p) \in {"none", "questions"} \cup Schemas
    <3>1. CASE id[2] = "resolve_keys"
      BY <1>1, <3>1 DEF Kwargs
    <3>2. CASE id[2] = "extract"
      BY <1>1, <3>2 DEF Kwargs
    <3>3. CASE id[2] \notin {"resolve_keys", "extract"}
      BY <1>1, <3>3 DEF Kwargs
    <3> QED
      BY <3>1, <3>2, <3>3
  <2> QED
    BY <2>1 DEF Message
<1>3. /\ queue' = queue \cup {m} /\ answered' = answered
      /\ pushes' = [pushes EXCEPT ![id] = @ + 1]
  BY <1>1, <1>2 DEF Push
<1>4. m.task = id
  BY <1>2
<1>5. pushes \in [TaskIds -> Nat] /\ pushes[id] = 0
  BY <1>1 DEF IInv, TypeOK, Secret
<1>6. /\ pushes' \in [TaskIds -> Nat]
      /\ pushes'[id] = 1
      /\ \A x \in TaskIds : x # id => pushes'[x] = pushes[x]
  BY <1>3, <1>5
<1>7. TypeOK'
  BY <1>3, <1>6, FaultsLeft DEF IInv, TypeOK, GoesOn, tables
<1>8. Grows
  BY DEF Grows, tables, Exists
<1>9. TablesOK'
  <2>1. RequestRows' /\ TaskRows' /\ TaskReadsTarget'
    BY DEF IInv, TablesOK, RequestRows, TaskRows, TaskReadsTarget, tables, Exists
  <2>2. Chain'
    BY FaultsLeft DEF IInv, TablesOK, Chain, KeysTried, tables, Exists
  <2>3. Messages'
    BY <1>1, <1>3, <1>4, <1>6 DEF IInv, TablesOK, Messages, tables, Exists
  <2>4. PublishedOnce'
    BY <1>6 DEF IInv, TablesOK, PublishedOnce
  <2> QED
    BY <2>1, <2>2, <2>3, <2>4 DEF TablesOK
<1>10. Unpublished'
  <2> SUFFICES ASSUME NEW u \in Threads, thread'[u].pc \in Publishing
               PROVE  Secret(u, thread[u].made)'
    BY DEF Unpublished
  <2>1. u # p /\ thread'[u] = thread[u] /\ thread[u].pc \in Publishing
    BY <1>0
  <2>2. thread[u].made \in TaskIds /\ thread[u].made # id /\ Secret(u, thread[u].made)
    <3>1. thread[u].made \in TaskIds /\ Secret(u, thread[u].made)
      BY <2>1 DEF IInv, ThreadsOK, ThreadOK, Called, Publishing, OnMade, Unpublished
    <3> QED
      BY <1>1, <2>1, <3>1 DEF Secret
  <2> SUFFICES ASSUME NEW v \in TaskIds, v # id, Secret(u, v) PROVE Secret(u, v)'
    BY <2>1, <2>2
  <2>3. \A q \in Threads :
            /\ thread'[q].pc # "idle" => thread'[q].task # v
            /\ q # u /\ thread'[q].pc \in Publishing => thread'[q].made # v
    BY <1>0 DEF Secret, GoesOn
  <2> QED
    BY <1>3, <1>4, <1>6, <2>3 DEF Secret, tables, Exists
<1>11. ThreadOK(t)'
  BY <1>8, GrowsThread DEF IInv
<1> QED
  BY <1>7, <1>8, <1>9, <1>10, <1>11, ThreadStep DEF GoesOn

\* The maker of a task pushes its message, the first one for it.
LEMMA PublishStep ==
    ASSUME IInv, NEW p \in Threads, Publish(p)
    PROVE  IInv'
<1>1. PICK t \in Thread : GoesOn(p, t) /\ ThreadOK(t) /\ t.pc \notin Publishing
  BY AfterPublishOK DEF Publish
<1> QED
  BY <1>1, PushStep DEF Publish, auxiliary, IInv, TypeOK

\* A failed push leaves the task unpublished.
LEMMA PublishErrorStep ==
    ASSUME IInv, NEW p \in Threads, PublishError(p)
    PROVE  IInv'
<1>0. /\ thread[p] \in Thread /\ ThreadOK(thread[p]) /\ thread[p].pc = "publish"
      /\ UNCHANGED <<tables, repeats, stale, stranded>> /\ faults' \in 0..faults
  BY DEF PublishError, IInv, TypeOK, ThreadsOK
<1>1. PICK t \in Thread : GoesOn(p, t) /\ ThreadOK(t) /\ t.pc \notin Publishing
  <2>1. CASE thread[p].lenient
    BY <2>1, ReturnOK, IdleOK DEF PublishError, Publishing
  <2>2. CASE ~thread[p].lenient
    <3>1. thread[p].doc \in Docs
      BY <1>0, <2>2 DEF ThreadOK, Placed
    <3>2. PICK t \in Thread : t.pc = "markTaskFailed" /\ SameLocals(t, thread[p])
                              /\ GoesOn(p, t) /\ (Called(t) => ThreadOK(t))
      BY <1>0, <2>2, <3>1, GotoOK DEF PublishError, Pcs, Publishing
    <3>3. Called(t)
      BY <1>0, <3>2 DEF ThreadOK, Called, SameLocals, ResolvedKnown, OnResolved, OnExtracted,
                        OnRequest, OnRegistered, OnMade
    <3> QED
      BY <3>2, <3>3 DEF Publishing
  <2> QED
    BY <2>1, <2>2
<1>2. CASE Push(p)
  BY <1>0, <1>1, <1>2, PushStep
<1>3. CASE UNCHANGED broker
  BY <1>0, <1>1, <1>3, SilentStep
<1> QED
  BY <1>2, <1>3 DEF PublishError

\* Where a handler goes once the task it made is marked failed, or cannot be.
LEMMA AfterTaskFailedOK ==
    ASSUME IInv, NEW p \in Threads, thread[p].pc = "markTaskFailed", AfterTaskFailed(p)
    PROVE  \E t \in Thread : GoesOn(p, t) /\ ThreadOK(t)
<1>0. thread[p] \in Thread /\ ThreadOK(thread[p]) /\ thread[p].doc \in Docs
  BY HasDoc DEF IInv, TypeOK, ThreadsOK
<1>1. CASE thread[p].made[2] \in PerRequest
  <2>1. PICK t \in Thread : t.pc = "markRequestFailed" /\ SameLocals(t, thread[p])
                            /\ GoesOn(p, t) /\ (Called(t) => ThreadOK(t))
    BY <1>0, <1>1, GotoOK DEF AfterTaskFailed, Pcs, Publishing
  <2>2. thread[p].made \in Requests \X PerRequest
    <3>1. thread[p].made \in TaskIds
      BY <1>0 DEF ThreadOK, Called, OnMade
    <3> QED
      BY <1>1, <3>1 DEF TaskIds, PerRequest, Singletons
  <2>3. Called(t)
    BY <1>0, <2>1, <2>2 DEF ThreadOK, Called, SameLocals, ResolvedKnown, OnResolved, OnExtracted,
                            OnRequest, OnRegistered, OnMade
  <2> QED
    BY <2>1, <2>3
<1>2. CASE thread[p].made[2] \notin PerRequest
  BY <1>2, AfterPublishOK DEF AfterTaskFailed
<1> QED
  BY <1>1, <1>2

\* A task that could not be pushed is failed.
LEMMA MarkTaskFailedStep ==
    ASSUME IInv, NEW p \in Threads, MarkTaskFailed(p)
    PROVE  IInv'
<1>1. PICK t \in Thread : GoesOn(p, t) /\ ThreadOK(t)
  BY AfterTaskFailedOK DEF MarkTaskFailed
<1>2. PICK id \in TaskIds : id = thread[p].made /\ Exists(id)
  BY DEF IInv, ThreadsOK, ThreadOK, Called, Remembers, OnMade, MarkTaskFailed
<1>3. /\ task' \in [TaskIds -> Task]
      /\ task'[id].status = "failed"
      /\ task'[id].input = task[id].input
      /\ task'[id].payload = task[id].payload
      /\ \A y \in TaskIds : y # id => task'[y] = task[y]
  BY <1>2 DEF MarkTaskFailed, IInv, TypeOK, Task, TaskStatuses
<1>4. Grows /\ TablesOK'
  <2>2. faults' \in 0..faults
    BY DEF MarkTaskFailed, auxiliary, IInv, TypeOK
  <2>3. \A m \in queue' \cup answered' : m.task \in TaskIds /\ Exists(m.task)
    BY DEF MarkTaskFailed, broker, IInv, TypeOK, TablesOK, Messages, Message
  <2> QED
    BY <1>2, <1>3, <2>2, <2>3, TaskWrite DEF MarkTaskFailed, broker
<1>5. TypeOK'
  BY <1>1, <1>3 DEF MarkTaskFailed, IInv, TypeOK, GoesOn, broker, auxiliary
<1>6. \A r \in Requests : Exists(<<r, "extract">>)' => Exists(<<r, "extract">>)
  BY <1>2, <1>3, RequestTaskIds DEF Exists
<1> QED
  BY <1>1, <1>4, <1>5, <1>6, QuietStep DEF MarkTaskFailed, broker

\* Where a handler goes once the request of its task is marked failed, or
\* cannot be.
LEMMA AfterRequestFailedOK ==
    ASSUME IInv, NEW p \in Threads, thread[p].pc = "markRequestFailed", AfterRequestFailed(p)
    PROVE  \E t \in Thread : GoesOn(p, t) /\ ThreadOK(t)
<1>0. thread[p] \in Thread /\ ThreadOK(thread[p]) /\ thread[p].doc \in Docs
  BY HasDoc DEF IInv, TypeOK, ThreadsOK
<1>1. CASE thread[p].made[2] = "extract"
  <2>1. PICK t \in Thread : t.pc = "failRequest" /\ SameLocals(t, thread[p])
                            /\ GoesOn(p, t) /\ (Called(t) => ThreadOK(t))
    BY <1>0, <1>1, GotoOK DEF AfterRequestFailed, Pcs, Publishing
  <2>2. thread[p].task \in Requests \X PerRequest
    BY <1>0, <1>1 DEF ThreadOK, Called, OnMade
  <2>3. Called(t)
    BY <2>1, <2>2 DEF Called, SameLocals, ResolvedKnown, OnResolved, OnExtracted,
                      OnRequest, OnRegistered, OnMade
  <2> QED
    BY <2>1, <2>3
<1>2. CASE thread[p].made[2] # "extract"
  BY <1>2, LoopOK DEF AfterRequestFailed
<1> QED
  BY <1>1, <1>2

\* So is its request.
LEMMA MarkRequestFailedStep ==
    ASSUME IInv, NEW p \in Threads, MarkRequestFailed(p)
    PROVE  IInv'
<1>1. PICK t \in Thread : GoesOn(p, t) /\ ThreadOK(t)
  BY AfterRequestFailedOK DEF MarkRequestFailed
<1>2. thread[p].made \in Requests \X PerRequest /\ Exists(thread[p].made)
  BY DEF IInv, ThreadsOK, ThreadOK, Called, Remembers, MarkRequestFailed, TaskIds
<1>3. thread[p].made[1] \in Requests /\ request[thread[p].made[1]].doc \in Docs
  BY <1>2, TaskRequest
<1> QED
  BY <1>1, <1>3, StatusStep DEF MarkRequestFailed, RequestStatuses

\* What OnResolveKeysCompleted works on.
LEMMA ResolvedThread ==
    ASSUME IInv, NEW p \in Threads, thread[p].pc \in OnResolved
    PROVE  \E r \in Requests : /\ thread[p].task = <<r, "resolve_keys">>
                               /\ thread[p].task[1] = r /\ RequestOf(p) = r
                               /\ thread[p].payload \in Schemas
                               /\ thread[p].doc \in Docs /\ request[r].doc = thread[p].doc
                               /\ ResolvedKnown(thread[p])
<1>1. ResolvedKnown(thread[p]) /\ thread[p].doc \in Docs
  BY DEF IInv, ThreadsOK, ThreadOK, Called, Placed, OnResolved
<1> QED
  BY <1>1 DEF ResolvedKnown, RequestOf

\* A handler that fails the request its task belongs to.
LEMMA FailRequestOK ==
    ASSUME IInv, NEW p \in Threads, thread[p].pc \in OnResolved \cup OnExtracted,
           Goto(p, "failRequest")
    PROVE  \E t \in Thread : GoesOn(p, t) /\ ThreadOK(t)
<1>0. thread[p].pc \notin {"idle", "publish"} /\ thread[p].doc \in Docs
  BY HasDoc DEF OnResolved, OnExtracted
<1>1. PICK t \in Thread : t.pc = "failRequest" /\ SameLocals(t, thread[p])
                          /\ GoesOn(p, t) /\ (Called(t) => ThreadOK(t))
  BY <1>0, GotoOK DEF Pcs, Publishing
<1>2. thread[p].task \in Requests \X PerRequest
  <2>1. CASE thread[p].pc \in OnResolved
    <3>1. PICK r \in Requests : thread[p].task = <<r, "resolve_keys">>
      BY <2>1, ResolvedThread
    <3>2. "resolve_keys" \in PerRequest
      BY DEF PerRequest
    <3> QED
      BY <3>1, <3>2
  <2>2. CASE thread[p].pc \in OnExtracted
    BY <1>0, <2>2 DEF IInv, ThreadsOK, ThreadOK, Called, PerRequest
  <2> QED
    BY <2>1, <2>2
<1>3. Called(t)
  BY <1>1, <1>2 DEF Called, SameLocals, ResolvedKnown, OnResolved, OnExtracted,
                    OnRequest, OnRegistered, OnMade
<1> QED
  BY <1>1, <1>3

\* A handler that goes on to a position of OnResolveKeysCompleted.
LEMMA ResolvedGoto ==
    ASSUME IInv, NEW p \in Threads, thread[p].pc \in OnResolved,
           NEW x \in OnResolved, Goto(p, x)
    PROVE  \E t \in Thread : /\ GoesOn(p, t) /\ t.pc = x /\ SameLocals(t, thread[p])
                             /\ ResolvedKnown(t) => ThreadOK(t)
                             /\ Placed(t) /\ Remembers(t)
                             /\ ResolvedKnown(t)' => Called(t)'
<1>0. /\ thread[p].pc \notin {"idle", "publish"} /\ thread[p].doc \in Docs /\ ThreadOK(thread[p])
      /\ x \in Pcs \ {"idle"} /\ x \notin Publishing
  BY HasDoc DEF OnResolved, IInv, ThreadsOK, Pcs, Publishing
<1>1. PICK t \in Thread : t.pc = x /\ SameLocals(t, thread[p])
                          /\ GoesOn(p, t) /\ (Called(t) => ThreadOK(t))
  BY <1>0, GotoOK
<1>2. Placed(t) /\ Remembers(t)
  BY <1>0, <1>1 DEF SameLocals, ThreadOK, Placed, Remembers
<1>3. /\ ResolvedKnown(t) => Called(t)
      /\ ResolvedKnown(t)' => Called(t)'
  BY <1>1 DEF Called, OnResolved, OnExtracted, OnRequest, OnRegistered, OnMade
<1> QED
  BY <1>1, <1>2, <1>3

\* The new keys of a schema are stored.
LEMMA UpsertKeysStep ==
    ASSUME IInv, NEW p \in Threads, UpsertKeys(p)
    PROVE  IInv'
<1>0. thread[p].pc = "upsertKeys" /\ thread[p].pc \in OnResolved
  BY DEF UpsertKeys, OnResolved
<1>1. PICK r \in Requests : /\ thread[p].task = <<r, "resolve_keys">>
                            /\ thread[p].task[1] = r /\ RequestOf(p) = r
                            /\ thread[p].payload \in Schemas
                            /\ thread[p].doc \in Docs /\ request[r].doc = thread[p].doc
                            /\ ResolvedKnown(thread[p])
  BY <1>0, ResolvedThread
<1>2. PICK t \in Thread : /\ GoesOn(p, t) /\ t.pc = "saveSchema" /\ SameLocals(t, thread[p])
                          /\ Placed(t) /\ Remembers(t)
                          /\ ResolvedKnown(t)' => Called(t)'
  BY <1>0, ResolvedGoto DEF UpsertKeys, OnResolved
<1>3. Grows /\ TablesOK'
  BY AddRows DEF UpsertKeys, auxiliary, IInv, TypeOK
<1>4. ResolvedKnown(t)'
  <2>1. r \in keys'
    BY <1>1 DEF UpsertKeys
  <2> QED
    BY <1>0, <1>1, <1>2, <2>1 DEF UpsertKeys, ResolvedKnown, SameLocals, KeysTried
<1>5. ThreadOK(t)'
  BY <1>2, <1>3, <1>4, GrowsRemembers DEF ThreadOK, Placed
<1>6. TypeOK'
  BY <1>1, <1>2 DEF UpsertKeys, IInv, TypeOK, GoesOn, broker, auxiliary
<1> QED
  BY <1>2, <1>3, <1>5, <1>6, QuietStep DEF UpsertKeys, Exists, broker

\* The schema is stored behind its keys.
LEMMA SaveSchemaStep ==
    ASSUME IInv, NEW p \in Threads, SaveSchema(p)
    PROVE  IInv'
<1>0. thread[p].pc = "saveSchema" /\ thread[p].pc \in OnResolved
  BY DEF SaveSchema, OnResolved
<1>1. PICK r \in Requests : /\ thread[p].task = <<r, "resolve_keys">>
                            /\ thread[p].task[1] = r /\ RequestOf(p) = r
                            /\ thread[p].payload \in Schemas
                            /\ thread[p].doc \in Docs /\ request[r].doc = thread[p].doc
                            /\ ResolvedKnown(thread[p])
  BY <1>0, ResolvedThread
<1>2. PICK t \in Thread : /\ GoesOn(p, t) /\ t.pc = "findTarget" /\ SameLocals(t, thread[p])
                          /\ Placed(t) /\ Remembers(t)
                          /\ ResolvedKnown(t)' => Called(t)'
  BY <1>0, ResolvedGoto DEF SaveSchema, OnResolved
<1>3. /\ request' \in [Requests -> Request]
      /\ request'[r].resolved_schema = thread[p].payload
      /\ Grows /\ TablesOK'
  BY <1>1, SchemaWrite DEF SaveSchema, auxiliary
<1>4. ResolvedKnown(t)'
  <2>1. request'[r].resolved_schema # None /\ request'[r].doc = thread[p].doc
    BY <1>1, <1>3 DEF Grows
  <2>2. KeysTried(r)'
    BY <1>0, <1>1 DEF ResolvedKnown, KeysTried, SaveSchema, auxiliary
  <2> QED
    BY <1>1, <1>2, <2>1, <2>2 DEF ResolvedKnown, SameLocals
<1>5. ThreadOK(t)'
  BY <1>2, <1>3, <1>4, GrowsRemembers DEF ThreadOK, Placed
<1>6. TypeOK'
  BY <1>2, <1>3 DEF SaveSchema, IInv, TypeOK, GoesOn, broker, auxiliary
<1> QED
  BY <1>2, <1>3, <1>5, <1>6, QuietStep DEF SaveSchema, Exists, broker

\* The text of the request is looked up again.
LEMMA FindTargetStep ==
    ASSUME IInv, NEW p \in Threads, FindTarget(p)
    PROVE  IInv'
<1>0. /\ thread[p].pc = "findTarget" /\ thread[p].pc \in OnResolved
      /\ UNCHANGED <<tables, broker, repeats, stale, stranded>> /\ faults' \in 0..faults
  BY DEF FindTarget, OnResolved, auxiliary, IInv, TypeOK
<1>1. PICK r \in Requests : /\ thread[p].task = <<r, "resolve_keys">>
                            /\ thread[p].task[1] = r /\ RequestOf(p) = r
                            /\ thread[p].payload \in Schemas
                            /\ thread[p].doc \in Docs /\ request[r].doc = thread[p].doc
                            /\ ResolvedKnown(thread[p])
  BY <1>0, ResolvedThread
<1>2. CASE Target(r) \in artifact[thread[p].doc]
  <2>1. PICK t \in Thread : /\ GoesOn(p, t) /\ t.pc = "createExtract" /\ SameLocals(t, thread[p])
                            /\ ResolvedKnown(t) => ThreadOK(t)
    BY <1>0, <1>1, <1>2, ResolvedGoto DEF FindTarget, OnResolved
  <2>2. ResolvedKnown(t)
    BY <1>0, <1>1, <1>2, <2>1 DEF ResolvedKnown, SameLocals
  <2> QED
    BY <1>0, <2>1, <2>2, SilentStep
<1>3. CASE Target(r) \notin artifact[thread[p].doc]
  <2>1. PICK t \in Thread : GoesOn(p, t) /\ ThreadOK(t)
    BY <1>0, <1>1, <1>3, FailRequestOK DEF FindTarget
  <2> QED
    BY <1>0, <2>1, SilentStep
<1> QED
  BY <1>2, <1>3

\* The values of an extract task are stored.
LEMMA PersistStep ==
    ASSUME IInv, NEW p \in Threads, Persist(p)
    PROVE  IInv'
<1>0. /\ thread[p].pc = "persist" /\ thread[p].doc \in Docs /\ ThreadOK(thread[p])
  BY HasDoc DEF Persist, IInv, ThreadsOK
<1>1. PICK r \in Requests : thread[p].task = <<r, "extract">> /\ thread[p].task[1] = r /\ RequestOf(p) = r
  BY <1>0 DEF ThreadOK, Called, OnExtracted, RequestOf
<1>2. PICK t \in Thread : /\ GoesOn(p, t) /\ t.pc = "complete" /\ SameLocals(t, thread[p])
                          /\ (Called(t) => ThreadOK(t))
  BY <1>0, GotoOK DEF Persist, Pcs, Publishing
<1>3. Grows /\ TablesOK'
  BY AddRows DEF Persist, auxiliary, IInv, TypeOK
<1>4. r \in answers' \/ faults < MaxFaults
  <2>1. Exists(<<r, "extract">>)
    BY <1>0, <1>1, RequestTaskIds DEF ThreadOK, Remembers
  <2>2. KeysTried(r)
    BY <2>1 DEF IInv, TablesOK, Chain
  <2> QED
    BY <1>1, <2>2 DEF Persist, KeysTried
<1>5. ThreadOK(t)'
  <2>1. Remembers(t) /\ Placed(t)
    BY <1>0, <1>2 DEF SameLocals, ThreadOK, Placed, Remembers
  <2>2. Called(t)'
    BY <1>1, <1>2, <1>4 DEF Called, SameLocals, ResolvedKnown, OnResolved,
                      OnRequest, OnRegistered, OnMade, Persist, auxiliary
  <2> QED
    BY <1>3, <2>1, <2>2, GrowsRemembers DEF ThreadOK, Placed
<1>6. TypeOK'
  BY <1>1, <1>2 DEF Persist, IInv, TypeOK, GoesOn, broker, auxiliary
<1> QED
  BY <1>2, <1>3, <1>5, <1>6, QuietStep DEF Persist, Exists, broker

\* The request is completed behind its values.
LEMMA CompleteStep ==
    ASSUME IInv, NEW p \in Threads, Complete(p)
    PROVE  IInv'
<1>0. /\ thread[p].pc = "complete" /\ ThreadOK(thread[p])
  BY DEF Complete, IInv, ThreadsOK
<1>1. PICK r \in Requests : /\ thread[p].task = <<r, "extract">> /\ thread[p].task[1] = r
                            /\ RequestOf(p) = r
                            /\ r \in answers \/ faults < MaxFaults
  BY <1>0 DEF ThreadOK, Called, OnExtracted, RequestOf
<1>2. Exists(<<r, "extract">>)
  BY <1>0, <1>1, RequestTaskIds DEF ThreadOK, Remembers
<1>3. request[r].doc \in Docs
  <2>1. "extract" \in PerRequest
    BY DEF PerRequest
  <2> QED
    BY <1>2, <2>1 DEF IInv, TablesOK, TaskRows
<1> QED
  BY <1>1, <1>2, <1>3, ReturnOK, IdleOK, StatusStep DEF Complete, RequestStatuses

\* Whatever statement fails, the handler goes on with what it knows; a key that
\* could not be stored is known to be a fault.
LEMMA OnErrorOK ==
    ASSUME IInv, NEW p \in Threads, OnError(p),
           faults > 0, faults' = faults - 1, UNCHANGED tables
    PROVE  \E t \in Thread : GoesOn(p, t) /\ (ThreadOK(t) \/ ThreadOK(t)')
<1>0. thread[p] \in Thread /\ ThreadOK(thread[p])
  BY DEF IInv, TypeOK, ThreadsOK
<1>1. CASE thread[p].pc \in {"registerConvert", "convertPayload"} /\ Goto(p, "triggerAnonymize")
  <2>1. PICK t \in Thread : t.pc = "triggerAnonymize" /\ SameLocals(t, thread[p])
                            /\ GoesOn(p, t) /\ (Called(t) => ThreadOK(t))
    BY <1>1, HasDoc, GotoOK DEF Pcs, Publishing
  <2>2. Called(t)
    BY <1>0, <1>1, <2>1 DEF ThreadOK, Called, SameLocals, ResolvedKnown, OnResolved, OnExtracted,
                            OnRequest, OnRegistered, OnMade
  <2> QED
    BY <2>1, <2>2
<1>2. CASE /\ thread[p].pc \in {"triggerAnonymize", "registerAnonymize", "registerEntities", "anonymizePayload"}
           /\ Goto(p, "listProgress")
  <2>1. PICK t \in Thread : t.pc = "listProgress" /\ GoesOn(p, t) /\ (Called(t) => ThreadOK(t))
    BY <1>2, HasDoc, GotoOK DEF Pcs, Publishing
  <2>2. Called(t)
    BY <2>1 DEF Called, ResolvedKnown, OnResolved, OnExtracted, OnRequest, OnRegistered, OnMade
  <2> QED
    BY <2>1, <2>2
<1>3. CASE thread[p].pc \in {"loop", "failLoop"} /\ \E q \in thread[p].todo : DropRequest(p, q)
  BY <1>3, DropRequestOK
<1>4. CASE thread[p].pc \in {"createResolveKeys", "ensureConvert", "ensureAnonymize"} /\ Loop(p)
  BY <1>4, LoopOK
<1>5. CASE thread[p].pc = "setRunning" /\ Goto(p, "publish")
  <2>1. PICK t \in Thread : t.pc = "publish" /\ SameLocals(t, thread[p])
                            /\ GoesOn(p, t) /\ (Called(t) => ThreadOK(t))
    BY <1>5, HasDoc, GotoOK DEF Pcs, Publishing
  <2>2. Called(t)
    BY <1>0, <1>5, <2>1 DEF ThreadOK, Called, SameLocals, ResolvedKnown, OnResolved, OnExtracted,
                            OnRequest, OnRegistered, OnMade
  <2> QED
    BY <2>1, <2>2
<1>6. CASE thread[p].pc = "upsertKeys" /\ Goto(p, "saveSchema")
  <2>1. PICK t \in Thread : /\ GoesOn(p, t) /\ t.pc = "saveSchema" /\ SameLocals(t, thread[p])
                            /\ Placed(t) /\ Remembers(t)
                            /\ ResolvedKnown(t)' => Called(t)'
    BY <1>6, ResolvedGoto DEF OnResolved
  <2>2. faults' \in 0..faults /\ faults' < MaxFaults
    BY DEF IInv, TypeOK
  <2>3. Grows
    BY <2>2 DEF Grows, tables, Exists
  <2>4. ResolvedKnown(thread[p])
    BY <1>6, ResolvedThread DEF OnResolved
  <2>5. ResolvedKnown(t)'
    BY <1>6, <2>1, <2>2, <2>4 DEF ResolvedKnown, SameLocals, KeysTried, OnResolved, tables
  <2> QED
    BY <2>1, <2>3, <2>5, GrowsRemembers DEF ThreadOK, Placed
<1>7. CASE /\ thread[p].pc \in {"upsertKeys", "saveSchema", "findTarget", "createExtract", "persist", "complete"}
           /\ Goto(p, "failRequest")
  BY <1>7, FailRequestOK DEF OnResolved, OnExtracted
<1>8. CASE thread[p].pc = "markTaskFailed" /\ AfterTaskFailed(p)
  BY <1>8, AfterTaskFailedOK
<1>9. CASE thread[p].pc = "markRequestFailed" /\ AfterRequestFailed(p)
  BY <1>9, AfterRequestFailedOK
<1>10. CASE thread[p].pc \in {"listProgress", "listFail", "failRequest"} /\ Return(p)
  BY <1>10, ReturnOK, IdleOK
<1> QED
  BY <1>1, <1>2, <1>3, <1>4, <1>5, <1>6, <1>7, <1>8, <1>9, <1>10 DEF OnError

\* A statement fails and the handler goes on without its effect.
LEMMA StepErrorStep ==
    ASSUME IInv, NEW p \in Threads, StepError(p)
    PROVE  IInv'
<1>1. PICK t \in Thread : GoesOn(p, t) /\ (ThreadOK(t) \/ ThreadOK(t)')
  BY OnErrorOK DEF StepError
<1>2. faults' \in 0..faults
  BY DEF StepError, IInv, TypeOK
<1> QED
  BY <1>1, <1>2, SilentStep DEF StepError

\* A handler dies and leaves the tables as they are.
LEMMA AbortStep ==
    ASSUME IInv, NEW p \in Threads, Abort(p)
    PROVE  IInv'
<1>1. faults' \in 0..faults
  BY DEF Abort, IInv, TypeOK
<1> QED
  BY <1>1, ReturnOK, IdleOK, SilentStep DEF Abort

\* POST /documents/:id/extract inserts a request and remembers it.
LEMMA InitiateStep ==
    ASSUME IInv, NEW p \in Threads, NEW r \in Requests, NEW d \in Docs, NEW a \in BOOLEAN,
           Initiate(p, r, d, a)
    PROVE  IInv'
<1>1. PICK q \in Snapshot : q = [id |-> r, status |-> "pending"]
  BY DEF Snapshot, InFlight
<1> DEFINE t == [IdleThread EXCEPT !.pc = "loop", !.doc = d, !.todo = {q}]
<1>2. thread' = [thread EXCEPT ![p] = t]
  BY <1>1 DEF Initiate
<1>3. /\ t \in Thread
      /\ t.pc = "loop" /\ t.doc = d /\ t.todo = {q} /\ t.task = None /\ t.made = None /\ t.req = None
  BY <1>1 DEF IdleThread, Thread, Pcs, Payloads
<1> HIDE DEF t
<1>4. request' \in [Requests -> Request] /\ request'[r].doc = d /\ Grows /\ TablesOK'
  BY RequestWrite DEF Initiate, auxiliary
<1>5. ThreadOK(t)'
  <2>1. Placed(t)' /\ Remembers(t)'
    BY <1>1, <1>3, <1>4 DEF Placed, Remembers
  <2>2. Called(t)'
    BY <1>3 DEF Called, ResolvedKnown, OnResolved, OnExtracted, OnRequest, OnRegistered, OnMade
  <2> QED
    BY <2>1, <2>2 DEF ThreadOK
<1>6. TypeOK'
  <2>1. Prerequisites(d, a) \subseteq TaskIds
    BY DocTaskIds DEF Prerequisites
  <2>2. stranded' \subseteq Requests \X TaskIds
    BY <2>1 DEF Initiate, IInv, TypeOK
  <2> QED
    BY <1>2, <1>3, <1>4, <2>2 DEF Initiate, IInv, TypeOK, broker
<1>7. GoesOn(p, t)
  BY <1>2, <1>3 DEF GoesOn, Publishing
<1> QED
  BY <1>3, <1>4, <1>5, <1>6, <1>7, QuietStep DEF Initiate, broker, Exists

\* The branches of HandleStatusUpdate.
LEMMA BranchValue ==
    ASSUME NEW m \in Singletons \cup PerRequest, NEW s \in {"processing", "completed", "failed"}, NEW x
    PROVE  /\ Branch(m, s, x) \in {"idle", "listFail", "failRequest", "registerConvert",
                 "registerAnonymize", "listProgress", "upsertKeys", "persist"}
           /\ Branch(m, s, x) \in {"registerConvert", "registerAnonymize"} => m \in Singletons
           /\ Branch(m, s, x) = "failRequest" => m \in PerRequest
           /\ Branch(m, s, x) = "upsertKeys" => m = "resolve_keys" /\ x \in Schemas
           /\ Branch(m, s, x) = "persist" => m = "extract"
<1>1. CASE s = "processing"
  BY <1>1 DEF Branch
<1>2. CASE s = "failed" /\ m \in Singletons
  BY <1>2 DEF Branch, Singletons
<1>3. CASE s = "failed" /\ m \in PerRequest
  BY <1>3 DEF Branch, Singletons, PerRequest
<1>4. CASE s = "completed" /\ m = "convert"
  BY <1>4 DEF Branch, Singletons
<1>5. CASE s = "completed" /\ m = "anonymize"
  BY <1>5 DEF Branch, Singletons
<1>6. CASE s = "completed" /\ m = "resolve_keys"
  BY <1>6 DEF Branch, PerRequest
<1>7. CASE s = "completed" /\ m = "extract"
  BY <1>7 DEF Branch, PerRequest
<1> QED
  BY <1>1, <1>2, <1>3, <1>4, <1>5, <1>6, <1>7 DEF Singletons, PerRequest

\* A callback for a task that was published.
LEMMA CallbackStep ==
    ASSUME IInv, NEW p \in Threads, NEW id \in TaskIds, Exists(id),
           \E m \in queue \cup answered : id = m.task,
           NEW s \in {"processing", "completed", "failed"}, NEW new \in Payloads \cup {"NULL"},
           HandleStatusUpdate(p, id, s, new),
           queue' \cup answered' \subseteq queue \cup answered,
           repeats' \in Nat, UNCHANGED <<stale, faults, stranded>>
    PROVE  IInv'
<1> DEFINE x == Coalesce(new, task[id].payload)
           pc == Branch(id[2], s, x)
<1>0. /\ thread \in [Threads -> Thread] /\ task \in [TaskIds -> Task]
      /\ queue \subseteq Message /\ answered \subseteq Message
  BY DEF IInv, TypeOK
<1>1. x \in Payloads /\ s \in TaskStatuses
  BY <1>0 DEF Coalesce, Task, TaskStatuses, Active
<1>3. task' = [task EXCEPT ![id].status = s, ![id].payload = x]
  BY DEF HandleStatusUpdate
<1> HIDE DEF x
<1>4. /\ task' \in [TaskIds -> Task]
      /\ task'[id].status = s /\ task'[id].payload = x
      /\ task'[id].input = task[id].input
      /\ \A y \in TaskIds : y # id => task'[y] = task[y]
  BY <1>0, <1>1, <1>3, CallbackRow
<1>5. Grows /\ TablesOK'
  <2>1. faults' \in 0..faults
    BY DEF IInv, TypeOK
  <2>2. \A m \in queue' \cup answered' : m.task \in TaskIds /\ Exists(m.task)
    BY DEF IInv, TypeOK, TablesOK, Messages, Message
  <2>3. UNCHANGED <<request, artifact, keys, answers, pushes>>
    BY DEF HandleStatusUpdate
  <2>4. task'[id].status # "absent"
    BY <1>4
  <2> QED
    BY <1>4, <2>1, <2>2, <2>3, <2>4, TaskWrite
<1>6. \A r \in Requests : Exists(<<r, "extract">>)' => Exists(<<r, "extract">>)
  BY <1>4, RequestTaskIds DEF Exists
<1>7. id[2] \in Singletons \cup PerRequest
  BY DEF TaskIds
<1>8. thread[p].pc = "idle"
  BY DEF HandleStatusUpdate
<1>9. CASE pc = "idle"
  <2>1. thread' = thread
    BY <1>9 DEF HandleStatusUpdate, x
  <2>2. PICK t \in Thread : t = thread[p] /\ t.pc = "idle" /\ ThreadOK(t) /\ GoesOn(p, t)
    BY <1>0, <1>8, <2>1 DEF ThreadOK, GoesOn, Publishing
  <2>3. TypeOK'
    BY <1>4, <2>1 DEF HandleStatusUpdate, IInv, TypeOK
  <2> QED
    BY <1>5, <1>6, <2>2, <2>3, QuietStep DEF HandleStatusUpdate
<1>10. CASE pc # "idle"
  <2> DEFINE t == [IdleThread EXCEPT !.pc = pc, !.task = id, !.payload = x, !.doc = DocOf(id)]
  <2>1. thread' = [thread EXCEPT ![p] = t]
    BY <1>10 DEF HandleStatusUpdate, x
  <2>2. /\ pc \in {"listFail", "failRequest", "registerConvert",
                   "registerAnonymize", "listProgress", "upsertKeys", "persist"}
        /\ pc \in {"registerConvert", "registerAnonymize"} => id[2] \in Singletons
        /\ pc = "failRequest" => id[2] \in PerRequest
        /\ pc = "upsertKeys" => id[2] = "resolve_keys" /\ x \in Schemas
        /\ pc = "persist" => id[2] = "extract"
    BY <1>7, <1>10, BranchValue
  <2> HIDE DEF pc
  <2>3. DocOf(id) \in Docs /\ (id[2] \in PerRequest => request[id[1]].doc = DocOf(id))
    <3>1. CASE id \in Docs \X Singletons
      BY <3>1 DEF DocOf, Singletons, PerRequest
    <3>2. CASE id \in Requests \X PerRequest
      BY <3>2, TaskRequest DEF DocOf, Singletons, PerRequest
    <3> QED
      BY <3>1, <3>2 DEF TaskIds
  <2>4. /\ t \in Thread
        /\ t.pc = pc /\ t.task = id /\ t.payload = x /\ t.doc = DocOf(id)
        /\ t.todo = {} /\ t.req = None /\ t.made = None
    BY <1>1, <2>2, <2>3 DEF IdleThread, Thread, Pcs
  <2> HIDE DEF t
  <2>5. Called(t)
    <3>1. /\ id[2] \in Singletons => id \in Docs \X Singletons
          /\ id[2] \in PerRequest => id \in Requests \X PerRequest
          /\ id[2] = "resolve_keys" => id \in Requests \X {"resolve_keys"}
          /\ id[2] = "extract" => id \in Requests \X {"extract"}
      BY DEF TaskIds, Singletons, PerRequest
    <3>2. ResolvedKnown(t)
      BY <2>2, <2>3, <2>4, <3>1 DEF ResolvedKnown, OnResolved, PerRequest
    <3> QED
      BY <2>2, <2>4, <3>1, <3>2 DEF Called, OnResolved, OnExtracted, OnRequest, OnRegistered, OnMade
  <2>6. ThreadOK(t)
    BY <2>3, <2>4, <2>5 DEF ThreadOK, Placed, Remembers
  <2>7. GoesOn(p, t)
    BY <2>1, <2>2, <2>4 DEF GoesOn, Publishing
  <2>8. TypeOK'
    BY <1>0, <1>4, <2>1, <2>4 DEF HandleStatusUpdate, IInv, TypeOK
  <2> QED
    BY <1>5, <1>6, <2>4, <2>6, <2>7, <2>8, QuietStep DEF HandleStatusUpdate
<1> QED
  BY <1>9, <1>10

\* The first answer to a message, and repeated ones.
LEMMA WorkerStep ==
    ASSUME IInv, NEW p \in Threads, NEW m \in queue \cup answered,
           (m \in queue /\ WorkerAnswer(p, m)) \/ WorkerRepeat(p, m)
    PROVE  IInv'
<1>1. m \in Message /\ m.task \in TaskIds /\ Exists(m.task)
  BY DEF IInv, TypeOK, Message, TablesOK, Messages
<1>2. Results(m.task) \subseteq Payloads \cup {"NULL"}
  BY DEF Results, Payloads, Useless
<1>3. ASSUME m \in queue, WorkerAnswer(p, m) PROVE IInv'
  <2>1. /\ queue' \cup answered' \subseteq queue \cup answered
        /\ repeats' \in Nat /\ UNCHANGED <<stale, faults, stranded>>
    BY <1>3 DEF WorkerAnswer, auxiliary, IInv, TypeOK
  <2>2. ASSUME NEW x \in Results(m.task), HandleStatusUpdate(p, m.task, "completed", x) PROVE IInv'
    BY <1>1, <1>2, <2>1, <2>2, CallbackStep
  <2>3. ASSUME HandleStatusUpdate(p, m.task, "failed", "NULL") PROVE IInv'
    BY <1>1, <1>2, <2>1, <2>3, CallbackStep
  <2> QED
    BY <1>3, <2>2, <2>3 DEF WorkerAnswer
<1>4. ASSUME WorkerRepeat(p, m) PROVE IInv'
  <2>1. /\ queue' \cup answered' \subseteq queue \cup answered
        /\ repeats' \in Nat /\ UNCHANGED <<stale, faults, stranded>>
    BY <1>4 DEF WorkerRepeat, IInv, TypeOK
  <2>2. ASSUME NEW x \in Results(m.task),
               HandleStatusUpdate(p, m.task, "completed", x)
        PROVE  IInv'
    BY <1>1, <1>2, <2>1, <2>2, CallbackStep
  <2>3. ASSUME NEW s \in {"processing", "failed"}, HandleStatusUpdate(p, m.task, s, "NULL")
        PROVE  IInv'
    BY <1>1, <1>2, <2>1, <2>3, CallbackStep
  <2> QED
    BY <1>4, <2>2, <2>3 DEF WorkerRepeat
<1> QED
  BY <1>3, <1>4

\* The invariant after a step that leaves the handlers alone.
LEMMA OutsideStep ==
    ASSUME IInv, thread' = thread, TypeOK', Grows, TablesOK', Unpublished'
    PROVE  IInv'
<1>1. faults' <= MaxFaults
  BY FaultsLeft DEF Grows
<1>2. ThreadsOK'
  <2>1. \A q \in Threads : thread[q] \in Thread /\ ThreadOK(thread[q])
    BY DEF IInv, TypeOK, ThreadsOK
  <2>2. \A u \in Thread : ThreadOK(u) => ThreadOK(u)'
    BY GrowsThread DEF IInv
  <2> QED
    BY <2>1, <2>2 DEF ThreadsOK
<1> QED
  BY <1>1, <1>2 DEF IInv

\* A message is lost.
LEMMA MessageLostStep ==
    ASSUME IInv, NEW m \in queue, MessageLost(m)
    PROVE  IInv'
<1>1. /\ queue' \cup answered' \subseteq queue \cup answered
      /\ UNCHANGED <<tables, pushes, thread>> /\ faults' \in 0..faults
  BY DEF MessageLost, IInv, TypeOK
<1>2. Grows /\ TablesOK'
  BY <1>1, NoWrite DEF IInv, TablesOK, Messages
<1>3. TypeOK'
  BY FaultsLeft, <1>1 DEF MessageLost, IInv, TypeOK, tables
<1>4. Unpublished'
  BY <1>1 DEF IInv, Unpublished, Secret, tables, Exists
<1> QED
  BY <1>1, <1>2, <1>3, <1>4, OutsideStep

\* The watchdog requeues a stale task or gives it up: never one that a handler
\* has still to publish.
LEMMA WatchdogStep ==
    ASSUME IInv, NEW id \in TaskIds, WatchdogRequeue(id) \/ WatchdogFail(id)
    PROVE  IInv'
<1>0. /\ Exists(id)
      /\ \A p \in Threads : thread[p].made # id
      /\ UNCHANGED <<request, artifact, keys, answers, pushes, thread, faults, answered>>
      /\ task \in [TaskIds -> Task]
  BY DEF WatchdogRequeue, WatchdogFail, CanBeStale, Exists, Active, broker, IInv, TypeOK
<1>1. /\ task' \in [TaskIds -> Task]
      /\ task'[id].status # "absent"
      /\ task'[id].input = task[id].input
      /\ task'[id].payload = task[id].payload
      /\ \A y \in TaskIds : y # id => task'[y] = task[y]
  <2>1. CASE WatchdogRequeue(id)
    BY <1>0, <2>1 DEF WatchdogRequeue, Task, TaskStatuses, Active
  <2>2. CASE WatchdogFail(id)
    BY <1>0, <2>2 DEF WatchdogFail, Task, TaskStatuses
  <2> QED
    BY <2>1, <2>2
<1>2. PICK m \in Message : m = [task |-> id, kwargs |-> "none"] /\ m.task = id
  <2>1. [task |-> id, kwargs |-> "none"] \in Message
    BY DEF Message
  <2> QED
    BY <2>1
<1>3. queue' \subseteq queue \cup {m}
  BY <1>2 DEF WatchdogRequeue, WatchdogFail, broker
<1>4. Grows /\ TablesOK'
  <2>2. \A n \in queue' \cup answered' : n.task \in TaskIds /\ Exists(n.task)
    BY <1>0, <1>2, <1>3 DEF IInv, TypeOK, TablesOK, Messages, Message
  <2>3. faults' \in 0..faults
    BY <1>0 DEF IInv, TypeOK
  <2> QED
    BY <1>0, <1>1, <2>2, <2>3, TaskWrite
<1>5. TypeOK'
  <2>1. stale' \in Nat /\ repeats' \in Nat /\ stranded' \subseteq Requests \X TaskIds
    BY DEF WatchdogRequeue, WatchdogFail, IInv, TypeOK
  <2> QED
    BY <1>0, <1>1, <1>3, <2>1 DEF IInv, TypeOK
<1>6. Unpublished'
  <2> SUFFICES ASSUME NEW u \in Threads, thread[u].pc \in Publishing
               PROVE  Secret(u, thread[u].made)'
    BY <1>0 DEF Unpublished
  <2>1. thread[u].made \in TaskIds /\ Secret(u, thread[u].made)
    BY DEF IInv, ThreadsOK, ThreadOK, Called, Publishing, OnMade, Unpublished
  <2> SUFFICES ASSUME NEW v \in TaskIds, v # id, Secret(u, v) PROVE Secret(u, v)'
    BY <1>0, <2>1
  <2>2. v[2] = "resolve_keys" => <<v[1], "extract">> \in TaskIds
    BY DEF TaskIds, Singletons, PerRequest
  <2>3. \A y \in TaskIds : Exists(y)' => Exists(y)
    BY <1>0, <1>1 DEF Exists
  <2> QED
    BY <1>0, <1>2, <1>3, <2>2, <2>3 DEF Secret
<1> QED
  BY <1>0, <1>4, <1>5, <1>6, OutsideStep

-----------------------------------------------------------------------------
(* The invariants of the pipeline *)

\* The initial state: no row, no message, no handler at work.
LEMMA InitIInv == Init => IInv
<1> SUFFICES ASSUME Init PROVE IInv
  OBVIOUS
<1>1. TypeOK
  <2>1. task \in [TaskIds -> Task]
    BY DEF Init, Task, TaskStatuses, Payloads
  <2>2. request \in [Requests -> Request]
    BY DEF Init, Request, RequestStatuses
  <2>3. thread \in [Threads -> Thread]
    BY IdleOK DEF Init
  <2> QED
    BY <2>1, <2>2, <2>3 DEF Init, TypeOK
<1>2. \A id \in TaskIds : ~Exists(id)
  BY DEF Init, Exists
<1>3. \A r \in Requests : request[r].status = "absent" /\ request[r].doc = None /\ request[r].resolved_schema = None
  BY DEF Init
<1>4. RequestRows /\ Chain
  BY <1>2, <1>3, RequestTaskIds DEF RequestRows, Chain
<1>5. TaskRows /\ TaskReadsTarget
  <2>1. \A r \in Requests : \A m \in PerRequest : <<r, m>> \in TaskIds
    BY DEF TaskIds
  <2> QED
    BY <1>2, <2>1 DEF TaskRows, TaskReadsTarget
<1>6. Messages /\ PublishedOnce /\ faults <= MaxFaults
  BY DEF Init, Messages, PublishedOnce
<1>7. \A p \in Threads : thread[p].pc = "idle"
  BY IdleOK DEF Init
<1>8. ThreadsOK /\ Unpublished
  BY <1>7 DEF ThreadsOK, ThreadOK, Unpublished, Publishing
<1> QED
  BY <1>1, <1>4, <1>5, <1>6, <1>8 DEF IInv, TablesOK

\* Every step of a handler keeps the invariant.
LEMMA HandlerIInv == ASSUME IInv, NEW p \in Threads, HandlerStep(p) PROVE IInv'
<1>1. CASE RegisterConvert(p)
  BY <1>1, RegisterStep DEF RegisterConvert, OnRegistered, Kinds
<1>2. CASE RegisterAnonymize(p)
  BY <1>2, RegisterStep DEF RegisterAnonymize, OnRegistered, Kinds
<1>3. CASE RegisterEntities(p)
  BY <1>3, RegisterStep DEF RegisterEntities, OnRegistered, Kinds
<1>4. CASE ConvertPayload(p) \/ AnonymizePayload(p)
  BY <1>4, PayloadStep DEF ConvertPayload, AnonymizePayload, OnRegistered
<1>5. CASE EnsureConvert(p) \/ EnsureAnonymize(p)
  BY <1>5, EnsureStep DEF EnsureConvert, EnsureAnonymize, Singletons, Kinds
<1>6. CASE TriggerAnonymize(p) \/ CreateResolveKeys(p) \/ CreateExtract(p)
  BY <1>6, TriggerAnonymizeStep, CreateResolveKeysStep, CreateExtractStep
<1>7. CASE ListProgress(p) \/ ListFail(p) \/ Progress(p) \/ FailLoop(p) \/ FailRequest(p)
  BY <1>7, ListProgressStep, ListFailStep, ProgressStep, FailLoopStep, FailRequestStep
<1>8. CASE SetRunning(p) \/ Publish(p) \/ MarkTaskFailed(p) \/ MarkRequestFailed(p)
  BY <1>8, SetRunningStep, PublishStep, MarkTaskFailedStep, MarkRequestFailedStep
<1>9. CASE UpsertKeys(p) \/ SaveSchema(p) \/ FindTarget(p) \/ Persist(p) \/ Complete(p)
  BY <1>9, UpsertKeysStep, SaveSchemaStep, FindTargetStep, PersistStep, CompleteStep
<1> QED
  BY <1>1, <1>2, <1>3, <1>4, <1>5, <1>6, <1>7, <1>8, <1>9 DEF HandlerStep

\* Every step of anybody keeps the invariant.
LEMMA NextIInv == IInv /\ [Next]_vars => IInv'
<1>1. ASSUME IInv, NEW p \in Threads, NextOf(p) PROVE IInv'
  <2>1. CASE HandlerStep(p)
    BY <1>1, <2>1, HandlerIInv
  <2>2. ASSUME NEW r \in Requests, NEW d \in Docs, NEW a \in BOOLEAN, Initiate(p, r, d, a) PROVE IInv'
    BY <1>1, <2>2, InitiateStep
  <2>3. ASSUME NEW d \in Docs, CreateConvert(p, d) PROVE IInv'
    BY <1>1, <2>3, CreateConvertStep
  <2>4. ASSUME NEW m \in queue, WorkerAnswer(p, m) PROVE IInv'
    BY <1>1, <2>4, WorkerStep
  <2>5. ASSUME NEW m \in queue \cup answered, WorkerRepeat(p, m) PROVE IInv'
    BY <1>1, <2>5, WorkerStep
  <2>6. CASE PublishError(p) \/ StepError(p) \/ Abort(p)
    BY <1>1, <2>6, PublishErrorStep, StepErrorStep, AbortStep
  <2> QED
    BY <1>1, <2>1, <2>2, <2>3, <2>4, <2>5, <2>6 DEF NextOf
<1>2. ASSUME IInv, NEW m \in queue, MessageLost(m) PROVE IInv'
  BY <1>2, MessageLostStep
<1>3. ASSUME IInv, NEW id \in TaskIds, WatchdogRequeue(id) \/ WatchdogFail(id) PROVE IInv'
  BY <1>3, WatchdogStep
<1>4. ASSUME IInv, UNCHANGED vars PROVE IInv'
  <2>1. Grows /\ TablesOK'
    BY <1>4, NoWrite DEF vars, tables, IInv, TypeOK, TablesOK, Messages
  <2>2. TypeOK'
    BY <1>4 DEF vars, IInv, TypeOK
  <2>3. Unpublished'
    BY <1>4 DEF vars, IInv, Unpublished, Secret, Exists
  <2> QED
    BY <1>4, <2>1, <2>2, <2>3, OutsideStep DEF vars
<1> QED
  BY <1>1, <1>2, <1>3, <1>4 DEF Next

\* IInv holds in every reachable state.
THEOREM Inductive == Spec => []IInv
BY InitIInv, NextIInv, PTL DEF Spec

\* The tables, the queue and the handlers keep their types.
THEOREM TypeCorrect == Spec => []TypeOK
<1>1. IInv => TypeOK
  BY DEF IInv
<1> QED
  BY <1>1, Inductive, PTL

\* However many handlers meet in Progress and in triggerAnonymize, a task is
\* pushed by the one whose INSERT made it, once: ON CONFLICT DO NOTHING decides.
THEOREM PublishOnce == Spec => []PublishedOnce
<1>1. IInv => PublishedOnce
  BY DEF IInv, TablesOK
<1> QED
  BY <1>1, Inductive, PTL

\* No interleaving makes a task of a request read a text the request did not
\* ask for, or one that was not registered: the anonymized text in particular.
THEOREM ReadsTarget == Spec => []TaskReadsTarget
<1>1. IInv => TaskReadsTarget
  BY DEF IInv, TablesOK
<1> QED
  BY <1>1, Inductive, PTL

\* No stage of a request is skipped, with callbacks delivered twice, handlers
\* aborted between any two statements and statements that fail.
THEOREM ChainOrdered == Spec => []ChainInOrder
<1>1. IInv => ChainInOrder
  BY DEF IInv, TablesOK, Chain, ChainInOrder
<1> QED
  BY <1>1, Inductive, PTL

-----------------------------------------------------------------------------
(***************************************************************************)
(* Pipeline implements ExtractionFlow: its initial state is one of         *)
(* ExtractionFlow, and each of its steps is a step of ExtractionFlow or    *)
(* leaves what ExtractionFlow speaks of alone.  The hypotheses of the      *)
(* abstract steps (the text is there, the schema is stored, extraction has *)
(* not begun) come from IInv: the code does not test them when it writes.  *)
(***************************************************************************)

\* The refinement mapping, by name.
Text == [d \in Docs |-> artifact[d] \ {"anonymize_entities"}]
StageOf == [r \in Requests |-> Stage(r)]
Wanted == [r \in Requests |-> IF request[r].doc = None THEN None ELSE <<request[r].doc, Target(r)>>]
Schema == [r \in Requests |-> request[r].resolved_schema]
OutcomeOf(s) == IF s \in {"completed", "failed"} THEN s ELSE "open"
Outcome == [r \in Requests |-> OutcomeOf(request[r].status)]

\* The variables of ExtractionFlow are unchanged if these are.
LEMMA FlowVars ==
    ASSUME UNCHANGED <<Text, StageOf, Wanted, Schema, Outcome>>
    PROVE  UNCHANGED Flow!vars
BY DEF Flow!vars, Text, StageOf, Wanted, Schema, Outcome, OutcomeOf

\* The stage of a request depends on which rows exist.
LEMMA StageSame ==
    ASSUME NEW r \in Requests,
           request'[r].status = "absent" <=> request[r].status = "absent",
           \A m \in PerRequest : Exists(<<r, m>>)' <=> Exists(<<r, m>>)
    PROVE  Stage(r)' = Stage(r)
<1>1. "extract" \in PerRequest /\ "resolve_keys" \in PerRequest
  BY DEF PerRequest
<1>2. (Exists(<<r, "extract">>)' <=> Exists(<<r, "extract">>))
      /\ (Exists(<<r, "resolve_keys">>)' <=> Exists(<<r, "resolve_keys">>))
  BY <1>1
<1> QED
  BY <1>2 DEF Stage

\* The stage of a request that exists.
LEMMA StageValue ==
    ASSUME IInv, NEW r \in Requests, request[r].doc \in Docs
    PROVE  /\ Stage(r) # "none"
           /\ Exists(<<r, "extract">>) => Stage(r) = "extracting"
           /\ Exists(<<r, "resolve_keys">>) /\ ~Exists(<<r, "extract">>) => Stage(r) = "resolving"
           /\ ~Exists(<<r, "resolve_keys">>) => Stage(r) = "submitted"
<1>1. request[r].status # "absent"
  BY DEF IInv, TablesOK, RequestRows
<1>2. ~Exists(<<r, "resolve_keys">>) => ~Exists(<<r, "extract">>)
  BY DEF IInv, TablesOK, Chain
<1>3. CASE Exists(<<r, "extract">>)
  BY <1>1, <1>2, <1>3 DEF Stage
<1>4. CASE Exists(<<r, "resolve_keys">>) /\ ~Exists(<<r, "extract">>)
  BY <1>1, <1>4 DEF Stage
<1>5. CASE ~Exists(<<r, "resolve_keys">>)
  BY <1>1, <1>2, <1>5 DEF Stage
<1> QED
  BY <1>3, <1>4, <1>5

\* A step that writes neither requests nor texts, and makes no task of a
\* request, does not show.
LEMMA FlowStutter ==
    ASSUME UNCHANGED <<request, Text>>,
           \A r \in Requests : \A m \in PerRequest : Exists(<<r, m>>)' <=> Exists(<<r, m>>)
    PROVE  UNCHANGED Flow!vars
<1>1. \A r \in Requests : Stage(r)' = Stage(r)
  BY StageSame
<1>2. UNCHANGED <<StageOf, Wanted, Schema, Outcome>>
  BY <1>1 DEF StageOf, Wanted, Schema, Outcome, Target
<1> QED
  BY <1>2, FlowVars

\* What shows of a write of the status of a request.
LEMMA FlowStatus ==
    ASSUME IInv, NEW r \in Requests, request[r].doc \in Docs,
           NEW s \in RequestStatuses \ {"absent"},
           SetExtractionRequestStatus(r, s),
           UNCHANGED <<task, artifact>>
    PROVE  /\ UNCHANGED <<Text, StageOf, Wanted, Schema>>
           /\ Outcome' = [Outcome EXCEPT ![r] = OutcomeOf(s)]
<1>1. /\ request'[r].status = s
      /\ \A x \in Requests : /\ request'[x].doc = request[x].doc
                             /\ request'[x].anonymize = request[x].anonymize
                             /\ request'[x].resolved_schema = request[x].resolved_schema
                             /\ x # r => request'[x].status = request[x].status
  BY StatusRow DEF IInv, TypeOK
<1>2. request[r].status # "absent"
  BY DEF IInv, TablesOK, RequestRows
<1>3. \A x \in Requests : Stage(x)' = Stage(x)
  BY <1>1, <1>2, StageSame DEF Exists
<1>4. \A x \in Requests : Target(x)' = Target(x)
  BY <1>1, TargetFixed
<1> QED
  BY <1>1, <1>3, <1>4 DEF Text, StageOf, Wanted, Schema, Outcome

\* Writing "failed" to a request that exists.
LEMMA FlowFail ==
    ASSUME IInv, NEW r \in Requests, request[r].doc \in Docs,
           SetExtractionRequestStatus(r, "failed"),
           UNCHANGED <<task, artifact>>
    PROVE  Flow!Fail(r)
<1>1. /\ UNCHANGED <<Text, StageOf, Wanted, Schema>>
      /\ Outcome' = [Outcome EXCEPT ![r] = OutcomeOf("failed")]
  BY FlowStatus DEF RequestStatuses
<1>2. StageOf[r] # "none"
  BY StageValue DEF StageOf
<1> QED
  BY <1>1, <1>2 DEF Flow!Fail, Text, StageOf, Wanted, Schema, Outcome, OutcomeOf

\* The tables that show are left alone.
LEMMA FlowSame ==
    ASSUME UNCHANGED <<task, request, artifact>>
    PROVE  UNCHANGED Flow!vars
BY FlowStutter DEF Exists, Text

\* A write to a task that exists does not show.
LEMMA FlowTask ==
    ASSUME IInv, NEW id \in TaskIds, Exists(id),
           task'[id].status # "absent",
           \A x \in TaskIds : x # id => task'[x] = task[x],
           UNCHANGED <<request, artifact>>
    PROVE  UNCHANGED Flow!vars
<1>1. \A x \in TaskIds : Exists(x)' <=> Exists(x)
  BY DEF Exists
<1>2. \A r \in Requests : \A m \in PerRequest : <<r, m>> \in TaskIds
  BY DEF TaskIds
<1> QED
  BY <1>1, <1>2, FlowStutter DEF Text

\* Nor does the insertion of a convert or an anonymize task.
LEMMA FlowSingleton ==
    ASSUME IInv, NEW id \in Docs \X Singletons, NEW in \in Kinds \cup {"original"},
           InsertTask(id, in), UNCHANGED <<request, artifact>>
    PROVE  UNCHANGED Flow!vars
<1>1. id \in TaskIds
  BY DEF TaskIds
<1>2. \A x \in TaskIds : x # id => task'[x] = task[x]
  BY <1>1, InsertTaskRow DEF IInv, TypeOK
<1>3. \A r \in Requests : \A m \in PerRequest : <<r, m>> \in TaskIds /\ <<r, m>> # id
  BY DEF TaskIds, Singletons, PerRequest
<1> QED
  BY <1>2, <1>3, FlowStutter DEF Text, Exists

\* An artifact is registered: a text, or the entities, which do not show.
LEMMA FlowRegister ==
    ASSUME IInv, NEW d \in Docs, NEW k \in Kinds,
           artifact' = [artifact EXCEPT ![d] = @ \cup {k}],
           UNCHANGED <<task, request>>
    PROVE  IF k = "anonymize_entities" THEN UNCHANGED Flow!vars ELSE Flow!AddText(d, k)
<1>1. UNCHANGED <<StageOf, Wanted, Schema, Outcome>>
  BY DEF StageOf, Wanted, Schema, Outcome, Stage, Exists, Target
<1>2. CASE k = "anonymize_entities"
  <2>1. UNCHANGED Text
    BY <1>2 DEF IInv, TypeOK, Text
  <2> QED
    BY <1>1, <1>2, <2>1, FlowVars
<1>3. CASE k # "anonymize_entities"
  <2>1. Text' = [Text EXCEPT ![d] = @ \cup {k}]
    BY <1>3 DEF IInv, TypeOK, Text
  <2> QED
    BY <1>1, <1>3, <2>1 DEF Flow!AddText, Text, StageOf, Wanted, Schema, Outcome, OutcomeOf
<1> QED
  BY <1>2, <1>3

\* A task of a request is inserted.
LEMMA FlowMade ==
    ASSUME IInv, NEW r \in Requests, NEW m \in PerRequest, request[r].doc \in Docs,
           m = "extract" => Exists(<<r, "resolve_keys">>),
           ~Exists(<<r, m>>), NEW in \in Kinds \cup {"original"}, InsertTask(<<r, m>>, in),
           UNCHANGED <<request, artifact>>
    PROVE  /\ StageOf' = [StageOf EXCEPT ![r] = IF m = "extract" THEN "extracting" ELSE "resolving"]
           /\ StageOf[r] = IF m = "extract" THEN "resolving" ELSE "submitted"
           /\ UNCHANGED <<Text, Wanted, Schema, Outcome>>
<1>1. <<r, m>> \in TaskIds
  BY DEF TaskIds
<1>2. /\ Exists(<<r, m>>)'
      /\ \A x \in TaskIds : x # <<r, m>> => (Exists(x)' <=> Exists(x))
  <2>1. /\ task'[<<r, m>>] = [status |-> "pending", payload |-> "empty", input |-> in, retry_count |-> 0]
        /\ \A x \in TaskIds : x # <<r, m>> => task'[x] = task[x]
    BY <1>1, InsertTaskRow DEF IInv, TypeOK
  <2> QED
    BY <2>1 DEF Exists
<1>3. \A x \in Requests : \A n \in PerRequest : <<x, n>> \in TaskIds
  BY DEF TaskIds
<1>4. \A x \in Requests : x # r => Stage(x)' = Stage(x)
  BY <1>2, <1>3, StageSame
<1>5. request[r].status # "absent"
  BY DEF IInv, TablesOK, RequestRows
<1>6. <<r, "resolve_keys">> \in TaskIds /\ <<r, "extract">> \in TaskIds
  BY RequestTaskIds
<1>7. Stage(r)' = IF m = "extract" THEN "extracting" ELSE "resolving"
  <2>1. CASE m = "extract"
    BY <1>2, <1>5, <2>1 DEF Stage
  <2>2. CASE m = "resolve_keys"
    <3>1. ~Exists(<<r, "extract">>)
      BY <2>2 DEF IInv, TablesOK, Chain
    <3>2. ~Exists(<<r, "extract">>)'
      BY <1>2, <1>6, <2>2, <3>1
    <3> QED
      BY <1>2, <1>5, <2>2, <3>2 DEF Stage
  <2> QED
    BY <2>1, <2>2 DEF PerRequest
<1>8. Stage(r) = IF m = "extract" THEN "resolving" ELSE "submitted"
  BY StageValue DEF PerRequest
<1>9. UNCHANGED <<Text, Wanted, Schema, Outcome>>
  BY DEF Text, Wanted, Schema, Outcome, Target
<1> QED
  BY <1>4, <1>7, <1>8, <1>9 DEF StageOf

-----------------------------------------------------------------------------
(* The steps that show *)

\* POST /documents/:id/extract submits a request.
LEMMA FlowInitiate ==
    ASSUME IInv, NEW p \in Threads, NEW r \in Requests, NEW d \in Docs, NEW a \in BOOLEAN,
           Initiate(p, r, d, a)
    PROVE  \E k \in Flow!Texts : Flow!Submit(r, d, k)
<1> DEFINE k == IF a THEN "anonymize_doc" ELSE "convert_md"
<1>0. k \in Flow!Texts
  BY DEF Flow!Texts
<1>1. /\ request'[r].status = "pending" /\ request'[r].doc = d
      /\ request'[r].anonymize = a /\ request'[r].resolved_schema = None
      /\ \A x \in Requests : x # r => request'[x] = request[x]
      /\ UNCHANGED <<task, artifact>>
  BY DEF Initiate, IInv, TypeOK
<1>2. request[r].status = "absent" /\ request[r].doc = None /\ request[r].resolved_schema = None
  <2>1. request[r].status = "absent"
    BY DEF Initiate
  <2>2. request[r] \in Request
    BY DEF IInv, TypeOK
  <2> QED
    BY <2>1, <2>2 DEF IInv, TablesOK, RequestRows, Request
<1>3. ~Exists(<<r, "extract">>) /\ ~Exists(<<r, "resolve_keys">>)
  BY <1>2 DEF IInv, TablesOK, TaskRows, PerRequest
<1>4. Stage(r) = "none" /\ Stage(r)' = "submitted"
  BY <1>1, <1>2, <1>3 DEF Stage, Exists
<1>5. \A x \in Requests : x # r => Stage(x)' = Stage(x) /\ Target(x)' = Target(x)
  BY <1>1, StageSame, TargetFixed DEF Exists
<1>6. Target(r)' = k
  BY <1>1 DEF Target
<1>7. StageOf[r] = "none" /\ StageOf' = [StageOf EXCEPT ![r] = "submitted"]
  BY <1>4, <1>5 DEF StageOf
<1>8. Wanted' = [Wanted EXCEPT ![r] = <<d, k>>]
  <2>1. Wanted'[r] = <<d, k>>
    BY <1>1, <1>6 DEF Wanted
  <2>2. \A x \in Requests : x # r => Wanted'[x] = Wanted[x]
    BY <1>1, <1>5 DEF Wanted
  <2> QED
    BY <2>1, <2>2 DEF Wanted
<1>9. UNCHANGED <<Text, Schema>>
  BY <1>1, <1>2 DEF Text, Schema
<1>10. UNCHANGED Outcome
  BY <1>1, <1>2 DEF Outcome, OutcomeOf
<1>11. Flow!Submit(r, d, k)
  BY <1>7, <1>8, <1>9, <1>10 DEF Flow!Submit, Text, StageOf, Wanted, Schema, Outcome, OutcomeOf
<1> QED
  BY <1>0, <1>11

\* enqueueResolveKeys begins the resolving of the questions, unless it began.
LEMMA FlowCreateResolveKeys ==
    ASSUME IInv, NEW p \in Threads, CreateResolveKeys(p)
    PROVE  UNCHANGED Flow!vars \/ \E r \in Requests : Flow!StartResolving(r)
<1>1. /\ thread[p].req # None /\ thread[p].doc \in Docs
      /\ request[thread[p].req.id].doc = thread[p].doc
      /\ Target(thread[p].req.id) \in artifact[thread[p].doc]
  BY DEF CreateResolveKeys, IInv, ThreadsOK, ThreadOK, Called, Remembers, OnRequest
<1>2. PICK r \in Requests : r = thread[p].req.id
  <2>1. thread[p] \in Thread
    BY DEF IInv, TypeOK
  <2> QED
    BY <1>1, <2>1 DEF Thread, Snapshot
<1>3. CASE Exists(<<r, "resolve_keys">>)
  BY <1>2, <1>3, FlowSame DEF CreateResolveKeys
<1>4. CASE ~Exists(<<r, "resolve_keys">>)
  <2>1. InsertTask(<<r, "resolve_keys">>, Target(r)) /\ UNCHANGED <<request, artifact>>
    BY <1>2, <1>4 DEF CreateResolveKeys
  <2>2. Target(r) \in Kinds /\ "resolve_keys" \in PerRequest
    BY DEF Target, Kinds, PerRequest
  <2>3. /\ StageOf' = [StageOf EXCEPT ![r] = "resolving"]
        /\ StageOf[r] = "submitted"
        /\ UNCHANGED <<Text, Wanted, Schema, Outcome>>
    BY <1>1, <1>2, <1>4, <2>1, <2>2, FlowMade
  <2>4. Wanted[r] = <<request[r].doc, Target(r)>>
    BY <1>1, <1>2 DEF Wanted
  <2>5. Wanted[r][2] \in Text[Wanted[r][1]]
    BY <1>1, <1>2, <2>4 DEF Text, Target
  <2>6. Flow!StartResolving(r)
    BY <2>3, <2>5 DEF Flow!StartResolving, Text, StageOf, Wanted, Schema, Outcome, OutcomeOf
  <2> QED
    BY <2>6
<1> QED
  BY <1>3, <1>4

\* enqueueExtract begins the extraction, unless it began.
LEMMA FlowCreateExtract ==
    ASSUME IInv, NEW p \in Threads, CreateExtract(p)
    PROVE  UNCHANGED Flow!vars \/ \E r \in Requests : Flow!StartExtracting(r)
<1>1. PICK r \in Requests : r = RequestOf(p) /\ thread[p].task = <<r, "resolve_keys">>
  <2>1. thread[p].task \in Requests \X {"resolve_keys"}
    BY DEF CreateExtract, IInv, ThreadsOK, ThreadOK, Called, ResolvedKnown, OnResolved
  <2>2. thread[p].task[1] \in Requests /\ thread[p].task = <<thread[p].task[1], "resolve_keys">>
    BY <2>1
  <2> QED
    BY <2>2 DEF RequestOf
<1>2. /\ Exists(<<r, "resolve_keys">>) /\ request[r].doc \in Docs
      /\ request[r].resolved_schema # None
  <2>1. thread[p].task # None
    BY <1>1, RequestTaskIds
  <2>2. Remembers(thread[p]) /\ ResolvedKnown(thread[p]) /\ thread[p].pc = "createExtract"
    BY DEF CreateExtract, IInv, ThreadsOK, ThreadOK, Called
  <2>3. Exists(<<r, "resolve_keys">>)
    BY <1>1, <2>1, <2>2 DEF Remembers
  <2>4. request[r].doc \in Docs
    BY <2>3 DEF IInv, TablesOK, TaskRows, PerRequest
  <2>5. thread[p].task[1] = r
    BY <1>1
  <2>6. request[r].resolved_schema # None
    BY <2>2, <2>5 DEF ResolvedKnown, OnResolved
  <2> QED
    BY <2>3, <2>4, <2>6
<1>3. CASE Exists(<<r, "extract">>)
  BY <1>1, <1>3, FlowSame DEF CreateExtract
<1>4. CASE ~Exists(<<r, "extract">>)
  <2>1. InsertTask(<<r, "extract">>, Target(r)) /\ UNCHANGED <<request, artifact>>
    BY <1>1, <1>4 DEF CreateExtract
  <2>2. Target(r) \in Kinds /\ "extract" \in PerRequest
    BY DEF Target, Kinds, PerRequest
  <2>3. /\ StageOf' = [StageOf EXCEPT ![r] = "extracting"]
        /\ StageOf[r] = "resolving"
        /\ UNCHANGED <<Text, Wanted, Schema, Outcome>>
    BY <1>2, <1>4, <2>1, <2>2, FlowMade
  <2>4. Schema[r] # None
    BY <1>2 DEF Schema
  <2>5. Flow!StartExtracting(r)
    BY <2>3, <2>4 DEF Flow!StartExtracting, Text, StageOf, Wanted, Schema, Outcome, OutcomeOf
  <2> QED
    BY <2>5
<1> QED
  BY <1>3, <1>4

\* UpdateExtractionRequestSchema stores what the questions were resolved to.
LEMMA FlowSaveSchema ==
    ASSUME IInv, NEW p \in Threads, SaveSchema(p)
    PROVE  \E r \in Requests : \E s \in Schemas : Flow!Resolve(r, s)
<1>1. PICK r \in Requests : r = RequestOf(p) /\ thread[p].task = <<r, "resolve_keys">>
  <2>1. thread[p].task \in Requests \X {"resolve_keys"}
    BY DEF SaveSchema, IInv, ThreadsOK, ThreadOK, Called, ResolvedKnown, OnResolved
  <2>2. thread[p].task[1] \in Requests /\ thread[p].task = <<thread[p].task[1], "resolve_keys">>
    BY <2>1
  <2> QED
    BY <2>2 DEF RequestOf
<1>2. PICK s \in Schemas : s = thread[p].payload
  BY DEF SaveSchema, IInv, ThreadsOK, ThreadOK, Called, ResolvedKnown, OnResolved
<1>3. Exists(<<r, "resolve_keys">>) /\ request[r].doc \in Docs
  <2>1. thread[p].task # None
    BY <1>1, RequestTaskIds
  <2>2. Remembers(thread[p])
    BY DEF SaveSchema, IInv, ThreadsOK, ThreadOK
  <2>3. Exists(<<r, "resolve_keys">>)
    BY <1>1, <2>1, <2>2 DEF Remembers
  <2> QED
    BY <2>3 DEF IInv, TablesOK, TaskRows, PerRequest
<1>4. /\ request' = [request EXCEPT ![r].resolved_schema = s]
      /\ UNCHANGED <<task, artifact>>
  BY <1>1, <1>2 DEF SaveSchema
<1>5. /\ request'[r].resolved_schema = s
      /\ \A x \in Requests : /\ request'[x].doc = request[x].doc
                             /\ request'[x].anonymize = request[x].anonymize
                             /\ request'[x].status = request[x].status
                             /\ x # r => request'[x].resolved_schema = request[x].resolved_schema
  <2>1. request[r] \in Request /\ request \in [Requests -> Request]
    BY DEF IInv, TypeOK
  <2> QED
    BY <1>4, <2>1 DEF Request
<1>6. StageOf[r] \in {"resolving", "extracting"}
  BY <1>3, StageValue DEF StageOf
<1>7. \A x \in Requests : Stage(x)' = Stage(x) /\ Target(x)' = Target(x)
  BY <1>4, <1>5, StageSame, TargetFixed DEF Exists
<1>8. UNCHANGED <<Text, StageOf, Wanted, Outcome>>
  BY <1>4, <1>5, <1>7 DEF Text, StageOf, Wanted, Outcome
<1>9. Schema' = [Schema EXCEPT ![r] = s]
  BY <1>5 DEF Schema
<1>10. Flow!Resolve(r, s)
  BY <1>6, <1>8, <1>9 DEF Flow!Resolve, Text, StageOf, Wanted, Schema, Outcome, OutcomeOf
<1> QED
  BY <1>10

\* A callback of extract completes its request.
LEMMA FlowComplete ==
    ASSUME IInv, NEW p \in Threads, Complete(p)
    PROVE  \E r \in Requests : Flow!Complete(r)
<1>1. PICK r \in Requests : r = RequestOf(p) /\ thread[p].task = <<r, "extract">>
  <2>1. thread[p].task \in Requests \X {"extract"}
    BY DEF Complete, IInv, ThreadsOK, ThreadOK, Called, OnExtracted
  <2>2. thread[p].task[1] \in Requests /\ thread[p].task = <<thread[p].task[1], "extract">>
    BY <2>1
  <2> QED
    BY <2>2 DEF RequestOf
<1>2. Exists(<<r, "extract">>) /\ request[r].doc \in Docs
  <2>1. thread[p].task # None
    BY <1>1, RequestTaskIds
  <2>2. Remembers(thread[p])
    BY DEF Complete, IInv, ThreadsOK, ThreadOK
  <2>3. Exists(<<r, "extract">>)
    BY <1>1, <2>1, <2>2 DEF Remembers
  <2> QED
    BY <2>3 DEF IInv, TablesOK, TaskRows, PerRequest
<1>3. SetExtractionRequestStatus(r, "completed") /\ UNCHANGED <<task, artifact>>
  BY <1>1 DEF Complete
<1>4. /\ UNCHANGED <<Text, StageOf, Wanted, Schema>>
      /\ Outcome' = [Outcome EXCEPT ![r] = OutcomeOf("completed")]
  BY <1>2, <1>3, FlowStatus DEF RequestStatuses
<1>5. StageOf[r] = "extracting"
  BY <1>2, StageValue DEF StageOf
<1>6. Flow!Complete(r)
  BY <1>4, <1>5 DEF Flow!Complete, Text, StageOf, Wanted, Schema, Outcome, OutcomeOf
<1> QED
  BY <1>6

\* enqueueResolveKeys sets its request to running, whatever happened to it
\* since it was read; but nobody has extracted for it yet, because the task
\* that would bring that about is not published.
LEMMA FlowSetRunning ==
    ASSUME IInv, NEW p \in Threads, SetRunning(p)
    PROVE  \E r \in Requests : Flow!Reopen(r)
<1>1. /\ thread[p].req # None /\ thread[p].doc \in Docs
      /\ request[thread[p].req.id].doc = thread[p].doc
      /\ thread[p].made = <<thread[p].req.id, "resolve_keys">>
  BY DEF SetRunning, IInv, ThreadsOK, ThreadOK, Called, Remembers, OnRequest
<1>2. PICK r \in Requests : r = thread[p].req.id
  <2>1. thread[p] \in Thread
    BY DEF IInv, TypeOK
  <2> QED
    BY <1>1, <2>1 DEF Thread, Snapshot
<1>3. Exists(<<r, "resolve_keys">>) /\ ~Exists(<<r, "extract">>)
  <2>1. thread[p].made # None
    BY <1>1, <1>2, RequestTaskIds
  <2>2. Remembers(thread[p]) /\ Secret(p, thread[p].made)
    BY DEF SetRunning, IInv, ThreadsOK, ThreadOK, Unpublished, Publishing
  <2> QED
    BY <1>1, <1>2, <2>1, <2>2 DEF Remembers, Secret
<1>4. SetExtractionRequestStatus(r, "running") /\ UNCHANGED <<task, artifact>>
  BY <1>2 DEF SetRunning
<1>5. /\ UNCHANGED <<Text, StageOf, Wanted, Schema>>
      /\ Outcome' = [Outcome EXCEPT ![r] = OutcomeOf("running")]
  BY <1>1, <1>2, <1>4, FlowStatus DEF RequestStatuses, InFlight
<1>6. StageOf[r] = "resolving"
  BY <1>1, <1>2, <1>3, StageValue DEF StageOf
<1>7. Flow!Reopen(r)
  BY <1>5, <1>6 DEF Flow!Reopen, Text, StageOf, Wanted, Schema, Outcome, OutcomeOf
<1> QED
  BY <1>7

\* A failed convert or anonymize task fails the requests that were listed.
LEMMA FlowFailLoop ==
    ASSUME IInv, NEW p \in Threads, FailLoop(p)
    PROVE  \E r \in Requests : Flow!Fail(r)
<1>1. PICK q \in thread[p].todo : SetExtractionRequestStatus(q.id, "failed")
  BY DEF FailLoop
<1>2. q.id \in Requests
  <2>1. thread[p] \in Thread
    BY DEF IInv, TypeOK
  <2> QED
    BY <2>1 DEF Thread, Snapshot
<1>3. request[q.id].doc \in Docs
  BY DEF FailLoop, IInv, ThreadsOK, ThreadOK, Remembers
<1> QED
  BY <1>1, <1>2, <1>3, FlowFail DEF FailLoop

\* A failed per-request task or chaining step fails its request.
LEMMA FlowFailRequest ==
    ASSUME IInv, NEW p \in Threads, FailRequest(p)
    PROVE  \E r \in Requests : Flow!Fail(r)
<1>1. thread[p].task \in Requests \X PerRequest /\ Remembers(thread[p])
  BY DEF FailRequest, IInv, ThreadsOK, ThreadOK, Called
<1>2. thread[p].task \in TaskIds
  BY <1>1 DEF TaskIds
<1>3. Exists(thread[p].task)
  BY <1>1, <1>2 DEF Remembers
<1>4. RequestOf(p) \in Requests /\ request[RequestOf(p)].doc \in Docs
  BY <1>1, <1>3, TaskRequest DEF RequestOf
<1> QED
  BY <1>4, FlowFail DEF FailRequest

\* So does one that could not be published.
LEMMA FlowMarkRequestFailed ==
    ASSUME IInv, NEW p \in Threads, MarkRequestFailed(p)
    PROVE  \E r \in Requests : Flow!Fail(r)
<1>1. thread[p].made \in Requests \X PerRequest /\ Remembers(thread[p])
  BY DEF MarkRequestFailed, IInv, ThreadsOK, ThreadOK, Called
<1>2. thread[p].made \in TaskIds
  BY <1>1 DEF TaskIds
<1>3. Exists(thread[p].made)
  BY <1>1, <1>2 DEF Remembers
<1>4. thread[p].made[1] \in Requests /\ request[thread[p].made[1]].doc \in Docs
  BY <1>1, <1>3, TaskRequest
<1> QED
  BY <1>4, FlowFail DEF MarkRequestFailed

-----------------------------------------------------------------------------
(* The steps that do not show *)

\* HandleStatusUpdate writes a task that exists: a message named it.
LEMMA FlowCallback ==
    ASSUME IInv, NEW p \in Threads, NEW m \in queue \cup answered,
           NEW s \in TaskStatuses \ {"absent"}, NEW x \in Payloads \cup {"NULL"},
           HandleStatusUpdate(p, m.task, s, x)
    PROVE  UNCHANGED Flow!vars
<1>1. PICK id \in TaskIds : id = m.task /\ Exists(id)
  BY DEF IInv, TypeOK, Message, TablesOK, Messages
<1>2. PICK y \in Payloads : y = Coalesce(x, task[id].payload)
  BY DEF Coalesce, IInv, TypeOK, Task
<1>3. task' = [task EXCEPT ![id].status = s, ![id].payload = y] /\ UNCHANGED <<request, artifact>>
  BY <1>1, <1>2 DEF HandleStatusUpdate
<1>4. task'[id].status = s /\ \A z \in TaskIds : z # id => task'[z] = task[z]
  <2>1. task \in [TaskIds -> Task] /\ s \in TaskStatuses
    BY DEF IInv, TypeOK
  <2> QED
    BY <1>3, <2>1 DEF Task
<1> QED
  BY <1>1, <1>3, <1>4, FlowTask

\* What a worker sends, first or again.
LEMMA FlowWorker ==
    ASSUME IInv, NEW p \in Threads, NEW m \in queue \cup answered,
           WorkerAnswer(p, m) \/ WorkerRepeat(p, m)
    PROVE  UNCHANGED Flow!vars
<1>1. PICK s \in TaskStatuses \ {"absent"}, x \in Payloads \cup {"NULL"} : HandleStatusUpdate(p, m.task, s, x)
  <2>1. Results(m.task) \cup {"NULL"} \subseteq Payloads \cup {"NULL"}
    BY DEF Results, Payloads, Useless
  <2>2. {"processing", "completed", "failed"} \subseteq TaskStatuses \ {"absent"}
    BY DEF TaskStatuses, Active
  <2>3. \E s \in {"processing", "completed", "failed"}, x \in Results(m.task) \cup {"NULL"} :
            HandleStatusUpdate(p, m.task, s, x)
    BY DEF WorkerAnswer, WorkerRepeat
  <2> QED
    BY <2>1, <2>2, <2>3
<1> QED
  BY <1>1, FlowCallback

\* updateTaskPayload after the registration, and markTaskFailed.
LEMMA FlowTaskStep ==
    ASSUME IInv, NEW p \in Threads,
           ConvertPayload(p) \/ AnonymizePayload(p) \/ MarkTaskFailed(p)
    PROVE  UNCHANGED Flow!vars
<1>1. CASE ConvertPayload(p) \/ AnonymizePayload(p)
  <2>1. thread[p].task \in Docs \X Singletons /\ Remembers(thread[p])
    BY <1>1 DEF ConvertPayload, AnonymizePayload, IInv, ThreadsOK, ThreadOK, Called, OnRegistered
  <2>2. thread[p].task \in TaskIds
    BY <2>1 DEF TaskIds
  <2>3. Exists(thread[p].task)
    BY <2>1, <2>2 DEF Remembers
  <2>4. UpdateTaskResultPayload(thread[p].task, "final") /\ UNCHANGED <<request, artifact>>
    BY <1>1 DEF ConvertPayload, AnonymizePayload
  <2>5. /\ task'[thread[p].task].status = task[thread[p].task].status
        /\ \A y \in TaskIds : y # thread[p].task => task'[y] = task[y]
    BY <2>2, <2>4, PayloadRow DEF IInv, TypeOK, Payloads
  <2> QED
    BY <2>2, <2>3, <2>4, <2>5, FlowTask DEF Exists
<1>2. CASE MarkTaskFailed(p)
  <2>1. thread[p].made \in TaskIds /\ Remembers(thread[p])
    BY <1>2 DEF MarkTaskFailed, IInv, ThreadsOK, ThreadOK, Called, OnMade
  <2>2. Exists(thread[p].made)
    BY <2>1 DEF Remembers
  <2>3. /\ task'[thread[p].made].status = "failed"
        /\ \A y \in TaskIds : y # thread[p].made => task'[y] = task[y]
        /\ UNCHANGED <<request, artifact>>
    BY <1>2, <2>1 DEF MarkTaskFailed, IInv, TypeOK, Task
  <2> QED
    BY <2>1, <2>2, <2>3, FlowTask
<1> QED
  BY <1>1, <1>2

\* The insertion of a convert or anonymize task, from wherever it is made.
LEMMA FlowSingletonStep ==
    ASSUME IInv, NEW p \in Threads,
           TriggerAnonymize(p) \/ EnsureConvert(p) \/ EnsureAnonymize(p)
    PROVE  UNCHANGED Flow!vars
<1>1. thread[p].doc \in Docs
  BY HasDoc DEF TriggerAnonymize, EnsureConvert, EnsureAnonymize, Ensure
<1>2. PICK m \in Singletons, in \in Kinds \cup {"original"} :
        /\ InsertTask(<<thread[p].doc, m>>, in) \/ UNCHANGED task
        /\ UNCHANGED <<request, artifact>>
  BY DEF TriggerAnonymize, EnsureConvert, EnsureAnonymize, Ensure, Singletons, Kinds
<1>3. <<thread[p].doc, m>> \in Docs \X Singletons
  BY <1>1
<1> QED
  BY <1>2, <1>3, FlowSingleton, FlowSame

\* POST /tasks.
LEMMA FlowCreateConvert ==
    ASSUME IInv, NEW p \in Threads, NEW d \in Docs, CreateConvert(p, d)
    PROVE  UNCHANGED Flow!vars
<1>1. <<d, "convert">> \in Docs \X Singletons /\ "original" \in Kinds \cup {"original"}
  BY DEF Singletons
<1>2. InsertTask(<<d, "convert">>, "original") /\ UNCHANGED <<request, artifact>>
  BY DEF CreateConvert
<1> QED
  BY <1>1, <1>2, FlowSingleton

\* The watchdog writes tasks that exist, only.
LEMMA FlowWatchdog ==
    ASSUME IInv, NEW id \in TaskIds, WatchdogRequeue(id) \/ WatchdogFail(id)
    PROVE  UNCHANGED Flow!vars
<1>1. Exists(id)
  BY DEF WatchdogRequeue, WatchdogFail, CanBeStale, Active, Exists
<1>2. /\ task'[id].status # "absent"
      /\ \A y \in TaskIds : y # id => task'[y] = task[y]
      /\ UNCHANGED <<request, artifact>>
  <2>1. task \in [TaskIds -> Task] /\ task[id] \in Task
    BY DEF IInv, TypeOK
  <2>2. CASE WatchdogRequeue(id)
    BY <2>1, <2>2 DEF WatchdogRequeue, Task
  <2>3. CASE WatchdogFail(id)
    BY <2>1, <2>3 DEF WatchdogFail, Task
  <2> QED
    BY <2>2, <2>3
<1> QED
  BY <1>1, <1>2, FlowTask

-----------------------------------------------------------------------------
(* The refinement *)

\* Every step of a handler that meets no failure.
LEMMA FlowHandler ==
    ASSUME IInv, NEW p \in Threads, HandlerStep(p)
    PROVE  Flow!Next \/ UNCHANGED Flow!vars
<1>1. CASE RegisterConvert(p) \/ RegisterAnonymize(p) \/ RegisterEntities(p)
  <2>1. thread[p].doc \in Docs
    BY <1>1, HasDoc DEF RegisterConvert, RegisterAnonymize, RegisterEntities
  <2>2. PICK k \in Kinds : artifact' = [artifact EXCEPT ![thread[p].doc] = @ \cup {k}]
    BY <1>1 DEF RegisterConvert, RegisterAnonymize, RegisterEntities, Kinds
  <2>3. UNCHANGED <<task, request>>
    BY <1>1 DEF RegisterConvert, RegisterAnonymize, RegisterEntities
  <2>4. k = "anonymize_entities" \/ k \in Flow!Texts
    BY DEF Kinds, Flow!Texts
  <2>5. UNCHANGED Flow!vars \/ Flow!AddText(thread[p].doc, k)
    BY <2>1, <2>2, <2>3, FlowRegister
  <2>6. CASE k = "anonymize_entities"
    BY <2>1, <2>2, <2>3, <2>6, FlowRegister
  <2>7. CASE k \in Flow!Texts
    BY <2>1, <2>5, <2>7 DEF Flow!Next
  <2> QED
    BY <2>4, <2>6, <2>7
<1>2. CASE ConvertPayload(p) \/ AnonymizePayload(p) \/ MarkTaskFailed(p)
  BY <1>2, FlowTaskStep
<1>3. CASE TriggerAnonymize(p) \/ EnsureConvert(p) \/ EnsureAnonymize(p)
  BY <1>3, FlowSingletonStep
<1>4. CASE \/ ListProgress(p) \/ ListFail(p) \/ Progress(p) \/ Publish(p)
           \/ UpsertKeys(p) \/ FindTarget(p) \/ Persist(p)
  BY <1>4, FlowSame DEF ListProgress, ListFail, Progress, Publish, UpsertKeys, FindTarget, Persist, tables
<1>5. CASE FailLoop(p) \/ FailRequest(p) \/ MarkRequestFailed(p)
  BY <1>5, FlowFailLoop, FlowFailRequest, FlowMarkRequestFailed DEF Flow!Next
<1>6. CASE CreateResolveKeys(p) \/ CreateExtract(p)
  BY <1>6, FlowCreateResolveKeys, FlowCreateExtract DEF Flow!Next
<1>7. CASE SaveSchema(p)
  BY <1>7, FlowSaveSchema DEF Flow!Next
<1>8. CASE SetRunning(p) \/ Complete(p)
  BY <1>8, FlowSetRunning, FlowComplete DEF Flow!Next
<1> QED
  BY <1>1, <1>2, <1>3, <1>4, <1>5, <1>6, <1>7, <1>8 DEF HandlerStep

\* Every step of anybody is one of ExtractionFlow or does not show.
LEMMA FlowNext == IInv /\ [Next]_vars => [Flow!Next]_(Flow!vars)
<1> SUFFICES ASSUME IInv, [Next]_vars PROVE Flow!Next \/ UNCHANGED Flow!vars
  OBVIOUS
<1>1. ASSUME NEW p \in Threads, NextOf(p) PROVE Flow!Next \/ UNCHANGED Flow!vars
  <2>1. CASE HandlerStep(p)
    BY <2>1, FlowHandler
  <2>2. ASSUME NEW r \in Requests, NEW d \in Docs, NEW a \in BOOLEAN, Initiate(p, r, d, a)
        PROVE  Flow!Next
    BY <2>2, FlowInitiate DEF Flow!Next
  <2>3. ASSUME NEW d \in Docs, CreateConvert(p, d) PROVE UNCHANGED Flow!vars
    BY <2>3, FlowCreateConvert
  <2>4. ASSUME NEW m \in queue \cup answered, WorkerAnswer(p, m) \/ WorkerRepeat(p, m)
        PROVE  UNCHANGED Flow!vars
    BY <2>4, FlowWorker
  <2>5. CASE PublishError(p) \/ StepError(p) \/ Abort(p)
    BY <2>5, FlowSame DEF PublishError, StepError, Abort, tables
  <2> QED
    BY <1>1, <2>1, <2>2, <2>3, <2>4, <2>5 DEF NextOf
<1>2. ASSUME NEW m \in queue, MessageLost(m) PROVE UNCHANGED Flow!vars
  BY <1>2, FlowSame DEF MessageLost, tables
<1>3. ASSUME NEW id \in TaskIds, WatchdogRequeue(id) \/ WatchdogFail(id) PROVE UNCHANGED Flow!vars
  BY <1>3, FlowWatchdog
<1>4. CASE UNCHANGED vars
  BY <1>4, FlowSame DEF vars
<1> QED
  BY <1>1, <1>2, <1>3, <1>4 DEF Next

\* No request, no text.
LEMMA FlowInit == Init => Flow!Init
<1> SUFFICES ASSUME Init PROVE Flow!Init
  OBVIOUS
<1>1. \A r \in Requests : /\ request[r].status = "absent" /\ request[r].doc = None
                          /\ request[r].resolved_schema = None
  BY DEF Init
<1>2. \A r \in Requests : Stage(r) = "none"
  BY <1>1 DEF Stage
<1>3. Text = [d \in Docs |-> {}]
  BY DEF Init, Text
<1>4. StageOf = [r \in Requests |-> "none"] /\ Wanted = [r \in Requests |-> None]
  BY <1>1, <1>2 DEF StageOf, Wanted
<1>5. Schema = [r \in Requests |-> None] /\ Outcome = [r \in Requests |-> "open"]
  BY <1>1 DEF Schema, Outcome, OutcomeOf
<1> QED
  BY <1>3, <1>4, <1>5 DEF Flow!Init, Text, StageOf, Wanted, Schema, Outcome, OutcomeOf

\* The pipeline, with all its handlers, repeated deliveries, faults and the
\* watchdog, does what ExtractionFlow says of a request and nothing else.
THEOREM Refinement == Spec => ImplementsFlow
BY FlowInit, FlowNext, Inductive, PTL DEF Spec, ImplementsFlow, Flow!Spec
=============================================================================
